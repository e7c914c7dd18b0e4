------------------------------ MODULE DdbProofs ------------------------------
(* Proofs about Ddb, for every set of servers and every bound.             *)
EXTENDS Ddb, Integers, SequenceTheorems, FiniteSetTheorems, WellFoundedInduction, TLAPS

(* A set of naturals has a least element, and one that is bounded has a   *)
(* greatest: the proofs use them in place of induction over the file.      *)
LEMMA Least ==
  ASSUME NEW T, T \subseteq Nat, T # {}
  PROVE  \E x \in T : \A y \in T : x <= y
<1> DEFINE R == OpToRel(<, Nat)
<1>1. IsWellFoundedOn(R, Nat)
  BY NatLessThanWellFounded, ZenonT(60)
<1>3. \A y, x \in Nat : y < x => <<y, x>> \in R
  BY DEF OpToRel
<1> HIDE DEF R
<1>2. PICK x \in T : \A y \in T : ~(<<y, x>> \in R)
  BY <1>1, WFMin
<1>4. ASSUME NEW y \in T PROVE x <= y
  <2>1. x \in Nat /\ y \in Nat
    OBVIOUS
  <2>2. ~(y < x)
    BY <1>2, <1>3, <2>1
  <2> QED
  BY <2>1, <2>2
<1> QED
  BY <1>4

(* A set of naturals with a bound has a greatest element.                  *)
LEMMA Greatest ==
  ASSUME NEW n \in Nat, NEW T, T \subseteq 1..n, T # {}
  PROVE  \E x \in T : \A y \in T : y <= x
<1> DEFINE U == {k \in Nat : \E i \in T : k = n - i}
<1>0. \A i \in T : i \in 1..n /\ n - i \in U
  <2>1. ASSUME NEW i \in T PROVE i \in 1..n /\ n - i \in Nat
    OBVIOUS
  <2> QED
  BY <2>1
<1>1. U \subseteq Nat /\ U # {}
  BY <1>0
<1>2. PICK u \in U : \A v \in U : u <= v
  BY <1>1, Least
<1>3. PICK x \in T : u = n - x
  OBVIOUS
<1>4. ASSUME NEW y \in T PROVE y <= x
  <2>1. n - x <= n - y /\ x \in 1..n /\ y \in 1..n
    BY <1>0, <1>2, <1>3
  <2> QED
  BY <2>1
<1> QED
  BY <1>3, <1>4

(* What ddb_seek skips is a number of lines of the file. *)
LEMMA BeforeType ==
  ASSUME NEW d \in Seq(Register), NEW id \in Nat
  PROVE  Before(d, id) \in 0..Len(d)
<1> DEFINE T == {i \in 1..Len(d) : d[i].id < id}
<1>1. Len(d) \in Nat
  OBVIOUS
<1>2. IsFiniteSet(1..Len(d)) /\ Cardinality(1..Len(d)) = Len(d)
  <2>1. \A k \in Nat : IsFiniteSet(1..k) /\ Cardinality(1..k) = k
    BY FS_Interval
  <2> QED
    BY <1>1, <2>1
<1>3. T \subseteq 1..Len(d)
  OBVIOUS
<1>4. IsFiniteSet(T) /\ Cardinality(T) <= Len(d)
  BY <1>2, <1>3, FS_Subset
<1>5. Cardinality(T) \in Nat
  BY <1>4, FS_CardinalityType
<1> QED
  BY <1>1, <1>4, <1>5 DEF Before

(* What is left to read are registers. *)
LEMMA PendingType ==
  ASSUME TypeOK, NEW s \in Servers, NEW id \in Nat
  PROVE  Pending(s, id) \in Seq(Register)
<1>1. disk[s] \in Seq(Register)
  BY DEF TypeOK
<1>2. Before(disk[s], id) \in 0..Len(disk[s])
  BY <1>1, BeforeType
<1> QED
  BY <1>1, <1>2, SubSeqProperties DEF Pending

(* A handled message leaves sequences of messages on every connection. *)
LEMMA HandleType ==
  ASSUME TypeOK, NEW s \in Servers, NEW n \in Servers, NEW cut,
         NEW o \in [Servers -> Seq(Msg)], chan[n][s] # <<>>,
         Handle(s, n, o, cut)
  PROVE  chan' \in [Servers -> [Servers -> Seq(Msg)]]
<1>1. M("CLOSE") \in Msg
  BY DEF M, Msg
<1>2. SUFFICES ASSUME NEW a \in Servers, NEW b \in Servers
               PROVE  (IF b = s /\ a \in cut THEN <<>>
                       ELSE IF a = n /\ b = s THEN Tail(chan[n][s])
                       ELSE IF a = s /\ status[b][s] # "none"
                              THEN chan[s][b] \o o[b]
                                     \o (IF b \in cut THEN <<M("CLOSE")>> ELSE <<>>)
                       ELSE chan[a][b]) \in Seq(Msg)
  BY DEF Handle
<1>3. chan[a][b] \in Seq(Msg) /\ chan[s][b] \in Seq(Msg) /\ chan[n][s] \in Seq(Msg)
      /\ o[b] \in Seq(Msg)
  BY DEF TypeOK
<1>4. Tail(chan[n][s]) \in Seq(Msg)
  BY <1>3, HeadTailProperties
<1>5. <<M("CLOSE")>> \in Seq(Msg) /\ <<>> \in Seq(Msg)
  BY <1>1
<1>6. chan[s][b] \o o[b] \o (IF b \in cut THEN <<M("CLOSE")>> ELSE <<>>) \in Seq(Msg)
  BY <1>3, <1>5, ConcatProperties
<1> QED
  BY <1>3, <1>4, <1>5, <1>6

(* The messages the handlers write are messages. *)
LEMMA MsgType ==
  /\ \A t \in {"SERVER", "B", "CLOSE"} : M(t) \in Msg
  /\ \A i \in 0..MaxId : J(i) \in Msg
  /\ \A m \in SUBSET Servers : D(m) \in Msg
  /\ \A r \in Register : Reg(r) \in Msg
<1>1. \A t \in {"SERVER", "B", "CLOSE"} : M(t) \in Msg
  BY DEF M, Msg
<1>2. \A i \in 0..MaxId : J(i) \in Msg
  BY DEF J, Msg
<1>3. \A m \in SUBSET Servers : D(m) \in Msg
  BY DEF D, Msg
<1>4. \A r \in Register : Reg(r) \in Msg
  BY DEF Reg, Msg
<1> QED
  BY <1>1, <1>2, <1>3, <1>4

(* The first message of a connection, field by field. *)
LEMMA HeadType ==
  ASSUME TypeOK, NEW s \in Servers, NEW n \in Servers, chan[n][s] # <<>>
  PROVE  LET m == Head(chan[n][s])
         IN /\ m.t = "J" => m.id \in 0..MaxId
            /\ m.t = "D" => m.mask \subseteq Servers
            /\ m.t = "REG" => m.reg \in Register
<1>1. chan[n][s] \in Seq(Msg)
  BY DEF TypeOK
<1>2. Head(chan[n][s]) \in Msg
  BY <1>1, HeadTailProperties
<1> QED
  BY <1>2 DEF Msg

(* The part of TypeOK that is about the table of every server. *)
TablesTyped ==
  /\ disk \in [Servers -> Seq(Register)]
  /\ diskHash \in [Servers -> Seq(Register)]
  /\ hashTable \in [Servers -> Seq(Register)]
  /\ idTable \in [Servers -> 0..MaxId]
  /\ mem \in [Servers -> [Keys -> 0..MaxId]]

(* ddb_drop leaves well-formed tables.                                     *)
LEMMA DropType ==
  ASSUME TypeOK, NEW s \in Servers, ddb_drop(s)
  PROVE  TablesTyped'
<1>1. <<>> \in Seq(Register) /\ 0 \in 0..MaxId
  BY DdbAssumption DEF DdbAssumption
<1>2. NoMem \in [Keys -> 0..MaxId]
  BY <1>1 DEF NoMem
<1> QED
  BY <1>1, <1>2 DEF TypeOK, TablesTyped, ddb_drop, HashOf

(* A register stored, packing or not, leaves well-formed tables.           *)
LEMMA StoreType ==
  ASSUME TypeOK, NEW s \in Servers, NEW r \in Register, Store(s, r)
  PROVE  TablesTyped'
<1>1. r.id \in 0..MaxId /\ r.key \in Keys \cup PackKeys /\ 0 \in 0..MaxId
  BY DdbAssumption DEF DdbAssumption, Register
<1>2. CASE r.key = "*"
  BY <1>1, <1>2 DEF TypeOK, TablesTyped, Store, ddb_compact
<1>3. CASE r.key # "*"
  <2>0. PackKeys \subseteq {"*"}
    BY DdbAssumption
  <2>1. r.key \in Keys
    BY <1>1, <1>3, <2>0
  <2>2. Append(disk[s], r) \in Seq(Register) /\ Append(hashTable[s], r) \in Seq(Register)
    BY DEF TypeOK
  <2>3. ddb_new_register(s, r)
    BY <1>3 DEF Store
  <2>4. disk' \in [Servers -> Seq(Register)] /\ diskHash' \in [Servers -> Seq(Register)]
        /\ hashTable' \in [Servers -> Seq(Register)] /\ idTable' \in [Servers -> 0..MaxId]
    BY <1>1, <2>2, <2>3 DEF TypeOK, ddb_new_register
  <2>5. mem[s] \in [Keys -> 0..MaxId]
    BY DEF TypeOK
  <2>6. [mem[s] EXCEPT ![r.key] = IF r.del THEN 0 ELSE r.id] \in [Keys -> 0..MaxId]
    BY <1>1, <2>1, <2>5
  <2>7. mem' \in [Servers -> [Keys -> 0..MaxId]]
    BY <2>3, <2>5, <2>6 DEF TypeOK, ddb_new_register
  <2> QED
    BY <2>4, <2>7 DEF TablesTyped
<1> QED
  BY <1>2, <1>3

(* Ids of registers are naturals within the bound.                         *)
LEMMA RegisterId == \A r \in Register : r.id \in Nat /\ r.id \in 0..MaxId
  BY DdbAssumption DEF Register

(* The lines of a file are registers.                                      *)
LEMMA IdOfLine ==
  ASSUME NEW d \in Seq(Register), NEW i \in 1..Len(d)
  PROVE  d[i] \in Register /\ d[i].id \in Nat /\ d[i].id \in 0..MaxId
<1>1. d[i] \in Register
  OBVIOUS
<1> QED
  BY <1>1, RegisterId

(* Replaying registers gives an id, or 0. *)
LEMMA ReplayType ==
  ASSUME NEW d \in Seq(Register), NEW s, NEW k
  PROVE  Replay(d, s, k) \in 0..MaxId
<1> DEFINE at == {i \in 1..Len(d) : d[i].key = k /\ s \in d[i].mask}
           last == CHOOSE i \in at : \A j \in at : j <= i
<1>1. 0 \in 0..MaxId
  BY DdbAssumption DEF DdbAssumption
<1>2. CASE at = {}
  BY <1>1, <1>2 DEF Replay
<1>3. CASE at # {}
  <2>1. Len(d) \in Nat /\ at \subseteq 1..Len(d)
    OBVIOUS
  <2>2. \E i \in at : \A j \in at : j <= i
    BY <1>3, <2>1, Greatest
  <2>3. last \in 1..Len(d)
    BY <2>1, <2>2
  <2>4. d[last].id \in 0..MaxId
    <3> HIDE DEF last
    <3> QED
      BY <2>3, IdOfLine
  <2> QED
    BY <1>1, <2>4 DEF Replay
<1> QED
  BY <1>2, <1>3

(* What a crash leaves on the disk of s: the file, the file and one more   *)
(* register, or nothing.                                                   *)
LEMMA CrashImageIs ==
  ASSUME TypeOK, NEW s \in Servers, NEW img \in CrashImages(s)
  PROVE  \/ img[1] = disk[s]
         \/ \E r \in Register : img[1] = Append(disk[s], r) /\ r.id > idTable[s]
         \/ img[1] = <<>>
<1>1. ServicesHub \in Servers
  BY DdbAssumption
<1>2. idTable[ServicesHub] \in Nat
  BY <1>1, DdbAssumption DEF TypeOK
<1>3. \A r \in FromServices : r \in Register /\ r.id > idTable[ServicesHub]
  BY <1>2 DEF FromServices
<1> QED
  BY <1>3 DEF CrashImages, Accepts

(* ddb_table_init leaves well-formed tables, whatever file it finds.       *)
LEMMA RestartType ==
  ASSUME TypeOK, NEW s \in Servers, NEW d \in Seq(Register), NEW h,
         ddb_table_init(s, d, h)
  PROVE  TablesTyped'
<1> DEFINE good == IF HashOf(d) = h THEN d ELSE <<>>
<1>1. good \in Seq(Register)
  OBVIOUS
<1>2. \A k \in Keys : Replay(good, s, k) \in 0..MaxId
  BY <1>1, ReplayType
<1>3. (IF good = <<>> THEN 0 ELSE good[Len(good)].id) \in 0..MaxId
  <2>1. \A r \in Register : r.id \in 0..MaxId
    BY DdbAssumption DEF Register
  <2>2. good # <<>> => good[Len(good)] \in Register
    BY <1>1
  <2>3. 0 \in 0..MaxId
    BY DdbAssumption
  <2> QED
    BY <2>1, <2>2, <2>3
<1> HIDE DEF good
<1>4. /\ disk' = [disk EXCEPT ![s] = good]
      /\ hashTable' = [hashTable EXCEPT ![s] = good]
      /\ diskHash' = [diskHash EXCEPT ![s] = good]
      /\ idTable' = [idTable EXCEPT ![s] = IF good = <<>> THEN 0 ELSE good[Len(good)].id]
      /\ mem' = [mem EXCEPT ![s] = [k \in Keys |-> Replay(good, s, k)]]
  BY DEF ddb_table_init, HashOf, good
<1>5. [k \in Keys |-> Replay(good, s, k)] \in [Keys -> 0..MaxId]
  BY <1>2
<1> QED
  BY <1>1, <1>3, <1>4, <1>5 DEF TypeOK, TablesTyped
-----------------------------------------------------------------------------
LinksTyped ==
  /\ status \in [Servers -> [Servers -> {"none", "unknown", "handshake", "server"}]]
  /\ open \in [Servers -> SUBSET Servers]

(* Closing connections leaves states of connections.                       *)
LEMMA ExitType ==
  ASSUME TypeOK, NEW s \in Servers, NEW cut, Exit(s, cut)
  PROVE  status' \in [Servers -> [Servers -> {"none", "unknown", "handshake", "server"}]]
<1> DEFINE Status == {"none", "unknown", "handshake", "server"}
<1>1. status \in [Servers -> [Servers -> Status]] /\ "none" \in Status
  BY DEF TypeOK
<1> HIDE DEF Status
<1>2. [p \in Servers |-> IF p \in cut THEN "none" ELSE status[s][p]] \in [Servers -> Status]
  BY <1>1
<1>3. status' \in [Servers -> [Servers -> Status]]
  BY <1>1, <1>2 DEF Exit
<1> QED
  BY <1>3 DEF Status

(* ms_db_J keeps the types.                                                *)
LEMMA JoinType ==
  ASSUME TypeOK, NEW s \in Servers, NEW n \in Servers, NEW id \in 0..MaxId,
         chan[n][s] # <<>>, ms_db_J(s, n, id)
  PROVE  TypeOK'
<1> DEFINE rest  == Pending(s, id + 1)
           batch == SubSeq(rest, 1, IF Len(rest) < LineLen THEN Len(rest) ELSE LineLen)
           regs  == [i \in 1..Len(batch) |-> Reg(batch[i])]
<1>1. rest \in Seq(Register)
  <2>1. id + 1 \in Nat
    BY DdbAssumption
  <2> QED
    BY <2>1, PendingType
<1>2. batch \in Seq(Register)
  <2>1. LineLen \in Nat \ {0}
    BY DdbAssumption
  <2> QED
    BY <1>1, <2>1, SubSeqProperties
<1> HIDE DEF rest, batch
<1>3. regs \in Seq(Msg) /\ regs \o <<M("B")>> \in Seq(Msg)
  <2>1. regs \in Seq(Msg)
    BY <1>2, MsgType
  <2> QED
    BY <2>1, MsgType
<1>4. <<D({n})>> \in Seq(Msg) /\ Silent \in [Servers -> Seq(Msg)]
  <2>1. D({n}) \in Msg
    BY MsgType
  <2> QED
    BY <2>1 DEF Silent
<1> HIDE DEF regs
<1>5. \A q \in Seq(Msg) : [Silent EXCEPT ![n] = q] \in [Servers -> Seq(Msg)]
  BY <1>4
<1>6. \E o \in [Servers -> Seq(Msg)] : Handle(s, n, o, {})
  <2>1. \/ Handle(s, n, Silent, {})
        \/ Handle(s, n, [Silent EXCEPT ![n] = <<D({n})>>], {})
        \/ Handle(s, n, [Silent EXCEPT ![n] = regs], {})
        \/ Handle(s, n, [Silent EXCEPT ![n] = regs \o <<M("B")>>], {})
    BY DEF ms_db_J, regs, batch, rest
  <2> QED
    BY <1>3, <1>4, <1>5, <2>1
<1>7. chan' \in [Servers -> [Servers -> Seq(Msg)]] /\ UNCHANGED <<issued, boundVars>>
  <2>1. chan' \in [Servers -> [Servers -> Seq(Msg)]]
    BY <1>6, HandleType
  <2>2. UNCHANGED <<issued, boundVars>>
    BY <1>6 DEF Handle
  <2> QED
    BY <2>1, <2>2
<1>8. UNCHANGED <<tableVars, status>>
  BY DEF ms_db_J
<1>9. open' \in [Servers -> SUBSET Servers]
  <2>1. \/ open' = [open EXCEPT ![s] = @ \cup {n}]
        \/ open' = [open EXCEPT ![s] = @ \ {n}]
        \/ open' = open
    BY DEF ms_db_J, CloseFaucet
  <2>2. open \in [Servers -> SUBSET Servers]
    BY DEF TypeOK
  <2> QED
    BY <2>1, <2>2
<1> QED
  BY <1>7, <1>8, <1>9 DEF TypeOK, tableVars, boundVars

(* ms_db_D keeps the types.                                                *)
LEMMA DropOrderType ==
  ASSUME TypeOK, NEW s \in Servers, NEW n \in Servers, NEW mask \in SUBSET Servers,
         chan[n][s] # <<>>, ms_db_D(s, n, mask)
  PROVE  TypeOK'
<1> DEFINE others == Down(s) \ {n}
           fwd == [p \in Servers |-> IF p \in others THEN <<D(mask)>> ELSE <<>>]
<1>1. fwd \in [Servers -> Seq(Msg)] /\ Silent \in [Servers -> Seq(Msg)]
  <2>1. D(mask) \in Msg
    BY MsgType
  <2> QED
    BY <2>1 DEF Silent
<1>2. <<J(0)>> \in Seq(Msg) /\ <<J(idTable[s])>> \in Seq(Msg)
  <2>1. J(0) \in Msg /\ J(idTable[s]) \in Msg
    BY MsgType, DdbAssumption DEF TypeOK
  <2> QED
    BY <2>1
<1> HIDE DEF fwd
<1>3. \E o \in [Servers -> Seq(Msg)], cut \in SUBSET Servers : Handle(s, n, o, cut)
  <2>1. \/ Handle(s, n, Silent, {})
        \/ Handle(s, n, [fwd EXCEPT ![n] = <<J(0)>>], ddb_splithubs(s, n))
        \/ Handle(s, n, [fwd EXCEPT ![n] = <<J(idTable[s])>>], {})
    BY DEF ms_db_D, fwd
  <2>2. \A q \in Seq(Msg) : [fwd EXCEPT ![n] = q] \in [Servers -> Seq(Msg)]
    BY <1>1
  <2>3. ddb_splithubs(s, n) \subseteq Servers
    BY DEF ddb_splithubs, Down
  <2> QED
    BY <1>1, <1>2, <2>1, <2>2, <2>3
<1>4. chan' \in [Servers -> [Servers -> Seq(Msg)]] /\ UNCHANGED <<issued, boundVars>>
  <2>1. chan' \in [Servers -> [Servers -> Seq(Msg)]]
    BY <1>3, HandleType
  <2>2. UNCHANGED <<issued, boundVars>>
    BY <1>3 DEF Handle
  <2> QED
    BY <2>1, <2>2
<1>5. TablesTyped'
  <2>1. CASE ddb_drop(s)
    BY <2>1, DropType
  <2>2. CASE UNCHANGED tableVars
    BY <2>2 DEF TypeOK, TablesTyped, tableVars
  <2> QED
    BY <2>1, <2>2 DEF ms_db_D
<1>6. LinksTyped'
  <2>1. \/ UNCHANGED <<status, open>>
        \/ Exit(s, ddb_splithubs(s, n)) /\ CloseFaucet(s, others)
        \/ UNCHANGED status /\ CloseFaucet(s, others)
    BY DEF ms_db_D, KeepLinks
  <2>2. UNCHANGED open \/ CloseFaucet(s, others) => open' \in [Servers -> SUBSET Servers]
    <3>1. open \in [Servers -> SUBSET Servers]
      BY DEF TypeOK
    <3>2. [open EXCEPT ![s] = @ \ others] \in [Servers -> SUBSET Servers]
      BY <3>1
    <3> QED
      BY <3>1, <3>2 DEF CloseFaucet
  <2>3. UNCHANGED status \/ Exit(s, ddb_splithubs(s, n))
          => status' \in [Servers -> [Servers -> {"none", "unknown", "handshake", "server"}]]
    BY ExitType DEF TypeOK
  <2> QED
    BY <2>1, <2>2, <2>3 DEF LinksTyped
<1> QED
  BY <1>4, <1>5, <1>6 DEF TypeOK, TablesTyped, LinksTyped, boundVars

(* What is relayed are messages.                                           *)
LEMMA RelayType ==
  ASSUME NEW s \in Servers, NEW n, NEW r \in Register
  PROVE  Relay(s, n, r) \in [Servers -> Seq(Msg)]
<1>1. <<Reg(r)>> \in Seq(Msg) /\ <<>> \in Seq(Msg)
  BY MsgType
<1> QED
  BY <1>1 DEF Relay

(* ms_db_register keeps the types.                                         *)
LEMMA RegisterType ==
  ASSUME TypeOK, NEW s \in Servers, NEW n \in Servers, NEW r \in Register,
         chan[n][s] # <<>>, ms_db_register(s, n, r)
  PROVE  TypeOK'
<1>1. \E o \in [Servers -> Seq(Msg)] : Handle(s, n, o, {})
  <2>1. Silent \in [Servers -> Seq(Msg)]
    BY DEF Silent
  <2>2. Handle(s, n, Silent, {}) \/ Handle(s, n, Relay(s, n, r), {})
    BY DEF ms_db_register
  <2> QED
    BY <2>1, <2>2, RelayType
<1>2. chan' \in [Servers -> [Servers -> Seq(Msg)]]
  BY <1>1, HandleType
<1>3. UNCHANGED <<issued, boundVars, status, open>>
  BY <1>1 DEF Handle, ms_db_register, KeepLinks
<1>4. TablesTyped'
  <2>1. CASE Store(s, r)
    BY <2>1, StoreType
  <2>2. CASE UNCHANGED tableVars
    BY <2>2 DEF TypeOK, TablesTyped, tableVars
  <2> QED
    BY <2>1, <2>2 DEF ms_db_register
<1> QED
  BY <1>2, <1>3, <1>4 DEF TypeOK, TablesTyped, boundVars

(* Every handler of a message keeps the types.                             *)
LEMMA ReceiveType ==
  ASSUME TypeOK, NEW s \in Servers, NEW n \in Servers, Receive(s, n)
  PROVE  TypeOK'
<1> DEFINE m == Head(chan[n][s])
<1>1. chan[n][s] # <<>>
  BY DEF Receive
<1>2. Silent \in [Servers -> Seq(Msg)]
  BY DEF Silent
<1>3. \A q \in Seq(Msg) : [Silent EXCEPT ![n] = q] \in [Servers -> Seq(Msg)]
  BY <1>2
<1>4. J(idTable[s]) \in Msg /\ M("SERVER") \in Msg
  BY MsgType DEF TypeOK
<1>5. CASE server_estab(s, n)
  <2> DEFINE hello == (IF status[s][n] = "unknown" THEN <<M("SERVER"), J(idTable[s])>>
                                                   ELSE <<>>) \o <<J(idTable[s])>>
  <2>1. hello \in Seq(Msg)
    BY <1>4
  <2>2. Handle(s, n, [Silent EXCEPT ![n] = hello], {})
    BY <1>5 DEF server_estab
  <2> HIDE DEF hello
  <2>3. chan' \in [Servers -> [Servers -> Seq(Msg)]]
    BY <1>1, <1>3, <2>1, <2>2, HandleType
  <2>4. UNCHANGED <<issued, tableVars, open, boundVars>>
    BY <1>5 DEF server_estab, Handle
  <2>5. status' \in [Servers -> [Servers -> {"none", "unknown", "handshake", "server"}]]
    BY <1>5 DEF server_estab, TypeOK
  <2> QED
    BY <2>3, <2>4, <2>5 DEF TypeOK, tableVars, boundVars
<1>6. CASE peer_closed(s, n)
  <2>1. Handle(s, n, Silent, {}) /\ Exit(s, {n})
    BY <1>6 DEF peer_closed
  <2>2. chan' \in [Servers -> [Servers -> Seq(Msg)]]
    BY <1>1, <1>2, <2>1, HandleType
  <2>3. UNCHANGED <<issued, tableVars, boundVars>>
    BY <1>6 DEF peer_closed, Handle
  <2>4. open' \in [Servers -> SUBSET Servers]
    BY <1>6 DEF peer_closed, TypeOK
  <2>5. status' \in [Servers -> [Servers -> {"none", "unknown", "handshake", "server"}]]
    BY <2>1, ExitType
  <2> QED
    BY <2>2, <2>3, <2>4, <2>5 DEF TypeOK, tableVars, boundVars
<1>7. CASE ms_db_B(s, n)
  <2> DEFINE ask == IF n \in Hubs THEN <<J(idTable[s])>> ELSE <<>>
  <2>1. ask \in Seq(Msg)
    BY <1>4
  <2>2. Handle(s, n, [Silent EXCEPT ![n] = ask], {})
    BY <1>7 DEF ms_db_B
  <2> HIDE DEF ask
  <2>3. chan' \in [Servers -> [Servers -> Seq(Msg)]]
    BY <1>1, <1>3, <2>1, <2>2, HandleType
  <2>4. UNCHANGED <<issued, tableVars, status, open, boundVars>>
    BY <1>7 DEF ms_db_B, Handle, KeepLinks
  <2> QED
    BY <2>3, <2>4 DEF TypeOK, tableVars, boundVars
<1>8. CASE m.t = "J" /\ ms_db_J(s, n, m.id)
  BY <1>1, <1>8, HeadType, JoinType
<1>9. CASE m.t = "D" /\ ms_db_D(s, n, m.mask)
  BY <1>1, <1>9, HeadType, DropOrderType
<1>10. CASE m.t = "REG" /\ ms_db_register(s, n, m.reg)
  BY <1>1, <1>10, HeadType, RegisterType
<1> QED
  BY <1>5, <1>6, <1>7, <1>8, <1>9, <1>10 DEF Receive

(* A new link keeps the types.                                             *)
LEMMA ConnectType ==
  ASSUME TypeOK, NEW a \in Servers, NEW b \in Servers, completed_connection(a, b)
  PROVE  TypeOK'
<1>1. <<M("SERVER"), J(idTable[a])>> \in Seq(Msg) /\ <<>> \in Seq(Msg)
  <2>1. J(idTable[a]) \in Msg /\ M("SERVER") \in Msg
    BY MsgType DEF TypeOK
  <2> QED
    BY <2>1
<1>2. chan' \in [Servers -> [Servers -> Seq(Msg)]]
  BY <1>1 DEF completed_connection, TypeOK
<1>3. status' \in [Servers -> [Servers -> {"none", "unknown", "handshake", "server"}]]
  BY DEF completed_connection, TypeOK
<1>4. open' \in [Servers -> SUBSET Servers]
  <2>1. open' = [open EXCEPT ![a] = open[a] \ {b}, ![b] = open[b] \ {a}]
    BY DEF completed_connection
  <2>2. open[a] \ {b} \in SUBSET Servers /\ open[b] \ {a} \in SUBSET Servers
    BY DEF TypeOK
  <2> QED
    BY <2>1, <2>2 DEF TypeOK
<1>5. connects' \in 0..MaxConnects
  <2>1. MaxConnects \in Nat
    BY DdbAssumption
  <2>2. connects \in 0..MaxConnects /\ connects < MaxConnects /\ connects' = connects + 1
    BY DEF completed_connection, TypeOK
  <2> QED
    BY <2>1, <2>2
<1>6. UNCHANGED <<issued, tableVars, torn, faults>>
  BY DEF completed_connection
<1> QED
  BY <1>2, <1>3, <1>4, <1>5, <1>6 DEF TypeOK, tableVars

(* A register of the services keeps the types.                             *)
LEMMA ServicesType ==
  ASSUME TypeOK, NEW r \in Register, Services(r)
  PROVE  TypeOK'
<1>1. ServicesHub \in Servers
  BY DdbAssumption
<1>2. TablesTyped'
  BY <1>1, StoreType DEF Services
<1>3. issued' \in Seq(Register)
  <2>1. issued' = issued \/ issued' = Append(issued, r)
    BY DEF Services
  <2>2. issued \in Seq(Register)
    BY DEF TypeOK
  <2> QED
    BY <2>1, <2>2
<1>4. chan' \in [Servers -> [Servers -> Seq(Msg)]]
  <2> DEFINE row == [p \in Servers |->
                       IF status[p][ServicesHub] # "none"
                         THEN chan[ServicesHub][p] \o Relay(ServicesHub, "services", r)[p]
                         ELSE chan[ServicesHub][p]]
  <2>1. chan' = [chan EXCEPT ![ServicesHub] = row]
    BY DEF Services
  <2>2. Relay(ServicesHub, "services", r) \in [Servers -> Seq(Msg)]
    BY <1>1, RelayType
  <2>3. chan \in [Servers -> [Servers -> Seq(Msg)]]
    BY DEF TypeOK
  <2>4. row \in [Servers -> Seq(Msg)]
    BY <1>1, <2>2, <2>3, ConcatProperties
  <2> HIDE DEF row
  <2> QED
    BY <2>1, <2>3, <2>4
<1>5. UNCHANGED <<status, open, boundVars>>
  BY DEF Services, KeepLinks
<1> QED
  BY <1>2, <1>3, <1>4, <1>5 DEF TypeOK, TablesTyped, boundVars

(* A crash and the restart after it keep the types.                        *)
LEMMA CrashType ==
  ASSUME TypeOK, NEW s \in Servers, Crash(s)
  PROVE  TypeOK'
<1>1. PICK img \in CrashImages(s) : ddb_table_init(s, img[1], img[2])
  BY DEF Crash
<1>2. img[1] \in Seq(Register)
  <2>1. disk[s] \in Seq(Register) /\ <<>> \in Seq(Register)
    BY DEF TypeOK
  <2>2. \A r \in Register : Append(disk[s], r) \in Seq(Register)
    BY <2>1
  <2> QED
    BY <2>1, <2>2, CrashImageIs
<1>3. TablesTyped'
  BY <1>1, <1>2, RestartType
<1>4. chan' \in [Servers -> [Servers -> Seq(Msg)]]
  <2>1. PICK lost \in {FALSE, TRUE} :
          chan' = [a \in Servers |-> [b \in Servers |->
            IF b = s THEN <<>>
            ELSE IF a = s /\ status[s][b] # "none" /\ status[b][s] # "none"
                   THEN (IF lost THEN <<>> ELSE chan[s][b]) \o <<M("CLOSE")>>
            ELSE chan[a][b]]]
    BY DEF Crash
  <2>2. \A a, b \in Servers : chan[a][b] \in Seq(Msg)
    BY DEF TypeOK
  <2>3. M("CLOSE") \in Msg
    BY MsgType
  <2>4. \A b \in Servers : (IF lost THEN <<>> ELSE chan[s][b]) \o <<M("CLOSE")>> \in Seq(Msg)
    BY <2>2, <2>3
  <2> QED
    BY <2>1, <2>2, <2>4
<1>5. LinksTyped'
  BY DEF Crash, TypeOK, LinksTyped
<1>6. faults' \in 0..MaxFaults
  <2>1. MaxFaults \in Nat
    BY DdbAssumption
  <2>2. faults \in 0..MaxFaults /\ faults < MaxFaults /\ faults' = faults + 1
    BY DEF Crash, TypeOK
  <2> QED
    BY <2>1, <2>2
<1>7. UNCHANGED <<issued, connects>>
  BY DEF Crash
<1>8. torn' \subseteq SUBSET Servers
  <2>1. torn \subseteq SUBSET Servers
    BY DEF TypeOK
  <2>2. torn' = torn \cup {{s, p} : p \in {q \in Servers : status[s][q] # "none"}}
    BY DEF Crash
  <2>3. ASSUME NEW k \in torn', k \notin torn PROVE k \in SUBSET Servers
    <3>1. PICK p \in Servers : k = {s, p}
      BY <2>2, <2>3
    <3> QED
      BY <3>1
  <2> QED
    BY <2>1, <2>3
<1> QED
  BY <1>3, <1>4, <1>5, <1>6, <1>7, <1>8 DEF TypeOK, TablesTyped, LinksTyped

(* The loss of a connection keeps the types.                               *)
LEMMA BreakType ==
  ASSUME TypeOK, NEW s \in Servers, NEW p \in Servers, Break(s, p)
  PROVE  TypeOK'
<1>1. chan' \in [Servers -> [Servers -> Seq(Msg)]]
  <2>1. PICK lost \in {FALSE, TRUE} :
          chan' = [a \in Servers |-> [b \in Servers |->
            IF a = p /\ b = s THEN <<>>
            ELSE IF a = s /\ b = p /\ status[p][s] # "none"
                   THEN (IF lost THEN <<>> ELSE chan[s][p]) \o <<M("CLOSE")>>
            ELSE chan[a][b]]]
    BY DEF Break
  <2>2. \A a, b \in Servers : chan[a][b] \in Seq(Msg)
    BY DEF TypeOK
  <2>3. M("CLOSE") \in Msg
    BY MsgType
  <2>4. (IF lost THEN <<>> ELSE chan[s][p]) \o <<M("CLOSE")>> \in Seq(Msg)
    BY <2>2, <2>3
  <2> QED
    BY <2>1, <2>2, <2>4
<1>2. status' \in [Servers -> [Servers -> {"none", "unknown", "handshake", "server"}]]
  BY ExitType DEF Break
<1>3. open' \in [Servers -> SUBSET Servers]
  BY DEF Break, TypeOK
<1>4. faults' \in 0..MaxFaults
  <2>1. MaxFaults \in Nat
    BY DdbAssumption
  <2>2. faults \in 0..MaxFaults /\ faults < MaxFaults /\ faults' = faults + 1
    BY DEF Break, TypeOK
  <2> QED
    BY <2>1, <2>2
<1>5. torn' \subseteq SUBSET Servers
  BY DEF Break, TypeOK
<1>6. UNCHANGED <<issued, tableVars, connects>>
  BY DEF Break
<1> QED
  BY <1>1, <1>2, <1>3, <1>4, <1>5, <1>6 DEF TypeOK, tableVars

(* The first state has the types.                                          *)
LEMMA InitType == Init => TypeOK
<1> SUFFICES ASSUME Init PROVE TypeOK
  OBVIOUS
<1>1. 0 \in 0..MaxId /\ 0 \in 0..MaxConnects /\ 0 \in 0..MaxFaults
  BY DdbAssumption
<1>2. NoMem \in [Keys -> 0..MaxId]
  BY <1>1 DEF NoMem
<1> QED
  BY <1>1, <1>2 DEF Init, TypeOK, HashOf

(* Every step keeps the types.                                             *)
LEMMA NextType == TypeOK /\ [Next]_vars => TypeOK'
<1> SUFFICES ASSUME TypeOK, [Next]_vars PROVE TypeOK'
  OBVIOUS
<1>1. CASE \E a, b \in Servers : completed_connection(a, b)
  BY <1>1, ConnectType
<1>2. CASE \E s, n \in Servers : Receive(s, n)
  BY <1>2, ReceiveType
<1>3. CASE \E r \in Register : Services(r)
  BY <1>3, ServicesType
<1>4. CASE \E s \in Servers : Crash(s)
  BY <1>4, CrashType
<1>5. CASE \E s, p \in Servers : Break(s, p)
  BY <1>5, BreakType
<1>6. CASE UNCHANGED vars
  BY <1>6 DEF TypeOK, vars, tableVars, boundVars
<1> QED
  BY <1>1, <1>2, <1>3, <1>4, <1>5, <1>6 DEF Next

(* Every handler, whatever messages it meets and in whatever order, keeps  *)
(* the state of the tables and of the links well formed: ids never leave   *)
(* 0..MaxId and no message outside the protocol is ever sent.              *)
THEOREM TypeCorrect == Spec => []TypeOK
  BY InitType, NextType, PTL DEF Spec
-----------------------------------------------------------------------------
(* A step leaves every table alone, drops one, stores a register above the *)
(* id of one, or restarts one server: the invariants of the tables need no *)
(* other fact about the protocol.                                          *)
LEMMA TableSteps ==
  ASSUME TypeOK, [Next]_vars
  PROVE  \/ UNCHANGED tableVars
         \/ \E s \in Servers : ddb_drop(s)
         \/ \E s \in Servers, r \in Register : r.id > idTable[s] /\ Store(s, r)
         \/ \E s \in Servers : \E img \in CrashImages(s) : ddb_table_init(s, img[1], img[2])
<1>1. CASE \E a, b \in Servers : completed_connection(a, b)
  BY <1>1 DEF completed_connection
<1>2. ASSUME NEW s \in Servers, NEW n \in Servers, Receive(s, n)
      PROVE  \/ UNCHANGED tableVars
             \/ ddb_drop(s)
             \/ \E r \in Register : r.id > idTable[s] /\ Store(s, r)
  <2> DEFINE m == Head(chan[n][s])
  <2>1. \/ UNCHANGED tableVars
        \/ m.t = "D" /\ ms_db_D(s, n, m.mask)
        \/ m.t = "REG" /\ ms_db_register(s, n, m.reg)
    BY <1>2, Zenon DEF Receive, server_estab, peer_closed, ms_db_J, ms_db_B
  <2>2. ms_db_D(s, n, m.mask) => UNCHANGED tableVars \/ ddb_drop(s)
    BY DEF ms_db_D
  <2>3. m.t = "REG" => m.reg \in Register
    BY <1>2, HeadType DEF Receive
  <2>4. ms_db_register(s, n, m.reg)
          => UNCHANGED tableVars \/ (m.reg.id > idTable[s] /\ Store(s, m.reg))
    BY Zenon DEF ms_db_register, Accepts
  <2> HIDE DEF m
  <2> QED
    BY <2>1, <2>2, <2>3, <2>4, Zenon
<1>3. ASSUME NEW r \in Register, Services(r)
      PROVE  ServicesHub \in Servers /\ r.id > idTable[ServicesHub] /\ Store(ServicesHub, r)
  <2>1. ServicesHub \in Servers
    BY DdbAssumption
  <2>2. idTable[ServicesHub] \in Nat
    BY <2>1, DdbAssumption DEF TypeOK
  <2>3. r.id = idTable[ServicesHub] + 1 /\ Store(ServicesHub, r)
    BY <1>3 DEF Services, FromServices
  <2> QED
    BY <2>1, <2>2, <2>3
<1>4. CASE \E s \in Servers : Crash(s)
  BY <1>4 DEF Crash
<1>5. CASE \E s, p \in Servers : Break(s, p)
  BY <1>5 DEF Break
<1>6. CASE UNCHANGED vars
  BY <1>6 DEF vars
<1> QED
  BY <1>1, <1>2, <1>3, <1>4, <1>5, <1>6 DEF Next

(* SortedDisk for one file. *)
Sorted(d, id) ==
  /\ \A i, j \in 1..Len(d) : i < j => d[i].id < d[j].id
  /\ \A i \in 1..Len(d) : d[i].id <= id

(* A register above the id of the table is appended in order.              *)
LEMMA SortedAppend ==
  ASSUME NEW d \in Seq(Register), NEW id \in Nat, NEW r \in Register,
         Sorted(d, id), r.id > id
  PROVE  Sorted(Append(d, r), r.id)
<1> DEFINE e == Append(d, r)
<1>1. /\ Len(d) \in Nat /\ Len(e) = Len(d) + 1
      /\ e[Len(d) + 1] = r
      /\ \A i \in 1..Len(d) : e[i] = d[i]
  OBVIOUS
<1>2. r.id \in Nat /\ \A i \in 1..Len(d) : d[i].id \in Nat /\ d[i].id < r.id
  <2>1. \A q \in Register : q.id \in Nat
    BY DdbAssumption DEF Register
  <2>2. \A i \in 1..Len(d) : d[i] \in Register
    OBVIOUS
  <2>3. \A i \in 1..Len(d) : d[i].id <= id
    BY DEF Sorted
  <2> QED
    BY <2>1, <2>2, <2>3
<1> HIDE DEF e
<1>3. ASSUME NEW i \in 1..Len(e), NEW j \in 1..Len(e), i < j
      PROVE  e[i].id < e[j].id
  <2>1. i \in 1..Len(d)
    BY <1>1, <1>3
  <2>2. CASE j \in 1..Len(d)
    BY <1>1, <1>3, <2>1, <2>2 DEF Sorted
  <2>3. CASE j = Len(d) + 1
    BY <1>1, <1>2, <2>1, <2>3
  <2> QED
    BY <1>1, <2>2, <2>3
<1>4. ASSUME NEW i \in 1..Len(e)
      PROVE  e[i].id <= r.id
  <2>1. CASE i \in 1..Len(d)
    BY <1>1, <1>2, <2>1
  <2>2. CASE i = Len(d) + 1
    BY <1>1, <1>2, <2>2
  <2> QED
    BY <1>1, <2>1, <2>2
<1> QED
  BY <1>3, <1>4 DEF Sorted, e

(* A sorted file is bounded by its last line.                              *)
LEMMA SortedByLast ==
  ASSUME NEW d \in Seq(Register), NEW id \in Nat, Sorted(d, id)
  PROVE  Sorted(d, IF d = <<>> THEN 0 ELSE d[Len(d)].id)
<1>1. CASE d = <<>>
  BY <1>1 DEF Sorted
<1>2. CASE d # <<>>
  <2>1. Len(d) \in Nat /\ Len(d) \in 1..Len(d)
    BY <1>2
  <2>2. \A i \in 1..Len(d) : d[i].id \in Nat
    <3>1. \A q \in Register : q.id \in Nat
      BY DdbAssumption DEF Register
    <3> QED
      BY <3>1
  <2>3. ASSUME NEW i \in 1..Len(d)
        PROVE  d[i].id <= d[Len(d)].id
    <3>1. i = Len(d) \/ i < Len(d)
      BY <2>1
    <3> QED
      BY <2>1, <2>2, <3>1 DEF Sorted
  <2> QED
    BY <1>2, <2>3 DEF Sorted
<1> QED
  BY <1>1, <1>2

(* Every step keeps the files sorted.                                      *)
LEMMA SortedNext ==
  TypeOK /\ SortedDisk /\ [Next]_vars => SortedDisk'
<1> SUFFICES ASSUME TypeOK, SortedDisk, [Next]_vars
             PROVE  \A s \in Servers : Sorted(disk'[s], idTable'[s])
  BY DEF SortedDisk, Sorted
<1>1. \A s \in Servers : /\ disk[s] \in Seq(Register) /\ idTable[s] \in Nat
                          /\ Sorted(disk[s], idTable[s])
  <2>1. \A s \in Servers : disk[s] \in Seq(Register) /\ idTable[s] \in 0..MaxId
    BY DEF TypeOK
  <2>2. \A s \in Servers : Sorted(disk[s], idTable[s])
    BY DEF SortedDisk, Sorted
  <2> QED
    BY <2>1, <2>2, DdbAssumption
<1>2. disk \in [Servers -> Seq(Register)] /\ idTable \in [Servers -> 0..MaxId]
  BY DEF TypeOK
<1>3. \A id : Sorted(<<>>, id)
  BY DEF Sorted
<1>4. CASE UNCHANGED tableVars
  BY <1>1, <1>4 DEF tableVars
<1>5. ASSUME NEW s \in Servers, ddb_drop(s)
      PROVE  \A q \in Servers : Sorted(disk'[q], idTable'[q])
  <2>1. disk' = [disk EXCEPT ![s] = <<>>] /\ idTable' = [idTable EXCEPT ![s] = 0]
    BY <1>5 DEF ddb_drop
  <2> QED
    BY <1>1, <1>2, <1>3, <2>1
<1>6. ASSUME NEW s \in Servers, NEW r \in Register, r.id > idTable[s], Store(s, r)
      PROVE  \A q \in Servers : Sorted(disk'[q], idTable'[q])
  <2>1. CASE r.key # "*"
    <3>1. /\ disk' = [disk EXCEPT ![s] = Append(disk[s], r)]
          /\ idTable' = [idTable EXCEPT ![s] = r.id]
      BY <1>6, <2>1 DEF Store, ddb_new_register
    <3>2. Sorted(Append(disk[s], r), r.id)
      BY <1>1, <1>6, SortedAppend
    <3> QED
      BY <1>1, <1>2, <3>1, <3>2
  <2>2. CASE r.key = "*"
    <3>1. disk' = disk /\ idTable' = [idTable EXCEPT ![s] = r.id]
      BY <1>6, <2>2 DEF Store, ddb_compact
    <3>2. Sorted(disk[s], r.id)
      <4>1. \A i \in 1..Len(disk[s]) : disk[s][i].id \in Nat
        BY <1>1, IdOfLine
      <4>2. r.id \in Nat
        BY DdbAssumption DEF Register
      <4> QED
        BY <1>1, <1>6, <4>1, <4>2 DEF Sorted
    <3> QED
      BY <1>1, <1>2, <3>1, <3>2
  <2> QED
    BY <2>1, <2>2
<1>7. ASSUME NEW s \in Servers, NEW img \in CrashImages(s),
             ddb_table_init(s, img[1], img[2])
      PROVE  \A q \in Servers : Sorted(disk'[q], idTable'[q])
  <2> DEFINE good == IF HashOf(img[1]) = img[2] THEN img[1] ELSE <<>>
  <2>1. \E id \in Nat : good \in Seq(Register) /\ Sorted(good, id)
    <3>1. CASE good = disk[s]
      BY <1>1, <3>1
    <3>2. ASSUME NEW r \in Register, r.id > idTable[s], good = Append(disk[s], r)
          PROVE  \E id \in Nat : good \in Seq(Register) /\ Sorted(good, id)
      <4>1. r.id \in Nat
        BY DdbAssumption DEF Register
      <4>2. Sorted(Append(disk[s], r), r.id) /\ Append(disk[s], r) \in Seq(Register)
        BY <1>1, <3>2, SortedAppend
      <4> QED
        BY <3>2, <4>1, <4>2
    <3>3. CASE good = <<>>
      <4>1. <<>> \in Seq(Register) /\ Sorted(<<>>, 0)
        BY <1>3
      <4> QED
        BY <3>3, <4>1
    <3> QED
      BY <3>1, <3>2, <3>3, CrashImageIs
  <2>2. /\ disk' = [disk EXCEPT ![s] = good]
        /\ idTable' = [idTable EXCEPT ![s] = IF good = <<>> THEN 0 ELSE good[Len(good)].id]
    BY <1>7 DEF ddb_table_init
  <2> HIDE DEF good
  <2>3. Sorted(good, IF good = <<>> THEN 0 ELSE good[Len(good)].id)
    BY <2>1, SortedByLast
  <2> QED
    BY <1>1, <1>2, <2>2, <2>3
<1> QED
  BY <1>4, <1>5, <1>6, <1>7, TableSteps

(* The file of a table is sorted by id on every server, for any network,   *)
(* any number of registers, drops, packs and crashes.  It needs no fact    *)
(* about the protocol beyond the test id > ddb_id_table of ms_db.          *)
THEOREM FileIsSorted == Spec => []SortedDisk
<1>1. Init => SortedDisk
  BY DEF Init, SortedDisk
<1> QED
  BY <1>1, SortedNext, TypeCorrect, PTL DEF Spec

(* Every step keeps file, hash in memory and hash on disk together.        *)
LEMMA HashesNext ==
  TypeOK /\ HashesMatchFile /\ [Next]_vars => HashesMatchFile'
<1> SUFFICES ASSUME TypeOK, HashesMatchFile, [Next]_vars PROVE HashesMatchFile'
  OBVIOUS
<1>1. CASE UNCHANGED tableVars
  BY <1>1 DEF HashesMatchFile, tableVars, HashOf
<1>2. ASSUME NEW s \in Servers, ddb_drop(s) PROVE HashesMatchFile'
  BY <1>2 DEF ddb_drop, HashesMatchFile, HashOf, TypeOK
<1>3. ASSUME NEW s \in Servers, NEW r \in Register, Store(s, r) PROVE HashesMatchFile'
  <2>1. CASE r.key = "*"
    BY <1>3, <2>1 DEF Store, ddb_compact, HashesMatchFile, HashOf, TypeOK
  <2>2. CASE r.key # "*"
    <3>1. /\ disk' = [disk EXCEPT ![s] = Append(disk[s], r)]
          /\ hashTable' = [hashTable EXCEPT ![s] = Append(hashTable[s], r)]
          /\ diskHash' = [diskHash EXCEPT ![s] = Append(hashTable[s], r)]
      BY <1>3, <2>2 DEF Store, ddb_new_register
    <3>2. \A q \in Servers : diskHash[q] = disk[q] /\ hashTable[q] = disk[q]
      BY DEF HashesMatchFile, HashOf
    <3>3. \A q \in Servers : diskHash'[q] = disk'[q] /\ hashTable'[q] = disk'[q]
      BY <3>1, <3>2 DEF TypeOK
    <3> QED
      BY <3>3 DEF HashesMatchFile, HashOf
  <2> QED
    BY <2>1, <2>2
<1>4. ASSUME NEW s \in Servers, NEW d, NEW h, ddb_table_init(s, d, h)
      PROVE  HashesMatchFile'
  BY <1>4 DEF ddb_table_init, HashesMatchFile, HashOf, TypeOK
<1> QED
  BY <1>1, <1>2, <1>3, <1>4, TableSteps

(* Between two handlers the file "hashes" holds the digest of the table:   *)
(* no order of registers, packs, drops and restarts makes a restart drop   *)
(* a table that was written completely.                                    *)
THEOREM HashIsCurrent == Spec => []HashesMatchFile
<1>1. Init => HashesMatchFile
  BY DEF Init, HashesMatchFile, HashOf
<1> QED
  BY <1>1, HashesNext, TypeCorrect, PTL DEF Spec
-----------------------------------------------------------------------------
(* The lines of d that concern key k on server s, and the last of them.    *)
At(d, s, k) == {i \in 1..Len(d) : d[i].key = k /\ s \in d[i].mask}
LastAt(d, s, k) == CHOOSE i \in At(d, s, k) : \A j \in At(d, s, k) : j <= i

(* Replay in terms of the last line of a key.                              *)
LEMMA ReplayIs ==
  ASSUME NEW d, NEW s, NEW k
  PROVE  Replay(d, s, k) = IF At(d, s, k) = {} \/ d[LastAt(d, s, k)].del
                             THEN 0 ELSE d[LastAt(d, s, k)].id
  BY DEF Replay, At, LastAt

(* The last line of a key is a line of the file.                           *)
LEMMA LastAtType ==
  ASSUME NEW d \in Seq(Register), NEW s, NEW k, At(d, s, k) # {}
  PROVE  LastAt(d, s, k) \in 1..Len(d)
<1>1. Len(d) \in Nat /\ At(d, s, k) \subseteq 1..Len(d)
  BY DEF At
<1>2. \E i \in At(d, s, k) : \A j \in At(d, s, k) : j <= i
  BY <1>1, Greatest
<1> QED
  BY <1>1, <1>2 DEF LastAt

(* Appending a register and replaying is replaying and applying it.        *)
LEMMA ReplayAppend ==
  ASSUME NEW d \in Seq(Register), NEW r \in Register, NEW s, NEW k
  PROVE  Replay(Append(d, r), s, k) =
           IF r.key = k /\ s \in r.mask THEN (IF r.del THEN 0 ELSE r.id)
                                       ELSE Replay(d, s, k)
<1> DEFINE e == Append(d, r)
           n == Len(d) + 1
<1>1. /\ Len(d) \in Nat /\ Len(e) = n /\ e[n] = r
      /\ \A i \in 1..Len(d) : e[i] = d[i]
  OBVIOUS
<1> HIDE DEF e
<1>2. CASE r.key = k /\ s \in r.mask
  <2>1. n \in At(e, s, k) /\ \A j \in At(e, s, k) : j \in Nat /\ j <= n
    BY <1>1, <1>2 DEF At
  <2>2. LastAt(e, s, k) = n
    BY <1>1, <2>1 DEF LastAt
  <2> QED
    BY <1>1, <1>2, <2>1, <2>2, ReplayIs DEF e
<1>3. CASE ~(r.key = k /\ s \in r.mask)
  <2>1. At(e, s, k) = At(d, s, k)
    BY <1>1, <1>3 DEF At
  <2>2. LastAt(e, s, k) = LastAt(d, s, k)
    BY <2>1 DEF LastAt
  <2>3. At(d, s, k) # {} => e[LastAt(d, s, k)] = d[LastAt(d, s, k)]
    BY <1>1, LastAtType
  <2>4. Replay(e, s, k) = Replay(d, s, k)
    BY <2>1, <2>2, <2>3, ReplayIs
  <2> QED
    BY <1>3, <2>4 DEF e
<1> QED
  BY <1>2, <1>3

(* An empty file gives an empty table.                                     *)
LEMMA ReplayNothing ==
  ASSUME NEW s, NEW k
  PROVE  Replay(<<>>, s, k) = 0
<1>1. At(<<>>, s, k) = {}
  BY DEF At
<1> QED
  BY <1>1, ReplayIs

(* Every step keeps memory equal to the replay of the file.                *)
LEMMA MemoryNext ==
  TypeOK /\ MemoryIsReplay /\ [Next]_vars => MemoryIsReplay'
<1> SUFFICES ASSUME TypeOK, MemoryIsReplay, [Next]_vars
             PROVE  \A q \in Servers, k \in Keys : mem'[q][k] = Replay(disk'[q], q, k)
  BY DEF MemoryIsReplay
<1>1. /\ disk \in [Servers -> Seq(Register)]
      /\ mem \in [Servers -> [Keys -> 0..MaxId]]
      /\ \A q \in Servers, k \in Keys : mem[q][k] = Replay(disk[q], q, k)
  BY DEF TypeOK, MemoryIsReplay
<1>2. CASE UNCHANGED tableVars
  BY <1>1, <1>2 DEF tableVars
<1>3. ASSUME NEW s \in Servers, ddb_drop(s)
      PROVE  \A q \in Servers, k \in Keys : mem'[q][k] = Replay(disk'[q], q, k)
  <2>1. disk' = [disk EXCEPT ![s] = <<>>] /\ mem' = [mem EXCEPT ![s] = NoMem]
    BY <1>3 DEF ddb_drop
  <2>2. \A k \in Keys : NoMem[k] = Replay(<<>>, s, k)
    BY ReplayNothing DEF NoMem
  <2> QED
    BY <1>1, <2>1, <2>2
<1>4. ASSUME NEW s \in Servers, NEW r \in Register, Store(s, r)
      PROVE  \A q \in Servers, k \in Keys : mem'[q][k] = Replay(disk'[q], q, k)
  <2>1. CASE r.key = "*"
    BY <1>1, <1>4, <2>1 DEF Store, ddb_compact
  <2>2. CASE r.key # "*"
    <3> DEFINE new == IF s \in r.mask
                        THEN [mem[s] EXCEPT ![r.key] = IF r.del THEN 0 ELSE r.id]
                        ELSE mem[s]
    <3>1. /\ disk' = [disk EXCEPT ![s] = Append(disk[s], r)]
          /\ mem' = [mem EXCEPT ![s] = new]
      BY <1>4, <2>2 DEF Store, ddb_new_register
    <3>2. ASSUME NEW k \in Keys
          PROVE  new[k] = Replay(Append(disk[s], r), s, k)
      <4>1. mem[s] \in [Keys -> 0..MaxId] /\ mem[s][k] = Replay(disk[s], s, k)
        BY <1>1
      <4>2. new[k] = IF r.key = k /\ s \in r.mask THEN (IF r.del THEN 0 ELSE r.id)
                                                 ELSE mem[s][k]
        BY <4>1
      <4>3. disk[s] \in Seq(Register)
        BY <1>1
      <4> HIDE DEF new
      <4> QED
        BY <4>1, <4>2, <4>3, ReplayAppend
    <3> HIDE DEF new
    <3> QED
      BY <1>1, <3>1, <3>2
  <2> QED
    BY <2>1, <2>2
<1>5. ASSUME NEW s \in Servers, NEW d, NEW h, ddb_table_init(s, d, h)
      PROVE  \A q \in Servers, k \in Keys : mem'[q][k] = Replay(disk'[q], q, k)
  <2>1. PICK good : /\ disk' = [disk EXCEPT ![s] = good]
                    /\ mem' = [mem EXCEPT ![s] = [k \in Keys |-> Replay(good, s, k)]]
    BY <1>5 DEF ddb_table_init
  <2> QED
    BY <1>1, <2>1
<1> QED
  BY <1>2, <1>3, <1>4, <1>5, TableSteps

(* What a server answers from memory is what it would answer after a       *)
(* restart from its file, whatever registers, deletions, masks, packs,     *)
(* drops and crashes it went through.                                      *)
THEOREM MemoryIsCurrent == Spec => []MemoryIsReplay
<1>1. Init => MemoryIsReplay
  <2> SUFFICES ASSUME Init, NEW s \in Servers, NEW k \in Keys
               PROVE  mem[s][k] = Replay(disk[s], s, k)
    BY DEF MemoryIsReplay
  <2>1. disk[s] = <<>> /\ mem[s][k] = 0
    BY DEF Init, NoMem
  <2> QED
    BY <2>1, ReplayNothing
<1> QED
  BY <1>1, MemoryNext, TypeCorrect, PTL DEF Spec
-----------------------------------------------------------------------------
(* QuietMeansSynced speaks of states without messages.  What is invariant  *)
(* is an account of the messages of each link:                             *)
(*   Paired: the states of its two ends fit each other and what is on the  *)
(*     way between them; in particular an end that is not established yet  *)
(*     has a SERVER to read, and one that is left alone has a CLOSE;       *)
(*   Current: behind a join or register that the sender has lost since, by *)
(*     a drop, there is a newer join;                                      *)
(*   Synced: a hub has a join of its neighbour to read, or the neighbour   *)
(*     has something to read that it answers with a join, or the faucet is *)
(*     open and what the neighbour lacks is on its way.                    *)

(* The queue q holds a message of one of the types T. *)
Has(q, T) == \E i \in 1..Len(q) : q[i].t \in T
(* The queue q brings a register with id v or above. *)
Brings(q, v) == \E i \in 1..Len(q) : q[i].t = "REG" /\ q[i].reg.id >= v
(* A SERVER is followed by a join: ddb_burst is called with it. *)
Joined(q) == \A i \in 1..Len(q) : q[i].t = "SERVER" => \E j \in 1..Len(q) : i < j /\ q[j].t = "J"
(* What a message says that its sender has. *)
Value(m) == IF m.t = "J" THEN m.id ELSE IF m.t = "REG" THEN m.reg.id ELSE 0
Current(q, v) == \A i \in 1..Len(q) : Value(q[i]) > v => \E j \in 1..Len(q) : i < j /\ q[j].t = "J"

Paired(s, p) ==
  /\ status[s][p] = "unknown" => status[p][s] \in {"handshake", "none"} /\ ~Has(chan[s][p], {"SERVER"})
  /\ status[s][p] = "handshake" => \/ status[p][s] \in {"unknown", "none"}
                                   \/ status[p][s] = "server" /\ Has(chan[p][s], {"SERVER"})
  /\ status[s][p] = "none" /\ status[p][s] # "none" => Has(chan[s][p], {"CLOSE"})
  /\ Has(chan[s][p], {"CLOSE"}) => status[s][p] = "none"
  /\ Joined(chan[s][p])
Honest(s, p) ==
  p \in Hubs /\ status[s][p] = "server" /\ status[p][s] # "none" => Current(chan[s][p], idTable[s])
Covered(x, s) == s \in open[x] /\ (idTable[s] >= idTable[x] \/ Brings(chan[x][s], idTable[x]))
Asked(x, s) == Has(chan[s][x], {"J", "CLOSE"}) \/ Has(chan[x][s], {"SERVER", "B", "D"})
Synced(x, s) == x \in Hubs /\ status[x][s] = "server" => Asked(x, s) \/ Covered(x, s)
Half(s, p) == Paired(s, p) /\ Honest(s, p) /\ Synced(s, p)
(* Without packing the id of a table is that of its last line. *)
Ends(d, v) == v = IF d = <<>> THEN 0 ELSE d[Len(d)].id
SyncInv ==
  /\ \A s \in Servers : status[s][s] = "none" /\ Ends(disk[s], idTable[s])
  /\ \A s, p \in Servers : s # p => Half(s, p)

(* The registers and joins of messages are numbers. *)
LEMMA ValueType ==
  ASSUME NEW m \in Msg
  PROVE  Value(m) \in Nat /\ (m.t = "REG" => m.reg \in Register /\ m.reg.id \in Nat)
<1>1. CASE m.t = "J"
  <2>1. m.id \in 0..MaxId
    BY <1>1 DEF Msg
  <2> QED
    BY <1>1, <2>1, DdbAssumption DEF Value
<1>2. CASE m.t = "REG"
  <2>1. m.reg \in Register
    BY <1>2 DEF Msg
  <2> QED
    BY <1>2, <2>1, RegisterId DEF Value
<1> QED
  BY <1>1, <1>2 DEF Value

(* The messages of two queues behind each other. *)
LEMMA CatIs ==
  ASSUME NEW q \in Seq(Msg), NEW r \in Seq(Msg)
  PROVE  /\ q \o r \in Seq(Msg) /\ Len(q \o r) = Len(q) + Len(r) /\ Len(q) \in Nat /\ Len(r) \in Nat
         /\ \A i \in 1..Len(q) : i \in 1..Len(q \o r) /\ (q \o r)[i] = q[i]
         /\ \A i \in 1..Len(r) : Len(q) + i \in 1..Len(q \o r) /\ (q \o r)[Len(q) + i] = r[i]
         /\ \A i \in 1..Len(q \o r) : i \in 1..Len(q) \/ (i - Len(q) \in 1..Len(r) /\ (q \o r)[i] = r[i - Len(q)])
OBVIOUS

(* The messages of a queue behind its first one. *)
LEMMA TailIs ==
  ASSUME NEW q \in Seq(Msg), q # <<>>
  PROVE  /\ Tail(q) \in Seq(Msg) /\ Len(q) \in Nat /\ Len(Tail(q)) = Len(q) - 1 /\ Head(q) = q[1] /\ Head(q) \in Msg
         /\ 1 \in 1..Len(q)
         /\ \A i \in 1..Len(Tail(q)) : i + 1 \in 1..Len(q) /\ Tail(q)[i] = q[i + 1]
         /\ \A i \in 1..Len(q) : i = 1 \/ (i - 1 \in 1..Len(Tail(q)) /\ Tail(q)[i - 1] = q[i])
OBVIOUS

(* What a longer queue holds. *)
LEMMA HasCat ==
  ASSUME NEW q \in Seq(Msg), NEW r \in Seq(Msg), NEW T
  PROVE  Has(q \o r, T) <=> Has(q, T) \/ Has(r, T)
<1> USE CatIs
<1>1. ASSUME Has(q \o r, T) PROVE Has(q, T) \/ Has(r, T)
  BY <1>1 DEF Has
<1>2. ASSUME Has(q, T) PROVE Has(q \o r, T)
  BY <1>2 DEF Has
<1>3. ASSUME Has(r, T) PROVE Has(q \o r, T)
  <2>1. PICK i \in 1..Len(r) : r[i].t \in T
    BY <1>3 DEF Has
  <2>2. Len(q) + i \in 1..Len(q \o r) /\ (q \o r)[Len(q) + i] = r[i]
    OBVIOUS
  <2> QED
    BY <2>1, <2>2 DEF Has
<1> QED
  BY <1>1, <1>2, <1>3

(* What is left when the first message was read. *)
LEMMA HasTail ==
  ASSUME NEW q \in Seq(Msg), q # <<>>, NEW T
  PROVE  Has(q, T) <=> Head(q).t \in T \/ Has(Tail(q), T)
<1> USE TailIs
<1>1. ASSUME Has(q, T) PROVE Head(q).t \in T \/ Has(Tail(q), T)
  BY <1>1 DEF Has
<1>2. ASSUME Head(q).t \in T PROVE Has(q, T)
  BY <1>2 DEF Has
<1>3. ASSUME Has(Tail(q), T) PROVE Has(q, T)
  BY <1>3 DEF Has
<1> QED
  BY <1>1, <1>2, <1>3

(* What short queues hold. *)
LEMMA HasFew ==
  ASSUME NEW T
  PROVE  /\ ~Has(<<>>, T)
         /\ \A m \in Msg : Has(<<m>>, T) <=> m.t \in T
BY DEF Has

(* A register on its way stays on its way behind others, until it is read. *)
LEMMA BringsMore ==
  ASSUME NEW q \in Seq(Msg), NEW v \in Nat
  PROVE  /\ \A r \in Seq(Msg) : Brings(q, v) \/ Brings(r, v) => Brings(q \o r, v)
         /\ q # <<>> /\ Brings(q, v) => (Head(q).t = "REG" /\ Head(q).reg.id >= v) \/ Brings(Tail(q), v)
<1>1. ASSUME NEW r \in Seq(Msg), Brings(q, v) \/ Brings(r, v) PROVE Brings(q \o r, v)
  <2>1. CASE Brings(q, v)
    <3>1. PICK i \in 1..Len(q) : q[i].t = "REG" /\ q[i].reg.id >= v
      BY <2>1 DEF Brings
    <3>2. i \in 1..Len(q \o r) /\ (q \o r)[i] = q[i]
      BY CatIs
    <3> QED
      BY <3>1, <3>2 DEF Brings
  <2>2. CASE Brings(r, v)
    <3>1. PICK i \in 1..Len(r) : r[i].t = "REG" /\ r[i].reg.id >= v
      BY <2>2 DEF Brings
    <3>2. Len(q) + i \in 1..Len(q \o r) /\ (q \o r)[Len(q) + i] = r[i]
      BY CatIs
    <3> QED
      BY <3>1, <3>2 DEF Brings
  <2> QED
    BY <1>1, <2>1, <2>2
<1>2. ASSUME q # <<>>, Brings(q, v) PROVE (Head(q).t = "REG" /\ Head(q).reg.id >= v) \/ Brings(Tail(q), v)
  <2>1. PICK i \in 1..Len(q) : q[i].t = "REG" /\ q[i].reg.id >= v
    BY <1>2 DEF Brings
  <2>2. CASE i = 1
    BY <1>2, <2>1, <2>2, TailIs
  <2>3. CASE i - 1 \in 1..Len(Tail(q)) /\ Tail(q)[i - 1] = q[i]
    BY <2>1, <2>3 DEF Brings
  <2> QED
    BY <1>2, <2>2, <2>3, TailIs
<1> QED
  BY <1>1, <1>2

(* Joins stay behind the SERVERs they belong to. *)
LEMMA JoinedMore ==
  ASSUME NEW q \in Seq(Msg), Joined(q)
  PROVE  /\ \A r \in Seq(Msg) : Joined(r) => Joined(q \o r)
         /\ q # <<>> => Joined(Tail(q)) /\ (Head(q).t = "SERVER" => Has(Tail(q), {"J"}))
<1>1. ASSUME NEW r \in Seq(Msg), Joined(r) PROVE Joined(q \o r)
  <2> SUFFICES ASSUME NEW i \in 1..Len(q \o r), (q \o r)[i].t = "SERVER"
               PROVE  \E j \in 1..Len(q \o r) : i < j /\ (q \o r)[j].t = "J"
    BY DEF Joined
  <2>1. CASE i \in 1..Len(q)
    <3>1. (q \o r)[i] = q[i]
      BY <2>1, CatIs
    <3>2. PICK j \in 1..Len(q) : i < j /\ q[j].t = "J"
      BY <2>1, <3>1 DEF Joined
    <3>3. j \in 1..Len(q \o r) /\ (q \o r)[j] = q[j]
      BY CatIs
    <3> QED
      BY <3>2, <3>3
  <2>2. CASE i - Len(q) \in 1..Len(r) /\ (q \o r)[i] = r[i - Len(q)]
    <3>1. PICK j \in 1..Len(r) : i - Len(q) < j /\ r[j].t = "J"
      BY <1>1, <2>2 DEF Joined
    <3>2. Len(q) + j \in 1..Len(q \o r) /\ (q \o r)[Len(q) + j] = r[j] /\ i < Len(q) + j
      BY <3>1, CatIs, SMTT(60)
    <3> QED
      BY <3>1, <3>2
  <2> QED
    BY <2>1, <2>2, CatIs
<1>2. ASSUME q # <<>> PROVE Joined(Tail(q))
  <2> SUFFICES ASSUME NEW i \in 1..Len(Tail(q)), Tail(q)[i].t = "SERVER"
               PROVE  \E j \in 1..Len(Tail(q)) : i < j /\ Tail(q)[j].t = "J"
    BY DEF Joined
  <2>1. PICK j \in 1..Len(q) : i + 1 < j /\ q[j].t = "J"
    BY <1>2, TailIs DEF Joined
  <2>2. j - 1 \in 1..Len(Tail(q)) /\ Tail(q)[j - 1] = q[j] /\ i < j - 1
    BY <1>2, <2>1, TailIs
  <2> QED
    BY <2>1, <2>2
<1>3. ASSUME q # <<>>, Head(q).t = "SERVER" PROVE Has(Tail(q), {"J"})
  <2>1. PICK j \in 1..Len(q) : 1 < j /\ q[j].t = "J"
    BY <1>3, TailIs DEF Joined
  <2> QED
    BY <1>3, <2>1, TailIs DEF Has
<1> QED
  BY <1>1, <1>2, <1>3

(* Queues without a SERVER are joined. *)
LEMMA JoinedNone ==
  ASSUME NEW q \in Seq(Msg), ~Has(q, {"SERVER"})
  PROVE  Joined(q)
BY DEF Joined, Has

(* What was current stays current: behind it comes what the sender has     *)
(* now, the first message is read, and the sender's id grows.              *)
LEMMA CurrentMore ==
  ASSUME NEW q \in Seq(Msg), NEW v \in Nat, Current(q, v)
  PROVE  /\ \A r \in Seq(Msg) : (\A i \in 1..Len(r) : Value(r[i]) <= v) => Current(q \o r, v)
         /\ q # <<>> => Current(Tail(q), v) /\ (Value(Head(q)) <= v \/ Has(Tail(q), {"J"}))
         /\ \A w \in Nat : v <= w => Current(q, w)
<1>1. ASSUME NEW r \in Seq(Msg), \A i \in 1..Len(r) : Value(r[i]) <= v PROVE Current(q \o r, v)
  <2> SUFFICES ASSUME NEW i \in 1..Len(q \o r), Value((q \o r)[i]) > v
               PROVE  \E j \in 1..Len(q \o r) : i < j /\ (q \o r)[j].t = "J"
    BY DEF Current
  <2>1. CASE i \in 1..Len(q)
    <3>1. (q \o r)[i] = q[i]
      BY <2>1, CatIs
    <3>2. PICK j \in 1..Len(q) : i < j /\ q[j].t = "J"
      BY <2>1, <3>1 DEF Current
    <3>3. j \in 1..Len(q \o r) /\ (q \o r)[j] = q[j]
      BY CatIs
    <3> QED
      BY <3>2, <3>3
  <2>2. CASE i - Len(q) \in 1..Len(r) /\ (q \o r)[i] = r[i - Len(q)]
    <3>1. r[i - Len(q)] \in Msg /\ Value(r[i - Len(q)]) <= v
      BY <1>1, <2>2
    <3>2. Value(r[i - Len(q)]) \in Nat
      BY <3>1, ValueType
    <3> QED
      BY <2>2, <3>1, <3>2
  <2> QED
    BY <2>1, <2>2, CatIs, SMTT(60)
<1>2. ASSUME q # <<>> PROVE Current(Tail(q), v)
  <2> SUFFICES ASSUME NEW i \in 1..Len(Tail(q)), Value(Tail(q)[i]) > v
               PROVE  \E j \in 1..Len(Tail(q)) : i < j /\ Tail(q)[j].t = "J"
    BY DEF Current
  <2>1. PICK j \in 1..Len(q) : i + 1 < j /\ q[j].t = "J"
    BY <1>2, TailIs DEF Current
  <2>2. j - 1 \in 1..Len(Tail(q)) /\ Tail(q)[j - 1] = q[j] /\ i < j - 1
    BY <1>2, <2>1, TailIs
  <2> QED
    BY <2>1, <2>2
<1>3. ASSUME q # <<>> PROVE Value(Head(q)) <= v \/ Has(Tail(q), {"J"})
  <2> SUFFICES ASSUME ~(Value(Head(q)) <= v) PROVE Has(Tail(q), {"J"})
    OBVIOUS
  <2>1. Value(Head(q)) > v
    BY <1>3, TailIs, ValueType
  <2>2. PICK j \in 1..Len(q) : 1 < j /\ q[j].t = "J"
    BY <1>3, <2>1, TailIs DEF Current
  <2> QED
    BY <1>3, <2>2, TailIs DEF Has
<1>4. ASSUME NEW w \in Nat, v <= w PROVE Current(q, w)
  <2> SUFFICES ASSUME NEW i \in 1..Len(q), Value(q[i]) > w PROVE Value(q[i]) > v
    BY DEF Current
  <2>1. q[i] \in Msg
    OBVIOUS
  <2>2. Value(q[i]) \in Nat
    BY <2>1, ValueType
  <2> QED
    BY <1>4, <2>2
<1> QED
  BY <1>1, <1>2, <1>3, <1>4

(* A join with the present id makes everything before it current.          *)
LEMMA CurrentEnd ==
  ASSUME NEW q \in Seq(Msg), NEW r \in Seq(Msg), NEW v \in Nat, r # <<>>,
         r[Len(r)].t = "J", \A i \in 1..Len(r) : Value(r[i]) <= v
  PROVE  Current(q \o r, v)
<1> DEFINE n == Len(q) + Len(r)
<1>1. n \in 1..Len(q \o r) /\ (q \o r)[n] = r[Len(r)] /\ Len(r) \in 1..Len(r)
  BY CatIs
<1> SUFFICES ASSUME NEW i \in 1..Len(q \o r), Value((q \o r)[i]) > v
             PROVE  i < n
  BY <1>1 DEF Current
<1>2. CASE i \in 1..Len(q)
  BY <1>1, <1>2, CatIs
<1>3. CASE i - Len(q) \in 1..Len(r) /\ (q \o r)[i] = r[i - Len(q)]
  <2>1. r[i - Len(q)] \in Msg /\ Value(r[i - Len(q)]) <= v
    BY <1>3
  <2>2. Value(r[i - Len(q)]) \in Nat
    BY <2>1, ValueType
  <2> QED
    BY <1>3, <2>1, <2>2
<1> QED
  BY <1>2, <1>3, CatIs
-----------------------------------------------------------------------------
(* One link in one step of s: s says o to p, and has perhaps read one      *)
(* message of p that does not end or establish the link.                   *)
Says(s, p, o) == chan'[s][p] = IF status[p][s] # "none" THEN chan[s][p] \o o ELSE chan[s][p]
Reads(s, p, o) ==
  LET h == Head(chan[p][s])
  IN  /\ chan[p][s] # <<>> /\ chan'[p][s] = Tail(chan[p][s])
      /\ h.t \notin {"SERVER", "CLOSE"}
      /\ p \in Hubs /\ h.t \in {"B", "D"} => Has(o, {"J"})
      /\ p \in Hubs /\ h.t = "REG" => h.reg.id <= idTable'[s]
Stays(s, p) == status'[s][p] = status[s][p] /\ status'[p][s] = status[p][s]

(* The types of a link. *)
Link(s, p) ==
  /\ s \in Servers /\ p \in Servers /\ s # p
  /\ status[s][p] \in {"none", "unknown", "handshake", "server"}
  /\ status[p][s] \in {"none", "unknown", "handshake", "server"}
  /\ chan[s][p] \in Seq(Msg) /\ chan[p][s] \in Seq(Msg)
  /\ idTable[s] \in Nat /\ idTable[p] \in Nat

(* TypeOK, link by link. *)
LEMMA LinkType ==
  ASSUME TypeOK, NEW s \in Servers, NEW p \in Servers, s # p
  PROVE  Link(s, p)
<1>1. idTable[s] \in 0..MaxId /\ idTable[p] \in 0..MaxId
  BY DEF TypeOK
<1>2. idTable[s] \in Nat /\ idTable[p] \in Nat
  BY <1>1, DdbAssumption
<1>3. chan[s][p] \in Seq(Msg) /\ chan[p][s] \in Seq(Msg)
  BY DEF TypeOK
<1>4. /\ status[s][p] \in {"none", "unknown", "handshake", "server"}
      /\ status[p][s] \in {"none", "unknown", "handshake", "server"}
  <2> DEFINE S == {"none", "unknown", "handshake", "server"}
  <2>1. status \in [Servers -> [Servers -> S]]
    BY DEF TypeOK
  <2> HIDE DEF S
  <2>2. status[s][p] \in S /\ status[p][s] \in S
    BY <2>1
  <2> QED
    BY <2>2 DEF S
<1> QED
  BY <1>2, <1>3, <1>4 DEF Link

(* An end of an established link whose other end is not: a CLOSE or a      *)
(* SERVER is on its way.                                                   *)
LEMMA Waits ==
  ASSUME NEW s, NEW p, Link(s, p), Paired(p, s), status[s][p] = "server", status[p][s] # "server"
  PROVE  Has(chan[p][s], {"CLOSE"}) \/ Has(chan[s][p], {"SERVER"})
BY DEF Link, Paired

(* A message of one kind is one of several kinds. *)
LEMMA HasWider ==
  ASSUME NEW q \in Seq(Msg), NEW T, NEW U, Has(q, T), T \subseteq U
  PROVE  Has(q, U)
BY DEF Has

(* What the two queues hold after such a step. *)
LEMMA QuietQueues ==
  ASSUME NEW s, NEW p, Link(s, p), NEW o \in Seq(Msg), ~Has(o, {"SERVER", "CLOSE"}),
         Says(s, p, o), Reads(s, p, o) \/ chan'[p][s] = chan[p][s]
  PROVE  /\ chan'[s][p] \in Seq(Msg) /\ chan'[p][s] \in Seq(Msg)
         /\ \A T : Has(chan[s][p], T) => Has(chan'[s][p], T)
         /\ \A T : Has(chan'[p][s], T) => Has(chan[p][s], T)
         /\ \A t \in {"SERVER", "CLOSE"} : /\ Has(chan'[s][p], {t}) => Has(chan[s][p], {t})
                                           /\ Has(chan[p][s], {t}) => Has(chan'[p][s], {t})
         /\ Joined(chan[s][p]) => Joined(chan'[s][p])
         /\ Joined(chan[p][s]) => Joined(chan'[p][s])
<1>1. \A t \in {"SERVER", "CLOSE"} : ~Has(o, {t})
  BY DEF Has
<1>2. chan[s][p] \in Seq(Msg) /\ chan[p][s] \in Seq(Msg)
  BY DEF Link
<1>3. chan'[s][p] = chan[s][p] \/ chan'[s][p] = chan[s][p] \o o
  BY DEF Says
<1>4. \/ chan'[p][s] = chan[p][s]
      \/ /\ chan[p][s] # <<>> /\ chan'[p][s] = Tail(chan[p][s])
         /\ Head(chan[p][s]).t \notin {"SERVER", "CLOSE"}
  BY DEF Reads
<1>5. chan'[s][p] \in Seq(Msg) /\ chan'[p][s] \in Seq(Msg)
  <2>1. chan[s][p] \o o \in Seq(Msg)
    BY <1>2
  <2>2. chan[p][s] # <<>> => Tail(chan[p][s]) \in Seq(Msg)
    BY <1>2
  <2> QED
    BY <1>2, <1>3, <1>4, <2>1, <2>2
<1>6. \A T : Has(chan[s][p], T) => Has(chan'[s][p], T)
  BY <1>2, <1>3, HasCat
<1>7. \A T : Has(chan'[p][s], T) => Has(chan[p][s], T)
  BY <1>2, <1>4, HasTail
<1>8. ASSUME NEW t \in {"SERVER", "CLOSE"}, Has(chan'[s][p], {t}) PROVE Has(chan[s][p], {t})
  <2>1. CASE chan'[s][p] = chan[s][p]
    BY <1>8, <2>1
  <2>2. CASE chan'[s][p] = chan[s][p] \o o
    <3>1. Has(chan[s][p] \o o, {t})
      BY <1>8, <2>2
    <3>2. Has(chan[s][p], {t}) \/ Has(o, {t})
      BY <1>2, <3>1, HasCat
    <3> QED
      BY <1>1, <3>2
  <2> QED
    BY <1>3, <2>1, <2>2
<1>9. ASSUME NEW t \in {"SERVER", "CLOSE"}, Has(chan[p][s], {t}) PROVE Has(chan'[p][s], {t})
  <2>1. CASE chan'[p][s] = chan[p][s]
    BY <1>9, <2>1
  <2>2. CASE chan[p][s] # <<>> /\ chan'[p][s] = Tail(chan[p][s]) /\ Head(chan[p][s]).t \notin {"SERVER", "CLOSE"}
    <3>1. Head(chan[p][s]).t \notin {t}
      BY <2>2
    <3> QED
      BY <1>2, <1>9, <2>2, <3>1, HasTail
  <2> QED
    BY <1>4, <2>1, <2>2
<1>10. Joined(chan[s][p]) => Joined(chan'[s][p])
  BY <1>1, <1>2, <1>3, JoinedNone, JoinedMore
<1>11. Joined(chan[p][s]) => Joined(chan'[p][s])
  BY <1>2, <1>4, JoinedMore
<1> QED
  BY <1>5, <1>6, <1>7, <1>8, <1>9, <1>10, <1>11

(* The ends still fit each other after such a step. *)
LEMMA QuietPaired ==
  ASSUME NEW s, NEW p, Link(s, p), Paired(s, p), Paired(p, s), NEW o \in Seq(Msg), ~Has(o, {"SERVER", "CLOSE"}),
         Stays(s, p), Says(s, p, o), Reads(s, p, o) \/ chan'[p][s] = chan[p][s]
  PROVE  Paired(s, p)' /\ Paired(p, s)'
<1>1. /\ \A t \in {"SERVER", "CLOSE"} : /\ Has(chan'[s][p], {t}) <=> Has(chan[s][p], {t})
                                        /\ Has(chan[p][s], {t}) <=> Has(chan'[p][s], {t})
      /\ Joined(chan[s][p]) => Joined(chan'[s][p])
      /\ Joined(chan[p][s]) => Joined(chan'[p][s])
  BY QuietQueues
<1>2. /\ Has(chan'[s][p], {"SERVER"}) <=> Has(chan[s][p], {"SERVER"})
      /\ Has(chan'[s][p], {"CLOSE"}) <=> Has(chan[s][p], {"CLOSE"})
      /\ Has(chan'[p][s], {"SERVER"}) <=> Has(chan[p][s], {"SERVER"})
      /\ Has(chan'[p][s], {"CLOSE"}) <=> Has(chan[p][s], {"CLOSE"})
  BY <1>1
<1>3. Joined(chan[s][p]) /\ Joined(chan[p][s])
  BY DEF Paired
<1>4. Joined(chan'[s][p]) /\ Joined(chan'[p][s])
  BY <1>1, <1>3
<1>5. Paired(s, p)'
  BY <1>2, <1>4 DEF Paired, Stays
<1>6. Paired(p, s)'
  BY <1>2, <1>4 DEF Paired, Stays
<1> QED
  BY <1>5, <1>6

(* What they say is still current, if s has not lost anything.             *)
LEMMA QuietHonest ==
  ASSUME NEW s, NEW p, Link(s, p), Honest(s, p), Honest(p, s), NEW o \in Seq(Msg),
         Stays(s, p), Says(s, p, o), Reads(s, p, o) \/ chan'[p][s] = chan[p][s],
         idTable'[s] \in Nat, idTable'[s] >= idTable[s], idTable'[p] = idTable[p],
         \A i \in 1..Len(o) : Value(o[i]) <= idTable'[s]
  PROVE  Honest(s, p)' /\ Honest(p, s)'
<1>1. ASSUME p \in Hubs, status[s][p] = "server", status[p][s] # "none" PROVE Current(chan'[s][p], idTable'[s])
  <2>1. Current(chan[s][p], idTable[s])
    BY <1>1 DEF Honest
  <2>2. Current(chan[s][p], idTable'[s])
    BY <2>1, CurrentMore DEF Link
  <2> QED
    BY <1>1, <2>2, CurrentMore DEF Link, Says
<1>2. ASSUME s \in Hubs, status[p][s] = "server", status[s][p] # "none" PROVE Current(chan'[p][s], idTable[p])
  <2>1. Current(chan[p][s], idTable[p])
    BY <1>2 DEF Honest
  <2> QED
    BY <2>1, CurrentMore DEF Link, Reads
<1> QED
  BY <1>1, <1>2 DEF Honest, Stays

(* A neighbour hub p of s: what s reads of it is stored or answered.       *)
LEMMA QuietSynced ==
  ASSUME NEW s, NEW p, Link(s, p), Synced(p, s), NEW o \in Seq(Msg), ~Has(o, {"SERVER", "CLOSE"}),
         Stays(s, p), Says(s, p, o), Reads(s, p, o) \/ chan'[p][s] = chan[p][s],
         idTable'[s] \in Nat, idTable'[s] >= idTable[s], idTable'[p] = idTable[p], open'[p] = open[p]
  PROVE  Synced(p, s)'
<1> SUFFICES ASSUME p \in Hubs, status[p][s] = "server"
             PROVE  Asked(p, s)' \/ Covered(p, s)'
  BY DEF Synced, Stays
<1>1. Asked(p, s) \/ Covered(p, s)
  BY DEF Synced
<1>2. chan'[s][p] = chan[s][p] \o o /\ chan[s][p] \in Seq(Msg) /\ chan[p][s] \in Seq(Msg)
  BY DEF Says, Link
<1>3. CASE Has(chan[s][p], {"J", "CLOSE"})
  BY <1>2, <1>3, HasCat DEF Asked
<1>4. CASE Has(chan[p][s], {"SERVER", "B", "D"})
  <2>1. CASE chan'[p][s] = chan[p][s]
    BY <1>4, <2>1 DEF Asked
  <2>2. CASE Reads(s, p, o) /\ Head(chan[p][s]).t \in {"B", "D"}
    <3>1. Has(o, {"J"})
      BY <2>2 DEF Reads
    <3>2. Has(o, {"J", "CLOSE"})
      BY <3>1, HasWider
    <3> QED
      BY <1>2, <3>2, HasCat DEF Asked
  <2>3. CASE Reads(s, p, o) /\ Head(chan[p][s]).t \notin {"B", "D"}
    <3>1. chan[p][s] # <<>> /\ chan'[p][s] = Tail(chan[p][s]) /\ Head(chan[p][s]).t \notin {"SERVER", "B", "D"}
      BY <2>3 DEF Reads
    <3> QED
      BY <1>2, <1>4, <3>1, HasTail DEF Asked
  <2> QED
    BY <2>1, <2>2, <2>3
<1>5. CASE Covered(p, s)
  <2>1. s \in open'[p] /\ idTable[s] \in Nat /\ idTable[p] \in Nat
    BY <1>5 DEF Covered, Link
  <2>2. CASE idTable[s] >= idTable[p]
    <3>1. idTable'[s] >= idTable[p]
      BY <2>1, <2>2
    <3> QED
      BY <2>1, <3>1 DEF Covered
  <2>3. CASE Brings(chan[p][s], idTable[p]) /\ chan'[p][s] = chan[p][s]
    BY <2>1, <2>3 DEF Covered
  <2>4. CASE Brings(chan[p][s], idTable[p]) /\ Reads(s, p, o)
    <3>1. /\ chan[p][s] # <<>> /\ chan'[p][s] = Tail(chan[p][s])
          /\ Head(chan[p][s]).t = "REG" => Head(chan[p][s]).reg.id <= idTable'[s]
      BY <2>4 DEF Reads
    <3>2. CASE Brings(Tail(chan[p][s]), idTable[p])
      BY <2>1, <3>1, <3>2 DEF Covered
    <3>3. CASE Head(chan[p][s]).t = "REG" /\ Head(chan[p][s]).reg.id >= idTable[p]
      <4>1. Head(chan[p][s]).reg.id \in Nat
        BY <1>2, <3>1, <3>3, TailIs, ValueType
      <4>2. idTable'[s] >= idTable[p]
        BY <2>1, <3>1, <3>3, <4>1
      <4> QED
        BY <2>1, <4>2 DEF Covered
    <3> QED
      BY <1>2, <2>1, <2>4, <3>1, <3>2, <3>3, BringsMore
  <2> QED
    BY <1>5, <2>2, <2>3, <2>4 DEF Covered
<1> QED
  BY <1>1, <1>3, <1>4, <1>5 DEF Asked
(* A hub s has a join or a CLOSE of p to read, or p has something to read  *)
(* that it answers, or what p lacks is behind an open faucet.              *)
LEMMA SyncedMore ==
  ASSUME NEW s, NEW p, Link(s, p), Paired(p, s), NEW o \in Seq(Msg), Stays(s, p), Says(s, p, o),
         idTable'[s] \in Nat,
         Has(chan[p][s], {"CLOSE"}) => Has(chan'[p][s], {"CLOSE"}),
         s \in Hubs /\ status[s][p] = "server" =>
           \/ Has(chan'[p][s], {"J", "CLOSE"})
           \/ Has(chan[s][p], {"SERVER", "B", "D"})
           \/ Has(o, {"SERVER", "B", "D"})
           \/ p \in open'[s] /\ \/ idTable'[p] >= idTable'[s]
                                \/ Brings(chan[s][p], idTable'[s])
                                \/ Brings(o, idTable'[s])
  PROVE  Synced(s, p)'
<1> SUFFICES ASSUME s \in Hubs, status[s][p] = "server"
             PROVE  Asked(s, p)' \/ Covered(s, p)'
  BY DEF Synced, Stays
<1>1. CASE status[p][s] = "none"
  <2>1. Has(chan'[p][s], {"CLOSE"}) /\ chan'[p][s] = chan'[p][s]
    BY <1>1 DEF Paired
  <2>2. Has(chan'[p][s], {"J", "CLOSE"})
    BY <2>1 DEF Has
  <2> QED
    BY <2>2 DEF Asked
<1>2. CASE status[p][s] # "none"
  <2>1. chan'[s][p] = chan[s][p] \o o /\ chan[s][p] \in Seq(Msg)
    BY <1>2 DEF Says, Link
  <2>2. CASE Has(chan'[p][s], {"J", "CLOSE"})
    BY <2>2 DEF Asked
  <2>3. CASE Has(chan[s][p], {"SERVER", "B", "D"}) \/ Has(o, {"SERVER", "B", "D"})
    BY <2>1, <2>3, HasCat DEF Asked
  <2>4. CASE p \in open'[s] /\ idTable'[p] >= idTable'[s]
    BY <2>4 DEF Covered
  <2>5. CASE p \in open'[s] /\ (Brings(chan[s][p], idTable'[s]) \/ Brings(o, idTable'[s]))
    <3>1. Brings(chan'[s][p], idTable'[s])
      BY <2>1, <2>5, BringsMore
    <3> QED
      BY <2>5, <3>1 DEF Covered
  <2> QED
    BY <2>2, <2>3, <2>4, <2>5
<1> QED
  BY <1>1, <1>2

(* Both directions of a link after a step that neither ends nor            *)
(* establishes it, in which s loses nothing it has.                        *)
LEMMA QuietLink ==
  ASSUME NEW s, NEW p, Link(s, p), Half(s, p), Half(p, s), NEW o \in Seq(Msg), ~Has(o, {"SERVER", "CLOSE"}),
         Stays(s, p), Says(s, p, o), Reads(s, p, o) \/ chan'[p][s] = chan[p][s],
         idTable'[s] \in Nat, idTable'[s] >= idTable[s], idTable'[p] = idTable[p], open'[p] = open[p],
         \A i \in 1..Len(o) : Value(o[i]) <= idTable'[s],
         s \in Hubs /\ status[s][p] = "server" =>
           \/ Has(chan'[p][s], {"J", "CLOSE"})
           \/ Has(chan[s][p], {"SERVER", "B", "D"})
           \/ Has(o, {"SERVER", "B", "D"})
           \/ p \in open'[s] /\ \/ idTable'[p] >= idTable'[s]
                                \/ Brings(chan[s][p], idTable'[s])
                                \/ Brings(o, idTable'[s])
  PROVE  Half(s, p)' /\ Half(p, s)'
<1>1. Paired(s, p) /\ Paired(p, s) /\ Honest(s, p) /\ Honest(p, s) /\ Synced(p, s)
  BY DEF Half
<1>2. Paired(s, p)' /\ Paired(p, s)'
  BY <1>1, QuietPaired
<1>3. Honest(s, p)' /\ Honest(p, s)'
  BY <1>1, QuietHonest
<1>4. Synced(p, s)'
  BY <1>1, QuietSynced
<1>5. Has(chan[p][s], {"CLOSE"}) => Has(chan'[p][s], {"CLOSE"})
  BY QuietQueues
<1>6. Synced(s, p)'
  BY <1>1, <1>5, SyncedMore
<1> QED
  BY <1>2, <1>3, <1>4, <1>6 DEF Half

(* A link that a step leaves alone. *)
LEMMA SameLink ==
  ASSUME NEW s, NEW p, Half(s, p), Stays(s, p),
         chan'[s][p] = chan[s][p], chan'[p][s] = chan[p][s],
         idTable'[s] = idTable[s], idTable'[p] = idTable[p],
         p \in open'[s] <=> p \in open[s]
  PROVE  Half(s, p)'
<1>1. Paired(s, p)'
  BY DEF Half, Paired, Stays
<1>2. Honest(s, p)'
  BY DEF Half, Honest, Stays
<1>3. Synced(s, p)'
  BY DEF Half, Synced, Stays, Asked, Covered
<1> QED
  BY <1>1, <1>2, <1>3 DEF Half

(* A link that s has closed: p has a CLOSE to read, or has closed it too.  *)
LEMMA LeftLink ==
  ASSUME NEW s, NEW p, status'[s][p] = "none",
         Joined(chan'[s][p]), Joined(chan'[p][s]),
         status'[p][s] # "none" => Has(chan'[s][p], {"CLOSE"}) /\ chan'[p][s] = <<>>
  PROVE  Half(s, p)' /\ Half(p, s)'
<1>0. \A T : ~Has(<<>>, T)
  BY HasFew
<1>1. Paired(s, p)'
  BY DEF Paired
<1>2. Paired(p, s)'
  BY <1>0 DEF Paired
<1>3. Honest(s, p)' /\ Honest(p, s)' /\ Synced(s, p)'
  BY DEF Honest, Synced
<1>4. Synced(p, s)'
  <2>1. ASSUME status'[p][s] # "none" PROVE Has(chan'[s][p], {"J", "CLOSE"})
    BY <2>1 DEF Has
  <2> QED
    BY <2>1 DEF Synced, Asked
<1> QED
  BY <1>1, <1>2, <1>3, <1>4 DEF Half

(* A step of m concerns the links of m only. *)
LEMMA Around ==
  ASSUME SyncInv, NEW m \in Servers,
         \A s, p \in Servers \ {m} : /\ Stays(s, p) /\ chan'[s][p] = chan[s][p]
                                     /\ idTable'[s] = idTable[s] /\ open'[s] = open[s],
         \A p \in Servers \ {m} : Half(m, p)' /\ Half(p, m)'
  PROVE  \A s, p \in Servers : s # p => Half(s, p)'
<1> SUFFICES ASSUME NEW s \in Servers, NEW p \in Servers, s # p PROVE Half(s, p)'
  OBVIOUS
<1>1. CASE s = m \/ p = m
  BY <1>1
<1>2. CASE s # m /\ p # m
  <2>1. Half(s, p)
    BY DEF SyncInv
  <2>2. /\ Stays(s, p) /\ chan'[s][p] = chan[s][p] /\ chan'[p][s] = chan[p][s]
        /\ idTable'[s] = idTable[s] /\ idTable'[p] = idTable[p] /\ open'[s] = open[s]
    BY <1>2
  <2> QED
    BY <2>1, <2>2, SameLink
<1> QED
  BY <1>1, <1>2

(* The queues after a handled message that ends the connections of the     *)
(* set cut.                                                                *)
LEMMA CutLinks ==
  ASSUME TypeOK, NEW m \in Servers, NEW n \in Servers, m # n, NEW cut, n \notin cut, m \notin cut,
         NEW o \in [Servers -> Seq(Msg)], Handle(m, n, o, cut)
  PROVE  /\ chan'[n][m] = Tail(chan[n][m])
         /\ \A p \in Servers \ ({m} \cup cut) : Says(m, p, o[p]) /\ (p # n => chan'[p][m] = chan[p][m])
         /\ \A p \in cut \cap Servers :
              /\ chan'[p][m] = <<>>
              /\ chan'[m][p] = IF status[p][m] # "none" THEN chan[m][p] \o o[p] \o <<M("CLOSE")>> ELSE chan[m][p]
         /\ \A s, p \in Servers \ {m} : chan'[s][p] = chan[s][p]
<1>1. \A a, b \in Servers : chan'[a][b] =
         IF b = m /\ a \in cut THEN <<>>
         ELSE IF a = n /\ b = m THEN Tail(chan[n][m])
         ELSE IF a = m /\ status[b][m] # "none"
                THEN chan[m][b] \o o[b] \o (IF b \in cut THEN <<M("CLOSE")>> ELSE <<>>)
         ELSE chan[a][b]
  BY DEF Handle
<1>2. \A p \in Servers : chan[m][p] \o o[p] \o <<>> = chan[m][p] \o o[p]
  <2> SUFFICES ASSUME NEW p \in Servers PROVE chan[m][p] \o o[p] \o <<>> = chan[m][p] \o o[p]
    OBVIOUS
  <2>1. chan[m][p] \in Seq(Msg) /\ o[p] \in Seq(Msg)
    BY DEF TypeOK
  <2>2. chan[m][p] \o o[p] \in Seq(Msg)
    BY <2>1
  <2> QED
    BY <2>2, ConcatEmptySeq
<1>3. chan'[n][m] = Tail(chan[n][m])
  BY <1>1
<1>4. ASSUME NEW p \in Servers \ ({m} \cup cut) PROVE Says(m, p, o[p]) /\ (p # n => chan'[p][m] = chan[p][m])
  BY <1>1, <1>2 DEF Says
<1>5. ASSUME NEW p \in cut \cap Servers
      PROVE  /\ chan'[p][m] = <<>>
             /\ chan'[m][p] = IF status[p][m] # "none" THEN chan[m][p] \o o[p] \o <<M("CLOSE")>> ELSE chan[m][p]
  BY <1>1
<1>6. \A s, p \in Servers \ {m} : chan'[s][p] = chan[s][p]
  BY <1>1
<1> QED
  BY <1>3, <1>4, <1>5, <1>6

(* ... and after one that ends no connection. *)
LEMMA HandleLinks ==
  ASSUME TypeOK, NEW m \in Servers, NEW n \in Servers, m # n,
         NEW o \in [Servers -> Seq(Msg)], Handle(m, n, o, {})
  PROVE  /\ chan'[n][m] = Tail(chan[n][m])
         /\ \A p \in Servers \ {m} : Says(m, p, o[p]) /\ (p # n => chan'[p][m] = chan[p][m])
         /\ \A s, p \in Servers \ {m} : chan'[s][p] = chan[s][p]
<1> DEFINE cut == {}
<1>1. cut = {}
  OBVIOUS
<1> HIDE DEF cut
<1>2. Handle(m, n, o, cut) /\ n \notin cut /\ m \notin cut /\ \A p \in Servers \ {m} : p \in Servers \ ({m} \cup cut)
  BY <1>1
<1> QED
  BY <1>2, CutLinks
-----------------------------------------------------------------------------
(* A message of n that m answers to n alone, without a change of its       *)
(* table: the links of m to others stay as they are.                       *)
LEMMA AnswersOne ==
  ASSUME TypeOK, SyncInv, NEW m \in Servers, NEW n \in Servers, m # n,
         NEW q \in Seq(Msg), Handle(m, n, [Silent EXCEPT ![n] = q], {}),
         UNCHANGED <<idTable, status>>,
         \A s \in Servers \ {m} : open'[s] = open[s],
         \A p \in Servers \ {n} : p \in open'[m] <=> p \in open[m],
         Says(m, n, q) /\ chan'[n][m] = Tail(chan[n][m]) => Half(m, n)' /\ Half(n, m)'
  PROVE  \A s, p \in Servers : s # p => Half(s, p)'
<1> DEFINE o == [Silent EXCEPT ![n] = q]
<1>0. Silent \in [Servers -> Seq(Msg)] /\ \A p \in Servers : Silent[p] = <<>>
  BY DEF Silent
<1>1. o \in [Servers -> Seq(Msg)] /\ o[n] = q /\ \A p \in Servers \ {n} : o[p] = <<>>
  BY <1>0
<1> HIDE DEF o
<1>2. Handle(m, n, o, {})
  BY DEF o
<1>3. /\ chan'[n][m] = Tail(chan[n][m])
      /\ \A p \in Servers \ {m} : Says(m, p, o[p]) /\ (p # n => chan'[p][m] = chan[p][m])
      /\ \A s, p \in Servers \ {m} : chan'[s][p] = chan[s][p]
  BY <1>1, <1>2, HandleLinks
<1>4. \A s, p \in Servers : Stays(s, p)
  BY DEF Stays
<1>5. ASSUME NEW p \in Servers \ {m} PROVE Half(m, p)' /\ Half(p, m)'
  <2>1. CASE p = n
    BY <1>1, <1>3, <2>1
  <2>2. CASE p # n
    <3>1. chan[m][p] \o <<>> = chan[m][p]
      <4>1. chan[m][p] \in Seq(Msg)
        BY DEF TypeOK
      <4> QED
        BY <4>1, ConcatEmptySeq
    <3>2. chan'[m][p] = chan[m][p] /\ chan'[p][m] = chan[p][m]
      BY <1>1, <1>3, <2>2, <3>1 DEF Says
    <3>3. Half(m, p) /\ Half(p, m)
      BY DEF SyncInv
    <3>4. (p \in open'[m] <=> p \in open[m]) /\ open'[p] = open[p]
      BY <2>2
    <3> QED
      BY <1>4, <3>2, <3>3, <3>4, SameLink
  <2> QED
    BY <2>1, <2>2
<1> QED
  BY <1>3, <1>4, <1>5, Around

(* No message of n is a CLOSE or a SERVER when m reads it: the rest of the *)
(* link is as before.                                                      *)
LEMMA AnswersQuietly ==
  ASSUME TypeOK, SyncInv, NEW m \in Servers, NEW n \in Servers, m # n, chan[n][m] # <<>>,
         Head(chan[n][m]).t \notin {"SERVER", "CLOSE"},
         n \in Hubs /\ Head(chan[n][m]).t = "REG" => Head(chan[n][m]).reg.id <= idTable[m],
         NEW q \in Seq(Msg), ~Has(q, {"SERVER", "CLOSE"}),
         n \in Hubs /\ Head(chan[n][m]).t \in {"B", "D"} => Has(q, {"J"}),
         \A i \in 1..Len(q) : Value(q[i]) <= idTable[m],
         Handle(m, n, [Silent EXCEPT ![n] = q], {}),
         UNCHANGED <<idTable, status>>,
         \A s \in Servers \ {m} : open'[s] = open[s],
         \A p \in Servers \ {n} : p \in open'[m] <=> p \in open[m],
         m \in Hubs /\ status[m][n] = "server" =>
           \/ Has(Tail(chan[n][m]), {"J", "CLOSE"})
           \/ Has(chan[m][n], {"SERVER", "B", "D"})
           \/ Has(q, {"SERVER", "B", "D"})
           \/ n \in open'[m] /\ \/ idTable[n] >= idTable[m]
                                \/ Brings(chan[m][n], idTable[m])
                                \/ Brings(q, idTable[m])
  PROVE  \A s, p \in Servers : s # p => Half(s, p)'
<1>1. ASSUME Says(m, n, q), chan'[n][m] = Tail(chan[n][m]) PROVE Half(m, n)' /\ Half(n, m)'
  <2>1. Link(m, n) /\ Half(m, n) /\ Half(n, m)
    BY LinkType DEF SyncInv
  <2>2. Stays(m, n) /\ idTable' = idTable
    BY DEF Stays
  <2>3. Reads(m, n, q)
    BY <1>1, <2>2 DEF Reads
  <2>4. open'[n] = open[n]
    OBVIOUS
  <2>5. idTable'[m] \in Nat /\ idTable'[m] >= idTable[m]
    BY <2>1, <2>2 DEF Link
  <2> QED
    BY <1>1, <2>1, <2>2, <2>3, <2>4, <2>5, QuietLink
<1> QED
  BY <1>1, AnswersOne

(* As it is when m has nothing to answer: the message was no join.         *)
LEMMA StillSynced ==
  ASSUME TypeOK, SyncInv, NEW m \in Servers, NEW n \in Servers, m # n, chan[n][m] # <<>>,
         Head(chan[n][m]).t \notin {"J", "CLOSE"}
  PROVE  m \in Hubs /\ status[m][n] = "server" =>
           \/ Has(Tail(chan[n][m]), {"J", "CLOSE"})
           \/ Has(chan[m][n], {"SERVER", "B", "D"})
           \/ n \in open[m] /\ (idTable[n] >= idTable[m] \/ Brings(chan[m][n], idTable[m]))
<1> SUFFICES ASSUME m \in Hubs, status[m][n] = "server"
             PROVE  \/ Has(Tail(chan[n][m]), {"J", "CLOSE"})
                    \/ Has(chan[m][n], {"SERVER", "B", "D"})
                    \/ n \in open[m] /\ (idTable[n] >= idTable[m] \/ Brings(chan[m][n], idTable[m]))
  OBVIOUS
<1>1. Asked(m, n) \/ Covered(m, n)
  BY DEF SyncInv, Half, Synced
<1>2. chan[n][m] \in Seq(Msg)
  BY DEF TypeOK
<1>3. Has(chan[n][m], {"J", "CLOSE"}) => Has(Tail(chan[n][m]), {"J", "CLOSE"})
  BY <1>2, HasTail
<1> QED
  BY <1>1, <1>3 DEF Asked, Covered

(* Nothing and single messages that m may say. *)
LEMMA FewSaid ==
  /\ <<>> \in Seq(Msg) /\ (\A T : ~Has(<<>>, T)) /\ \A i \in 1..Len(<<>>) : FALSE
  /\ \A x \in Msg : /\ <<x>> \in Seq(Msg) /\ Len(<<x>>) = 1 /\ <<x>>[1] = x
                    /\ \A T : Has(<<x>>, T) <=> x.t \in T
BY DEF Has

(* B at m. *)
LEMMA SyncedB ==
  ASSUME TypeOK, SyncInv, NEW m \in Servers, NEW n \in Servers, m # n, chan[n][m] # <<>>,
         Head(chan[n][m]).t = "B", ms_db_B(m, n)
  PROVE  \A s, p \in Servers : s # p => Half(s, p)'
<1> DEFINE q == IF n \in Hubs THEN <<J(idTable[m])>> ELSE <<>>
<1>1. J(idTable[m]) \in Msg /\ J(idTable[m]).t = "J" /\ Value(J(idTable[m])) = idTable[m] /\ idTable[m] \in Nat
  <2>1. idTable[m] \in 0..MaxId
    BY DEF TypeOK
  <2>2. idTable[m] \in Nat /\ J(idTable[m]) \in Msg
    BY <2>1, MsgType, DdbAssumption
  <2> QED
    BY <2>2 DEF J, Value
<1>2. q \in Seq(Msg) /\ ~Has(q, {"SERVER", "CLOSE"}) /\ (n \in Hubs => Has(q, {"J"}))
  BY <1>1, FewSaid
<1>3. \A i \in 1..Len(q) : Value(q[i]) <= idTable[m]
  <2>1. CASE n \in Hubs
    BY <1>1, <2>1
  <2>2. CASE n \notin Hubs
    BY <2>2
  <2> QED
    BY <2>1, <2>2
<1>4. Handle(m, n, [Silent EXCEPT ![n] = q], {}) /\ UNCHANGED <<idTable, status, open>>
  BY DEF ms_db_B, KeepLinks, tableVars
<1> HIDE DEF q
<1> QED
  BY <1>2, <1>3, <1>4, StillSynced, AnswersQuietly
-----------------------------------------------------------------------------
(* What ddb_db_read finds for a neighbour that has less: registers of the  *)
(* file, the last of which has the id of the table.                        *)
LEMMA PendingEnds ==
  ASSUME TypeOK, SortedDisk, NEW m \in Servers, Ends(disk[m], idTable[m]),
         NEW id \in Nat, id < idTable[m]
  PROVE  LET rest == Pending(m, id + 1)
         IN  /\ rest \in Seq(Register) /\ Len(rest) \in Nat \ {0}
             /\ rest[Len(rest)].id = idTable[m]
             /\ \A i \in 1..Len(rest) : rest[i] \in Register /\ rest[i].id <= idTable[m]
<1> DEFINE d == disk[m]
           b == Before(d, id + 1)
           rest == SubSeq(d, b + 1, Len(d))
           T == {i \in 1..Len(d) : d[i].id < id + 1}
<1>1. d \in Seq(Register) /\ Len(d) \in Nat /\ idTable[m] \in Nat
  <2>1. d \in Seq(Register) /\ idTable[m] \in 0..MaxId
    BY DEF TypeOK
  <2> QED
    BY <2>1, DdbAssumption
<1>2. d # <<>> /\ d[Len(d)].id = idTable[m]
  BY <1>1 DEF Ends
<1>3. Len(d) \in 1..Len(d)
  BY <1>1, <1>2
<1>4. T \subseteq 1..(Len(d) - 1)
  <2>1. Len(d) \notin T
    BY <1>1, <1>2
  <2> QED
    BY <1>1, <1>3, <2>1
<1>5. b \in 0..(Len(d) - 1)
  <2>1. Len(d) - 1 \in Nat /\ b = Cardinality(T)
    BY <1>1, <1>3 DEF Before
  <2>2. IsFiniteSet(1..(Len(d) - 1)) /\ Cardinality(1..(Len(d) - 1)) = Len(d) - 1
    <3>1. \A k \in Nat : IsFiniteSet(1..k) /\ Cardinality(1..k) = k
      BY FS_Interval
    <3> QED
      BY <2>1, <3>1
  <2>3. IsFiniteSet(T) /\ Cardinality(T) <= Len(d) - 1
    BY <1>4, <2>2, FS_Subset
  <2>4. Cardinality(T) \in Nat
    BY <2>3, FS_CardinalityType
  <2> QED
    BY <2>1, <2>3, <2>4
<1> HIDE DEF b, d
<1>6. /\ rest \in Seq(Register) /\ Len(rest) = Len(d) - b
      /\ \A i \in 1..Len(rest) : b + i \in 1..Len(d) /\ rest[i] = d[b + i]
  <2>1. b + 1 \in Int /\ Len(d) \in Int /\ b + 1 <= Len(d) /\ \A i \in (b + 1)..Len(d) : d[i] \in Register
    BY <1>1, <1>3, <1>5
  <2>2. /\ rest \in Seq(Register) /\ Len(rest) = Len(d) - (b + 1) + 1
        /\ \A i \in 1..(Len(d) - (b + 1) + 1) : rest[i] = d[(b + 1) + i - 1]
    BY <2>1, SubSeqProperties
  <2> HIDE DEF rest
  <2>3. Len(d) - (b + 1) + 1 = Len(d) - b /\ \A i \in 1..(Len(d) - b) : b + i \in 1..Len(d) /\ (b + 1) + i - 1 = b + i
    BY <1>1, <1>5
  <2> QED
    BY <2>2, <2>3
<1> HIDE DEF rest
<1>7. Len(rest) \in Nat \ {0} /\ Len(rest) \in 1..Len(rest) /\ b + Len(rest) = Len(d)
  BY <1>1, <1>5, <1>6
<1>8. rest[Len(rest)].id = idTable[m]
  BY <1>2, <1>6, <1>7
<1>9. \A i \in 1..Len(d) : d[i] \in Register /\ d[i].id <= idTable[m]
  BY <1>1 DEF SortedDisk, d
<1>10. \A i \in 1..Len(rest) : rest[i] \in Register /\ rest[i].id <= idTable[m]
  BY <1>6, <1>9
<1>11. Pending(m, id + 1) = rest
  BY DEF Pending, rest, b, d
<1> QED
  BY <1>6, <1>7, <1>8, <1>10, <1>11

(* What is sent of them: messages that say no more than m has, and, if     *)
(* they are all, the last one.                                             *)
LEMMA BatchSays ==
  ASSUME NEW rest \in Seq(Register), Len(rest) \in Nat \ {0}, NEW k \in 1..Len(rest), NEW v \in Nat,
         rest[Len(rest)].id = v, \A i \in 1..Len(rest) : rest[i] \in Register /\ rest[i].id <= v
  PROVE  LET batch == SubSeq(rest, 1, k)
             regs  == [i \in 1..Len(batch) |-> Reg(batch[i])]
         IN  /\ regs \in Seq(Msg) /\ regs \o <<M("B")>> \in Seq(Msg)
             /\ ~Has(regs, {"SERVER", "CLOSE"}) /\ ~Has(regs \o <<M("B")>>, {"SERVER", "CLOSE"})
             /\ \A i \in 1..Len(regs) : Value(regs[i]) <= v
             /\ \A i \in 1..Len(regs \o <<M("B")>>) : Value((regs \o <<M("B")>>)[i]) <= v
             /\ Has(regs \o <<M("B")>>, {"SERVER", "B", "D"})
             /\ k = Len(rest) => Brings(regs, v)
<1> DEFINE batch == SubSeq(rest, 1, k)
           regs  == [i \in 1..Len(batch) |-> Reg(batch[i])]
<1>1. batch \in Seq(Register) /\ Len(batch) = k /\ \A i \in 1..k : i \in 1..Len(rest) /\ batch[i] = rest[i]
  OBVIOUS
<1> HIDE DEF batch
<1>2. /\ regs \in Seq(Msg) /\ Len(regs) = k
      /\ \A i \in 1..k : regs[i] = Reg(rest[i]) /\ rest[i] \in Register /\ rest[i].id <= v
  <2>1. \A i \in 1..k : rest[i] \in Register /\ Reg(rest[i]) \in Msg
    BY <1>1, MsgType
  <2>2. regs = [i \in 1..k |-> Reg(rest[i])]
    BY <1>1
  <2>3. regs \in Seq(Msg) /\ Len(regs) = k
    BY <2>1, <2>2
  <2> QED
    BY <1>1, <2>1, <2>2, <2>3
<1> HIDE DEF regs
<1>3. \A i \in 1..k : regs[i].t = "REG" /\ regs[i].reg = rest[i] /\ Value(regs[i]) <= v
  BY <1>2 DEF Reg, Value
<1>4. M("B") \in Msg /\ M("B").t = "B" /\ Value(M("B")) = 0
  BY MsgType DEF M, Value
<1>5. /\ <<M("B")>> \in Seq(Msg) /\ (\A T : Has(<<M("B")>>, T) <=> "B" \in T)
      /\ Len(<<M("B")>>) = 1 /\ <<M("B")>>[1] = M("B")
  BY <1>4, FewSaid
<1>6. ~Has(regs, {"SERVER", "CLOSE"})
  BY <1>2, <1>3 DEF Has
<1> DEFINE l == <<M("B")>>
<1>7. l \in Seq(Msg) /\ (\A T : Has(l, T) <=> "B" \in T) /\ Len(l) = 1 /\ l[1] = M("B")
  BY <1>5
<1> HIDE DEF l
<1>8. regs \o l \in Seq(Msg) /\ ~Has(regs \o l, {"SERVER", "CLOSE"}) /\ Has(regs \o l, {"SERVER", "B", "D"})
  BY <1>2, <1>6, <1>7, HasCat
<1>9. ASSUME NEW i \in 1..Len(regs \o l) PROVE Value((regs \o l)[i]) <= v
  <2>1. CASE i \in 1..Len(regs)
    <3>1. (regs \o l)[i] = regs[i]
      BY <1>2, <1>7, <2>1, CatIs
    <3> QED
      BY <1>2, <1>3, <2>1, <3>1
  <2>2. CASE i - Len(regs) \in 1..Len(l) /\ (regs \o l)[i] = l[i - Len(regs)]
    BY <1>2, <1>4, <1>7, <2>2
  <2> QED
    BY <1>2, <1>7, <2>1, <2>2, CatIs, SMTT(60)
<1>10. ASSUME k = Len(rest) PROVE Brings(regs, v)
  <2>1. k \in 1..Len(regs) /\ regs[k].t = "REG" /\ regs[k].reg.id = v
    BY <1>2, <1>3, <1>10
  <2> QED
    BY <2>1 DEF Brings
<1>11. \A i \in 1..Len(regs) : Value(regs[i]) <= v
  BY <1>2, <1>3
<1> QED
  BY <1>2, <1>6, <1>8, <1>9, <1>10, <1>11 DEF l, regs, batch

(* A join with all that the hub m has: the neighbour that sent it has it   *)
(* still, or has something else on its way.                                *)
LEMMA JoinIsHonest ==
  ASSUME TypeOK, SyncInv, NEW m \in Servers, NEW n \in Servers, m # n, chan[n][m] # <<>>,
         Head(chan[n][m]).t = "J", Head(chan[n][m]).id >= idTable[m],
         m \in Hubs, status[m][n] = "server"
  PROVE  \/ Has(Tail(chan[n][m]), {"J", "CLOSE"})
         \/ Has(chan[m][n], {"SERVER", "B", "D"})
         \/ idTable[n] >= idTable[m]
<1>1. Link(m, n) /\ Paired(n, m) /\ Honest(n, m)
  BY LinkType DEF SyncInv, Half
<1>2. chan[n][m] \in Seq(Msg) /\ chan[m][n] \in Seq(Msg) /\ idTable[n] \in Nat /\ idTable[m] \in Nat
  BY <1>1 DEF Link
<1>3. CASE status[n][m] = "server"
  <2>1. Current(chan[n][m], idTable[n])
    BY <1>1, <1>3 DEF Honest
  <2>2. Value(Head(chan[n][m])) <= idTable[n] \/ Has(Tail(chan[n][m]), {"J"})
    BY <1>2, <2>1, CurrentMore
  <2>3. Has(Tail(chan[n][m]), {"J"}) => Has(Tail(chan[n][m]), {"J", "CLOSE"})
    BY DEF Has
  <2>4. Value(Head(chan[n][m])) = Head(chan[n][m]).id /\ Value(Head(chan[n][m])) \in Nat
    BY <1>2, TailIs, ValueType DEF Value
  <2> QED
    BY <1>2, <2>2, <2>3, <2>4
<1>4. CASE status[n][m] # "server"
  <2>1. Has(chan[n][m], {"CLOSE"}) \/ Has(chan[m][n], {"SERVER"})
    BY <1>1, <1>4, Waits
  <2>2. Has(chan[n][m], {"CLOSE"}) => Has(Tail(chan[n][m]), {"CLOSE"})
    BY <1>2, HasTail
  <2>3. Has(Tail(chan[n][m]), {"CLOSE"}) => Has(Tail(chan[n][m]), {"J", "CLOSE"})
    BY DEF Has
  <2>4. Has(chan[m][n], {"SERVER"}) => Has(chan[m][n], {"SERVER", "B", "D"})
    BY DEF Has
  <2> QED
    BY <2>1, <2>2, <2>3, <2>4
<1> QED
  BY <1>3, <1>4
-----------------------------------------------------------------------------
(* J at m. *)
LEMMA SyncedJ ==
  ASSUME TypeOK, SortedDisk, SyncInv, NEW m \in Servers, NEW n \in Servers, m # n, chan[n][m] # <<>>,
         Head(chan[n][m]).t = "J", ms_db_J(m, n, Head(chan[n][m]).id)
  PROVE  \A s, p \in Servers : s # p => Half(s, p)'
<1> DEFINE id    == Head(chan[n][m]).id
           rest  == Pending(m, id + 1)
           batch == SubSeq(rest, 1, IF Len(rest) < LineLen THEN Len(rest) ELSE LineLen)
           regs  == [i \in 1..Len(batch) |-> Reg(batch[i])]
<1>1. id \in Nat /\ idTable[m] \in Nat /\ LineLen \in Nat \ {0}
  <2>1. id \in 0..MaxId
    BY HeadType
  <2>2. idTable[m] \in 0..MaxId
    BY DEF TypeOK
  <2> QED
    BY <2>1, <2>2, DdbAssumption
<1>2. UNCHANGED <<idTable, status>>
  BY Zenon DEF ms_db_J, tableVars
<1>3. open \in [Servers -> SUBSET Servers]
  BY DEF TypeOK
<1>4. [Silent EXCEPT ![n] = <<>>] = Silent
  BY DEF Silent
<1>5. Ends(disk[m], idTable[m])
  BY SMTT(60) DEF SyncInv
<1>6. ASSUME id < idTable[m]
      PROVE  /\ regs \in Seq(Msg) /\ regs \o <<M("B")>> \in Seq(Msg) /\ rest # <<>>
             /\ ~Has(regs, {"SERVER", "CLOSE"}) /\ ~Has(regs \o <<M("B")>>, {"SERVER", "CLOSE"})
             /\ \A i \in 1..Len(regs) : Value(regs[i]) <= idTable[m]
             /\ \A i \in 1..Len(regs \o <<M("B")>>) : Value((regs \o <<M("B")>>)[i]) <= idTable[m]
             /\ Has(regs \o <<M("B")>>, {"SERVER", "B", "D"})
             /\ Len(rest) < LineLen => Brings(regs, idTable[m])
  <2>1. /\ rest \in Seq(Register) /\ Len(rest) \in Nat \ {0}
        /\ rest[Len(rest)].id = idTable[m]
        /\ \A i \in 1..Len(rest) : rest[i] \in Register /\ rest[i].id <= idTable[m]
    BY <1>1, <1>5, <1>6, PendingEnds
  <2> DEFINE k == IF Len(rest) < LineLen THEN Len(rest) ELSE LineLen
  <2>2. k \in 1..Len(rest) /\ (Len(rest) < LineLen => k = Len(rest))
    <3> HIDE DEF rest
    <3> QED
      BY <1>1, <2>1
  <2>3. rest # <<>>
    <3> HIDE DEF rest
    <3> QED
      BY <2>1
  <2> HIDE DEF rest, k
  <2>4. /\ regs \in Seq(Msg) /\ regs \o <<M("B")>> \in Seq(Msg)
        /\ ~Has(regs, {"SERVER", "CLOSE"}) /\ ~Has(regs \o <<M("B")>>, {"SERVER", "CLOSE"})
        /\ \A i \in 1..Len(regs) : Value(regs[i]) <= idTable[m]
        /\ \A i \in 1..Len(regs \o <<M("B")>>) : Value((regs \o <<M("B")>>)[i]) <= idTable[m]
        /\ Has(regs \o <<M("B")>>, {"SERVER", "B", "D"})
        /\ k = Len(rest) => Brings(regs, idTable[m])
    BY <1>1, <2>1, <2>2, BatchSays, Zenon DEF k
  <2> QED
    BY <2>2, <2>3, <2>4
<1>7. \/ /\ id >= idTable[m]
         /\ open' = [open EXCEPT ![m] = @ \cup {n}]
         /\ Handle(m, n, Silent, {})
      \/ /\ id < idTable[m]
         /\ CloseFaucet(m, {n})
         /\ Handle(m, n, [Silent EXCEPT ![n] = <<D({n})>>], {})
      \/ /\ id < idTable[m] /\ rest = <<>>
      \/ /\ id < idTable[m] /\ Len(rest) < LineLen
         /\ open' = [open EXCEPT ![m] = @ \cup {n}]
         /\ Handle(m, n, [Silent EXCEPT ![n] = regs], {})
      \/ /\ id < idTable[m]
         /\ UNCHANGED open
         /\ Handle(m, n, [Silent EXCEPT ![n] = regs \o <<M("B")>>], {})
  BY Zenon DEF ms_db_J
<1> DEFINE more == regs \o <<M("B")>>
<1> HIDE DEF regs, rest, batch
<1>8. /\ \A s \in Servers \ {m} : open'[s] = open[s]
      /\ \A p \in Servers \ {n} : p \in open'[m] <=> p \in open[m]
  <2>1. \/ open' = [open EXCEPT ![m] = @ \cup {n}]
        \/ open' = [open EXCEPT ![m] = @ \ {n}]
        \/ open' = open
    BY <1>6, <1>7 DEF CloseFaucet
  <2> QED
    BY <1>3, <2>1
<1>9. Head(chan[n][m]).t \notin {"SERVER", "CLOSE", "B", "D", "REG"}
  OBVIOUS
<1>10. CASE id >= idTable[m] /\ open' = [open EXCEPT ![m] = @ \cup {n}] /\ Handle(m, n, Silent, {})
  <2>1. n \in open'[m]
    BY <1>3, <1>10
  <2>2. m \in Hubs /\ status[m][n] = "server" =>
           \/ Has(Tail(chan[n][m]), {"J", "CLOSE"})
           \/ Has(chan[m][n], {"SERVER", "B", "D"})
           \/ n \in open'[m] /\ idTable[n] >= idTable[m]
    BY <1>10, <2>1, JoinIsHonest
  <2> DEFINE q == <<>>
  <2>3. Handle(m, n, [Silent EXCEPT ![n] = q], {})
    BY <1>4, <1>10
  <2>4. q \in Seq(Msg) /\ (\A T : ~Has(q, T)) /\ \A i \in 1..Len(q) : FALSE
    BY FewSaid
  <2> HIDE DEF q
  <2>5. ~Has(q, {"SERVER", "CLOSE"}) /\ \A i \in 1..Len(q) : Value(q[i]) <= idTable[m]
    BY <2>4
  <2> QED
    BY <1>2, <1>8, <1>9, <2>2, <2>3, <2>4, <2>5, AnswersQuietly, ZenonT(60)
<1>11. CASE id < idTable[m] /\ Handle(m, n, [Silent EXCEPT ![n] = <<D({n})>>], {})
  <2> DEFINE x == D({n})
             q == <<x>>
  <2>1. x \in Msg /\ x.t = "D" /\ Value(x) = 0
    BY MsgType DEF D, Value
  <2> HIDE DEF x
  <2>2. q \in Seq(Msg) /\ (\A T : Has(q, T) <=> "D" \in T) /\ Len(q) = 1 /\ q[1] = x
    BY <2>1, FewSaid
  <2>3. ~Has(q, {"SERVER", "CLOSE"}) /\ Has(q, {"SERVER", "B", "D"})
    BY <2>2
  <2>4. \A i \in 1..Len(q) : Value(q[i]) <= idTable[m]
    BY <1>1, <2>1, <2>2
  <2> HIDE DEF q
  <2>5. Handle(m, n, [Silent EXCEPT ![n] = q], {})
    BY <1>11 DEF q, x
  <2> QED
    BY <1>2, <1>8, <1>9, <2>2, <2>3, <2>4, <2>5, AnswersQuietly
<1>12. CASE /\ id < idTable[m] /\ Len(rest) < LineLen
            /\ open' = [open EXCEPT ![m] = @ \cup {n}]
            /\ Handle(m, n, [Silent EXCEPT ![n] = regs], {})
  <2>1. n \in open'[m]
    BY <1>3, <1>12
  <2> QED
    BY <1>2, <1>6, <1>8, <1>9, <1>12, <2>1, AnswersQuietly
<1>13. CASE id < idTable[m] /\ Handle(m, n, [Silent EXCEPT ![n] = more], {})
  <2>1. /\ more \in Seq(Msg) /\ ~Has(more, {"SERVER", "CLOSE"}) /\ Has(more, {"SERVER", "B", "D"})
        /\ \A i \in 1..Len(more) : Value(more[i]) <= idTable[m]
    BY <1>6, <1>13
  <2> HIDE DEF more
  <2> QED
    BY <1>2, <1>8, <1>9, <1>13, <2>1, AnswersQuietly
<1> QED
  BY <1>6, <1>7, <1>10, <1>11, <1>12, <1>13
-----------------------------------------------------------------------------
(* A link of m when m stores the register r and relays it, or not, to p.   *)
LEMMA RelaysLink ==
  ASSUME TypeOK, SyncInv, NEW m \in Servers, NEW p \in Servers, m # p,
         NEW r \in Register, r.id > idTable[m], NEW q, q = <<>> \/ q = <<Reg(r)>>,
         Stays(m, p), Says(m, p, q), Reads(m, p, q) \/ chan'[p][m] = chan[p][m],
         Has(chan[p][m], {"J", "CLOSE"}) => Has(chan'[p][m], {"J", "CLOSE"}),
         idTable'[m] = r.id, idTable'[p] = idTable[p], open' = open,
         m \in Hubs /\ status[m][p] = "server" /\ p \in open[m] =>
           \/ q = <<Reg(r)>>
           \/ Has(chan'[p][m], {"J", "CLOSE"})
           \/ Has(chan[m][p], {"SERVER", "B", "D"})
           \/ idTable[p] >= r.id
  PROVE  Half(m, p)' /\ Half(p, m)'
<1> DEFINE x == Reg(r)
<1>1. Link(m, p) /\ Half(m, p) /\ Half(p, m)
  BY LinkType DEF SyncInv
<1>2. r.id \in Nat /\ idTable[m] \in Nat
  BY <1>1, RegisterId DEF Link
<1>3. x \in Msg /\ x.t = "REG" /\ x.reg = r /\ Value(x) = r.id
  BY MsgType DEF Reg, Value
<1> HIDE DEF x
<1>4. /\ q \in Seq(Msg) /\ ~Has(q, {"SERVER", "CLOSE"})
      /\ \A i \in 1..Len(q) : Value(q[i]) <= idTable'[m]
  <2>1. CASE q = <<>>
    BY <2>1, FewSaid
  <2>2. CASE q = <<x>>
    <3>1. Len(q) = 1 /\ q[1] = x /\ q \in Seq(Msg) /\ ~Has(q, {"SERVER", "CLOSE"})
      BY <1>3, <2>2, FewSaid
    <3> QED
      BY <1>2, <1>3, <3>1
  <2> QED
    BY <2>1, <2>2 DEF x
<1>5. ASSUME m \in Hubs, status[m][p] = "server"
      PROVE  \/ Has(chan'[p][m], {"J", "CLOSE"})
             \/ Has(chan[m][p], {"SERVER", "B", "D"})
             \/ p \in open'[m] /\ (idTable'[p] >= idTable'[m] \/ Brings(q, idTable'[m]))
  <2>1. CASE Asked(m, p)
    BY <2>1 DEF Asked
  <2>2. CASE p \in open[m] /\ q = <<x>>
    <3>1. Len(q) = 1 /\ q[1] = x
      BY <1>3, <2>2, FewSaid
    <3>2. Brings(q, idTable'[m])
      BY <1>2, <1>3, <3>1 DEF Brings
    <3> QED
      BY <2>2, <3>2
  <2>3. CASE p \in open[m] /\ q # <<x>>
    BY <1>5, <2>3 DEF x
  <2> QED
    BY <1>1, <1>5, <2>1, <2>2, <2>3 DEF Half, Synced, Covered
<1>6. idTable'[m] \in Nat /\ idTable'[m] >= idTable[m] /\ open'[p] = open[p]
  BY <1>2
<1> QED
  BY <1>1, <1>4, <1>5, <1>6, QuietLink

(* A register at m. *)
LEMMA SyncedRegister ==
  ASSUME TypeOK, SyncInv, NEW m \in Servers, NEW n \in Servers, m # n, chan[n][m] # <<>>,
         Head(chan[n][m]).t = "REG", ms_db_register(m, n, Head(chan[n][m]).reg)
  PROVE  \A s, p \in Servers : s # p => Half(s, p)'
<1> DEFINE r == Head(chan[n][m]).reg
<1>1. r \in Register /\ r.id \in Nat /\ idTable[m] \in Nat
  <2>1. idTable[m] \in 0..MaxId
    BY DEF TypeOK
  <2> QED
    BY <2>1, HeadType, RegisterId, DdbAssumption
<1>2. CASE /\ ~Accepts(m, n, r) /\ Handle(m, n, Silent, {})
           /\ KeepLinks /\ UNCHANGED tableVars
  <2>1. [Silent EXCEPT ![n] = <<>>] = Silent
    BY DEF Silent
  <2>2. Handle(m, n, [Silent EXCEPT ![n] = <<>>], {}) /\ UNCHANGED <<idTable, status, open>>
    BY <1>2, <2>1 DEF KeepLinks, tableVars
  <2>3. n \in Hubs => r.id <= idTable[m]
    BY <1>1, <1>2 DEF Accepts
  <2> QED
    BY <2>2, <2>3, FewSaid, StillSynced, AnswersQuietly
<1>3. CASE Accepts(m, n, r) /\ Store(m, r) /\ Handle(m, n, Relay(m, n, r), {}) /\ KeepLinks
  <2>1. idTable' = [idTable EXCEPT ![m] = r.id] /\ r.id > idTable[m]
    BY <1>3 DEF Store, ddb_compact, ddb_new_register, Accepts
  <2>2. status' = status /\ open' = open /\ idTable \in [Servers -> 0..MaxId]
    BY <1>3 DEF KeepLinks, TypeOK
  <2>3. idTable'[m] = r.id /\ \A p \in Servers \ {m} : idTable'[p] = idTable[p]
    BY <2>1, <2>2
  <2> DEFINE o == Relay(m, n, r)
             x == Reg(r)
  <2>4. /\ x \in Msg /\ x.t = "REG" /\ x.reg = r /\ Value(x) = r.id
    BY <1>1, MsgType DEF Reg, Value
  <2>5. /\ \A p \in Servers : o[p] = <<>> \/ o[p] = <<x>>
        /\ \A p \in Down(m) \cap open[m] : p # n => o[p] = <<x>>
    BY DEF Relay, Down
  <2>6. o \in [Servers -> Seq(Msg)]
    BY <1>1, RelayType
  <2> HIDE DEF r, o, x
  <2>7. /\ chan'[n][m] = Tail(chan[n][m])
        /\ \A p \in Servers \ {m} : Says(m, p, o[p]) /\ (p # n => chan'[p][m] = chan[p][m])
        /\ \A s, p \in Servers \ {m} : chan'[s][p] = chan[s][p]
    BY <1>3, <2>6, HandleLinks DEF o
  <2>8. \A s, p \in Servers : Stays(s, p)
    BY <2>2 DEF Stays
  <2>9. ASSUME NEW p \in Servers \ {m} PROVE Half(m, p)' /\ Half(p, m)'
    <3>1. Link(m, p) /\ Half(m, p) /\ Half(p, m)
      BY LinkType DEF SyncInv
    <3>2. CASE p # n
      <4>1. p \in open[m] /\ status[m][p] = "server" => o[p] = <<x>>
        BY <2>5, <3>2 DEF Down
      <4> QED
        BY <1>1, <2>1, <2>2, <2>3, <2>5, <2>7, <2>8, <3>2, <4>1, RelaysLink DEF x
    <3>3. CASE p = n
      <4>1. Reads(m, n, o[n])
        BY <1>1, <2>3, <2>7 DEF Reads, r
      <4>2. Has(chan[n][m], {"J", "CLOSE"}) => Has(Tail(chan[n][m]), {"J", "CLOSE"})
        BY <3>1, <3>3, HasTail DEF Link
      <4>3. ASSUME m \in Hubs, status[m][n] = "server"
            PROVE  \/ Has(Tail(chan[n][m]), {"J", "CLOSE"})
                   \/ Has(chan[m][n], {"SERVER", "B", "D"})
                   \/ idTable[n] >= r.id
        <5>1. Paired(n, m) /\ Honest(n, m) /\ Link(m, n)
          BY <3>1, <3>3 DEF Half
        <5>2. chan[n][m] \in Seq(Msg) /\ chan[m][n] \in Seq(Msg) /\ idTable[n] \in Nat
          BY <5>1 DEF Link
        <5>3. CASE status[n][m] = "server"
          <6>1. Current(chan[n][m], idTable[n])
            BY <4>3, <5>1, <5>3 DEF Honest
          <6>2. Value(Head(chan[n][m])) <= idTable[n] \/ Has(Tail(chan[n][m]), {"J"})
            BY <5>2, <6>1, CurrentMore
          <6>3. Has(Tail(chan[n][m]), {"J"}) => Has(Tail(chan[n][m]), {"J", "CLOSE"})
            BY DEF Has
          <6>4. Value(Head(chan[n][m])) = r.id
            BY DEF Value, r
          <6> QED
            BY <1>1, <5>2, <6>2, <6>3, <6>4
        <5>4. CASE status[n][m] # "server"
          <6>1. Has(chan[n][m], {"CLOSE"}) \/ Has(chan[m][n], {"SERVER"})
            BY <4>3, <5>1, <5>4, Waits
          <6>2. Has(chan[n][m], {"CLOSE"}) => Has(chan[n][m], {"J", "CLOSE"})
            BY DEF Has
          <6>3. Has(chan[m][n], {"SERVER"}) => Has(chan[m][n], {"SERVER", "B", "D"})
            BY DEF Has
          <6> QED
            BY <4>2, <6>1, <6>2, <6>3
        <5> QED
          BY <5>3, <5>4
      <4>4. Stays(m, n) /\ Says(m, n, o[n]) /\ (o[n] = <<>> \/ o[n] = <<x>>) /\ chan'[n][m] = Tail(chan[n][m])
        BY <2>5, <2>7, <2>8
      <4>5. idTable'[m] = r.id /\ idTable'[n] = idTable[n] /\ open' = open
        BY <2>2, <2>3
      <4> QED
        BY <1>1, <2>1, <3>3, <4>1, <4>2, <4>3, <4>4, <4>5, RelaysLink DEF x
    <3> QED
      BY <3>2, <3>3
  <2> QED
    BY <2>2, <2>3, <2>7, <2>8, <2>9, Around
<1> QED
  BY <1>2, <1>3 DEF ms_db_register

(* The services give m a register: nothing is read, and everyone behind an *)
(* open faucet gets it.                                                    *)
LEMMA SyncedServices ==
  ASSUME TypeOK, SyncInv, NEW r \in Register, Services(r)
  PROVE  \A s, p \in Servers : s # p => Half(s, p)'
<1> DEFINE m == ServicesHub
           o == Relay(m, "services", r)
           x == Reg(r)
<1>1. m \in Servers /\ r.id \in Nat /\ idTable[m] \in Nat /\ idTable \in [Servers -> 0..MaxId]
  <2>1. idTable \in [Servers -> 0..MaxId] /\ m \in Servers
    BY DdbAssumption DEF TypeOK
  <2> QED
    BY <2>1, RegisterId, DdbAssumption
<1>2. idTable' = [idTable EXCEPT ![m] = r.id] /\ r.id > idTable[m]
  BY <1>1 DEF Services, FromServices, Store, ddb_compact, ddb_new_register
<1>3. status' = status /\ open' = open
  BY DEF Services, KeepLinks
<1>4. idTable'[m] = r.id /\ \A p \in Servers \ {m} : idTable'[p] = idTable[p]
  BY <1>1, <1>2
<1>5. /\ \A p \in Servers : o[p] = <<>> \/ o[p] = <<x>>
      /\ \A p \in Servers : p \in open[m] /\ status[m][p] = "server" => o[p] = <<x>>
  <2>1. "services" \notin Servers
    BY DdbAssumption
  <2> QED
    BY <2>1 DEF Relay, Down
<1> HIDE DEF o, x
<1>6. /\ \A p \in Servers \ {m} : Says(m, p, o[p]) /\ chan'[p][m] = chan[p][m]
      /\ \A s, p \in Servers \ {m} : chan'[s][p] = chan[s][p]
  <2>1. chan' = [chan EXCEPT ![m] =
                   [p \in Servers |-> IF status[p][m] # "none" THEN @[p] \o o[p] ELSE @[p]]]
    BY DEF Services, o
  <2>2. chan \in [Servers -> [Servers -> Seq(Msg)]]
    BY DEF TypeOK
  <2> QED
    BY <1>1, <2>1, <2>2 DEF Says
<1>7. \A s, p \in Servers : Stays(s, p)
  BY <1>3 DEF Stays
<1>8. ASSUME NEW p \in Servers \ {m} PROVE Half(m, p)' /\ Half(p, m)'
  BY <1>1, <1>2, <1>3, <1>4, <1>5, <1>6, <1>7, RelaysLink DEF x
<1> QED
  BY <1>1, <1>3, <1>4, <1>6, <1>7, <1>8, Around
-----------------------------------------------------------------------------
(* A CLOSE at the end of a queue. *)
LEMMA Closed ==
  ASSUME NEW q \in Seq(Msg), Joined(q)
  PROVE  Has(q \o <<M("CLOSE")>>, {"CLOSE"}) /\ Joined(q \o <<M("CLOSE")>>)
<1> DEFINE x == M("CLOSE")
           l == <<x>>
<1>1. x \in Msg /\ x.t = "CLOSE"
  BY MsgType DEF M
<1> HIDE DEF x
<1>2. l \in Seq(Msg) /\ \A T : Has(l, T) <=> "CLOSE" \in T
  BY <1>1, FewSaid
<1>3. Has(l, {"CLOSE"}) /\ ~Has(l, {"SERVER"})
  BY <1>2
<1> HIDE DEF l
<1>4. Joined(l)
  BY <1>2, <1>3, JoinedNone
<1>5. Has(q \o l, {"CLOSE"}) /\ Joined(q \o l)
  BY <1>2, <1>3, <1>4, HasCat, JoinedMore
<1> QED
  BY <1>5 DEF l, x

(* What D makes m say: the order to every other neighbour, a join to n.    *)
PassOn(m, n, mask, v) ==
  [[p \in Servers |-> IF p \in Down(m) \ {n} THEN <<D(mask)>> ELSE <<>>] EXCEPT ![n] = <<J(v)>>]

(* None of it says more than the id v of the join.                         *)
LEMMA DropSays ==
  ASSUME NEW m \in Servers, NEW n \in Servers, NEW mask \in SUBSET Servers, NEW v \in 0..MaxId,
         NEW o, o = PassOn(m, n, mask, v)
  PROVE  /\ o \in [Servers -> Seq(Msg)]
         /\ \A p \in Servers : ~Has(o[p], {"SERVER", "CLOSE"}) /\ \A i \in 1..Len(o[p]) : Value(o[p][i]) <= v
         /\ o[n] # <<>> /\ o[n][Len(o[n])].t = "J" /\ Has(o[n], {"J"})
         /\ \A p \in Down(m) : p # n => Has(o[p], {"SERVER", "B", "D"})
<1> DEFINE others == Down(m) \ {n}
           x == D(mask)
           y == J(v)
           fwd == [p \in Servers |-> IF p \in others THEN <<x>> ELSE <<>>]
<1>0. o = [fwd EXCEPT ![n] = <<y>>]
  BY DEF PassOn
<1>1. v \in Nat /\ x \in Msg /\ x.t = "D" /\ Value(x) = 0 /\ y \in Msg /\ y.t = "J" /\ Value(y) = v
  BY MsgType, DdbAssumption DEF D, J, Value
<1> HIDE DEF x, y
<1>2. /\ o[n] = <<y>>
      /\ \A p \in others : p # n /\ o[p] = <<x>>
      /\ \A p \in Servers : p \notin others /\ p # n => o[p] = <<>>
  BY <1>0 DEF Down
<1>3. <<x>> \in Seq(Msg) /\ Len(<<x>>) = 1 /\ <<x>>[1] = x /\ \A T : Has(<<x>>, T) <=> "D" \in T
  BY <1>1, FewSaid
<1>4. <<y>> \in Seq(Msg) /\ Len(<<y>>) = 1 /\ <<y>>[1] = y /\ \A T : Has(<<y>>, T) <=> "J" \in T
  BY <1>1, FewSaid
<1>5. o \in [Servers -> Seq(Msg)]
  <2>1. \A p \in Servers : o[p] \in Seq(Msg)
    <3>1. \A p \in Servers : o[p] = <<>> \/ o[p] = <<x>> \/ o[p] = <<y>>
      BY <1>2
    <3>2. <<>> \in Seq(Msg) /\ <<x>> \in Seq(Msg) /\ <<y>> \in Seq(Msg)
      BY <1>3, <1>4
    <3> QED
      BY <3>1, <3>2
  <2>2. o = [p \in Servers |-> o[p]]
    BY <1>0
  <2> QED
    BY <2>1, <2>2
<1>6. ASSUME NEW p \in Servers PROVE ~Has(o[p], {"SERVER", "CLOSE"}) /\ \A i \in 1..Len(o[p]) : Value(o[p][i]) <= v
  <2>1. CASE o[p] = <<>>
    BY <2>1, FewSaid
  <2>2. CASE o[p] = <<x>>
    BY <1>1, <1>3, <2>2
  <2>3. CASE o[p] = <<y>>
    BY <1>1, <1>4, <2>3
  <2> QED
    BY <1>2, <2>1, <2>2, <2>3
<1>7. o[n] # <<>> /\ o[n][Len(o[n])].t = "J" /\ Has(o[n], {"J"})
  BY <1>1, <1>2, <1>4
<1>8. \A p \in Down(m) : p # n => Has(o[p], {"SERVER", "B", "D"})
  BY <1>2, <1>3
<1> QED
  BY <1>5, <1>6, <1>7, <1>8
-----------------------------------------------------------------------------
(* D at m, which is not meant: it passes the order on, with every other    *)
(* faucet closed.                                                          *)
LEMMA SyncedPassedOn ==
  ASSUME TypeOK, SyncInv, NEW m \in Servers, NEW n \in Servers, m # n, chan[n][m] # <<>>,
         Head(chan[n][m]).t = "D", UNCHANGED <<idTable, status>>, CloseFaucet(m, Down(m) \ {n}),
         NEW o \in [Servers -> Seq(Msg)], Handle(m, n, o, {}),
         \A p \in Servers : ~Has(o[p], {"SERVER", "CLOSE"}) /\ \A i \in 1..Len(o[p]) : Value(o[p][i]) <= idTable[m],
         Has(o[n], {"J"}),
         \A p \in Down(m) : p # n => Has(o[p], {"SERVER", "B", "D"})
  PROVE  \A s, p \in Servers : s # p => Half(s, p)'
<1>1. /\ chan'[n][m] = Tail(chan[n][m])
      /\ \A p \in Servers \ {m} : Says(m, p, o[p]) /\ (p # n => chan'[p][m] = chan[p][m])
      /\ \A s, p \in Servers \ {m} : chan'[s][p] = chan[s][p]
  BY HandleLinks
<1>2. (\A s, p \in Servers : Stays(s, p)) /\ idTable' = idTable
  BY DEF Stays
<1>3. (\A s \in Servers \ {m} : open'[s] = open[s]) /\ (n \in open'[m] <=> n \in open[m])
  <2>1. open \in [Servers -> SUBSET Servers] /\ open' = [open EXCEPT ![m] = @ \ (Down(m) \ {n})]
    BY DEF TypeOK, CloseFaucet
  <2> QED
    BY <2>1
<1>4. ASSUME NEW p \in Servers \ {m} PROVE Half(m, p)' /\ Half(p, m)'
  <2>1. Link(m, p) /\ Half(m, p) /\ Half(p, m)
    BY LinkType DEF SyncInv
  <2>2. idTable'[m] \in Nat /\ idTable'[m] >= idTable[m] /\ idTable'[p] = idTable[p] /\ open'[p] = open[p]
    BY <1>2, <1>3, <2>1 DEF Link
  <2>3. Reads(m, p, o[p]) \/ chan'[p][m] = chan[p][m]
    <3>1. CASE p = n
      BY <1>1, <3>1 DEF Reads
    <3> QED
      BY <1>1, <3>1
  <2>4. m \in Hubs /\ status[m][p] = "server" =>
           \/ Has(chan'[p][m], {"J", "CLOSE"})
           \/ Has(chan[m][p], {"SERVER", "B", "D"})
           \/ Has(o[p], {"SERVER", "B", "D"})
           \/ p \in open'[m] /\ \/ idTable'[p] >= idTable'[m]
                                \/ Brings(chan[m][p], idTable'[m])
                                \/ Brings(o[p], idTable'[m])
    <3>1. CASE p = n
      BY <1>1, <1>2, <1>3, <3>1, StillSynced
    <3>2. CASE p # n
      BY <3>2 DEF Down
    <3> QED
      BY <3>1, <3>2
  <2> QED
    BY <1>1, <1>2, <2>1, <2>2, <2>3, <2>4, QuietLink
<1> QED
  BY <1>1, <1>2, <1>3, <1>4, Around, ZenonT(60)

(* D at m, which drops its table: what it said before is no longer true.   *)
(* It tells the sender with a join and closes its links to other hubs.     *)
LEMMA SyncedDropped ==
  ASSUME TypeOK, SyncInv, NEW m \in Servers, NEW n \in Servers, m # n, chan[n][m] # <<>>, n \in Hubs,
         Head(chan[n][m]).t = "D", idTable' = [idTable EXCEPT ![m] = 0],
         Exit(m, ddb_splithubs(m, n)), CloseFaucet(m, Down(m) \ {n}),
         NEW o \in [Servers -> Seq(Msg)], Handle(m, n, o, ddb_splithubs(m, n)),
         \A p \in Servers : ~Has(o[p], {"SERVER", "CLOSE"}) /\ \A i \in 1..Len(o[p]) : Value(o[p][i]) <= 0,
         o[n] # <<>> /\ o[n][Len(o[n])].t = "J" /\ Has(o[n], {"J"}),
         \A p \in Down(m) : p # n => Has(o[p], {"SERVER", "B", "D"})
  PROVE  \A s, p \in Servers : s # p => Half(s, p)'
<1> DEFINE cut == ddb_splithubs(m, n)
<1>1. /\ cut \subseteq Servers /\ n \notin cut /\ m \notin cut
      /\ \A p \in Servers : p \in cut <=> p \in Hubs /\ status[m][p] = "server" /\ p # n
  <2>1. Hubs \subseteq Servers /\ status[m][m] = "none"
    BY DdbAssumption DEF SyncInv
  <2> QED
    BY <2>1 DEF ddb_splithubs, Down
<1>2. /\ status'[m] = [p \in Servers |-> IF p \in cut THEN "none" ELSE status[m][p]]
      /\ \A s \in Servers \ {m} : status'[s] = status[s]
  <2>1. status \in [Servers -> [Servers -> {"none", "unknown", "handshake", "server"}]]
    BY DEF TypeOK
  <2> QED
    BY <2>1 DEF Exit
<1> HIDE DEF cut
<1>3. /\ chan'[n][m] = Tail(chan[n][m])
      /\ \A p \in Servers \ ({m} \cup cut) : Says(m, p, o[p]) /\ (p # n => chan'[p][m] = chan[p][m])
      /\ \A p \in cut \cap Servers :
           /\ chan'[p][m] = <<>>
           /\ chan'[m][p] = IF status[p][m] # "none" THEN chan[m][p] \o o[p] \o <<M("CLOSE")>> ELSE chan[m][p]
      /\ \A s, p \in Servers \ {m} : chan'[s][p] = chan[s][p]
  <2>1. Handle(m, n, o, cut)
    BY DEF cut
  <2> QED
    BY <1>1, <2>1, CutLinks
<1>4. /\ \A s, p \in Servers \ {m} : Stays(s, p)
      /\ \A p \in Servers \ ({m} \cup cut) : Stays(m, p)
  BY <1>1, <1>2 DEF Stays
<1>5. (\A s \in Servers \ {m} : open'[s] = open[s]) /\ (n \in open'[m] <=> n \in open[m])
  <2>1. open \in [Servers -> SUBSET Servers] /\ open' = [open EXCEPT ![m] = @ \ (Down(m) \ {n})]
    BY DEF TypeOK, CloseFaucet
  <2> QED
    BY <2>1
<1>6. idTable'[m] = 0 /\ \A p \in Servers \ {m} : idTable'[p] = idTable[p] /\ idTable[p] \in Nat
  <2>1. idTable \in [Servers -> 0..MaxId]
    BY DEF TypeOK
  <2> QED
    BY <2>1, DdbAssumption
<1>7. ASSUME NEW p \in Servers \ {m} PROVE Half(m, p)' /\ Half(p, m)'
  <2>1. Link(m, p) /\ Half(m, p) /\ Half(p, m) /\ Paired(m, p) /\ Paired(p, m)
    BY LinkType DEF SyncInv, Half
  <2>2. chan[m][p] \in Seq(Msg) /\ chan[p][m] \in Seq(Msg) /\ o[p] \in Seq(Msg) /\ idTable[p] \in Nat
    BY <2>1 DEF Link
  <2>3. ~Has(o[p], {"SERVER", "CLOSE"})
    OBVIOUS
  <2>4. CASE p \in cut
    <3>1. status'[m][p] = "none" /\ status'[p][m] = status[p][m]
      BY <1>2, <2>4
    <3>2. Joined(chan[m][p]) /\ Joined(o[p]) /\ Joined(<<>>)
      <4>1. ~Has(o[p], {"SERVER"}) /\ ~Has(<<>>, {"SERVER"})
        BY <2>3, HasFew DEF Has
      <4> QED
        BY <2>1, <2>2, <4>1, JoinedNone, FewSaid DEF Paired
    <3>3. chan[m][p] \o o[p] \in Seq(Msg) /\ Joined(chan[m][p] \o o[p])
      BY <2>2, <3>2, JoinedMore
    <3>4. /\ Joined(chan'[m][p]) /\ chan'[p][m] = <<>>
          /\ status[p][m] # "none" => Has(chan'[m][p], {"CLOSE"})
      BY <1>3, <2>4, <3>2, <3>3, Closed
    <3> QED
      BY <3>1, <3>2, <3>4, LeftLink
  <2>5. CASE p = n
    <3>1. Says(m, n, o[n]) /\ Stays(m, n) /\ chan'[n][m] = Tail(chan[n][m])
      BY <1>1, <1>3, <1>4
    <3>2. Reads(m, n, o[n])
      BY <3>1 DEF Reads
    <3>3. Paired(m, n)' /\ Paired(n, m)'
      BY <2>1, <2>2, <2>3, <2>5, <3>1, <3>2, QuietPaired
    <3>4. Honest(m, n)'
      <4>1. ASSUME status[n][m] # "none" PROVE Current(chan'[m][n], 0)
        <5>1. chan'[m][n] = chan[m][n] \o o[n]
          BY <3>1, <4>1 DEF Says
        <5> QED
          BY <2>2, <2>5, <5>1, CurrentEnd
      <4> QED
        BY <1>6, <3>1, <4>1 DEF Honest, Stays
    <3>5. Honest(n, m)'
      <4>1. ASSUME m \in Hubs, status[n][m] = "server", status[m][n] # "none"
            PROVE  Current(Tail(chan[n][m]), idTable[n])
        <5>1. Current(chan[n][m], idTable[n])
          BY <2>1, <2>5, <4>1 DEF Half, Honest
        <5> QED
          BY <2>2, <2>5, <5>1, CurrentMore
      <4> QED
        BY <1>6, <3>1, <4>1 DEF Honest, Stays
    <3>6. Synced(n, m)'
      <4>1. ASSUME status[n][m] = "server" PROVE Has(chan'[m][n], {"J", "CLOSE"})
        <5>1. chan'[m][n] = chan[m][n] \o o[n]
          BY <3>1, <4>1 DEF Says
        <5>2. Has(o[n], {"J", "CLOSE"})
          BY DEF Has
        <5> QED
          BY <2>2, <2>5, <5>1, <5>2, HasCat
      <4> QED
        BY <3>1, <4>1 DEF Synced, Stays, Asked
    <3>7. Synced(m, n)'
      <4>1. Has(chan[n][m], {"CLOSE"}) => Has(chan'[n][m], {"CLOSE"})
        BY <2>2, <2>5, <3>1, HasTail
      <4>2. m \in Hubs /\ status[m][n] = "server" =>
               \/ Has(chan'[n][m], {"J", "CLOSE"})
               \/ Has(chan[m][n], {"SERVER", "B", "D"})
               \/ n \in open'[m] /\ idTable'[n] >= idTable'[m]
        <5>1. idTable'[n] >= idTable'[m]
          BY <1>6, <2>5
        <5> QED
          BY <1>5, <3>1, <5>1, StillSynced
      <4> QED
        BY <1>6, <2>1, <2>2, <2>5, <3>1, <4>1, <4>2, SyncedMore
    <3> QED
      BY <2>5, <3>3, <3>4, <3>5, <3>6, <3>7 DEF Half
  <2>6. CASE p # n /\ p \notin cut
    <3>1. Says(m, p, o[p]) /\ Stays(m, p) /\ chan'[p][m] = chan[p][m]
      BY <1>3, <1>4, <2>6
    <3>2. Paired(m, p)' /\ Paired(p, m)'
      BY <2>1, <2>2, <2>3, <3>1, QuietPaired
    <3>3. p \in Hubs => status[m][p] # "server"
      BY <1>1, <2>6
    <3>4. Honest(m, p)' /\ Honest(p, m)'
      <4>1. Honest(p, m)
        BY <2>1 DEF Half
      <4> QED
        BY <1>6, <3>1, <3>3, <4>1 DEF Honest, Stays
    <3>5. Synced(p, m)'
      <4>1. ASSUME p \in Hubs, status[p][m] = "server" PROVE Asked(p, m)'
        <5>1. Has(chan[m][p], {"CLOSE"}) \/ Has(chan[p][m], {"SERVER"})
          BY <2>1, <3>3, <4>1, Waits DEF Link
        <5>2. Has(chan[m][p], {"CLOSE"}) => Has(chan'[m][p], {"J", "CLOSE"})
          <6>1. chan'[m][p] = chan[m][p] \o o[p]
            BY <3>1, <4>1 DEF Says
          <6>2. Has(chan[m][p], {"CLOSE"}) => Has(chan[m][p], {"J", "CLOSE"})
            BY DEF Has
          <6> QED
            BY <2>2, <6>1, <6>2, HasCat
        <5>3. Has(chan[p][m], {"SERVER"}) => Has(chan'[p][m], {"SERVER", "B", "D"})
          BY <3>1 DEF Has
        <5> QED
          BY <5>1, <5>2, <5>3 DEF Asked
      <4> QED
        BY <3>1, <4>1 DEF Synced, Stays
    <3>6. Synced(m, p)'
      <4>1. status[m][p] = "server" => Has(o[p], {"SERVER", "B", "D"})
        BY <2>6 DEF Down
      <4> QED
        BY <1>6, <2>1, <2>2, <3>1, <4>1, SyncedMore
    <3> QED
      BY <3>2, <3>4, <3>5, <3>6 DEF Half
  <2> QED
    BY <2>4, <2>5, <2>6
<1> QED
  BY <1>3, <1>4, <1>5, <1>6, <1>7, Around, SMTT(60)

(* D at m. *)
LEMMA SyncedD ==
  ASSUME TypeOK, SyncInv, NEW m \in Servers, NEW n \in Servers, m # n, chan[n][m] # <<>>,
         Head(chan[n][m]).t = "D", ms_db_D(m, n, Head(chan[n][m]).mask)
  PROVE  \A s, p \in Servers : s # p => Half(s, p)'
<1> DEFINE mask   == Head(chan[n][m]).mask
           others == Down(m) \ {n}
<1>1. mask \in SUBSET Servers /\ idTable[m] \in 0..MaxId /\ 0 \in 0..MaxId /\ 0 \in Nat
  <2>1. mask \subseteq Servers
    BY HeadType
  <2>2. idTable[m] \in 0..MaxId
    BY DEF TypeOK
  <2> QED
    BY <2>1, <2>2, DdbAssumption
<1> HIDE DEF mask
<1>3. \/ n \notin Hubs /\ Handle(m, n, Silent, {}) /\ KeepLinks /\ UNCHANGED tableVars
      \/ /\ n \in Hubs /\ ddb_drop(m) /\ Exit(m, ddb_splithubs(m, n)) /\ CloseFaucet(m, others)
         /\ Handle(m, n, PassOn(m, n, mask, 0), ddb_splithubs(m, n))
      \/ /\ n \in Hubs /\ CloseFaucet(m, others)
         /\ Handle(m, n, PassOn(m, n, mask, idTable[m]), {}) /\ UNCHANGED <<tableVars, status>>
  BY DEF ms_db_D, PassOn, mask
<1>4. CASE n \notin Hubs /\ Handle(m, n, Silent, {}) /\ KeepLinks /\ UNCHANGED tableVars
  <2>1. [Silent EXCEPT ![n] = <<>>] = Silent
    BY DEF Silent
  <2>2. Handle(m, n, [Silent EXCEPT ![n] = <<>>], {}) /\ UNCHANGED <<idTable, status, open>>
    BY <1>4, <2>1 DEF KeepLinks, tableVars
  <2> QED
    BY <1>4, <2>2, FewSaid, StillSynced, AnswersQuietly
<1>5. CASE /\ n \in Hubs /\ ddb_drop(m) /\ Exit(m, ddb_splithubs(m, n)) /\ CloseFaucet(m, others)
           /\ Handle(m, n, PassOn(m, n, mask, 0), ddb_splithubs(m, n))
  <2>1. idTable' = [idTable EXCEPT ![m] = 0]
    BY <1>5 DEF ddb_drop
  <2> DEFINE o == PassOn(m, n, mask, 0)
  <2> HIDE DEF o
  <2>2. /\ o \in [Servers -> Seq(Msg)]
        /\ \A p \in Servers : ~Has(o[p], {"SERVER", "CLOSE"}) /\ \A i \in 1..Len(o[p]) : Value(o[p][i]) <= 0
        /\ o[n] # <<>> /\ o[n][Len(o[n])].t = "J" /\ Has(o[n], {"J"})
        /\ \A p \in Down(m) : p # n => Has(o[p], {"SERVER", "B", "D"})
    BY <1>1, DropSays DEF o
  <2>3. Handle(m, n, o, ddb_splithubs(m, n))
    BY <1>5 DEF o
  <2> QED
    BY <1>1, <1>5, <2>1, <2>2, <2>3, SyncedDropped
<1>6. CASE CloseFaucet(m, others) /\ Handle(m, n, PassOn(m, n, mask, idTable[m]), {}) /\ UNCHANGED <<tableVars, status>>
  <2>1. UNCHANGED <<idTable, status>>
    BY <1>6 DEF tableVars
  <2> DEFINE o == PassOn(m, n, mask, idTable[m])
  <2> HIDE DEF o
  <2>2. /\ o \in [Servers -> Seq(Msg)]
        /\ \A p \in Servers : ~Has(o[p], {"SERVER", "CLOSE"}) /\ \A i \in 1..Len(o[p]) : Value(o[p][i]) <= idTable[m]
        /\ o[n] # <<>> /\ o[n][Len(o[n])].t = "J" /\ Has(o[n], {"J"})
        /\ \A p \in Down(m) : p # n => Has(o[p], {"SERVER", "B", "D"})
    BY <1>1, DropSays DEF o
  <2>3. Handle(m, n, o, {})
    BY <1>6 DEF o
  <2> QED
    BY <1>1, <1>6, <2>1, <2>2, <2>3, SyncedPassedOn
<1> QED
  BY <1>3, <1>4, <1>5, <1>6
-----------------------------------------------------------------------------
(* What a server says when it establishes a link ends with a join.         *)
LEMMA BurstSays ==
  ASSUME NEW v \in 0..MaxId, NEW unknown \in BOOLEAN, NEW q,
         q = (IF unknown THEN <<M("SERVER"), J(v)>> ELSE <<>>) \o <<J(v)>>
  PROVE  /\ q \in Seq(Msg) /\ q # <<>> /\ q[Len(q)].t = "J" /\ Joined(q)
         /\ \A i \in 1..Len(q) : Value(q[i]) <= v
         /\ Has(q, {"J", "CLOSE"}) /\ ~Has(q, {"CLOSE"}) /\ (unknown => Has(q, {"SERVER"}))
<1> DEFINE x == M("SERVER")
           y == J(v)
<1>1. x \in Msg /\ x.t = "SERVER" /\ Value(x) = 0 /\ y \in Msg /\ y.t = "J" /\ Value(y) = v /\ v \in Nat
  BY MsgType, DdbAssumption DEF M, J, Value
<1>2. q = IF unknown THEN <<x, y, y>> ELSE <<y>>
  BY SMTT(60) DEF x, y
<1> HIDE DEF x, y
<1>3. CASE unknown
  <2>1. Len(q) = 3 /\ q[1] = x /\ q[2] = y /\ q[3] = y /\ q \in Seq(Msg)
    BY <1>1, <1>2, <1>3
  <2>2. \A i \in 1..3 : i = 1 \/ i = 2 \/ i = 3
    OBVIOUS
  <2>3. Joined(q)
    BY <1>1, <2>1, <2>2 DEF Joined
  <2>4. Has(q, {"J", "CLOSE"}) /\ ~Has(q, {"CLOSE"}) /\ Has(q, {"SERVER"})
    BY <1>1, <2>1, <2>2 DEF Has
  <2>5. \A i \in 1..Len(q) : Value(q[i]) <= v
    BY <1>1, <2>1, <2>2
  <2> QED
    BY <1>1, <2>1, <2>3, <2>4, <2>5, SMTT(60)
<1>4. CASE ~unknown
  <2>1. Len(q) = 1 /\ q[1] = y /\ q \in Seq(Msg)
    BY <1>1, <1>2, <1>4
  <2>2. Joined(q)
    BY <1>1, <2>1 DEF Joined
  <2>3. Has(q, {"J", "CLOSE"}) /\ ~Has(q, {"CLOSE"})
    BY <1>1, <2>1 DEF Has
  <2>4. \A i \in 1..Len(q) : Value(q[i]) <= v
    BY <1>1, <2>1
  <2> QED
    BY <1>1, <1>4, <2>1, <2>2, <2>3, <2>4
<1> QED
  BY <1>3, <1>4

(* The link that m establishes. *)
LEMMA EstabLink ==
  ASSUME NEW m, NEW n, Link(m, n), Half(m, n), Half(n, m), status[m][n] # "none",
         chan[n][m] # <<>>, Head(chan[n][m]).t = "SERVER", chan'[n][m] = Tail(chan[n][m]),
         status'[m][n] = "server", status'[n][m] = status[n][m], idTable' = idTable,
         NEW q \in Seq(Msg), Says(m, n, q), q # <<>>, q[Len(q)].t = "J", Joined(q),
         \A i \in 1..Len(q) : Value(q[i]) <= idTable[m],
         Has(q, {"J", "CLOSE"}), ~Has(q, {"CLOSE"}), status[m][n] = "unknown" => Has(q, {"SERVER"})
  PROVE  Half(m, n)' /\ Half(n, m)'
<1>1. /\ chan[m][n] \in Seq(Msg) /\ chan[n][m] \in Seq(Msg) /\ idTable[m] \in Nat /\ idTable[n] \in Nat
      /\ Paired(m, n) /\ Paired(n, m) /\ Joined(chan[m][n]) /\ Joined(chan[n][m])
  BY DEF Link, Half, Paired
<1>2. \A T : Has(chan[n][m], T) <=> "SERVER" \in T \/ Has(Tail(chan[n][m]), T)
  BY <1>1, HasTail
<1>3. \A T : Has(chan[m][n] \o q, T) <=> Has(chan[m][n], T) \/ Has(q, T)
  BY <1>1, HasCat
<1>4. Joined(Tail(chan[n][m])) /\ Has(Tail(chan[n][m]), {"J"}) /\ Joined(chan[m][n] \o q)
  BY <1>1, JoinedMore
<1>5. Paired(m, n)'
  <2>1. ~Has(chan'[m][n], {"CLOSE"})
    BY <1>1, <1>3 DEF Says, Paired
  <2>2. Joined(chan'[m][n])
    BY <1>1, <1>4 DEF Says
  <2> QED
    BY <2>1, <2>2 DEF Paired
<1>6. Paired(n, m)'
  <2>1. Has(chan[n][m], {"SERVER"})
    BY <1>2
  <2>2. status[n][m] # "unknown"
    BY <1>1, <2>1 DEF Paired
  <2>3. status[n][m] = "handshake" => Has(chan'[m][n], {"SERVER"})
    <3>1. ASSUME status[n][m] = "handshake" PROVE Has(chan[m][n] \o q, {"SERVER"})
      <4>1. status[m][n] = "unknown" \/ Has(chan[m][n], {"SERVER"})
        BY <1>1, <3>1 DEF Paired
      <4> QED
        BY <1>3, <4>1
    <3> QED
      BY <3>1 DEF Says
  <2>4. status[n][m] = "none" => Has(chan'[n][m], {"CLOSE"})
    <3>1. status[n][m] = "none" => Has(chan[n][m], {"CLOSE"})
      BY <1>1 DEF Paired
    <3> QED
      BY <1>2, <3>1
  <2>5. Has(chan'[n][m], {"CLOSE"}) => status[n][m] = "none"
    BY <1>1, <1>2 DEF Paired
  <2> QED
    BY <1>4, <2>2, <2>3, <2>4, <2>5 DEF Paired
<1>7. Honest(m, n)'
  <2>1. Current(chan[m][n] \o q, idTable[m])
    BY <1>1, CurrentEnd
  <2> QED
    BY <2>1 DEF Honest, Says
<1>8. Honest(n, m)'
  <2>1. m \in Hubs /\ status[n][m] = "server" => Current(chan[n][m], idTable[n])
    BY DEF Half, Honest
  <2>2. m \in Hubs /\ status[n][m] = "server" => Current(Tail(chan[n][m]), idTable[n])
    BY <1>1, <2>1, CurrentMore
  <2> QED
    BY <2>2 DEF Honest
<1>9. Synced(m, n)'
  <2>1. Has(Tail(chan[n][m]), {"J", "CLOSE"})
    BY <1>4 DEF Has
  <2> QED
    BY <2>1 DEF Synced, Asked
<1>10. Synced(n, m)'
  <2>1. Has(chan[m][n] \o q, {"J", "CLOSE"})
    BY <1>3
  <2>2. status[n][m] = "server" => Has(chan'[m][n], {"J", "CLOSE"})
    BY <2>1 DEF Says
  <2> QED
    BY <2>2 DEF Synced, Asked
<1> QED
  BY <1>5, <1>6, <1>7, <1>8, <1>9, <1>10 DEF Half

(* SERVER at m. *)
LEMMA SyncedEstab ==
  ASSUME TypeOK, SyncInv, NEW m \in Servers, NEW n \in Servers, m # n, status[m][n] # "none",
         chan[n][m] # <<>>, Head(chan[n][m]).t = "SERVER", server_estab(m, n)
  PROVE  \A s, p \in Servers : s # p => Half(s, p)'
<1> DEFINE q == (IF status[m][n] = "unknown" THEN <<M("SERVER"), J(idTable[m])>> ELSE <<>>) \o <<J(idTable[m])>>
           o == [Silent EXCEPT ![n] = q]
<1>1. idTable[m] \in 0..MaxId
  BY DEF TypeOK
<1>2. /\ q \in Seq(Msg) /\ q # <<>> /\ q[Len(q)].t = "J" /\ Joined(q)
      /\ \A i \in 1..Len(q) : Value(q[i]) <= idTable[m]
      /\ Has(q, {"J", "CLOSE"}) /\ ~Has(q, {"CLOSE"}) /\ (status[m][n] = "unknown" => Has(q, {"SERVER"}))
  <2> DEFINE u == status[m][n] = "unknown"
  <2>1. u \in BOOLEAN
    OBVIOUS
  <2>2. q = (IF u THEN <<M("SERVER"), J(idTable[m])>> ELSE <<>>) \o <<J(idTable[m])>>
    OBVIOUS
  <2> HIDE DEF u, q
  <2>3. /\ q \in Seq(Msg) /\ q # <<>> /\ q[Len(q)].t = "J" /\ Joined(q)
        /\ \A i \in 1..Len(q) : Value(q[i]) <= idTable[m]
        /\ Has(q, {"J", "CLOSE"}) /\ ~Has(q, {"CLOSE"}) /\ (u => Has(q, {"SERVER"}))
    BY <1>1, <2>1, <2>2, BurstSays
  <2> QED
    BY <2>3 DEF u
<1>3. /\ status' = [status EXCEPT ![m][n] = "server"] /\ Handle(m, n, o, {})
      /\ idTable' = idTable /\ open' = open
  BY DEF server_estab, tableVars
<1> HIDE DEF q
<1>4. Silent \in [Servers -> Seq(Msg)] /\ \A p \in Servers : Silent[p] = <<>>
  BY DEF Silent
<1>5. o \in [Servers -> Seq(Msg)] /\ o[n] = q /\ \A p \in Servers \ {n} : o[p] = <<>>
  BY <1>2, <1>4
<1> HIDE DEF o
<1>6. /\ chan'[n][m] = Tail(chan[n][m])
      /\ \A p \in Servers \ {m} : Says(m, p, o[p]) /\ (p # n => chan'[p][m] = chan[p][m])
      /\ \A s, p \in Servers \ {m} : chan'[s][p] = chan[s][p]
  BY <1>3, <1>5, HandleLinks
<1>7. /\ status'[m][n] = "server" /\ \A p \in Servers \ {n} : status'[m][p] = status[m][p]
      /\ \A s \in Servers \ {m} : status'[s] = status[s]
  <2>1. status \in [Servers -> [Servers -> {"none", "unknown", "handshake", "server"}]]
    BY DEF TypeOK
  <2> QED
    BY <1>3, <2>1
<1>8. /\ \A s, p \in Servers \ {m} : Stays(s, p)
      /\ \A p \in Servers \ {m, n} : Stays(m, p) /\ Stays(p, m)
  BY <1>7 DEF Stays
<1>9. ASSUME NEW p \in Servers \ {m} PROVE Half(m, p)' /\ Half(p, m)'
  <2>1. Link(m, p) /\ Half(m, p) /\ Half(p, m)
    BY LinkType DEF SyncInv
  <2>2. CASE p = n
    <3>1. Says(m, n, q) /\ status'[n][m] = status[n][m]
      BY <1>5, <1>6, <1>7
    <3> QED
      BY <1>2, <1>3, <1>6, <1>7, <2>1, <2>2, <3>1, EstabLink
  <2>3. CASE p # n
    <3>1. chan[m][p] \o <<>> = chan[m][p]
      <4>1. chan[m][p] \in Seq(Msg)
        BY DEF TypeOK
      <4> QED
        BY <4>1, ConcatEmptySeq
    <3>2. chan'[m][p] = chan[m][p] /\ chan'[p][m] = chan[p][m]
      BY <1>5, <1>6, <2>3, <3>1 DEF Says
    <3> QED
      BY <1>3, <1>8, <2>1, <2>3, <3>2, SameLink
  <2> QED
    BY <2>2, <2>3
<1> QED
  BY <1>3, <1>6, <1>8, <1>9, Around
-----------------------------------------------------------------------------
(* CLOSE at m: both ends are gone. *)
LEMMA SyncedClosed ==
  ASSUME TypeOK, SyncInv, NEW m \in Servers, NEW n \in Servers, m # n,
         chan[n][m] # <<>>, Head(chan[n][m]).t = "CLOSE", peer_closed(m, n)
  PROVE  \A s, p \in Servers : s # p => Half(s, p)'
<1>1. Silent \in [Servers -> Seq(Msg)] /\ \A p \in Servers : Silent[p] = <<>>
  BY DEF Silent
<1>2. /\ chan'[n][m] = Tail(chan[n][m])
      /\ \A p \in Servers \ {m} : Says(m, p, Silent[p]) /\ (p # n => chan'[p][m] = chan[p][m])
      /\ \A s, p \in Servers \ {m} : chan'[s][p] = chan[s][p]
  BY <1>1, HandleLinks DEF peer_closed
<1>3. /\ status'[m][n] = "none" /\ \A p \in Servers \ {n} : status'[m][p] = status[m][p]
      /\ \A s \in Servers \ {m} : status'[s] = status[s]
  <2>1. status \in [Servers -> [Servers -> {"none", "unknown", "handshake", "server"}]]
    BY DEF TypeOK
  <2> QED
    BY <2>1 DEF peer_closed, Exit
<1>4. /\ \A s \in Servers \ {m} : open'[s] = open[s]
      /\ \A p \in Servers \ {n} : p \in open'[m] <=> p \in open[m]
  <2>1. open \in [Servers -> SUBSET Servers]
    BY DEF TypeOK
  <2> QED
    BY <2>1 DEF peer_closed
<1>5. idTable' = idTable
  BY DEF peer_closed, tableVars
<1>6. /\ \A s, p \in Servers \ {m} : Stays(s, p)
      /\ \A p \in Servers \ {m, n} : Stays(m, p) /\ Stays(p, m)
  BY <1>3 DEF Stays
<1>7. ASSUME NEW p \in Servers \ {m} PROVE Half(m, p)' /\ Half(p, m)'
  <2>1. Link(m, p) /\ Half(m, p) /\ Half(p, m)
    BY LinkType DEF SyncInv
  <2>2. chan'[m][p] = chan[m][p]
    <3>1. chan[m][p] \o <<>> = chan[m][p]
      <4>1. chan[m][p] \in Seq(Msg)
        BY DEF TypeOK
      <4> QED
        BY <4>1, ConcatEmptySeq
    <3> QED
      BY <1>1, <1>2, <3>1 DEF Says
  <2>3. CASE p = n
    <3>1. Has(chan[n][m], {"CLOSE"})
      BY <2>1, <2>3, HasTail DEF Link
    <3>2. status'[n][m] = "none"
      BY <1>3, <2>1, <2>3, <3>1 DEF Half, Paired
    <3>3. Joined(chan'[m][n]) /\ Joined(chan'[n][m])
      BY <1>2, <2>1, <2>2, <2>3, JoinedMore DEF Half, Paired, Link
    <3> QED
      BY <1>3, <2>3, <3>2, <3>3, LeftLink
  <2>4. CASE p # n
    BY <1>2, <1>4, <1>5, <1>6, <2>1, <2>2, <2>4, SameLink
  <2> QED
    BY <2>3, <2>4
<1> QED
  BY <1>2, <1>4, <1>5, <1>6, <1>7, Around

(* A crash of m: every neighbour has a CLOSE to read. *)
LEMMA SyncedCrash ==
  ASSUME TypeOK, SyncInv, NEW m \in Servers, Crash(m)
  PROVE  \A s, p \in Servers : s # p => Half(s, p)'
<1>1. PICK lost \in {FALSE, TRUE} :
        chan' = [a \in Servers |-> [b \in Servers |->
          IF b = m THEN <<>>
          ELSE IF a = m /\ status[m][b] # "none" /\ status[b][m] # "none"
                 THEN (IF lost THEN <<>> ELSE chan[m][b]) \o <<M("CLOSE")>>
          ELSE chan[a][b]]]
  BY DEF Crash
<1>2. /\ \A p \in Servers : status'[m][p] = "none"
      /\ \A s \in Servers \ {m} : status'[s] = status[s] /\ open'[s] = open[s]
  <2>1. /\ status \in [Servers -> [Servers -> {"none", "unknown", "handshake", "server"}]]
        /\ open \in [Servers -> SUBSET Servers]
    BY DEF TypeOK
  <2> QED
    BY <2>1 DEF Crash
<1>3. \A s \in Servers \ {m} : idTable'[s] = idTable[s]
  <2>1. idTable \in [Servers -> 0..MaxId]
    BY DEF TypeOK
  <2>2. \E v : idTable' = [idTable EXCEPT ![m] = v]
    BY DEF Crash, ddb_table_init
  <2> QED
    BY <2>1, <2>2
<1>4. \A s, p \in Servers \ {m} : Stays(s, p) /\ chan'[s][p] = chan[s][p]
  BY <1>1, <1>2 DEF Stays
<1>5. ASSUME NEW p \in Servers \ {m} PROVE Half(m, p)' /\ Half(p, m)'
  <2>1. chan[m][p] \in Seq(Msg) /\ Joined(chan[m][p]) /\ Joined(<<>>) /\ <<>> \in Seq(Msg)
    <3>1. chan[m][p] \in Seq(Msg)
      BY DEF TypeOK
    <3>2. Joined(chan[m][p])
      BY DEF SyncInv, Half, Paired
    <3> QED
      BY <3>1, <3>2, FewSaid, JoinedNone
  <2> DEFINE q == IF lost THEN <<>> ELSE chan[m][p]
  <2>2. q \in Seq(Msg) /\ Joined(q)
    BY <2>1
  <2>3. /\ chan'[p][m] = <<>>
        /\ chan'[m][p] = IF status[m][p] # "none" /\ status[p][m] # "none"
                            THEN q \o <<M("CLOSE")>> ELSE chan[m][p]
    BY <1>1
  <2> HIDE DEF q
  <2>4. Has(q \o <<M("CLOSE")>>, {"CLOSE"}) /\ Joined(q \o <<M("CLOSE")>>)
    BY <2>2, Closed
  <2>5. status[m][p] = "none" /\ status[p][m] # "none" => Has(chan[m][p], {"CLOSE"})
    BY DEF SyncInv, Half, Paired
  <2>6. Joined(chan'[m][p]) /\ (status[p][m] # "none" => Has(chan'[m][p], {"CLOSE"}))
    BY <2>1, <2>3, <2>4, <2>5
  <2> QED
    BY <1>2, <2>1, <2>3, <2>6, LeftLink
<1> QED
  BY <1>2, <1>3, <1>4, <1>5, Around

(* The connection of m and n is lost and m notices: n has a CLOSE to read. *)
LEMMA SyncedBreak ==
  ASSUME TypeOK, SyncInv, NEW m \in Servers, NEW n \in Servers, m # n, Break(m, n)
  PROVE  \A s, p \in Servers : s # p => Half(s, p)'
<1>1. PICK lost \in {FALSE, TRUE} :
        chan' = [a \in Servers |-> [b \in Servers |->
          IF a = n /\ b = m THEN <<>>
          ELSE IF a = m /\ b = n /\ status[n][m] # "none"
                 THEN (IF lost THEN <<>> ELSE chan[m][n]) \o <<M("CLOSE")>>
          ELSE chan[a][b]]]
  BY DEF Break
<1>2. /\ status'[m][n] = "none" /\ \A p \in Servers \ {n} : status'[m][p] = status[m][p]
      /\ \A s \in Servers \ {m} : status'[s] = status[s]
  <2>1. status \in [Servers -> [Servers -> {"none", "unknown", "handshake", "server"}]]
    BY DEF TypeOK
  <2> QED
    BY <2>1 DEF Break, Exit
<1>3. /\ \A s \in Servers \ {m} : open'[s] = open[s]
      /\ \A p \in Servers \ {n} : p \in open'[m] <=> p \in open[m]
  <2>1. open \in [Servers -> SUBSET Servers]
    BY DEF TypeOK
  <2> QED
    BY <2>1 DEF Break
<1>4. idTable' = idTable
  BY DEF Break, tableVars
<1>5. /\ \A s, p \in Servers \ {m} : Stays(s, p) /\ chan'[s][p] = chan[s][p]
      /\ \A p \in Servers \ {m, n} : /\ Stays(m, p) /\ Stays(p, m)
                                     /\ chan'[m][p] = chan[m][p] /\ chan'[p][m] = chan[p][m]
  BY <1>1, <1>2 DEF Stays
<1>6. Half(m, n)' /\ Half(n, m)'
  <2>1. chan[m][n] \in Seq(Msg) /\ Joined(chan[m][n]) /\ Joined(<<>>) /\ <<>> \in Seq(Msg)
    <3>1. chan[m][n] \in Seq(Msg)
      BY DEF TypeOK
    <3>2. Joined(chan[m][n])
      BY DEF SyncInv, Half, Paired
    <3> QED
      BY <3>1, <3>2, FewSaid, JoinedNone
  <2> DEFINE q == IF lost THEN <<>> ELSE chan[m][n]
  <2>2. q \in Seq(Msg) /\ Joined(q)
    BY <2>1
  <2>3. /\ chan'[n][m] = <<>>
        /\ chan'[m][n] = IF status[n][m] # "none" THEN q \o <<M("CLOSE")>> ELSE chan[m][n]
    BY <1>1
  <2> HIDE DEF q
  <2>4. Has(q \o <<M("CLOSE")>>, {"CLOSE"}) /\ Joined(q \o <<M("CLOSE")>>)
    BY <2>2, Closed
  <2>5. Joined(chan'[m][n]) /\ (status[n][m] # "none" => Has(chan'[m][n], {"CLOSE"}))
    BY <2>1, <2>3, <2>4
  <2> QED
    BY <1>2, <2>1, <2>3, <2>5, LeftLink
<1>7. ASSUME NEW p \in Servers \ {m} PROVE Half(m, p)' /\ Half(p, m)'
  <2>1. Half(m, p) /\ Half(p, m)
    BY DEF SyncInv
  <2>2. CASE p = n
    BY <1>6, <2>2
  <2>3. CASE p # n
    BY <1>3, <1>4, <1>5, <2>1, <2>3, SameLink
  <2> QED
    BY <2>2, <2>3
<1> QED
  BY <1>3, <1>4, <1>5, <1>7, Around

(* A new link between a and b: its SERVER is on the way. *)
LEMMA SyncedConnect ==
  ASSUME TypeOK, SyncInv, NEW a \in Servers, NEW b \in Servers, completed_connection(a, b)
  PROVE  \A s, p \in Servers : s # p => Half(s, p)'
<1> DEFINE x == M("SERVER")
           y == J(idTable[a])
<1>1. a # b /\ idTable' = idTable /\ idTable[a] \in 0..MaxId
  BY DEF completed_connection, tableVars, TypeOK
<1>2. /\ status'[a][b] = "handshake" /\ status'[b][a] = "unknown"
      /\ \A s, p \in Servers : {s, p} # {a, b} => status'[s][p] = status[s][p]
  <2>1. status \in [Servers -> [Servers -> {"none", "unknown", "handshake", "server"}]]
    BY DEF TypeOK
  <2>2. status' = [status EXCEPT ![a][b] = "handshake", ![b][a] = "unknown"]
    BY DEF completed_connection
  <2> QED
    BY <1>1, <2>1, <2>2
<1>3. /\ chan'[a][b] = <<x, y>> /\ chan'[b][a] = <<>>
      /\ \A s, p \in Servers : {s, p} # {a, b} => chan'[s][p] = chan[s][p]
  <2>1. chan \in [Servers -> [Servers -> Seq(Msg)]]
    BY DEF TypeOK
  <2>2. chan' = [chan EXCEPT ![a][b] = <<x, y>>, ![b][a] = <<>>]
    BY DEF completed_connection
  <2> QED
    BY <1>1, <2>1, <2>2
<1>4. \A s, p \in Servers : {s, p} # {a, b} => (p \in open'[s] <=> p \in open[s])
  <2>1. open \in [Servers -> SUBSET Servers]
    BY DEF TypeOK
  <2>2. open' = [open EXCEPT ![a] = @ \ {b}, ![b] = @ \ {a}]
    BY DEF completed_connection
  <2> QED
    BY <1>1, <2>1, <2>2
<1>5. ASSUME NEW s \in Servers, NEW p \in Servers, s # p, {s, p} # {a, b} PROVE Half(s, p)'
  <2>1. Half(s, p)
    BY <1>5 DEF SyncInv
  <2>2. {p, s} # {a, b}
    BY <1>5
  <2>3. Stays(s, p) /\ chan'[s][p] = chan[s][p] /\ chan'[p][s] = chan[p][s]
    BY <1>2, <1>3, <1>5, <2>2 DEF Stays
  <2> QED
    BY <1>1, <1>4, <1>5, <2>1, <2>3, SameLink
<1>6. x \in Msg /\ x.t = "SERVER" /\ y \in Msg /\ y.t = "J"
  BY <1>1, MsgType DEF M, J
<1> HIDE DEF x, y
<1>7. Joined(<<x, y>>) /\ ~Has(<<x, y>>, {"CLOSE"})
  <2> DEFINE q == <<x, y>>
  <2>1. Len(q) = 2 /\ q[1] = x /\ q[2] = y
    OBVIOUS
  <2>2. \A i \in 1..2 : i = 1 \/ i = 2
    OBVIOUS
  <2> HIDE DEF q
  <2>3. Joined(q) /\ ~Has(q, {"CLOSE"})
    BY <1>6, <2>1, <2>2 DEF Joined, Has
  <2> QED
    BY <2>3 DEF q
<1>8. (\A T : ~Has(<<>>, T)) /\ Joined(<<>>)
  BY FewSaid, JoinedNone
<1>9. Paired(a, b)' /\ Paired(b, a)'
  BY <1>2, <1>3, <1>7, <1>8 DEF Paired
<1>10. Half(a, b)' /\ Half(b, a)'
  BY <1>2, <1>9 DEF Half, Honest, Synced
<1> QED
  BY <1>5, <1>10

(* Without packing, the id of a table is that of its last line. *)
LEMMA EndsNext ==
  ASSUME PackKeys = {}, TypeOK, [Next]_vars, \A s \in Servers : Ends(disk[s], idTable[s])
  PROVE  \A s \in Servers : Ends(disk'[s], idTable'[s])
<1>0. disk \in [Servers -> Seq(Register)] /\ idTable \in [Servers -> 0..MaxId]
  BY DEF TypeOK
<1>1. CASE UNCHANGED tableVars
  BY <1>1 DEF tableVars
<1>2. ASSUME NEW m \in Servers, NEW d, NEW v, Ends(d, v),
             disk' = [disk EXCEPT ![m] = d], idTable' = [idTable EXCEPT ![m] = v]
      PROVE  \A s \in Servers : Ends(disk'[s], idTable'[s])
  BY <1>0, <1>2
<1>3. ASSUME NEW m \in Servers, ddb_drop(m) PROVE \A s \in Servers : Ends(disk'[s], idTable'[s])
  <2>1. Ends(<<>>, 0)
    BY DEF Ends
  <2> QED
    BY <1>2, <1>3, <2>1 DEF ddb_drop
<1>4. ASSUME NEW m \in Servers, NEW r \in Register, Store(m, r)
      PROVE  \A s \in Servers : Ends(disk'[s], idTable'[s])
  <2>1. r.key # "*"
    BY DdbAssumption DEF Register
  <2>2. disk[m] \in Seq(Register)
    BY <1>0
  <2>3. Append(disk[m], r) # <<>> /\ Append(disk[m], r)[Len(Append(disk[m], r))] = r
    BY <2>2
  <2>4. Ends(Append(disk[m], r), r.id)
    BY <2>3 DEF Ends
  <2>5. disk' = [disk EXCEPT ![m] = Append(disk[m], r)] /\ idTable' = [idTable EXCEPT ![m] = r.id]
    BY <1>4, <2>1 DEF Store, ddb_new_register
  <2> QED
    BY <1>2, <2>4, <2>5
<1>5. ASSUME NEW m \in Servers, NEW d, NEW h, ddb_table_init(m, d, h)
      PROVE  \A s \in Servers : Ends(disk'[s], idTable'[s])
  <2> DEFINE good == IF HashOf(d) = h THEN d ELSE <<>>
  <2>1. /\ disk' = [disk EXCEPT ![m] = good]
        /\ idTable' = [idTable EXCEPT ![m] = IF good = <<>> THEN 0 ELSE good[Len(good)].id]
    BY <1>5 DEF ddb_table_init
  <2> HIDE DEF good
  <2>2. Ends(good, IF good = <<>> THEN 0 ELSE good[Len(good)].id)
    BY DEF Ends
  <2> QED
    BY <1>2, <2>1, <2>2
<1> QED
  BY <1>1, <1>3, <1>4, <1>5, TableSteps

(* No server is linked to itself. *)
LEMMA NoSelfNext ==
  ASSUME TypeOK, [Next]_vars, \A s \in Servers : status[s][s] = "none"
  PROVE  \A s \in Servers : status'[s][s] = "none"
<1>0. status \in [Servers -> [Servers -> {"none", "unknown", "handshake", "server"}]]
  BY DEF TypeOK
<1>1. ASSUME NEW a \in Servers, NEW b \in Servers, completed_connection(a, b)
      PROVE  \A s \in Servers : status'[s][s] = "none"
  <2>1. a # b /\ status' = [status EXCEPT ![a][b] = "handshake", ![b][a] = "unknown"]
    BY <1>1 DEF completed_connection
  <2> QED
    BY <1>0, <2>1
<1>2. ASSUME NEW m \in Servers, NEW n \in Servers, Receive(m, n)
      PROVE  \A s \in Servers : status'[s][s] = "none"
  <2>0. status[m][n] # "none"
    BY <1>2, Zenon DEF Receive
  <2>1. m # n
    BY <2>0
  <2>2. \/ status' = status
        \/ status' = [status EXCEPT ![m][n] = "server"]
        \/ \E cut : Exit(m, cut)
    BY <1>2, Zenon DEF Receive, server_estab, peer_closed, ms_db_J, ms_db_B, ms_db_D, ms_db_register, KeepLinks
  <2> QED
    BY <1>0, <2>1, <2>2 DEF Exit
<1>3. CASE \E r \in Register : Services(r)
  BY <1>3 DEF Services, KeepLinks
<1>4. CASE \E s \in Servers : Crash(s)
  BY <1>0, <1>4 DEF Crash
<1>5. CASE \E s, p \in Servers : Break(s, p)
  BY <1>0, <1>5 DEF Break, Exit
<1>6. CASE UNCHANGED vars
  BY <1>6 DEF vars
<1> QED
  BY <1>1, <1>2, <1>3, <1>4, <1>5, <1>6 DEF Next

(* The account of the links is kept by every step. *)
LEMMA SyncNext ==
  ASSUME PackKeys = {}, TypeOK, SortedDisk, SyncInv, [Next]_vars
  PROVE  SyncInv'
<1>1. \A s \in Servers : status'[s][s] = "none"
  BY NoSelfNext DEF SyncInv
<1>2. \A s \in Servers : Ends(disk'[s], idTable'[s])
  BY EndsNext DEF SyncInv
<1>3. ASSUME NEW m \in Servers, NEW n \in Servers, Receive(m, n)
      PROVE  \A s, p \in Servers : s # p => Half(s, p)'
  <2>1. m # n /\ status[m][n] # "none" /\ chan[n][m] # <<>>
    BY <1>3 DEF Receive, SyncInv
  <2> DEFINE h == Head(chan[n][m])
  <2>2. CASE h.t = "SERVER" /\ server_estab(m, n)
    BY <2>1, <2>2, SyncedEstab
  <2>3. CASE h.t = "CLOSE" /\ peer_closed(m, n)
    BY <2>1, <2>3, SyncedClosed
  <2>4. CASE h.t = "J" /\ ms_db_J(m, n, h.id)
    BY <2>1, <2>4, SyncedJ
  <2>5. CASE h.t = "B" /\ ms_db_B(m, n)
    BY <2>1, <2>5, SyncedB
  <2>6. CASE h.t = "D" /\ ms_db_D(m, n, h.mask)
    BY <2>1, <2>6, SyncedD
  <2>7. CASE h.t = "REG" /\ ms_db_register(m, n, h.reg)
    BY <2>1, <2>7, SyncedRegister
  <2> QED
    BY <1>3, <2>2, <2>3, <2>4, <2>5, <2>6, <2>7 DEF Receive
<1>4. CASE UNCHANGED vars
  <2>1. ASSUME NEW s \in Servers, NEW p \in Servers, s # p PROVE Half(s, p)'
    <3>1. Half(s, p) /\ Stays(s, p)
      BY <1>4, <2>1 DEF SyncInv, Stays, vars
    <3> QED
      BY <1>4, <3>1, SameLink DEF vars, tableVars
  <2> QED
    BY <2>1, <1>1, <1>2 DEF SyncInv
<1>5. ASSUME NEW m \in Servers, NEW n \in Servers, Break(m, n)
      PROVE  \A s, p \in Servers : s # p => Half(s, p)'
  <2>1. m # n
    BY <1>5 DEF Break, SyncInv
  <2> QED
    BY <1>5, <2>1, SyncedBreak
<1>6. \A s, p \in Servers : s # p => Half(s, p)'
  BY <1>3, <1>4, <1>5, SyncedConnect, SyncedServices, SyncedCrash DEF Next, SyncInv
<1> QED
  BY <1>1, <1>2, <1>6 DEF SyncInv

(* In the first state there are no links. *)
LEMMA SyncInit == Init => SyncInv
<1> SUFFICES ASSUME Init PROVE SyncInv
  OBVIOUS
<1>1. \A s \in Servers : status[s][s] = "none" /\ Ends(disk[s], idTable[s])
  BY DEF Init, Ends
<1>2. (\A T : ~Has(<<>>, T)) /\ Joined(<<>>)
  BY FewSaid, JoinedNone
<1>3. ASSUME NEW s \in Servers, NEW p \in Servers PROVE Half(s, p)
  <2>1. status[s][p] = "none" /\ status[p][s] = "none" /\ chan[s][p] = <<>>
    BY DEF Init
  <2> QED
    BY <1>2, <2>1 DEF Half, Paired, Honest, Synced
<1> QED
  BY <1>1, <1>3 DEF SyncInv

(* With nothing to read, nothing is on its way. *)
LEMMA SyncQuiet ==
  ASSUME TypeOK, SyncInv
  PROVE  QuietMeansSynced
<1> SUFFICES ASSUME Quiet, NEW x \in Hubs, NEW s \in Servers, status[x][s] = "server"
             PROVE  s \in open[x] /\ idTable[s] >= idTable[x]
  BY DEF QuietMeansSynced
<1>1. x \in Servers /\ x # s
  BY DdbAssumption DEF SyncInv
<1>2. chan[x][s] = <<>> /\ chan[s][x] = <<>>
  BY <1>1 DEF Quiet
<1>3. Asked(x, s) \/ Covered(x, s)
  BY <1>1 DEF SyncInv, Half, Synced
<1>4. ~Asked(x, s)
  BY <1>2, HasFew DEF Asked
<1>5. ~Brings(<<>>, idTable[x])
  BY DEF Brings
<1> QED
  BY <1>2, <1>3, <1>4, <1>5 DEF Covered

(* Whatever links, drops, crashes and restarts there were and however the  *)
(* joins, bursts and orders to drop crossed: when nothing is left to read, *)
(* the neighbours of a hub have all that it has, and their faucets are     *)
(* open.  Packing is excluded: see FaucetOpens.                            *)
THEOREM NeighboursSynced ==
  ASSUME PackKeys = {}
  PROVE  Spec => []QuietMeansSynced
<1>1. Init => SyncInv
  BY SyncInit
<1>2. TypeOK /\ SortedDisk /\ SyncInv /\ [Next]_vars => SyncInv'
  BY SyncNext
<1>3. TypeOK /\ SyncInv => QuietMeansSynced
  BY SyncQuiet
<1> QED
  BY <1>1, <1>2, <1>3, TypeCorrect, FileIsSorted, PTL DEF Spec
=============================================================================
