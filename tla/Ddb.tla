-------------------------------- MODULE Ddb --------------------------------
(***************************************************************************)
(* The Distributed DataBase of IRCh: one table, replicated by every server *)
(* of the network (ddb.c, ddb_db_native.c, m_db.c, and the calls of        *)
(* ddb_burst in s_serv.c and s_bsd.c).                                     *)
(*                                                                         *)
(* The services assign increasing ids to registers and hand them to one    *)
(* hub.  A server appends a register it accepts to the table's file, then  *)
(* rewrites the table's hash in the file "hashes", then updates memory,    *)
(* and relays it to the neighbours whose faucet (ddb_open) is open.  The   *)
(* faucet of a neighbour is opened by its J (join) message, which tells    *)
(* the last id it has.  The 26 tables never share state, so one table is   *)
(* modelled.                                                               *)
(***************************************************************************)
EXTENDS Naturals, Sequences, FiniteSets

CONSTANTS
  Servers,      \* the servers of the network
  Hubs,         \* the servers that run with FEAT_HUB
  ServicesHub,  \* the hub the services are linked to
  Topology,     \* the configured links: unordered pairs of servers
  Keys,         \* keys of registers, the compaction key "*" excluded
  PackKeys,     \* {"*"} when the services ask to pack the table, {} otherwise
  Masks,        \* server masks of registers, each as the set it matches
  LineLen,      \* length of a line of the table's file
  MaxId,        \* bound: ids the services assign
  MaxConnects,  \* bound: link attempts
  MaxFaults    \* bound: crashes of a server and losses of a connection

ASSUME DdbAssumption ==
  /\ IsFiniteSet(Servers)
  /\ Hubs \subseteq Servers
  /\ ServicesHub \in Hubs /\ "services" \notin Servers
  /\ Topology \subseteq {{a, b} : a, b \in Servers}
  /\ "*" \notin Keys /\ PackKeys \subseteq {"*"}
  /\ Masks \subseteq SUBSET Servers
  /\ LineLen \in Nat \ {0}
  /\ MaxId \in Nat /\ MaxConnects \in Nat /\ MaxFaults \in Nat

VARIABLES
  issued,     \* the registers the services have sent, in order
  disk,       \* per server, the lines of table.X
  diskHash,   \* per server, the table's line of the file "hashes"
  hashTable,  \* per server, ddb_hashtable_hi/lo
  idTable,    \* per server, ddb_id_table
  mem,        \* per server and key, ddb_data_table: id of the register that
              \* set the key, 0 when the key is absent
  status,     \* per server and peer, the state of the connection
  open,       \* per server, the peers with the table's bit set in ddb_open
  chan,       \* per sender and receiver, the messages in flight
  torn,       \* the links some connection of which was lost, not closed
  connects, faults

tableVars == <<disk, diskHash, hashTable, idTable, mem>>
boundVars == <<torn, connects, faults>>
vars == <<issued, tableVars, status, open, chan, boundVars>>
-----------------------------------------------------------------------------
(* A register: key "*" asks to pack the table; del is a register without   *)
(* content, which deletes its key.                                         *)
Register == [id : 1..MaxId, key : Keys \cup PackKeys, del : BOOLEAN, mask : Masks]

(* What the servers exchange.  E, H, Q and R (drop response, hash check,   *)
(* hash query and its response) change no state and are left out.          *)
Msg == [t : {"SERVER", "B", "CLOSE"}]
         \cup [t : {"J"}, id : 0..MaxId]
         \cup [t : {"D"}, mask : SUBSET Servers]
         \cup [t : {"REG"}, reg : Register]

M(t) == [t |-> t]
J(i) == [t |-> "J", id |-> i]
D(m) == [t |-> "D", mask |-> m]
Reg(r) == [t |-> "REG", reg |-> r]

NoMem == [k \in Keys |-> 0]
Silent == [p \in Servers |-> <<>>]

(* cli_serv(&me)->down: the established server links.                      *)
Down(s) == {p \in Servers : status[s][p] = "server"}
(* The digest is taken to be injective: it is the sequence of registers    *)
(* that ddb_hash_calculate was applied to.                                 *)
HashOf(d) == d
-----------------------------------------------------------------------------
(* Server s reads the first message of n, writes o[p] to each peer p and   *)
(* closes the connections of the set cut.  What is written to a peer that  *)
(* has closed its end is lost; a peer reads what was sent before CLOSE.    *)
Handle(s, n, o, cut) ==
  /\ chan' = [a \in Servers |-> [b \in Servers |->
       IF b = s /\ a \in cut THEN <<>>
       ELSE IF a = n /\ b = s THEN Tail(chan[n][s])
       ELSE IF a = s /\ status[b][s] # "none"
              THEN chan[s][b] \o o[b] \o (IF b \in cut THEN <<M("CLOSE")>> ELSE <<>>)
       ELSE chan[a][b]]]
  /\ UNCHANGED <<issued, boundVars>>

KeepLinks == UNCHANGED <<status, open>>

(* exit_client for the peers of the set cut, seen from s. *)
Exit(s, cut) ==
  status' = [status EXCEPT ![s] = [p \in Servers |-> IF p \in cut THEN "none" ELSE @[p]]]
-----------------------------------------------------------------------------
(* completed_connection: the connecting side sends SERVER and ddb_burst.   *)
completed_connection(a, b) ==
  /\ connects < MaxConnects
  /\ {a, b} \in Topology /\ a # b
  /\ status[a][b] = "none" /\ status[b][a] = "none"
  /\ status' = [status EXCEPT ![a][b] = "handshake", ![b][a] = "unknown"]
  /\ open' = [open EXCEPT ![a] = @ \ {b}, ![b] = @ \ {a}]
  /\ chan' = [chan EXCEPT ![a][b] = <<M("SERVER"), J(idTable[a])>>, ![b][a] = <<>>]
  /\ connects' = connects + 1
  /\ UNCHANGED <<issued, tableVars, torn, faults>>

(* server_estab: an accepting server answers with its own SERVER and       *)
(* ddb_burst; either side then calls ddb_burst (again).                    *)
server_estab(s, n) ==
  /\ status' = [status EXCEPT ![s][n] = "server"]
  /\ Handle(s, n,
       [Silent EXCEPT ![n] =
          (IF status[s][n] = "unknown" THEN <<M("SERVER"), J(idTable[s])>> ELSE <<>>)
            \o <<J(idTable[s])>>], {})
  /\ UNCHANGED <<tableVars, open>>

(* The peer closed the connection: exit_client removes it. *)
peer_closed(s, n) ==
  /\ Exit(s, {n})
  /\ open' = [open EXCEPT ![s] = @ \ {n}]
  /\ Handle(s, n, Silent, {})
  /\ UNCHANGED tableVars
-----------------------------------------------------------------------------
(* ddb_seek in a file sorted by id: how many lines come before id, and the *)
(* registers that are left to read.                                        *)
Before(d, id) == Cardinality({i \in 1..Len(d) : d[i].id < id})
PendingSkipsOne(s, id) == SubSeq(disk[s], Before(disk[s], id) + 2, Len(disk[s]))
Pending(s, id) == SubSeq(disk[s], Before(disk[s], id) + 1, Len(disk[s]))

(* cli_serv(cptr)->ddb_open &= ~ddb_mask for the neighbours of the set p.  *)
KeepFaucet(s, p) == open' = open
CloseFaucet(s, p) == open' = [open EXCEPT ![s] = @ \ p]

(* J: the neighbour n has every register up to id.  ddb_db_read sends the  *)
(* registers from id+1 and counts down from the length of the first line   *)
(* (its parameter count is not used); it returns -1 when there is nothing  *)
(* to read, 0 when the countdown ended and 1 at the end of the file.       *)
ms_db_J(s, n, id) ==
  LET rest  == Pending(s, id + 1)
      batch == SubSeq(rest, 1, IF Len(rest) < LineLen THEN Len(rest) ELSE LineLen)
      regs  == [i \in 1..Len(batch) |-> Reg(batch[i])]
  IN /\ \/ /\ id >= idTable[s]
           /\ open' = [open EXCEPT ![s] = @ \cup {n}]
           /\ Handle(s, n, Silent, {})
        \/ /\ id < idTable[s] /\ n \in open[s]
           /\ CloseFaucet(s, {n})
           /\ Handle(s, n, [Silent EXCEPT ![n] = <<D({n})>>], {})
        \/ /\ id < idTable[s] /\ n \notin open[s]
           /\ rest = <<>>
           /\ UNCHANGED open
           /\ Handle(s, n, Silent, {})
        \/ /\ id < idTable[s] /\ n \notin open[s]
           /\ rest # <<>> /\ Len(rest) < LineLen
           /\ open' = [open EXCEPT ![s] = @ \cup {n}]
           /\ Handle(s, n, [Silent EXCEPT ![n] = regs], {})
        \/ /\ id < idTable[s] /\ n \notin open[s]
           /\ Len(rest) >= LineLen
           /\ UNCHANGED open
           /\ Handle(s, n, [Silent EXCEPT ![n] = regs \o <<M("B")>>], {})
     /\ UNCHANGED <<tableVars, status>>

(* B: more registers are pending at hub n; ask for them. *)
ms_db_B(s, n) ==
  /\ Handle(s, n, [Silent EXCEPT ![n] = IF n \in Hubs THEN <<J(idTable[s])>> ELSE <<>>], {})
  /\ KeepLinks
  /\ UNCHANGED tableVars

DropKeepsMemory(s) ==
  /\ disk' = [disk EXCEPT ![s] = <<>>]
  /\ hashTable' = [hashTable EXCEPT ![s] = HashOf(<<>>)]
  /\ diskHash' = [diskHash EXCEPT ![s] = HashOf(<<>>)]
  /\ idTable' = [idTable EXCEPT ![s] = 0]
  /\ UNCHANGED mem

DropKeepsHash(s) ==
  /\ disk' = [disk EXCEPT ![s] = <<>>]
  /\ hashTable' = [hashTable EXCEPT ![s] = HashOf(<<>>)]
  /\ idTable' = [idTable EXCEPT ![s] = 0]
  /\ mem' = [mem EXCEPT ![s] = NoMem]
  /\ UNCHANGED diskHash

(* ddb_drop: truncate the file, forget memory, write the null hash. *)
ddb_drop(s) ==
  /\ disk' = [disk EXCEPT ![s] = <<>>]
  /\ hashTable' = [hashTable EXCEPT ![s] = HashOf(<<>>)]
  /\ diskHash' = [diskHash EXCEPT ![s] = HashOf(<<>>)]
  /\ idTable' = [idTable EXCEPT ![s] = 0]
  /\ mem' = [mem EXCEPT ![s] = NoMem]

NoSplit(s, n) == {}

(* ddb_splithubs: every hub but the one the message came from. *)
ddb_splithubs(s, n) == (Down(s) \cap Hubs) \ {n}

(* D: hub n orders the servers of the mask to drop the table.  The order   *)
(* goes to every other neighbour, with its faucet closed, matched or not.  *)
ms_db_D(s, n, mask) ==
  LET others == Down(s) \ {n}
      fwd    == [p \in Servers |-> IF p \in others THEN <<D(mask)>> ELSE <<>>]
  IN \/ /\ n \notin Hubs
        /\ Handle(s, n, Silent, {})
        /\ KeepLinks
        /\ UNCHANGED tableVars
     \/ /\ n \in Hubs /\ s \in mask
        /\ ddb_drop(s)
        /\ Exit(s, ddb_splithubs(s, n))
        /\ CloseFaucet(s, others)
        /\ Handle(s, n, [fwd EXCEPT ![n] = <<J(0)>>], ddb_splithubs(s, n))
     \/ /\ n \in Hubs /\ s \notin mask
        /\ CloseFaucet(s, others)
        /\ Handle(s, n, [fwd EXCEPT ![n] = <<J(idTable[s])>>], {})
        /\ UNCHANGED <<tableVars, status>>
-----------------------------------------------------------------------------
(* ddb_new_register for a register of the network: file, hash, id, memory. *)
ddb_new_register(s, r) ==
  /\ disk' = [disk EXCEPT ![s] = Append(@, r)]
  /\ hashTable' = [hashTable EXCEPT ![s] = Append(@, r)]
  /\ diskHash' = [diskHash EXCEPT ![s] = Append(hashTable[s], r)]
  /\ idTable' = [idTable EXCEPT ![s] = r.id]
  /\ mem' = [mem EXCEPT ![s] =
               IF s \in r.mask THEN [@ EXCEPT ![r.key] = IF r.del THEN 0 ELSE r.id] ELSE @]

(* ddb_compact: the id advances and the hash is rewritten; the native      *)
(* store's ddb_db_compact does nothing, so the file keeps its lines.       *)
ddb_compact(s, r) ==
  /\ idTable' = [idTable EXCEPT ![s] = r.id]
  /\ diskHash' = [diskHash EXCEPT ![s] = hashTable[s]]
  /\ UNCHANGED <<disk, hashTable, mem>>

Store(s, r) == IF r.key = "*" THEN ddb_compact(s, r) ELSE ddb_new_register(s, r)

(* Where s relays a register it got from n (n = "services" at the root).   *)
Relay(s, n, r) ==
  [p \in Servers |-> IF p \in (Down(s) \cap open[s]) \ {n} THEN <<Reg(r)>> ELSE <<>>]

AcceptsAgain(s, n, r) == n \in Hubs /\ r.id >= idTable[s]

(* Only hubs are listened to, and only ids above our own. *)
Accepts(s, n, r) == n \in Hubs /\ r.id > idTable[s]

ms_db_register(s, n, r) ==
  \/ /\ Accepts(s, n, r)
     /\ Store(s, r)
     /\ Handle(s, n, Relay(s, n, r), {})
     /\ KeepLinks
  \/ /\ ~Accepts(s, n, r)
     /\ Handle(s, n, Silent, {})
     /\ KeepLinks
     /\ UNCHANGED tableVars

(* The services are a peer of their hub: they repeat the register the hub  *)
(* asks for with its J, or send a new one to a hub that has them all.      *)
FromServices ==
  {r \in Register : r.id = idTable[ServicesHub] + 1 /\ (r.id <= Len(issued) => r = issued[r.id])}
Services(r) ==
  /\ r \in FromServices
  /\ issued' = IF r.id <= Len(issued) THEN issued ELSE Append(issued, r)
  /\ Store(ServicesHub, r)
  /\ chan' = [chan EXCEPT ![ServicesHub] =
       [p \in Servers |-> IF status[p][ServicesHub] # "none"
                            THEN @[p] \o Relay(ServicesHub, "services", r)[p] ELSE @[p]]]
  /\ KeepLinks
  /\ UNCHANGED boundVars
-----------------------------------------------------------------------------
(* What a crash can leave on the disk of s: the files as they are, a       *)
(* register in the table but not yet in "hashes", of a peer or of the      *)
(* services, or a truncated table whose hash was not yet rewritten.        *)
CrashImages(s) ==
  {<<disk[s], diskHash[s]>>}
    \cup {<<Append(disk[s], r), diskHash[s]>> :
            r \in {q \in FromServices : s = ServicesHub /\ q.key # "*"}}
    \cup {<<Append(disk[s], r), diskHash[s]>> :
            r \in {q \in Register : \E n \in Servers :
                     /\ status[s][n] = "server" /\ chan[n][s] # <<>>
                     /\ Head(chan[n][s]) = Reg(q)
                     /\ q.key # "*" /\ Accepts(s, n, q)}}
    \cup {<<<<>>, diskHash[s]>> :
            x \in {n \in Hubs :
                     /\ status[s][n] = "server" /\ chan[n][s] # <<>>
                     /\ Head(chan[n][s]).t = "D" /\ s \in Head(chan[n][s]).mask}}

(* The key's value after replaying the file: its last register that        *)
(* concerns s.                                                             *)
Replay(d, s, k) ==
  LET at == {i \in 1..Len(d) : d[i].key = k /\ s \in d[i].mask}
      last == CHOOSE i \in at : \A j \in at : j <= i
  IN IF at = {} \/ d[last].del THEN 0 ELSE d[last].id

(* ddb_table_init at start-up: the file is replayed and its digest is      *)
(* compared with the one in "hashes"; a table that differs is dropped.     *)
ddb_table_init(s, d, h) ==
  LET good == IF HashOf(d) = h THEN d ELSE <<>>
  IN /\ disk' = [disk EXCEPT ![s] = good]
     /\ hashTable' = [hashTable EXCEPT ![s] = HashOf(good)]
     /\ diskHash' = [diskHash EXCEPT ![s] = HashOf(good)]
     /\ idTable' = [idTable EXCEPT ![s] = IF good = <<>> THEN 0 ELSE good[Len(good)].id]
     /\ mem' = [mem EXCEPT ![s] = [k \in Keys |-> Replay(good, s, k)]]

(* Server s dies and is started again.  Its peers read all or none of what *)
(* it had written, then the end of the connection.                         *)
Crash(s) ==
  /\ faults < MaxFaults
  /\ faults' = faults + 1
  /\ \E img \in CrashImages(s) : ddb_table_init(s, img[1], img[2])
  /\ \E lost \in {FALSE, TRUE} :
       chan' = [a \in Servers |-> [b \in Servers |->
         IF b = s THEN <<>>
         ELSE IF a = s /\ status[s][b] # "none" /\ status[b][s] # "none"
                THEN (IF lost THEN <<>> ELSE chan[s][b]) \o <<M("CLOSE")>>
         ELSE chan[a][b]]]
  /\ status' = [status EXCEPT ![s] = [p \in Servers |-> "none"]]
  /\ open' = [open EXCEPT ![s] = {}]
  /\ torn' = torn \cup {{s, p} : p \in {q \in Servers : status[s][q] # "none"}}
  /\ UNCHANGED <<issued, connects>>

(* The connection of s and p is lost, and s notices first: what p had      *)
(* written is gone, and p reads all or none of what s had written, then    *)
(* the end of the connection.                                              *)
Break(s, p) ==
  /\ status[s][p] # "none"
  /\ faults < MaxFaults
  /\ faults' = faults + 1
  /\ Exit(s, {p})
  /\ open' = [open EXCEPT ![s] = @ \ {p}]
  /\ \E lost \in {FALSE, TRUE} :
       chan' = [a \in Servers |-> [b \in Servers |->
         IF a = p /\ b = s THEN <<>>
         ELSE IF a = s /\ b = p /\ status[p][s] # "none"
                THEN (IF lost THEN <<>> ELSE chan[s][p]) \o <<M("CLOSE")>>
         ELSE chan[a][b]]]
  /\ torn' = torn \cup {{s, p}}
  /\ UNCHANGED <<issued, tableVars, connects>>
-----------------------------------------------------------------------------
Init ==
  /\ issued = <<>>
  /\ disk = [s \in Servers |-> <<>>]
  /\ diskHash = [s \in Servers |-> HashOf(<<>>)]
  /\ hashTable = [s \in Servers |-> HashOf(<<>>)]
  /\ idTable = [s \in Servers |-> 0]
  /\ mem = [s \in Servers |-> NoMem]
  /\ status = [s \in Servers |-> [p \in Servers |-> "none"]]
  /\ open = [s \in Servers |-> {}]
  /\ chan = [s \in Servers |-> [p \in Servers |-> <<>>]]
  /\ torn = {} /\ connects = 0 /\ faults = 0

(* Server s handles the next message of n. *)
Receive(s, n) ==
  /\ status[s][n] # "none"
  /\ chan[n][s] # <<>>
  /\ LET m == Head(chan[n][s]) IN
       \/ m.t = "SERVER" /\ server_estab(s, n)
       \/ m.t = "CLOSE" /\ peer_closed(s, n)
       \/ m.t = "J" /\ ms_db_J(s, n, m.id)
       \/ m.t = "B" /\ ms_db_B(s, n)
       \/ m.t = "D" /\ ms_db_D(s, n, m.mask)
       \/ m.t = "REG" /\ ms_db_register(s, n, m.reg)

Next ==
  \/ \E a, b \in Servers : completed_connection(a, b)
  \/ \E s, n \in Servers : Receive(s, n)
  \/ \E r \in Register : Services(r)
  \/ \E s \in Servers : Crash(s)
  \/ \E s, p \in Servers : Break(s, p)

Spec == Init /\ [][Next]_vars

(* A server that has a message to read reads it: the event loop serves     *)
(* every readable socket.                                                  *)
FairSpec == Spec /\ \A s, n \in Servers : WF_vars(Receive(s, n))
-----------------------------------------------------------------------------
(* Properties.                                                             *)

(* Every variable has its type. *)
TypeOK ==
  /\ issued \in Seq(Register)
  /\ disk \in [Servers -> Seq(Register)]
  /\ diskHash \in [Servers -> Seq(Register)]
  /\ hashTable \in [Servers -> Seq(Register)]
  /\ idTable \in [Servers -> 0..MaxId]
  /\ mem \in [Servers -> [Keys -> 0..MaxId]]
  /\ status \in [Servers -> [Servers -> {"none", "unknown", "handshake", "server"}]]
  /\ open \in [Servers -> SUBSET Servers]
  /\ chan \in [Servers -> [Servers -> Seq(Msg)]]
  /\ torn \subseteq SUBSET Servers
  /\ connects \in 0..MaxConnects
  /\ faults \in 0..MaxFaults

(* The file of a table is sorted by strictly increasing ids, none above    *)
(* ddb_id_table: the binary search of ddb_seek depends on it whatever      *)
(* order registers, drops and restarts come in.                            *)
SortedDisk ==
  \A s \in Servers :
    /\ \A i, j \in 1..Len(disk[s]) : i < j => disk[s][i].id < disk[s][j].id
    /\ \A i \in 1..Len(disk[s]) : disk[s][i].id <= idTable[s]

(* The table in memory is the one a restart would load from the file: the  *)
(* incremental updates of ddb_add_key and ddb_del_key, the masks and the   *)
(* drops leave no key behind and lose none.                                *)
MemoryIsReplay ==
  \A s \in Servers, k \in Keys : mem[s][k] = Replay(disk[s], s, k)

(* The digest in "hashes" is always the digest of the file, so that a      *)
(* restart drops a table only after a crash between the two writes.        *)
HashesMatchFile ==
  \A s \in Servers : diskHash[s] = HashOf(disk[s]) /\ hashTable[s] = diskHash[s]

NotPack(r) == r.key # "*"
(* The registers up to the id a server claims, all of them and in order.   *)
Faithful(s) == disk[s] = SelectSeq(SubSeq(issued, 1, idTable[s]), NotPack)

Quiet == \A s, n \in Servers : chan[s][n] = <<>>

(* When no message is in flight, every neighbour of a hub has all that the *)
(* hub has, and its faucet is open for what comes next.                    *)
QuietMeansSynced ==
  Quiet => \A x \in Hubs, s \in Servers :
             status[x][s] = "server" => s \in open[x] /\ idTable[s] >= idTable[x]

(* The links that never lost a connection lead from the services to s. *)
Untorn(s) ==
  \A W \in SUBSET Servers : ServicesHub \in W /\ s \notin W =>
    \E x \in W, y \in Servers \ W : {x, y} \in Topology \ torn

(* ... and none is left with a hole: a register taken too early, when      *)
(* joins and drops cross, is dropped again before the links fall quiet     *)
(* (m_db.c, ms_db of an id above the next).  This is said of servers whose *)
(* links to the services were closed by ddb_splithubs at most, for the     *)
(* loss of a connection, by a crash or not, may leave a hole for good      *)
(* (NoHoleStays).                                                          *)
QuietMeansWhole == Quiet => \A s \in Servers : Untorn(s) => Faithful(s)

(* The same of every server.  Does not hold: a server that was told to     *)
(* drop its table and took a register before its J 0 was answered asks     *)
(* after the loss of the link for what follows that register (m_db.c:376). *)
NoHoleStays == Quiet => \A s \in Servers : Faithful(s)

(* ddb_db_native.c:134, "1 No data pending": a join after which nothing is *)
(* left to send opens the faucet, so on quiet links every faucet of a hub  *)
(* is open.                                                                *)
FaucetOpens ==
  Quiet => \A x \in Hubs, s \in Servers : status[x][s] = "server" => s \in open[x]

(* The exchange of joins, bursts and drops that a link or a crash starts   *)
(* comes to an end: the links fall quiet again and again.                  *)
Drains == []<>Quiet

(* m_db.c:238: a J with an old id behind an open faucet "happens if the    *)
(* copy of cptr of the DDB is corrupt".                                    *)
OldJoinMeansCorrupt ==
  \A s, n \in Servers :
    /\ status[s][n] = "server" /\ n \in open[s]
    /\ chan[n][s] # <<>> /\ Head(chan[n][s]).t = "J"
    /\ Head(chan[n][s]).id < idTable[s]
    => ~Faithful(n)
=============================================================================
