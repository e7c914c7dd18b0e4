----------------------------- MODULE NickProofs -----------------------------
(***************************************************************************)
(* NickIsUnique and NoOrphan for every tree of servers and every bound.    *)
(* Both speak of one server at a time, and every action replaces the table *)
(* of one server only, so no invariant about the messages is needed: what  *)
(* arrives may be anything, the guards of the handlers suffice.            *)
(***************************************************************************)
EXTENDS Nick, TLAPS

(* Every server has a table, and knows itself. *)
Tables == tab = [s \in Servers |-> [num \in DOMAIN tab[s] |-> tab[s][num]]]
SelfKnown == known = [s \in Servers |-> known[s]] /\ \A s \in Servers : s \in known[s]
Dormants == dormant = [s \in Servers |-> dormant[s]]

NickInv == Tables /\ Dormants /\ NickIsUnique

(* Replacing the table of one server. *)
LEMMA SetTabFacts ==
  ASSUME Tables, NEW s \in Servers, NEW f, f = [x \in DOMAIN f |-> f[x]], SetTab(s, f)
  PROVE  /\ Tables'
         /\ tab'[s] = f
         /\ \A r \in Servers \ {s} : tab'[r] = tab[r]
BY ZenonT(60) DEF Tables, SetTab

(* No server gains a dormant nick. *)
NoNewDormant == Dormants' /\ \A r \in Servers : dormant'[r] \subseteq dormant[r]

(* What the three ways to change the dormant nicks of s do to them.        *)
LEMMA DormantFacts ==
  ASSUME Dormants, NEW s \in Servers, NEW nick
  PROVE  /\ dormant' = dormant => NoNewDormant
         /\ dormant' = [dormant EXCEPT ![s] = @ \ {nick}]
              => NoNewDormant /\ nick \notin dormant'[s]
         /\ dormant' = [dormant EXCEPT ![s] = @ \cup {nick}]
              => /\ Dormants'
                 /\ dormant'[s] = dormant[s] \cup {nick}
                 /\ \A r \in Servers \ {s} : dormant'[r] = dormant[r]
BY DEF Dormants, NoNewDormant

(* Nothing happens to the tables. *)
LEMMA KeepStep ==
  ASSUME NickInv, tab' = tab, NoNewDormant
  PROVE  NickInv'
BY DEF NickInv, Tables, NickIsUnique, NoNewDormant

(* Users of s are removed. *)
LEMMA RemoveStep ==
  ASSUME NickInv, NEW s \in Servers, NEW S, SetTab(s, Without(tab[s], S)), NoNewDormant
  PROVE  NickInv'
<1>1. tab[s] = [x \in DOMAIN tab[s] |-> tab[s][x]]
  BY DEF NickInv, Tables
<1>2. /\ Without(tab[s], S) = [y \in DOMAIN Without(tab[s], S) |-> Without(tab[s], S)[y]]
      /\ DOMAIN Without(tab[s], S) = DOMAIN tab[s] \ S
      /\ \A y \in DOMAIN tab[s] \ S : Without(tab[s], S)[y] = tab[s][y]
  BY DEF Without
<1>3. /\ Tables' /\ tab'[s] = Without(tab[s], S)
      /\ \A r \in Servers \ {s} : tab'[r] = tab[r]
  BY <1>2, SetTabFacts DEF NickInv
<1> QED
  BY <1>2, <1>3 DEF NickInv, NickIsUnique, NoNewDormant

(* User num of s takes a nick that no other user has and no connection     *)
(* waits with; the others keep theirs or are gone.                         *)
LEMMA TakeStep ==
  ASSUME NickInv, NEW s \in Servers, NEW f, f = [x \in DOMAIN f |-> f[x]], SetTab(s, f),
         NEW num \in DOMAIN f,
         \A y \in DOMAIN f \ {num} : /\ y \in DOMAIN tab[s]
                                     /\ f[y].nick = tab[s][y].nick
                                     /\ f[y].nick # f[num].nick,
         f[num].nick \notin dormant'[s], NoNewDormant
  PROVE  NickInv'
<1>1. /\ Tables' /\ tab'[s] = f
      /\ \A r \in Servers \ {s} : tab'[r] = tab[r]
  BY SetTabFacts DEF NickInv
<1> QED
  BY <1>1 DEF NickInv, NickIsUnique, NoNewDormant

(* A connection of s starts to wait with a nick that no user of s has any  *)
(* more.                                                                   *)
LEMMA WaitStep ==
  ASSUME NickInv, NEW s \in Servers, NEW nick, NEW S, Holders(s, nick) \subseteq S,
         \/ SetTab(s, Without(tab[s], S)) 
         \/ tab' = tab /\ S = {},
         dormant' = [dormant EXCEPT ![s] = @ \cup {nick}]
  PROVE  NickInv'
<1>1. tab[s] = [x \in DOMAIN tab[s] |-> tab[s][x]]
  BY DEF NickInv, Tables
<1>2. /\ Without(tab[s], S) = [y \in DOMAIN Without(tab[s], S) |-> Without(tab[s], S)[y]]
      /\ DOMAIN Without(tab[s], S) = DOMAIN tab[s] \ S
      /\ \A y \in DOMAIN tab[s] \ S : Without(tab[s], S)[y] = tab[s][y]
  BY DEF Without
<1>3. /\ Tables' /\ DOMAIN tab'[s] = DOMAIN tab[s] \ S
      /\ \A y \in DOMAIN tab'[s] : tab'[s][y] = tab[s][y]
      /\ \A r \in Servers \ {s} : tab'[r] = tab[r]
  <2>1. CASE SetTab(s, Without(tab[s], S))
    BY <1>2, <2>1, SetTabFacts DEF NickInv
  <2>2. CASE tab' = tab /\ S = {}
    BY <2>2 DEF NickInv, Tables
  <2> QED
    BY <2>1, <2>2
<1>4. /\ Dormants' /\ dormant'[s] = dormant[s] \cup {nick}
      /\ \A r \in Servers \ {s} : dormant'[r] = dormant[r]
  BY DormantFacts DEF NickInv
<1> QED
  BY <1>3, <1>4 DEF NickInv, NickIsUnique, Holders

(* A new user of s, on a table from which others may have been removed. *)
LEMMA WithStep ==
  ASSUME NickInv, NEW s \in Servers, NEW S, NEW num, NEW u,
         SetTab(s, With(Without(tab[s], S), num, u)),
         Holders(s, u.nick) \subseteq S \cup {num},
         u.nick \notin dormant'[s], NoNewDormant
  PROVE  NickInv'
<1> DEFINE f == With(Without(tab[s], S), num, u)
<1>1. /\ f = [x \in DOMAIN f |-> f[x]]
      /\ DOMAIN f = (DOMAIN tab[s] \ S) \cup {num}
      /\ f[num] = u
      /\ \A y \in DOMAIN f \ {num} : y \in DOMAIN tab[s] /\ y \notin S /\ f[y] = tab[s][y]
  BY DEF With, Without
<1>2. \A y \in DOMAIN f \ {num} : f[y].nick # f[num].nick
  BY <1>1 DEF Holders
<1>3. SetTab(s, f)
  OBVIOUS
<1> HIDE DEF f
<1> QED
  BY <1>1, <1>2, <1>3, TakeStep

(* User num of s changes its nick; others may be removed. *)
LEMMA RenameStep ==
  ASSUME NickInv, NEW s \in Servers, NEW S, NEW num \in DOMAIN tab[s], NEW u,
         SetTab(s, Without([tab[s] EXCEPT ![num] = u], S)),
         num \in S \/ Holders(s, u.nick) \subseteq S \cup {num},
         num \in S \/ u.nick \notin dormant'[s], NoNewDormant
  PROVE  NickInv'
<1> DEFINE f == Without([tab[s] EXCEPT ![num] = u], S)
<1>0. tab[s] = [x \in DOMAIN tab[s] |-> tab[s][x]]
  BY DEF NickInv, Tables
<1>1. /\ f = [x \in DOMAIN f |-> f[x]]
      /\ DOMAIN f = DOMAIN tab[s] \ S
      /\ num \notin S => f[num] = u
      /\ \A y \in DOMAIN f \ {num} : y \in DOMAIN tab[s] /\ y \notin S /\ f[y] = tab[s][y]
  BY <1>0 DEF Without
<1>2. CASE num \in S
  <2>1. f = Without(tab[s], S)
    BY <1>0, <1>2 DEF Without
  <2> QED
    BY <2>1, RemoveStep
<1>3. CASE num \notin S
  <2>1. \A y \in DOMAIN f \ {num} : f[y].nick # f[num].nick
    BY <1>1, <1>3 DEF Holders
  <2>2. SetTab(s, f)
    OBVIOUS
  <2> HIDE DEF f
  <2> QED
    BY <1>1, <1>3, <2>1, <2>2, TakeStep
<1> QED
  BY <1>2, <1>3

(* The steps of local connections. *)
LEMMA LocalStep ==
  ASSUME NickInv, NEW s \in Servers, Local(s)
  PROVE  NickInv'
<1>0. Dormants /\ (dormant' = dormant => NoNewDormant)
  BY DormantFacts DEF NickInv
<1>f. tab[s] = [x \in DOMAIN tab[s] |-> tab[s][x]]
  BY DEF NickInv, Tables
<1>1. ASSUME NEW nick \in Nicks, m_nick_first(s, nick)
      PROVE  NickInv'
  BY <1>1, WaitStep DEF m_nick_first
<1>2. ASSUME NEW slot \in Slots, NEW u \in User, register_user(s, slot, u)
      PROVE  NickInv'
  <2>1. NoNewDormant /\ u.nick \notin dormant'[s]
    BY <1>0, <1>2, DormantFacts DEF register_user
  <2>2. Holders(s, u.nick) = {}
    BY <1>2 DEF register_user, Holders, NickInv, NickIsUnique
  <2>3. With(tab[s], <<s, slot>>, u) = With(Without(tab[s], {}), <<s, slot>>, u)
    BY <1>f DEF Without
  <2> QED
    BY <1>2, <2>1, <2>2, <2>3, WithStep DEF register_user
<1>3. ASSUME NEW num \in Numeric, NEW nick \in Nicks, NEW ts \in 1..MaxTs, m_nick(s, num, nick, ts)
      PROVE  NickInv'
  <2>1. NoNewDormant /\ nick \notin dormant'[s]
    BY <1>0, <1>3, DormantFacts DEF m_nick
  <2>2. Without([tab[s] EXCEPT ![num] = NewName(s, num, nick, ts)], {})
          = [tab[s] EXCEPT ![num] = NewName(s, num, nick, ts)]
    BY <1>f DEF Without
  <2>3. NewName(s, num, nick, ts).nick = nick
    BY DEF NewName
  <2>4. /\ num \in DOMAIN tab[s]
        /\ SetTab(s, [tab[s] EXCEPT ![num] = NewName(s, num, nick, ts)])
        /\ Holders(s, nick) = {}
    BY <1>3 DEF m_nick
  <2> QED
    BY <2>1, <2>2, <2>3, <2>4, RenameStep
<1>4. ASSUME NEW num \in Numeric, m_quit(s, num)
      PROVE  NickInv'
  BY <1>0, <1>4, RemoveStep DEF m_quit
<1>5. ASSUME NEW nick \in Nicks, exit_unregistered(s, nick)
      PROVE  NickInv'
  BY <1>0, <1>5, DormantFacts, KeepStep DEF exit_unregistered
<1>6. ASSUME NEW num \in Numeric, NEW victim \in Numeric, mo_kill(s, num, victim)
      PROVE  NickInv'
  BY <1>0, <1>6, RemoveStep DEF mo_kill
<1>7. ASSUME NEW num \in Numeric, NEW victim \in Numeric, m_ghost(s, num, victim)
      PROVE  NickInv'
  BY <1>0, <1>7, RemoveStep DEF m_ghost
<1>8. ASSUME NEW nick \in Nicks, m_nick_first_ghost(s, nick)
      PROVE  NickInv'
  <2>1. PICK victim \in Holders(s, nick) : SetTab(s, Without(tab[s], {victim}))
    BY <1>8 DEF m_nick_first_ghost
  <2>2. Holders(s, nick) \subseteq {victim}
    BY <2>1 DEF Holders, NickInv, NickIsUnique
  <2> QED
    BY <1>8, <2>1, <2>2, WaitStep DEF m_nick_first_ghost
<1>9. ASSUME NEW num \in Numeric, NEW nick \in Nicks, NEW ts \in 1..MaxTs, m_nick_ghost(s, num, nick, ts)
      PROVE  NickInv'
  <2>1. PICK victim \in Holders(s, nick) \ {num} :
          SetTab(s, Without([tab[s] EXCEPT ![num] = NewName(s, num, nick, ts)], {victim}))
    BY <1>9 DEF m_nick_ghost
  <2>2. Holders(s, nick) \subseteq {victim} /\ nick \notin dormant[s]
    BY <2>1 DEF Holders, NickInv, NickIsUnique
  <2>3. NewName(s, num, nick, ts).nick = nick
    BY DEF NewName
  <2>4. num \in DOMAIN tab[s] /\ dormant' = dormant
    BY <1>9 DEF m_nick_ghost
  <2> QED
    BY <1>0, <2>1, <2>2, <2>3, <2>4, RenameStep
<1> QED
  BY <1>1, <1>2, <1>3, <1>4, <1>5, <1>6, <1>7, <1>8, <1>9 DEF Local

(* One user of s is removed, then another. *)
LEMMA RemoveTwoStep ==
  ASSUME NEW s \in Servers, NEW x, NEW y, SetTab(s, Without(Without(tab[s], {x}), {y}))
  PROVE  SetTab(s, Without(tab[s], {x, y}))
<1> DEFINE g == Without(tab[s], {x})
<1>1. DOMAIN g = DOMAIN tab[s] \ {x} /\ \A z \in DOMAIN tab[s] \ {x} : g[z] = tab[s][z]
  BY DEF Without
<1>2. DOMAIN g \ {y} = DOMAIN tab[s] \ {x, y}
  BY <1>1
<1>3. Without(g, {y}) = Without(tab[s], {x, y})
  <2> HIDE DEF g
  <2> QED
    BY <1>1, <1>2 DEF Without
<1> QED
  BY <1>3 DEF SetTab

(* A user introduced by a link. *)
LEMMA NewUserStep ==
  ASSUME NickInv, NEW s \in Servers, NEW n, NEW num, NEW u, ms_nick_new(s, n, num, u)
  PROVE  NickInv'
<1>0. Dormants /\ (dormant' = dormant => NoNewDormant)
  BY DormantFacts DEF NickInv
<1>f. tab[s] = [x \in DOMAIN tab[s] |-> tab[s][x]]
  BY DEF NickInv, Tables
<1>1. CASE Ignore(s, n)
  BY <1>0, <1>1, KeepStep DEF Ignore
<1>2. ASSUME dormant' = [dormant EXCEPT ![s] = @ \ {u.nick}],
             Holders(s, u.nick) = {},
             Admit(s, n, num, u, tab[s], Silent)
      PROVE  NickInv'
  <2>1. NoNewDormant /\ u.nick \notin dormant'[s]
    BY <1>0, <1>2, DormantFacts
  <2>2. With(tab[s], num, u) = With(Without(tab[s], {}), num, u)
    BY <1>f DEF Without
  <2>3. CASE Introduce(s, n, num, u, tab[s], Silent)
    BY <1>2, <2>1, <2>2, <2>3, WithStep DEF Introduce
  <2>4. CASE Refuse(s, n, num, tab[s], Silent)
    BY <2>1, <2>4, RemoveStep DEF Refuse
  <2> QED
    BY <1>2, <2>3, <2>4 DEF Admit
<1>3. ASSUME dormant' = [dormant EXCEPT ![s] = @ \ {u.nick}],
             NEW h \in Holders(s, u.nick), NEW out, 
             \/ \E S : SetTab(s, Without(tab[s], S))
             \/ Admit(s, n, num, u, Without(tab[s], {h}), out)
      PROVE  NickInv'
  <2>1. NoNewDormant /\ u.nick \notin dormant'[s]
    BY <1>0, <1>3, DormantFacts
  <2>2. Holders(s, u.nick) \subseteq {h}
    BY <1>3 DEF Holders, NickInv, NickIsUnique
  <2>3. CASE \E S : SetTab(s, Without(tab[s], S))
    BY <2>1, <2>3, RemoveStep
  <2>4. CASE Introduce(s, n, num, u, Without(tab[s], {h}), out)
    BY <2>1, <2>2, <2>4, WithStep DEF Introduce
  <2>5. CASE Refuse(s, n, num, Without(tab[s], {h}), out)
    <3>1. SetTab(s, Without(tab[s], {h, num}))
      BY <2>5, RemoveTwoStep DEF Refuse
    <3> QED
      BY <2>1, <3>1, RemoveStep
  <2> QED
    BY <1>3, <2>3, <2>4, <2>5 DEF Admit
<1>4. ASSUME dormant' = [dormant EXCEPT ![s] = @ \ {u.nick}], NEW h \in Holders(s, u.nick),
             LET old    == tab[s][h]
                 differ == old.host # u.host
                 back   == IF KillsNew(old, u.ts, differ) THEN KillBack(s, n, num) ELSE Silent
                 all    == IF KillsOld(old, u.ts, differ)
                             THEN ToAllBut(s, {}, <<Kill(s, h)>>) ELSE Silent
                 rest   == IF KillsOld(old, u.ts, differ) THEN Without(tab[s], {h}) ELSE tab[s]
             IN IF KillsNew(old, u.ts, differ)
                  THEN SetTab(s, rest) /\ Handle(s, n, Then(back, all)) /\ UNCHANGED ops
                  ELSE Admit(s, n, num, u, rest, all)
      PROVE  NickInv'
  <2> DEFINE differ == tab[s][h].host # u.host
             all == IF KillsOld(tab[s][h], u.ts, differ)
                      THEN ToAllBut(s, {}, <<Kill(s, h)>>) ELSE Silent
  <2>1. tab[s] = Without(tab[s], {})
    BY <1>f DEF Without
  <2>2. CASE KillsNew(tab[s][h], u.ts, differ)
    <3>1. SetTab(s, Without(tab[s], {h})) \/ SetTab(s, Without(tab[s], {}))
      BY <1>4, <2>1, <2>2
    <3> QED
      BY <1>3, <1>4, <3>1
  <2>3. CASE ~KillsNew(tab[s][h], u.ts, differ)
    <3>1. KillsOld(tab[s][h], u.ts, differ)
      BY <2>3 DEF KillsOld
    <3>2. Admit(s, n, num, u, Without(tab[s], {h}), all)
      BY <1>4, <2>3, <3>1
    <3> QED
      BY <1>3, <1>4, <3>2
  <2> QED
    BY <2>2, <2>3
<1> QED
  BY <1>1, <1>2, <1>4 DEF ms_nick_new

(* A change of nick from a link. *)
LEMMA ChangeStep ==
  ASSUME NickInv, NEW s \in Servers, NEW n, NEW num, NEW nick, NEW ts,
         ms_nick_change(s, n, num, nick, ts)
  PROVE  NickInv'
<1>0. Dormants /\ (dormant' = dormant => NoNewDormant)
  BY DormantFacts DEF NickInv
<1>f. tab[s] = [x \in DOMAIN tab[s] |-> tab[s][x]]
  BY DEF NickInv, Tables
<1>1. CASE tab' = tab /\ dormant' = dormant
  BY <1>0, <1>1, KeepStep
<1> DEFINE changed == Rename(tab[s], num, nick, ts)
           u == [nick |-> nick, ts |-> ts, host |-> tab[s][num].host]
<1>2. ASSUME dormant' = [dormant EXCEPT ![s] = @ \ {nick}], num \in DOMAIN tab[s],
             NEW S, SetTab(s, Without(changed, S)),
             num \in S \/ Holders(s, nick) \subseteq S
      PROVE  NickInv'
  <2>1. NoNewDormant /\ nick \notin dormant'[s]
    BY <1>0, <1>2, DormantFacts
  <2>2. changed = [tab[s] EXCEPT ![num] = u] /\ u.nick = nick
    BY DEF Rename
  <2> HIDE DEF u
  <2> QED
    BY <1>2, <2>1, <2>2, RenameStep
<1>3. ASSUME dormant' = [dormant EXCEPT ![s] = @ \ {nick}], num \in DOMAIN tab[s],
             Holders(s, nick) = {}, SetTab(s, changed)
      PROVE  NickInv'
  <2>1. changed = Without(changed, {})
    BY <1>f DEF Rename, Without
  <2> HIDE DEF changed
  <2> QED
    BY <1>2, <1>3, <2>1
<1>4. ASSUME dormant' = [dormant EXCEPT ![s] = @ \ {nick}], num \in DOMAIN tab[s],
             NEW h \in Holders(s, nick),
             LET old    == tab[s][h]
                 differ == old.host # tab[s][num].host
                 new    == KillsNew(old, ts, differ)
                 killed == (IF new THEN {num} ELSE {})
                             \cup (IF KillsOld(old, ts, differ) THEN {h} ELSE {})
             IN SetTab(s, Without(changed, killed))
      PROVE  NickInv'
  <2> DEFINE old    == tab[s][h]
             differ == old.host # tab[s][num].host
             killed == (IF KillsNew(old, ts, differ) THEN {num} ELSE {})
                         \cup (IF KillsOld(old, ts, differ) THEN {h} ELSE {})
  <2>1. num \in killed \/ h \in killed
    BY DEF KillsOld
  <2>2. Holders(s, nick) \subseteq {h}
    BY <1>4 DEF Holders, NickInv, NickIsUnique
  <2>3. SetTab(s, Without(changed, killed))
    BY <1>4
  <2> HIDE DEF changed, killed
  <2> QED
    BY <1>2, <1>4, <2>1, <2>2, <2>3
<1> HIDE DEF changed, u
<1> QED
  BY <1>1, <1>3, <1>4 DEF ms_nick_change, Ignore, changed

(* exit_client of a server removes users of s. *)
LEMMA ReceiveStep ==
  ASSUME NickInv, NEW s \in Servers, NEW n \in Servers, Receive(s, n)
  PROVE  NickInv'
<1>0. dormant' = dormant => NoNewDormant
  BY DormantFacts DEF NickInv
<1>1. ASSUME server_estab(s, n)
      PROVE  NickInv'
  BY <1>0, <1>1, KeepStep DEF server_estab
<1>2. ASSUME peer_closed(s, n)
      PROVE  NickInv'
  BY <1>0, <1>2, KeepStep, RemoveStep DEF peer_closed, ExitServer
<1>3. ASSUME NEW x, ms_server(s, n, x)
      PROVE  NickInv'
  BY <1>0, <1>3, KeepStep DEF ms_server
<1>4. ASSUME NEW x, ms_squit(s, n, x)
      PROVE  NickInv'
  BY <1>0, <1>4, KeepStep, RemoveStep DEF ms_squit, Ignore, ExitServer
<1>5. ASSUME NEW num, ms_quit(s, n, num)
      PROVE  NickInv'
  BY <1>0, <1>5, KeepStep, RemoveStep DEF ms_quit, Ignore
<1>6. ASSUME NEW from, NEW num, ms_kill(s, n, from, num)
      PROVE  NickInv'
  BY <1>0, <1>6, KeepStep, RemoveStep DEF ms_kill, Ignore
<1> QED
  BY <1>1, <1>2, <1>3, <1>4, <1>5, <1>6, NewUserStep, ChangeStep DEF Receive

(* A nick names one client of a server, registered or not, whatever        *)
(* sign-ons, changes, kills, collisions and splits cross on the network.   *)
THEOREM UniqueNick == Spec => []NickIsUnique
<1>1. Init => NickInv
  BY DEF Init, NickInv, Tables, Dormants, NickIsUnique
<1>2. NickInv /\ [Next]_vars => NickInv'
  <2> SUFFICES ASSUME NickInv, [Next]_vars PROVE NickInv'
    OBVIOUS
  <2>1. CASE UNCHANGED vars
    BY <2>1 DEF vars, NickInv, Tables, Dormants, NickIsUnique
  <2>2. ASSUME NEW s \in Servers, NEW n \in Servers, Connect(s, n)
        PROVE  NickInv'
    BY <2>2, DormantFacts, KeepStep DEF Connect, NickInv
  <2>3. ASSUME NEW s \in Servers, NEW n \in Servers, Break(s, n)
        PROVE  NickInv'
    BY <2>3, DormantFacts, RemoveStep DEF Break, ExitServer, NickInv
  <2> QED
    BY <2>1, <2>2, <2>3, LocalStep, ReceiveStep DEF Next
<1>3. NickInv => NickIsUnique
  BY DEF NickInv
<1> QED
  BY <1>1, <1>2, <1>3, PTL DEF Spec
-----------------------------------------------------------------------------
OrphanInv == Tables /\ SelfKnown /\ NoOrphan

(* The table of s is replaced by one whose users are of known servers. *)
LEMMA HomesStep ==
  ASSUME OrphanInv, NEW s \in Servers, NEW f, f = [x \in DOMAIN f |-> f[x]], SetTab(s, f),
         \A num \in DOMAIN f : Home(num) \in known[s], known' = known
  PROVE  OrphanInv'
<1>1. /\ Tables' /\ tab'[s] = f
      /\ \A r \in Servers \ {s} : tab'[r] = tab[r]
  BY SetTabFacts DEF OrphanInv
<1> QED
  BY <1>1 DEF OrphanInv, SelfKnown, NoOrphan

(* Users of s are removed, and perhaps others renamed. *)
LEMMA FewerStep ==
  ASSUME OrphanInv, NEW s \in Servers, NEW S, NEW num, NEW u, known' = known,
         \/ SetTab(s, Without(tab[s], S))
         \/ SetTab(s, [tab[s] EXCEPT ![num] = u])
         \/ SetTab(s, Without([tab[s] EXCEPT ![num] = u], S))
  PROVE  OrphanInv'
<1>1. tab[s] = [x \in DOMAIN tab[s] |-> tab[s][x]]
  BY DEF OrphanInv, Tables
<1>2. \A x \in DOMAIN tab[s] : Home(x) \in known[s]
  BY DEF OrphanInv, NoOrphan
<1>3. CASE SetTab(s, Without(tab[s], S))
  <2>1. Without(tab[s], S) = [x \in DOMAIN Without(tab[s], S) |-> Without(tab[s], S)[x]]
        /\ DOMAIN Without(tab[s], S) \subseteq DOMAIN tab[s]
    BY DEF Without
  <2> QED
    BY <1>2, <1>3, <2>1, HomesStep
<1>4. CASE SetTab(s, [tab[s] EXCEPT ![num] = u])
  <2> DEFINE g == [tab[s] EXCEPT ![num] = u]
  <2>1. g = [x \in DOMAIN g |-> g[x]] /\ DOMAIN g = DOMAIN tab[s]
    BY <1>1
  <2>2. SetTab(s, g)
    BY <1>4
  <2> HIDE DEF g
  <2> QED
    BY <1>2, <2>1, <2>2, HomesStep
<1>5. CASE SetTab(s, Without([tab[s] EXCEPT ![num] = u], S))
  <2> DEFINE g == Without([tab[s] EXCEPT ![num] = u], S)
  <2>1. g = [x \in DOMAIN g |-> g[x]] /\ DOMAIN g \subseteq DOMAIN tab[s]
    BY <1>1 DEF Without
  <2>2. SetTab(s, g)
    BY <1>5
  <2> HIDE DEF g
  <2> QED
    BY <1>2, <2>1, <2>2, HomesStep
<1> QED
  BY <1>3, <1>4, <1>5

(* A user of a known server is added. *)
LEMMA MoreStep ==
  ASSUME OrphanInv, NEW s \in Servers, NEW S, NEW num, NEW u, known' = known,
         Home(num) \in known[s],
         \/ SetTab(s, With(tab[s], num, u))
         \/ SetTab(s, With(Without(tab[s], S), num, u))
  PROVE  OrphanInv'
<1>1. \A x \in DOMAIN tab[s] : Home(x) \in known[s]
  BY DEF OrphanInv, NoOrphan
<1>2. CASE SetTab(s, With(tab[s], num, u))
  <2> DEFINE g == With(tab[s], num, u)
  <2>1. g = [x \in DOMAIN g |-> g[x]] /\ DOMAIN g = DOMAIN tab[s] \cup {num}
    BY DEF With
  <2>2. SetTab(s, g)
    BY <1>2
  <2> HIDE DEF g
  <2> QED
    BY <1>1, <2>1, <2>2, HomesStep
<1>3. CASE SetTab(s, With(Without(tab[s], S), num, u))
  <2> DEFINE g == With(Without(tab[s], S), num, u)
  <2>1. g = [x \in DOMAIN g |-> g[x]] /\ DOMAIN g \subseteq DOMAIN tab[s] \cup {num}
    BY DEF With, Without
  <2>2. SetTab(s, g)
    BY <1>3
  <2> HIDE DEF g
  <2> QED
    BY <1>1, <2>1, <2>2, HomesStep
<1> QED
  BY <1>2, <1>3

(* A server is learnt. *)
LEMMA LearnStep ==
  ASSUME OrphanInv, NEW s \in Servers, NEW x, tab' = tab,
         known' = known \/ known' = [known EXCEPT ![s] = @ \cup {x}]
  PROVE  OrphanInv'
BY DEF OrphanInv, Tables, SelfKnown, NoOrphan

(* exit_client of a server takes the users behind it along. *)
LEMMA ExitStep ==
  ASSUME OrphanInv, NEW s \in Servers, NEW x, ExitServer(s, x)
  PROVE  OrphanInv'
<1> DEFINE S == {num \in DOMAIN tab[s] : Home(num) \in Beyond(s, x)}
           f == Without(tab[s], S)
<1>1. f = [y \in DOMAIN f |-> f[y]] /\ DOMAIN f = DOMAIN tab[s] \ S
  BY DEF Without
<1>2. SetTab(s, f)
  BY DEF ExitServer
<1> HIDE DEF f
<1>3. /\ Tables' /\ tab'[s] = f
      /\ \A r \in Servers \ {s} : tab'[r] = tab[r]
  BY <1>1, <1>2, SetTabFacts DEF OrphanInv
<1>4. SelfKnown' /\ known'[s] = known[s] \ Beyond(s, x)
      /\ \A r \in Servers \ {s} : known'[r] = known[r]
  BY DEF ExitServer, OrphanInv, SelfKnown, Beyond
<1> QED
  BY <1>1, <1>3, <1>4 DEF OrphanInv, NoOrphan

(* Every local step keeps the homes of users known.                        *)
LEMMA LocalHomes ==
  ASSUME OrphanInv, NEW s \in Servers, Local(s)
  PROVE  OrphanInv'
<1>1. ASSUME NEW slot \in Slots, NEW u \in User, register_user(s, slot, u)
      PROVE  OrphanInv'
  <2>1. Home(<<s, slot>>) \in known[s]
    BY DEF Home, OrphanInv, SelfKnown
  <2> QED
    BY <1>1, <2>1, MoreStep DEF register_user
<1>2. ASSUME NEW num \in Numeric, NEW nick \in Nicks, NEW ts \in 1..MaxTs,
             m_nick(s, num, nick, ts) \/ m_nick_ghost(s, num, nick, ts)
      PROVE  OrphanInv'
  BY <1>2, FewerStep DEF m_nick, m_nick_ghost
<1>3. ASSUME NEW num \in Numeric, NEW victim \in Numeric,
             m_quit(s, num) \/ mo_kill(s, num, victim) \/ m_ghost(s, num, victim)
      PROVE  OrphanInv'
  BY <1>3, FewerStep DEF m_quit, mo_kill, m_ghost
<1>4. ASSUME NEW nick \in Nicks,
             \/ m_nick_first(s, nick) 
             \/ exit_unregistered(s, nick) 
             \/ m_nick_first_ghost(s, nick)
      PROVE  OrphanInv'
  BY <1>4, LearnStep, FewerStep DEF m_nick_first, exit_unregistered, m_nick_first_ghost
<1> QED
  BY <1>1, <1>2, <1>3, <1>4 DEF Local

(* Every handler of a message keeps the homes of users known.              *)
LEMMA ReceiveHomes ==
  ASSUME OrphanInv, NEW s \in Servers, NEW n \in Servers, Receive(s, n)
  PROVE  OrphanInv'
<1>1. ASSUME NEW x, server_estab(s, n) \/ ms_server(s, n, x)
      PROVE  OrphanInv'
  BY <1>1, LearnStep DEF server_estab, ms_server
<1>2. ASSUME NEW x, peer_closed(s, n) \/ ms_squit(s, n, x)
      PROVE  OrphanInv'
  BY <1>2, LearnStep, ExitStep DEF peer_closed, ms_squit, Ignore
<1>3. ASSUME NEW num, NEW u, ms_nick_new(s, n, num, u)
      PROVE  OrphanInv'
  <2>1. tab[s] = Without(tab[s], {})
    BY DEF OrphanInv, Tables, Without
  <2>2. \/ tab' = tab /\ known' = known
        \/ /\ Home(num) \in known[s] /\ known' = known
           /\ \/ \E S : \/ SetTab(s, Without(tab[s], S))
                       \/ SetTab(s, With(Without(tab[s], S), num, u))
              \/ \E h : SetTab(s, Without(Without(tab[s], {h}), {num}))
    BY <1>3, <2>1 DEF ms_nick_new, Ignore, Admit, Introduce, Refuse
  <2> QED
    BY <2>2, RemoveTwoStep, LearnStep, FewerStep, MoreStep
<1>4. ASSUME NEW num, NEW nick, NEW ts, ms_nick_change(s, n, num, nick, ts)
      PROVE  OrphanInv'
  BY <1>4, LearnStep, FewerStep DEF ms_nick_change, Ignore, Rename
<1>5. ASSUME NEW from, NEW num, ms_kill(s, n, from, num) \/ ms_quit(s, n, num)
      PROVE  OrphanInv'
  BY <1>5, LearnStep, FewerStep DEF ms_kill, ms_quit, Ignore
<1> QED
  BY <1>1, <1>2, <1>3, <1>4, <1>5 DEF Receive

(* No server keeps a user of a server that it has lost, at any depth of    *)
(* the tree.                                                               *)
THEOREM NoOrphans == Spec => []NoOrphan
<1>1. Init => OrphanInv
  BY DEF Init, OrphanInv, Tables, SelfKnown, NoOrphan
<1>2. OrphanInv /\ [Next]_vars => OrphanInv'
  <2> SUFFICES ASSUME OrphanInv, [Next]_vars PROVE OrphanInv'
    OBVIOUS
  <2>1. CASE UNCHANGED vars
    BY <2>1 DEF vars, OrphanInv, Tables, SelfKnown, NoOrphan
  <2>2. ASSUME NEW s \in Servers, NEW n \in Servers, Connect(s, n) \/ Break(s, n)
        PROVE  OrphanInv'
    BY <2>2, LearnStep, ExitStep DEF Connect, Break
  <2> QED
    BY <2>1, <2>2, LocalHomes, ReceiveHomes DEF Next
<1>3. OrphanInv => NoOrphan
  BY DEF OrphanInv
<1> QED
  BY <1>1, <1>2, <1>3, PTL DEF Spec
=============================================================================
