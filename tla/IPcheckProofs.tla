--------------------------- MODULE IPcheckProofs ----------------------------
(***************************************************************************)
(* The counters of IPcheck.c for every set of clients and addresses, every *)
(* width and every clock: ConnectedIsCount, StreakIsRemembered and         *)
(* NoFastClones.                                                           *)
(*                                                                         *)
(* StreakIsRemembered is not inductive: a disconnect or an expiry keeps    *)
(* the attempts only because last_connect is not older than the last       *)
(* connect that counts, and because the 16-bit clock never makes an        *)
(* interval look longer than it is.  Keeps adds the first, Since proves    *)
(* the second.                                                             *)
(***************************************************************************)
EXTENDS IPcheck, FiniteSetTheorems, TLAPS

(* Arithmetic of the widths. *)
LEMMA ModOf ==
  ASSUME NEW m \in Nat \ {0}, NEW x \in Int
  PROVE  x % m \in 0..m - 1 /\ x \div m \in Int /\ x = m * (x \div m) + (x % m)
OBVIOUS

(* A number below the modulus is its own remainder. *)
LEMMA ModSmall ==
  ASSUME NEW m \in Nat \ {0}, NEW x \in 0..m - 1
  PROVE  x % m = x
OBVIOUS

(* The remainders at the two ends, where a counter wraps. *)
LEMMA ModEdges ==
  ASSUME NEW m \in Nat \ {0}
  PROVE  m % m = 0 /\ (0 - 1) % m = m - 1
OBVIOUS

(* A product grows with its factor. *)
LEMMA TimesGrows ==
  ASSUME NEW m \in Nat, NEW p \in Int, NEW q \in Int, p <= q
  PROVE  m * p <= m * q
OBVIOUS

(* Reducing the ends of an interval does not make it longer. *)
LEMMA ModShrinks ==
  ASSUME NEW m \in Nat \ {0}, NEW x \in Nat, NEW y \in Nat, x <= y
  PROVE  (y % m) - (x % m) <= y - x
<1> DEFINE p == x \div m
           q == y \div m
<1>1. x = m * p + (x % m) /\ x % m \in 0..m - 1 /\ p \in Int
  BY ModOf
<1>2. y = m * q + (y % m) /\ y % m \in 0..m - 1 /\ q \in Int
  BY ModOf
<1> HIDE DEF p, q
<1>3. CASE p <= q
  <2>1. m * p <= m * q
    BY <1>1, <1>2, <1>3, TimesGrows
  <2> QED
    BY <1>1, <1>2, <2>1
<1>4. CASE q + 1 <= p
  <2>1. m * (q + 1) <= m * p
    BY <1>1, <1>2, <1>4, TimesGrows
  <2>2. m * (q + 1) = m * q + m
    BY <1>2
  <2> QED
    BY <1>1, <1>2, <2>1, <2>2
<1> QED
  BY <1>1, <1>2, <1>3, <1>4

(* if (0 == ++x) --x counts up to the width; if (0 == --x) ++x takes back  *)
(* at most one.                                                            *)
LEMMA RaiseLower ==
  ASSUME NEW m \in Nat \ {0, 1}, NEW x \in 0..m - 1
  PROVE  /\ Raise(x, m) \in 0..m - 1 /\ Raise(x, m) >= 1
         /\ Raise(x, m) = x + 1 \/ (Raise(x, m) = x /\ x = m - 1)
         /\ Lower(x, m) \in 0..m - 1 /\ Lower(x, m) >= x - 1
<1>1. x = m - 1 => (x + 1) % m = 0
  BY ModEdges
<1>2. x # m - 1 => (x + 1) % m = x + 1
  <2>1. x # m - 1 => x + 1 \in 0..m - 1
    OBVIOUS
  <2> QED
    BY <2>1, ModSmall
<1>3. x = 0 => (x - 1) % m = m - 1
  BY ModEdges
<1>4. x # 0 => (x - 1) % m = x - 1
  <2>1. x # 0 => x - 1 \in 0..m - 1
    OBVIOUS
  <2> QED
    BY <2>1, ModSmall
<1> QED
  BY <1>1, <1>2, <1>3, <1>4 DEF Raise, Lower
-----------------------------------------------------------------------------
(* The registry's clock: an interval never looks longer than it is. *)
LEMMA Since ==
  ASSUME IPcheckAssumption, now \in Nat, NEW x \in Nat, x <= now
  PROVE  CONNECTED_SINCE(x) \in Int /\ CONNECTED_SINCE(x) <= now - x
<1>1. Boot + x \in Nat /\ Boot + now \in Nat /\ ClockMod \in Nat \ {0} /\ Boot + x <= Boot + now
  BY DEF IPcheckAssumption
<1>2. ((Boot + now) % ClockMod) - ((Boot + x) % ClockMod) <= (Boot + now) - (Boot + x)
  BY <1>1, ModShrinks
<1>3. (Boot + now) % ClockMod \in Int /\ (Boot + x) % ClockMod \in Int
  BY <1>1, ModOf
<1> QED
  BY <1>1, <1>2, <1>3 DEF CONNECTED_SINCE, NOW, Stamp, IPcheckAssumption

(* The streak k is one that the registry has to remember at time t. *)
Due(t, k) == k.count > 0 /\ t - k.at <= CLONE_PERIOD /\ Remembered(k) > 0

(* The entry e remembers the streak k, and is as recent as k. *)
Keeps(t, e, k) ==
  /\ e.last <= t
  /\ k.count > 0 => k.at <= e.last
  /\ Due(t, k) => e.attempts >= Remembered(k)

(* The registry r remembers all the streaks ks. *)
Tracks(t, r, ks) ==
  \A a \in Addrs :
    /\ ks[a].at <= t
    /\ Has(r, a) => Keeps(t, r[a], ks[a])
    /\ ~Has(r, a) => ~Due(t, ks[a])

(* What is due is still counted: no period of quiet, as IPcheck.c measures *)
(* it, has passed.                                                         *)
LEMMA NotForgotten ==
  ASSUME IPcheckAssumption, now \in 0..MaxTime, NEW e \in Entry, NEW k \in Streak,
         Keeps(now, e, k), Due(now, k)
  PROVE  /\ Recent(e) = e.attempts
         /\ ~(CONNECTED_SINCE(e.last) > CLONE_LIMIT * CLONE_PERIOD)
         /\ ~Old(e)
<1>1. CONNECTED_SINCE(e.last) \in Int /\ CONNECTED_SINCE(e.last) <= now - e.last
  BY Since DEF Entry, Keeps, IPcheckAssumption
<1>2. now - e.last <= CLONE_PERIOD
  BY DEF Keeps, Due, Entry, Streak, IPcheckAssumption
<1>3. CONNECTED_SINCE(e.last) <= CLONE_PERIOD
  BY <1>1, <1>2 DEF Entry, IPcheckAssumption
<1>4. CLONE_PERIOD * 1 <= CLONE_PERIOD * CLONE_LIMIT
  BY TimesGrows DEF IPcheckAssumption
<1>5. CLONE_PERIOD * 1 = CLONE_PERIOD /\ CLONE_PERIOD * CLONE_LIMIT = CLONE_LIMIT * CLONE_PERIOD
      /\ CLONE_LIMIT * CLONE_PERIOD \in Int
  BY DEF IPcheckAssumption
<1> HIDE DEF CONNECTED_SINCE
<1> QED
  BY <1>1, <1>3, <1>4, <1>5 DEF Recent, Old, IPcheckAssumption

(* What is left of the attempts after a quiet period. *)
LEMMA RecentType ==
  ASSUME IPcheckAssumption, NEW e \in Entry
  PROVE  Recent(e) \in 0..AttemptsMod - 1
BY DEF Recent, Entry, IPcheckAssumption

(* How many are remembered once the streak goes on, and once one is undone. *)
LEMMA StreakedIs ==
  ASSUME IPcheckAssumption, now \in 0..MaxTime, NEW k \in Streak, k.at <= now
  PROVE  /\ Streaked(k) \in Streak /\ Streaked(k).at = now /\ Streaked(k).count > 0
         /\ \/ Remembered(Streaked(k)) <= 1
            \/ /\ Due(now, k)
               /\ Remembered(Streaked(k)) <= Remembered(k) + 1
               /\ Remembered(Streaked(k)) <= Width
<1>0. Width \in Nat /\ Width >= 1 /\ CLONE_PERIOD \in Nat
  BY DEF Width, IPcheckAssumption
<1>1. k.at \in 0..MaxTime /\ k.count \in Nat /\ k.undone \in Nat
  BY DEF Streak
<1> DEFINE on == k.count > 0 /\ now - k.at <= CLONE_PERIOD
           n == Streaked(k)
<1>2. CASE on
  <2>1. n = [at |-> now, count |-> k.count + 1, undone |-> k.undone]
    BY <1>2 DEF Streaked
  <2>2. n \in Streak /\ n.at = now /\ n.count = k.count + 1 /\ n.undone = k.undone
    BY <1>1, <2>1 DEF Streak
  <2> HIDE DEF n
  <2>3. /\ Remembered(n) \in Int /\ Remembered(k) \in Int
        /\ Remembered(n) <= Remembered(k) + 1 /\ Remembered(n) <= Width
    BY <1>0, <1>1, <2>2 DEF Remembered
  <2>4. Remembered(k) > 0 => Due(now, k)
    BY <1>2 DEF Due
  <2> HIDE DEF Remembered, Due
  <2> QED
    BY <1>1, <2>2, <2>3, <2>4 DEF n
<1>3. CASE ~on
  <2>1. n = [at |-> now, count |-> 1, undone |-> 0]
    BY <1>3 DEF Streaked
  <2>2. n \in Streak /\ n.at = now /\ n.count = 1 /\ n.undone = 0
    BY <2>1 DEF Streak
  <2> HIDE DEF n
  <2>3. Remembered(n) <= 1
    BY <1>0, <2>2 DEF Remembered
  <2> QED
    BY <2>2, <2>3 DEF n
<1> QED
  BY <1>2, <1>3

(* The counts are integers. *)
LEMMA RememberedType ==
  ASSUME IPcheckAssumption, NEW k \in Streak
  PROVE  Remembered(k) \in Int
BY DEF Remembered, Width, Streak, IPcheckAssumption

(* A connect: whatever of e changes besides, one attempt is added. *)
LEMMA AttemptKeeps ==
  ASSUME IPcheckAssumption, now \in 0..MaxTime, NEW e \in Entry, NEW k \in Streak, k.at <= now,
         Keeps(now, e, k), NEW f \in Entry, f.last = now,
         f.attempts = Raise(Recent(e), AttemptsMod)
  PROVE  Keeps(now, f, Streaked(k))
<1> DEFINE n == Streaked(k)
<1>1. /\ n \in Streak /\ n.at = now
      /\ \/ Remembered(n) <= 1
         \/ Due(now, k) /\ Remembered(n) <= Remembered(k) + 1 /\ Remembered(n) <= Width
  BY StreakedIs
<1>2. Recent(e) \in 0..AttemptsMod - 1 /\ AttemptsMod \in Nat \ {0, 1}
  BY RecentType DEF IPcheckAssumption
<1>3. /\ f.attempts \in Int /\ f.attempts >= 1
      /\ f.attempts = Recent(e) + 1 \/ f.attempts = AttemptsMod - 1
  BY <1>2, RaiseLower
<1>4. Due(now, k) => Recent(e) = e.attempts /\ e.attempts >= Remembered(k)
  BY NotForgotten DEF Keeps
<1>5. Remembered(k) \in Int /\ Remembered(n) \in Int
  BY <1>1, RememberedType
<1> HIDE DEF n
<1>6. f.attempts >= Remembered(n)
  BY <1>1, <1>2, <1>3, <1>4, <1>5 DEF Width
<1>7. f.last <= now /\ n.at <= f.last
  BY <1>1
<1> QED
  BY <1>6, <1>7 DEF n, Keeps

(* A connect from an address without an entry. *)
LEMMA NewKeeps ==
  ASSUME IPcheckAssumption, now \in 0..MaxTime, NEW k \in Streak, k.at <= now, ~Due(now, k)
  PROVE  Keeps(now, NewEntry, Streaked(k)) /\ NewEntry \in Entry
<1>1. Streaked(k).at = now /\ Remembered(Streaked(k)) <= 1 /\ Streaked(k) \in Streak
  BY StreakedIs
<1>2. NewEntry.last = now /\ NewEntry.attempts = 1 /\ NewEntry \in Entry
  BY DEF NewEntry, Entry, IPcheckAssumption
<1>3. Remembered(Streaked(k)) \in Int
  BY <1>1, RememberedType
<1> QED
  BY <1>1, <1>2, <1>3 DEF Keeps

(* An attempt is taken back. *)
LEMMA FailKeeps ==
  ASSUME IPcheckAssumption, now \in 0..MaxTime, NEW e \in Entry, NEW k \in Streak, k.at <= now,
         Keeps(now, e, k), NEW f \in Entry, f.last = e.last,
         f.attempts = Lower(e.attempts, AttemptsMod)
  PROVE  /\ Keeps(now, f, [k EXCEPT !.undone = @ + 1])
         /\ [k EXCEPT !.undone = @ + 1] \in Streak
<1> DEFINE n == [k EXCEPT !.undone = @ + 1]
<1>1. n \in Streak /\ n.at = k.at /\ n.count = k.count /\ n.undone = k.undone + 1
  BY DEF Streak
<1>2. f.attempts >= e.attempts - 1 /\ f.attempts \in Int /\ e.attempts \in Int
  BY RaiseLower DEF Entry, IPcheckAssumption
<1>3. Remembered(n) = Remembered(k) - 1 /\ Remembered(k) \in Int
  BY <1>1, RememberedType DEF Remembered, Width, Streak, IPcheckAssumption
<1> HIDE DEF n
<1>4. Due(now, n) => Due(now, k)
  BY <1>1, <1>3 DEF Due
<1>5. Due(now, n) => f.attempts >= Remembered(n)
  BY <1>2, <1>3, <1>4 DEF Keeps
<1> QED
  BY <1>1, <1>5 DEF n, Keeps

(* What neither adds nor takes back an attempt: last may be renewed, and   *)
(* attempts forgotten only when they are not due.                          *)
LEMMA SameKeeps ==
  ASSUME IPcheckAssumption, now \in 0..MaxTime, NEW e \in Entry, NEW k \in Streak, k.at <= now,
         Keeps(now, e, k), NEW f \in Entry, f.last \in {e.last, now},
         Due(now, k) => f.attempts = e.attempts
  PROVE  Keeps(now, f, k)
BY DEF Keeps, Entry, Streak
-----------------------------------------------------------------------------
(* A registry; r2 differs from r in the entry of a only. *)
RegOK(r) == DOMAIN r \subseteq Addrs /\ \A a \in DOMAIN r : r[a] \in Entry
Only(a, r, r2) ==
  /\ RegOK(r2)
  /\ \A b \in Addrs \ {a} : /\ Has(r2, b) <=> Has(r, b)
                            /\ Has(r, b) => r2[b] = r[b]

(* A new entry. *)
LEMMA SetIs ==
  ASSUME NEW r, RegOK(r), NEW a \in Addrs, NEW e \in Entry
  PROVE  Only(a, r, Set(r, a, e)) /\ Has(Set(r, a, e), a) /\ Set(r, a, e)[a] = e
BY DEF RegOK, Only, Set, Has

(* A changed entry. *)
LEMMA ExceptIs ==
  ASSUME NEW r, RegOK(r), NEW a \in Addrs, Has(r, a), NEW e \in Entry,
         NEW r2, DOMAIN r2 = DOMAIN r, r2[a] = e, \A b \in DOMAIN r : b # a => r2[b] = r[b]
  PROVE  Only(a, r, r2) /\ Has(r2, a) /\ r2[a] = e
BY DEF RegOK, Only, Has

(* The counter of connected clients at its limits. *)
LEMMA FullIs ==
  ASSUME IPcheckAssumption, NEW e \in Entry
  PROVE  /\ Full(e) <=> e.connected = ConnectedMod - 1
         /\ (e.connected - 1) % ConnectedMod
              = IF e.connected = 0 THEN ConnectedMod - 1 ELSE e.connected - 1
<1>0. ConnectedMod \in Nat \ {0, 1} /\ e.connected \in 0..ConnectedMod - 1
  BY DEF Entry, IPcheckAssumption
<1>1. e.connected = ConnectedMod - 1 => (e.connected + 1) % ConnectedMod = 0
  BY <1>0, ModEdges
<1>2. e.connected # ConnectedMod - 1 => (e.connected + 1) % ConnectedMod = e.connected + 1
  <2>1. e.connected # ConnectedMod - 1 => e.connected + 1 \in 0..ConnectedMod - 1
    BY <1>0
  <2> QED
    BY <1>0, <2>1, ModSmall
<1>3. e.connected = 0 => (e.connected - 1) % ConnectedMod = ConnectedMod - 1
  BY <1>0, ModEdges
<1>4. e.connected # 0 => (e.connected - 1) % ConnectedMod = e.connected - 1
  <2>1. e.connected # 0 => e.connected - 1 \in 0..ConnectedMod - 1
    BY <1>0
  <2> QED
    BY <1>0, <2>1, ModSmall
<1> QED
  BY <1>0, <1>1, <1>2, <1>3, <1>4 DEF Full

(* What ip_registry_check_remote makes of the entry e. *)
RemoteOf(e, burst) ==
  IF Full(e) THEN [e EXCEPT !.connected = 0]
  ELSE IF burst THEN [e EXCEPT !.connected = @ + 1, !.attempts = Recent(e)]
  ELSE [Attempted(e) EXCEPT !.connected = e.connected + 1]

(* The entry after ip_registry_check_remote. *)
LEMMA RemoteOfIs ==
  ASSUME IPcheckAssumption, now \in 0..MaxTime, NEW e \in Entry, NEW burst \in BOOLEAN
  PROVE  /\ RemoteOf(e, burst) \in Entry
         /\ Full(e) => /\ RemoteOf(e, burst).connected = 0
                       /\ RemoteOf(e, burst).last = e.last
                       /\ RemoteOf(e, burst).attempts = e.attempts
         /\ ~Full(e) => RemoteOf(e, burst).connected = e.connected + 1
         /\ ~Full(e) /\ burst => /\ RemoteOf(e, burst).last = e.last
                                 /\ RemoteOf(e, burst).attempts = Recent(e)
         /\ ~Full(e) /\ ~burst => /\ RemoteOf(e, burst).last = now
                                  /\ RemoteOf(e, burst).attempts = Raise(Recent(e), AttemptsMod)
<1>1. Recent(e) \in 0..AttemptsMod - 1 /\ Raise(Recent(e), AttemptsMod) \in 0..AttemptsMod - 1
  BY RecentType, RaiseLower DEF IPcheckAssumption
<1>2. ~Full(e) => e.connected + 1 \in 0..ConnectedMod - 1
  BY FullIs DEF Entry, IPcheckAssumption
<1>3. 0 \in 0..ConnectedMod - 1
  BY DEF IPcheckAssumption
<1>4. CASE Full(e)
  BY <1>3, <1>4 DEF RemoteOf, Entry
<1>5. CASE ~Full(e) /\ burst
  BY <1>1, <1>2, <1>5 DEF RemoteOf, Entry
<1>6. CASE ~Full(e) /\ ~burst
  BY <1>1, <1>2, <1>6 DEF RemoteOf, Attempted, Entry
<1> QED
  BY <1>4, <1>5, <1>6

(* The registry after ip_registry_check_remote. *)
LEMMA RemoteIs ==
  ASSUME IPcheckAssumption, now \in 0..MaxTime, NEW r, RegOK(r), NEW a \in Addrs,
         NEW burst \in BOOLEAN
  PROVE  /\ Only(a, r, Remote(r, a, burst)) /\ Has(Remote(r, a, burst), a)
         /\ Has(r, a) => Remote(r, a, burst)[a] = RemoteOf(r[a], burst)
         /\ ~Has(r, a) => /\ Remote(r, a, burst)[a].connected = 1
                          /\ Remote(r, a, burst)[a].last = now
                          /\ Remote(r, a, burst)[a].attempts = IF burst THEN 0 ELSE 1
<1>1. CASE Has(r, a)
  <2>1. r[a] \in Entry
    BY <1>1 DEF RegOK, Has
  <2>2. RemoteOf(r[a], burst) \in Entry
    BY <2>1, RemoteOfIs
  <2>3. Remote(r, a, burst) = [r EXCEPT ![a] = RemoteOf(r[a], burst)]
    BY <1>1 DEF Remote, RemoteOf, Has
  <2> DEFINE f == RemoteOf(r[a], burst)
             R == [r EXCEPT ![a] = f]
  <2>4. f \in Entry
    BY <2>2
  <2> HIDE DEF f
  <2>5. DOMAIN R = DOMAIN r /\ R[a] = f /\ \A b \in DOMAIN r : b # a => R[b] = r[b]
    BY <1>1 DEF Has
  <2>6. Remote(r, a, burst) = R
    BY <2>3 DEF f
  <2> HIDE DEF R
  <2>7. Only(a, r, R) /\ Has(R, a) /\ R[a] = f
    BY <1>1, <2>4, <2>5, ExceptIs
  <2> QED
    BY <1>1, <2>6, <2>7 DEF f
<1>2. CASE ~Has(r, a)
  <2> DEFINE e == [NewEntry EXCEPT !.attempts = IF burst THEN 0 ELSE 1]
  <2>1. e \in Entry /\ e.connected = 1 /\ e.last = now /\ e.attempts = IF burst THEN 0 ELSE 1
    BY DEF NewEntry, Entry, IPcheckAssumption
  <2>2. Remote(r, a, burst) = Set(r, a, e)
    BY <1>2 DEF Remote
  <2> HIDE DEF e
  <2> QED
    BY <1>2, <2>1, <2>2, SetIs
<1> QED
  BY <1>1, <1>2

(* ip_registry_disconnect. *)
LEMMA DisconnectedIs ==
  ASSUME IPcheckAssumption, now \in 0..MaxTime, NEW r, RegOK(r), NEW a \in Addrs
  PROVE  /\ Only(a, r, Disconnected(r, a)) /\ (Has(Disconnected(r, a), a) <=> Has(r, a))
         /\ Has(r, a) =>
              /\ Disconnected(r, a)[a].connected
                   = IF r[a].connected = 0 THEN ConnectedMod - 1 ELSE r[a].connected - 1
              /\ Disconnected(r, a)[a].last \in {r[a].last, now}
              /\ \/ Disconnected(r, a)[a].attempts = r[a].attempts
                 \/ CONNECTED_SINCE(r[a].last) > CLONE_LIMIT * CLONE_PERIOD
<1> DEFINE D == Disconnected(r, a)
<1>1. DOMAIN D = DOMAIN r /\ \A b \in DOMAIN r : b # a => D[b] = r[b]
  BY DEF Disconnected
<1>2. ASSUME Has(r, a)
      PROVE  /\ D[a] \in Entry
             /\ D[a].connected = IF r[a].connected = 0 THEN ConnectedMod - 1
                                 ELSE r[a].connected - 1
             /\ D[a].last \in {r[a].last, now}
             /\ \/ D[a].attempts = r[a].attempts
                \/ CONNECTED_SINCE(r[a].last) > CLONE_LIMIT * CLONE_PERIOD
  <2> DEFINE e == r[a]
             left == (e.connected - 1) % ConnectedMod
             long == CONNECTED_SINCE(e.last) > CLONE_LIMIT * CLONE_PERIOD
  <2>1. e \in Entry
    BY <1>2 DEF RegOK, Has
  <2>2. left = (IF e.connected = 0 THEN ConnectedMod - 1 ELSE e.connected - 1)
        /\ left \in 0..ConnectedMod - 1
    BY <2>1, FullIs DEF Entry, IPcheckAssumption
  <2>3. D[a] = IF left # 0 THEN [e EXCEPT !.connected = left]
               ELSE [last |-> now, connected |-> 0, attempts |-> IF long THEN 0 ELSE e.attempts]
    BY <1>2 DEF Disconnected, Has
  <2> HIDE DEF e, left, long, D
  <2>4. 0 \in 0..ConnectedMod - 1 /\ 0 \in 0..AttemptsMod - 1
    BY DEF IPcheckAssumption
  <2>5. CASE left # 0
    BY <2>1, <2>2, <2>3, <2>5 DEF Entry, e
  <2>6. CASE left = 0
    <3>1. D[a].attempts = (IF long THEN 0 ELSE e.attempts) /\ D[a].last = now
          /\ D[a].connected = 0 /\ D[a] \in Entry
      BY <2>1, <2>3, <2>4, <2>6 DEF Entry
    <3> QED
      BY <2>2, <2>6, <3>1 DEF long, e
  <2> QED
    BY <2>5, <2>6
<1>3. Only(a, r, D)
  BY <1>1, <1>2 DEF Only, RegOK, Has
<1> QED
  BY <1>1, <1>2, <1>3 DEF Has

(* ip_registry_connect_fail. *)
LEMMA FailedIs ==
  ASSUME IPcheckAssumption, RegOK(reg), NEW a \in Addrs
  PROVE  /\ Only(a, reg, Failed(a)) /\ (Has(Failed(a), a) <=> Has(reg, a))
         /\ Has(reg, a) => /\ Failed(a)[a].connected = reg[a].connected
                           /\ Failed(a)[a].last = reg[a].last
                           /\ Failed(a)[a].attempts = Lower(reg[a].attempts, AttemptsMod)
<1>1. DOMAIN Failed(a) = DOMAIN reg /\ \A b \in DOMAIN reg : b # a => Failed(a)[b] = reg[b]
  BY DEF Failed
<1>2. ASSUME Has(reg, a)
      PROVE  /\ Failed(a)[a] \in Entry
             /\ Failed(a)[a].connected = reg[a].connected
             /\ Failed(a)[a].last = reg[a].last
             /\ Failed(a)[a].attempts = Lower(reg[a].attempts, AttemptsMod)
  <2>1. reg[a] \in Entry
    BY <1>2 DEF RegOK, Has
  <2>2. Lower(reg[a].attempts, AttemptsMod) \in 0..AttemptsMod - 1
    BY <2>1, RaiseLower DEF Entry, IPcheckAssumption
  <2>3. Failed(a)[a] = [reg[a] EXCEPT !.attempts = Lower(@, AttemptsMod)]
    BY <1>2 DEF Failed, Has
  <2> QED
    BY <2>1, <2>2, <2>3 DEF Entry
<1>3. Only(a, reg, Failed(a))
  BY <1>1, <1>2 DEF Only, RegOK, Has
<1> QED
  BY <1>1, <1>2, <1>3 DEF Has
-----------------------------------------------------------------------------
(* The entries of the /48 block have their type. *)
Reg48OK(r) == DOMAIN r \subseteq {Block} /\ \A b \in DOMAIN r : r[b] \in Entry48

(* A block entry is stored. *)
LEMMA Set48Is ==
  ASSUME NEW r, Reg48OK(r), NEW e \in Entry48
  PROVE  Reg48OK(Set(r, Block, e))
BY DEF Reg48OK, Set

(* A block entry is found or made. *)
LEMMA Find48Is ==
  ASSUME IPcheckAssumption, now \in 0..MaxTime, NEW r, Reg48OK(r)
  PROVE  ip_48_find(r) \in Entry48
<1>1. [last |-> now, attempts |-> 0] \in Entry48
  BY DEF Entry48, IPcheckAssumption
<1> QED
  BY <1>1 DEF ip_48_find, Reg48OK, Has

(* The block counts an attempt, or takes one back. *)
LEMMA Attempt48Is ==
  ASSUME IPcheckAssumption, now \in 0..MaxTime, NEW r, Reg48OK(r), NEW a
  PROVE  Reg48OK(Attempt48(r, a)) /\ Reg48OK(Failed48(r, a))
<1> DEFINE e == ip_48_find(r)
           old == IF CONNECTED_SINCE(e.last) > CLONE_PERIOD_48 THEN 0 ELSE e.attempts
           f == [last |-> now, attempts |-> Raise(old, Attempts48Mod)]
           g == [e EXCEPT !.attempts = Lower(@, Attempts48Mod)]
<1>1. e \in Entry48
  BY Find48Is
<1>2. old \in 0..Attempts48Mod - 1 /\ e.attempts \in 0..Attempts48Mod - 1
  BY <1>1 DEF Entry48, IPcheckAssumption
<1>3. /\ Raise(old, Attempts48Mod) \in 0..Attempts48Mod - 1
      /\ Lower(e.attempts, Attempts48Mod) \in 0..Attempts48Mod - 1
  <2> HIDE DEF old, e
  <2> QED BY <1>2, RaiseLower DEF IPcheckAssumption
<1>4. f \in Entry48
  <2> HIDE DEF old
  <2> QED BY <1>3 DEF Entry48
<1>5. g \in Entry48
  <2> HIDE DEF e
  <2> QED BY <1>1, <1>3 DEF Entry48
<1>6. Attempt48(r, a) = IF a \notin V6 THEN r ELSE Set(r, Block, f)
  BY DEF Attempt48
<1>7. Failed48(r, a) = IF a \notin V6 THEN r ELSE Set(r, Block, g)
  BY DEF Failed48
<1> HIDE DEF f, g
<1> QED
  BY <1>4, <1>5, <1>6, <1>7, Set48Is
-----------------------------------------------------------------------------
(* The number of clients that the registry r counts for b. *)
Count(r, b) == IF Has(r, b) THEN r[b].connected ELSE 0

(* The registry and the streaks, each of its type, and r remembers ks. *)
Good(r, ks) == RegOK(r) /\ ks \in [Addrs -> Streak] /\ Tracks(now, r, ks)

(* The streak and the entry of one address change together. *)
LEMMA OneTracks ==
  ASSUME NEW r, NEW ks, Good(r, ks), NEW a \in Addrs, NEW r2, Only(a, r, r2),
         NEW k \in Streak, k.at <= now,
         Has(r2, a) => Keeps(now, r2[a], k), ~Has(r2, a) => ~Due(now, k)
  PROVE  Good(r2, [ks EXCEPT ![a] = k])
BY DEF Good, Tracks, Only

(* The entry of one address changes and its streak does not. *)
LEMMA OneTracksSame ==
  ASSUME NEW r, NEW ks, Good(r, ks), NEW a \in Addrs, NEW r2, Only(a, r, r2),
         Has(r2, a) => Keeps(now, r2[a], ks[a]), ~Has(r2, a) => ~Has(r, a)
  PROVE  Good(r2, ks)
BY DEF Good, Tracks, Only

(* The counters of the other addresses are left alone. *)
LEMMA OneCounts ==
  ASSUME NEW r, NEW a \in Addrs, NEW r2, Only(a, r, r2)
  PROVE  \A b \in Addrs : b # a => Count(r2, b) = Count(r, b)
BY DEF Only, Count

(* What Good says of one address. *)
LEMMA GoodAt ==
  ASSUME NEW r, NEW ks, Good(r, ks), NEW a \in Addrs
  PROVE  /\ ks[a] \in Streak /\ ks[a].at <= now /\ RegOK(r)
         /\ Has(r, a) => r[a] \in Entry /\ Keeps(now, r[a], ks[a])
         /\ ~Has(r, a) => ~Due(now, ks[a])
BY DEF Good, Tracks, RegOK, Has

(* A connect that is not at the limit of the counter. *)
LEMMA RemoteTracks ==
  ASSUME IPcheckAssumption, now \in 0..MaxTime, NEW r, NEW ks, Good(r, ks), NEW a \in Addrs,
         ~(Has(r, a) /\ Full(r[a]))
  PROVE  /\ Good(Remote(r, a, FALSE), [ks EXCEPT ![a] = Streaked(@)])
         /\ Good(Remote(r, a, TRUE), ks)
         /\ \A burst \in BOOLEAN, b \in Addrs :
              Count(Remote(r, a, burst), b) = IF b = a THEN Count(r, a) + 1 ELSE Count(r, b)
<1>0. /\ ks[a] \in Streak /\ ks[a].at <= now /\ RegOK(r)
      /\ Has(r, a) => r[a] \in Entry /\ Keeps(now, r[a], ks[a])
      /\ ~Has(r, a) => ~Due(now, ks[a])
  BY GoodAt
<1>1. ASSUME NEW burst \in BOOLEAN
      PROVE  /\ Only(a, r, Remote(r, a, burst)) /\ Has(Remote(r, a, burst), a)
             /\ Has(r, a) => Remote(r, a, burst)[a] = RemoteOf(r[a], burst)
             /\ ~Has(r, a) => /\ Remote(r, a, burst)[a].connected = 1
                              /\ Remote(r, a, burst)[a].last = now
                              /\ Remote(r, a, burst)[a].attempts = IF burst THEN 0 ELSE 1
             /\ Remote(r, a, burst)[a] \in Entry
  BY <1>0, RemoteIs DEF Only, RegOK, Has
<1>2. Good(Remote(r, a, FALSE), [ks EXCEPT ![a] = Streaked(@)])
  <2> DEFINE R == Remote(r, a, FALSE)
             k == Streaked(ks[a])
  <2>1. k \in Streak /\ k.at <= now
    BY <1>0, StreakedIs DEF Streak
  <2>2. Keeps(now, R[a], k)
    <3>1. CASE Has(r, a)
      <4>1. R[a] \in Entry /\ R[a].last = now
            /\ R[a].attempts = Raise(Recent(r[a]), AttemptsMod)
        BY <1>0, <1>1, <3>1, RemoteOfIs, ZenonT(60)
      <4> QED
        BY <1>0, <3>1, <4>1, AttemptKeeps
    <3>2. CASE ~Has(r, a)
      <4>1. R[a].last = now /\ R[a].attempts = 1
        BY <1>1, <3>2
      <4>2. Keeps(now, NewEntry, k) /\ NewEntry.last = now /\ NewEntry.attempts = 1
        BY <1>0, <3>2, NewKeeps DEF NewEntry
      <4> QED
        BY <4>1, <4>2 DEF Keeps
    <3> QED
      BY <3>1, <3>2
  <2>3. [ks EXCEPT ![a] = Streaked(@)] = [ks EXCEPT ![a] = k]
    OBVIOUS
  <2>4. Only(a, r, R) /\ Has(R, a)
    BY <1>1
  <2> HIDE DEF R, k
  <2>5. Good(R, [ks EXCEPT ![a] = k])
    BY <2>1, <2>2, <2>4, OneTracks
  <2> QED
    BY <2>3, <2>5 DEF R
<1>3. Good(Remote(r, a, TRUE), ks)
  <2> DEFINE R == Remote(r, a, TRUE)
  <2>1. Keeps(now, R[a], ks[a])
    <3>1. CASE Has(r, a)
      <4>1. R[a] \in Entry /\ R[a].last = r[a].last /\ R[a].attempts = Recent(r[a])
        BY <1>0, <1>1, <3>1, RemoteOfIs, ZenonT(60)
      <4>2. Due(now, ks[a]) => R[a].attempts = r[a].attempts
        BY <1>0, <3>1, <4>1, NotForgotten
      <4> QED
        BY <1>0, <3>1, <4>1, <4>2, SameKeeps
    <3>2. CASE ~Has(r, a)
      <4>1. R[a].last = now /\ ~Due(now, ks[a])
        BY <1>0, <1>1, <3>2
      <4>2. now <= now /\ ks[a].at <= now
        BY <1>0
      <4> HIDE DEF R
      <4> QED
        BY <4>1, <4>2 DEF Keeps
    <3> QED
      BY <3>1, <3>2
  <2>2. Only(a, r, R) /\ Has(R, a)
    BY <1>1
  <2> HIDE DEF R
  <2>3. Good(R, ks)
    BY <2>1, <2>2, OneTracksSame
  <2> QED
    BY <2>3 DEF R
<1>4. ASSUME NEW burst \in BOOLEAN, NEW b \in Addrs
      PROVE  Count(Remote(r, a, burst), b) = IF b = a THEN Count(r, a) + 1 ELSE Count(r, b)
  <2>1. CASE b = a
    BY <1>0, <1>1, <2>1, RemoteOfIs, SMTT(60) DEF Count
  <2>2. CASE b # a
    BY <1>1, <2>2, OneCounts
  <2> QED
    BY <2>1, <2>2
<1> QED
  BY <1>2, <1>3, <1>4

(* A disconnect. *)
LEMMA DisconnectedTracks ==
  ASSUME IPcheckAssumption, now \in 0..MaxTime, NEW r, NEW ks, Good(r, ks), NEW a \in Addrs
  PROVE  /\ Good(Disconnected(r, a), ks)
         /\ Count(r, a) > 0 =>
              \A b \in Addrs :
                Count(Disconnected(r, a), b) = IF b = a THEN Count(r, a) - 1 ELSE Count(r, b)
<1> DEFINE D == Disconnected(r, a)
<1>0. /\ ks[a] \in Streak /\ ks[a].at <= now /\ RegOK(r)
      /\ Has(r, a) => r[a] \in Entry /\ Keeps(now, r[a], ks[a])
  BY GoodAt
<1>1. /\ Only(a, r, D) /\ (Has(D, a) <=> Has(r, a))
      /\ Has(r, a) => /\ D[a] \in Entry
                      /\ D[a].connected = IF r[a].connected = 0 THEN ConnectedMod - 1
                                          ELSE r[a].connected - 1
                      /\ D[a].last \in {r[a].last, now}
                      /\ \/ D[a].attempts = r[a].attempts
                         \/ CONNECTED_SINCE(r[a].last) > CLONE_LIMIT * CLONE_PERIOD
  BY <1>0, DisconnectedIs DEF Only, RegOK, Has
<1>2. ASSUME Has(r, a) PROVE Keeps(now, D[a], ks[a])
  <2>1. Due(now, ks[a]) => D[a].attempts = r[a].attempts
    BY <1>0, <1>1, <1>2, NotForgotten
  <2> QED
    BY <1>0, <1>1, <1>2, <2>1, SameKeeps
<1> HIDE DEF D
<1>3. Good(D, ks)
  BY <1>1, <1>2, OneTracksSame
<1>4. ASSUME Count(r, a) > 0, NEW b \in Addrs
      PROVE  Count(D, b) = IF b = a THEN Count(r, a) - 1 ELSE Count(r, b)
  <2>1. CASE b = a
    BY <1>1, <1>4, <2>1 DEF Count
  <2>2. CASE b # a
    BY <1>1, <2>2, OneCounts
  <2> QED
    BY <2>1, <2>2
<1> QED
  BY <1>3, <1>4 DEF D

(* An attempt of a counted client is taken back. *)
LEMMA FailedTracks ==
  ASSUME IPcheckAssumption, now \in 0..MaxTime, Good(reg, streak), NEW a \in Addrs
  PROVE  /\ Good(Failed(a), Undone(a))
         /\ \A b \in Addrs : Has(Failed(a), b) <=> Has(reg, b)
         /\ \A b \in Addrs : Count(Failed(a), b) = Count(reg, b)
<1> DEFINE F == Failed(a)
           k == [streak[a] EXCEPT !.undone = @ + 1]
<1>0. /\ streak[a] \in Streak /\ streak[a].at <= now /\ RegOK(reg)
      /\ Has(reg, a) => reg[a] \in Entry /\ Keeps(now, reg[a], streak[a])
      /\ ~Has(reg, a) => ~Due(now, streak[a])
  BY GoodAt
<1>1. /\ Only(a, reg, F) /\ (Has(F, a) <=> Has(reg, a))
      /\ Has(reg, a) => /\ F[a] \in Entry
                        /\ F[a].connected = reg[a].connected
                        /\ F[a].last = reg[a].last
                        /\ F[a].attempts = Lower(reg[a].attempts, AttemptsMod)
  BY <1>0, FailedIs DEF Only, RegOK, Has
<1>2. k \in Streak /\ k.at <= now
  BY <1>0 DEF Streak
<1>3. Has(reg, a) => Keeps(now, F[a], k)
  BY <1>0, <1>1, FailKeeps
<1>4. ~Has(reg, a) => ~Due(now, k)
  <2>1. Remembered(k) = Remembered(streak[a]) - 1 /\ Remembered(streak[a]) \in Int
        /\ k.count = streak[a].count /\ k.at = streak[a].at
    BY <1>0, RememberedType DEF Remembered, Width, Streak, IPcheckAssumption
  <2> HIDE DEF k
  <2> QED
    BY <1>0, <2>1 DEF Due
<1>5. Undone(a) = [streak EXCEPT ![a] = k]
  BY DEF Undone
<1> HIDE DEF F, k
<1>6. Good(F, Undone(a))
  <2>1. Good(F, [streak EXCEPT ![a] = k])
    BY <1>1, <1>2, <1>3, <1>4, OneTracks
  <2> QED
    BY <1>5, <2>1
<1>7. \A b \in Addrs : (Has(F, b) <=> Has(reg, b)) /\ Count(F, b) = Count(reg, b)
  BY <1>1 DEF Only, Count
<1> QED
  BY <1>6, <1>7 DEF F
-----------------------------------------------------------------------------
(* The clients of f that are counted for b. *)
Is(x, b) == x.st \in Counted /\ x.addr = b
Members(f, b) == {c \in Clients : Is(f[c], b)}
Counts(f, r) == \A b \in Addrs : Cardinality(Members(f, b)) = Count(r, b)

(* ConnectedIsCount, of any clients and any registry. *)
LEMMA CountsIs == ConnectedIsCount <=> Counts(client, reg)
BY DEF ConnectedIsCount, Counts, Members, Is, At, Count

(* One client changes its state or its address. *)
LEMMA Moves ==
  ASSUME IsFiniteSet(Clients), NEW f \in [Clients -> Client], NEW c \in Clients,
         NEW x \in Client, NEW b \in Addrs
  PROVE  /\ Cardinality(Members(f, b)) \in Nat
         /\ Is(f[c], b) => Cardinality(Members(f, b)) >= 1
         /\ Cardinality(Members([f EXCEPT ![c] = x], b))
              = Cardinality(Members(f, b)) - (IF Is(f[c], b) THEN 1 ELSE 0)
                                           + (IF Is(x, b) THEN 1 ELSE 0)
<1> DEFINE A == Members(f, b)
           B == A \ {c}
           C == Members([f EXCEPT ![c] = x], b)
<1>1. A \in SUBSET Clients /\ (c \in A <=> Is(f[c], b)) /\ c \notin B
  BY DEF Members
<1>2. IsFiniteSet(A)
  BY <1>1, FS_Subset
<1>3. C = IF Is(x, b) THEN B \cup {c} ELSE B
  BY DEF Members
<1> HIDE DEF A
<1>4. IsFiniteSet(B) /\ Cardinality(B) = IF c \in A THEN Cardinality(A) - 1 ELSE Cardinality(A)
  BY <1>2, FS_RemoveElement
<1>5. Cardinality(A) \in Nat /\ Cardinality(B) \in Nat
  BY <1>2, <1>4, FS_CardinalityType
<1> HIDE DEF B
<1>6. Cardinality(B \cup {c}) = Cardinality(B) + 1
  BY <1>1, <1>4, FS_AddElement
<1> HIDE DEF C
<1>7. Cardinality(C) = Cardinality(A) - (IF Is(f[c], b) THEN 1 ELSE 0)
                                      + (IF Is(x, b) THEN 1 ELSE 0)
  BY <1>1, <1>3, <1>4, <1>5, <1>6
<1>8. Is(f[c], b) => Cardinality(A) >= 1
  BY <1>1, <1>4, <1>5
<1> QED
  BY <1>5, <1>7, <1>8 DEF A, C

(* A client that is not counted for b leaves room. *)
LEMMA OthersFewer ==
  ASSUME IsFiniteSet(Clients), NEW f \in [Clients -> Client], NEW c \in Clients,
         NEW b \in Addrs, ~Is(f[c], b)
  PROVE  Cardinality(Members(f, b)) < Cardinality(Clients)
<1>1. Members(f, b) \in SUBSET Clients /\ Members(f, b) # Clients
  BY DEF Members
<1>2. /\ Cardinality(Members(f, b)) <= Cardinality(Clients)
      /\ Cardinality(Members(f, b)) # Cardinality(Clients) /\ IsFiniteSet(Members(f, b))
  BY <1>1, FS_Subset
<1> QED
  BY <1>2, FS_CardinalityType
-----------------------------------------------------------------------------
(* ip_registry_check_local: the streak is kept, and the address is counted *)
(* once more unless it is refused.                                         *)
LEMMA CheckLocal ==
  ASSUME IPcheckAssumption, now \in 0..MaxTime, Good(reg, streak), NEW a \in Addrs, check_local(a)
  PROVE  /\ Good(reg', streak')
         /\ \A b \in Addrs : Count(reg', b) = IF b = a /\ ~Refused(a) THEN Count(reg, a) + 1
                                              ELSE Count(reg, b)
         /\ ~Refused(a) /\ now > CLONE_DELAY =>
              /\ Has(reg', a) /\ streak'[a].at = now /\ streak'[a].count > 0
              /\ reg'[a].attempts < CLONE_LIMIT \/ reg'[a].attempts = 1
<1>0. /\ streak[a] \in Streak /\ streak[a].at <= now /\ RegOK(reg) /\ streak \in [Addrs -> Streak]
      /\ Has(reg, a) => reg[a] \in Entry /\ Keeps(now, reg[a], streak[a])
      /\ ~Has(reg, a) => ~Due(now, streak[a])
  BY GoodAt DEF Good
<1> DEFINE k == Streaked(streak[a])
<1>1. k \in Streak /\ k.at = now /\ k.at <= now /\ k.count > 0
  BY <1>0, StreakedIs DEF Streak
<1>2. CASE Throttled48(a)
  <2>0. Refused(a) /\ UNCHANGED streak
        /\ reg' = IF Has(reg, a) THEN [reg EXCEPT ![a].last = now] ELSE reg
    BY <1>2 DEF check_local, Refused
  <2>1. CASE Has(reg, a)
    <3> DEFINE e == [reg[a] EXCEPT !.last = now]
    <3>1. e \in Entry /\ e.last = now /\ e.attempts = reg[a].attempts
          /\ e.connected = reg[a].connected
      BY <1>0, <2>1 DEF Entry
    <3>2. reg' = [reg EXCEPT ![a] = e]
      BY <2>0, <2>1
    <3> HIDE DEF e
    <3>a. DOMAIN reg' = DOMAIN reg /\ reg'[a] = e /\ \A b \in DOMAIN reg : b # a => reg'[b] = reg[b]
      BY <2>1, <3>2 DEF Has
    <3>3. Only(a, reg, reg') /\ Has(reg', a) /\ reg'[a] = e
      BY <1>0, <2>1, <3>1, <3>a, ExceptIs
    <3>4. Keeps(now, reg'[a], streak[a])
      BY <1>0, <2>1, <3>1, <3>3, SameKeeps
    <3>5. Good(reg', streak)
      BY <3>3, <3>4, OneTracksSame
    <3>6. \A b \in Addrs : Count(reg', b) = Count(reg, b)
      BY <2>1, <3>1, <3>3, OneCounts DEF Count
    <3> QED
      BY <2>0, <3>5, <3>6
  <2>2. CASE ~Has(reg, a)
    BY <2>0, <2>2
  <2> QED
    BY <2>1, <2>2
<1>3. CASE ~Throttled48(a) /\ ~Has(reg, a)
  <2>0. ~Refused(a) /\ reg' = Set(reg, a, NewEntry)
        /\ streak' = [streak EXCEPT ![a] = k]
    BY <1>3 DEF check_local, Refused
  <2>1. Keeps(now, NewEntry, k) /\ NewEntry \in Entry
    BY <1>0, <1>3, NewKeeps
  <2>2. Only(a, reg, reg') /\ Has(reg', a) /\ reg'[a] = NewEntry
    BY <1>0, <2>0, <2>1, SetIs
  <2> HIDE DEF k
  <2>3. Good(reg', streak')
    <3>1. Good(reg', [streak EXCEPT ![a] = k])
      BY <1>1, <2>1, <2>2, OneTracks
    <3> QED
      BY <2>0, <3>1
  <2>4. \A b \in Addrs : Count(reg', b) = IF b = a THEN Count(reg, a) + 1 ELSE Count(reg, b)
    BY <1>3, <2>2, OneCounts DEF Count, NewEntry
  <2>5. reg'[a].attempts = 1 /\ streak'[a] = k
    BY <1>0, <2>0, <2>2 DEF NewEntry
  <2> QED
    BY <1>1, <2>0, <2>2, <2>3, <2>4, <2>5
<1>4. CASE ~Throttled48(a) /\ Has(reg, a) /\ Full(reg[a])
  BY <1>4 DEF check_local, Refused
<1>5. CASE ~Throttled48(a) /\ Has(reg, a) /\ ~Full(reg[a])
  <2> DEFINE d == Attempted(reg[a])
             e == IF TooFast(reg[a]) THEN d ELSE [d EXCEPT !.connected = @ + 1]
  <2>0. /\ reg' = [reg EXCEPT ![a] = e] /\ streak' = [streak EXCEPT ![a] = k]
        /\ Refused(a) <=> TooFast(reg[a])
    BY <1>5 DEF check_local, Refused
  <2>1. d \in Entry /\ d.last = now /\ d.connected = reg[a].connected
        /\ d.attempts = Raise(Recent(reg[a]), AttemptsMod)
    <3>1. reg[a] \in Entry /\ Recent(reg[a]) \in 0..AttemptsMod - 1
      BY <1>0, <1>5, RecentType
    <3>2. Raise(Recent(reg[a]), AttemptsMod) \in 0..AttemptsMod - 1
      BY <3>1, RaiseLower DEF IPcheckAssumption
    <3> QED
      BY <3>1, <3>2 DEF Attempted, Entry
  <2>2. /\ e \in Entry /\ e.last = now /\ e.attempts = d.attempts
        /\ e.connected = IF Refused(a) THEN reg[a].connected ELSE reg[a].connected + 1
    <3>1. reg[a].connected + 1 \in 0..ConnectedMod - 1
      BY <1>0, <1>5, FullIs DEF Entry, IPcheckAssumption
    <3> HIDE DEF d
    <3>2. CASE TooFast(reg[a])
      BY <2>0, <2>1, <3>2
    <3>3. CASE ~TooFast(reg[a])
      BY <2>0, <2>1, <3>1, <3>3 DEF Entry
    <3> QED
      BY <3>2, <3>3
  <2>3. ~Refused(a) /\ now > CLONE_DELAY => d.attempts < CLONE_LIMIT
    <3>1. d.attempts \in Int
      BY <2>1 DEF Entry
    <3> QED
      BY <2>0, <3>1 DEF TooFast, IPcheckAssumption
  <2> HIDE DEF e, d, k
  <2>a. DOMAIN reg' = DOMAIN reg /\ reg'[a] = e /\ \A b \in DOMAIN reg : b # a => reg'[b] = reg[b]
    BY <1>5, <2>0 DEF Has
  <2>4. Only(a, reg, reg') /\ Has(reg', a) /\ reg'[a] = e
    BY <1>0, <1>5, <2>2, <2>a, ExceptIs
  <2>5. Keeps(now, reg'[a], k)
    BY <1>0, <1>5, <2>1, <2>2, <2>4, AttemptKeeps DEF k
  <2>6. Good(reg', streak')
    <3>1. Good(reg', [streak EXCEPT ![a] = k])
      BY <1>1, <2>5, <2>4, OneTracks
    <3> QED
      BY <2>0, <3>1
  <2>7. \A b \in Addrs : Count(reg', b) = IF b = a /\ ~Refused(a) THEN Count(reg, a) + 1
                                           ELSE Count(reg, b)
    BY <1>5, <2>2, <2>4, OneCounts DEF Count
  <2>8. streak'[a] = k
    BY <1>0, <2>0
  <2> QED
    BY <1>1, <2>2, <2>3, <2>4, <2>6, <2>7, <2>8
<1> QED
  BY <1>2, <1>3, <1>4, <1>5
-----------------------------------------------------------------------------
(* What every step keeps.                                                  *)

(* TypeOK by its parts. *)
LEMMA TypeIs ==
  TypeOK <=> /\ now \in 0..MaxTime /\ tries \in 0..MaxTries /\ RegOK(reg) /\ Reg48OK(reg48)
             /\ client \in [Clients -> Client] /\ streak \in [Addrs -> Streak]
BY DEF TypeOK, RegOK, Reg48OK

(* The conditions under which the counter is right: no set-up of an        *)
(* accepted connection fails, and iauth moves no client to a full counter. *)
Countable ==
  ~AcceptFails /\ IsFiniteSet(Clients) /\ (Iauth => Cardinality(Clients) < ConnectedMod)

(* A step that takes no time. *)
Kept ==
  /\ now' = now /\ tries' \in 0..MaxTries /\ Reg48OK(reg48') /\ client' \in [Clients -> Client]
  /\ Good(reg', streak')
  /\ Countable /\ Counts(client, reg) => Counts(client', reg')

Serving == IPcheckAssumption /\ TypeOK /\ Tracks(now, reg, streak)

(* What every action may assume. *)
LEMMA ServingIs ==
  ASSUME Serving
  PROVE  /\ IPcheckAssumption /\ now \in 0..MaxTime /\ Good(reg, streak) /\ RegOK(reg)
         /\ Reg48OK(reg48) /\ client \in [Clients -> Client] /\ tries \in 0..MaxTries
         /\ streak \in [Addrs -> Streak]
BY TypeIs DEF Serving, Good

(* A connection attempt takes no time. *)
LEMMA TryIs == ASSUME Serving, Try PROVE now' = now /\ tries' \in 0..MaxTries
BY ServingIs DEF Try, IPcheckAssumption

(* A client that is gone is not counted. *)
LEMMA NobodyIs ==
  ASSUME IPcheckAssumption
  PROVE  Nobody \in Client /\ \A b : ~Is(Nobody, b)
<1>1. (CHOOSE a \in Addrs : TRUE) \in Addrs
  BY DEF IPcheckAssumption
<1> QED
  BY <1>1 DEF Nobody, Client, States, Is, Counted

(* Counts follows a client that becomes x. *)
LEMMA CountsMove ==
  ASSUME IsFiniteSet(Clients), NEW f \in [Clients -> Client], NEW r, Counts(f, r),
         NEW c \in Clients, NEW x \in Client, NEW g \in [Clients -> Client], g[c] = x,
         \A d \in Clients : d # c => g[d] = f[d], NEW r2,
         \A b \in Addrs : Count(r2, b) = Count(r, b) - (IF Is(f[c], b) THEN 1 ELSE 0)
                                                     + (IF Is(x, b) THEN 1 ELSE 0)
  PROVE  Counts(g, r2)
<1> SUFFICES ASSUME NEW b \in Addrs
             PROVE  Cardinality(Members(g, b)) = Count(r2, b)
  BY DEF Counts
<1>1. Cardinality(Members([f EXCEPT ![c] = x], b))
        = Cardinality(Members(f, b)) - (IF Is(f[c], b) THEN 1 ELSE 0)
                                     + (IF Is(x, b) THEN 1 ELSE 0)
  BY Moves, ZenonT(60)
<1>2. Cardinality(Members(f, b)) = Count(r, b)
  BY DEF Counts
<1>3. g = [f EXCEPT ![c] = x]
  OBVIOUS
<1> QED
  BY <1>1, <1>2, <1>3

(* A counted client is counted in an entry. *)
LEMMA CountedHas ==
  ASSUME IsFiniteSet(Clients), Serving, Counts(client, reg), NEW c \in Clients,
         client[c].st \in Counted
  PROVE  /\ client[c].addr \in Addrs /\ Is(client[c], client[c].addr)
         /\ Has(reg, client[c].addr) /\ Count(reg, client[c].addr) > 0
<1>1. client[c].addr \in Addrs /\ Is(client[c], client[c].addr)
  BY ServingIs DEF Client, Is
<1>2. Cardinality(Members(client, client[c].addr)) >= 1
      /\ Cardinality(Members(client, client[c].addr)) \in Nat
  <2>1. client[c] \in Client /\ client \in [Clients -> Client]
    BY ServingIs
  <2> QED
    BY <1>1, <2>1, Moves
<1> QED
  BY <1>1, <1>2 DEF Counts, Count

(* Counters are numbers. *)
LEMMA CountType ==
  ASSUME IPcheckAssumption, NEW r, RegOK(r), NEW b \in Addrs
  PROVE  Count(r, b) \in Nat
BY DEF Count, RegOK, Has, Entry, IPcheckAssumption

(* Connections from an address. *)
LEMMA ConnectKept ==
  ASSUME Serving, NEW c \in Clients, NEW a \in Addrs,
         add_connection(c, a) \/ auth_spoof_user(c, a)
  PROVE  Kept
<1>0. /\ IPcheckAssumption /\ now \in 0..MaxTime /\ Good(reg, streak) /\ RegOK(reg)
      /\ Reg48OK(reg48) /\ client \in [Clients -> Client]
  BY ServingIs
<1>1. Try /\ check_local(a) /\ client[c].st \notin Counted
  BY DEF add_connection, auth_spoof_user, Counted
<1>2. now' = now /\ tries' \in 0..MaxTries
  BY <1>1, TryIs
<1>3. Reg48OK(reg48')
  BY <1>0, <1>1, Attempt48Is DEF check_local
<1>4. /\ Good(reg', streak')
      /\ \A b \in Addrs : Count(reg', b) = IF b = a /\ ~Refused(a) THEN Count(reg, a) + 1
                                           ELSE Count(reg, b)
  BY <1>0, <1>1, CheckLocal
<1>5. \/ UNCHANGED client /\ Refused(a)
      \/ \E x \in Client : /\ client' = [client EXCEPT ![c] = x]
                           /\ Refused(a) => x = Nobody
                           /\ ~Refused(a) => /\ x.addr = a
                                             /\ ~AcceptFails => x.st = "local"
  <2>1. Nobody \in Client /\ [st |-> "local", addr |-> a] \in Client
        /\ [st |-> "lost", addr |-> a] \in Client
    BY <1>0, NobodyIs DEF Client, States
  <2>2. CASE add_connection(c, a)
    BY <2>1, <2>2 DEF add_connection, Become
  <2>3. CASE auth_spoof_user(c, a)
    BY <2>1, <2>3 DEF auth_spoof_user, Become, Gone
  <2> QED
    BY <2>2, <2>3
<1>6. client' \in [Clients -> Client]
  BY <1>0, <1>5
<1>7. ASSUME Countable, Counts(client, reg)
      PROVE  Counts(client', reg')
  <2>0. IsFiniteSet(Clients) /\ ~AcceptFails
    BY <1>7 DEF Countable
  <2>1. CASE UNCHANGED client /\ Refused(a)
    <3>1. \A b \in Addrs : Count(reg', b) = Count(reg, b)
      BY <1>4, <2>1
    <3> QED
      BY <1>7, <2>1, <3>1 DEF Counts
  <2>2. CASE \E x \in Client : /\ client' = [client EXCEPT ![c] = x]
                               /\ Refused(a) => x = Nobody
                               /\ ~Refused(a) => x.addr = a /\ (~AcceptFails => x.st = "local")
    <3>1. PICK x \in Client : /\ client' = [client EXCEPT ![c] = x]
                              /\ Refused(a) => x = Nobody
                              /\ ~Refused(a) => x.addr = a /\ (~AcceptFails => x.st = "local")
      BY <2>2
    <3>2. \A b \in Addrs : ~Is(client[c], b) /\ (Is(x, b) <=> b = a /\ ~Refused(a))
      BY <1>0, <1>1, <2>0, <3>1, NobodyIs DEF Is, Counted
    <3>3. \A b \in Addrs : Count(reg, b) \in Nat
      BY <1>0, CountType
    <3>4. \A b \in Addrs : Count(reg', b) = Count(reg, b) - (IF Is(client[c], b) THEN 1 ELSE 0)
                                                          + (IF Is(x, b) THEN 1 ELSE 0)
      BY <1>4, <3>2, <3>3
    <3>5. client'[c] = x /\ \A d \in Clients : d # c => client'[d] = client[d]
      BY <1>0, <3>1
    <3> QED
      BY <1>0, <1>6, <1>7, <2>0, <3>4, <3>5, CountsMove
  <2> QED
    BY <1>5, <2>1, <2>2
<1> QED
  BY <1>2, <1>3, <1>4, <1>6, <1>7 DEF Kept

(* A client leaves, or changes between states of the same kind. *)
LEMMA LeaveKept ==
  ASSUME Serving, NEW c \in Clients,
         exit_one_client(c) \/ override(c) \/ register_user(c) \/ add_webirc(c)
  PROVE  Kept
<1>0. /\ IPcheckAssumption /\ now \in 0..MaxTime /\ Good(reg, streak) /\ RegOK(reg)
      /\ Reg48OK(reg48) /\ client \in [Clients -> Client] /\ tries \in 0..MaxTries
      /\ client[c] \in Client
  BY ServingIs
<1> DEFINE a == client[c].addr
<1>1. a \in Addrs
  BY <1>0 DEF Client
<1>2. Nobody \in Client /\ \A b : ~Is(Nobody, b)
  BY <1>0, NobodyIs
<1>3. \A b \in Addrs : Count(reg, b) \in Nat
  BY <1>0, CountType
<1>4. CASE register_user(c) \/ add_webirc(c)
  <2> DEFINE x == client'[c]
  <2>1. /\ client' \in [Clients -> Client]
        /\ \A d \in Clients : d # c => client'[d] = client[d]
        /\ \A b \in Addrs : Is(x, b) <=> Is(client[c], b)
    BY <1>0, <1>4 DEF register_user, add_webirc, Client, States, Is, Counted
  <2>2. UNCHANGED <<now, reg, reg48, streak, tries>>
    BY <1>4 DEF register_user, add_webirc
  <2>3. ASSUME Countable, Counts(client, reg) PROVE Counts(client', reg')
    <3>1. \A b \in Addrs : Count(reg', b) = Count(reg, b) - (IF Is(client[c], b) THEN 1 ELSE 0)
                                                          + (IF Is(x, b) THEN 1 ELSE 0)
      BY <1>3, <2>1, <2>2
    <3>2. IsFiniteSet(Clients) /\ x \in Client
      BY <2>1, <2>3 DEF Countable
    <3> HIDE DEF x
    <3> QED
      BY <1>0, <2>1, <2>3, <3>1, <3>2, CountsMove DEF x
  <2> QED
    BY <1>0, <2>1, <2>2, <2>3 DEF Kept
<1>5. ASSUME NEW r, NEW ks, Good(r, ks), RegOK(r), Gone(c), client[c].st \in Counted,
             \A b \in Addrs : Count(r, b) = Count(reg, b), Countable, Counts(client, reg)
      PROVE  Counts(client', Disconnected(r, a))
  <2>1. client'[c] = Nobody /\ (\A d \in Clients : d # c => client'[d] = client[d])
        /\ client' \in [Clients -> Client]
    BY <1>0, <1>2, <1>5 DEF Gone
  <2>2. Count(reg, a) > 0 /\ IsFiniteSet(Clients)
    BY <1>5, CountedHas DEF Countable
  <2>3. \A b \in Addrs : Is(client[c], b) <=> b = a
    BY <1>5 DEF Is
  <2> HIDE DEF a
  <2>4. \A b \in Addrs : Count(Disconnected(r, a), b)
                           = IF b = a THEN Count(r, a) - 1 ELSE Count(r, b)
    BY <1>0, <1>1, <1>5, <2>2, DisconnectedTracks
  <2>5. \A b \in Addrs : Count(Disconnected(r, a), b)
                           = Count(reg, b) - (IF Is(client[c], b) THEN 1 ELSE 0)
                                           + (IF Is(Nobody, b) THEN 1 ELSE 0)
    BY <1>1, <1>2, <1>3, <1>5, <2>3, <2>4
  <2> QED
    BY <1>0, <1>2, <1>5, <2>1, <2>2, <2>5, CountsMove
<1>6. CASE exit_one_client(c) /\ client[c].st \in Counted
  <2>1. reg' = Disconnected(reg, a) /\ Gone(c) /\ UNCHANGED <<now, reg48, streak, tries>>
    BY <1>6 DEF exit_one_client
  <2>2. Good(reg', streak')
    BY <1>0, <1>1, <2>1, DisconnectedTracks
  <2>3. client' \in [Clients -> Client]
    BY <1>0, <1>2, <2>1 DEF Gone
  <2>4. Countable /\ Counts(client, reg) => Counts(client', reg')
    BY <1>0, <1>5, <1>6, <2>1
  <2> QED
    BY <1>0, <2>1, <2>2, <2>3, <2>4 DEF Kept
<1>7. CASE exit_one_client(c) /\ client[c].st \notin Counted
  <2>1. reg' = reg /\ Gone(c) /\ UNCHANGED <<now, reg48, streak, tries>>
    BY <1>7 DEF exit_one_client
  <2>2. client' \in [Clients -> Client]
    BY <1>0, <1>2, <2>1 DEF Gone
  <2>3. ASSUME Countable, Counts(client, reg) PROVE Counts(client', reg')
    <3>1. \A b \in Addrs : Count(reg', b) = Count(reg, b) - (IF Is(client[c], b) THEN 1 ELSE 0)
                                                          + (IF Is(Nobody, b) THEN 1 ELSE 0)
      BY <1>2, <1>3, <1>7, <2>1 DEF Is
    <3>2. IsFiniteSet(Clients)
      BY <2>3 DEF Countable
    <3>3. client'[c] = Nobody /\ (\A d \in Clients : d # c => client'[d] = client[d])
      BY <1>0, <1>2, <2>1 DEF Gone
    <3> QED
      BY <1>0, <1>2, <2>2, <2>3, <3>1, <3>2, <3>3, CountsMove
  <2> QED
    BY <1>0, <2>1, <2>2, <2>3 DEF Kept
<1>8. CASE override(c)
  <2>1. /\ reg48' = Failed48(reg48, a) /\ reg' = Disconnected(Failed(a), a) /\ streak' = Undone(a)
        /\ Gone(c) /\ UNCHANGED <<now, tries>> /\ client[c].st \in Counted
    BY <1>8 DEF override, Counted
  <2> HIDE DEF a
  <2>2. /\ Good(Failed(a), Undone(a)) /\ RegOK(Failed(a))
        /\ \A b \in Addrs : Count(Failed(a), b) = Count(reg, b)
    BY <1>0, <1>1, FailedTracks DEF Good
  <2>3. Good(reg', streak')
    BY <1>0, <1>1, <2>1, <2>2, DisconnectedTracks
  <2>4. Reg48OK(reg48')
    BY <1>0, <2>1, Attempt48Is
  <2>5. client' \in [Clients -> Client]
    BY <1>0, <1>2, <2>1 DEF Gone
  <2>6. Countable /\ Counts(client, reg) => Counts(client', reg')
    BY <1>5, <2>1, <2>2 DEF a
  <2> QED
    BY <1>0, <2>1, <2>3, <2>4, <2>5, <2>6 DEF Kept
<1> QED
  BY <1>4, <1>6, <1>7, <1>8

(* A remote user signs on; a full counter refuses it and is left as it was. *)
LEMMA RemoteKept ==
  ASSUME Serving, NEW c \in Clients, NEW a \in Addrs, NEW burst \in BOOLEAN,
         register_remote(c, a, burst)
  PROVE  Kept
<1>0. /\ IPcheckAssumption /\ now \in 0..MaxTime /\ Good(reg, streak) /\ RegOK(reg)
      /\ Reg48OK(reg48) /\ client \in [Clients -> Client] /\ streak \in [Addrs -> Streak]
  BY ServingIs
<1>1. Try /\ reg48' = Attempt48(reg48, a) /\ client[c].st = "none"
  BY DEF register_remote
<1>2. now' = now /\ tries' \in 0..MaxTries /\ Reg48OK(reg48')
  BY <1>0, <1>1, TryIs, Attempt48Is
<1>3. CASE Has(reg, a) /\ Full(reg[a])
  <2> DEFINE R == Remote(reg, a, burst)
  <2>1. reg' = Disconnected(R, a) /\ UNCHANGED <<client, streak>>
    BY <1>3 DEF register_remote
  <2>2. Only(a, reg, R) /\ Has(R, a) /\ R[a] = RemoteOf(reg[a], burst) /\ reg[a] \in Entry
        /\ RegOK(R)
    BY <1>0, <1>3, RemoteIs DEF RegOK, Has, Only
  <2>3. R[a] \in Entry /\ R[a].connected = 0 /\ R[a].last = reg[a].last
        /\ R[a].attempts = reg[a].attempts
    BY <1>0, <1>3, <2>2, RemoteOfIs, SMTT(60)
  <2> HIDE DEF R
  <2>4. Good(R, streak)
    <3>1. streak[a] \in Streak /\ streak[a].at <= now /\ Keeps(now, reg[a], streak[a])
      BY <1>0, <1>3, GoodAt
    <3>2. Keeps(now, R[a], streak[a])
      BY <1>0, <2>2, <2>3, <3>1, SameKeeps
    <3> QED
      BY <1>0, <2>2, <3>2, OneTracksSame
  <2>5. Good(reg', streak')
    BY <1>0, <2>1, <2>4, DisconnectedTracks
  <2>6. \A b \in Addrs : Count(reg', b) = Count(reg, b)
    <3>1. Only(a, R, reg') /\ Has(reg', a) /\ reg'[a].connected = ConnectedMod - 1
      BY <1>0, <2>1, <2>2, <2>3, DisconnectedIs
    <3>2. reg[a].connected = ConnectedMod - 1
      BY <1>0, <1>3, <2>2, FullIs
    <3>3. \A b \in Addrs : b # a => Count(reg', b) = Count(R, b) /\ Count(R, b) = Count(reg, b)
      BY <2>2, <3>1, OneCounts
    <3> QED
      BY <1>3, <3>1, <3>2, <3>3 DEF Count
  <2>7. Counts(client, reg) => Counts(client', reg')
    BY <2>1, <2>6 DEF Counts
  <2> QED
    BY <1>0, <1>2, <2>1, <2>5, <2>7 DEF Kept
<1>4. CASE ~(Has(reg, a) /\ Full(reg[a]))
  <2> DEFINE x == [st |-> "remote", addr |-> a]
  <2>1. /\ reg' = Remote(reg, a, burst) /\ client' = [client EXCEPT ![c] = x]
        /\ burst => streak' = streak
        /\ ~burst => streak' = [streak EXCEPT ![a] = Streaked(@)]
    BY <1>4 DEF register_remote, Become
  <2>2. Good(Remote(reg, a, FALSE), [streak EXCEPT ![a] = Streaked(@)])
        /\ Good(Remote(reg, a, TRUE), streak)
    BY <1>0, <1>4, RemoteTracks
  <2>3. Good(reg', streak')
    <3>1. CASE burst
      BY <2>1, <2>2, <3>1
    <3>2. CASE ~burst
      BY <2>1, <2>2, <3>2
    <3> QED
      BY <3>1, <3>2
  <2>4. \A b \in Addrs : Count(reg', b) = IF b = a THEN Count(reg, a) + 1 ELSE Count(reg, b)
    <3>1. \A b \in Addrs : Count(Remote(reg, a, burst), b)
                             = IF b = a THEN Count(reg, a) + 1 ELSE Count(reg, b)
      BY <1>0, <1>4, RemoteTracks, ZenonT(60)
    <3> QED
      BY <2>1, <3>1, Zenon
  <2>5. x \in Client /\ \A b \in Addrs : (Is(x, b) <=> b = a) /\ ~Is(client[c], b)
    BY <1>1 DEF Client, States, Is, Counted
  <2> HIDE DEF x
  <2>6. client' \in [Clients -> Client]
    BY <1>0, <2>1, <2>5
  <2>7. ASSUME Countable, Counts(client, reg) PROVE Counts(client', reg')
    <3>1. \A b \in Addrs : Count(reg, b) \in Nat
      BY <1>0, CountType
    <3>2. \A b \in Addrs : Count(reg', b) = Count(reg, b) - (IF Is(client[c], b) THEN 1 ELSE 0)
                                                          + (IF Is(x, b) THEN 1 ELSE 0)
      BY <2>4, <2>5, <3>1
    <3>3. client'[c] = x /\ \A d \in Clients : d # c => client'[d] = client[d]
      BY <1>0, <2>1
    <3>4. IsFiniteSet(Clients)
      BY <2>7 DEF Countable
    <3> QED
      BY <1>0, <2>5, <2>6, <2>7, <3>2, <3>3, <3>4, CountsMove
  <2> QED
    BY <1>2, <2>3, <2>6, <2>7 DEF Kept
<1> QED
  BY <1>3, <1>4

(* iauth moves a client to another address.  The counter of that address   *)
(* is not full, because the client itself is not counted there.            *)
LEMMA IauthKept ==
  ASSUME Serving, NEW c \in Clients, NEW a \in Addrs, iauth_cmd_ip_address(c, a),
         Countable, Counts(client, reg)
  PROVE  Kept
<1>0. /\ IPcheckAssumption /\ now \in 0..MaxTime /\ Good(reg, streak) /\ RegOK(reg)
      /\ Reg48OK(reg48) /\ client \in [Clients -> Client] /\ streak \in [Addrs -> Streak]
  BY ServingIs
<1> DEFINE old == client[c].addr
           F == Failed(old)
           e == [F[old] EXCEPT !.connected = (@ - 1) % ConnectedMod]
           back == [F EXCEPT ![old].connected = (@ - 1) % ConnectedMod]
           x == [st |-> "local", addr |-> a]
<1>1. /\ Try /\ Iauth /\ client[c].st = "local"
      /\ reg' = Remote(back, a, FALSE) /\ reg48' = Attempt48(Failed48(reg48, old), a)
      /\ streak' = [Undone(old) EXCEPT ![a] = Streaked(@)]
      /\ client' = [client EXCEPT ![c] = x]
  BY DEF iauth_cmd_ip_address, Become
<1>2. now' = now /\ tries' \in 0..MaxTries
  BY <1>1, TryIs
<1>3. Reg48OK(reg48')
  <2>1. Reg48OK(Failed48(reg48, old))
    BY <1>0, Attempt48Is
  <2> QED
    BY <1>0, <1>1, <2>1, Attempt48Is
<1>4. /\ IsFiniteSet(Clients) /\ Cardinality(Clients) < ConnectedMod
      /\ ConnectedMod \in Nat \ {0, 1} /\ Cardinality(Clients) \in Nat
  BY <1>0, <1>1, FS_CardinalityType DEF Countable, IPcheckAssumption
<1>5. old \in Addrs /\ Is(client[c], old) /\ Has(reg, old) /\ Count(reg, old) > 0
  BY <1>1, <1>4, CountedHas DEF Counted
<1> HIDE DEF old
<1>6. /\ Good(F, Undone(old)) /\ RegOK(F) /\ Has(F, old)
      /\ \A b \in Addrs : Count(F, b) = Count(reg, b)
  BY <1>0, <1>5, FailedTracks DEF Good
<1> HIDE DEF F
<1>7. F[old] \in Entry /\ F[old].connected > 0
  BY <1>5, <1>6 DEF RegOK, Has, Count
<1>8. /\ e \in Entry /\ e.connected = F[old].connected - 1
      /\ e.last = F[old].last /\ e.attempts = F[old].attempts
  <2>1. (F[old].connected - 1) % ConnectedMod = F[old].connected - 1
        /\ F[old].connected - 1 \in 0..ConnectedMod - 1
    BY <1>0, <1>4, <1>7, FullIs DEF Entry
  <2> QED
    BY <1>7, <2>1 DEF Entry
<1>9. DOMAIN back = DOMAIN F /\ back[old] = e /\ \A b \in DOMAIN F : b # old => back[b] = F[b]
  BY <1>6 DEF Has
<1> HIDE DEF e, back
<1>10. Only(old, F, back) /\ Has(back, old) /\ back[old] = e /\ RegOK(back)
  BY <1>5, <1>6, <1>8, <1>9, ExceptIs DEF Only
<1>11. Good(back, Undone(old))
  <2>1. Undone(old)[old] \in Streak /\ Undone(old)[old].at <= now
        /\ Keeps(now, F[old], Undone(old)[old])
    BY <1>5, <1>6, GoodAt
  <2>2. Keeps(now, back[old], Undone(old)[old])
    BY <1>0, <1>7, <1>8, <1>10, <2>1, SameKeeps
  <2> QED
    BY <1>5, <1>6, <1>10, <2>2, OneTracksSame
<1>12. \A b \in Addrs : Count(back, b) = IF b = old THEN Count(reg, old) - 1 ELSE Count(reg, b)
  <2>1. \A b \in Addrs : b # old => Count(back, b) = Count(F, b)
    BY <1>5, <1>10, OneCounts
  <2>2. Count(back, old) = Count(F, old) - 1
    BY <1>6, <1>8, <1>10 DEF Count
  <2> QED
    BY <1>5, <1>6, <2>1, <2>2
<1>13. ~(Has(back, a) /\ Full(back[a]))
  <2>1. CASE a = old
    BY <1>0, <1>4, <1>7, <1>8, <1>10, <2>1, FullIs DEF Entry
  <2>2. CASE a # old
    <3>1. ~Is(client[c], a)
      BY <2>2 DEF Is, old
    <3>2. Cardinality(Members(client, a)) < Cardinality(Clients)
      BY <1>0, <1>4, <3>1, OthersFewer
    <3>3. Count(back, a) = Cardinality(Members(client, a))
      BY <1>12, <2>2 DEF Counts
    <3>4. Count(back, a) \in Nat
      BY <1>0, <1>10, CountType
    <3>5. Count(back, a) < ConnectedMod - 1
      BY <1>4, <3>2, <3>3, <3>4
    <3>6. Has(back, a) => back[a] \in Entry /\ back[a].connected # ConnectedMod - 1
      BY <1>4, <1>10, <3>4, <3>5 DEF Count, RegOK, Has
    <3> QED
      BY <1>0, <3>6, FullIs
  <2> QED
    BY <2>1, <2>2
<1>14. Good(reg', streak')
  BY <1>0, <1>1, <1>11, <1>13, RemoteTracks
<1>15. \A b \in Addrs : Count(reg', b) = IF b = a THEN Count(back, a) + 1 ELSE Count(back, b)
  <2>1. \A b \in Addrs : Count(Remote(back, a, FALSE), b)
                           = IF b = a THEN Count(back, a) + 1 ELSE Count(back, b)
    BY <1>0, <1>11, <1>13, RemoteTracks, ZenonT(60)
  <2> QED
    BY <1>1, <2>1, Zenon
<1>16. x \in Client /\ \A b \in Addrs : (Is(x, b) <=> b = a) /\ (Is(client[c], b) <=> b = old)
  BY <1>1 DEF Client, States, Is, Counted, old
<1> HIDE DEF x
<1>17. client' \in [Clients -> Client] /\ client'[c] = x
       /\ \A d \in Clients : d # c => client'[d] = client[d]
  BY <1>0, <1>1, <1>16
<1>18. Counts(client', reg')
  <2>1. \A b \in Addrs : Count(reg, b) \in Nat
    BY <1>0, CountType
  <2>2. \A b \in Addrs : Count(reg', b) = Count(reg, b) - (IF Is(client[c], b) THEN 1 ELSE 0)
                                                        + (IF Is(x, b) THEN 1 ELSE 0)
    BY <1>12, <1>15, <1>16, <2>1
  <2> QED
    BY <1>0, <1>4, <1>16, <1>17, <2>2, CountsMove
<1> QED
  BY <1>2, <1>3, <1>14, <1>17, <1>18 DEF Kept

(* The timer frees nothing that counts a client or a streak. *)
LEMMA ExpireKept ==
  ASSUME Serving, ip_registry_expire
  PROVE  Kept
<1>0. /\ IPcheckAssumption /\ now \in 0..MaxTime /\ Good(reg, streak) /\ RegOK(reg)
      /\ Reg48OK(reg48) /\ client \in [Clients -> Client] /\ streak \in [Addrs -> Streak]
      /\ tries \in 0..MaxTries
  BY ServingIs
<1>1. UNCHANGED <<now, client, streak, tries>>
  BY DEF ip_registry_expire
<1>2. Reg48OK(reg48')
  BY <1>0 DEF ip_registry_expire, Reg48OK
<1>3. RegOK(reg') /\ \A a \in Addrs : (Has(reg', a) <=> Has(reg, a) /\ ~Freed(a))
                                      /\ (Has(reg', a) => reg'[a] = reg[a])
  BY <1>0 DEF ip_registry_expire, RegOK, Has
<1>4. ASSUME NEW a \in Addrs, Has(reg, a), Freed(a)
      PROVE  reg[a].connected = 0 /\ ~Due(now, streak[a])
  <2>1. streak[a] \in Streak /\ Keeps(now, reg[a], streak[a]) /\ reg[a] \in Entry
    BY <1>0, <1>4, GoodAt
  <2> QED
    BY <1>0, <1>4, <2>1, NotForgotten DEF Freed
<1>5. Good(reg', streak')
  BY <1>0, <1>1, <1>3, <1>4 DEF Good, Tracks
<1>6. \A a \in Addrs : Count(reg', a) = Count(reg, a)
  BY <1>3, <1>4 DEF Count
<1>7. Counts(client, reg) => Counts(client', reg')
  BY <1>1, <1>6 DEF Counts
<1> QED
  BY <1>0, <1>1, <1>2, <1>5, <1>7 DEF Kept

(* A second passes: what is due then was due before. *)
LEMMA TickTracks ==
  ASSUME Serving, Tick
  PROVE  TypeOK' /\ Tracks(now', reg', streak')
<1>0. /\ IPcheckAssumption /\ now \in 0..MaxTime /\ streak \in [Addrs -> Streak] /\ RegOK(reg)
      /\ Tracks(now, reg, streak)
  BY ServingIs DEF Good
<1>1. now' = now + 1 /\ now' \in 0..MaxTime /\ UNCHANGED <<reg, reg48, client, streak, tries>>
  BY <1>0 DEF Tick, IPcheckAssumption
<1>2. TypeOK'
  BY <1>1 DEF Serving, TypeOK
<1>3. ASSUME NEW k \in Streak, Due(now + 1, k) PROVE Due(now, k)
  BY <1>0, <1>3 DEF Due, Streak, IPcheckAssumption
<1>4. ASSUME NEW a \in Addrs
      PROVE  /\ streak[a].at <= now + 1
             /\ Has(reg, a) => Keeps(now + 1, reg[a], streak[a])
             /\ ~Has(reg, a) => ~Due(now + 1, streak[a])
  <2>1. /\ streak[a] \in Streak /\ streak[a].at <= now
        /\ Has(reg, a) => reg[a] \in Entry /\ Keeps(now, reg[a], streak[a])
        /\ ~Has(reg, a) => ~Due(now, streak[a])
    BY <1>0 DEF Tracks, RegOK, Has
  <2>2. Due(now + 1, streak[a]) => Due(now, streak[a])
    BY <1>3, <2>1
  <2>3. streak[a].at <= now + 1
    BY <1>0, <2>1 DEF Streak
  <2>4. Has(reg, a) => reg[a].last <= now + 1
    BY <1>0, <2>1 DEF Keeps, Entry
  <2> QED
    BY <2>1, <2>2, <2>3, <2>4 DEF Keeps
<1>5. Tracks(now + 1, reg, streak)
  BY <1>4 DEF Tracks
<1> QED
  BY <1>1, <1>2, <1>5

(* The inductive invariant of the streaks. *)
Tracked == TypeOK /\ Tracks(now, reg, streak)

(* A step that takes no time keeps the invariants. *)
LEMMA KeptTracked ==
  ASSUME Tracked, Kept
  PROVE  Tracked' /\ (Countable /\ ConnectedIsCount => ConnectedIsCount')
<1>1. now' = now /\ RegOK(reg') /\ streak' \in [Addrs -> Streak] /\ Tracks(now, reg', streak')
  BY DEF Kept, Good
<1>2. TypeOK'
  BY <1>1 DEF Kept, Tracked, TypeOK, RegOK, Reg48OK
<1>3. Tracks(now', reg', streak')
  BY <1>1
<1>4. Countable /\ ConnectedIsCount => Counts(client', reg')
  BY CountsIs DEF Kept
<1>5. Counts(client', reg') => ConnectedIsCount'
  BY DEF ConnectedIsCount, Counts, Members, Is, At, Count, Has
<1> QED
  BY <1>2, <1>3, <1>4, <1>5 DEF Tracked

(* Every step keeps the invariants. *)
LEMMA TrackedStep ==
  ASSUME IPcheckAssumption, Tracked, Iauth => Countable /\ ConnectedIsCount, [Next]_vars
  PROVE  Tracked' /\ (Countable /\ ConnectedIsCount => ConnectedIsCount')
<1>0. Serving
  BY DEF Serving, Tracked
<1>1. CASE UNCHANGED vars
  BY <1>1 DEF vars, Tracked, TypeOK, ConnectedIsCount, At, Has
<1>2. CASE Tick
  <2>1. Tracked'
    BY <1>0, <1>2, TickTracks DEF Tracked
  <2>2. ConnectedIsCount => ConnectedIsCount'
    BY <1>2 DEF Tick, ConnectedIsCount, At, Has
  <2> QED
    BY <2>1, <2>2
<1>3. CASE ip_registry_expire
  BY <1>0, <1>3, ExpireKept, KeptTracked
<1>4. ASSUME NEW c \in Clients, NEW a \in Addrs,
             add_connection(c, a) \/ auth_spoof_user(c, a) \/ iauth_cmd_ip_address(c, a)
      PROVE  Kept
  <2>1. CASE iauth_cmd_ip_address(c, a)
    <3>1. Countable /\ Counts(client, reg)
      BY <2>1, CountsIs DEF iauth_cmd_ip_address
    <3> QED
      BY <1>0, <2>1, <3>1, IauthKept
  <2>2. CASE add_connection(c, a) \/ auth_spoof_user(c, a)
    BY <1>0, <2>2, ConnectKept
  <2> QED
    BY <1>4, <2>1, <2>2
<1>5. ASSUME NEW c \in Clients, NEW a \in Addrs, NEW burst \in BOOLEAN,
             register_remote(c, a, burst)
      PROVE  Kept
  BY <1>0, <1>5, RemoteKept
<1>6. ASSUME NEW c \in Clients,
             add_webirc(c) \/ register_user(c) \/ override(c) \/ exit_one_client(c)
      PROVE  Kept
  BY <1>0, <1>6, LeaveKept
<1> QED
  BY <1>1, <1>2, <1>3, <1>4, <1>5, <1>6, KeptTracked DEF Next

(* They hold at first. *)
LEMMA TrackedInit ==
  ASSUME IPcheckAssumption, Init
  PROVE  Tracked /\ (IsFiniteSet(Clients) => ConnectedIsCount)
<1>1. now \in 0..MaxTime /\ tries \in 0..MaxTries /\ now = 0
  BY DEF Init, IPcheckAssumption
<1>2. RegOK(reg) /\ Reg48OK(reg48) /\ \A a : ~Has(reg, a)
  BY DEF Init, RegOK, Reg48OK, Has
<1>3. client \in [Clients -> Client]
  BY NobodyIs DEF Init
<1>4. NoStreak \in Streak /\ NoStreak.at = 0 /\ ~(NoStreak.count > 0)
  BY DEF NoStreak, Streak, IPcheckAssumption
<1>5. streak \in [Addrs -> Streak] /\ \A a \in Addrs : streak[a] = NoStreak
  BY <1>4 DEF Init
<1>6. Tracks(now, reg, streak)
  BY <1>1, <1>2, <1>4, <1>5 DEF Tracks, Due
<1>7. ConnectedIsCount
  <2>1. \A a \in Addrs : At(a) = {}
    BY NobodyIs DEF Init, At, Is
  <2> QED
    BY <1>2, <2>1, FS_EmptySet DEF ConnectedIsCount
<1> QED
  BY <1>1, <1>2, <1>3, <1>5, <1>6, <1>7, TypeIs DEF Tracked
-----------------------------------------------------------------------------
(* The counter of an address is the number of its connections and users,   *)
(* whatever the numbers of clients and addresses and the widths, as long   *)
(* as add_connection never returns after it has counted (the finding of    *)
(* ip_leak) and, where iauth changes addresses, the users that share one   *)
(* do not fill the counter, which iauth_cmd_ip_address does not look at.   *)
THEOREM CounterIsRight ==
  ASSUME Countable
  PROVE  Spec => []ConnectedIsCount
<1> USE IPcheckAssumption
<1>1. Init => Tracked /\ ConnectedIsCount
  BY TrackedInit DEF Countable
<1>2. Tracked /\ ConnectedIsCount /\ [Next]_vars => (Tracked /\ ConnectedIsCount)'
  BY TrackedStep
<1> QED
  BY <1>1, <1>2, PTL DEF Spec

(* Without iauth the streaks need no assumption on the counters. *)
LEMMA AlwaysTracked ==
  ASSUME Iauth => Countable
  PROVE  Spec => []Tracked
<1> USE IPcheckAssumption
<1>1. Init => Tracked
  BY TrackedInit
<1>2. CASE Iauth
  <2>1. Spec => []ConnectedIsCount
    BY <1>2, CounterIsRight
  <2>2. Tracked /\ ConnectedIsCount /\ [Next]_vars => Tracked'
    BY <1>2, TrackedStep
  <2> QED
    BY <1>1, <2>1, <2>2, PTL DEF Spec
<1>3. CASE ~Iauth
  <2>1. Tracked /\ [Next]_vars => Tracked'
    BY <1>3, TrackedStep
  <2> QED
    BY <1>1, <2>1, PTL DEF Spec
<1> QED
  BY <1>2, <1>3

(* The registry forgets no connect of a streak, for every width of the     *)
(* clock and of attempts: disconnects, expiry, bursts, throttled attempts  *)
(* of the /48 block and the wrap of the 16-bit clock included.             *)
THEOREM StreaksRemembered ==
  ASSUME Iauth => Countable
  PROVE  Spec => []StreakIsRemembered
<1>1. Tracked => StreakIsRemembered
  BY DEF Tracked, Tracks, Keeps, Due, StreakIsRemembered
<1> QED
  BY <1>1, AlwaysTracked, PTL

(* No connection that makes CLONE_LIMIT connects in close succession is    *)
(* admitted by ip_registry_check_local.  A limit of 1 would not be met:    *)
(* the first connect of an address is never refused.                       *)
THEOREM FastClonesRefused ==
  ASSUME Iauth => Countable, CLONE_LIMIT > 1
  PROVE  Spec => NoFastClones
<1> USE IPcheckAssumption
<1> DEFINE A == \A c \in Clients : Admitted(c) /\ now > CLONE_DELAY =>
                  Remembered(streak'[client'[c].addr]) < CLONE_LIMIT
<1>1. ASSUME Tracked, [Next]_vars PROVE [A]_vars
  <2> SUFFICES ASSUME NEW c \in Clients, Admitted(c), now > CLONE_DELAY, Next
               PROVE  Remembered(streak'[client'[c].addr]) < CLONE_LIMIT
    BY <1>1
  <2>0. Serving
    BY <1>1 DEF Serving, Tracked
  <2>1. client \in [Clients -> Client] /\ client[c] \in Client /\ Good(reg, streak)
        /\ now \in 0..MaxTime
    BY <2>0, ServingIs
  <2>2. client[c].st \in {"none", "webirc"} /\ client'[c].st = "local"
    BY DEF Admitted
  <2>3. PICK a \in Addrs : /\ check_local(a) /\ ~Refused(a) /\ client'[c].addr = a
    <3>1. ASSUME NEW d \in Clients,
                 \/ add_webirc(d) \/ register_user(d) \/ override(d) \/ exit_one_client(d)
                 \/ \E a \in Addrs : \/ iauth_cmd_ip_address(d, a)
                                     \/ \E burst \in BOOLEAN : register_remote(d, a, burst)
          PROVE  FALSE
      <4>1. \A f \in Clients : f # d => client'[f] = client[f]
        BY <2>1, <3>1 DEF add_webirc, register_user, override, exit_one_client,
             iauth_cmd_ip_address, register_remote, Become, Gone
      <4>2. d = c
        BY <2>2, <4>1
      <4>3. client[d].st = "local" \/ client'[d].st # "local"
        <5>1. CASE add_webirc(d)
          BY <2>1, <5>1 DEF add_webirc, Client
        <5>2. CASE override(d) \/ exit_one_client(d)
          BY <2>1, <5>2 DEF override, exit_one_client, Gone, Nobody
        <5>3. CASE register_user(d) \/ \E a \in Addrs : iauth_cmd_ip_address(d, a)
          BY <5>3 DEF register_user, iauth_cmd_ip_address
        <5>4. ASSUME NEW a \in Addrs, NEW burst \in BOOLEAN, register_remote(d, a, burst)
              PROVE  client[d].st = "local" \/ client'[d].st # "local"
          BY <2>1, <5>4 DEF register_remote, Become
        <5> QED
          BY <3>1, <5>1, <5>2, <5>3, <5>4
      <4> QED
        BY <2>2, <4>2, <4>3
    <3>2. ~ip_registry_expire /\ ~Tick
      BY <2>2 DEF ip_registry_expire, Tick
    <3>3. PICK d \in Clients, a \in Addrs : add_connection(d, a) \/ auth_spoof_user(d, a)
      BY <3>1, <3>2 DEF Next
    <3>4. check_local(a) /\ ~Refused(a) /\ client'[c].addr = a
      BY <2>1, <2>2, <3>3 DEF add_connection, auth_spoof_user, Become, Gone, Nobody
    <3> QED
      BY <3>4
  <2>4. /\ Good(reg', streak') /\ Has(reg', a)
        /\ streak'[a].at = now /\ streak'[a].count > 0
        /\ reg'[a].attempts < CLONE_LIMIT \/ reg'[a].attempts = 1
    BY <2>1, <2>3, CheckLocal
  <2>5. streak'[a] \in Streak /\ Keeps(now, reg'[a], streak'[a]) /\ reg'[a] \in Entry
    BY <2>4, GoodAt
  <2>6. Remembered(streak'[a]) \in Int
    BY <2>5, RememberedType
  <2>7. Remembered(streak'[a]) > 0 => reg'[a].attempts >= Remembered(streak'[a])
    BY <2>1, <2>4, <2>5 DEF Keeps, Due, IPcheckAssumption
  <2> QED
    BY <2>3, <2>4, <2>5, <2>6, <2>7 DEF Entry, IPcheckAssumption
<1>2. Spec => []Tracked
  BY AlwaysTracked
<1> QED
  BY <1>1, <1>2, PTL DEF Spec, NoFastClones
=============================================================================
