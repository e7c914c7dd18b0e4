------------------------------ MODULE IPcheck ------------------------------
(***************************************************************************)
(* The registry of client addresses (IPcheck.c) and its callers: accepting *)
(* a connection (add_connection in s_bsd.c), WEBIRC and iauth changes of   *)
(* the address (s_auth.c), sign-on of local and remote users               *)
(* (register_user in s_user.c), the sign-on that overrides a waiting one   *)
(* (m_nick.c) and exit_one_client (s_misc.c).                              *)
(*                                                                         *)
(* An entry counts the clients of an address and its recent connection     *)
(* attempts; IPv6 addresses also share an entry per /48 block.  Counters   *)
(* have their widths, and the registry's clock has 16 bits.  Free targets  *)
(* and invalid addresses are left out.                                     *)
(*                                                                         *)
(* last_connect is always assigned NOW; an entry keeps the second in which *)
(* that happened, and every use takes it modulo the width of NOW.          *)
(***************************************************************************)
EXTENDS Integers, FiniteSets

CONSTANTS
  Clients,
  Addrs, V6,      \* canonical addresses; those of one IPv6 /48 block
  ClockMod,       \* 2^16: NOW is CurrentTime & 0xffff
  Boot,           \* CurrentTime & 0xffff when the server started
  ConnectedMod,   \* 2^16: width of connected
  AttemptsMod,    \* 2^8: width of attempts
  Attempts48Mod,  \* 2^16: width of attempts of a /48 block
  CLONE_LIMIT, CLONE_PERIOD, CLONE_LIMIT_48, CLONE_PERIOD_48, CLONE_DELAY,
  Expiry,         \* 600 seconds
  AcceptFails,    \* TRUE when socket_add or ssl_accept may fail
  Bursts,         \* TRUE when users arrive in net bursts
  Iauth,          \* TRUE when an iauth program changes addresses
  MaxTime,        \* bound: seconds
  MaxTries        \* bound: connection attempts

ASSUME IPcheckAssumption ==
  /\ Addrs # {} /\ V6 \subseteq Addrs
  /\ ClockMod \in Nat \ {0} /\ Boot \in 0..ClockMod - 1 /\ ConnectedMod \in Nat \ {0, 1}
  /\ AttemptsMod \in Nat \ {0, 1} /\ Attempts48Mod \in Nat \ {0, 1}
  /\ CLONE_LIMIT \in Nat \ {0} /\ CLONE_PERIOD \in Nat /\ CLONE_DELAY \in Nat
  /\ CLONE_LIMIT_48 \in Nat /\ CLONE_PERIOD_48 \in Nat
  /\ CLONE_LIMIT < AttemptsMod /\ CLONE_PERIOD <= Expiry
  /\ Expiry \in Nat /\ MaxTime \in Nat /\ MaxTries \in Nat
  /\ AcceptFails \in BOOLEAN /\ Bursts \in BOOLEAN /\ Iauth \in BOOLEAN

VARIABLES
  now,      \* CurrentTime - cli_since(&me)
  reg,      \* hashTable: address -> entry, for the addresses that have one
  reg48,    \* hashTable48: the entry of the /48 block, if it has one
  client,   \* the connections and users
  streak,   \* history, per address: the counted connects, each within
            \* CLONE_PERIOD of the one before, and the ones undone since
  tries

vars == <<now, reg, reg48, client, streak, tries>>
-----------------------------------------------------------------------------
Entry == [last : 0..MaxTime, connected : 0..ConnectedMod - 1, attempts : 0..AttemptsMod - 1]
Entry48 == [last : 0..MaxTime, attempts : 0..Attempts48Mod - 1]
(* "lost" is a connection whose set-up failed after it was counted. *)
States == {"none", "webirc", "local", "user", "remote", "lost"}
Client == [st : States, addr : Addrs]
Streak == [at : 0..MaxTime, count : Nat, undone : Nat]
Block == "48"

(* The clients that have FLAG_IPCHECK. *)
Counted == {"local", "user", "remote"}

Stamp(x) == (Boot + x) % ClockMod
NOW == Stamp(now)
CONNECTED_SINCE(x) == NOW - Stamp(x)

(* if (0 == ++x) --x *)
Raise(x, mod) == IF (x + 1) % mod = 0 THEN x ELSE x + 1

(* if (0 == --x) ++x *)
Lower(x, mod) == IF x = 1 THEN 1 ELSE (x - 1) % mod

Has(f, x) == x \in DOMAIN f
Set(f, x, e) == [y \in DOMAIN f \cup {x} |-> IF y = x THEN e ELSE f[y]]

(* The block's entry in r; one is made when there is none. *)
ip_48_find(r) == IF Has(r, Block) THEN r[Block] ELSE [last |-> now, attempts |-> 0]

(* One more attempt from the block of a, and one taken back. *)
Attempt48(r, a) ==
  IF a \notin V6 THEN r
  ELSE LET e   == ip_48_find(r)
           old == IF CONNECTED_SINCE(e.last) > CLONE_PERIOD_48 THEN 0 ELSE e.attempts
       IN Set(r, Block, [last |-> now, attempts |-> Raise(old, Attempts48Mod)])
Failed48(r, a) ==
  IF a \notin V6 THEN r
  ELSE Set(r, Block, [ip_48_find(r) EXCEPT !.attempts = Lower(@, Attempts48Mod)])

Throttled48(a) ==
  a \in V6 /\ Attempt48(reg48, a)[Block].attempts >= CLONE_LIMIT_48 /\ now > CLONE_DELAY

(* Mutant: the attempts are forgotten a second early. *)
RecentShort(e) == IF CONNECTED_SINCE(e.last) >= CLONE_PERIOD THEN 0 ELSE e.attempts
(* The attempts of e, forgotten after a quiet period. *)
Recent(e) == IF CONNECTED_SINCE(e.last) > CLONE_PERIOD THEN 0 ELSE e.attempts

Full(e) == (e.connected + 1) % ConnectedMod = 0
Attempted(e) == [e EXCEPT !.attempts = Raise(Recent(e), AttemptsMod), !.last = now]
TooFast(e) == Attempted(e).attempts >= CLONE_LIMIT /\ now > CLONE_DELAY
NewEntry == [last |-> now, connected |-> 1, attempts |-> 1]

(* History: the streak k with one more connect; one of a's taken back. *)
Streaked(k) ==
  IF k.count > 0 /\ now - k.at <= CLONE_PERIOD
    THEN [at |-> now, count |-> k.count + 1, undone |-> k.undone]
    ELSE [at |-> now, count |-> 1, undone |-> 0]
Undone(a) == [streak EXCEPT ![a].undone = @ + 1]

(* ip_registry_check_local: whether it refuses a, and what it changes. *)
Refused(a) ==
  \/ Throttled48(a)
  \/ Has(reg, a) /\ (Full(reg[a]) \/ TooFast(reg[a]))
check_local(a) ==
  /\ reg48' = Attempt48(reg48, a)
  /\ \/ /\ Throttled48(a)
        /\ reg' = IF Has(reg, a) THEN [reg EXCEPT ![a].last = now] ELSE reg
        /\ UNCHANGED streak
     \/ /\ ~Throttled48(a) /\ ~Has(reg, a)
        /\ reg' = Set(reg, a, NewEntry)
        /\ streak' = [streak EXCEPT ![a] = Streaked(@)]
     \/ /\ ~Throttled48(a) /\ Has(reg, a) /\ Full(reg[a])
        /\ UNCHANGED <<reg, streak>>
     \/ /\ ~Throttled48(a) /\ Has(reg, a) /\ ~Full(reg[a])
        /\ LET e == Attempted(reg[a])
           IN reg' = [reg EXCEPT ![a] = IF TooFast(reg[a]) THEN e
                                        ELSE [e EXCEPT !.connected = @ + 1]]
        /\ streak' = [streak EXCEPT ![a] = Streaked(@)]

(* ip_registry_check_remote on registry r: a full counter wraps to 0. *)
Remote(r, a, burst) ==
  IF ~Has(r, a) THEN Set(r, a, [NewEntry EXCEPT !.attempts = IF burst THEN 0 ELSE 1])
  ELSE LET e == r[a]
       IN [r EXCEPT ![a] =
            IF Full(e) THEN [e EXCEPT !.connected = 0]
            ELSE IF burst THEN [e EXCEPT !.connected = @ + 1, !.attempts = Recent(e)]
            ELSE [Attempted(e) EXCEPT !.connected = e.connected + 1]]

(* ip_registry_connect_fail. *)
Failed(a) == [b \in DOMAIN reg |-> IF b = a THEN [reg[b] EXCEPT !.attempts = Lower(@, AttemptsMod)]
                                   ELSE reg[b]]

(* Mutant: the last disconnect always forgets the attempts. *)
DisconnectForgets(r, a) ==
  [b \in DOMAIN r |->
    LET e    == r[b]
        left == (e.connected - 1) % ConnectedMod
    IN IF b # a THEN e
       ELSE IF left # 0 THEN [e EXCEPT !.connected = left]
       ELSE [last |-> now, connected |-> 0, attempts |-> 0]]

(* ip_registry_disconnect on registry r. *)
Disconnected(r, a) ==
  [b \in DOMAIN r |->
    LET e    == r[b]
        left == (e.connected - 1) % ConnectedMod
        long == CONNECTED_SINCE(e.last) > CLONE_LIMIT * CLONE_PERIOD
    IN IF b # a THEN e
       ELSE IF left # 0 THEN [e EXCEPT !.connected = left]
       ELSE [last |-> now, connected |-> 0, attempts |-> IF long THEN 0 ELSE e.attempts]]
-----------------------------------------------------------------------------
Try == tries < MaxTries /\ tries' = tries + 1 /\ UNCHANGED now
Become(c, st, a) == client' = [client EXCEPT ![c] = [st |-> st, addr |-> a]]
Nobody == [st |-> "none", addr |-> CHOOSE a \in Addrs : TRUE]
Gone(c) == client' = [client EXCEPT ![c] = Nobody]

(* add_connection on a user port.  A failure of socket_add or ssl_accept   *)
(* returns after the address was counted.                                  *)
add_connection(c, a) ==
  /\ client[c].st = "none"
  /\ Try
  /\ check_local(a)
  /\ \/ Refused(a) /\ UNCHANGED client
     \/ ~Refused(a) /\ Become(c, "local", a)
     \/ ~Refused(a) /\ AcceptFails /\ Become(c, "lost", a)

(* add_connection on a WEBIRC or PROXY port, then auth_spoof_user with the *)
(* address of the user.                                                    *)
add_webirc(c) ==
  /\ client[c].st = "none"
  /\ client' = [client EXCEPT ![c].st = "webirc"]
  /\ UNCHANGED <<now, reg, reg48, streak, tries>>

auth_spoof_user(c, a) ==
  /\ client[c].st = "webirc"
  /\ Try
  /\ check_local(a)
  /\ IF Refused(a) THEN Gone(c) ELSE Become(c, "local", a)

(* Mutant: the old address is not counted out. *)
IauthKeepsOld(c, a) ==
  /\ client[c].st = "local" /\ Iauth
  /\ Try
  /\ LET old == client[c].addr
     IN /\ reg' = Remote(Failed(old), a, FALSE)
        /\ reg48' = Attempt48(Failed48(reg48, old), a)
        /\ streak' = [Undone(old) EXCEPT ![a] = Streaked(@)]
  /\ Become(c, "local", a)

(* iauth_cmd_ip_address: the client moves to address a; a full counter is  *)
(* not looked at.                                                          *)
iauth_cmd_ip_address(c, a) ==
  /\ client[c].st = "local" /\ Iauth
  /\ Try
  /\ LET old  == client[c].addr
         back == [Failed(old) EXCEPT ![old].connected = (@ - 1) % ConnectedMod]
     IN /\ reg' = Remote(back, a, FALSE)
        /\ reg48' = Attempt48(Failed48(reg48, old), a)
        /\ streak' = [Undone(old) EXCEPT ![a] = Streaked(@)]
  /\ Become(c, "local", a)

register_user(c) ==
  /\ client[c].st = "local"
  /\ client' = [client EXCEPT ![c].st = "user"]
  /\ UNCHANGED <<now, reg, reg48, streak, tries>>

(* register_user of a remote user; refused when the counter is full, and   *)
(* then exited in the same step: the counter has wrapped to 0, and         *)
(* counting the user out wraps it back.  A build that keeps the assertions *)
(* (the default) stops at IPcheck.c:569 instead (CountedOutOfSome).        *)
register_remote(c, a, burst) ==
  /\ client[c].st = "none"
  /\ burst => Bursts
  /\ Try
  /\ reg48' = Attempt48(reg48, a)
  /\ IF Has(reg, a) /\ Full(reg[a])
       THEN /\ reg' = Disconnected(Remote(reg, a, burst), a)
            /\ UNCHANGED <<client, streak>>
       ELSE /\ reg' = Remote(reg, a, burst)
            /\ Become(c, "remote", a)
            /\ IF burst THEN UNCHANGED streak
               ELSE streak' = [streak EXCEPT ![a] = Streaked(@)]

(* "Overridden by other sign on": the attempt is taken back, then exit. *)
override(c) ==
  /\ client[c].st = "local"
  /\ LET a == client[c].addr
     IN /\ reg48' = Failed48(reg48, a)
        /\ reg' = Disconnected(Failed(a), a)
        /\ streak' = Undone(a)
  /\ Gone(c)
  /\ UNCHANGED <<now, tries>>

exit_one_client(c) ==
  /\ client[c].st \in Counted \cup {"webirc"}
  /\ reg' = IF client[c].st \in Counted THEN Disconnected(reg, client[c].addr) ELSE reg
  /\ Gone(c)
  /\ UNCHANGED <<now, reg48, streak, tries>>

(* The timer: entries without clients, and blocks, that are too old. *)
Old(e) == CONNECTED_SINCE(e.last) > Expiry
Freed(a) == reg[a].connected = 0 /\ Old(reg[a])
ip_registry_expire ==
  /\ reg' = [a \in {x \in DOMAIN reg : ~Freed(x)} |-> reg[a]]
  /\ reg48' = [b \in {x \in DOMAIN reg48 : ~Old(reg48[x])} |-> reg48[b]]
  /\ UNCHANGED <<now, client, streak, tries>>

Tick == now < MaxTime /\ now' = now + 1 /\ UNCHANGED <<reg, reg48, client, streak, tries>>
-----------------------------------------------------------------------------
NoStreak == [at |-> 0, count |-> 0, undone |-> 0]

Init ==
  /\ now = 0 /\ tries = 0
  /\ reg = <<>> /\ reg48 = <<>>
  /\ client = [c \in Clients |-> Nobody]
  /\ streak = [a \in Addrs |-> NoStreak]

Next ==
  \/ \E c \in Clients :
       \/ \E a \in Addrs :
            \/ add_connection(c, a)
            \/ auth_spoof_user(c, a)
            \/ iauth_cmd_ip_address(c, a)
            \/ \E burst \in BOOLEAN : register_remote(c, a, burst)
       \/ add_webirc(c) \/ register_user(c) \/ override(c) \/ exit_one_client(c)
  \/ ip_registry_expire
  \/ Tick

Spec == Init /\ [][Next]_vars
-----------------------------------------------------------------------------
(* Every variable has its type. *)
TypeOK ==
  /\ now \in 0..MaxTime /\ tries \in 0..MaxTries
  /\ DOMAIN reg \subseteq Addrs /\ \A a \in DOMAIN reg : reg[a] \in Entry
  /\ DOMAIN reg48 \subseteq {Block} /\ \A b \in DOMAIN reg48 : reg48[b] \in Entry48
  /\ client \in [Clients -> Client]
  /\ streak \in [Addrs -> Streak]

(* The counter of an address, which class limits and the refusal of an     *)
(* overflow rely on, is the number of its counted connections and users:   *)
(* each is counted out once whichever way it leaves, also when the counter *)
(* is full and a user is refused after it was counted, and no entry is     *)
(* expired under a client (ip_registry_disconnect would find none).        *)
At(a) == {c \in Clients : client[c].st \in Counted /\ client[c].addr = a}
ConnectedIsCount ==
  \A a \in Addrs : Cardinality(At(a)) = IF Has(reg, a) THEN reg[a].connected ELSE 0

(* While the connects of an address follow each other closely, the         *)
(* registry remembers them all, up to the width of attempts and less the   *)
(* ones that were taken back: neither a disconnect, an expiry, a burst nor *)
(* the wrap of the 16-bit clock lets the address start afresh.             *)
Width == AttemptsMod - 1
Remembered(k) == (IF k.count < Width THEN k.count ELSE Width) - k.undone
StreakIsRemembered ==
  \A a \in Addrs :
    LET k == streak[a]
    IN k.count > 0 /\ now - k.at <= CLONE_PERIOD /\ Remembered(k) > 0
         => Has(reg, a) /\ reg[a].attempts >= Remembered(k)

(* Once CLONE_DELAY has passed, a connection that makes CLONE_LIMIT        *)
(* connects in close succession is not admitted (add_connection and        *)
(* auth_spoof_user), whatever else happened to the entry in between.  The  *)
(* documentation allows one more: see LimitIsAllowed.                      *)
Admitted(c) == client[c].st \in {"none", "webirc"} /\ client'[c].st = "local"
NoFastClones ==
  [][\A c \in Clients :
       Admitted(c) /\ now > CLONE_DELAY => Remembered(streak'[client'[c].addr]) < CLONE_LIMIT]_vars

(* doc/readme.features:828, IPCHECK_CLONE_LIMIT is "the number of times    *)
(* you are allowed to connect within IPCHECK_CLONE_PERIOD seconds before   *)
(* you are ... throttled": only a connect beyond the limit is refused.     *)
(* Does not hold when the limit is above 1: the connect that makes the     *)
(* limit is refused (IPcheck.c:420).                                       *)
LimitIsAllowed ==
  \A a \in DOMAIN reg : TooFast(reg[a]) => Streaked(streak[a]).count > CLONE_LIMIT

(* IPcheck.c:569, assert(entry->connected > 0) in ip_registry_disconnect:  *)
(* who is counted out was counted.  Does not hold for the remote user that *)
(* a full counter refuses (IPcheck.c:484): it has just wrapped to 0.       *)
CountedOutOfSome == \A a \in DOMAIN reg : Remote(reg, a, FALSE)[a].connected > 0
=============================================================================
