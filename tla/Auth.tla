-------------------------------- MODULE Auth --------------------------------
(***************************************************************************)
(* The way of a new connection from accept to registration or refusal:     *)
(* s_auth.c with the callers of m_user.c, m_nick.c, m_pong.c, m_cap.c,     *)
(* m_pass.c, m_webirc.c, m_proxy.c, add_connection of s_bsd.c and          *)
(* check_pings of ircd.c.                                                  *)
(*                                                                         *)
(* A connection has an authorization request whose flags say what is still *)
(* awaited: the resolver, the ident server, the client's own NICK, USER,   *)
(* PONG and CAP END, and the iauth process.  All of them answer in any     *)
(* order, late or never; requests are recycled through a free list and     *)
(* file descriptors are reused, so a late answer may meet another client.  *)
(* The resolver is seen through its interface (module Resolver shows what  *)
(* it does), the iauth process is any program that speaks its protocol.    *)
(***************************************************************************)
EXTENDS Naturals, Sequences, FiniteSets

CONSTANTS
  Fds,          \* file descriptors a connection can get
  AuthIds,      \* authorization requests, 1..n
  IPs,          \* addresses
  Banned,       \* addresses with a K-line or a G-line
  Kinds,        \* status of a new connection: the port it came in by
  Lookups,      \* what start_dns_query may do: skip, ask
  Idents,       \* what start_auth_query may do: none, open, sendfailed
  IAuthCmds,    \* commands the iauth process uses
  Policies,     \* sets of options the iauth process may announce
  MaxConns,     \* bound: connections
  MaxFaults    \* bound: how often the iauth process dies, stops reading or gives a client another address

VARIABLES
  cli,     \* per descriptor, the client (LocalClientArray)
  auth,    \* the authorization requests, those of the free list included
  free,    \* auth_freelist
  dns,     \* lookups under way
  ia,      \* the iauth process as the server sees it
  told,    \* the connections the iauth process has heard of
  conns, faults,
  astray   \* an answer has come to a request that is not the one that asked

vars == <<cli, auth, free, dns, ia, told, conns, faults, astray>>
-----------------------------------------------------------------------------
Scanned == {"AUTH", "DNS", "CAP", "PONG", "USER", "NICK"}
Flags == Scanned \cup {"IAUTH", "HURRY", "IAUTH_USERNAME", "FUSERNAME", "SOFT_DONE", "PASSWORD", "GLINE"}
Policy == {"ADDLINFO", "REQUIRED", "TIMEOUT", "EXTRAWAIT", "UNDERNET"}
Names == {"none", "plain", "marked", "ident", "iauth"}
None == "none"

(* name is cli_username, user is user->username; seen is the address that  *)
(* find_kill was asked about, done the connection that a D or R was about; *)
(* pong and cap remember what the client itself has done.                  *)
Connections == [st : {"UNKNOWN_USER", "UNKNOWN_SERVER", "WEBIRC", "PROXY", "USER"}, ip : IPs, sn : 1..MaxConns,
            auth : AuthIds \cup {0}, got : BOOLEAN, doid : BOOLEAN, conf : BOOLEAN, name : Names, user : Names,
            nick : BOOLEAN, pong : BOOLEAN, cap : BOOLEAN, seen : IPs \cup {None}, done : 0..MaxConns]
NoClient == [st |-> None]
AuthRequests == [client : Fds \cup {0}, flags : SUBSET Flags, sock : {None, "open"},
                 timer : BOOLEAN, cookie : BOOLEAN, port : 0..MaxConns]
NoRequest == [client |-> 0, flags |-> {}, sock |-> None, timer |-> FALSE, cookie |-> FALSE, port |-> 0]
NewIAuth == [up |-> TRUE, policy |-> {}, blocked |-> FALSE, watched |-> FALSE, queue |-> {}]
(* A lookup is known by its request; sn is the connection that the request *)
(* was for, moved that iauth has changed its address since.                *)
Queries == [ctx : AuthIds, sn : 1..MaxConns, moved : BOOLEAN]
Told == [fd : Fds, ip : IPs, port : 1..MaxConns]

(* The part of the state the handlers below change, as a value. *)
World == [cli |-> cli, auth |-> auth, free |-> free, dns |-> dns, ia |-> ia, told |-> told]
Become(w) ==
  /\ cli' = w.cli /\ auth' = w.auth /\ free' = w.free /\ dns' = w.dns /\ ia' = w.ia /\ told' = w.told

Client(w, a) == w.cli[w.auth[a].client]
Has(w, a, flag) == flag \in w.auth[a].flags
FlagSet(w, a, F) == [w EXCEPT !.auth[a].flags = @ \cup F]
FlagClr(w, a, F) == [w EXCEPT !.auth[a].flags = @ \ F]
IsUserPort(w, a) == Client(w, a).st = "UNKNOWN_USER"
SetClient(w, f, c) == [w EXCEPT !.cli[f] = c]
-----------------------------------------------------------------------------
(* The resolver and the iauth process. *)

delete_resolver_queries(w, a) == [w EXCEPT !.dns = {q \in @ : q.ctx # a}]

(* Of what is sent to the iauth process only the announcement of a         *)
(* connection matters here: it can answer about those it has heard of.     *)
(* While the socket is blocked what is sent waits in the queue.            *)
sendto_iauth(w, t) ==
  IF ~w.ia.up THEN w
  ELSE IF w.ia.blocked THEN [w EXCEPT !.ia.queue = @ \cup {t}]
  ELSE [w EXCEPT !.told = @ \cup {t}]
Announce(w, a) ==
  [fd |-> w.auth[a].client, ip |-> Client(w, a).ip, port |-> w.auth[a].port]
start_iauth_query(w, a) ==
  IF w.ia.up THEN sendto_iauth(FlagSet(w, a, {"IAUTH"}), Announce(w, a)) ELSE w

(* The request goes back to the free list.  What it held stays there until *)
(* it is taken again, but only its client could still be looked at.        *)
destroy_auth_request(w, a) ==
  [w EXCEPT !.auth[a] = [NoRequest EXCEPT !.client = w.auth[a].client],
            !.cli[w.auth[a].client].auth = 0, !.free = <<a>> \o @,
            !.dns = IF Has(w, a, "DNS") THEN {q \in @ : q.ctx # a} ELSE @]

(* exit_client of a local connection, to the end of free_client. *)
exit_client(w, f) ==
  SetClient(IF w.cli[f].auth # 0 THEN destroy_auth_request(w, w.cli[f].auth) ELSE w, f, NoClient)
-----------------------------------------------------------------------------
(* The check for completion.  o says what the parts outside this module    *)
(* answer: refuse (no client block, a full class, a wrong password or      *)
(* fingerprint, a username without sense, at the first place that asks),   *)
(* ident (a client block that demands ident), or ok.                       *)
Outcomes == {"ok", "ident", "refuse"}

(* A client that iauth has given a class keeps it. *)
preregister_user(w, f, o) ==
  IF ~w.cli[f].conf /\ o = "refuse" THEN exit_client(w, f)
  ELSE [w EXCEPT !.cli[f].conf = TRUE, !.cli[f].doid = @ \/ (~w.cli[f].conf /\ o = "ident")]

(* The username for the kill check and the check itself, for the client c  *)
(* that has got its block.                                                 *)
KillName(c) == IF c.got THEN c.name ELSE IF c.doid THEN "marked" ELSE c.user
CheckKill(p, a, f, c) ==
  IF c = NoClient THEN p
  ELSE IF c.ip \in Banned THEN exit_client(p, f)
  ELSE SetClient(FlagSet(p, a, {"GLINE"}), f, [c EXCEPT !.user = KillName(c), !.seen = c.ip])
Preregister(p, a, f) == CheckKill(p, a, f, p.cli[f])

(* The name of ident or iauth replaces what the client said; a name        *)
(* without sense is accepted only if it comes from ident.                  *)
FinalName(w, a, c) == IF Has(w, a, "FUSERNAME") \/ c.got THEN c.name ELSE c.user
auth_set_username(w, a, f, u, o) ==
  IF o = "refuse" /\ ~(w.cli[f].got /\ w.cli[f].name = u) THEN exit_client(w, f)
  ELSE [w EXCEPT !.cli[f].user = u]
register_user(w, a, f) ==
  IF w.cli[f] = NoClient THEN w ELSE destroy_auth_request([w EXCEPT !.cli[f].st = "USER"], a)
Register(w, a, f, o) ==
  register_user(auth_set_username(w, a, f, FinalName(w, a, w.cli[f]), o), a, f)

(* Everything but iauth is there. *)
Complete(p, a, o) ==
  IF Has(p, a, "IAUTH") THEN FlagSet(p, a, {"HURRY"})
  ELSE IF IsUserPort(p, a) THEN Register(FlagSet(p, a, {"HURRY"}), a, p.auth[a].client, o)
  ELSE destroy_auth_request(p, a)

(* The scan of what is still awaited, and the password of a user's block.  *)
Scan(k, a, f, o) ==
  IF k.cli[f] = NoClient \/ k.auth[a].flags \cap Scanned # {} THEN k
  ELSE IF IsUserPort(k, a) /\ ~Has(k, a, "PASSWORD") /\ o = "refuse" THEN exit_client(k, f)
  ELSE Complete(IF IsUserPort(k, a) THEN FlagSet(k, a, {"PASSWORD"}) ELSE k, a, o)
Unchecked(v, a) == IsUserPort(v, a) /\ ~Has(v, a, "GLINE")
CheckFlags(v, a, f, o) ==
  IF Unchecked(v, a) /\ v.auth[a].flags \cap {"AUTH", "DNS", "USER"} # {} THEN v
  ELSE Scan(IF Unchecked(v, a) THEN Preregister(preregister_user(v, f, o), a, f) ELSE v, a, f, o)
(* bit: the flag that is settled now, or none of them ("none"). *)
check_auth_finished(w, a, bit, o) ==
  CheckFlags(IF bit = "SOFT_DONE" THEN w ELSE FlagClr(w, a, {bit}), a, w.auth[a].client, o)
-----------------------------------------------------------------------------
(* A new connection. *)

start_dns_query(w, a, l) ==
  IF l = "skip" THEN w
  ELSE [FlagSet(w, a, {"DNS"}) EXCEPT !.dns = @ \cup {[ctx |-> a, sn |-> w.auth[a].port, moved |-> FALSE]}]

start_auth_query(w, a, i, o) ==
  IF i = "none" THEN w
  ELSE IF i = "sendfailed" THEN check_auth_finished(FlagSet(w, a, {"AUTH"}), a, "AUTH", o)
  ELSE [FlagSet(w, a, {"AUTH"}) EXCEPT !.auth[a].sock = i]

(* f's client gets the request a; l and i say how far the queries get.     *)
Needs(kind) == IF kind = "UNKNOWN_SERVER" THEN {} ELSE {"USER", "NICK"}
NewRequest(w, a, f) ==
  [w EXCEPT !.free = Tail(@), !.cli[f].auth = a,
            !.auth[a] = [NoRequest EXCEPT !.client = f, !.timer = TRUE, !.port = w.cli[f].sn,
                                          !.flags = Needs(w.cli[f].st)]]
StartQueries(w, a, kind, l, i, o) ==
  IF kind \in {"WEBIRC", "PROXY"} THEN w
  ELSE start_auth_query(start_dns_query(IF kind = "UNKNOWN_USER" THEN start_iauth_query(w, a) ELSE w, a, l), a, i, o)
start_auth(w, a, f, l, i, o) ==
  check_auth_finished(StartQueries(NewRequest(w, a, f), a, w.cli[f].st, l, i, o), a, None, o)

add_connection ==
  /\ conns < MaxConns /\ conns' = conns + 1
  /\ free # <<>> /\ ~astray
  /\ \E f \in {g \in Fds : cli[g] = NoClient}, kind \in Kinds, ip \in IPs, l \in Lookups, i \in Idents,
        o \in Outcomes :
       LET c == [st |-> kind, ip |-> ip, sn |-> conns + 1, auth |-> 0, got |-> FALSE, doid |-> FALSE, conf |-> FALSE,
                 name |-> None, user |-> None, nick |-> FALSE, pong |-> FALSE, cap |-> FALSE,
                 seen |-> None, done |-> 0]
       IN  Become(start_auth(SetClient(World, f, c), Head(free), f, l, i, o))
  /\ UNCHANGED <<faults, astray>>
-----------------------------------------------------------------------------
(* What the client says. *)

Unregistered(f) == cli[f] # NoClient /\ cli[f].st # "USER"
InUse == {a \in AuthIds : \E f \in Fds : cli[f] # NoClient /\ cli[f].auth = a}
(* The client has a request: nothing else asks it to register. *)
Asked(f) == Unregistered(f) /\ cli[f].auth # 0
Same == UNCHANGED <<conns, faults, astray>>

auth_set_user(w, a, o) ==
  IF Has(w, a, "HURRY") THEN w
  ELSE check_auth_finished([w EXCEPT !.cli[w.auth[a].client].user = "plain"], a, "USER", o)
(* Not on a server port, nor before WEBIRC or PROXY was accepted. *)
m_user(f, o) ==
  /\ Asked(f)
  /\ \/ cli[f].st = "UNKNOWN_USER" /\ Become(auth_set_user(World, cli[f].auth, o))
     \/ cli[f].st # "UNKNOWN_USER" /\ o = "ok" /\ Become(exit_client(World, f))
  /\ Same

(* The first NICK asks for a PONG. *)
auth_set_nick(w, a, o) ==
  check_auth_finished(IF w.auth[a].cookie THEN w
                      ELSE [FlagSet(w, a, {"PONG"}) EXCEPT !.auth[a].cookie = TRUE], a, "NICK", o)
m_nick(f, o) ==
  /\ Asked(f)
  /\ Become(IF cli[f].st = "UNKNOWN_SERVER" THEN exit_client(World, f)
            ELSE auth_set_nick([World EXCEPT !.cli[f].nick = TRUE], cli[f].auth, o))
  /\ Same

(* With the cookie that was sent; another one is refused. *)
auth_set_pong(w, a, o) ==
  IF Has(w, a, "PONG") THEN check_auth_finished([w EXCEPT !.cli[w.auth[a].client].pong = TRUE], a, "PONG", o) ELSE w
mr_pong(f, o) == Asked(f) /\ Become(auth_set_pong(World, cli[f].auth, o)) /\ Same

(* CAP LS and CAP REQ: the client wants to negotiate first. *)
auth_cap_start(f) ==
  Asked(f) /\ Become(FlagSet([World EXCEPT !.cli[f].cap = TRUE], cli[f].auth, {"CAP"})) /\ Same
cap_end(f, o) ==
  Asked(f) /\ Become(check_auth_finished([World EXCEPT !.cli[f].cap = FALSE], cli[f].auth, "CAP", o)) /\ Same

(* The gateway tells whose connection it is; a hostname or an address that *)
(* cannot be, or a throttled one, is refused.                              *)
auth_spoof_user(w, a, ip, o) ==
  LET f == w.auth[a].client
      v == [w EXCEPT !.cli[f].st = "UNKNOWN_USER", !.cli[f].ip = ip, !.cli[f].doid = TRUE]
  IN  IF o = "refuse" THEN exit_client(w, f)
      ELSE check_auth_finished(start_iauth_query(v, a), a, None, o)
m_webirc(f, o) ==
  /\ Asked(f)
  /\ \/ cli[f].st = "WEBIRC" /\ \E ip \in IPs : Become(auth_spoof_user(World, cli[f].auth, ip, o))
     \/ cli[f].st # "WEBIRC" /\ o = "ok" /\ Become(exit_client(World, f))
  /\ Same
mr_proxy(f, o) ==
  /\ Asked(f)
  /\ \/ cli[f].st = "PROXY" /\ \E ip \in IPs : Become(auth_spoof_user(World, cli[f].auth, ip, o))
     \/ cli[f].st # "PROXY" /\ o = "ok" /\ Become(exit_client(World, f))
  /\ Same

(* The connection breaks, an operator closes the unregistered ones, or the *)
(* client quits.                                                           *)
client_gone(f) == cli[f] # NoClient /\ Become(exit_client(World, f)) /\ Same
-----------------------------------------------------------------------------
(* Answers and timers. *)

(* The query is sent once the ident server has accepted the connection;    *)
(* that fails, or the reply is empty or a name.                            *)
read_auth_reply(a, named, o) ==
  /\ auth[a].sock # None
  /\ LET f == auth[a].client
         w == [World EXCEPT !.auth[a].sock = None]
         v == IF named /\ ~Has(w, a, "IAUTH_USERNAME")
              THEN [w EXCEPT !.cli[f].name = "ident", !.cli[f].got = TRUE] ELSE w
     IN  Become(check_auth_finished(v, a, "AUTH", o))
  /\ Same

(* The ident socket stays open. *)
auth_timeout_callback(a, o) ==
  /\ auth[a].timer
  /\ LET w == [FlagClr(World, a, {"AUTH", "DNS"}) EXCEPT !.auth[a].timer = FALSE]
     IN  Become(check_auth_finished(IF Has(World, a, "DNS") THEN delete_resolver_queries(w, a) ELSE w, a, None, o))
  /\ Same

(* The answer of a lookup: with a name or none (both let the client go     *)
(* on), or for another address when that is fatal (KILL_IPMISMATCH).  If   *)
(* the request has gone back to the free list or belongs to another client *)
(* by now, the code works on freed or foreign state; the run does not      *)
(* follow that and takes the server to be gone.                            *)
OwnAnswer(q) == q.ctx \in InUse /\ auth[q.ctx].port = q.sn
auth_dns_callback(q, r, o) ==
  /\ OwnAnswer(q)
  /\ LET a == q.ctx
         w == [FlagClr(World, a, {"DNS"}) EXCEPT !.dns = @ \ {q}]
     IN  Become(IF r = "mismatch" THEN exit_client(w, auth[a].client)
                ELSE check_auth_finished(w, a, "DNS", o))
  /\ Same
auth_dns_astray(q) ==
  /\ ~OwnAnswer(q) /\ astray' = TRUE
  /\ Become([cli |-> [f \in Fds |-> NoClient], auth |-> [a \in AuthIds |-> NoRequest],
             free |-> [k \in AuthIds |-> k], dns |-> {}, ia |-> [ia EXCEPT !.up = FALSE], told |-> {}])
  /\ UNCHANGED <<conns, faults>>

(* Mutant: a connection whose request is finished is left alone. *)
PingTimeoutNeedsRequest(f, o) ==
  /\ Asked(f)
  /\ LET a == cli[f].auth
     IN  IF auth[a].flags \cap Scanned # {} THEN Become(exit_client(World, f))
         ELSE IF "REQUIRED" \in ia.policy /\ "SOFT_DONE" \notin auth[a].flags THEN Become(exit_client(World, f))
         ELSE Become(check_auth_finished(World, a, "IAUTH", o))
  /\ Same
(* check_pings for a client that is not registered in time. *)
auth_ping_timeout(f, o) ==
  /\ Unregistered(f)
  /\ LET a == cli[f].auth
     IN  IF a = 0 \/ auth[a].flags \cap Scanned # {} THEN Become(exit_client(World, f))
         ELSE IF "REQUIRED" \in ia.policy /\ "SOFT_DONE" \notin auth[a].flags THEN Become(exit_client(World, f))
         ELSE Become(check_auth_finished(World, a, "IAUTH", o))
  /\ Same
-----------------------------------------------------------------------------
(* The iauth process. *)

(* What a command about a client does, up to the flag that it settles. *)
SetName(w, a, F) ==
  LET f == w.auth[a].client
  IN  FlagSet([w EXCEPT !.cli[f].name = "iauth", !.cli[f].got = TRUE], a, F)
iauth_cmd_username_forced(w, a) == SetName(w, a, {"IAUTH_USERNAME", "FUSERNAME"})
iauth_cmd_username_good(w, a) == SetName(w, a, {"IAUTH_USERNAME"})
iauth_cmd_username_bad(w, a) == [w EXCEPT !.cli[w.auth[a].client].user = "iauth"]
iauth_cmd_hostname(w, a) == IF Has(w, a, "DNS") THEN delete_resolver_queries(w, a) ELSE w
(* The iauth process names the client by the new address from now on.  The *)
(* lookup is settled, but goes on (s_auth.c:1990).                         *)
iauth_cmd_ip_address(w, a, ip) ==
  LET v == [w EXCEPT !.cli[w.auth[a].client].ip = ip,
                     !.dns = {IF q.ctx = a THEN [q EXCEPT !.moved = TRUE] ELSE q : q \in @}]
  IN  sendto_iauth(v, Announce(v, a))
iauth_cmd_soft_done(w, a) == FlagSet(w, a, {"SOFT_DONE"})
(* With a class that exists the client gets its block at once. *)
iauth_cmd_done_client(w, a, t, o) ==
  LET f == w.auth[a].client
  IN  [w EXCEPT !.cli[f].done = t.port, !.cli[f].conf = @ \/ o = "ident"]

iauth_cmd(w, a, t, cmd, ip, o) ==
  CASE cmd = "o" -> iauth_cmd_username_forced(w, a)
    [] cmd = "U" -> iauth_cmd_username_good(w, a)
    [] cmd = "u" -> iauth_cmd_username_bad(w, a)
    [] cmd = "N" -> iauth_cmd_hostname(w, a)
    [] cmd = "I" -> iauth_cmd_ip_address(w, a, ip)
    [] cmd = "d" -> iauth_cmd_soft_done(w, a)
    [] cmd \in {"D", "R"} -> iauth_cmd_done_client(w, a, t, o)
Settles(cmd) ==
  CASE cmd \in {"o", "U", "u"} -> "AUTH"
    [] cmd \in {"N", "I"} -> "DNS"
    [] cmd = "d" -> "SOFT_DONE"
    [] cmd \in {"D", "R"} -> "IAUTH"

(* Mutant: the port is not compared. *)
MatchesAddress(f, t) == cli[f].ip = t.ip
(* A command names descriptor, address and port; the port is compared only *)
(* while the client has its request.                                       *)
Matches(f, t) == cli[f].ip = t.ip /\ (cli[f].auth # 0 => auth[cli[f].auth].port = t.port)

(* A class that is full refuses the client.  M and C change modes and send *)
(* a notice, which settles nothing.                                        *)
iauth_parse(t, cmd, ip, o) ==
  /\ ia.up /\ (cmd = "I" => faults < MaxFaults)
  /\ LET f == t.fd
         a == cli[f].auth
     IN  /\ cli[f] # NoClient /\ Matches(f, t)
         /\ IF cmd = "K" THEN Become(exit_client(World, f))
            ELSE /\ a # 0 /\ "IAUTH" \in auth[a].flags
                 /\ \/ o = "refuse" /\ cmd \in {"D", "R"} /\ Become(exit_client(World, f))
                    \/ Become(check_auth_finished(iauth_cmd(World, a, t, cmd, ip, o), a, Settles(cmd), o))
  /\ faults' = IF cmd = "I" THEN faults + 1 ELSE faults
  /\ UNCHANGED <<conns, astray>>

iauth_cmd_policy(P) ==
  /\ ia.up /\ ia.policy # P /\ ia' = [ia EXCEPT !.policy = P]
  /\ UNCHANGED <<cli, auth, free, dns, told, conns, faults, astray>>

(* iauth_write, called for what is sent about some client, finds the       *)
(* socket full; ET_WRITE empties the queue.                                *)
iauth_blocked ==
  /\ ia.up /\ ~ia.blocked /\ InUse # {} /\ faults < MaxFaults /\ faults' = faults + 1
  /\ ia' = [ia EXCEPT !.blocked = TRUE, !.watched = TRUE]
  /\ UNCHANGED <<cli, auth, free, dns, told, conns, astray>>
iauth_writable ==
  /\ ia.up /\ ia.watched
  /\ ia' = [ia EXCEPT !.blocked = FALSE, !.watched = FALSE, !.queue = {}]
  /\ told' = told \cup ia.queue
  /\ UNCHANGED <<cli, auth, free, dns, conns, faults, astray>>

(* The process dies; it is started again at once unless it lived for less  *)
(* than five seconds.  Neither the options nor the mark of a full socket   *)
(* are reset, and nobody waits for the new socket to be writable.          *)
iauth_do_spawn(again) == [ia EXCEPT !.up = again, !.watched = FALSE]
iauth_disconnect(again) ==
  /\ ia.up /\ faults < MaxFaults /\ faults' = faults + 1
  /\ ia' = iauth_do_spawn(again)
  /\ told' = {}
  /\ UNCHANGED <<cli, auth, free, dns, conns, astray>>
(* At a rehash a dead process is replaced by a new record. *)
auth_spawn ==
  /\ ~ia.up /\ ~astray
  /\ ia' = NewIAuth
  /\ UNCHANGED <<cli, auth, free, dns, told, conns, faults, astray>>
-----------------------------------------------------------------------------
Init ==
  /\ cli = [f \in Fds |-> NoClient]
  /\ auth = [a \in AuthIds |-> NoRequest]
  /\ free = [k \in AuthIds |-> k]
  /\ dns = {} /\ told = {}
  /\ ia = NewIAuth
  /\ conns = 0 /\ faults = 0 /\ astray = FALSE

Next ==
  \/ add_connection
  \/ \E f \in Fds :
       \/ \E o \in Outcomes :
            \/ m_user(f, o)
            \/ m_nick(f, o)
            \/ mr_pong(f, o)
            \/ cap_end(f, o)
            \/ m_webirc(f, o)
            \/ mr_proxy(f, o)
            \/ auth_ping_timeout(f, o)
       \/ auth_cap_start(f)
       \/ client_gone(f)
  \/ \E a \in AuthIds, o \in Outcomes :
       \/ \E named \in BOOLEAN : read_auth_reply(a, named, o)
       \/ auth_timeout_callback(a, o)
  \/ \E q \in dns :
       \/ \E r \in {"name", "mismatch"}, o \in Outcomes : auth_dns_callback(q, r, o)
       \/ auth_dns_astray(q)
  \/ \E t \in told, cmd \in IAuthCmds, o \in Outcomes :
       \E ip \in IF cmd = "I" THEN IPs ELSE {t.ip} : iauth_parse(t, cmd, ip, o)
  \/ \E P \in Policies : iauth_cmd_policy(P)
  \/ iauth_blocked
  \/ iauth_writable
  \/ \E again \in BOOLEAN : iauth_disconnect(again)
  \/ auth_spawn

Spec == Init /\ [][Next]_vars
-----------------------------------------------------------------------------
TypeOK ==
  /\ cli \in [Fds -> Connections \cup {NoClient}]
  /\ auth \in [AuthIds -> AuthRequests]
  /\ \A k \in DOMAIN free : free[k] \in AuthIds
  /\ dns \subseteq Queries /\ told \subseteq Told /\ astray \in BOOLEAN

(* A request that waits for a lookup has one under way, and a lookup that  *)
(* is under way has its own client's request waiting for it, unless iauth  *)
(* has changed that client's address meanwhile: the answer never reaches a *)
(* request that is gone or another client's, and nobody waits for an       *)
(* answer that will not come (destroy_auth_request, auth_timeout_callback, *)
(* iauth_cmd_hostname, delete_resolver_queries).  The same holds of ident  *)
(* sockets and timers; a request is in use or on the free list.            *)
QueriesHaveOwners ==
  /\ \A a \in InUse : "DNS" \in auth[a].flags => \E q \in dns : q.ctx = a /\ OwnAnswer(q)
  /\ \A q \in dns : q.moved \/ (OwnAnswer(q) /\ "DNS" \in auth[q.ctx].flags)
  /\ \A a \in AuthIds : auth[a].sock # None \/ auth[a].timer => a \in InUse
  /\ \A a \in AuthIds : a \in InUse <=> \A k \in DOMAIN free : free[k] # a

(* What the comment at s_auth.c:986 relies on: every answer finds the      *)
(* request that asked.  Does not hold: iauth's I settles the lookup        *)
(* without withdrawing it (s_auth.c:1990), so that the request may be      *)
(* given back first (s_auth.c:867).                                        *)
NeverAstray == ~astray

(* A client is registered only after a kill check of an address that is    *)
(* not banned, with a client block, a nick, a user name and the PONG that  *)
(* it was asked for, and with no CAP negotiation open.                     *)
RegisteredIsCleared ==
  \A f \in Fds : cli[f] # NoClient /\ cli[f].st = "USER" =>
    /\ cli[f].seen # None /\ cli[f].seen \notin Banned /\ cli[f].conf /\ cli[f].user # None
    /\ cli[f].nick /\ cli[f].pong /\ ~cli[f].cap /\ cli[f].auth = 0

(* When iauth has settled a client, it was by a command about that         *)
(* connection: a late command for an earlier client of the same descriptor *)
(* and address is not taken.                                               *)
SettledByOwn == \A f \in Fds : cli[f] # NoClient => cli[f].done \in {0, cli[f].sn}

(* What comment s_auth.c:1989 promises of a new address: a registered      *)
(* client uses an address that the kill check has seen.  Does not hold:    *)
(* the check is marked done and not done again (s_auth.c, line 435).       *)
AddressIsChecked ==
  \A f \in Fds : cli[f] # NoClient /\ cli[f].st = "USER" => cli[f].ip = cli[f].seen
=============================================================================
