------------------------------ MODULE Resolver ------------------------------
(***************************************************************************)
(* The resolver of ircd_res.c.  A lookup of an address asks for its name,  *)
(* then asks for the address of that name under a request of its own; a    *)
(* lookup of a name asks for AAAA and falls back to A.  Questions and      *)
(* answers are UDP: they are lost, late, repeated and reordered, and an    *)
(* answer is matched with a request by its id alone, which may have been   *)
(* given to another request in the meantime.  The resolver of the standard *)
(* build, with IPv6.                                                       *)
(***************************************************************************)
EXTENDS Naturals

CONSTANTS
  Contexts,   \* callback_ctx: authorization requests and Connect blocks
  QIds,       \* ids of questions
  Sends,      \* whether a datagram can be sent: subset of BOOLEAN
  Forms       \* by context, what its owner looks up: name, v4, v6

ASSUME ResolverAssumption == Sends \subseteq BOOLEAN

VARIABLES
  reqs,     \* request_list
  net,      \* questions sent: an answer may come once, repeatedly or never
  heard,    \* per context, what the last callback was given
  waiting,  \* contexts whose owner waits: AR_DNS_PENDING, dns_pending
  expires   \* t_expire(&res_timeout), 0 as long as it was never added

rvars == <<reqs, net, heard, waiting, expires>>
-----------------------------------------------------------------------------
QTypes == {"PTR", "A", "AAAA"}
ReqStates == {"PTR", "A", "AAAA", "CNAME", "INT"}
Requests == [ctx : Contexts, id : QIds \cup {0}, state : ReqStates, type : QTypes, v6 : BOOLEAN, sent : BOOLEAN]
(* An answer has an error code, or no record, or records; of these count   *)
(* an alias and the first other one, which may be cut off by the end of    *)
(* the packet (CUT) or not decode (BAD).                                   *)
Replies == [code : {"NXDOMAIN", "EMPTY"}] \cup [code : {"DATA"}, alias : BOOLEAN, rec : QTypes \cup {"CUT", "BAD"}]

(* check_resolver_timeout: the timer is changed or added only if it is not *)
(* set to an earlier time; one that was never added expires at time 0.     *)
check_resolver_timeout(when) == IF when > expires THEN expires ELSE when

(* query_name: an id that no request has, the one in hand included; R are  *)
(* the other requests.  A name that irc_res_mkquery cannot encode is not   *)
(* asked for: its request stays in the list without an id (0).             *)
FreshIds == QIds \ {r.id : r \in reqs}
Unencodable(R, r) == r.type # "PTR" /\ r.id = 0 /\ reqs' = R \cup {r} /\ UNCHANGED <<net, expires>>
query_name(R, r) ==
  \/ \E i \in FreshIds, ok \in Sends :
       /\ reqs' = R \cup {[r EXCEPT !.id = i, !.sent = r.sent \/ ok]}
       /\ net' = IF ok THEN net \cup {[id |-> i, type |-> r.type]} ELSE net
       /\ expires' = check_resolver_timeout(1)
  \/ Unencodable(R, r)

make_request(c, state, type, v6) ==
  [ctx |-> c, id |-> 0, state |-> state, type |-> type, v6 |-> v6, sent |-> FALSE]

(* do_query_name and do_query_number without a request. *)
gethost_byname(c) == query_name(reqs, make_request(c, "AAAA", "AAAA", FALSE))
gethost_byaddr(c, v6) == query_name(reqs, make_request(c, "PTR", "PTR", v6))

(* start_dns_query and connect_server ask once until they are answered.    *)
Lookup(c) ==
  /\ c \notin waiting /\ waiting' = waiting \cup {c} /\ heard' = [heard EXCEPT ![c] = "nothing"]
  /\ \/ "name" \in Forms[c] /\ gethost_byname(c)
     \/ "v4" \in Forms[c] /\ gethost_byaddr(c, FALSE)
     \/ "v6" \in Forms[c] /\ gethost_byaddr(c, TRUE)

(* Mutant: only reverse lookups are withdrawn. *)
DeletesReverse(c) ==
  /\ c \in waiting /\ waiting' = waiting \ {c}
  /\ reqs' = {r \in reqs : r.ctx # c \/ r.type # "PTR"}
  /\ UNCHANGED <<net, heard, expires>>
delete_resolver_queries(c) ==
  /\ c \in waiting /\ waiting' = waiting \ {c}
  /\ reqs' = {r \in reqs : r.ctx # c}
  /\ UNCHANGED <<net, heard, expires>>
-----------------------------------------------------------------------------
Callback(r, a) ==
  /\ reqs' = reqs \ {r} /\ waiting' = waiting \ {r.ctx}
  /\ heard' = [heard EXCEPT ![r.ctx] = a] /\ UNCHANGED <<net, expires>>
Ignore == UNCHANGED rvars

(* resend_query: a request that asked for AAAA asks for A from then on.    *)
resend_query(r) ==
  /\ IF r.type = "AAAA" /\ r.state # "AAAA" THEN UNCHANGED <<reqs, net, expires>>
     ELSE query_name(reqs \ {r}, [r EXCEPT !.type = IF @ = "AAAA" THEN "A" ELSE @])
  /\ UNCHANGED <<heard, waiting>>

(* No answer: another question is tried, or the request waits on. *)
NoAnswer(r) ==
  IF r.state = "AAAA" /\ r.type = "AAAA" THEN resend_query(r)
  ELSE IF r.type = "PTR" /\ r.state # "INT" /\ r.v6
  THEN /\ UNCHANGED <<heard, waiting>>
       /\ query_name(reqs \ {r}, [r EXCEPT !.state = "INT"])
  ELSE Ignore

(* proc_answer: an answer of another type, or one that does not decode, is *)
(* none; one that ends early counts.  An alias leaves its mark.            *)
proc_answer(r, a) == a.rec = "CUT" \/ a.rec = r.type
Marked(r, a) == IF a.alias THEN [r EXCEPT !.state = "CNAME"] ELSE r

(* The name that was found is looked up under a new request. *)
Forward(r) ==
  /\ UNCHANGED <<heard, waiting>>
  /\ LET t == IF r.v6 THEN "AAAA" ELSE "A" IN query_name(reqs \ {r}, make_request(r.ctx, t, t, FALSE))

(* An answer to the question q arrives; the request with its id gets it.   *)
res_readreply(q, a) ==
  /\ q \in net
  /\ \E r \in reqs :
       /\ r.id = q.id
       /\ CASE a.code = "NXDOMAIN" -> Callback(r, "failed")
            [] a.code = "EMPTY" -> NoAnswer(r)
            [] a.code = "DATA" ->
                 IF proc_answer(r, a) THEN IF r.type = "PTR" THEN Forward(r) ELSE Callback(r, "found")
                 ELSE /\ reqs' = IF r.sent THEN (reqs \ {r}) \cup {Marked(r, a)} ELSE reqs \ {r}
                      /\ UNCHANGED <<net, heard, waiting, expires>>
-----------------------------------------------------------------------------
ResInit == reqs = {} /\ net = {} /\ waiting = {} /\ heard = [c \in Contexts |-> "nothing"] /\ expires = 0

(* timeout_resolver is no step: check_resolver_timeout leaves the timer    *)
(* alone when it expires before the given time, and a timer that was never *)
(* added expires at time 0, so nothing ever sets it.                       *)
ResNext ==
  \/ \E c \in Contexts : Lookup(c) \/ delete_resolver_queries(c)
  \/ \E q \in net, a \in Replies : res_readreply(q, a)
ResSpec == ResInit /\ [][ResNext]_rvars
-----------------------------------------------------------------------------
(* Every lookup is answered by at most one callback, and one that was      *)
(* withdrawn is not answered, however answers are lost, repeated, late or  *)
(* meant for another request: the requests that one lookup goes through    *)
(* are one lookup to its owner.                                            *)
Abs == INSTANCE ResolverAbs WITH waiting <- waiting, heard <- heard
AnsweredOnce == Abs!AbsSpec
=============================================================================
