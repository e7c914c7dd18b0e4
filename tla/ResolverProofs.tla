--------------------------- MODULE ResolverProofs ---------------------------
(***************************************************************************)
(* The resolver implements what it promises (ResolverAbs), for any number  *)
(* of callers, ids and lost, late or repeated answers.                     *)
(*                                                                         *)
(* A request carries the context that is called back.  That a callback is  *)
(* for a lookup under way follows from two facts about the request list:   *)
(* the context of each request waits, and no two requests have the same    *)
(* context, so that the callback, which frees one request, leaves none     *)
(* behind that could call again.                                           *)
(***************************************************************************)
EXTENDS Resolver, TLAPS

(* What query_name is given: a request that may have no id yet. *)
Askable == [ctx : Contexts, id : QIds \cup {0}, state : ReqStates, type : QTypes, v6 : BOOLEAN, sent : BOOLEAN]
Types == reqs \subseteq Requests
OnlyWaiting == \A r \in reqs : r.ctx \in waiting
OnePerContext == \A r, s \in reqs : r.ctx = s.ctx => r = s
RequestsOwned == Types /\ OnlyWaiting /\ OnePerContext
-----------------------------------------------------------------------------
(* query_name puts one request, with the context of the one it was given,  *)
(* into the list.                                                          *)
LEMMA QueryAdds ==
  ASSUME Sends \subseteq BOOLEAN,
         NEW R, NEW r \in Askable,
         query_name(R, r)
  PROVE  \E n \in Requests : n.ctx = r.ctx /\ reqs' = R \cup {n}
<1>0. CASE Unencodable(R, r)
  BY <1>0 DEF Unencodable, Requests, Askable
<1>1. SUFFICES ASSUME NEW i \in FreshIds, NEW ok \in Sends,
                      reqs' = R \cup {[r EXCEPT !.id = i, !.sent = r.sent \/ ok]}
               PROVE  \E n \in Requests : n.ctx = r.ctx /\ reqs' = R \cup {n}
  BY <1>0, ZenonT(60) DEF query_name
<1> DEFINE n == [r EXCEPT !.id = i, !.sent = r.sent \/ ok]
<1>2. i \in QIds
  BY DEF FreshIds
<1>3. (r.sent \/ ok) \in BOOLEAN
  OBVIOUS
<1>4. n \in Requests /\ n.ctx = r.ctx
  BY <1>2, <1>3 DEF Requests, Askable
<1> QED
  BY <1>1, <1>4

(* A request is given way to another one of the same context: the facts    *)
(* about the list stay (resend_query, the chain of questions).             *)
LEMMA SuccessorFits ==
  ASSUME RequestsOwned, NEW r \in reqs, NEW n \in Requests, n.ctx = r.ctx,
         reqs' = (reqs \ {r}) \cup {n}, waiting' = waiting
  PROVE  RequestsOwned'
<1>1. Types'
  BY DEF RequestsOwned, Types
<1>2. OnlyWaiting'
  BY DEF RequestsOwned, OnlyWaiting
<1>3. OnePerContext'
  BY DEF RequestsOwned, OnePerContext
<1> QED
  BY <1>1, <1>2, <1>3 DEF RequestsOwned

(* Requests go and the contexts of those that stay still wait.             *)
LEMMA FewerFit ==
  ASSUME RequestsOwned, reqs' \subseteq reqs, \A r \in reqs' : r.ctx \in waiting'
  PROVE  RequestsOwned'
BY DEF RequestsOwned, Types, OnlyWaiting, OnePerContext

(* A new question of a request leaves its lookup as it was.                *)
LEMMA AskedAgain ==
  ASSUME Sends \subseteq BOOLEAN, RequestsOwned, NEW r \in reqs, NEW n \in Askable,
         n.ctx = r.ctx, query_name(reqs \ {r}, n), waiting' = waiting
  PROVE  RequestsOwned'
BY QueryAdds, SuccessorFits

(* The facts about the list hold initially. *)
LEMMA NoneOwned == ResInit => RequestsOwned
BY DEF ResInit, RequestsOwned, Types, OnlyWaiting, OnePerContext

(* Lookup: a step of the promise, and the new request is the only one of   *)
(* its context.                                                            *)
LEMMA LookupIs ==
  ASSUME Sends \subseteq BOOLEAN, RequestsOwned, NEW c \in Contexts, Lookup(c)
  PROVE  RequestsOwned' /\ Abs!Ask(c)
<1>1. Abs!Ask(c)
  BY DEF Lookup, Abs!Ask
<1>2. PICK st \in {"AAAA", "PTR"}, v \in BOOLEAN : query_name(reqs, make_request(c, st, st, v))
  BY DEF Lookup, gethost_byname, gethost_byaddr
<1> DEFINE m == make_request(c, st, st, v)
<1>3. m \in Askable /\ m.ctx = c
  BY DEF make_request, ReqStates, QTypes, Askable
<1> HIDE DEF m
<1>4. PICK n \in Requests : n.ctx = c /\ reqs' = reqs \cup {n}
  BY <1>2, <1>3, QueryAdds DEF m
<1>5. c \notin waiting /\ waiting' = waiting \cup {c}
  BY DEF Lookup
<1>6. RequestsOwned'
  BY <1>4, <1>5 DEF RequestsOwned, Types, OnlyWaiting, OnePerContext
<1> QED
  BY <1>1, <1>6

(* delete_resolver_queries: a withdrawal, after which no request is left   *)
(* that could call back.                                                   *)
LEMMA DeleteIs ==
  ASSUME RequestsOwned, NEW c \in Contexts, delete_resolver_queries(c)
  PROVE  RequestsOwned' /\ Abs!Withdraw(c)
<1>1. Abs!Withdraw(c)
  BY DEF delete_resolver_queries, Abs!Withdraw
<1>2. \A r \in reqs' : r.ctx \in waiting'
  BY DEF delete_resolver_queries, RequestsOwned, OnlyWaiting
<1> QED
  BY <1>1, <1>2, FewerFit DEF delete_resolver_queries

(* The callback is for a lookup under way, and the last one for it.        *)
LEMMA CallbackIs ==
  ASSUME RequestsOwned, NEW r \in reqs, NEW a \in {"failed", "found"}, Callback(r, a)
  PROVE  RequestsOwned' /\ r.ctx \in Contexts /\ Abs!Answer(r.ctx)
<1>1. r.ctx \in waiting /\ r.ctx \in Contexts
  BY DEF RequestsOwned, Types, OnlyWaiting, Requests
<1>2. Abs!Answer(r.ctx)
  BY <1>1 DEF Callback, Abs!Answer
<1>3. \A s \in reqs' : s.ctx \in waiting'
  BY DEF Callback, RequestsOwned, OnlyWaiting, OnePerContext
<1> QED
  BY <1>1, <1>2, <1>3, FewerFit DEF Callback

(* No answer: what is asked next is asked for the same lookup.             *)
LEMMA NoAnswerIs ==
  ASSUME Sends \subseteq BOOLEAN, RequestsOwned, NEW r \in reqs, NoAnswer(r)
  PROVE  RequestsOwned' /\ UNCHANGED <<waiting, heard>>
<1>0. r \in Requests
  BY DEF RequestsOwned, Types
<1>1. CASE reqs' = reqs /\ UNCHANGED <<waiting, heard>>
  BY <1>1 DEF RequestsOwned, Types, OnlyWaiting, OnePerContext
<1>2. CASE resend_query(r) /\ ~(r.type = "AAAA" /\ r.state # "AAAA")
  <2> DEFINE n == [r EXCEPT !.type = IF @ = "AAAA" THEN "A" ELSE @]
  <2>1. n \in Requests /\ n.ctx = r.ctx
    BY <1>0 DEF Requests, QTypes
  <2>2. query_name(reqs \ {r}, n) /\ UNCHANGED <<waiting, heard>>
    BY <1>2 DEF resend_query
  <2> HIDE DEF n
  <2>3. n \in Askable
    BY <2>1 DEF Requests, Askable
  <2> QED
    BY <2>1, <2>2, <2>3, AskedAgain
<1>3. CASE UNCHANGED <<heard, waiting>> /\ query_name(reqs \ {r}, [r EXCEPT !.state = "INT"])
  <2> DEFINE n == [r EXCEPT !.state = "INT"]
  <2>1. n \in Requests /\ n.ctx = r.ctx
    BY <1>0 DEF Requests, ReqStates
  <2>2. query_name(reqs \ {r}, n) /\ UNCHANGED <<waiting, heard>>
    BY <1>3
  <2> HIDE DEF n
  <2>3. n \in Askable
    BY <2>1 DEF Requests, Askable
  <2> QED
    BY <2>1, <2>2, <2>3, AskedAgain
<1> QED
  BY <1>1, <1>2, <1>3 DEF NoAnswer, resend_query, Ignore, rvars

(* The name of an address was found: its address is asked for under a new  *)
(* request, for the same lookup.                                           *)
LEMMA ForwardIs ==
  ASSUME Sends \subseteq BOOLEAN, RequestsOwned, NEW r \in reqs, Forward(r)
  PROVE  RequestsOwned' /\ UNCHANGED <<waiting, heard>>
<1> DEFINE t == IF r.v6 THEN "AAAA" ELSE "A"
           n == make_request(r.ctx, t, t, FALSE)
<1>1. query_name(reqs \ {r}, n) /\ UNCHANGED <<waiting, heard>>
  BY DEF Forward
<1>2. r.ctx \in Contexts /\ t \in {"A", "AAAA"}
  BY DEF RequestsOwned, Types, Requests
<1> HIDE DEF t
<1>3. n.ctx = r.ctx /\ n \in Askable
  BY <1>2 DEF make_request, ReqStates, QTypes, Askable
<1> HIDE DEF n
<1> QED
  BY <1>1, <1>3, AskedAgain

(* An answer that says nothing: the request is marked, or forgotten.       *)
LEMMA UselessIs ==
  ASSUME RequestsOwned, NEW r \in reqs, NEW a \in Replies,
         reqs' = IF r.sent THEN (reqs \ {r}) \cup {Marked(r, a)} ELSE reqs \ {r},
         UNCHANGED <<waiting, heard>>
  PROVE  RequestsOwned'
<1>1. CASE r.sent
  <2> DEFINE n == Marked(r, a)
  <2>1. n \in Requests /\ n.ctx = r.ctx
    BY DEF Marked, RequestsOwned, Types, Requests, ReqStates
  <2> HIDE DEF n
  <2> QED
    BY <1>1, <2>1, SuccessorFits DEF n
<1>2. CASE ~r.sent
  BY <1>2, FewerFit DEF RequestsOwned, OnlyWaiting
<1> QED
  BY <1>1, <1>2

(* Whatever answer arrives, for whichever request has its id now: a step   *)
(* of the promise, or one its owner does not see.                          *)
LEMMA ReplyIs ==
  ASSUME Sends \subseteq BOOLEAN, RequestsOwned, NEW q \in net, NEW a \in Replies, res_readreply(q, a)
  PROVE  RequestsOwned' /\ ((\E c \in Contexts : Abs!Answer(c)) \/ UNCHANGED <<waiting, heard>>)
<1>1. PICK r \in reqs :
         CASE a.code = "NXDOMAIN" -> Callback(r, "failed")
           [] a.code = "EMPTY" -> NoAnswer(r)
           [] a.code = "DATA" ->
                IF proc_answer(r, a) THEN IF r.type = "PTR" THEN Forward(r) ELSE Callback(r, "found")
                ELSE /\ reqs' = IF r.sent THEN (reqs \ {r}) \cup {Marked(r, a)} ELSE reqs \ {r}
                     /\ UNCHANGED <<net, heard, waiting, expires>>
  BY DEF res_readreply
<1>2. a.code \in {"NXDOMAIN", "EMPTY", "DATA"}
  BY DEF Replies
<1>3. CASE Callback(r, "failed") \/ Callback(r, "found")
  BY <1>3, CallbackIs
<1>4. CASE NoAnswer(r)
  BY <1>4, NoAnswerIs
<1>5. CASE Forward(r)
  BY <1>5, ForwardIs
<1>6. CASE /\ reqs' = IF r.sent THEN (reqs \ {r}) \cup {Marked(r, a)} ELSE reqs \ {r}
           /\ UNCHANGED <<net, heard, waiting, expires>>
  BY <1>6, UselessIs
<1> QED
  BY <1>1, <1>2, <1>3, <1>4, <1>5, <1>6

(* Every step keeps the facts about the list, and is a step of the promise *)
(* or leaves waiting and heard alone.                                      *)
LEMMA StepImplements ==
  ASSUME Sends \subseteq BOOLEAN, RequestsOwned, [ResNext]_rvars
  PROVE  RequestsOwned' /\ [Abs!AbsNext]_(Abs!absvars)
<1>1. CASE UNCHANGED rvars
  BY <1>1 DEF rvars, Abs!absvars, RequestsOwned, Types, OnlyWaiting, OnePerContext
<1>2. ASSUME NEW c \in Contexts, Lookup(c)
      PROVE  RequestsOwned' /\ Abs!AbsNext
  BY <1>2, LookupIs DEF Abs!AbsNext
<1>3. ASSUME NEW c \in Contexts, delete_resolver_queries(c)
      PROVE  RequestsOwned' /\ Abs!AbsNext
  BY <1>3, DeleteIs DEF Abs!AbsNext
<1>4. ASSUME NEW q \in net, NEW a \in Replies, res_readreply(q, a)
      PROVE  RequestsOwned' /\ (Abs!AbsNext \/ UNCHANGED <<waiting, heard>>)
  BY <1>4, ReplyIs DEF Abs!AbsNext
<1> QED
  BY <1>1, <1>2, <1>3, <1>4 DEF ResNext, Abs!absvars

(* The resolver of ircd_res.c implements its promise: a lookup is answered *)
(* at most once, one that was withdrawn never, whichever request has the   *)
(* id of a late or repeated answer by then.                                *)
THEOREM EveryLookupAnsweredOnce == ResSpec => AnsweredOnce
<1>1. ResInit => Abs!AbsInit
  BY DEF ResInit, Abs!AbsInit
<1> QED
  BY <1>1, NoneOwned, StepImplements, ResolverAssumption, PTL DEF ResSpec, AnsweredOnce, Abs!AbsSpec
=============================================================================
