---------------------------- MODULE GlineProofs -----------------------------
(***************************************************************************)
(* TypeOK, BannedAreGone and the action properties LastmodGrows and        *)
(* LocalStateHolds for every tree of servers and every bound.  The type    *)
(* invariant is needed for the clock: an expiration that is no number      *)
(* could make a G-line active again when time passes.  The two action      *)
(* properties follow from what each handler may do to the record that      *)
(* gliter finds: keep it, end it, or change it with a newer time.          *)
(*                                                                         *)
(* QuietMeansAgreed needs the whole history of the G-line.  Behind the     *)
(* links' own invariant (Paired) it is: there are versions V[k], one for   *)
(* every time k of a change, such that each record and each GL in flight   *)
(* says what its version says (Recorded, Sent), and that what a server has *)
(* sent away from the author brings its reader, message by message, to its *)
(* own version (Flow, Fed).  A version is only ever made by the author.    *)
(***************************************************************************)
EXTENDS Gline, TLAPS

Found == Record \cup {None}
Network == [Servers -> [Servers -> Seq(Msg)]]
Writes == [Servers -> Seq(Msg)]
Change == [act : {"modify", "+", "-", ">", "<"}, expire : Int, lastmod : Nat, lifetime : Int,
           reason : Reasons \cup {None}, force : BOOLEAN]

(* gliter keeps a record or clears its activity. *)
LEMMA GliterType ==
  ASSUME NEW g \in Found
  PROVE  gliter(g) \in Found
BY DEF Found, Record, gliter

(* An active record that is found was stored as it is, and has not ended. *)
LEMMA GliterActive ==
  ASSUME NEW g \in Found, gliter(g) # None, GlineIsActive(gliter(g))
  PROVE  g # None /\ gliter(g) = g /\ GlineIsActive(g)
BY DEF Found, Record, gliter, GlineIsActive

(* Looking a record up again does not make it active. *)
LEMMA GliterTwice ==
  ASSUME NEW g \in Found, gliter(gliter(g)) # None, GlineIsActive(gliter(gliter(g)))
  PROVE  gliter(g) # None /\ GlineIsActive(gliter(g))
<1>1. gliter(g) \in Found
  BY GliterType
<1> QED
  BY <1>1, GliterActive

(* Time only takes activity away. *)
LEMMA GliterLater ==
  ASSUME TypeOK, GlineAssumption, now' = now + 1, NEW g \in Found,
         gliter(g)' # None, GlineIsActive(gliter(g)')
  PROVE  gliter(g) # None /\ GlineIsActive(gliter(g))
BY SMTT(60) DEF TypeOK, GlineAssumption, Found, Record, gliter, GlineIsActive

(* The larger of two integers is one. *)
LEMMA MaxType == \A a, b \in Int : Max(a, b) \in Int
BY DEF Max

(* A sequence of one message. *)
LEMMA One == ASSUME NEW S, NEW x \in S PROVE <<x>> \in Seq(S)
OBVIOUS

(* A full GL of a record is a message. *)
LEMMA FullType ==
  ASSUME TypeOK, NEW g \in Record, NEW op \in {"modify", "+", "-"}, NEW force \in BOOLEAN
  PROVE  <<Full(op, g, force)>> \in Seq(Msg)
<1>a. g.expire \in Int
  BY DEF Record
<1>b. now \in Int
  BY DEF TypeOK
<1>1. Remaining(g.expire) \in Int
  BY <1>a, <1>b DEF Remaining, Max
<1>2. Full(op, g, force) \in Msg
  BY <1>1 DEF Full, Record, Msg
<1> QED
  BY <1>2, One

(* What the send functions write, per neighbour. *)
LEMMA WritesType ==
  ASSUME NEW s \in Servers, NEW n, NEW q \in Seq(Msg)
  PROVE  Silent \in Writes /\ To(n, q) \in Writes /\ ToAllBut(s, n, q) \in Writes
<1>1. Silent \in Writes
  BY DEF Silent, Writes
<1>2. To(n, q) \in Writes
  BY <1>1 DEF To, Writes
<1>3. ToAllBut(s, n, q) \in Writes
  BY DEF ToAllBut, Writes
<1> QED
  BY <1>1, <1>2, <1>3

(* Reading one message and writing others leaves sequences of messages. *)
LEMMA EmitType ==
  ASSUME TypeOK, NEW s \in Servers, NEW n \in Servers, NEW o \in Writes,
         n # s => chan[n][s] # <<>>, Emit(s, n, o)
  PROVE  chan' \in Network
<1>1. n # s => Tail(chan[n][s]) \in Seq(Msg)
  BY DEF TypeOK
<1>2. \A a, b \in Servers : chan[a][b] \in Seq(Msg) /\ o[b] \in Seq(Msg)
  BY DEF TypeOK, Writes
<1>3. \A a, b \in Servers : (chan[a][b] \o o[b]) \in Seq(Msg)
  BY <1>2
<1> QED
  BY <1>1, <1>2, <1>3 DEF Emit, Network

(* gline_modify makes a record of a record. *)
LEMMA ModifiedType ==
  ASSUME NEW g \in Record, NEW p \in Change
  PROVE  /\ Modified(g, p) \in Record
         /\ NewAction(g, p) \in {"modify", p.act}
<1>1. NewAction(g, p) \in {"modify", p.act}
  BY DEF NewAction
<1>a. p.expire \in Int /\ p.lifetime \in Int
  BY DEF Change
<1>b. g.lifetime \in Int
  BY DEF Record
<1>c. NewExpire(g, p) \in Int
  BY <1>a DEF NewExpire
<1>2. NewLifetime(g, p) \in Int
  BY <1>a, <1>b, <1>c, MaxType DEF NewLifetime
<1>3. NewReason(g, p) \in Reasons
  BY DEF NewReason, Record, Change
<1> QED
  BY <1>1, <1>2, <1>3, ZenonT(60) DEF Modified, Record, Change, IsLocalAct
-----------------------------------------------------------------------------
(* What a handler may do to a server whose matching user stays on. *)
Spared(x) ==
  /\ user[x]
  /\ lgl'[x] \in {lgl[x], 0}
  /\ \/ gl'[x] \in {gl[x], gliter(gl[x])}
     \/ gl'[x] \in Record /\ ~GlineIsActive(gl'[x])

(* The accepted change p of the record of x that is found: one for this    *)
(* server only says nothing but ">" or "<".                                *)
Changed(x, p) ==
  /\ gline_find(x) # None /\ ~Older(gline_find(x), p) /\ ~Refused(gline_find(x), p)
  /\ gl'[x] = Modified(gline_find(x), p)
  /\ IsLocalAct(p.act) => p.expire = 0 /\ p.lifetime = 0 /\ p.reason = None

(* What a handler may do to the record of a server. *)
Written(x) ==
  \/ gl'[x] \in {gl[x], gliter(gl[x])}
  \/ gline_find(x) = None
  \/ \E p \in Change : Changed(x, p)

Handled ==
  /\ \A x \in Servers : Written(x)
  /\ gl' \in [Servers -> Found]
  /\ lgl' \in [Servers -> Int]
  /\ user' \in [Servers -> BOOLEAN]
  /\ chan' \in Network
  /\ \A x \in Servers : user'[x] => Spared(x)

(* s serves a command of its own (n = s) or the first message of n. *)
Serving(s, n) == s \in Servers /\ n \in Servers /\ TypeOK /\ (n # s => chan[n][s] # <<>>)

(* gline_find returns a record or nothing. *)
LEMMA FindType ==
  ASSUME TypeOK, NEW s \in Servers
  PROVE  gline_find(s) \in Found /\ (gline_find(s) # None => gline_find(s) \in Record)
<1>1. gl[s] \in Found
  BY DEF TypeOK, Found
<1> QED
  BY <1>1, GliterType DEF gline_find, Found

(* A record is only looked up. *)
LEMMA IgnoredHandled ==
  ASSUME NEW s, NEW n, NEW o \in Writes, Serving(s, n), SetGline(s, gline_find(s)),
         Emit(s, n, o), UNCHANGED <<user, lgl>>
  PROVE  Handled
<1>1. chan' \in Network
  BY EmitType DEF Serving
<1>2. gl' \in [Servers -> Found]
  BY FindType DEF Serving, SetGline, TypeOK, Found
<1>3. \A x \in Servers : gl'[x] \in {gl[x], gliter(gl[x])}
  BY DEF Serving, SetGline, TypeOK, gline_find
<1> QED
  BY <1>1, <1>2, <1>3 DEF Handled, Spared, Written, Serving, TypeOK

(* A record is stored and do_gline disconnects whom it matches. *)
LEMMA RecordHandled ==
  ASSUME NEW s, NEW n, NEW o \in Writes, NEW g \in Record, Serving(s, n), SetGline(s, g),
         Emit(s, n, o), do_gline(s, g), UNCHANGED lgl,
         gline_find(s) = None \/ \E p \in Change : Changed(s, p)
  PROVE  Handled
<1>1. chan' \in Network
  BY EmitType DEF Serving
<1>2. gl' \in [Servers -> Found]
  BY DEF Serving, SetGline, TypeOK, Found
<1>3. user' \in [Servers -> BOOLEAN]
  BY DEF Serving, do_gline, TypeOK
<1>4. ASSUME NEW x \in Servers, user'[x]
      PROVE  Spared(x)
  <2>1. CASE x = s
    BY <1>4, <2>1 DEF Serving, SetGline, do_gline, TypeOK, Spared
  <2>2. CASE x # s
    BY <1>4, <2>2 DEF Serving, SetGline, do_gline, TypeOK, Spared
  <2> QED
    BY <2>1, <2>2
<1>5. \A x \in Servers : Written(x)
  BY DEF Serving, SetGline, TypeOK, Written
<1> QED
  BY <1>1, <1>2, <1>3, <1>4, <1>5 DEF Handled, Serving, TypeOK

(* Nothing is written. *)
LEMMA SilentType == Silent \in Writes
BY DEF Silent, Writes

(* gline_add. *)
LEMMA AddHandled ==
  ASSUME NEW s, NEW n, NEW p \in Change, p.reason \in Reasons, Serving(s, n),
         gline_find(s) = None, gline_add(s, n, p)
  PROVE  Handled
<1>1. CASE Ignored(s, n)
  BY <1>1, SilentType, IgnoredHandled DEF Ignored
<1>2. CASE ~Ignored(s, n)
  <2> DEFINE g == [active |-> p.act = "+" /\ p.expire > now, state |-> "global",
                   expire |-> p.expire, lastmod |-> p.lastmod,
                   lifetime |-> IF p.lifetime = 0 THEN p.expire ELSE p.lifetime,
                   reason |-> p.reason]
             o == ToAllBut(s, n, <<Full(Sign(g), g, p.force)>>)
  <2>1. SetGline(s, g) /\ Emit(s, n, o) /\ do_gline(s, g) /\ UNCHANGED lgl
    BY <1>2 DEF gline_add
  <2>2. g \in Record
    BY DEF Record, Change
  <2>3. Sign(g) \in {"modify", "+", "-"} /\ p.force \in BOOLEAN
    BY DEF Sign, Change
  <2>4. <<Full(Sign(g), g, p.force)>> \in Seq(Msg)
    <3> HIDE DEF g
    <3> QED BY <2>2, <2>3, FullType DEF Serving
  <2>5. o \in Writes
    <3> HIDE DEF g
    <3> QED BY <2>4, WritesType DEF Serving
  <2> HIDE DEF g, o
  <2> QED
    BY <2>1, <2>2, <2>5, RecordHandled
<1> QED
  BY <1>1, <1>2

(* gline_modify: a resend, a refusal or a change. *)
LEMMA ModifyHandled ==
  ASSUME NEW s, NEW n, NEW p \in Change, Serving(s, n), gline_find(s) # None,
         gline_modify(s, n, gline_find(s), p),
         IsLocalAct(p.act) => p.expire = 0 /\ p.lifetime = 0 /\ p.reason = None
  PROVE  Handled
<1> DEFINE g == gline_find(s)
<1>0. g \in Record
  BY FindType DEF Serving
<1>1. CASE Ignored(s, n)
  BY <1>1, SilentType, IgnoredHandled DEF Ignored
<1>2. CASE gline_resend(s, n, g)
  <2>1. Sign(g) \in {"modify", "+", "-"} /\ TRUE \in BOOLEAN
    BY DEF Sign
  <2>2. <<Full(Sign(g), g, TRUE)>> \in Seq(Msg)
    <3> HIDE DEF g
    <3> QED BY <1>0, <2>1, FullType DEF Serving
  <2>3. PICK o \in Writes : SetGline(s, g) /\ Emit(s, n, o) /\ UNCHANGED <<user, lgl>>
    BY <1>2, <2>2, SilentType, WritesType DEF gline_resend, Serving
  <2> QED
    BY <2>3, IgnoredHandled
<1>3. CASE ~Ignored(s, n) /\ ~gline_resend(s, n, g)
  <2> DEFINE h == Modified(g, p)
  <2>1. h \in Record /\ NewAction(g, p) \in {"modify", p.act}
    <3> HIDE DEF g
    <3> QED BY <1>0, ModifiedType
  <2>2. ~IsLocalAct(p.act) => <<Full(NewAction(g, p), h, p.force)>> \in Seq(Msg)
    <3>1. ASSUME ~IsLocalAct(p.act) PROVE NewAction(g, p) \in {"modify", "+", "-"}
      <4> HIDE DEF g
      <4> QED BY <2>1, <3>1 DEF IsLocalAct, Change
    <3>2. p.force \in BOOLEAN
      BY DEF Change
    <3> HIDE DEF g, h
    <3> QED BY <2>1, <3>1, <3>2, FullType DEF Serving
  <2>3. PICK o \in Writes : SetGline(s, h) /\ Emit(s, n, o) /\ do_gline(s, h) /\ UNCHANGED lgl
    <3>1. /\ SetGline(s, h) /\ do_gline(s, h) /\ UNCHANGED lgl
          /\ Emit(s, n, IF IsLocalAct(p.act) THEN Silent
                        ELSE ToAllBut(s, n, <<Full(NewAction(g, p), h, p.force)>>))
      BY <1>3 DEF gline_modify
    <3> HIDE DEF g, h
    <3>2. CASE IsLocalAct(p.act)
      BY <3>1, <3>2, SilentType
    <3>3. CASE ~IsLocalAct(p.act)
      BY <3>1, <3>3, <2>2, WritesType DEF Serving
    <3> QED
      BY <3>2, <3>3
  <2>4. Changed(s, p)
    <3>1. ~Older(g, p) /\ ~Refused(g, p)
      BY <1>3 DEF gline_modify
    <3>2. gl'[s] = h
      BY <2>3 DEF SetGline, Serving, TypeOK
    <3> QED
      BY <3>1, <3>2 DEF Changed
  <2> HIDE DEF h
  <2> QED
    BY <2>1, <2>3, <2>4, RecordHandled
<1> QED
  BY <1>1, <1>2, <1>3

(* Local G-lines, whose users are disconnected at once. *)
LEMMA LocalHandled ==
  ASSUME NEW s, NEW n, NEW expire \in Int, Serving(s, n),
         local_add(s, n, expire) \/ local_destroy(s, n)
  PROVE  Handled
<1>1. SetGline(s, gline_find(s)) /\ Emit(s, n, Silent)
  BY DEF local_add, local_destroy
<1>2. chan' \in Network
  BY <1>1, SilentType, EmitType DEF Serving
<1>3. gl' \in [Servers -> Found]
  BY <1>1, FindType DEF Serving, SetGline, TypeOK, Found
<1>4. \A x \in Servers : gl'[x] \in {gl[x], gliter(gl[x])}
  BY <1>1 DEF Serving, SetGline, TypeOK, gline_find
<1>5. \/ UNCHANGED <<lgl, user>>
      \/ lgl' = [lgl EXCEPT ![s] = expire] /\ user' = [user EXCEPT ![s] = FALSE]
      \/ lgl' = [lgl EXCEPT ![s] = 0] /\ UNCHANGED user
  BY DEF local_add, local_destroy
<1>6. lgl' \in [Servers -> Int]
  BY <1>5, SMTT(60) DEF Serving, TypeOK
<1>8. user' \in [Servers -> BOOLEAN]
  BY <1>5 DEF Serving, TypeOK
<1>7. \A x \in Servers : user'[x] => user[x] /\ lgl'[x] \in {lgl[x], 0}
  BY <1>5 DEF Serving, TypeOK
<1> QED
  BY <1>2, <1>3, <1>4, <1>6, <1>7, <1>8 DEF Handled, Spared, Written

(* A message is passed on or another thing than the G-line changes. *)
LEMMA RoutedHandled ==
  ASSUME NEW s, NEW n, NEW o \in Writes, Serving(s, n), Emit(s, n, o),
         UNCHANGED <<gl, lgl, user>>
  PROVE  Handled
<1>1. chan' \in Network
  BY EmitType DEF Serving
<1> QED
  BY <1>1 DEF Handled, Spared, Written, Serving, TypeOK, Found

(* A change that is meant for this server. *)
LEMMA SingleHandled ==
  ASSUME NEW s, NEW n, NEW op \in {"+", "-", ">", "<"}, NEW expire \in Int, Serving(s, n),
         Single(s, n, op, expire)
  PROVE  Handled
<1> DEFINE p == [act |-> op, expire |-> 0, lastmod |-> 0, lifetime |-> 0, reason |-> None,
                 force |-> FALSE]
<1>1. p \in Change
  BY DEF Change
<1>2. CASE local_add(s, n, expire) \/ local_destroy(s, n)
  BY <1>2, LocalHandled
<1>3. CASE Ignored(s, n)
  BY <1>3, SilentType, IgnoredHandled DEF Ignored
<1>4. CASE gline_find(s) # None /\ gline_modify(s, n, gline_find(s), p)
  <2>1. p.expire = 0 /\ p.lifetime = 0 /\ p.reason = None
    OBVIOUS
  <2> HIDE DEF p
  <2> QED BY <1>1, <1>4, <2>1, ModifyHandled
<1> QED
  BY <1>2, <1>3, <1>4 DEF Single

(* Messages of each kind. *)
FullMsg == [t : {"GL"}, op : {"modify", "+", "-"}, rel : Int, lastmod : Nat, lifetime : Int,
            reason : Reasons, force : BOOLEAN]
ShortMsg == [t : {"SHORT"}, op : {"+", "-"}, lastmod : Nat, force : BOOLEAN]
OneMsg == [t : {"ONE"}, target : Servers, op : {"+", "-", ">", "<"}, rel : Int]

(* ms_gline with all parameters. *)
LEMMA FullHandled ==
  ASSUME NEW s, NEW n, NEW m \in FullMsg, Serving(s, n), ms_gline_full(s, n, m)
  PROVE  Handled
<1> DEFINE p(act) == [act |-> act, expire |-> m.rel + now, lastmod |-> m.lastmod,
                      lifetime |-> m.lifetime, reason |-> m.reason, force |-> m.force]
           a == IF m.op = "modify" THEN "+" ELSE m.op
<1>1. m.rel + now \in Int
  BY DEF FullMsg, Serving, TypeOK
<1>2. m.op \in {"modify", "+", "-"} /\ a \in {"+", "-"}
  BY DEF FullMsg
<1>3. \A act \in {"modify", "+", "-"} : p(act) \in Change /\ p(act).reason \in Reasons
  BY <1>1 DEF FullMsg, Change
<1>4. \/ gline_find(s) = None /\ gline_add(s, n, p(a))
      \/ gline_find(s) # None /\ gline_modify(s, n, gline_find(s), p(m.op))
  BY DEF ms_gline_full
<1>5. p(a) \in Change /\ p(a).reason \in Reasons /\ p(m.op) \in Change
      /\ ~IsLocalAct(p(m.op).act)
  BY <1>2, <1>3 DEF IsLocalAct
<1> HIDE DEF p, a
<1> QED
  BY <1>4, <1>5, AddHandled, ModifyHandled

(* ms_gline with lastmod only. *)
LEMMA ShortHandled ==
  ASSUME NEW s, NEW n, NEW m \in ShortMsg, Serving(s, n), ms_gline_short(s, n, m)
  PROVE  Handled
<1> DEFINE p == [act |-> m.op, expire |-> 0, lastmod |-> m.lastmod, lifetime |-> 0,
                 reason |-> None, force |-> m.force]
<1>1. p \in Change
  BY DEF ShortMsg, Change
<1>2. CASE gline_find(s) = None
  <2>1. <<m>> \in Seq(Msg)
    BY One DEF ShortMsg, Msg
  <2>2. ToAllBut(s, n, <<m>>) \in Writes
    BY <2>1, WritesType DEF Serving
  <2>3. /\ SetGline(s, gline_find(s)) /\ Emit(s, n, ToAllBut(s, n, <<m>>))
        /\ UNCHANGED <<user, lgl>>
    BY <1>2 DEF ms_gline_short
  <2> QED
    BY <2>2, <2>3, IgnoredHandled
<1>3. CASE gline_find(s) # None /\ gline_modify(s, n, gline_find(s), p)
  <2>1. ~IsLocalAct(p.act)
    BY DEF ShortMsg, IsLocalAct
  <2> HIDE DEF p
  <2> QED BY <1>1, <1>3, <2>1, ModifyHandled
<1> QED
  BY <1>2, <1>3 DEF ms_gline_short

(* ms_gline with a target. *)
LEMMA OneHandled ==
  ASSUME NEW s, NEW n, NEW m \in OneMsg, Serving(s, n), ms_gline_one(s, n, m)
  PROVE  Handled
<1>1. CASE Single(s, n, m.op, m.rel + now)
  <2>1. m.op \in {"+", "-", ">", "<"} /\ m.rel + now \in Int
    BY DEF OneMsg, Serving, TypeOK
  <2> QED
    BY <1>1, <2>1, SingleHandled
<1>2. CASE ~Single(s, n, m.op, m.rel + now)
  <2>1. <<m>> \in Seq(Msg)
    BY One DEF OneMsg, Msg
  <2>2. PICK o \in Writes : Emit(s, n, o)
    BY <1>2, <2>1, SilentType, WritesType DEF ms_gline_one, Serving
  <2>3. UNCHANGED <<gl, lgl, user>>
    BY <1>2 DEF ms_gline_one
  <2> QED
    BY <2>2, <2>3, RoutedHandled
<1> QED
  BY <1>1, <1>2
-----------------------------------------------------------------------------
(* The server that handles an operator's command, a message or a link. *)
LEMMA CommandHandled ==
  ASSUME GlineAssumption, TypeOK, NEW s \in Servers, Commands(s)
  PROVE  Handled
<1>0. Serving(s, s) /\ now \in Nat /\ Terms \subseteq Int /\ LongTerms \subseteq Int
  BY DEF Serving, TypeOK, GlineAssumption
<1>1. ASSUME NEW act \in {"modify", "+", "-"}, NEW term \in Terms \cup {None},
             NEW reason \in Reasons \cup {None}, mo_gline(s, act, term, reason)
      PROVE  Handled
  <2> DEFINE p == [act |-> act, expire |-> IF term = None THEN 0 ELSE now + term,
                   lastmod |-> now, lifetime |-> 0, reason |-> reason, force |-> FALSE]
  <2>1. (IF term = None THEN 0 ELSE now + term) \in Int
    BY <1>0
  <2>2. p \in Change
    BY <1>0, <2>1 DEF Change
  <2>3. CASE gline_find(s) = None /\ act # "modify" /\ term # None /\ gline_add(s, s, p)
    <3>1. p.reason \in Reasons
      BY <1>1, <2>3 DEF mo_gline, OperForm
    <3> HIDE DEF p
    <3> QED BY <1>0, <2>2, <2>3, <3>1, AddHandled
  <2>4. CASE gline_find(s) # None /\ gline_modify(s, s, gline_find(s), p)
    <3>1. ~IsLocalAct(p.act)
      BY DEF IsLocalAct
    <3> HIDE DEF p
    <3> QED BY <1>0, <2>2, <2>4, <3>1, ModifyHandled
  <2> QED
    BY <1>1, <2>3, <2>4 DEF mo_gline
<1>2. ASSUME NEW target \in Targets, NEW op \in {"+", "-", ">", "<"}, NEW term \in Terms,
             mo_gline_one(s, target, op, term)
      PROVE  Handled
  <2>1. CASE Single(s, s, op, now + term)
    BY <1>0, <2>1, SingleHandled
  <2>2. CASE ~Single(s, s, op, now + term)
    <3> DEFINE m == ForOne(target, op, Max(term, -1))
    <3>1. Max(term, -1) \in Int /\ target \in Servers
      BY <1>0, MaxType DEF GlineAssumption
    <3>2. m \in Msg
      BY <3>1 DEF ForOne, Msg
    <3>3. Emit(s, s, To(Via[s][target], <<m>>)) /\ UNCHANGED <<gl, lgl, user>>
      BY <1>2, <2>2 DEF mo_gline_one
    <3> HIDE DEF m
    <3>4. To(Via[s][target], <<m>>) \in Writes
      BY <3>2, One, WritesType
    <3> QED
      BY <1>0, <3>3, <3>4, RoutedHandled
  <2> QED
    BY <2>1, <2>2
<1>3. ASSUME NEW act \in {"modify", "+", "-"}, NEW term \in LongTerms, NEW reason \in Reasons,
             services_full(s, act, term, reason)
      PROVE  Handled
  <2> DEFINE m == [t |-> "GL", op |-> act, rel |-> term, lastmod |-> now,
                   lifetime |-> now + Max(term, 1), reason |-> reason, force |-> TRUE]
  <2>1. now + Max(term, 1) \in Int /\ term \in Int
    BY <1>0 DEF Max
  <2>2. m \in FullMsg
    BY <1>0, <2>1 DEF FullMsg
  <2>3. ms_gline_full(s, s, m)
    BY <1>3 DEF services_full
  <2> HIDE DEF m
  <2> QED
    BY <1>0, <2>2, <2>3, FullHandled
<1>4. ASSUME NEW act \in {"+", "-"}, services_short(s, act)
      PROVE  Handled
  <2>1. Short(act, now, TRUE) \in ShortMsg
    BY <1>0 DEF Short, ShortMsg
  <2> QED
    BY <1>0, <1>4, <2>1, ShortHandled DEF services_short
<1> QED
  BY <1>1, <1>2, <1>3, <1>4 DEF Commands

(* The first parameter tells the forms of messages apart. *)
LEMMA MsgOfKind ==
  ASSUME NEW m \in Msg
  PROVE  /\ m.t = "GL" => m \in FullMsg
         /\ m.t = "SHORT" => m \in ShortMsg
         /\ m.t = "ONE" => m \in OneMsg
BY DEF Msg, FullMsg, ShortMsg, OneMsg

(* The messages of links. *)
LEMMA PlainMsg ==
  /\ <<M("HELLO")>> \in Seq(Msg) /\ <<M("CLOSE")>> \in Seq(Msg)
  /\ <<M("EOB")>> \in Seq(Msg) /\ <<M("EOB_ACK")>> \in Seq(Msg)
<1>1. /\ M("HELLO") \in Msg /\ M("CLOSE") \in Msg
      /\ M("EOB") \in Msg /\ M("EOB_ACK") \in Msg
  BY DEF M, Msg
<1> QED
  BY <1>1, One

(* Whatever message is read. *)
LEMMA ReceiveHandled ==
  ASSUME TypeOK, NEW s \in Servers, NEW n \in Servers, Receive(s, n)
  PROVE  Handled
<1> DEFINE m == Head(chan[n][s])
<1>0. Serving(s, n)
  BY DEF Serving, Receive
<1>1. m \in Msg
  BY DEF Receive, TypeOK
<1>2. CASE m.t = "HELLO" /\ server_estab(s, n)
  <2>1. gline_burst(s) \in Seq(Msg)
    <3>1. CASE gline_find(s) = None
      BY <3>1 DEF gline_burst
    <3>2. CASE gline_find(s) # None
      <4> DEFINE g == gline_find(s)
      <4>1. g \in Record
        BY <3>2, FindType
      <4>2. Sign(g) \in {"modify", "+", "-"} /\ TRUE \in BOOLEAN
        BY DEF Sign
      <4>3. gline_burst(s) = <<Full(Sign(g), g, TRUE)>>
        BY <3>2 DEF gline_burst
      <4> HIDE DEF g
      <4> QED
        BY <4>1, <4>2, <4>3, FullType
    <3> QED
      BY <3>1, <3>2
  <2> DEFINE hello == IF status[s][n] = "unknown" THEN <<M("HELLO")>> ELSE <<>>
             q == hello \o gline_burst(s) \o <<M("EOB")>>
  <2>2. hello \in Seq(Msg)
    BY PlainMsg
  <2>3. q \in Seq(Msg)
    <3> HIDE DEF hello
    <3>1. hello \o gline_burst(s) \in Seq(Msg)
      BY <2>1, <2>2
    <3> QED BY <3>1, PlainMsg
  <2>4. /\ SetGline(s, gline_find(s)) /\ Emit(s, n, To(n, q)) /\ UNCHANGED <<user, lgl>>
    BY <1>2 DEF server_estab
  <2> HIDE DEF q
  <2>5. To(n, q) \in Writes
    BY <2>3, WritesType
  <2> QED
    BY <1>0, <2>4, <2>5, IgnoredHandled
<1>3. CASE m.t = "CLOSE" /\ peer_closed(s, n)
  BY <1>0, <1>3, SilentType, RoutedHandled DEF peer_closed
<1>4. CASE m.t = "EOB" /\ ms_end_of_burst(s, n)
  <2>1. To(n, <<M("EOB_ACK")>>) \in Writes
    BY PlainMsg, WritesType
  <2> QED
    BY <1>0, <1>4, <2>1, RoutedHandled DEF ms_end_of_burst
<1>5. CASE m.t = "EOB_ACK" /\ ms_end_of_burst_ack(s, n)
  BY <1>0, <1>5, SilentType, RoutedHandled DEF ms_end_of_burst_ack
<1>6. CASE m.t = "GL" /\ ms_gline_full(s, n, m)
  BY <1>0, <1>1, <1>6, MsgOfKind, FullHandled
<1>7. CASE m.t = "SHORT" /\ ms_gline_short(s, n, m)
  BY <1>0, <1>1, <1>7, MsgOfKind, ShortHandled
<1>8. CASE m.t = "ONE" /\ ms_gline_one(s, n, m)
  BY <1>0, <1>1, <1>8, MsgOfKind, OneHandled
<1> QED
  BY <1>2, <1>3, <1>4, <1>5, <1>6, <1>7, <1>8 DEF Receive
-----------------------------------------------------------------------------
(* The rest of the state. *)
Statuses == [Servers -> [Servers -> {"none", "unknown", "handshake"} \cup Linked]]
Bounded == ops \in 0..MaxOps /\ connects \in 0..MaxConnects /\ breaks \in 0..MaxBreaks

(* TypeOK holds at first. *)
LEMMA TypeInit ==
  ASSUME GlineAssumption, Init
  PROVE  TypeOK
<1>1. gl \in [Servers -> Record \cup {None}] /\ lgl \in [Servers -> Int]
  BY DEF Init
<1>2. user \in [Servers -> BOOLEAN]
  BY DEF Init
<1>3. now \in Nat /\ now >= Start
  BY DEF Init, GlineAssumption
<1>4. status \in Statuses
  BY DEF Init, Statuses, Linked
<1>5. chan \in [Servers -> [Servers -> Seq(Msg)]]
  BY DEF Init
<1>6. Bounded
  BY DEF Init, Bounded, GlineAssumption
<1>7. author \in Servers \cup {None} /\ clean \in BOOLEAN
  BY DEF Init
<1> QED
  BY <1>1, <1>2, <1>3, <1>4, <1>5, <1>6, <1>7 DEF TypeOK, Statuses, Bounded

(* TypeOK and commands. *)
LEMMA CommandType ==
  ASSUME GlineAssumption, TypeOK, NEW s \in Servers, Commands(s)
  PROVE  TypeOK' /\ now' = now
<1>1. Handled
  BY CommandHandled
<1>2. Op
  BY DEF Commands, mo_gline, mo_gline_one, services_full, services_short
<1>3. author' \in Servers \cup {None} /\ clean' \in BOOLEAN
  BY ZenonT(60) DEF Commands, mo_gline, mo_gline_one, services_full, services_short, Authored, history,
         TypeOK
<1>4. now' = now /\ status' = status
  BY <1>2 DEF Op
<1>5. ops' \in 0..MaxOps /\ connects' \in 0..MaxConnects /\ breaks' \in 0..MaxBreaks
  BY <1>2 DEF Op, TypeOK, GlineAssumption
<1> QED
  BY <1>1, <1>3, <1>4, <1>5 DEF Handled, Found, Network, TypeOK

(* TypeOK and messages. *)
LEMMA ReceiveType ==
  ASSUME TypeOK, NEW s \in Servers, NEW n \in Servers, Receive(s, n)
  PROVE  TypeOK' /\ now' = now
<1>1. Handled
  BY ReceiveHandled
<1>2. status' \in Statuses
  <2> DEFINE V == {"none", "unknown", "handshake"} \cup Linked
  <2>1. status \in [Servers -> [Servers -> V]] /\ status[s][n] \in V
    BY DEF TypeOK
  <2>2. "none" \in V /\ "burst" \in V /\ "ack" \in V /\ "server" \in V
    BY DEF Linked
  <2>3. \/ UNCHANGED status
        \/ status' = [status EXCEPT ![s][n] = "burst"]
        \/ status' = [status EXCEPT ![s][n] = "none"]
        \/ status' = [status EXCEPT ![s][n] = "ack"]
        \/ status' = [status EXCEPT ![s][n] = IF @ = "ack" THEN "server" ELSE @]
    BY DEF Receive, server_estab, peer_closed, ms_end_of_burst, ms_end_of_burst_ack
  <2> HIDE DEF V
  <2>4. \/ UNCHANGED status
        \/ \E v \in V : status' = [status EXCEPT ![s][n] = v]
    BY <2>1, <2>2, <2>3
  <2>5. \A v \in V : [status EXCEPT ![s][n] = v] \in [Servers -> [Servers -> V]]
    BY <2>1
  <2>6. status' \in [Servers -> [Servers -> V]]
    BY <2>1, <2>4, <2>5
  <2> QED
    BY <2>6 DEF V, Statuses
<1>3. UNCHANGED <<now, author, clean, ops, connects, breaks>>
  BY DEF Receive, history, bounds
<1> QED
  BY <1>1, <1>2, <1>3 DEF Handled, Found, Network, TypeOK, Statuses

(* TypeOK and links. *)
LEMMA LinkType ==
  ASSUME TypeOK, GlineAssumption, NEW s \in Servers, NEW n \in Servers,
         Connect(s, n) \/ Break(s, n)
  PROVE  TypeOK' /\ UNCHANGED <<gl, lgl, user, now>>
<1>0. UNCHANGED <<gl, lgl, user, now, author, clean>>
  BY DEF Connect, Break, history
<1>1. status' \in Statuses
  <2> DEFINE V == {"none", "unknown", "handshake"} \cup Linked
  <2>1. status \in [Servers -> [Servers -> V]] /\ "none" \in V /\ "unknown" \in V
        /\ "handshake" \in V
    BY DEF TypeOK
  <2>2. \/ status' = [status EXCEPT ![s][n] = "handshake", ![n][s] = "unknown"]
        \/ status' = [status EXCEPT ![s][n] = "none"]
    BY DEF Connect, Break
  <2> HIDE DEF V
  <2>3. \A v, w \in V :
          /\ [status EXCEPT ![s][n] = v] \in [Servers -> [Servers -> V]]
          /\ [status EXCEPT ![s][n] = v, ![n][s] = w] \in [Servers -> [Servers -> V]]
    BY <2>1
  <2>4. status' \in [Servers -> [Servers -> V]]
    <3>1. CASE status' = [status EXCEPT ![s][n] = "handshake", ![n][s] = "unknown"]
      BY <2>1, <2>3, <3>1, Zenon
    <3>2. CASE status' = [status EXCEPT ![s][n] = "none"]
      BY <2>1, <2>3, <3>2, Zenon
    <3> QED
      BY <2>2, <3>1, <3>2
  <2> QED
    BY <2>4 DEF V, Statuses
<1>2. chan' \in Network
  <2> DEFINE Q == Seq(Msg)
  <2>0. chan \in [Servers -> [Servers -> Q]] /\ <<>> \in Q /\ <<M("HELLO")>> \in Q
    BY PlainMsg DEF TypeOK
  <2>a. s # n
    BY DEF Connect, Break, GlineAssumption
  <2>b. chan[s][n] \in Q /\ chan[s][n] \o <<M("CLOSE")>> \in Q
    BY PlainMsg DEF TypeOK
  <2>1. \/ chan' = [chan EXCEPT ![s][n] = <<M("HELLO")>>, ![n][s] = <<>>]
        \/ chan' = [chan EXCEPT ![n][s] = <<>>, ![s][n] = chan[s][n]]
        \/ chan' = [chan EXCEPT ![n][s] = <<>>, ![s][n] = chan[s][n] \o <<M("CLOSE")>>]
    <3>1. ASSUME Break(s, n)
          PROVE  chan' = [chan EXCEPT ![n][s] = <<>>,
                            ![s][n] = IF status[n][s] = "none" THEN chan[s][n]
                                      ELSE chan[s][n] \o <<M("CLOSE")>>]
      BY <2>0, <2>a, <3>1 DEF Break
    <3> QED
      BY <3>1 DEF Connect
  <2> HIDE DEF Q
  <2>2. \A v, w \in Q :
          /\ [chan EXCEPT ![s][n] = v, ![n][s] = w] \in [Servers -> [Servers -> Q]]
          /\ [chan EXCEPT ![n][s] = v, ![s][n] = w] \in [Servers -> [Servers -> Q]]
    BY <2>0
  <2>3. chan' \in [Servers -> [Servers -> Q]]
    <3>1. CASE chan' = [chan EXCEPT ![s][n] = <<M("HELLO")>>, ![n][s] = <<>>]
      BY <2>0, <2>2, <3>1, Zenon
    <3>2. CASE chan' = [chan EXCEPT ![n][s] = <<>>, ![s][n] = chan[s][n]]
      BY <2>0, <2>b, <2>2, <3>2, Zenon
    <3>3. CASE chan' = [chan EXCEPT ![n][s] = <<>>, ![s][n] = chan[s][n] \o <<M("CLOSE")>>]
      BY <2>0, <2>b, <2>2, <3>3, Zenon
    <3> QED
      BY <2>1, <3>1, <3>2, <3>3
  <2> QED
    BY <2>3 DEF Q, Network
<1>3. ops' \in 0..MaxOps /\ connects' \in 0..MaxConnects /\ breaks' \in 0..MaxBreaks
  <2>1. CASE Connect(s, n)
    BY <2>1 DEF Connect, TypeOK, GlineAssumption
  <2>2. CASE Break(s, n)
    BY <2>2 DEF Break, TypeOK, GlineAssumption
  <2> QED
    BY <2>1, <2>2
<1> QED
  BY <1>0, <1>1, <1>2, <1>3 DEF TypeOK, Statuses, Network

(* TypeOK and users. *)
LEMMA UserType ==
  ASSUME TypeOK, NEW s \in Servers, register_user(s) \/ m_quit(s)
  PROVE  TypeOK'
<1>1. user' \in [Servers -> BOOLEAN]
  BY DEF register_user, m_quit, TypeOK
<1>2. UNCHANGED <<gl, lgl, now, status, chan, author, clean, ops, connects, breaks>>
  BY DEF register_user, m_quit, history, bounds
<1> QED
  BY <1>1, <1>2 DEF TypeOK

(* TypeOK and the clock. *)
LEMMA TickType ==
  ASSUME TypeOK, GlineAssumption, Tick
  PROVE  TypeOK'
<1>1. now' \in Nat /\ now' >= Start
  BY DEF Tick, TypeOK, GlineAssumption
<1>2. clean' \in BOOLEAN
  BY DEF Tick
<1>3. UNCHANGED <<gl, lgl, user, status, chan, author, ops, connects, breaks>>
  BY DEF Tick, bounds
<1> QED
  BY <1>1, <1>2, <1>3 DEF TypeOK

(* Every step keeps TypeOK. *)
LEMMA TypeStep ==
  ASSUME GlineAssumption, TypeOK, [Next]_vars
  PROVE  TypeOK'
<1>1. CASE UNCHANGED vars
  BY <1>1 DEF vars, history, bounds, TypeOK
<1>2. CASE Next
  BY <1>2, CommandType, ReceiveType, LinkType, UserType, TickType DEF Next
<1> QED
  BY <1>1, <1>2

(* TypeOK holds for every tree of servers, every set of terms and every    *)
(* bound on commands, links and time.                                      *)
THEOREM TypeCorrect == Spec => []TypeOK
<1> USE GlineAssumption
<1>1. Init => TypeOK
  BY TypeInit
<1>2. TypeOK /\ [Next]_vars => TypeOK'
  BY TypeStep
<1> QED
  BY <1>1, <1>2, PTL DEF Spec
-----------------------------------------------------------------------------
(* A user that a handler leaves on is matched by no active G-line. *)
LEMMA HandledSpares ==
  ASSUME TypeOK, BannedAreGone, Handled, now' = now
  PROVE  BannedAreGone'
<1> SUFFICES ASSUME NEW x \in Servers, user'[x]
             PROVE  ~gline_lookup(x)'
  BY DEF BannedAreGone
<1>1. Spared(x) /\ ~gline_lookup(x)
  BY DEF Handled, Spared, BannedAreGone
<1>2. ~(lgl'[x] > now')
  BY <1>1 DEF Spared, gline_lookup, LocalFound, TypeOK
<1>3. gl[x] \in Found /\ gliter(gl[x]) \in Found
  BY GliterType DEF TypeOK, Found
<1>4. gline_find(x)' = gliter(gl'[x])
  BY DEF gline_find, gliter
<1>5. ~(gliter(gl[x]) # None /\ GlineIsActive(gliter(gl[x])))
  BY <1>1 DEF gline_lookup, gline_find
<1>6. ~(gliter(gl'[x]) # None /\ GlineIsActive(gliter(gl'[x])))
  <2>1. CASE gl'[x] = gl[x]
    BY <1>5, <2>1
  <2>2. CASE gl'[x] = gliter(gl[x])
    BY <1>3, <1>5, <2>2, GliterTwice
  <2>3. CASE gl'[x] \in Record /\ ~GlineIsActive(gl'[x])
    BY <2>3, GliterActive DEF Found
  <2> QED
    BY <1>1, <2>1, <2>2, <2>3 DEF Spared
<1> QED
  BY <1>2, <1>4, <1>6 DEF gline_lookup, LocalFound, GlineIsActive

(* Every step keeps BannedAreGone. *)
LEMMA BannedStep ==
  ASSUME GlineAssumption, TypeOK, BannedAreGone, [Next]_vars
  PROVE  BannedAreGone'
<1>1. CASE UNCHANGED vars
  BY <1>1 DEF vars, BannedAreGone, gline_lookup, LocalFound, gline_find, gliter, GlineIsActive
<1>2. ASSUME NEW s \in Servers, Commands(s) PROVE BannedAreGone'
  BY <1>2, CommandHandled, CommandType, HandledSpares
<1>3. ASSUME NEW s \in Servers, NEW n \in Servers, Receive(s, n) PROVE BannedAreGone'
  BY <1>3, ReceiveHandled, ReceiveType, HandledSpares
<1>4. ASSUME NEW s \in Servers, NEW n \in Servers, Connect(s, n) \/ Break(s, n)
      PROVE  BannedAreGone'
  <2>1. UNCHANGED <<gl, lgl, user, now>>
    BY <1>4, LinkType
  <2> QED
    BY <2>1 DEF BannedAreGone, gline_lookup, LocalFound, gline_find, gliter, GlineIsActive
<1>5. ASSUME NEW s \in Servers, register_user(s) \/ m_quit(s) PROVE BannedAreGone'
  <2>1. \A x \in Servers : gline_lookup(x)' <=> gline_lookup(x)
    BY <1>5 DEF register_user, m_quit, gline_lookup, LocalFound, gline_find, gliter,
                GlineIsActive
  <2>2. \A x \in Servers : user'[x] => user[x] \/ ~gline_lookup(x)
    BY <1>5, ZenonT(60) DEF register_user, m_quit, TypeOK
  <2> QED
    BY <2>1, <2>2 DEF BannedAreGone
<1>6. CASE Tick
  <2> SUFFICES ASSUME NEW x \in Servers, gline_lookup(x)'
               PROVE  gline_lookup(x)
    BY <1>6 DEF BannedAreGone, Tick
  <2>0. now' = now + 1 /\ gl' = gl /\ lgl' = lgl
    BY <1>6 DEF Tick
  <2>1. CASE LocalFound(x)'
    BY <2>0, <2>1 DEF LocalFound, gline_lookup, TypeOK
  <2>2. CASE gline_find(x)' # None /\ GlineIsActive(gline_find(x))'
    <3> DEFINE g == gl[x]
    <3>1. g \in Found
      BY DEF TypeOK, Found
    <3>2. gliter(gl[x])' # None /\ GlineIsActive(gliter(gl[x])')
      BY <2>2 DEF gline_find, GlineIsActive
    <3> QED
      BY <2>0, <3>1, <3>2, GliterLater DEF gline_lookup, gline_find
  <2> QED
    BY <2>1, <2>2 DEF gline_lookup
<1> QED
  BY <1>1, <1>2, <1>3, <1>4, <1>5, <1>6 DEF Next

(* No user that an active G-line matches is ever on, whatever order global *)
(* and local changes, bursts, splits and expirations come in: gline_add    *)
(* and gline_modify disconnect through do_gline, conf_check_client refuses *)
(* newcomers, and neither a lookup nor the clock makes a G-line active.    *)
THEOREM NoBannedUser == Spec => []BannedAreGone
<1> USE GlineAssumption
<1>1. Init => BannedAreGone
  BY DEF Init, BannedAreGone
<1>2. TypeOK /\ BannedAreGone /\ [Next]_vars => BannedAreGone'
  BY BannedStep
<1> QED
  BY <1>1, <1>2, TypeCorrect, PTL DEF Spec
-----------------------------------------------------------------------------
(* Every step changes a record only in the ways of Written. *)
LEMMA StepWrites ==
  ASSUME GlineAssumption, TypeOK, [Next]_vars
  PROVE  \A x \in Servers : Written(x)
<1>1. CASE UNCHANGED vars
  BY <1>1 DEF vars, Written
<1>2. ASSUME NEW s \in Servers, Commands(s) PROVE \A x \in Servers : Written(x)
  BY <1>2, CommandHandled DEF Handled
<1>3. ASSUME NEW s \in Servers, NEW n \in Servers, Receive(s, n)
      PROVE  \A x \in Servers : Written(x)
  BY <1>3, ReceiveHandled DEF Handled
<1>4. ASSUME UNCHANGED gl PROVE \A x \in Servers : Written(x)
  BY <1>4 DEF Written
<1>5. ASSUME NEW s \in Servers, NEW n \in Servers,
             register_user(s) \/ m_quit(s) \/ Connect(s, n) \/ Break(s, n) \/ Tick
      PROVE  UNCHANGED gl
  BY <1>5 DEF register_user, m_quit, Connect, Break, Tick
<1>6. ASSUME Tick PROVE UNCHANGED gl
  BY <1>6 DEF Tick
<1> QED
  BY <1>1, <1>2, <1>3, <1>4, <1>5, <1>6 DEF Next

(* A record that is found is the stored one, or the stored one expired. *)
LEMMA GliterIs ==
  ASSUME TypeOK, NEW g \in Found, gliter(g) # None
  PROVE  /\ g \in Record /\ gliter(g) \in Record
         /\ gliter(g).lastmod = g.lastmod /\ gliter(g).lifetime = g.lifetime
         /\ gliter(g).expire = g.expire /\ gliter(g).reason = g.reason
         /\ g.expire > now => gliter(g) = g
         /\ ~(g.expire > now) => g.expire <= now
<1>1. g \in Record /\ g.expire \in Int /\ now \in Int
  BY DEF Found, gliter, Record, TypeOK
<1>2. gliter(g) = IF g.expire > now THEN g ELSE [g EXCEPT !.active = FALSE, !.state = "global"]
  BY DEF gliter
<1>3. CASE g.expire > now
  BY <1>1, <1>2, <1>3
<1>4. CASE ~(g.expire > now)
  <2> DEFINE h == [g EXCEPT !.active = FALSE, !.state = "global"]
  <2>1. h \in Record
    BY <1>1 DEF Record
  <2>2. h.lastmod = g.lastmod /\ h.lifetime = g.lifetime
    BY <1>1 DEF Record
  <2>3. h.expire = g.expire /\ h.reason = g.reason
    BY <1>1 DEF Record
  <2>4. gliter(g) = h
    BY <1>2, <1>4
  <2> HIDE DEF h
  <2> QED
    BY <1>1, <1>4, <2>1, <2>2, <2>3, <2>4
<1> QED
  BY <1>3, <1>4

(* The parts of Modified that are ordered. *)
LEMMA ModifiedGrows ==
  ASSUME NEW g \in Record, NEW p \in Change, ~Older(g, p), ~Refused(g, p),
         IsLocalAct(p.act) => p.expire = 0 /\ p.lifetime = 0 /\ p.reason = None
  PROVE  /\ Modified(g, p).lifetime >= g.lifetime
         /\ Modified(g, p).lastmod >= g.lastmod
         /\ Modified(g, p).lastmod = g.lastmod =>
              /\ Modified(g, p).expire = g.expire /\ Modified(g, p).reason = g.reason
              /\ Modified(g, p).active = g.active
<1>1. /\ g.lastmod \in Nat /\ p.lastmod \in Nat /\ g.lifetime \in Int /\ p.lifetime \in Int
      /\ g.expire \in Int /\ p.expire \in Int
  BY DEF Record, Change
<1>2. NewExpire(g, p) \in Int
  BY <1>1 DEF NewExpire
<1>3. NewLifetime(g, p) >= g.lifetime
  BY <1>1, <1>2 DEF NewLifetime, Max
<1>4. ~IsLocalAct(p.act) => p.lastmod > g.lastmod
  BY <1>1 DEF Older, Refused
<1>5. IsLocalAct(p.act) =>
        /\ NewExpire(g, p) = 0 /\ NewReason(g, p) = g.reason
        /\ NewAction(g, p) \notin {"+", "-"}
  BY DEF NewExpire, NewReason, NewAction, IsLocalAct
<1> QED
  BY <1>1, <1>3, <1>4, <1>5 DEF Modified

(* lastmod is a serial number in the sense of readme.gline: no interleaving *)
(* of commands, messages, resends, bursts and expirations lets an older or  *)
(* equal change replace what a newer one said, because gline_modify compares*)
(* before it assigns and a change for one server leaves lastmod alone.      *)
THEOREM NewestWins == Spec => LastmodGrows
<1> USE GlineAssumption
<1>1. ASSUME TypeOK, [Next]_vars, NEW s \in Servers, gline_find(s) # None, gl'[s] # None
      PROVE  /\ gl'[s].lastmod >= gl[s].lastmod
             /\ gl'[s].lifetime >= gl[s].lifetime
             /\ gl'[s].lastmod = gl[s].lastmod =>
                  /\ gl'[s].expire = gl[s].expire /\ gl'[s].reason = gl[s].reason
                  /\ gl'[s].active = gl[s].active \/ gl[s].expire <= now
  <2> DEFINE g == gl[s]
             f == gline_find(s)
  <2>1. /\ g \in Record /\ f \in Record
        /\ f.lastmod = g.lastmod /\ f.lifetime = g.lifetime
        /\ f.expire = g.expire /\ f.reason = g.reason
        /\ f.active = g.active \/ g.expire <= now
    <3>1. g \in Found /\ f = gliter(g)
      BY <1>1 DEF TypeOK, Found, gline_find
    <3> QED
      BY <1>1, <3>1, GliterIs
  <2>2. g.lastmod \in Nat /\ g.lifetime \in Int
    BY <2>1 DEF Record
  <2>3. Written(s)
    BY <1>1, StepWrites
  <2>4. CASE gl'[s] \in {g, f}
    BY <2>1, <2>2, <2>4
  <2>5. CASE \E p \in Change : Changed(s, p)
    <3>1. PICK p \in Change : Changed(s, p)
      BY <2>5
    <3>2. /\ ~Older(f, p) /\ ~Refused(f, p) /\ gl'[s] = Modified(f, p)
          /\ IsLocalAct(p.act) => p.expire = 0 /\ p.lifetime = 0 /\ p.reason = None
      BY <3>1 DEF Changed
    <3> HIDE DEF f
    <3>3. /\ Modified(f, p).lifetime >= f.lifetime
          /\ Modified(f, p).lastmod >= f.lastmod
          /\ Modified(f, p).lastmod = f.lastmod =>
               /\ Modified(f, p).expire = f.expire /\ Modified(f, p).reason = f.reason
               /\ Modified(f, p).active = f.active
      BY <2>1, <3>2, ModifiedGrows
    <3> QED
      BY <2>1, <3>2, <3>3
  <2> QED
    BY <1>1, <2>3, <2>4, <2>5 DEF Written, gline_find
<1>2. TypeOK /\ [Next]_vars =>
        [\A s \in Servers : gline_find(s) # None /\ gl'[s] # None =>
           /\ gl'[s].lastmod >= gl[s].lastmod
           /\ gl'[s].lifetime >= gl[s].lifetime
           /\ gl'[s].lastmod = gl[s].lastmod =>
                /\ gl'[s].expire = gl[s].expire /\ gl'[s].reason = gl[s].reason
                /\ gl'[s].active = gl[s].active \/ gl[s].expire <= now]_vars
  BY <1>1
<1> QED
  BY <1>2, TypeCorrect, PTL DEF Spec, LastmodGrows

(* What an operator has set on one server stays until the G-line expires   *)
(* or the network activates or deactivates it: readme.gline, and the state *)
(* machine of gl_state in gline_modify.                                    *)
THEOREM LocalStateStays == Spec => LocalStateHolds
<1> USE GlineAssumption
<1>1. ASSUME TypeOK, [Next]_vars, NEW s \in Servers,
             gl[s] # None, gl[s].state # "global", gl[s].expire > now, gl[s].lifetime > now
      PROVE  gl'[s] # None /\ (gl'[s].state # "global" \/ gl'[s].active # gl[s].active)
  <2> DEFINE g == gl[s]
  <2>1. g \in Record /\ gliter(g) = g /\ gline_find(s) = g
    BY <1>1, SMTT(60) DEF TypeOK, Record, gliter, gline_find, GlineAssumption
  <2>2. Written(s)
    BY <1>1, StepWrites
  <2>3. CASE gl'[s] = g
    BY <1>1, <2>3
  <2>4. CASE \E p \in Change : Changed(s, p)
    <3>1. PICK p \in Change : Changed(s, p)
      BY <2>4
    <3>2. gl'[s] = Modified(g, p)
      BY <2>1, <3>1 DEF Changed
    <3> HIDE DEF g
    <3>3. Modified(g, p) \in Record /\ NewAction(g, p) \in {"modify", p.act}
      BY <2>1, ModifiedType
    <3>4. p.act \in {"modify", "+", "-", ">", "<"}
      BY DEF Change
    <3>5. g.state # "global" /\ g.active \in BOOLEAN
      BY <1>1, <2>1 DEF g, Record
    <3>6. CASE NewAction(g, p) \in {"+", "-"}
      <4>1. /\ NewAction(g, p) = p.act
            /\ p.act = "+" => g.active = FALSE
            /\ p.act = "-" => g.active = TRUE
        BY <3>3, <3>5, <3>6 DEF NewAction
      <4>2. Modified(g, p).active = (p.act = "+")
        BY <3>6 DEF Modified
      <4>3. Modified(g, p).active # g.active
        BY <3>4, <3>5, <3>6, <4>1, <4>2
      <4> QED
        BY <3>2, <3>3, <4>3 DEF g, GlineAssumption
    <3>7. CASE NewAction(g, p) \notin {"+", "-"}
      <4>1. Modified(g, p).state # "global"
        BY <3>3, <3>4, <3>5, <3>7 DEF Modified
      <4> QED
        BY <3>2, <3>3, <4>1 DEF GlineAssumption
    <3> QED
      BY <3>6, <3>7
  <2> QED
    BY <1>1, <2>1, <2>2, <2>3, <2>4 DEF Written
<1>2. TypeOK /\ [Next]_vars =>
        [\A s \in Servers :
           gl[s] # None /\ gl[s].state # "global" /\ gl[s].expire > now /\ gl[s].lifetime > now =>
             gl'[s] # None /\ (gl'[s].state # "global" \/ gl'[s].active # gl[s].active)]_vars
  BY <1>1
<1> QED
  BY <1>2, TypeCorrect, PTL DEF Spec, LocalStateHolds
-----------------------------------------------------------------------------
(* Queues.                                                                 *)

(* The messages of two queues, one behind the other. *)
LEMMA CatIs ==
  ASSUME NEW q \in Seq(Msg), NEW r \in Seq(Msg)
  PROVE  /\ q \o r \in Seq(Msg) /\ Len(q \o r) = Len(q) + Len(r) /\ Len(q) \in Nat /\ Len(r) \in Nat
         /\ \A i \in 1..Len(q) : i \in 1..Len(q \o r) /\ (q \o r)[i] = q[i]
         /\ \A i \in 1..Len(r) : Len(q) + i \in 1..Len(q \o r) /\ (q \o r)[Len(q) + i] = r[i]
         /\ \A i \in 1..Len(q \o r) :
              i \in 1..Len(q) \/ (i - Len(q) \in 1..Len(r) /\ (q \o r)[i] = r[i - Len(q)])
OBVIOUS

(* The messages of a queue behind its first one. *)
LEMMA TailIs ==
  ASSUME NEW q \in Seq(Msg), q # <<>>
  PROVE  /\ Tail(q) \in Seq(Msg) /\ Len(q) \in Nat \ {0} /\ Len(Tail(q)) = Len(q) - 1
         /\ Head(q) = q[1] /\ Head(q) \in Msg
         /\ \A i \in 1..Len(Tail(q)) : i + 1 \in 1..Len(q) /\ Tail(q)[i] = q[i + 1]
         /\ \A i \in 1..Len(q) : i = 1 \/ (i - 1 \in 1..Len(Tail(q)) /\ Tail(q)[i - 1] = q[i])
OBVIOUS

Has(q, T) == \E i \in 1..Len(q) : q[i].t \in T

(* What a longer queue holds. *)
LEMMA HasCat ==
  ASSUME NEW q \in Seq(Msg), NEW r \in Seq(Msg), NEW T
  PROVE  Has(q \o r, T) <=> Has(q, T) \/ Has(r, T)
<1> USE CatIs
<1>1. ASSUME Has(q \o r, T) PROVE Has(q, T) \/ Has(r, T)
  BY <1>1 DEF Has
<1>2. ASSUME Has(q, T) PROVE Has(q \o r, T)
  BY <1>2 DEF Has
<1>3. ASSUME Has(r, T) PROVE Has(q \o r, T)
  <2>1. PICK i \in 1..Len(r) : r[i].t \in T
    BY <1>3 DEF Has
  <2>2. Len(q) + i \in 1..Len(q \o r) /\ (q \o r)[Len(q) + i] = r[i]
    OBVIOUS
  <2> QED
    BY <2>1, <2>2 DEF Has
<1> QED
  BY <1>1, <1>2, <1>3

(* What is left when the first message was read. *)
LEMMA HasTail ==
  ASSUME NEW q \in Seq(Msg), q # <<>>, NEW T
  PROVE  Has(q, T) => Head(q).t \in T \/ Has(Tail(q), T)
<1>1. ASSUME NEW i \in 1..Len(q), q[i].t \in T PROVE Head(q).t \in T \/ Has(Tail(q), T)
  <2>1. CASE i = 1
    BY <1>1, <2>1, TailIs
  <2>2. CASE i - 1 \in 1..Len(Tail(q)) /\ Tail(q)[i - 1] = q[i]
    BY <1>1, <2>2 DEF Has
  <2> QED
    BY <2>1, <2>2, TailIs
<1> QED
  BY <1>1 DEF Has

(* Nothing is in an empty queue, and reading makes nothing appear. *)
LEMMA HasLess ==
  ASSUME NEW q \in Seq(Msg), NEW T
  PROVE  /\ q = <<>> => ~Has(q, T)
         /\ q # <<>> /\ Has(Tail(q), T) => Has(q, T)
<1>1. q = <<>> => ~Has(q, T)
  BY DEF Has
<1>2. ASSUME q # <<>>, Has(Tail(q), T) PROVE Has(q, T)
  <2>1. PICK i \in 1..Len(Tail(q)) : Tail(q)[i].t \in T
    BY <1>2 DEF Has
  <2>2. i + 1 \in 1..Len(q) /\ Tail(q)[i] = q[i + 1]
    BY <1>2, TailIs
  <2> QED
    BY <2>1, <2>2 DEF Has
<1> QED
  BY <1>1, <1>2

(* The first message stays first while others are written behind it. *)
LEMMA HeadCat ==
  ASSUME NEW q \in Seq(Msg), NEW r \in Seq(Msg)
  PROVE  /\ q # <<>> => q \o r # <<>> /\ Head(q \o r) = Head(q)
         /\ q = <<>> => q \o r = r
         /\ r = <<>> => q \o r = q
OBVIOUS

(* What Emit does to each queue. *)
LEMMA EmitIs ==
  ASSUME NEW s \in Servers, NEW n \in Servers, NEW o, Emit(s, n, o)
  PROVE  /\ n # s => chan'[n][s] = Tail(chan[n][s])
         /\ \A y \in Servers : y # s /\ status[y][s] # "none" => chan'[s][y] = chan[s][y] \o o[y]
         /\ \A y \in Servers : y # s /\ status[y][s] = "none" => chan'[s][y] = chan[s][y]
         /\ \A x, y \in Servers : x # s /\ ~(x = n /\ y = s) => chan'[x][y] = chan[x][y]
BY DEF Emit
-----------------------------------------------------------------------------
(* The two ends of a link.                                                 *)

(* A tree: the path from a server to any other leaves by one neighbour,    *)
(* and from there it does not come back.                                   *)
Tree ==
  \A s, n \in Servers : s # n /\ Via[s][n] = n =>
    Via[n][s] = s /\ \A x \in Servers : Via[s][x] = n <=> Via[n][x] # s

Opening == {"unknown", "handshake"}

(* Links are those of the tree; an end that is left alone has a CLOSE to   *)
(* read, behind which nothing comes; what an end that is not established   *)
(* reads first is a HELLO.                                                 *)
Ends(s, n) ==
  /\ status[s][n] # "none" => s # n /\ Via[s][n] = n
  /\ status[s][n] # "none" => status[n][s] # "none" \/ Has(chan[n][s], {"CLOSE"})
  /\ Has(chan[s][n], {"CLOSE"}) => status[s][n] = "none"
  /\ status[s][n] \in Opening =>
       \/ chan[n][s] # <<>> /\ Head(chan[n][s]).t = "HELLO"
       \/ chan[n][s] = <<>> /\ status[s][n] = "handshake" /\ status[n][s] = "unknown"
Paired == \A s, n \in Servers : Ends(s, n)

(* An end is open, established or not there. *)
LEMMA StatusIs ==
  ASSUME TypeOK, NEW s \in Servers, NEW n \in Servers
  PROVE  /\ status[s][n] \in Linked <=> status[s][n] # "none" /\ status[s][n] \notin Opening
         /\ "none" \notin Linked /\ "unknown" \notin Linked /\ "handshake" \notin Linked
         /\ "burst" \in Linked /\ "ack" \in Linked /\ "server" \in Linked
BY DEF TypeOK, Linked, Opening

(* A server reads a message or a command and writes: st is the state of    *)
(* the link it read from.                                                  *)
LEMMA PairedServe ==
  ASSUME TypeOK, Paired, NEW s \in Servers, NEW n \in Servers, NEW o \in Writes, Emit(s, n, o),
         NEW st \in Linked \cup {"none"},
         status' = IF n = s THEN status ELSE [status EXCEPT ![s][n] = st],
         \A x \in Servers : o[x] # <<>> => x = n \/ status[s][x] \in Linked,
         \A x \in Servers : ~Has(o[x], {"CLOSE"}),
         n # s => /\ chan[n][s] # <<>> /\ status[s][n] # "none"
                  /\ st = "none" <=> Head(chan[n][s]).t = "CLOSE"
                  /\ status[s][n] = "unknown" => o[n] # <<>> /\ Head(o[n]).t = "HELLO"
  PROVE  Paired'
<1>1. \A x, y \in Servers : chan[x][y] \in Seq(Msg) /\ o[y] \in Seq(Msg)
  BY DEF TypeOK, Writes
<1>2. /\ \A x, y \in Servers : ~(x = s /\ y = n /\ n # s) => status'[x][y] = status[x][y]
      /\ n # s => status'[s][n] = st
  BY DEF TypeOK
<1>e. /\ n # s => chan'[n][s] = Tail(chan[n][s])
      /\ \A y \in Servers : y # s /\ status[y][s] # "none" => chan'[s][y] = chan[s][y] \o o[y]
      /\ \A y \in Servers : y # s /\ status[y][s] = "none" => chan'[s][y] = chan[s][y]
      /\ \A x, y \in Servers : x # s /\ ~(x = n /\ y = s) => chan'[x][y] = chan[x][y]
  BY EmitIs
<1>3. ASSUME NEW x \in Servers, NEW y \in Servers, Has(chan'[x][y], {"CLOSE"})
      PROVE  Has(chan[x][y], {"CLOSE"})
  <2>1. CASE chan'[x][y] = chan[x][y]
    BY <1>3, <2>1
  <2>2. CASE x = n /\ y = s /\ n # s /\ chan'[x][y] = Tail(chan[n][s])
    BY <1>1, <1>3, <2>2, HasLess
  <2>3. CASE x = s /\ chan'[x][y] = chan[s][y] \o o[y]
    BY <1>1, <1>3, <2>3, HasCat, SMTT(60)
  <2> QED
    BY <2>1, <2>2, <2>3, EmitIs DEF Emit
<1>4. ASSUME NEW x \in Servers, NEW y \in Servers, Has(chan[x][y], {"CLOSE"})
      PROVE  Has(chan'[x][y], {"CLOSE"}) \/ (x = n /\ y = s /\ n # s /\ Head(chan[n][s]).t = "CLOSE")
  <2>1. CASE chan'[x][y] = chan[x][y]
    BY <1>4, <2>1
  <2>2. CASE x = n /\ y = s /\ n # s /\ chan'[x][y] = Tail(chan[n][s])
    <3>1. Head(chan[n][s]).t \in {"CLOSE"} \/ Has(Tail(chan[n][s]), {"CLOSE"})
      BY <1>1, <1>4, <2>2, HasTail
    <3> QED
      BY <2>2, <3>1
  <2>3. CASE x = s /\ chan'[x][y] = chan[s][y] \o o[y]
    BY <1>1, <1>4, <2>3, HasCat
  <2> QED
    BY <2>1, <2>2, <2>3, EmitIs DEF Emit
<1>5. ASSUME NEW x \in Servers, NEW y \in Servers PROVE Ends(x, y)'
  <2>0. Ends(x, y) /\ Ends(y, x)
    BY DEF Paired
  <2>1. status'[x][y] # "none" => status[x][y] # "none"
    BY <1>2
  <2>2. status'[x][y] # "none" => x # y /\ Via[x][y] = y
    BY <2>0, <2>1 DEF Ends
  <2>3. Has(chan'[x][y], {"CLOSE"}) => status'[x][y] = "none"
    BY <1>2, <1>3, <2>0 DEF Ends
  <2>4. ASSUME status'[x][y] # "none" PROVE status'[y][x] # "none" \/ Has(chan'[y][x], {"CLOSE"})
    <3>1. CASE Has(chan[y][x], {"CLOSE"})
      BY <1>2, <1>4, <2>4, <3>1
    <3>2. CASE status[y][x] # "none" /\ ~(y = s /\ x = n /\ n # s)
      BY <1>2, <3>2
    <3>3. CASE status[y][x] # "none" /\ y = s /\ x = n /\ n # s
      <4>1. ASSUME st = "none" PROVE FALSE
        <5>1. Has(chan[n][s], {"CLOSE"})
          <6>1. Head(chan[n][s]).t = "CLOSE" /\ chan[n][s][1] = Head(chan[n][s]) /\ 1 \in 1..Len(chan[n][s])
            BY <1>1, <3>3, <4>1, TailIs
          <6> QED
            BY <6>1 DEF Has
        <5>2. status[x][y] = "none"
          BY <2>0, <3>3, <5>1 DEF Ends
        <5> QED
          BY <2>1, <2>4, <5>2
      <4> QED
        BY <1>2, <3>3, <4>1
    <3> QED
      BY <2>0, <2>1, <2>4, <3>1, <3>2, <3>3 DEF Ends
  <2>5. ASSUME status'[x][y] \in Opening
        PROVE  \/ chan'[y][x] # <<>> /\ Head(chan'[y][x]).t = "HELLO"
               \/ chan'[y][x] = <<>> /\ status'[x][y] = "handshake" /\ status'[y][x] = "unknown"
    <3>1. ~(x = s /\ y = n /\ n # s) /\ status'[x][y] = status[x][y]
      BY <1>2, <2>5 DEF Linked, Opening
    <3>2. x # y
      BY <2>2, <2>5 DEF Opening
    <3>3. CASE y # s
      <4>1. chan'[y][x] = chan[y][x] /\ status'[y][x] = status[y][x]
        BY <1>2, <1>e, <3>1, <3>3
      <4> QED
        BY <2>0, <2>5, <3>1, <4>1 DEF Ends
    <3>4. CASE y = s
      <4>a. status[x][s] # "none" /\ x # s
        BY <2>5, <3>1, <3>2, <3>4 DEF Opening
      <4>1. chan'[y][x] = chan[s][x] \o o[x]
        BY <1>e, <3>4, <4>a
      <4>2. CASE chan[y][x] # <<>>
        <5>1. Head(chan[y][x]).t = "HELLO"
          BY <2>0, <2>5, <3>1, <4>2 DEF Ends
        <5> DEFINE q == chan[s][x]
                   r == o[x]
        <5>2. q \in Seq(Msg) /\ r \in Seq(Msg) /\ q # <<>> /\ Head(q).t = "HELLO" /\ chan'[y][x] = q \o r
          BY <1>1, <3>4, <4>1, <4>2, <5>1
        <5> HIDE DEF q, r
        <5>3. q \o r # <<>> /\ Head(q \o r) = Head(q)
          BY <5>2, HeadCat
        <5> QED
          BY <5>2, <5>3
      <4>3. CASE chan[y][x] = <<>>
        <5>1. status[x][y] = "handshake" /\ status[s][x] = "unknown"
          BY <2>0, <2>5, <3>1, <3>4, <4>3 DEF Ends
        <5>2. chan'[y][x] = o[x]
          BY <1>1, <3>4, <4>1, <4>3, HeadCat
        <5>3. CASE x = n
          BY <3>2, <3>4, <5>1, <5>2, <5>3
        <5>4. CASE x # n
          <6>1. o[x] = <<>>
            BY <5>1, <5>4 DEF Linked
          <6> QED
            BY <1>2, <3>1, <3>4, <5>1, <5>2, <5>4, <6>1
        <5> QED
          BY <5>3, <5>4
      <4> QED
        BY <4>2, <4>3
    <3> QED
      BY <3>3, <3>4
  <2> QED
    BY <2>2, <2>3, <2>4, <2>5 DEF Ends
<1> QED
  BY <1>5 DEF Paired

(* s writes to the server it read from and to servers it is linked to, and *)
(* nothing that opens or closes a link.                                    *)
Says(s, n) ==
  \E o \in Writes :
    /\ Emit(s, n, o)
    /\ \A x \in Servers : o[x] # <<>> => x = n \/ status[s][x] \in Linked
    /\ \A x \in Servers : ~Has(o[x], {"HELLO", "CLOSE"})

(* What the send functions write to whom. *)
LEMMA WritesIs ==
  ASSUME NEW s \in Servers, NEW n, NEW q
  PROVE  /\ \A x \in Servers : Silent[x] = <<>>
         /\ \A x \in Servers : To(n, q)[x] = IF x = n THEN q ELSE <<>>
         /\ \A x \in Servers : ToAllBut(s, n, q)[x] = IF status[s][x] \in Linked /\ x # n THEN q ELSE <<>>
BY DEF Silent, To, ToAllBut

(* What a queue of one message holds. *)
LEMMA OneHas ==
  ASSUME NEW m \in Msg
  PROVE  /\ <<m>> \in Seq(Msg) /\ Len(<<m>>) = 1 /\ <<m>>[1] = m /\ <<m>> # <<>>
         /\ \A T : Has(<<m>>, T) <=> m.t \in T
         /\ \A T : ~Has(<<>>, T)
<1>1. <<m>> \in Seq(Msg) /\ Len(<<m>>) = 1 /\ <<m>>[1] = m /\ <<m>> # <<>>
  OBVIOUS
<1> DEFINE q == <<m>>
<1> HIDE DEF q
<1>2. \A T : Has(q, T) <=> m.t \in T
  BY <1>1 DEF Has, q
<1>3. \A T : ~Has(<<>>, T)
  BY DEF Has
<1> QED
  BY <1>1, <1>2, <1>3 DEF q

(* One message, written by one of the send functions. *)
LEMMA OneSaid ==
  ASSUME NEW s \in Servers, NEW n \in Servers, NEW m \in Msg, m.t \notin {"HELLO", "CLOSE"}, NEW o,
         Emit(s, n, o),
         \/ o = Silent \/ o = To(n, <<m>>) \/ o = ToAllBut(s, n, <<m>>)
         \/ \E y \in Servers : status[s][y] \in Linked /\ o = To(y, <<m>>)
  PROVE  Says(s, n)
<1> DEFINE q == <<m>>
<1>1. q \in Seq(Msg) /\ ~Has(q, {"HELLO", "CLOSE"}) /\ ~Has(<<>>, {"HELLO", "CLOSE"})
  BY OneHas
<1>2. \/ o = Silent \/ o = To(n, q) \/ o = ToAllBut(s, n, q)
      \/ \E y \in Servers : status[s][y] \in Linked /\ o = To(y, q)
  OBVIOUS
<1> HIDE DEF q
<1>3. o \in Writes
  BY <1>1, <1>2, WritesType
<1>4. \A x \in Servers : o[x] # <<>> => x = n \/ status[s][x] \in Linked
  BY <1>2, WritesIs
<1>5. \A x \in Servers : o[x] = <<>> \/ o[x] = q
  BY <1>2, WritesIs
<1> QED
  BY <1>1, <1>3, <1>4, <1>5, Zenon DEF Says

(* A full GL is a message. *)
LEMMA FullIs ==
  ASSUME TypeOK, NEW g \in Record, NEW op \in {"modify", "+", "-"}, NEW force \in BOOLEAN
  PROVE  /\ Full(op, g, force) \in Msg /\ Full(op, g, force).t = "GL"
         /\ Full(op, g, force).op = op /\ Full(op, g, force).force = force
         /\ Full(op, g, force).rel = Remaining(g.expire) /\ Full(op, g, force).reason = g.reason
         /\ Full(op, g, force).lastmod = g.lastmod /\ Full(op, g, force).lifetime = g.lifetime
<1>1. g.expire \in Int /\ now \in Int
  BY DEF Record, TypeOK
<1>2. Remaining(g.expire) \in Int
  BY <1>1 DEF Remaining, Max
<1>3. Full(op, g, force) \in Msg
  BY <1>2 DEF Full, Record, Msg
<1> QED
  BY <1>3 DEF Full

(* gline_add and gline_modify write full GLs. *)
LEMMA ChangeSays ==
  ASSUME TypeOK, NEW s \in Servers, NEW n \in Servers, NEW p \in Change,
         \/ p.reason \in Reasons /\ gline_add(s, n, p)
         \/ gline_find(s) # None /\ gline_modify(s, n, gline_find(s), p)
  PROVE  Says(s, n)
<1>0. p.force \in BOOLEAN /\ (\A g \in Record : Sign(g) \in {"modify", "+", "-"}) /\ M("EOB") \in Msg
      /\ M("EOB").t = "EOB"
  BY DEF Change, Sign, M, Msg
<1>1. CASE Emit(s, n, Silent)
  BY <1>0, <1>1, OneSaid, Zenon
<1>2. CASE p.reason \in Reasons /\ gline_add(s, n, p) /\ ~Emit(s, n, Silent)
  <2> DEFINE g == [active |-> p.act = "+" /\ p.expire > now, state |-> "global",
                   expire |-> p.expire, lastmod |-> p.lastmod,
                   lifetime |-> IF p.lifetime = 0 THEN p.expire ELSE p.lifetime,
                   reason |-> p.reason]
  <2>1. Emit(s, n, ToAllBut(s, n, <<Full(Sign(g), g, p.force)>>))
    BY <1>2 DEF gline_add, Ignored
  <2>2. g \in Record
    BY <1>2 DEF Record, Change
  <2> HIDE DEF g
  <2>3. Full(Sign(g), g, p.force) \in Msg /\ Full(Sign(g), g, p.force).t = "GL"
    BY <1>0, <2>2, FullIs
  <2> QED
    BY <2>1, <2>3, OneSaid, Zenon
<1>3. CASE gline_find(s) # None /\ gline_modify(s, n, gline_find(s), p) /\ ~Emit(s, n, Silent)
  <2> DEFINE g == gline_find(s)
             h == Modified(g, p)
  <2>1. g \in Record
    BY <1>3, FindType
  <2>2. \/ Emit(s, n, To(n, <<Full(Sign(g), g, TRUE)>>))
        \/ ~IsLocalAct(p.act) /\ Emit(s, n, ToAllBut(s, n, <<Full(NewAction(g, p), h, p.force)>>))
    BY <1>3 DEF gline_modify, gline_resend, Ignored
  <2>3. h \in Record /\ NewAction(g, p) \in {"modify", p.act}
    <3> HIDE DEF g
    <3> QED BY <2>1, ModifiedType
  <2> HIDE DEF g, h
  <2>4. CASE Emit(s, n, To(n, <<Full(Sign(g), g, TRUE)>>))
    <3>1. Full(Sign(g), g, TRUE) \in Msg /\ Full(Sign(g), g, TRUE).t = "GL"
      BY <1>0, <2>1, FullIs, ZenonT(60)
    <3> QED
      BY <2>4, <3>1, OneSaid, Zenon
  <2>5. CASE ~IsLocalAct(p.act) /\ Emit(s, n, ToAllBut(s, n, <<Full(NewAction(g, p), h, p.force)>>))
    <3>1. NewAction(g, p) \in {"modify", "+", "-"}
      BY <2>3, <2>5 DEF IsLocalAct, Change
    <3>2. Full(NewAction(g, p), h, p.force) \in Msg /\ Full(NewAction(g, p), h, p.force).t = "GL"
      BY <1>0, <2>3, <3>1, FullIs
    <3> QED
      BY <2>5, <3>2, OneSaid, Zenon
  <2> QED
    BY <2>2, <2>4, <2>5
<1> QED
  BY <1>1, <1>2, <1>3

(* Nothing is written. *)
LEMMA SilentSays ==
  ASSUME NEW s \in Servers, NEW n \in Servers, Emit(s, n, Silent)
  PROVE  Says(s, n)
<1>1. M("EOB") \in Msg /\ M("EOB").t = "EOB"
  BY DEF M, Msg
<1> QED
  BY <1>1, OneSaid, Zenon

(* A change that is meant for this server. *)
LEMMA SingleSays ==
  ASSUME TypeOK, NEW s \in Servers, NEW n \in Servers, NEW op \in {"+", "-", ">", "<"}, NEW expire,
         Single(s, n, op, expire)
  PROVE  Says(s, n)
<1> DEFINE p == [act |-> op, expire |-> 0, lastmod |-> 0, lifetime |-> 0, reason |-> None,
                 force |-> FALSE]
<1>1. p \in Change
  BY DEF Change
<1>2. Emit(s, n, Silent) \/ (gline_find(s) # None /\ gline_modify(s, n, gline_find(s), p))
  BY DEF Single, local_add, local_destroy, Ignored
<1> HIDE DEF p
<1> QED
  BY <1>1, <1>2, SilentSays, ChangeSays

(* The messages about G-lines. *)
LEMMA GlineSays ==
  ASSUME TypeOK, NEW s \in Servers, NEW n \in Servers, NEW m,
         \/ m \in FullMsg /\ ms_gline_full(s, n, m)
         \/ m \in ShortMsg /\ ms_gline_short(s, n, m)
         \/ GlineAssumption /\ m \in OneMsg /\ ms_gline_one(s, n, m)
  PROVE  Says(s, n)
<1>1. CASE m \in FullMsg /\ ms_gline_full(s, n, m)
  <2> DEFINE p(act) == [act |-> act, expire |-> m.rel + now, lastmod |-> m.lastmod,
                        lifetime |-> m.lifetime, reason |-> m.reason, force |-> m.force]
             a == IF m.op = "modify" THEN "+" ELSE m.op
  <2>1. m.rel + now \in Int /\ m.op \in {"modify", "+", "-"} /\ a \in {"modify", "+", "-"}
    BY <1>1 DEF FullMsg, TypeOK
  <2>2. \A act \in {"modify", "+", "-"} : p(act) \in Change /\ p(act).reason \in Reasons
    BY <1>1, <2>1 DEF FullMsg, Change
  <2>3. gline_add(s, n, p(a)) \/ (gline_find(s) # None /\ gline_modify(s, n, gline_find(s), p(m.op)))
    BY <1>1 DEF ms_gline_full
  <2>4. p(a) \in Change /\ p(a).reason \in Reasons /\ p(m.op) \in Change
    BY <2>1, <2>2
  <2> HIDE DEF p, a
  <2> QED
    BY <2>3, <2>4, ChangeSays
<1>2. CASE m \in ShortMsg /\ ms_gline_short(s, n, m)
  <2> DEFINE p == [act |-> m.op, expire |-> 0, lastmod |-> m.lastmod, lifetime |-> 0,
                   reason |-> None, force |-> m.force]
  <2>1. p \in Change
    BY <1>2 DEF ShortMsg, Change
  <2>2. m \in Msg /\ m.t = "SHORT"
    BY <1>2 DEF ShortMsg, Msg
  <2>3. \/ Emit(s, n, ToAllBut(s, n, <<m>>))
        \/ gline_find(s) # None /\ gline_modify(s, n, gline_find(s), p)
    BY <1>2 DEF ms_gline_short
  <2> HIDE DEF p
  <2>4. CASE Emit(s, n, ToAllBut(s, n, <<m>>))
    BY <2>2, <2>4, OneSaid, Zenon
  <2> QED
    BY <2>1, <2>3, <2>4, ChangeSays
<1>3. CASE GlineAssumption /\ m \in OneMsg /\ ms_gline_one(s, n, m)
  <2>1. m \in Msg /\ m.t = "ONE" /\ m.op \in {"+", "-", ">", "<"} /\ m.target \in Servers
    BY <1>3 DEF OneMsg, Msg
  <2>2. Via[s][m.target] \in Servers
    BY <1>3, <2>1 DEF GlineAssumption
  <2>3. \/ Single(s, n, m.op, m.rel + now) \/ Emit(s, n, Silent)
        \/ status[s][Via[s][m.target]] \in Linked /\ Emit(s, n, To(Via[s][m.target], <<m>>))
    BY <1>3 DEF ms_gline_one
  <2>4. CASE status[s][Via[s][m.target]] \in Linked /\ Emit(s, n, To(Via[s][m.target], <<m>>))
    BY <2>1, <2>2, <2>4, OneSaid, Zenon
  <2> QED
    BY <2>1, <2>3, <2>4, SingleSays, SilentSays
<1> QED
  BY <1>1, <1>2, <1>3

(* The commands of operators and services. *)
LEMMA CommandSays ==
  ASSUME GlineAssumption, TypeOK, NEW s \in Servers, Commands(s)
  PROVE  Says(s, s) /\ status' = status
<1>0. now \in Nat /\ Terms \subseteq Int /\ LongTerms \subseteq Int
  BY DEF TypeOK, GlineAssumption
<1>1. ASSUME NEW act \in {"modify", "+", "-"}, NEW term \in Terms \cup {None},
             NEW reason \in Reasons \cup {None}, mo_gline(s, act, term, reason)
      PROVE  Says(s, s) /\ status' = status
  <2> DEFINE p == [act |-> act, expire |-> IF term = None THEN 0 ELSE now + term,
                   lastmod |-> now, lifetime |-> 0, reason |-> reason, force |-> FALSE]
  <2>1. (IF term = None THEN 0 ELSE now + term) \in Int
    BY <1>0
  <2>2. p \in Change
    BY <1>0, <2>1 DEF Change
  <2>3. \/ p.reason \in Reasons /\ gline_add(s, s, p)
        \/ gline_find(s) # None /\ gline_modify(s, s, gline_find(s), p)
    BY <1>1 DEF mo_gline, OperForm
  <2>4. status' = status
    BY <1>1 DEF mo_gline, Op
  <2> HIDE DEF p
  <2> QED
    BY <2>2, <2>3, <2>4, ChangeSays
<1>2. ASSUME NEW target \in Targets, NEW op \in {"+", "-", ">", "<"}, NEW term \in Terms,
             mo_gline_one(s, target, op, term)
      PROVE  Says(s, s) /\ status' = status
  <2> DEFINE m == ForOne(target, op, Max(term, -1))
  <2>a. Max(term, -1) \in Int
    BY <1>0 DEF Max
  <2>b. target \in Servers
    BY DEF GlineAssumption
  <2>c. Via[s][target] \in Servers
    BY <2>b DEF GlineAssumption
  <2>1. Max(term, -1) \in Int /\ target \in Servers /\ Via[s][target] \in Servers
    BY <2>a, <2>b, <2>c
  <2>2. m \in Msg /\ m.t = "ONE"
    BY <2>1 DEF ForOne, Msg
  <2>3. \/ Single(s, s, op, now + term)
        \/ status[s][Via[s][target]] \in Linked /\ Emit(s, s, To(Via[s][target], <<m>>))
    BY <1>2 DEF mo_gline_one
  <2>4. status' = status
    BY <1>2 DEF mo_gline_one, Op
  <2> HIDE DEF m
  <2>5. CASE status[s][Via[s][target]] \in Linked /\ Emit(s, s, To(Via[s][target], <<m>>))
    BY <2>1, <2>2, <2>4, <2>5, OneSaid, Zenon
  <2> QED
    BY <2>3, <2>4, <2>5, SingleSays
<1>3. ASSUME NEW act \in {"modify", "+", "-"}, NEW term \in LongTerms, NEW reason \in Reasons,
             services_full(s, act, term, reason)
      PROVE  Says(s, s) /\ status' = status
  <2> DEFINE m == [t |-> "GL", op |-> act, rel |-> term, lastmod |-> now,
                   lifetime |-> now + Max(term, 1), reason |-> reason, force |-> TRUE]
  <2>1. now + Max(term, 1) \in Int /\ term \in Int
    BY <1>0 DEF Max
  <2>2. m \in FullMsg
    BY <1>0, <2>1 DEF FullMsg
  <2>3. ms_gline_full(s, s, m) /\ status' = status
    BY <1>3 DEF services_full, Op
  <2> HIDE DEF m
  <2> QED
    BY <2>2, <2>3, GlineSays
<1>4. ASSUME NEW act \in {"+", "-"}, services_short(s, act)
      PROVE  Says(s, s) /\ status' = status
  <2>1. Short(act, now, TRUE) \in ShortMsg
    BY <1>0 DEF Short, ShortMsg
  <2>2. ms_gline_short(s, s, Short(act, now, TRUE)) /\ status' = status
    BY <1>4 DEF services_short, Op
  <2> QED
    BY <2>1, <2>2, GlineSays
<1> QED
  BY <1>1, <1>2, <1>3, <1>4 DEF Commands

(* A message is handled while the link stays as it is. *)
LEMMA PairedSays ==
  ASSUME TypeOK, Paired, NEW s \in Servers, NEW n \in Servers, Says(s, n), status' = status,
         n # s => chan[n][s] # <<>> /\ status[s][n] # "none"
                  /\ Head(chan[n][s]).t \notin {"HELLO", "CLOSE"}
  PROVE  Paired'
<1>1. PICK o \in Writes :
        /\ Emit(s, n, o)
        /\ \A x \in Servers : o[x] # <<>> => x = n \/ status[s][x] \in Linked
        /\ \A x \in Servers : ~Has(o[x], {"HELLO", "CLOSE"})
  BY DEF Says
<1>2. \A x \in Servers : ~Has(o[x], {"CLOSE"})
  BY <1>1 DEF Has
<1> DEFINE st == IF n = s THEN "server" ELSE status[s][n]
<1>3. n # s => status[s][n] \in Linked
  BY StatusIs DEF Paired, Ends
<1>4. st \in Linked \cup {"none"} /\ (n # s => st \in Linked /\ st # "none")
  BY <1>3, StatusIs
<1>5. status' = IF n = s THEN status ELSE [status EXCEPT ![s][n] = st]
  BY <1>3 DEF TypeOK
<1>6. n # s => status[s][n] # "unknown"
  BY <1>3 DEF Linked
<1>7. n # s => /\ chan[n][s] # <<>> /\ status[s][n] # "none"
               /\ st = "none" <=> Head(chan[n][s]).t = "CLOSE"
               /\ status[s][n] = "unknown" => o[n] # <<>> /\ Head(o[n]).t = "HELLO"
  BY <1>4, <1>6
<1> HIDE DEF st
<1> QED
  BY <1>1, <1>2, <1>4, <1>5, <1>7, PairedServe

(* The messages of a link. *)
LEMMA MsgIs ==
  /\ \A t \in {"HELLO", "CLOSE", "EOB", "EOB_ACK"} : M(t) \in Msg /\ M(t).t = t
  /\ \A m \in Msg : m.t \in {"HELLO", "CLOSE", "EOB", "EOB_ACK", "GL", "SHORT", "ONE"}
  /\ \A m \in Msg : m.t = "GL" => m \in FullMsg
  /\ \A m \in Msg : m.t = "SHORT" => m \in ShortMsg
  /\ \A m \in Msg : m.t = "ONE" => m \in OneMsg
BY DEF M, Msg, FullMsg, ShortMsg, OneMsg

Greeting(s, n) == IF status[s][n] = "unknown" THEN <<M("HELLO")>> ELSE <<>>

(* What a burst writes: no CLOSE. *)
LEMMA BurstIs ==
  ASSUME TypeOK, NEW s \in Servers, NEW n \in Servers
  PROVE  /\ gline_burst(s) \in Seq(Msg) /\ Greeting(s, n) \in Seq(Msg) /\ <<M("EOB")>> \in Seq(Msg)
         /\ ~Has(Greeting(s, n), {"CLOSE"}) /\ ~Has(gline_burst(s), {"CLOSE"})
         /\ ~Has(<<M("EOB")>>, {"CLOSE"})
<1>1. <<M("EOB")>> \in Seq(Msg) /\ ~Has(<<M("EOB")>>, {"CLOSE"})
  <2>1. M("EOB") \in Msg /\ M("EOB").t = "EOB"
    BY MsgIs
  <2> QED BY <2>1, OneHas
<1>2. Greeting(s, n) \in Seq(Msg) /\ ~Has(Greeting(s, n), {"CLOSE"})
  <2>1. M("HELLO") \in Msg /\ M("HELLO").t = "HELLO"
    BY MsgIs
  <2>2. <<M("HELLO")>> \in Seq(Msg) /\ ~Has(<<M("HELLO")>>, {"CLOSE"})
        /\ <<>> \in Seq(Msg) /\ ~Has(<<>>, {"CLOSE"})
    BY <2>1, OneHas
  <2> QED BY <2>2 DEF Greeting
<1>3. gline_burst(s) \in Seq(Msg) /\ ~Has(gline_burst(s), {"CLOSE"})
  <2> DEFINE g == gline_find(s)
             m == Full(Sign(g), g, TRUE)
  <2>1. CASE g = None
    <3>1. gline_burst(s) = <<>>
      BY <2>1 DEF gline_burst
    <3> QED BY <3>1 DEF Has
  <2>2. CASE g # None
    <3>1. gline_burst(s) = <<m>>
      BY <2>2 DEF gline_burst
    <3>2. g \in Record /\ Sign(g) \in {"modify", "+", "-"}
      BY <2>2, FindType DEF Sign
    <3>3. m \in Msg /\ m.t = "GL"
      <4> HIDE DEF g
      <4> QED BY <3>2, FullIs, ZenonT(60)
    <3> HIDE DEF m
    <3> QED BY <3>1, <3>3, OneHas
  <2> QED
    BY <2>1, <2>2
<1> QED
  BY <1>1, <1>2, <1>3

(* A message is read. *)
LEMMA PairedReceive ==
  ASSUME GlineAssumption, TypeOK, Paired, NEW s \in Servers, NEW n \in Servers, Receive(s, n)
  PROVE  Paired'
<1> DEFINE m == Head(chan[n][s])
<1>0. /\ chan[n][s] # <<>> /\ status[s][n] # "none" /\ m \in Msg /\ n # s
      /\ chan[n][s] \in Seq(Msg)
  BY TailIs DEF Receive, TypeOK, Paired, Ends
<1>1. CASE m.t = "HELLO" /\ server_estab(s, n)
  <2> DEFINE q == Greeting(s, n)
             r == gline_burst(s)
             e == <<M("EOB")>>
             w == (q \o r) \o e
             o == To(n, w)
  <2>1. Emit(s, n, o) /\ status' = [status EXCEPT ![s][n] = "burst"]
    BY <1>1 DEF server_estab, Greeting
  <2>2. /\ q \in Seq(Msg) /\ r \in Seq(Msg) /\ e \in Seq(Msg)
        /\ ~Has(q, {"CLOSE"}) /\ ~Has(r, {"CLOSE"}) /\ ~Has(e, {"CLOSE"})
    BY BurstIs
  <2>3. status[s][n] = "unknown" => q # <<>> /\ Head(q).t = "HELLO"
    BY MsgIs DEF Greeting
  <2> HIDE DEF q, r, e
  <2>4. q \o r \in Seq(Msg) /\ ~Has(q \o r, {"CLOSE"})
        /\ (status[s][n] = "unknown" => q \o r # <<>> /\ Head(q \o r).t = "HELLO")
    BY <2>2, <2>3, CatIs, HasCat, HeadCat
  <2> DEFINE qr == q \o r
  <2>5. qr \in Seq(Msg) /\ ~Has(qr, {"CLOSE"}) /\ w = qr \o e
        /\ (status[s][n] = "unknown" => qr # <<>> /\ Head(qr).t = "HELLO")
    BY <2>4
  <2> HIDE DEF qr
  <2>6. qr \o e \in Seq(Msg) /\ ~Has(qr \o e, {"CLOSE"})
        /\ (status[s][n] = "unknown" => qr \o e # <<>> /\ Head(qr \o e).t = "HELLO")
    BY <2>2, <2>5, CatIs, HasCat, HeadCat, SMTT(60)
  <2>7. w \in Seq(Msg) /\ ~Has(w, {"CLOSE"}) /\ ~Has(<<>>, {"CLOSE"})
        /\ (status[s][n] = "unknown" => w # <<>> /\ Head(w).t = "HELLO")
    BY <2>5, <2>6 DEF Has
  <2> HIDE DEF w
  <2>8. o \in Writes /\ \A x \in Servers : o[x] = IF x = n THEN w ELSE <<>>
    BY <2>7, WritesType, WritesIs
  <2> HIDE DEF o
  <2>9. "burst" \in Linked \cup {"none"} /\ "burst" # "none"
    BY DEF Linked
  <2>10. n # s => /\ chan[n][s] # <<>> /\ status[s][n] # "none"
                  /\ "burst" = "none" <=> Head(chan[n][s]).t = "CLOSE"
                  /\ status[s][n] = "unknown" => o[n] # <<>> /\ Head(o[n]).t = "HELLO"
    BY <1>0, <1>1, <2>7, <2>8
  <2>11. /\ \A x \in Servers : o[x] # <<>> => x = n \/ status[s][x] \in Linked
         /\ \A x \in Servers : ~Has(o[x], {"CLOSE"})
    BY <2>7, <2>8
  <2>12. status' = IF n = s THEN status ELSE [status EXCEPT ![s][n] = "burst"]
    BY <1>0, <2>1
  <2> QED
    BY <1>0, <2>1, <2>8, <2>9, <2>10, <2>11, <2>12, PairedServe, ZenonT(60)
<1>2. CASE m.t = "CLOSE" /\ peer_closed(s, n)
  <2>1. Emit(s, n, Silent) /\ status' = [status EXCEPT ![s][n] = "none"]
    BY <1>2 DEF peer_closed
  <2>2. \A x \in Servers : Silent[x] = <<>> /\ ~Has(Silent[x], {"CLOSE"})
    BY DEF Silent, Has
  <2>s. /\ \A x \in Servers : Silent[x] # <<>> => x = n \/ status[s][x] \in Linked
        /\ \A x \in Servers : ~Has(Silent[x], {"CLOSE"})
    BY <2>2
  <2>3. status[s][n] # "unknown"
    BY <1>0, <1>2 DEF Paired, Ends, Opening
  <2>4. n # s => /\ chan[n][s] # <<>> /\ status[s][n] # "none"
                 /\ "none" = "none" <=> Head(chan[n][s]).t = "CLOSE"
                 /\ status[s][n] = "unknown" => Silent[n] # <<>> /\ Head(Silent[n]).t = "HELLO"
    BY <1>0, <1>2, <2>3
  <2>5. status' = IF n = s THEN status ELSE [status EXCEPT ![s][n] = "none"]
    BY <1>0, <2>1
  <2>6. "none" \in Linked \cup {"none"}
    OBVIOUS
  <2> QED
    BY <2>1, <2>s, <2>4, <2>5, <2>6, SilentType, PairedServe, ZenonT(60)
<1>3. CASE m.t = "EOB" /\ ms_end_of_burst(s, n)
  <2> DEFINE e == <<M("EOB_ACK")>>
             o == To(n, e)
  <2>1. Emit(s, n, o) /\ status' = [status EXCEPT ![s][n] = "ack"]
    BY <1>3 DEF ms_end_of_burst
  <2>2. e \in Seq(Msg) /\ ~Has(e, {"CLOSE"}) /\ ~Has(<<>>, {"CLOSE"})
    BY MsgIs, OneHas
  <2> HIDE DEF e
  <2>3. o \in Writes /\ \A x \in Servers : o[x] = IF x = n THEN e ELSE <<>>
    BY <2>2, WritesType, WritesIs
  <2> HIDE DEF o
  <2>4. status[s][n] # "unknown"
    BY <1>0, <1>3 DEF Paired, Ends, Opening
  <2>5. n # s => /\ chan[n][s] # <<>> /\ status[s][n] # "none"
                 /\ "ack" = "none" <=> Head(chan[n][s]).t = "CLOSE"
                 /\ status[s][n] = "unknown" => o[n] # <<>> /\ Head(o[n]).t = "HELLO"
    BY <1>0, <1>3, <2>4
  <2>6. /\ \A x \in Servers : o[x] # <<>> => x = n \/ status[s][x] \in Linked
        /\ \A x \in Servers : ~Has(o[x], {"CLOSE"})
    BY <2>2, <2>3
  <2>7. status' = IF n = s THEN status ELSE [status EXCEPT ![s][n] = "ack"]
    BY <1>0, <2>1
  <2>8. "ack" \in Linked \cup {"none"}
    BY DEF Linked
  <2> QED
    BY <2>1, <2>3, <2>5, <2>6, <2>7, <2>8, PairedServe, ZenonT(60)
<1>4. CASE m.t = "EOB_ACK" /\ ms_end_of_burst_ack(s, n)
  <2> DEFINE st == IF status[s][n] = "ack" THEN "server" ELSE status[s][n]
  <2>1. Emit(s, n, Silent) /\ status' = [status EXCEPT ![s][n] = st]
    BY <1>4 DEF ms_end_of_burst_ack, TypeOK
  <2>2. \A x \in Servers : Silent[x] = <<>> /\ ~Has(Silent[x], {"CLOSE"})
    BY DEF Silent, Has
  <2>s. /\ \A x \in Servers : Silent[x] # <<>> => x = n \/ status[s][x] \in Linked
        /\ \A x \in Servers : ~Has(Silent[x], {"CLOSE"})
    BY <2>2
  <2>3. status[s][n] \notin Opening
    BY <1>0, <1>4 DEF Paired, Ends
  <2>4. st \in Linked \cup {"none"} /\ st # "none" /\ status[s][n] # "unknown"
    BY <1>0, <2>3 DEF TypeOK, Linked, Opening
  <2>5. n # s => /\ chan[n][s] # <<>> /\ status[s][n] # "none"
                 /\ st = "none" <=> Head(chan[n][s]).t = "CLOSE"
                 /\ status[s][n] = "unknown" => Silent[n] # <<>> /\ Head(Silent[n]).t = "HELLO"
    BY <1>0, <1>4, <2>4
  <2>6. status' = IF n = s THEN status ELSE [status EXCEPT ![s][n] = st]
    BY <1>0, <2>1
  <2> HIDE DEF st
  <2> QED
    BY <2>1, <2>s, <2>4, <2>5, <2>6, SilentType, PairedServe, ZenonT(60)
<1>5. CASE m.t \in {"GL", "SHORT", "ONE"}
  <2>1. /\ \/ m.t = "GL" /\ ms_gline_full(s, n, m)
           \/ m.t = "SHORT" /\ ms_gline_short(s, n, m)
           \/ m.t = "ONE" /\ ms_gline_one(s, n, m)
        /\ status' = status
    BY <1>5 DEF Receive
  <2>2. Says(s, n)
    <3> HIDE DEF m
    <3> QED BY <1>0, <2>1, MsgIs, GlineSays
  <2> QED
    BY <1>0, <1>5, <2>1, <2>2, PairedSays
<1> QED
  BY <1>1, <1>2, <1>3, <1>4, <1>5 DEF Receive

(* A link opens. *)
LEMMA PairedConnect ==
  ASSUME TypeOK, Paired, Tree, NEW a \in Servers, NEW b \in Servers, a # b, Connect(a, b)
  PROVE  Paired'
<1>0. /\ Via[a][b] = b /\ Via[b][a] = a /\ status[a][b] = "none" /\ status[b][a] = "none"
  BY DEF Connect, Tree
<1>h. M("HELLO").t = "HELLO"
  BY MsgIs
<1>1. /\ status'[a][b] = "handshake" /\ status'[b][a] = "unknown"
      /\ \A x, y \in Servers : ~(x = a /\ y = b) /\ ~(x = b /\ y = a) => status'[x][y] = status[x][y]
  BY DEF Connect, TypeOK
<1>2. /\ chan'[a][b] = <<M("HELLO")>> /\ chan'[b][a] = <<>>
      /\ \A x, y \in Servers : ~(x = a /\ y = b) /\ ~(x = b /\ y = a) => chan'[x][y] = chan[x][y]
  BY DEF Connect, TypeOK
<1>3. ~Has(chan'[a][b], {"CLOSE"}) /\ ~Has(chan'[b][a], {"CLOSE"})
  <2>1. M("HELLO") \in Msg
    BY MsgIs
  <2> QED BY <1>2, <1>h, <2>1, OneHas
<1>4. chan'[a][b] # <<>> /\ Head(chan'[a][b]).t = "HELLO"
  BY <1>2, <1>h
<1>5. ASSUME NEW x \in Servers, NEW y \in Servers PROVE Ends(x, y)'
  <2>1. CASE x = a /\ y = b
    BY <1>0, <1>1, <1>2, <1>3, <2>1 DEF Ends
  <2>2. CASE x = b /\ y = a
    BY <1>0, <1>1, <1>3, <1>4, <2>2 DEF Ends
  <2>3. CASE ~(x = a /\ y = b) /\ ~(x = b /\ y = a)
    <3>1. Ends(x, y)
      BY DEF Paired
    <3>2. /\ status'[x][y] = status[x][y] /\ chan'[x][y] = chan[x][y]
          /\ status'[y][x] = status[y][x] /\ chan'[y][x] = chan[y][x]
      BY <1>1, <1>2, <2>3
    <3> QED
      BY <3>1, <3>2 DEF Ends
  <2> QED
    BY <2>1, <2>2, <2>3
<1> QED
  BY <1>5 DEF Paired

(* A link breaks. *)
LEMMA PairedBreak ==
  ASSUME TypeOK, Paired, NEW s \in Servers, NEW n \in Servers, s # n, Break(s, n)
  PROVE  Paired'
<1>0. /\ status[s][n] \in Linked /\ Ends(s, n) /\ Ends(n, s)
  BY DEF Break, Paired
<1>1. /\ status'[s][n] = "none"
      /\ \A x, y \in Servers : ~(x = s /\ y = n) => status'[x][y] = status[x][y]
  BY DEF Break, TypeOK
<1> DEFINE q == chan[s][n]
           c == <<M("CLOSE")>>
<1>2. /\ chan'[n][s] = <<>> /\ chan'[s][n] = IF status[n][s] = "none" THEN q ELSE q \o c
      /\ \A x, y \in Servers : ~(x = s /\ y = n) /\ ~(x = n /\ y = s) => chan'[x][y] = chan[x][y]
  BY DEF Break, TypeOK
<1>3. q \in Seq(Msg) /\ c \in Seq(Msg) /\ Has(c, {"CLOSE"})
  BY MsgIs, OneHas DEF TypeOK
<1> HIDE DEF q, c
<1>4. status[n][s] # "none" => Has(chan'[s][n], {"CLOSE"})
  BY <1>2, <1>3, HasCat
<1>5. ASSUME NEW x \in Servers, NEW y \in Servers PROVE Ends(x, y)'
  <2>1. CASE x = s /\ y = n
    BY <1>1, <2>1 DEF Ends, Opening
  <2>2. CASE x = n /\ y = s
    <3>1. ~Has(chan'[n][s], {"CLOSE"})
      BY <1>2 DEF Has
    <3>2. status'[n][s] = status[n][s]
      BY <1>1
    <3>3. status[n][s] \in Opening => chan'[s][n] # <<>> /\ Head(chan'[s][n]).t = "HELLO"
      <4> SUFFICES ASSUME status[n][s] \in Opening
                   PROVE  chan'[s][n] # <<>> /\ Head(chan'[s][n]).t = "HELLO"
        OBVIOUS
      <4>1. q # <<>> /\ Head(q).t = "HELLO"
        BY <1>0 DEF Ends, Linked, q
      <4>2. chan'[s][n] = q \o c
        BY <1>2 DEF Opening
      <4> QED
        BY <1>3, <4>1, <4>2, HeadCat
    <3> QED
      BY <1>0, <1>4, <2>2, <3>1, <3>2, <3>3 DEF Ends
  <2>3. CASE ~(x = s /\ y = n) /\ ~(x = n /\ y = s)
    <3>1. Ends(x, y)
      BY DEF Paired
    <3>2. /\ status'[x][y] = status[x][y] /\ chan'[x][y] = chan[x][y]
          /\ status'[y][x] = status[y][x] /\ chan'[y][x] = chan[y][x]
      BY <1>1, <1>2, <2>3
    <3> QED
      BY <3>1, <3>2 DEF Ends
  <2> QED
    BY <2>1, <2>2, <2>3
<1> QED
  BY <1>5 DEF Paired

(* The links of the beginning. *)
LEMMA PairedInit ==
  ASSUME Tree, Init
  PROVE  Paired
<1>1. ASSUME NEW s \in Servers, NEW n \in Servers PROVE Ends(s, n)
  <2>1. status[s][n] = (IF n # s /\ Via[s][n] = n THEN "server" ELSE "none") /\ chan[s][n] = <<>>
        /\ status[n][s] = (IF n # s /\ Via[n][s] = s THEN "server" ELSE "none") /\ chan[n][s] = <<>>
    BY DEF Init
  <2>2. ~Has(chan[s][n], {"CLOSE"})
    BY <2>1 DEF Has
  <2>3. n # s /\ Via[s][n] = n => Via[n][s] = s
    BY DEF Tree
  <2> QED
    BY <2>1, <2>2, <2>3 DEF Ends, Opening
<1> QED
  BY <1>1 DEF Paired

(* Every step keeps the ends of the links paired. *)
LEMMA PairedStep ==
  ASSUME GlineAssumption, Tree, TypeOK, Paired, [Next]_vars
  PROVE  Paired'
<1>1. ASSUME UNCHANGED <<status, chan>> PROVE Paired'
  BY <1>1 DEF Paired, Ends, Has
<1>2. ASSUME NEW s \in Servers, Commands(s) PROVE Paired'
  BY <1>2, CommandSays, PairedSays
<1>3. ASSUME NEW s \in Servers, NEW n \in Servers, Receive(s, n) PROVE Paired'
  BY <1>3, PairedReceive
<1>4. ASSUME NEW s \in Servers, NEW n \in Servers, Connect(s, n) \/ Break(s, n) PROVE Paired'
  <2>1. s # n
    BY <1>4 DEF Connect, Break, GlineAssumption
  <2> QED
    BY <1>4, <2>1, PairedConnect, PairedBreak
<1>5. ASSUME NEW s \in Servers, register_user(s) \/ m_quit(s) PROVE UNCHANGED <<status, chan>>
  BY <1>5 DEF register_user, m_quit
<1>6. ASSUME Tick \/ UNCHANGED vars PROVE UNCHANGED <<status, chan>>
  BY <1>6 DEF Tick, vars
<1> QED
  BY <1>1, <1>2, <1>3, <1>4, <1>5, <1>6 DEF Next
-----------------------------------------------------------------------------
(* The versions of the G-line.                                             *)

(* Two records are the same ban at time t: what differs has ended. *)
Running(t, v) == v.expire > t
Eqv(t, u, v) ==
  /\ u.lifetime = v.lifetime /\ (Running(t, u) <=> Running(t, v))
  /\ Running(t, u) => u.expire = v.expire /\ u.active = v.active /\ u.reason = v.reason
Act(t, v) == v.active /\ Running(t, v)

(* The versions by their time: each lives as long as the ones before.      *)
Versions(V) ==
  /\ V \in [Nat -> Record]
  /\ V[0].lifetime = 0 /\ V[0].expire <= 0
  /\ \A k \in Nat : V[k].lifetime >= V[k].expire
  /\ \A j, k \in Nat : j <= k => V[j].lifetime <= V[k].lifetime

(* A GL says what its version says, but for the activity when it is a      *)
(* change without a sign.                                                  *)
Fits(t, V, m) ==
  /\ m.lastmod \in Start..t /\ m.lifetime = V[m.lastmod].lifetime /\ m.lifetime > t
  /\ m.rel > 0 <=> Running(t, V[m.lastmod])
  /\ m.rel > 0 => /\ t + m.rel = V[m.lastmod].expire /\ m.reason = V[m.lastmod].reason
                  /\ m.op # "modify" => (m.op = "+" <=> V[m.lastmod].active)
  /\ m.rel >= -1 /\ (~m.force => m.rel <= MaxExpire)

(* A change without a sign needs a reader with the same activity; what an  *)
(* operator's server has said of an expired G-line is refused.             *)
Good(t, V, k, m) ==
  /\ m.op = "modify" /\ m.rel > 0 =>
       V[k].lifetime > t /\ (Act(t, V[k]) <=> Act(t, V[m.lastmod]))
  /\ ~m.force /\ m.rel <= 0 => Eqv(t, V[k], V[m.lastmod])

(* b[i]: the version of the reader behind the first i messages. *)
Chain(t, V, q, b) ==
  \A i \in 1..Len(q) :
    IF q[i].t = "GL"
      THEN b[i] = q[i].lastmod /\ b[i - 1] <= b[i] /\ Good(t, V, b[i - 1], q[i])
      ELSE b[i] = b[i - 1]

(* A reader that has version x becomes at most y by reading q, and y when  *)
(* sync.                                                                   *)
Flow(t, V, q, x, y, sync) ==
  \E b \in [0..Len(q) -> Nat] :
    /\ x <= b[0] /\ Eqv(t, V[x], V[b[0]])
    /\ Chain(t, V, q, b)
    /\ \A i \in 0..Len(q) : b[i] <= y
    /\ sync => Eqv(t, V[b[Len(q)]], V[y])

(* Being the same ban is an equivalence. *)
LEMMA EqvLaws ==
  ASSUME NEW t \in Int
  PROVE  /\ \A u \in Record : Eqv(t, u, u)
         /\ \A u, v \in Record : Eqv(t, u, v) => Eqv(t, v, u)
         /\ \A u, v, w \in Record : Eqv(t, u, v) /\ Eqv(t, v, w) => Eqv(t, u, w)
         /\ \A u, v \in Record : Eqv(t, u, v) => (Act(t, u) <=> Act(t, v))
BY DEF Eqv, Act, Running, Record

(* Writing behind a queue. *)
LEMMA FlowCat ==
  ASSUME NEW t \in Int, NEW V \in [Nat -> Record], NEW W \in [Nat -> Record],
         NEW q \in Seq(Msg), NEW r \in Seq(Msg), NEW x \in Nat, NEW y \in Nat, NEW z \in Nat,
         y <= z, NEW sync, NEW sync2, Flow(t, V, q, x, y, sync),
         \A k \in 0..y : W[k] = V[k],
         \A j \in 1..Len(r) : r[j].t = "GL" =>
           /\ r[j].lastmod = z
           /\ \A k \in 0..z :
                k = z \/ (k <= y /\ (sync => Eqv(t, V[k], V[y]))) => Good(t, W, k, r[j]),
         sync2 => Has(r, {"GL"}) \/ (y = z /\ (sync \/ y = 0))
  PROVE  Flow(t, W, q \o r, x, z, sync2)
<1> DEFINE n == Len(q)
           k == Len(r)
           w == q \o r
<1>1. /\ w \in Seq(Msg) /\ Len(w) = n + k /\ n \in Nat /\ k \in Nat
      /\ \A i \in 1..n : w[i] = q[i]
      /\ \A i \in 1..(n + k) : i \in 1..n \/ (i - n \in 1..k /\ w[i] = r[i - n])
  BY CatIs
<1>2. PICK b \in [0..n -> Nat] :
        /\ x <= b[0] /\ Eqv(t, V[x], V[b[0]])
        /\ Chain(t, V, q, b)
        /\ \A i \in 0..n : b[i] <= y
        /\ sync => Eqv(t, V[b[n]], V[y])
  BY DEF Flow
<1> DEFINE P(i) == \E j \in 1..k : j <= i - n /\ r[j].t = "GL"
           c == [i \in 0..(n + k) |-> IF i <= n THEN b[i] ELSE IF P(i) THEN z ELSE b[n]]
<1> HIDE DEF w
<1>3. 0 \in 0..n /\ n \in 0..n /\ 0 \in 0..(n + k) /\ n + k \in 0..(n + k)
  BY <1>1
<1>4. \A i \in 0..n : b[i] \in Nat
  BY <1>2
<1>5. c \in [0..(n + k) -> Nat]
  <2>1. ASSUME NEW i \in 0..(n + k) PROVE (IF i <= n THEN b[i] ELSE IF P(i) THEN z ELSE b[n]) \in Nat
    <3> HIDE DEF P
    <3>1. i <= n => i \in 0..n
      BY <1>1
    <3> QED BY <1>3, <1>4, <3>1
  <2> HIDE DEF P
  <2> QED BY <2>1
<1>6. \A i \in 0..(n + k) : c[i] = IF i <= n THEN b[i] ELSE IF P(i) THEN z ELSE b[n]
  OBVIOUS
<1>7. \A i \in 0..n : i \in 0..(n + k) /\ c[i] = b[i]
  BY <1>1, <1>6
<1> HIDE DEF c
<1>8. \A i \in 0..(n + k) : c[i] <= z
  <2> SUFFICES ASSUME NEW i \in 0..(n + k) PROVE c[i] <= z
    OBVIOUS
  <2> HIDE DEF P
  <2>1. i <= n => i \in 0..n
    BY <1>1
  <2>2. c[i] = z \/ \E j \in 0..n : c[i] = b[j]
    BY <1>3, <1>6, <2>1
  <2> QED
    BY <1>2, <1>4, <2>2
<1>9. x <= c[0] /\ Eqv(t, W[x], W[c[0]])
  <2>1. c[0] = b[0] /\ b[0] \in Nat /\ b[0] <= y
    BY <1>2, <1>3, <1>4, <1>7
  <2>2. x \in 0..y /\ b[0] \in 0..y
    BY <1>2, <2>1
  <2> QED
    BY <1>2, <2>1, <2>2
<1>10. Chain(t, W, w, c)
  <2> SUFFICES ASSUME NEW i \in 1..(n + k)
               PROVE  IF w[i].t = "GL"
                        THEN c[i] = w[i].lastmod /\ c[i - 1] <= c[i] /\ Good(t, W, c[i - 1], w[i])
                        ELSE c[i] = c[i - 1]
    BY <1>1 DEF Chain
  <2>1. CASE i \in 1..n
    <3>1. w[i] = q[i] /\ i \in 0..n /\ i - 1 \in 0..n
      BY <1>1, <2>1, SMTT(60)
    <3>2. c[i] = b[i] /\ c[i - 1] = b[i - 1]
      BY <1>7, <3>1
    <3>3. IF q[i].t = "GL"
            THEN b[i] = q[i].lastmod /\ b[i - 1] <= b[i] /\ Good(t, V, b[i - 1], q[i])
            ELSE b[i] = b[i - 1]
      BY <1>2, <2>1 DEF Chain
    <3>4. b[i] \in 0..y /\ b[i - 1] \in 0..y
      BY <1>2, <1>4, <3>1, SMTT(60)
    <3>5. W[b[i]] = V[b[i]] /\ W[b[i - 1]] = V[b[i - 1]]
      BY <3>4
    <3>6. q[i].t = "GL" => Good(t, W, b[i - 1], q[i])
      BY <3>3, <3>5 DEF Good
    <3> QED
      BY <3>1, <3>2, <3>3, <3>6
  <2>2. CASE i - n \in 1..k /\ w[i] = r[i - n]
    <3> DEFINE j == i - n
    <3>1. j \in 1..k /\ ~(i <= n) /\ i \in 0..(n + k) /\ i - 1 \in 0..(n + k)
      BY <1>1, <2>2
    <3>2. c[i] = IF P(i) THEN z ELSE b[n]
      <4> HIDE DEF P
      <4> QED BY <1>6, <3>1
    <3>3. c[i - 1] = z \/ c[i - 1] = b[n]
      <4>1. i - 1 <= n => i - 1 = n
        BY <1>1, <3>1, SMTT(60)
      <4> HIDE DEF P
      <4> QED BY <1>1, <1>6, <3>1, <4>1
    <3>4. b[n] \in Nat /\ b[n] <= y
      BY <1>2, <1>3, <1>4
    <3>5. CASE r[j].t = "GL"
      <4>1. P(i)
        BY <1>1, <3>1, <3>5, SMTT(60)
      <4>2. c[i] = z /\ c[i - 1] <= z /\ c[i - 1] \in 0..z
        <5> HIDE DEF P
        <5> QED BY <3>2, <3>3, <3>4, <4>1, SMTT(60)
      <4>3. c[i - 1] = z \/ (c[i - 1] <= y /\ (sync => Eqv(t, V[c[i - 1]], V[y])))
        <5> HIDE DEF P
        <5> QED BY <1>2, <3>3, <3>4
      <4>4. r[j].lastmod = z /\ Good(t, W, c[i - 1], r[j])
        BY <3>1, <3>5, <4>2, <4>3
      <4> QED
        BY <2>2, <3>5, <4>2, <4>4
    <3>6. CASE r[j].t # "GL"
      <4>1. P(i) <=> P(i - 1)
        BY <1>1, <3>1, <3>6, SMTT(60)
      <4>2. i - 1 <= n => ~P(i)
        BY <1>1, <3>1, <3>6, SMTT(60)
      <4>3. c[i - 1] = IF i - 1 <= n THEN b[n] ELSE IF P(i - 1) THEN z ELSE b[n]
        <5>1. i - 1 <= n => i - 1 = n
          BY <1>1, <3>1
        <5> HIDE DEF P
        <5> QED BY <1>6, <3>1, <5>1
      <4>4. c[i] = c[i - 1]
        <5> HIDE DEF P
        <5> QED BY <3>2, <4>1, <4>2, <4>3
      <4> QED
        BY <2>2, <3>6, <4>4
    <3> QED
      BY <3>5, <3>6
  <2> QED
    BY <1>1, <2>1, <2>2
<1>11. ASSUME sync2 PROVE Eqv(t, W[c[n + k]], W[z])
  <2>0. W[z] \in Record /\ Eqv(t, W[z], W[z])
    BY EqvLaws
  <2>1. CASE Has(r, {"GL"})
    <3>1. PICK j \in 1..k : r[j].t = "GL"
      BY <2>1 DEF Has
    <3>2. P(n + k) /\ ~(n + k <= n)
      BY <1>1, <3>1
    <3>3. c[n + k] = z
      <4> HIDE DEF P
      <4> QED BY <1>3, <1>6, <3>2
    <3> QED
      BY <2>0, <3>3
  <2>2. CASE ~Has(r, {"GL"})
    <3>1. ~P(n + k) /\ y = z /\ (sync \/ y = 0)
      BY <1>11, <2>2 DEF Has
    <3>2. c[n + k] = b[n]
      <4>1. n + k <= n => n + k = n
        BY <1>1
      <4> HIDE DEF P
      <4> QED BY <1>3, <1>6, <3>1, <4>1
    <3>3. b[n] \in 0..y /\ y \in 0..y
      BY <1>2, <1>3, <1>4
    <3>4. CASE sync
      BY <1>2, <3>1, <3>2, <3>3, <3>4
    <3>5. CASE y = 0
      <4>1. b[n] = 0
        BY <3>3, <3>5
      <4> QED BY <2>0, <3>1, <3>2, <3>5, <4>1
    <3> QED
      BY <3>1, <3>4, <3>5
  <2> QED
    BY <2>1, <2>2
<1>12. Flow(t, W, w, x, z, sync2)
  BY <1>1, <1>5, <1>8, <1>9, <1>10, <1>11 DEF Flow
<1> QED
  BY <1>12 DEF w

(* Reading the first message of a queue. *)
LEMMA FlowTail ==
  ASSUME NEW t \in Int, NEW V \in [Nat -> Record], NEW q \in Seq(Msg), q # <<>>,
         NEW x \in Nat, NEW y \in Nat, NEW z \in Nat, NEW sync, Flow(t, V, q, x, y, sync),
         IF Head(q).t = "GL" THEN z <= Head(q).lastmod /\ Eqv(t, V[z], V[Head(q).lastmod])
                             ELSE z = x
  PROVE  Flow(t, V, Tail(q), z, y, sync)
<1> DEFINE w == Tail(q)
           n == Len(w)
<1>1. /\ w \in Seq(Msg) /\ n \in Nat /\ Len(q) = n + 1 /\ Head(q) = q[1]
      /\ \A i \in 1..n : i + 1 \in 1..(n + 1) /\ w[i] = q[i + 1]
  BY TailIs
<1>2. PICK b \in [0..(n + 1) -> Nat] :
        /\ x <= b[0] /\ Eqv(t, V[x], V[b[0]])
        /\ Chain(t, V, q, b)
        /\ \A i \in 0..(n + 1) : b[i] <= y
        /\ sync => Eqv(t, V[b[n + 1]], V[y])
  BY <1>1 DEF Flow
<1> DEFINE c == [i \in 0..n |-> b[i + 1]]
<1> HIDE DEF w
<1>a. \A i \in 0..n : i + 1 \in 0..(n + 1)
  BY <1>1
<1>3. \A i \in 0..n : i + 1 \in 0..(n + 1) /\ b[i + 1] \in Nat
  BY <1>2, <1>a
<1>4. c \in [0..n -> Nat] /\ \A i \in 0..n : c[i] = b[i + 1]
  BY <1>3
<1> HIDE DEF c
<1>5. \A i \in 0..n : c[i] <= y
  BY <1>2, <1>3, <1>4
<1>6. z <= c[0] /\ Eqv(t, V[z], V[c[0]])
  <2>1. 0 \in 0..n /\ 0 + 1 = 1 /\ 1 - 1 = 0 /\ 1 \in 1..Len(q)
    BY <1>1
  <2>2. c[0] = b[1]
    BY <1>4, <2>1
  <2>3. IF q[1].t = "GL" THEN b[1] = q[1].lastmod ELSE b[1] = b[0]
    BY <1>2, <2>1 DEF Chain
  <2> QED
    BY <1>1, <1>2, <2>2, <2>3
<1>7. Chain(t, V, w, c)
  <2> SUFFICES ASSUME NEW i \in 1..n
               PROVE  IF w[i].t = "GL"
                        THEN c[i] = w[i].lastmod /\ c[i - 1] <= c[i] /\ Good(t, V, c[i - 1], w[i])
                        ELSE c[i] = c[i - 1]
    BY DEF Chain
  <2>1. i + 1 \in 1..Len(q) /\ w[i] = q[i + 1] /\ (i + 1) - 1 = i /\ i \in 0..n /\ i - 1 \in 0..n
        /\ (i - 1) + 1 = i
    BY <1>1
  <2>2. c[i] = b[i + 1] /\ c[i - 1] = b[i]
    BY <1>4, <2>1
  <2>3. IF q[i + 1].t = "GL"
          THEN b[i + 1] = q[i + 1].lastmod /\ b[i] <= b[i + 1] /\ Good(t, V, b[i], q[i + 1])
          ELSE b[i + 1] = b[i]
    BY <1>2, <2>1 DEF Chain
  <2> QED
    BY <2>1, <2>2, <2>3
<1>8. sync => Eqv(t, V[c[n]], V[y])
  BY <1>1, <1>2, <1>4
<1> QED
  BY <1>4, <1>5, <1>6, <1>7, <1>8 DEF Flow, w

(* What the first message of a queue is. *)
LEMMA FlowHead ==
  ASSUME NEW t \in Int, NEW V \in [Nat -> Record], NEW q \in Seq(Msg), q # <<>>,
         NEW x \in Nat, NEW y \in Nat, NEW sync, Flow(t, V, q, x, y, sync), Head(q).t = "GL"
  PROVE  /\ Head(q).lastmod \in Nat /\ Head(q).lastmod <= y
         /\ \E k \in Nat : /\ x <= k /\ k <= Head(q).lastmod
                           /\ Eqv(t, V[x], V[k]) /\ Good(t, V, k, Head(q))
<1>1. Len(q) \in Nat \ {0} /\ Head(q) = q[1]
  BY TailIs
<1>2. PICK b \in [0..Len(q) -> Nat] :
        /\ x <= b[0] /\ Eqv(t, V[x], V[b[0]])
        /\ Chain(t, V, q, b)
        /\ \A i \in 0..Len(q) : b[i] <= y
  BY DEF Flow
<1>3. 0 \in 0..Len(q) /\ 1 \in 0..Len(q) /\ 1 \in 1..Len(q) /\ 1 - 1 = 0
  BY <1>1
<1>4. b[1] = q[1].lastmod /\ b[0] <= b[1] /\ Good(t, V, b[0], q[1])
  BY <1>1, <1>2, <1>3 DEF Chain
<1>5. b[0] \in Nat /\ b[1] \in Nat /\ b[1] <= y
  BY <1>2, <1>3
<1> QED
  BY <1>1, <1>2, <1>4, <1>5

(* A queue without GLs brings nothing new. *)
LEMMA FlowStart ==
  ASSUME NEW t \in Int, NEW V \in [Nat -> Record], NEW q \in Seq(Msg), ~Has(q, {"GL"}),
         NEW x \in Nat, NEW y \in Nat, x <= y, NEW sync, sync => Eqv(t, V[x], V[y])
  PROVE  Flow(t, V, q, x, y, sync)
<1> DEFINE b == [i \in 0..Len(q) |-> x]
<1>1. Len(q) \in Nat
  OBVIOUS
<1>2. b \in [0..Len(q) -> Nat] /\ \A i \in 0..Len(q) : b[i] = x
  OBVIOUS
<1> HIDE DEF b
<1>3. 0 \in 0..Len(q) /\ Len(q) \in 0..Len(q) /\ \A i \in 1..Len(q) : i \in 0..Len(q) /\ i - 1 \in 0..Len(q)
  BY <1>1
<1>4. Chain(t, V, q, b)
  BY <1>2, <1>3 DEF Chain, Has
<1>5. b[0] = x /\ b[Len(q)] = x /\ Eqv(t, V[x], V[x])
  BY <1>2, <1>3, EqvLaws
<1> QED
  BY <1>2, <1>4, <1>5 DEF Flow

(* The reader of an empty queue. *)
LEMMA FlowEnd ==
  ASSUME NEW t \in Int, NEW V \in [Nat -> Record], NEW q \in Seq(Msg), q = <<>>,
         NEW x \in Nat, NEW y \in Nat, NEW sync, Flow(t, V, q, x, y, sync)
  PROVE  x <= y /\ (sync => Eqv(t, V[x], V[y]))
<1>1. Len(q) = 0
  OBVIOUS
<1>2. PICK b \in [0..0 -> Nat] :
        /\ x <= b[0] /\ Eqv(t, V[x], V[b[0]])
        /\ \A i \in 0..0 : b[i] <= y
        /\ sync => Eqv(t, V[b[0]], V[y])
  BY <1>1 DEF Flow
<1>3. b[0] \in Nat /\ b[0] <= y
  BY <1>2
<1>4. V[x] \in Record /\ V[b[0]] \in Record /\ V[y] \in Record
  BY <1>3
<1> QED
  BY <1>2, <1>3, <1>4, EqvLaws
-----------------------------------------------------------------------------
(* The servers and the links of a network with one author.                 *)

(* The version that a server has; 0: its record is gone or ends its life. *)
AgeOf(t, g) == IF g = None \/ g.lifetime <= t THEN 0 ELSE g.lastmod
Age(s) == AgeOf(now, gl[s])

(* p is the neighbour of c on the way to the author A. *)
Down(A, p, c) == p # c /\ Via[c][p] = p /\ Via[c][A] = p

(* Every record is that of its version. *)
Recorded(V, s) ==
  gl[s] # None => /\ gl[s].lastmod \in Start..now
                  /\ gl[s].lifetime > now => Eqv(now, gl[s], V[gl[s].lastmod])

(* A GL is no newer than the author, nor than the server it goes to when   *)
(* it goes towards the author.                                             *)
Fine(V, A, s, n, m) ==
  /\ m.t # "SHORT"
  /\ m.t = "GL" => /\ Fits(now, V, m) /\ m.lastmod <= Age(A)
                   /\ Down(A, n, s) => m.lastmod <= Age(n)
Sent(V, A, s, n) == \A i \in 1..Len(chan[s][n]) : Fine(V, A, s, n, chan[s][n][i])

(* What p has sent to c makes c as new as p. *)
Fed(V, A, p, c) ==
  Down(A, p, c) =>
    /\ Age(c) <= Age(p)
    /\ status[c][p] # "none" => Flow(now, V, chan[p][c], Age(c), Age(p), status[p][c] \in Linked)

(* An operator's G-line ends within GLINE_MAX_EXPIRE. *)
Limited(A) == A \in Opers /\ Age(A) # 0 => gl[A].expire <= now + MaxExpire

Agreed(V, A) ==
  /\ Versions(V) /\ Limited(A)
  /\ \A s \in Servers : Recorded(V, s) /\ Age(s) <= Age(A)
  /\ \A s, n \in Servers : Sent(V, A, s, n) /\ Fed(V, A, s, n)

(* A version is a time, or 0. *)
LEMMA AgeType ==
  ASSUME TypeOK, NEW s \in Servers
  PROVE  Age(s) \in Nat /\ (Age(s) # 0 => gl[s] \in Record /\ gl[s].lifetime > now /\ Age(s) = gl[s].lastmod)
<1>1. gl[s] \in Record \cup {None} /\ now \in Int
  BY DEF TypeOK
<1>2. gl[s] # None => gl[s] \in Record /\ gl[s].lastmod \in Nat /\ gl[s].lifetime \in Int
  BY <1>1 DEF Record
<1> QED
  BY <1>1, <1>2 DEF Age, AgeOf

(* Either end of a link of the tree is nearer to the author. *)
LEMMA DownOne ==
  ASSUME GlineAssumption, Tree, NEW A \in Servers, NEW s \in Servers, NEW n \in Servers
  PROVE  /\ ~Down(A, n, A)
         /\ Down(A, s, n) => ~Down(A, n, s)
         /\ \A p \in Servers : Down(A, p, s) /\ Down(A, n, s) => p = n
         /\ s # n /\ Via[s][n] = n => Down(A, s, n) \/ Down(A, n, s)
BY DEF GlineAssumption, Tree, Down

(* Every message was there or is one that s has written. *)
Carried(s, o) ==
  \A x, y \in Servers : \A i \in 1..Len(chan'[x][y]) :
    \/ \E j \in 1..Len(chan[x][y]) : chan'[x][y][i] = chan[x][y][j]
    \/ x = s /\ \E j \in 1..Len(o[y]) : chan'[x][y][i] = o[y][j]

(* The messages in the queues when s reads one of n and writes o. *)
LEMMA EmitMessages ==
  ASSUME TypeOK, Paired, NEW s \in Servers, NEW n \in Servers, NEW o \in Writes, Emit(s, n, o),
         n # s => chan[n][s] # <<>>
  PROVE  Carried(s, o)
<1> SUFFICES ASSUME NEW x \in Servers, NEW y \in Servers, NEW i \in 1..Len(chan'[x][y])
             PROVE  \/ \E j \in 1..Len(chan[x][y]) : chan'[x][y][i] = chan[x][y][j]
                    \/ x = s /\ \E j \in 1..Len(o[y]) : chan'[x][y][i] = o[y][j]
  BY DEF Carried
<1>1. chan[x][y] \in Seq(Msg) /\ o[y] \in Seq(Msg) /\ chan[n][s] \in Seq(Msg)
  BY DEF TypeOK, Writes
<1>2. CASE chan'[x][y] = chan[x][y]
  BY <1>2
<1>3. CASE x = n /\ y = s /\ n # s /\ chan'[x][y] = Tail(chan[n][s])
  <2> DEFINE q == chan[n][s]
  <2>1. q \in Seq(Msg) /\ q # <<>> /\ i \in 1..Len(Tail(q))
    BY <1>1, <1>3
  <2>2. i + 1 \in 1..Len(q) /\ Tail(q)[i] = q[i + 1]
    <3> HIDE DEF q
    <3> QED BY <2>1, TailIs
  <2> QED
    BY <1>3, <2>2
<1>4. CASE x = s /\ chan'[x][y] = chan[x][y] \o o[y]
  <2> DEFINE q == chan[x][y]
             r == o[y]
  <2>1. q \in Seq(Msg) /\ r \in Seq(Msg) /\ i \in 1..Len(q \o r) /\ chan'[x][y] = q \o r
    BY <1>1, <1>4
  <2> HIDE DEF q, r
  <2>2. CASE i \in 1..Len(q)
    <3>1. (q \o r)[i] = q[i]
      BY <2>1, <2>2, CatIs
    <3> QED BY <2>1, <2>2, <3>1 DEF q
  <2>3. CASE i - Len(q) \in 1..Len(r) /\ (q \o r)[i] = r[i - Len(q)]
    BY <1>4, <2>1, <2>3 DEF r
  <2> QED
    BY <2>1, <2>2, <2>3, CatIs, SMTT(60)
<1> QED
  BY <1>2, <1>3, <1>4 DEF Emit

(* s has served n, or a command of its own (n = s), and wrote o: W are the *)
(* versions behind the step, which differ only when s is the author and    *)
(* has made a new one.                                                     *)
Served(V, W, A, s, n, o) ==
  /\ Emit(s, n, o) /\ now' = now
  /\ n # s => chan[n][s] # <<>>
  /\ n = s => status'[s][s] = status[s][s]
  /\ \A x, y \in Servers : ~(x = s /\ y = n) => status'[x][y] = status[x][y]
  /\ status'[s][n] # "none" => status[s][n] # "none"
  /\ \A x \in Servers : x # s => gl'[x] = gl[x]
Renewed(V, W, A, s) ==
  /\ Versions(W) /\ (\A k \in 0..Age(A) : W[k] = V[k]) /\ (s = A \/ W = V)
  /\ Recorded(W, s)' /\ Limited(A)'
  /\ Age(s) <= Age(s)' /\ Age(s)' <= Age(A)'
  /\ \A p \in Servers : Down(A, p, s) => Age(s)' <= Age(p)
HeardOf(V, A, s, n) ==
  \A p \in Servers : Down(A, p, s) =>
    IF p = n /\ Head(chan[n][s]).t = "GL"
      THEN /\ Age(s)' <= Head(chan[n][s]).lastmod
           /\ Eqv(now, V[Age(s)'], V[Head(chan[n][s]).lastmod])
      ELSE Age(s)' = Age(s)
Tells(V, W, A, s, x, m) ==
  /\ m.t # "SHORT"
  /\ m.t = "GL" =>
       /\ Fits(now, W, m) /\ m.lastmod = Age(s)'
       /\ \A k \in 0..Age(s)' :
            \/ k = Age(s)'
            \/ k <= Age(s) /\ (status[s][x] \in Linked => Eqv(now, V[k], V[Age(s)]))
            => Good(now, W, k, m)
ToldOf(V, W, A, s, o) ==
  \A x \in Servers :
    /\ \A j \in 1..Len(o[x]) : Tells(V, W, A, s, x, o[x][j])
    /\ Down(A, s, x) /\ status'[s][x] \in Linked =>
         \/ Has(o[x], {"GL"})
         \/ Age(s)' = Age(s) /\ (status[s][x] \in Linked \/ Age(s) = 0)

(* A served message or command keeps the network agreed. *)
LEMMA ServeAgreed ==
  ASSUME GlineAssumption, Tree, TypeOK, TypeOK', Paired, NEW A \in Servers, NEW V, NEW W, Agreed(V, A),
         NEW s \in Servers, NEW n \in Servers, NEW o \in Writes,
         Served(V, W, A, s, n, o), Renewed(V, W, A, s), HeardOf(V, A, s, n), ToldOf(V, W, A, s, o)
  PROVE  Agreed(W, A)'
<1>0. /\ now \in Nat /\ now' = now /\ V \in [Nat -> Record] /\ W \in [Nat -> Record]
      /\ \A x \in Servers : Age(x) \in Nat /\ Age(x)' \in Nat
  <2>1. \A x \in Servers : Age(x) \in Nat
    BY AgeType
  <2>2. \A x \in Servers : Age(x)' \in Nat
    <3>1. ASSUME NEW x \in Servers PROVE Age(x)' \in Nat
      <4>1. gl'[x] \in Record \cup {None}
        BY DEF TypeOK
      <4>2. gl'[x] # None => gl'[x].lastmod \in Nat
        BY <4>1 DEF Record
      <4> QED
        BY <4>2 DEF Age, AgeOf
    <3> QED BY <3>1
  <2> QED
    BY <2>1, <2>2 DEF Served, Renewed, Agreed, Versions, TypeOK
<1>t. now \in Int
  BY <1>0
<1>e. /\ n # s => chan'[n][s] = Tail(chan[n][s])
      /\ \A y \in Servers : y # s /\ status[y][s] # "none" => chan'[s][y] = chan[s][y] \o o[y]
      /\ \A y \in Servers : y # s /\ status[y][s] = "none" => chan'[s][y] = chan[s][y]
      /\ \A x, y \in Servers : x # s /\ ~(x = n /\ y = s) => chan'[x][y] = chan[x][y]
  BY EmitIs, ZenonT(60) DEF Served
<1>a. Emit(s, n, o) /\ (n # s => chan[n][s] # <<>>)
  BY DEF Served
<1>m. Carried(s, o)
  BY <1>a, EmitMessages
<1>s. \A x, y \in Servers : ~(x = s /\ y = n) => status'[x][y] = status[x][y]
  BY DEF Served
<1>1. \A x \in Servers : x # s => Age(x)' = Age(x)
  BY DEF Served, Age
<1>2. \A x \in Servers : Age(x) <= Age(x)'
  BY <1>0, <1>1 DEF Renewed
<1>3. \A x \in Servers : Age(x)' <= Age(A)'
  <2>1. \A x \in Servers : Age(x) <= Age(A)
    BY DEF Agreed
  <2>2. Age(s)' <= Age(A)'
    BY DEF Renewed
  <2> QED
    BY <1>0, <1>1, <1>2, <2>1, <2>2
<1>4. ASSUME NEW x \in Servers PROVE Recorded(W, x)'
  <2>1. CASE x = s
    BY <2>1 DEF Renewed
  <2>2. CASE x # s
    <3>1. Recorded(V, x) /\ Age(x) <= Age(A) /\ gl'[x] = gl[x]
      BY <2>2 DEF Agreed, Served
    <3>2. ASSUME gl[x] # None, gl[x].lifetime > now PROVE W[gl[x].lastmod] = V[gl[x].lastmod]
      <4>1. gl[x].lifetime \in Int
        BY <3>2 DEF TypeOK, Record
      <4>2. Age(x) = gl[x].lastmod
        BY <1>0, <3>2, <4>1 DEF Age, AgeOf
      <4>3. gl[x].lastmod \in 0..Age(A)
        BY <1>0, <3>1, <4>2
      <4> QED
        BY <4>3 DEF Renewed
    <3> QED
      BY <1>0, <3>1, <3>2 DEF Recorded
  <2> QED
    BY <2>1, <2>2
<1>5. ASSUME NEW x \in Servers, NEW y \in Servers PROVE Sent(W, A, x, y)'
  <2> SUFFICES ASSUME NEW i \in 1..Len(chan'[x][y]) PROVE Fine(W, A, x, y, chan[x][y][i])'
    BY DEF Sent
  <2> DEFINE m == chan'[x][y][i]
  <2>1. SUFFICES /\ m.t # "SHORT"
                 /\ m.t = "GL" => /\ Fits(now, W, m) /\ m.lastmod <= Age(A)'
                                  /\ Down(A, y, x) => m.lastmod <= Age(y)'
    BY <1>0, <2>1 DEF Fine, Down
  <2>2. CASE \E j \in 1..Len(chan[x][y]) : m = chan[x][y][j]
    <3>1. Fine(V, A, x, y, m)
      BY <2>2 DEF Agreed, Sent
    <3> HIDE DEF m
    <3>2. ASSUME m.t = "GL" PROVE Fits(now, W, m) /\ m.lastmod \in Nat
      <4>1. m.lastmod \in Nat /\ m.lastmod <= Age(A)
        BY <3>1, <3>2 DEF Fine, Fits, GlineAssumption
      <4>2. m.lastmod \in 0..Age(A)
        BY <1>0, <4>1, SMTT(60)
      <4>3. W[m.lastmod] = V[m.lastmod]
        BY <4>2 DEF Renewed
      <4> QED
        BY <3>1, <3>2, <4>1, <4>3 DEF Fine, Fits
    <3>3. m.t = "GL" => m.lastmod <= Age(A)'
      BY <1>0, <1>2, <3>1, <3>2, SMTT(60) DEF Fine
    <3>4. m.t = "GL" /\ Down(A, y, x) => m.lastmod <= Age(y)'
      BY <1>0, <1>2, <3>1, <3>2, SMTT(60) DEF Fine
    <3>5. m.t # "SHORT"
      BY <3>1 DEF Fine
    <3> QED
      BY <3>2, <3>3, <3>4, <3>5
  <2>3. CASE x = s /\ \E j \in 1..Len(o[y]) : m = o[y][j]
    <3>1. Tells(V, W, A, s, y, m)
      BY <2>3 DEF ToldOf
    <3> HIDE DEF m
    <3>2. m.t = "GL" => m.lastmod = Age(s)'
      BY <3>1 DEF Tells
    <3>3. Age(s)' <= Age(A)'
      BY <1>3
    <3>4. Down(A, y, x) => Age(s)' <= Age(y)
      BY <2>3 DEF Renewed
    <3> QED
      BY <1>0, <1>2, <3>1, <3>2, <3>3, <3>4 DEF Tells
  <2>5. \/ \E j \in 1..Len(chan[x][y]) : m = chan[x][y][j]
        \/ x = s /\ \E j \in 1..Len(o[y]) : m = o[y][j]
    <3>1. \/ \E j \in 1..Len(chan[x][y]) : chan'[x][y][i] = chan[x][y][j]
          \/ x = s /\ \E j \in 1..Len(o[y]) : chan'[x][y][i] = o[y][j]
      BY <1>m, ZenonT(60) DEF Carried
    <3> QED BY <3>1
  <2> QED
    BY <2>2, <2>3, <2>5
<1>6. ASSUME NEW p \in Servers, NEW c \in Servers PROVE Fed(W, A, p, c)'
  <2> SUFFICES ASSUME Down(A, p, c)
               PROVE  /\ Age(c)' <= Age(p)'
                      /\ status'[c][p] # "none" =>
                           Flow(now, W, chan'[p][c], Age(c)', Age(p)', status'[p][c] \in Linked)
    BY <1>0 DEF Fed, Down
  <2>0. /\ p # c /\ Age(c) <= Age(p) /\ Age(p) <= Age(A) /\ chan[p][c] \in Seq(Msg)
        /\ status[c][p] # "none" => Flow(now, V, chan[p][c], Age(c), Age(p), status[p][c] \in Linked)
    BY DEF Agreed, Fed, Down, TypeOK
  <2>1. Age(c)' <= Age(p)'
    <3>1. CASE c = s
      BY <1>0, <1>1, <2>0, <3>1 DEF Renewed
    <3>2. CASE c # s
      BY <1>0, <1>1, <1>2, <2>0, <3>2
    <3> QED
      BY <3>1, <3>2
  <2>2. \A k \in 0..Age(p) : W[k] = V[k]
    <3>1. \A k \in 0..Age(p) : k \in 0..Age(A)
      BY <1>0, <2>0, SMTT(60)
    <3> QED
      BY <3>1 DEF Renewed
  <2>3. ASSUME status'[c][p] # "none"
        PROVE  Flow(now, W, chan'[p][c], Age(c)', Age(p)', status'[p][c] \in Linked)
    <3>1. CASE p = s
      <4>1. status[c][s] # "none" /\ status'[c][s] = status[c][s] /\ Age(c)' = Age(c)
        BY <1>1, <2>0, <2>3, <3>1 DEF Served
      <4> DEFINE q == chan[s][c]
                 r == o[c]
                 sync == status[s][c] \in Linked
                 sync2 == status'[s][c] \in Linked
                 x == Age(c)
                 y == Age(s)
                 z == Age(s)'
      <4>2. chan'[s][c] = q \o r
        BY <1>e, <2>0, <3>1, <4>1
      <4>3. q \in Seq(Msg) /\ r \in Seq(Msg) /\ x \in Nat /\ y \in Nat /\ z \in Nat /\ y <= z
        BY <1>0, <1>2, <2>0, <3>1 DEF Writes
      <4>4. Flow(now, V, q, x, y, sync) /\ \A k \in 0..y : W[k] = V[k]
        BY <2>0, <2>2, <3>1, <4>1
      <4>5. \A j \in 1..Len(r) : r[j].t = "GL" =>
              /\ r[j].lastmod = z
              /\ \A k \in 0..z :
                   k = z \/ (k <= y /\ (sync => Eqv(now, V[k], V[y]))) => Good(now, W, k, r[j])
        BY DEF ToldOf, Tells
      <4>6. sync2 => Has(r, {"GL"}) \/ (y = z /\ (sync \/ y = 0))
        BY <3>1 DEF ToldOf
      <4> HIDE DEF q, r, sync, sync2, x, y, z
      <4>7. Flow(now, W, q \o r, x, z, sync2)
        BY <1>0, <1>t, <4>3, <4>4, <4>5, <4>6, FlowCat, ZenonT(60)
      <4>8. x = Age(c)' /\ z = Age(p)' /\ sync2 = (status'[p][c] \in Linked) /\ chan'[p][c] = q \o r
        BY <3>1, <4>1, <4>2 DEF x, z, sync2
      <4> QED
        BY <4>7, <4>8
    <3>2. CASE c = s /\ p = n
      <4>0. s # A
        BY <3>2, DownOne
      <4>1. /\ W = V /\ Age(n)' = Age(n) /\ chan'[n][s] = Tail(chan[n][s]) /\ chan[n][s] # <<>>
            /\ status[s][n] # "none" /\ status'[n][s] = status[n][s]
        <5>1. W = V
          BY <4>0 DEF Renewed
        <5>2. n # s /\ Age(n)' = Age(n)
          BY <1>1, <2>0, <3>2
        <5>3. chan'[n][s] = Tail(chan[n][s])
          BY <1>e, <5>2
        <5>4. chan[n][s] # <<>> /\ status'[n][s] = status[n][s]
          BY <1>a, <1>s, <5>2
        <5>5. status[s][n] # "none"
          BY <2>3, <3>2 DEF Served
        <5> QED BY <5>1, <5>2, <5>3, <5>4, <5>5
      <4> DEFINE q == chan[n][s]
                 sync == status[n][s] \in Linked
                 x == Age(s)
                 y == Age(n)
                 z == Age(s)'
      <4>2. q \in Seq(Msg) /\ q # <<>> /\ x \in Nat /\ y \in Nat /\ z \in Nat /\ Flow(now, V, q, x, y, sync)
        BY <1>0, <2>0, <3>2, <4>1
      <4>3. IF Head(q).t = "GL" THEN z <= Head(q).lastmod /\ Eqv(now, V[z], V[Head(q).lastmod])
                                ELSE z = x
        BY <3>2 DEF HeardOf
      <4> HIDE DEF q, sync, x, y, z
      <4>4. Flow(now, V, Tail(q), z, y, sync)
        BY <1>0, <1>t, <4>2, <4>3, FlowTail, Zenon
      <4>5. z = Age(c)' /\ y = Age(p)' /\ sync = (status'[p][c] \in Linked) /\ chan'[p][c] = Tail(q)
        BY <3>2, <4>1 DEF y, z, sync, q
      <4> QED
        BY <4>1, <4>4, <4>5
    <3>3. CASE c = s /\ p # n
      <4>0. s # A
        BY <3>3, DownOne
      <4>1. /\ W = V /\ Age(c)' = Age(c) /\ Age(p)' = Age(p) /\ status[c][p] # "none"
        BY <1>1, <2>0, <2>3, <3>3, <4>0 DEF Served, Renewed, HeardOf
      <4>2. chan'[p][c] = chan[p][c] /\ status'[p][c] = status[p][c]
        BY <1>e, <1>s, <2>0, <3>3
      <4> QED
        BY <2>0, <4>1, <4>2
    <3>4. CASE c # s /\ p # s
      <4>1. /\ Age(c)' = Age(c) /\ Age(p)' = Age(p) /\ status[c][p] # "none"
        BY <1>1, <2>3, <3>4 DEF Served
      <4>2. chan'[p][c] = chan[p][c] /\ status'[p][c] = status[p][c]
        BY <1>e, <1>s, <3>4
      <4> DEFINE q == chan[p][c]
                 r == <<>>
                 sync == status[p][c] \in Linked
                 sync2 == status[p][c] \in Linked
                 x == Age(c)
                 y == Age(p)
                 z == Age(p)
      <4>3. q \in Seq(Msg) /\ r \in Seq(Msg) /\ x \in Nat /\ y \in Nat /\ z \in Nat /\ y <= z
            /\ Flow(now, V, q, x, y, sync) /\ \A k \in 0..y : W[k] = V[k]
        BY <1>0, <2>0, <2>2, <4>1
      <4>a. y = z /\ sync2 = sync /\ q \o r = q
        BY <4>3, HeadCat
      <4>4. \A j \in 1..Len(r) : FALSE
        OBVIOUS
      <4> HIDE DEF q, r, sync, sync2, x, y, z
      <4>5. \A j \in 1..Len(r) : r[j].t = "GL" =>
              /\ r[j].lastmod = z
              /\ \A k \in 0..z :
                   k = z \/ (k <= y /\ (sync => Eqv(now, V[k], V[y]))) => Good(now, W, k, r[j])
        BY <4>4
      <4>6. sync2 => Has(r, {"GL"}) \/ (y = z /\ (sync \/ y = 0))
        BY <4>a
      <4>7. Flow(now, W, q \o r, x, z, sync2)
        BY <1>0, <1>t, <4>3, <4>5, <4>6, FlowCat, ZenonT(60)
      <4>8. x = Age(c)' /\ z = Age(p)' /\ sync2 = (status'[p][c] \in Linked) /\ chan'[p][c] = q \o r
        BY <4>1, <4>2, <4>a DEF x, z, sync2, q
      <4> QED
        BY <4>7, <4>8
    <3> QED
      BY <3>1, <3>2, <3>3, <3>4
  <2> QED
    BY <2>1, <2>3
<1>7. Versions(W) /\ Limited(A)'
  BY DEF Renewed
<1> QED
  BY <1>3, <1>4, <1>5, <1>6, <1>7 DEF Agreed, Versions

(* The record that is found is that of the server's version. *)
LEMMA FindIs ==
  ASSUME GlineAssumption, TypeOK, now <= Start + OneMonth, NEW V, NEW s \in Servers, Recorded(V, s)
  PROVE  /\ gline_find(s) = None <=> Age(s) = 0
         /\ gline_find(s) # None =>
              /\ gl[s] \in Record /\ gline_find(s) \in Record
              /\ gline_find(s).lastmod = Age(s) /\ Age(s) \in Start..now /\ gl[s].lastmod = Age(s)
              /\ gline_find(s).lifetime > now /\ gline_find(s).lifetime = gl[s].lifetime
              /\ gline_find(s).expire = gl[s].expire
              /\ gline_find(s).active => gline_find(s).expire > now
              /\ Eqv(now, gline_find(s), V[Age(s)])
<1> DEFINE g == gl[s]
           f == gline_find(s)
<1>0. /\ now \in Nat /\ Start \in Nat \ {0, 1} /\ OneMonth \in Nat /\ g \in Record \cup {None}
      /\ None \notin Record /\ f = gliter(g)
  BY DEF TypeOK, GlineAssumption, gline_find
<1>1. CASE g = None
  <2>1. f = None /\ Age(s) = 0
    BY <1>0, <1>1 DEF gliter, Age, AgeOf
  <2> QED BY <2>1
<1>2. CASE g # None
  <2>0. g \in Record /\ g.lastmod \in Start..now /\ g.lifetime \in Int /\ g.expire \in Int
        /\ (g.lifetime > now => Eqv(now, g, V[g.lastmod]))
    BY <1>0, <1>2 DEF Recorded, Record
  <2>1. ~(g.lastmod < now - OneMonth)
    BY <1>0, <2>0
  <2>2. CASE g.lifetime <= now
    <3>1. f = None /\ Age(s) = 0
      BY <1>0, <2>2 DEF gliter, Age, AgeOf
    <3> QED BY <3>1
  <2>3. CASE g.lifetime > now
    <3>1. Age(s) = g.lastmod /\ Age(s) # 0
      BY <1>0, <1>2, <2>0, <2>3 DEF Age, AgeOf
    <3>2. f = IF g.expire > now THEN g ELSE [g EXCEPT !.active = FALSE, !.state = "global"]
      BY <1>0, <1>2, <2>0, <2>1, <2>3 DEF gliter
    <3>3. CASE g.expire > now
      <4>1. f = g
        BY <3>2, <3>3
      <4> QED
        BY <1>0, <2>0, <2>3, <3>1, <3>3, <4>1
    <3>4. CASE ~(g.expire > now)
      <4> DEFINE h == [g EXCEPT !.active = FALSE, !.state = "global"]
      <4>1. h \in Record /\ h.lastmod = g.lastmod /\ h.lifetime = g.lifetime /\ h.expire = g.expire
            /\ h.active = FALSE
        BY <2>0 DEF Record
      <4>2. f = h
        BY <3>2, <3>4
      <4> HIDE DEF h
      <4>3. Eqv(now, h, V[g.lastmod])
        BY <2>0, <2>3, <3>4, <4>1 DEF Eqv, Running
      <4> HIDE DEF f, g
      <4>4. f # None
        BY <1>0, <4>1, <4>2
      <4> QED
        BY <1>0, <2>0, <2>3, <3>1, <4>1, <4>2, <4>3, <4>4 DEF f, g
    <3> QED
      BY <3>3, <3>4
  <2> QED
    BY <1>0, <2>0, <2>2, <2>3
<1> QED
  BY <1>1, <1>2

(* A GL of a record that is its version says what the version says. *)
LEMMA FullFits ==
  ASSUME GlineAssumption, TypeOK, NEW V \in [Nat -> Record], NEW h \in Record, NEW op \in {"modify", "+", "-"},
         NEW force \in BOOLEAN, h.lastmod \in Start..now, h.lifetime > now,
         Eqv(now, h, V[h.lastmod]), op # "modify" => (op = "+" <=> h.active),
         force \/ h.expire <= now + MaxExpire
  PROVE  Fits(now, V, Full(op, h, force))
<1> DEFINE m == Full(op, h, force)
           v == V[h.lastmod]
<1>0. now \in Nat /\ h.expire \in Int /\ h.lastmod \in Nat /\ v \in Record /\ MaxExpire \in Nat
  BY DEF TypeOK, Record, GlineAssumption
<1>1. /\ m.op = op /\ m.force = force /\ m.rel = Remaining(h.expire) /\ m.reason = h.reason
      /\ m.lastmod = h.lastmod /\ m.lifetime = h.lifetime
  BY FullIs
<1> DEFINE r == Remaining(h.expire)
<1>2. /\ r \in Int /\ r >= -1 /\ (r > 0 <=> h.expire > now) /\ (r > 0 => now + r = h.expire)
      /\ (h.expire <= now + MaxExpire => r <= MaxExpire)
  <2> DEFINE e == h.expire
  <2>1. e \in Int /\ now \in Int /\ MaxExpire \in Nat /\ r = IF e - now > -1 THEN e - now ELSE -1
    BY <1>0 DEF Remaining, Max
  <2> HIDE DEF e, r
  <2>2. /\ r \in Int /\ r >= -1 /\ (r > 0 <=> e > now) /\ (r > 0 => now + r = e)
        /\ (e <= now + MaxExpire => r <= MaxExpire)
    BY <2>1
  <2> QED
    BY <2>2 DEF e
<1>3. /\ h.lifetime = v.lifetime /\ (h.expire > now <=> v.expire > now)
      /\ h.expire > now => h.expire = v.expire /\ h.active = v.active /\ h.reason = v.reason
  BY DEF Eqv, Running
<1> HIDE DEF m, r
<1>4. m.lastmod \in Start..now /\ m.lifetime = V[m.lastmod].lifetime /\ m.lifetime > now
  BY <1>1, <1>3
<1>5. (m.rel > 0 <=> Running(now, V[m.lastmod]))
  BY <1>1, <1>2, <1>3 DEF Running, r
<1>6. m.rel > 0 => now + m.rel = V[m.lastmod].expire /\ m.reason = V[m.lastmod].reason
  BY <1>1, <1>2, <1>3 DEF r
<1>7. m.rel > 0 /\ m.op # "modify" => (m.op = "+" <=> V[m.lastmod].active)
  BY <1>1, <1>2, <1>3 DEF r
<1>8. m.rel >= -1 /\ (~m.force => m.rel <= MaxExpire)
  BY <1>1, <1>2 DEF r
<1> QED
  BY <1>4, <1>5, <1>6, <1>7, <1>8 DEF Fits, m

(* Looking a record up, or a change for this server only. *)
Kept(s) ==
  \/ gl'[s] \in {gl[s], gline_find(s)}
  \/ /\ gline_find(s) # None /\ gl'[s] \in Record
     /\ gl'[s].lastmod = gline_find(s).lastmod /\ gl'[s].lifetime = gline_find(s).lifetime
     /\ gl'[s].expire = gline_find(s).expire /\ gl'[s].reason = gline_find(s).reason
     /\ gl'[s].active = gline_find(s).active

(* Neither makes another version. *)
LEMMA KeptIs ==
  ASSUME GlineAssumption, TypeOK, now <= Start + OneMonth, NEW V, NEW s \in Servers, Recorded(V, s),
         Kept(s), now' = now
  PROVE  /\ Age(s)' = Age(s) /\ Recorded(V, s)'
         /\ Age(s) # 0 => gl'[s].expire = gl[s].expire
<1> DEFINE g == gl[s]
           f == gline_find(s)
           h == gl'[s]
<1>0. now \in Nat /\ None \notin Record
  BY DEF TypeOK, GlineAssumption
<1>1. /\ f = None <=> Age(s) = 0
      /\ f # None =>
           /\ g \in Record /\ f \in Record
           /\ f.lastmod = Age(s) /\ Age(s) \in Start..now /\ g.lastmod = Age(s)
           /\ f.lifetime > now /\ f.lifetime = g.lifetime /\ f.expire = g.expire
           /\ Eqv(now, f, V[Age(s)])
  BY FindIs
<1>2. CASE h = g
  BY <1>2 DEF Age, AgeOf, Recorded
<1>3. CASE h = None /\ f = None
  BY <1>1, <1>3 DEF Age, AgeOf, Recorded
<1>4. CASE /\ f # None /\ h \in Record
           /\ h.lastmod = f.lastmod /\ h.lifetime = f.lifetime /\ h.expire = f.expire
           /\ h.reason = f.reason /\ h.active = f.active
  <2>1. h # None /\ h.lifetime > now /\ h.lifetime \in Int /\ h.lastmod = Age(s)
        /\ h.expire = g.expire
    BY <1>0, <1>1, <1>4 DEF Record
  <2>2. AgeOf(now, h) = Age(s)
    BY <1>0, <2>1 DEF AgeOf
  <2>3. Age(s)' = Age(s)
    BY <2>2 DEF Age
  <2>4. Eqv(now, h, V[Age(s)])
    BY <1>1, <1>4 DEF Eqv, Running
  <2>5. h.lastmod \in Start..now /\ Eqv(now, h, V[h.lastmod])
    BY <1>1, <1>4, <2>1, <2>4
  <2>6. Recorded(V, s)'
    BY <2>5 DEF Recorded
  <2> QED
    BY <2>1, <2>3, <2>6
<1>5. CASE h = f /\ f # None
  BY <1>1, <1>4, <1>5
<1> QED
  BY <1>2, <1>3, <1>4, <1>5 DEF Kept

(* The record of s, as a burst or gline_resend sends it. *)
Echo(s) == Full(Sign(gline_find(s)), gline_find(s), TRUE)

(* It brings every reader to the version of s. *)
LEMMA EchoIs ==
  ASSUME GlineAssumption, TypeOK, now <= Start + OneMonth, NEW V \in [Nat -> Record], NEW s \in Servers,
         Recorded(V, s), Age(s) # 0
  PROVE  /\ Echo(s) \in Msg /\ Echo(s).t = "GL" /\ Fits(now, V, Echo(s)) /\ Echo(s).lastmod = Age(s)
         /\ \A k : Good(now, V, k, Echo(s))
<1> DEFINE g == gline_find(s)
           op == Sign(g)
<1>1. /\ g \in Record /\ g.lastmod = Age(s) /\ g.lastmod \in Start..now /\ g.lifetime > now
      /\ Eqv(now, g, V[g.lastmod])
  BY FindIs
<1>2. op \in {"modify", "+", "-"} /\ op # "modify" /\ (op = "+" <=> g.active) /\ TRUE \in BOOLEAN
  BY DEF Sign
<1>3. Echo(s) = Full(op, g, TRUE)
  BY DEF Echo
<1> HIDE DEF g, op
<1>4. /\ Full(op, g, TRUE) \in Msg /\ Full(op, g, TRUE).t = "GL" /\ Full(op, g, TRUE).op = op
      /\ Full(op, g, TRUE).force = TRUE /\ Full(op, g, TRUE).lastmod = g.lastmod
  BY <1>1, <1>2, FullIs, ZenonT(60)
<1>5. Fits(now, V, Full(op, g, TRUE))
  BY <1>1, <1>2, FullFits
<1>6. \A k : Good(now, V, k, Full(op, g, TRUE))
  BY <1>2, <1>4 DEF Good
<1> QED
  BY <1>1, <1>3, <1>4, <1>5, <1>6

(* s has kept its version: it writes nothing about the G-line but what it  *)
(* has.                                                                    *)
LEMMA KeepAgreed ==
  ASSUME GlineAssumption, Tree, TypeOK, TypeOK', Paired, now <= Start + OneMonth,
         NEW A \in Servers, NEW V, Agreed(V, A),
         NEW s \in Servers, NEW n \in Servers, NEW o \in Writes,
         Served(V, V, A, s, n, o), Kept(s),
         Down(A, n, s) /\ Head(chan[n][s]).t = "GL" =>
           /\ Age(s) <= Head(chan[n][s]).lastmod
           /\ Eqv(now, V[Age(s)], V[Head(chan[n][s]).lastmod]),
         \A x \in Servers : \A j \in 1..Len(o[x]) :
           o[x][j].t \notin {"GL", "SHORT"} \/ (Age(s) # 0 /\ o[x][j] = Echo(s)),
         \A x \in Servers : Down(A, s, x) /\ status'[s][x] \in Linked =>
           Has(o[x], {"GL"}) \/ status[s][x] \in Linked \/ Age(s) = 0
  PROVE  Agreed(V, A)'
<1>0. Versions(V) /\ V \in [Nat -> Record] /\ Recorded(V, s) /\ now' = now
  BY DEF Agreed, Versions, Served
<1>1. /\ Age(s)' = Age(s) /\ Recorded(V, s)' /\ Age(s) \in Nat /\ Age(A) \in Nat
      /\ Age(s) # 0 => gl'[s].expire = gl[s].expire
  BY <1>0, KeptIs, AgeType
<1>2. Age(A)' = Age(A)
  BY <1>1 DEF Served, Age
<1>3. Limited(A)'
  <2>1. CASE A = s
    BY <1>0, <1>1, <2>1 DEF Limited, Agreed
  <2>2. CASE A # s
    BY <1>0, <1>2, <2>2 DEF Limited, Agreed, Served
  <2> QED BY <2>1, <2>2
<1>4. Renewed(V, V, A, s)
  <2>1. Age(s) <= Age(A) /\ \A p \in Servers : Down(A, p, s) => Age(s) <= Age(p)
    BY DEF Agreed, Fed
  <2> QED
    BY <1>0, <1>1, <1>2, <1>3, <2>1 DEF Renewed
<1>5. HeardOf(V, A, s, n)
  BY <1>1 DEF HeardOf
<1>6. ToldOf(V, V, A, s, o)
  <2>1. ASSUME NEW x \in Servers, NEW j \in 1..Len(o[x]) PROVE Tells(V, V, A, s, x, o[x][j])
    <3>1. CASE o[x][j].t \notin {"GL", "SHORT"}
      BY <3>1 DEF Tells
    <3>2. CASE Age(s) # 0 /\ o[x][j] = Echo(s)
      <4>1. /\ Echo(s).t = "GL" /\ Fits(now, V, Echo(s)) /\ Echo(s).lastmod = Age(s)
            /\ \A k : Good(now, V, k, Echo(s))
        BY <1>0, <3>2, EchoIs
      <4>2. Tells(V, V, A, s, x, Echo(s))
        BY <1>1, <4>1 DEF Tells
      <4> QED
        BY <3>2, <4>2
    <3> QED
      BY <3>1, <3>2
  <2>2. ASSUME NEW x \in Servers, Down(A, s, x), status'[s][x] \in Linked
        PROVE  \/ Has(o[x], {"GL"})
               \/ Age(s)' = Age(s) /\ (status[s][x] \in Linked \/ Age(s) = 0)
    BY <1>1, <2>2
  <2> QED
    BY <2>1, <2>2 DEF ToldOf
<1> QED
  BY <1>4, <1>5, <1>6, ServeAgreed

(* s has accepted a version: as the author, who makes it, or from the      *)
(* neighbour nearer to the author.                                         *)
LEMMA AcceptAgreed ==
  ASSUME GlineAssumption, Tree, TypeOK, TypeOK', Paired,
         NEW A \in Servers, NEW V, NEW W, Agreed(V, A), Versions(W),
         NEW s \in Servers, NEW n \in Servers,
         NEW h \in Record, NEW op \in {"modify", "+", "-"}, NEW force \in BOOLEAN,
         Served(V, W, A, s, n, ToAllBut(s, n, <<Full(op, h, force)>>)), status' = status, gl'[s] = h,
         \A k \in 0..Age(A) : W[k] = V[k],
         \/ s = A /\ n = s
         \/ /\ W = V /\ Down(A, n, s) /\ status[s][n] # "none"
            /\ Head(chan[n][s]).t = "GL" /\ Head(chan[n][s]).lastmod = h.lastmod,
         h.lastmod \in Start..now, h.lastmod > Age(s), h.lifetime > now,
         Eqv(now, h, W[h.lastmod]), op # "modify" => (op = "+" <=> h.active),
         force \/ h.expire <= now + MaxExpire,
         s \in Opers /\ s = A => h.expire <= now + MaxExpire,
         \A k \in 0..Age(s) : Eqv(now, V[k], V[Age(s)]) => Good(now, W, k, Full(op, h, force))
  PROVE  Agreed(W, A)'
<1> DEFINE m == Full(op, h, force)
           q == <<m>>
           o == ToAllBut(s, n, q)
<1>0. /\ V \in [Nat -> Record] /\ W \in [Nat -> Record] /\ Recorded(V, s) /\ now' = now
      /\ Age(s) \in Nat /\ Age(A) \in Nat /\ now \in Nat
  BY AgeType DEF Agreed, Versions, Served, TypeOK
<1>1. m \in Msg /\ m.t = "GL" /\ m.op = op /\ m.force = force /\ m.lastmod = h.lastmod
  BY FullIs
<1>2. Fits(now, W, m)
  BY <1>0, FullFits
<1> HIDE DEF m
<1>3. q \in Seq(Msg) /\ Len(q) = 1 /\ q[1] = m /\ Has(q, {"GL"}) /\ q # <<>>
  BY <1>1, OneHas
<1> HIDE DEF q
<1>4. o \in Writes /\ \A x \in Servers : o[x] = IF status[s][x] \in Linked /\ x # n THEN q ELSE <<>>
  BY <1>3, WritesType, WritesIs
<1>5. Served(V, W, A, s, n, o)
  BY DEF q, m
<1> HIDE DEF o
<1>6. /\ Age(s)' = h.lastmod /\ Age(s) <= Age(s)' /\ Age(s)' \in Nat /\ h.lastmod \in Nat
  <2>1. h.lifetime \in Int /\ h # None /\ h.lastmod \in Nat
    BY DEF Record, GlineAssumption
  <2>2. AgeOf(now, h) = h.lastmod
    BY <1>0, <2>1 DEF AgeOf
  <2>3. Age(s)' = h.lastmod
    BY <1>0, <2>2 DEF Age
  <2> QED
    BY <1>0, <2>1, <2>3
<1>7. Renewed(V, W, A, s)
  <2>1. Recorded(W, s)'
    BY <1>0 DEF Recorded
  <2>2. Limited(A)' /\ Age(s)' <= Age(A)' /\ \A p \in Servers : Down(A, p, s) => Age(s)' <= Age(p)
    <3>1. CASE s = A /\ n = s
      <4>1. Limited(A)'
        BY <1>0, <3>1 DEF Limited
      <4>2. Age(s)' <= Age(A)'
        BY <1>6, <3>1
      <4>3. \A p \in Servers : ~Down(A, p, s)
        BY <3>1, DownOne
      <4> QED BY <4>1, <4>2, <4>3
    <3>2. CASE /\ W = V /\ Down(A, n, s) /\ status[s][n] # "none"
               /\ Head(chan[n][s]).t = "GL" /\ Head(chan[n][s]).lastmod = h.lastmod
      <4>1. s # A
        BY <3>2, DownOne
      <4>2. Age(A)' = Age(A) /\ gl'[A] = gl[A]
        BY <1>0, <4>1 DEF Served, Age
      <4>3. Limited(A)'
        BY <1>0, <4>2 DEF Limited, Agreed
      <4> DEFINE w == chan[n][s]
                 sync == status[n][s] \in Linked
      <4>a. n # s /\ w \in Seq(Msg) /\ w # <<>>
        BY <3>2 DEF Served, TypeOK, Down
      <4>b. Fed(V, A, n, s) /\ Age(n) <= Age(A) /\ Age(n) \in Nat
        BY AgeType DEF Agreed
      <4>c. Flow(now, V, w, Age(s), Age(n), sync)
        BY <3>2, <4>b DEF Fed
      <4>4. w \in Seq(Msg) /\ w # <<>> /\ Flow(now, V, w, Age(s), Age(n), sync) /\ Age(n) \in Nat
            /\ now \in Int /\ Age(n) <= Age(A)
        BY <1>0, <4>a, <4>b, <4>c
      <4>5. Head(w).t = "GL"
        BY <3>2
      <4> HIDE DEF w, sync
      <4>6. Head(w).lastmod <= Age(n)
        BY <1>0, <4>4, <4>5, FlowHead, SMTT(60)
      <4>7. h.lastmod <= Age(n)
        BY <3>2, <4>6 DEF w
      <4>8. \A p \in Servers : Down(A, p, s) => p = n
        BY <3>2, DownOne
      <4> QED
        BY <1>0, <1>6, <4>2, <4>3, <4>4, <4>7, <4>8
    <3> QED
      BY <3>1, <3>2
  <2> QED
    BY <1>6, <2>1, <2>2 DEF Renewed
<1>8. HeardOf(V, A, s, n)
  <2> SUFFICES ASSUME NEW p \in Servers, Down(A, p, s)
               PROVE  /\ p = n /\ Head(chan[n][s]).t = "GL"
                      /\ Age(s)' <= Head(chan[n][s]).lastmod
                      /\ Eqv(now, V[Age(s)'], V[Head(chan[n][s]).lastmod])
    BY DEF HeardOf
  <2>1. s # A
    BY DownOne
  <2>2. p = n /\ Head(chan[n][s]).t = "GL" /\ Head(chan[n][s]).lastmod = Age(s)'
    BY <1>6, <2>1, DownOne
  <2>3. V[Age(s)'] \in Record
    BY <1>0, <1>6
  <2>4. now \in Int
    BY <1>0
  <2>5. Eqv(now, V[Age(s)'], V[Age(s)'])
    BY <2>3, <2>4, EqvLaws
  <2> QED
    BY <1>6, <2>2, <2>5
<1>9. ToldOf(V, W, A, s, o)
  <2>1. ASSUME NEW x \in Servers, NEW j \in 1..Len(o[x]) PROVE Tells(V, W, A, s, x, o[x][j])
    <3>1. status[s][x] \in Linked /\ o[x][j] = m
      BY <1>3, <1>4, <2>1
    <3>2. ASSUME NEW k \in 0..Age(s)',
                 \/ k = Age(s)'
                 \/ k <= Age(s) /\ (status[s][x] \in Linked => Eqv(now, V[k], V[Age(s)]))
          PROVE  Good(now, W, k, m)
      <4>1. CASE k = Age(s)'
        <5>1. now \in Int /\ W[k] \in Record /\ m.lastmod = k
          BY <1>0, <1>1, <1>6, <4>1
        <5>2. Eqv(now, W[k], W[k])
          BY <5>1, EqvLaws
        <5>3. W[k].lifetime > now
          BY <1>2, <5>1 DEF Fits
        <5> QED
          BY <5>1, <5>2, <5>3 DEF Good
      <4>2. CASE k <= Age(s) /\ (status[s][x] \in Linked => Eqv(now, V[k], V[Age(s)]))
        <5>1. k \in 0..Age(s) /\ Eqv(now, V[k], V[Age(s)])
          BY <1>0, <1>6, <3>1, <4>2
        <5> QED
          BY <5>1 DEF m
      <4> QED
        BY <3>2, <4>1, <4>2
    <3> QED
      BY <1>1, <1>2, <1>6, <3>1, <3>2 DEF Tells
  <2>2. ASSUME NEW x \in Servers, Down(A, s, x), status'[s][x] \in Linked PROVE Has(o[x], {"GL"})
    <3>1. x # n
      BY <2>2, DownOne DEF Down
    <3> QED
      BY <1>3, <1>4, <2>2, <3>1
  <2> QED
    BY <2>1, <2>2 DEF ToldOf
<1> QED
  BY <1>4, <1>5, <1>7, <1>8, <1>9, ServeAgreed

(* A change that a GL brings to the record g, which is version x: accepted *)
(* it makes the GL's version, refused there is nothing to change.          *)
LEMMA ReadModified ==
  ASSUME GlineAssumption, TypeOK, NEW V, Versions(V), NEW m \in FullMsg, Fits(now, V, m),
         NEW g \in Record, NEW x \in Nat, NEW k \in Nat, x <= m.lastmod,
         g.lifetime > now, g.active => g.expire > now, Eqv(now, g, V[x]),
         Eqv(now, V[x], V[k]), Good(now, V, k, m),
         NEW p \in Change, p.act = m.op, p.expire = m.rel + now, p.lastmod = m.lastmod,
         p.lifetime = m.lifetime, p.reason = m.reason, p.force = m.force
  PROVE  /\ Eqv(now, Modified(g, p), V[m.lastmod])
         /\ Modified(g, p).lastmod = m.lastmod /\ Modified(g, p).lifetime = m.lifetime
         /\ Modified(g, p).expire = m.rel + now
         /\ NewAction(g, p) # "modify" => (NewAction(g, p) = "+" <=> Modified(g, p).active)
         /\ Refused(g, p) /\ g.lastmod # m.lastmod => Eqv(now, V[x], V[m.lastmod])
         /\ ~Refused(g, p) => m.force \/ (m.rel > 0 /\ m.rel <= MaxExpire)
         /\ NewAction(g, p) = "modify" /\ m.rel > 0 => Modified(g, p).active = g.active
<1> DEFINE L == m.lastmod
           v == V[L]
           u == V[x]
           c == V[k]
           h == Modified(g, p)
           op == NewAction(g, p)
           e == m.rel + now
<1>0. /\ now \in Nat /\ now >= 2 /\ L \in Nat /\ m.rel \in Int /\ m.lifetime \in Int /\ MaxExpire \in Nat
      /\ m.op \in {"modify", "+", "-"} /\ m.force \in BOOLEAN /\ m.reason \in Reasons
      /\ None \notin Reasons
  <2>1. now \in Nat /\ now >= Start /\ Start \in Nat \ {0, 1} /\ MaxExpire \in Nat
    BY DEF TypeOK, GlineAssumption
  <2>2. now >= 2
    BY <2>1
  <2> QED
    BY <2>1, <2>2 DEF FullMsg, GlineAssumption
<1>1. v \in Record /\ u \in Record /\ c \in Record
  BY <1>0 DEF Versions
<1>2. /\ g.expire \in Int /\ g.lifetime \in Int /\ v.expire \in Int /\ v.lifetime \in Int
      /\ u.lifetime \in Int /\ u.expire \in Int /\ c.expire \in Int
      /\ g.active \in BOOLEAN /\ v.active \in BOOLEAN /\ c.active \in BOOLEAN /\ u.active \in BOOLEAN
  BY <1>1 DEF Record
<1>3. /\ m.lifetime = v.lifetime /\ m.lifetime > now /\ (m.rel > 0 <=> v.expire > now)
      /\ m.rel > 0 => now + m.rel = v.expire /\ m.reason = v.reason
      /\ m.rel >= -1 /\ (~m.force => m.rel <= MaxExpire)
  BY DEF Fits, Running
<1>a. m.rel > 0 /\ m.op # "modify" => (m.op = "+" <=> v.active)
  BY DEF Fits
<1>4. e \in Int /\ e # 0 /\ (e > now <=> m.rel > 0) /\ (e > now => e = v.expire) /\ (e > now + MaxExpire <=> m.rel > MaxExpire)
  BY <1>0, <1>2, <1>3
<1>5. v.lifetime >= v.expire /\ u.lifetime <= v.lifetime /\ g.lifetime = u.lifetime
  BY <1>0 DEF Versions, Eqv
<1>6. ~IsLocalAct(p.act)
  BY <1>0 DEF IsLocalAct
<1>7. NewExpire(g, p) = IF e = g.expire THEN 0 ELSE e
  BY DEF NewExpire
<1>8. NewLifetime(g, p) = m.lifetime
  <2>1. e <= v.lifetime /\ g.lifetime <= m.lifetime
    BY <1>0, <1>2, <1>3, <1>4, <1>5
  <2> QED
    <3> DEFINE x1 == NewExpire(g, p)
               l == m.lifetime
               j == g.lifetime
    <3>1. x1 \in Int /\ l \in Int /\ j \in Int /\ j <= l /\ x1 <= l
      <4>1. l >= 0 /\ e <= l
        BY <1>0, <1>3, <2>1
      <4> QED
        BY <1>0, <1>2, <1>4, <1>7, <2>1, <4>1
    <3>2. NewLifetime(g, p) = Max(Max(l, j), x1)
      BY DEF NewLifetime
    <3> HIDE DEF x1, l, j
    <3>3. Max(Max(l, j), x1) = l
      BY <3>1 DEF Max
    <3> QED
      BY <3>2, <3>3 DEF l
<1>9. NewReason(g, p) = m.reason
  BY <1>0 DEF NewReason
<1>10. /\ h.expire = e /\ h.lastmod = L /\ h.lifetime = m.lifetime /\ h.reason = m.reason
       /\ h.active = IF op \in {"+", "-"} THEN p.act = "+" ELSE g.active
  BY <1>4, <1>6, <1>7, <1>8, <1>9 DEF Modified
<1>11. /\ op \in {"modify", m.op}
       /\ op = "modify" /\ e > now => m.op = "modify" \/ (m.op = "+" /\ g.active) \/ (m.op = "-" /\ ~g.active)
  <2>1. Max(g.expire, NewExpire(g, p)) <= now => e <= now
    BY <1>0, <1>2, <1>4, <1>7 DEF Max
  <2>2. m.op \notin {">", "<"}
    BY <1>0
  <2>3. e > now => ~(e <= now)
    BY <1>0, <1>4
  <2> QED
    BY <1>0, <2>1, <2>2, <2>3 DEF NewAction
<1>12. Running(now, g) <=> Running(now, u)
  BY DEF Eqv
<1>13. g.active <=> Act(now, c)
  <2>1. g.active <=> Act(now, g)
    BY DEF Act, Running
  <2>2. now \in Int
    BY <1>0
  <2>3. (Act(now, g) <=> Act(now, u)) /\ (Act(now, u) <=> Act(now, c))
    BY <1>1, <2>2, EqvLaws
  <2> QED
    BY <2>1, <2>3
<1> HIDE DEF h, op, e, v, u, c, L
<1>14. ASSUME m.rel > 0, m.op = "modify" PROVE g.active <=> v.active
  <2>1. Act(now, c) <=> Act(now, v)
    BY <1>14 DEF Good, c, v, L
  <2>2. Running(now, v)
    BY <1>3, <1>14 DEF Running
  <2> QED
    BY <1>13, <2>1, <2>2 DEF Act
<1>15. ASSUME m.rel > 0 PROVE h.active <=> v.active
  <2>1. CASE op = "modify"
    <3>1. e > now /\ h.active = g.active
      BY <1>4, <1>10, <1>15, <2>1
    <3>2. CASE m.op = "modify"
      BY <1>14, <1>15, <3>1, <3>2
    <3>3. CASE m.op # "modify"
      <4>1. m.op = "+" <=> g.active
        BY <1>11, <2>1, <3>1, <3>3
      <4>2. m.op = "+" <=> v.active
        BY <1>a, <1>15, <3>3
      <4> QED
        BY <3>1, <4>1, <4>2
    <3> QED
      BY <3>2, <3>3
  <2>2. CASE op # "modify"
    <3>1. op = m.op /\ m.op # "modify" /\ op \in {"+", "-"}
      BY <1>0, <1>11, <2>2
    <3>2. h.active = (m.op = "+")
      BY <1>10, <3>1
    <3> QED
      BY <1>a, <1>15, <3>1, <3>2
  <2> QED
    BY <2>1, <2>2
<1>16. h.active \in BOOLEAN
  BY <1>2, <1>10
<1>17. m.rel > 0 => h.active = v.active
  BY <1>2, <1>15, <1>16
<1>18. Eqv(now, h, v)
  <2>1. h.lifetime = v.lifetime /\ (h.expire > now <=> v.expire > now)
    BY <1>3, <1>4, <1>10
  <2>2. h.expire > now => h.expire = v.expire /\ h.reason = v.reason /\ m.rel > 0
    BY <1>3, <1>4, <1>10
  <2> QED
    BY <1>17, <2>1, <2>2 DEF Eqv, Running
<1>19. op # "modify" => (op = "+" <=> h.active)
  BY <1>0, <1>10, <1>11
<1>20. ASSUME Refused(g, p), g.lastmod # L PROVE Eqv(now, u, v)
  <2>0. now \in Int /\ g \in Record
    BY <1>0
  <2>1. CASE ~m.force /\ m.rel <= 0
    <3>1. Eqv(now, c, v)
      BY <2>1 DEF Good, c, v, L
    <3>2. Eqv(now, u, c)
      BY DEF u, c
    <3> QED
      BY <1>1, <2>0, <3>1, <3>2, EqvLaws
  <2>2. CASE ~(~m.force /\ m.rel <= 0)
    <3>1. ~BadExpire(p)
      <4>1. p.expire = e /\ p.force = m.force
        BY DEF e
      <4> QED
        BY <1>0, <1>3, <1>4, <2>2, <4>1 DEF BadExpire
    <3>2. ~Changes(g, p)
      BY <1>6, <1>20, <3>1 DEF Refused, L
    <3>3. op = "modify" /\ NewExpire(g, p) = 0 /\ ~(m.lifetime > g.lifetime) /\ m.reason = g.reason
      BY <1>8, <1>9, <3>2 DEF Changes, op
    <3>4. e = g.expire
      BY <1>4, <1>7, <3>3
    <3>5. g.lifetime = v.lifetime
      <4>1. g.lifetime <= v.lifetime /\ ~(v.lifetime > g.lifetime)
        BY <1>3, <1>5, <3>3
      <4>2. g.lifetime \in Int /\ v.lifetime \in Int
        BY <1>2
      <4> DEFINE a == g.lifetime
                 b == v.lifetime
      <4>3. a \in Int /\ b \in Int /\ a <= b /\ ~(b > a)
        BY <4>1, <4>2
      <4> HIDE DEF a, b
      <4>4. a = b
        BY <4>3
      <4> QED
        BY <4>4 DEF a, b
    <3>6. h.active = g.active
      BY <1>10, <3>3
    <3>7. Eqv(now, g, v)
      <4>1. g.expire > now <=> v.expire > now
        BY <1>3, <1>4, <3>4
      <4>2. g.expire > now => g.expire = v.expire /\ g.reason = v.reason /\ g.active = v.active
        BY <1>3, <1>4, <1>17, <3>3, <3>4, <3>6
      <4> QED
        BY <3>5, <4>1, <4>2 DEF Eqv, Running
    <3>8. Eqv(now, u, g)
      BY <1>1, <2>0, EqvLaws DEF u
    <3> QED
      BY <1>1, <2>0, <3>7, <3>8, EqvLaws
  <2> QED
    BY <2>1, <2>2
<1>21. ~Refused(g, p) => m.force \/ (m.rel > 0 /\ m.rel <= MaxExpire)
  <2>1. p.expire = e /\ p.force = m.force
    BY DEF e
  <2> QED
    BY <1>0, <1>4, <2>1 DEF Refused, BadExpire
<1>22. op = "modify" /\ m.rel > 0 => h.active = g.active
  BY <1>10
<1> QED
  BY <1>10, <1>18, <1>19, <1>20, <1>21, <1>22 DEF h, op, e, v, u, L

(* A GL about a G-line that is not there: it makes the GL's version. *)
LEMMA ReadAdded ==
  ASSUME GlineAssumption, TypeOK, NEW V, Versions(V), NEW m \in FullMsg, Fits(now, V, m),
         NEW k \in Nat, Eqv(now, V[0], V[k]), Good(now, V, k, m), NEW h \in Record,
         h.active <=> m.op \in {"modify", "+"} /\ m.rel + now > now,
         h.expire = m.rel + now, m.lifetime # 0 => h.lifetime = m.lifetime,
         h.reason = m.reason
  PROVE  /\ Eqv(now, h, V[m.lastmod]) /\ h.lifetime = m.lifetime
         /\ m.force \/ (m.rel > 0 /\ m.rel <= MaxExpire)
<1> DEFINE v == V[m.lastmod]
           c == V[k]
<1>0. /\ now \in Nat /\ m.lastmod \in Nat /\ m.rel \in Int /\ m.lifetime \in Int /\ MaxExpire \in Nat
      /\ m.op \in {"modify", "+", "-"} /\ m.force \in BOOLEAN
  BY DEF TypeOK, GlineAssumption, FullMsg
<1>1. v \in Record /\ c \in Record
  BY <1>0 DEF Versions
<1>2. v.expire \in Int /\ v.lifetime \in Int /\ c.lifetime \in Int /\ v.active \in BOOLEAN
  BY <1>1 DEF Record
<1>3. /\ m.lifetime = v.lifetime /\ m.lifetime > now /\ (m.rel > 0 <=> v.expire > now)
      /\ m.rel > 0 => now + m.rel = v.expire /\ m.reason = v.reason
      /\ m.rel >= -1 /\ (~m.force => m.rel <= MaxExpire)
  BY DEF Fits, Running
<1>4. m.rel > 0 /\ m.op # "modify" => (m.op = "+" <=> v.active)
  BY DEF Fits
<1>5. c.lifetime = 0
  BY DEF Versions, Eqv
<1>6. ~(m.op = "modify" /\ m.rel > 0)
  BY <1>0, <1>5 DEF Good
<1>7. ~(~m.force /\ m.rel <= 0)
  <2>1. ~Eqv(now, c, v)
    BY <1>0, <1>2, <1>3, <1>5 DEF Eqv
  <2> QED
    BY <2>1 DEF Good
<1>8. h.lifetime = m.lifetime
  BY <1>0, <1>3
<1>9. (m.rel + now > now <=> m.rel > 0) /\ m.rel + now = now + m.rel
  BY <1>0
<1>10. m.rel > 0 => (h.active <=> v.active)
  BY <1>4, <1>6, <1>9
<1>11. h.active \in BOOLEAN
  BY DEF Record
<1> HIDE DEF v, c
<1>12. m.rel > 0 => h.active = v.active
  BY <1>2, <1>10, <1>11
<1>13. h.expire > now <=> m.rel > 0
  BY <1>9
<1>14. Eqv(now, h, v)
  BY <1>3, <1>8, <1>9, <1>12, <1>13 DEF Eqv, Running
<1> QED
  BY <1>0, <1>3, <1>7, <1>8, <1>14 DEF v

(* The frame of a handler that leaves the links alone. *)
LEMMA ServedIs ==
  ASSUME TypeOK, NEW V, NEW W, NEW A, NEW s \in Servers, NEW n \in Servers, NEW o, Emit(s, n, o),
         NEW g, SetGline(s, g), status' = status, now' = now, n # s => chan[n][s] # <<>>
  PROVE  Served(V, W, A, s, n, o) /\ gl'[s] = g
<1>1. gl'[s] = g /\ \A x \in Servers : x # s => gl'[x] = gl[x]
  BY DEF SetGline, TypeOK
<1> QED
  BY <1>1 DEF Served

(* What the head of the queue must be for a reader that keeps its version. *)
Nothing(V, A, s, n) ==
  Down(A, n, s) /\ Head(chan[n][s]).t = "GL" =>
    /\ Age(s) <= Head(chan[n][s]).lastmod
    /\ Eqv(now, V[Age(s)], V[Head(chan[n][s]).lastmod])

(* Nothing is written. *)
LEMMA SilentAgreed ==
  ASSUME GlineAssumption, Tree, TypeOK, TypeOK', Paired, now <= Start + OneMonth,
         NEW A \in Servers, NEW V, Agreed(V, A), NEW s \in Servers, NEW n \in Servers,
         Served(V, V, A, s, n, Silent), status' = status, Kept(s), Nothing(V, A, s, n)
  PROVE  Agreed(V, A)'
<1>1. Silent \in Writes /\ \A x \in Servers : Silent[x] = <<>>
  BY SilentType DEF Silent
<1>2. \A x \in Servers : \A j \in 1..Len(Silent[x]) :
        Silent[x][j].t \notin {"GL", "SHORT"} \/ (Age(s) # 0 /\ Silent[x][j] = Echo(s))
  BY <1>1
<1>3. \A x \in Servers : Down(A, s, x) /\ status'[s][x] \in Linked =>
        Has(Silent[x], {"GL"}) \/ status[s][x] \in Linked \/ Age(s) = 0
  OBVIOUS
<1>4. Down(A, n, s) /\ Head(chan[n][s]).t = "GL" =>
        /\ Age(s) <= Head(chan[n][s]).lastmod
        /\ Eqv(now, V[Age(s)], V[Head(chan[n][s]).lastmod])
  BY DEF Nothing
<1> QED
  BY <1>1, <1>2, <1>3, <1>4, KeepAgreed

(* One message, which is no news: another matter, or what s has. *)
LEMMA OneAgreed ==
  ASSUME GlineAssumption, Tree, TypeOK, TypeOK', Paired, now <= Start + OneMonth,
         NEW A \in Servers, NEW V, Agreed(V, A), NEW s \in Servers, NEW n \in Servers,
         NEW y \in Servers, NEW m \in Msg, Served(V, V, A, s, n, To(y, <<m>>)),
         \A x \in Servers : Down(A, s, x) /\ status'[s][x] \in Linked => status[s][x] \in Linked,
         Kept(s), Nothing(V, A, s, n), m.t \notin {"GL", "SHORT"} \/ (Age(s) # 0 /\ m = Echo(s))
  PROVE  Agreed(V, A)'
<1> DEFINE q == <<m>>
           o == To(y, q)
<1>1. q \in Seq(Msg) /\ Len(q) = 1 /\ q[1] = m
  BY OneHas
<1>a. Served(V, V, A, s, n, o)
  OBVIOUS
<1> HIDE DEF q
<1>2. o \in Writes /\ \A x \in Servers : o[x] = IF x = y THEN q ELSE <<>>
  BY <1>1, WritesType, WritesIs
<1> HIDE DEF o
<1>3. \A x \in Servers : \A j \in 1..Len(o[x]) :
        o[x][j].t \notin {"GL", "SHORT"} \/ (Age(s) # 0 /\ o[x][j] = Echo(s))
  BY <1>1, <1>2
<1>4. \A x \in Servers : Down(A, s, x) /\ status'[s][x] \in Linked =>
        Has(o[x], {"GL"}) \/ status[s][x] \in Linked \/ Age(s) = 0
  OBVIOUS
<1>5. Down(A, n, s) /\ Head(chan[n][s]).t = "GL" =>
        /\ Age(s) <= Head(chan[n][s]).lastmod
        /\ Eqv(now, V[Age(s)], V[Head(chan[n][s]).lastmod])
  BY DEF Nothing
<1>6. o \in Writes
  BY <1>2
<1> QED
  <2>1. /\ GlineAssumption /\ Tree /\ TypeOK /\ TypeOK' /\ Paired /\ now <= Start + OneMonth
        /\ Agreed(V, A) /\ Kept(s)
    OBVIOUS
  <2> QED
    BY ONLY <1>a, <1>3, <1>4, <1>5, <1>6, <2>1, KeepAgreed

(* gline_resend. *)
LEMMA ResendAgreed ==
  ASSUME GlineAssumption, Tree, TypeOK, TypeOK', Paired, now <= Start + OneMonth,
         NEW A \in Servers, NEW V, Agreed(V, A), NEW s \in Servers, NEW n \in Servers,
         status' = status, now' = now, n # s => chan[n][s] # <<>>,
         gline_find(s) # None, gline_resend(s, n, gline_find(s)), Nothing(V, A, s, n)
  PROVE  Agreed(V, A)'
<1>0. V \in [Nat -> Record] /\ Recorded(V, s)
  BY DEF Agreed, Versions
<1>1. Age(s) # 0
  BY <1>0, FindIs
<1>2. SetGline(s, gline_find(s)) /\ (Emit(s, n, Silent) \/ Emit(s, n, To(n, <<Echo(s)>>)))
  BY DEF gline_resend, Echo
<1>3. gl'[s] = gline_find(s)
  BY <1>2, ServedIs, ZenonT(60)
<1>4. Kept(s)
  BY <1>3 DEF Kept
<1>5. CASE Emit(s, n, Silent)
  <2>1. Served(V, V, A, s, n, Silent)
    BY <1>2, <1>5, ServedIs
  <2> QED
    BY <1>4, <2>1, SilentAgreed
<1>6. CASE Emit(s, n, To(n, <<Echo(s)>>))
  <2>1. Served(V, V, A, s, n, To(n, <<Echo(s)>>))
    BY <1>2, <1>6, ServedIs
  <2>2. Echo(s) \in Msg
    BY <1>0, <1>1, EchoIs
  <2>3. \A x \in Servers : Down(A, s, x) /\ status'[s][x] \in Linked => status[s][x] \in Linked
    OBVIOUS
  <2> QED
    BY <1>1, <1>4, <2>1, <2>2, <2>3, OneAgreed
<1> QED
  BY <1>2, <1>5, <1>6

(* A change is ignored. *)
LEMMA IgnoredAgreed ==
  ASSUME GlineAssumption, Tree, TypeOK, TypeOK', Paired, now <= Start + OneMonth,
         NEW A \in Servers, NEW V, Agreed(V, A), NEW s \in Servers, NEW n \in Servers,
         status' = status, now' = now, n # s => chan[n][s] # <<>>,
         Ignored(s, n), Nothing(V, A, s, n)
  PROVE  Agreed(V, A)'
<1>1. Served(V, V, A, s, n, Silent) /\ gl'[s] = gline_find(s)
  BY ServedIs, ZenonT(60) DEF Ignored
<1>2. Kept(s)
  BY <1>1 DEF Kept
<1> QED
  BY <1>1, <1>2, SilentAgreed

(* The number of seconds that is sent. *)
LEMMA RemainingIs ==
  ASSUME TypeOK, NEW e \in Int
  PROVE  /\ Remaining(e) \in Int /\ Remaining(e) >= -1 /\ (Remaining(e) > 0 <=> e > now)
         /\ Remaining(e) > 0 => now + Remaining(e) = e
<1>1. now \in Nat
  BY DEF TypeOK
<1> QED
  BY <1>1 DEF Remaining, Max

(* The neighbour nearer to the author has sent the GL m. *)
LEMMA ReadNewer ==
  ASSUME GlineAssumption, Tree, TypeOK, TypeOK', Paired, now <= Start + OneMonth,
         NEW A \in Servers, NEW V, Agreed(V, A), NEW s \in Servers, NEW n \in Servers,
         chan[n][s] # <<>>, status[s][n] # "none", Down(A, n, s),
         NEW m \in FullMsg, m = Head(chan[n][s]), m.t = "GL", Fits(now, V, m),
         ms_gline_full(s, n, m), status' = status, now' = now
  PROVE  Agreed(V, A)'
<1> DEFINE x == Age(s)
           L == m.lastmod
           a == IF m.op = "modify" THEN "+" ELSE m.op
           p(act) == [act |-> act, expire |-> m.rel + now, lastmod |-> m.lastmod,
                      lifetime |-> m.lifetime, reason |-> m.reason, force |-> m.force]
<1>0. /\ Versions(V) /\ V \in [Nat -> Record] /\ Recorded(V, s) /\ now \in Nat /\ now \in Int
      /\ x \in Nat /\ Age(n) \in Nat /\ Age(A) \in Nat /\ n # s /\ chan[n][s] \in Seq(Msg)
      /\ MaxExpire \in Nat
  <2>1. Versions(V) /\ Recorded(V, s)
    BY DEF Agreed
  <2>2. V \in [Nat -> Record]
    BY <2>1 DEF Versions
  <2>3. x \in Nat /\ Age(n) \in Nat /\ Age(A) \in Nat
    BY AgeType
  <2>4. now \in Nat /\ chan[n][s] \in Seq(Msg)
    BY DEF TypeOK
  <2> QED
    BY <2>1, <2>2, <2>3, <2>4 DEF Down, GlineAssumption
<1>1. /\ m.op \in {"modify", "+", "-"} /\ m.rel \in Int /\ m.rel + now \in Int /\ L \in Nat
      /\ m.lifetime \in Int /\ m.reason \in Reasons /\ m.force \in BOOLEAN /\ a \in {"modify", "+", "-"}
  BY <1>0, SMTT(60) DEF FullMsg
<1>2. L \in Start..now /\ m.lifetime > now
  BY DEF Fits
<1>3. PICK k \in Nat : x <= k /\ k <= L /\ Eqv(now, V[x], V[k]) /\ Good(now, V, k, m)
  <2> DEFINE q == chan[n][s]
             y == Age(n)
             sync == status[n][s] \in Linked
  <2>1. Flow(now, V, q, x, y, sync)
    BY DEF Agreed, Fed
  <2>2. q \in Seq(Msg) /\ q # <<>> /\ y \in Nat /\ Head(q).t = "GL" /\ m = Head(q)
    BY <1>0
  <2> HIDE DEF q, y, sync, x
  <2>3. \E k \in Nat : /\ x <= k /\ k <= Head(q).lastmod
                       /\ Eqv(now, V[x], V[k]) /\ Good(now, V, k, Head(q))
    BY <1>0, <2>1, <2>2, FlowHead
  <2> QED
    BY <2>2, <2>3
<1>4. x <= L
  BY <1>0, <1>1, <1>3, SMTT(60)
<1>5. \A act \in {"modify", "+", "-"} : p(act) \in Change
  BY <1>1 DEF Change
<1>6. \/ gline_find(s) = None /\ gline_add(s, n, p(a))
      \/ gline_find(s) # None /\ gline_modify(s, n, gline_find(s), p(m.op))
  BY DEF ms_gline_full
<1>7. \A k0 \in 0..Age(A) : V[k0] = V[k0]
  BY SMTT(60)
<1>8. CASE gline_find(s) = None /\ gline_add(s, n, p(a))
  <2> DEFINE h == [active |-> a = "+" /\ m.rel + now > now, state |-> "global",
                   expire |-> m.rel + now, lastmod |-> L,
                   lifetime |-> IF m.lifetime = 0 THEN m.rel + now ELSE m.lifetime,
                   reason |-> m.reason]
  <2>1. h \in Record
    BY <1>1 DEF Record
  <2>2. x = 0
    BY <1>0, <1>8, FindIs
  <2>3. /\ h.active = (a = "+" /\ m.rel + now > now) /\ h.expire = m.rel + now /\ h.lastmod = L
        /\ h.lifetime = (IF m.lifetime = 0 THEN m.rel + now ELSE m.lifetime) /\ h.reason = m.reason
    BY SMTT(60)
  <2>h. \/ BadExpire(p(a))
        \/ SetGline(s, h) /\ Emit(s, n, ToAllBut(s, n, <<Full(Sign(h), h, m.force)>>))
    BY <1>8 DEF gline_add
  <2>4. BadExpire(p(a)) <=> ~m.force /\ (m.rel + now <= now \/ m.rel + now > now + MaxExpire)
    BY DEF BadExpire
  <2> HIDE DEF h, p
  <2>5. /\ Eqv(now, h, V[L]) /\ h.lifetime = m.lifetime /\ (m.force \/ (m.rel > 0 /\ m.rel <= MaxExpire))
    <3>1. Eqv(now, V[0], V[k])
      BY <1>3, <2>2
    <3> QED
      <4>1. /\ h.active <=> m.op \in {"modify", "+"} /\ m.rel + now > now
            /\ h.expire = m.rel + now /\ (m.lifetime # 0 => h.lifetime = m.lifetime)
            /\ h.reason = m.reason
        BY <2>3
      <4>2. Versions(V) /\ Good(now, V, k, m)
        BY <1>0, <1>3
      <4>5. Eqv(now, h, V[m.lastmod])
        BY <2>1, <3>1, <4>1, <4>2, ReadAdded, Zenon
      <4>6. h.lifetime = m.lifetime
        BY <1>0, <1>1, <1>2, <4>1, SMTT(60)
      <4>3. Eqv(now, h, V[m.lastmod]) /\ h.lifetime = m.lifetime
        BY <4>5, <4>6
      <4>4. m.force \/ (m.rel > 0 /\ m.rel <= MaxExpire)
        BY <2>1, <3>1, <4>1, <4>2, ReadAdded, SMTT(60)
      <4> QED
        BY <4>3, <4>4
  <2>6. ~BadExpire(p(a))
    BY <1>0, <1>1, <2>4, <2>5, SMTT(60)
  <2> DEFINE op == Sign(h)
             o == ToAllBut(s, n, <<Full(op, h, m.force)>>)
  <2>7. op \in {"modify", "+", "-"} /\ (op # "modify" => (op = "+" <=> h.active)) /\ op # "modify"
    BY DEF Sign
  <2>8. Served(V, V, A, s, n, o) /\ gl'[s] = h
    BY <1>0, <2>h, <2>6, ServedIs
  <2>9. m.force \/ h.expire <= now + MaxExpire
    BY <1>0, <1>1, <2>3, <2>5, SMTT(60)
  <2>10. \A j \in 0..Age(s) : Eqv(now, V[j], V[Age(s)]) => Good(now, V, j, Full(op, h, m.force))
    <3>1. Full(op, h, m.force).op = op /\ Full(op, h, m.force).force = m.force
          /\ Full(op, h, m.force).rel = Remaining(h.expire)
      BY <1>1, <2>1, <2>7, FullIs, SMTT(60)
    <3>2. m.force \/ Remaining(h.expire) > 0
      BY <1>0, <1>1, <2>3, <2>5, SMTT(60) DEF Remaining, Max
    <3>3. ~(~m.force /\ Remaining(h.expire) <= 0)
      <4>1. Remaining(h.expire) \in Int
        BY <1>0, <1>1, <2>3, SMTT(60) DEF Remaining, Max
      <4> QED BY <3>2, <4>1
    <3> QED
      BY <2>7, <3>1, <3>3 DEF Good
  <2>11. s # A
    BY DownOne, SMTT(60)
  <2>12. h.lastmod = L /\ h.lastmod \in Start..now /\ h.lastmod > Age(s) /\ h.lifetime > now
    <3>1. L > 0
      BY <1>2, SMTT(60) DEF GlineAssumption
    <3> QED
      BY <1>2, <2>2, <2>3, <2>5, <3>1
  <2>13. /\ Head(chan[n][s]).t = "GL" /\ Head(chan[n][s]).lastmod = h.lastmod
         /\ Eqv(now, h, V[h.lastmod])
    BY <2>5, <2>12
  <2> HIDE DEF op
  <2> QED
    BY <1>0, <1>1, <2>1, <2>7, <2>8, <2>9, <2>10, <2>11, <2>12, <2>13, AcceptAgreed, ZenonT(60)
<1>9. CASE gline_find(s) # None /\ gline_modify(s, n, gline_find(s), p(m.op))
  <2> DEFINE g == gline_find(s)
             c == p(m.op)
             h == Modified(g, c)
             op == NewAction(g, c)
  <2>1. /\ g \in Record /\ g.lastmod = x /\ g.lifetime > now /\ Eqv(now, g, V[x])
        /\ g.active => g.expire > now
    BY <1>0, <1>9, FindIs
  <2>2. /\ c \in Change /\ c.act = m.op /\ c.expire = m.rel + now /\ c.lastmod = m.lastmod
        /\ c.lifetime = m.lifetime /\ c.reason = m.reason /\ c.force = m.force
    BY <1>1, <1>5
  <2>3. \/ Older(g, c) /\ gline_resend(s, n, g)
        \/ ~Older(g, c) /\ Refused(g, c) /\ Ignored(s, n)
        \/ /\ ~Older(g, c) /\ ~Refused(g, c) /\ SetGline(s, h)
           /\ Emit(s, n, IF IsLocalAct(c.act) THEN Silent ELSE ToAllBut(s, n, <<Full(op, h, c.force)>>))
    BY <1>9 DEF gline_modify
  <2> HIDE DEF g, c
  <2>4. /\ Eqv(now, h, V[L]) /\ h.lastmod = L /\ h.lifetime = m.lifetime /\ h.expire = m.rel + now
        /\ op # "modify" => (op = "+" <=> h.active)
        /\ Refused(g, c) /\ g.lastmod # L => Eqv(now, V[x], V[L])
        /\ ~Refused(g, c) => m.force \/ (m.rel > 0 /\ m.rel <= MaxExpire)
        /\ op = "modify" /\ m.rel > 0 => h.active = g.active
    <3> HIDE DEF x
    <3>1. x \in Nat /\ x <= m.lastmod /\ Eqv(now, V[x], V[k]) /\ Good(now, V, k, m) /\ Versions(V)
      BY <1>0, <1>3, <1>4
    <3> QED
      BY <2>1, <2>2, <3>1, ReadModified, SMTT(60)
  <2>5. ~Older(g, c)
    BY <1>0, <1>1, <1>4, <2>1, <2>2, SMTT(60) DEF Older
  <2>6. ~IsLocalAct(c.act)
    BY <1>1, <2>2 DEF IsLocalAct
  <2>7. CASE Refused(g, c) /\ Ignored(s, n)
    <3>1. Eqv(now, V[x], V[L])
      <4>1. CASE g.lastmod # L
        BY <2>4, <2>7, <4>1
      <4>2. CASE g.lastmod = L
        <5>1. V[x] \in Record /\ L = x
          BY <1>0, <2>1, <4>2
        <5> QED BY <1>0, <5>1, EqvLaws
      <4> QED BY <4>1, <4>2
    <3>2. Nothing(V, A, s, n)
      BY <1>4, <3>1, SMTT(60) DEF Nothing
    <3> QED
      BY <1>0, <2>7, <3>2, IgnoredAgreed
  <2>8. CASE ~Refused(g, c) /\ SetGline(s, h) /\ Emit(s, n, ToAllBut(s, n, <<Full(op, h, m.force)>>))
    <3>1. h \in Record /\ op \in {"modify", m.op}
      BY <2>1, <2>2, ModifiedType
    <3>2. op \in {"modify", "+", "-"}
      BY <1>1, <3>1
    <3> DEFINE o == ToAllBut(s, n, <<Full(op, h, m.force)>>)
    <3>3. Served(V, V, A, s, n, o) /\ gl'[s] = h
      <4>1. SetGline(s, h) /\ Emit(s, n, o)
        BY <2>8
      <4> HIDE DEF h, o
      <4> QED BY <1>0, <4>1, ServedIs, ZenonT(60)
    <3>4. L > x
      <4>1. x # L
        BY <2>1, <2>2, <2>6, <2>8, SMTT(60) DEF Refused
      <4> QED BY <1>0, <1>1, <1>4, <4>1, SMTT(60)
    <3>5. m.force \/ h.expire <= now + MaxExpire
      BY <1>0, <1>1, <2>4, <2>8, SMTT(60)
    <3> HIDE DEF h, op
    <3>6. ASSUME NEW j \in 0..Age(s), Eqv(now, V[j], V[Age(s)])
          PROVE  Good(now, V, j, Full(op, h, m.force))
      <4> DEFINE w == Full(op, h, m.force)
      <4>1. w.op = op /\ w.force = m.force /\ w.rel = Remaining(h.expire) /\ w.lastmod = L
        BY <1>1, <2>4, <3>1, <3>2, FullIs
      <4>2. Remaining(h.expire) \in Int /\ (Remaining(h.expire) > 0 <=> m.rel > 0)
        <5>1. h.expire = m.rel + now
          BY <2>4
        <5>2. h.expire \in Int /\ (h.expire > now <=> m.rel > 0)
          BY <1>0, <1>1, <5>1, SMTT(60)
        <5> QED BY <5>2, RemainingIs, SMTT(60)
      <4> HIDE DEF w
      <4>3. ~(~w.force /\ w.rel <= 0)
        BY <1>1, <2>4, <2>8, <4>1, <4>2, SMTT(60)
      <4>j. j \in Nat /\ V[j] \in Record /\ V[x] \in Record /\ V[L] \in Record
        BY <1>0, <1>1, SMTT(60)
      <4>4. ASSUME w.op = "modify", w.rel > 0
            PROVE  V[j].lifetime > now /\ (Act(now, V[j]) <=> Act(now, V[L]))
        <5>1. m.rel > 0 /\ h.active = g.active
          BY <2>4, <4>1, <4>2, <4>4
        <5>2. V[j].lifetime = V[x].lifetime /\ V[x].lifetime = g.lifetime
          BY <2>1, <3>6 DEF Eqv
        <5>3. Act(now, V[j]) <=> Act(now, g)
          BY <1>0, <2>1, <3>6, <4>j, EqvLaws, SMTT(60)
        <5>4. Act(now, h) <=> Act(now, V[L])
          BY <1>0, <2>4, <3>1, <4>j, EqvLaws, SMTT(60)
        <5>5. Running(now, h)
          BY <1>0, <1>1, <2>4, <5>1, SMTT(60) DEF Running
        <5>6. Act(now, g) <=> g.active
          BY <2>1 DEF Act, Running
        <5>7. Act(now, h) <=> h.active
          BY <5>5 DEF Act
        <5>8. Act(now, V[j]) <=> Act(now, V[L])
          BY <5>1, <5>3, <5>4, <5>6, <5>7
        <5> QED
          BY <2>1, <5>2, <5>8
      <4>5. Good(now, V, j, w)
        BY <4>1, <4>3, <4>4, SMTT(60) DEF Good
      <4> QED
        BY <4>5 DEF w
    <3>7. s # A
      BY DownOne
    <3>8. h.lastmod \in Start..now /\ h.lastmod > Age(s) /\ h.lifetime > now
      BY <1>2, <2>4, <3>4, SMTT(60)
    <3>9. /\ Head(chan[n][s]).t = "GL" /\ Head(chan[n][s]).lastmod = h.lastmod
          /\ Eqv(now, h, V[h.lastmod])
      BY <2>4
    <3> QED
      BY <1>0, <1>1, <2>4, <3>1, <3>2, <3>3, <3>5, <3>6, <3>7, <3>8, <3>9, AcceptAgreed, ZenonT(60)
  <2> QED
    BY <2>2, <2>3, <2>5, <2>6, <2>7, <2>8, SMTT(60)
<1> QED
  BY <1>6, <1>8, <1>9

(* A neighbour farther from the author has sent the GL m: it is not new. *)
LEMMA ReadOlder ==
  ASSUME GlineAssumption, Tree, TypeOK, TypeOK', Paired, now <= Start + OneMonth,
         NEW A \in Servers, NEW V, Agreed(V, A), NEW s \in Servers, NEW n \in Servers,
         chan[n][s] # <<>>, ~Down(A, n, s),
         NEW m \in FullMsg, m.lastmod \in Start..now, m.lastmod <= Age(s),
         ms_gline_full(s, n, m), status' = status, now' = now
  PROVE  Agreed(V, A)'
<1> DEFINE g == gline_find(s)
           p == [act |-> m.op, expire |-> m.rel + now, lastmod |-> m.lastmod,
                 lifetime |-> m.lifetime, reason |-> m.reason, force |-> m.force]
<1>0. Recorded(V, s) /\ Age(s) \in Nat /\ m.lastmod \in Nat /\ m.lastmod # 0
  BY AgeType DEF Agreed, FullMsg, GlineAssumption
<1>1. Age(s) # 0
  BY <1>0
<1>2. g # None /\ g.lastmod = Age(s)
  BY <1>0, <1>1, FindIs
<1>3. gline_modify(s, n, g, p)
  BY <1>2 DEF ms_gline_full
<1>4. p.act = m.op /\ p.lastmod = m.lastmod /\ m.op \in {"modify", "+", "-"}
  BY DEF FullMsg
<1>5. Nothing(V, A, s, n)
  BY DEF Nothing
<1> HIDE DEF p
<1>6. Older(g, p) \/ Refused(g, p)
  BY <1>0, <1>2, <1>4 DEF Older, Refused, IsLocalAct
<1>7. gline_resend(s, n, g) \/ Ignored(s, n)
  BY <1>3, <1>6 DEF gline_modify
<1> QED
  BY <1>2, <1>5, <1>7, ResendAgreed, IgnoredAgreed

(* s reads a GL. *)
LEMMA ReadAgreed ==
  ASSUME GlineAssumption, Tree, TypeOK, TypeOK', Paired, now <= Start + OneMonth,
         NEW A \in Servers, NEW V, Agreed(V, A), NEW s \in Servers, NEW n \in Servers,
         chan[n][s] # <<>>, status[s][n] # "none", Head(chan[n][s]).t = "GL",
         ms_gline_full(s, n, Head(chan[n][s])), status' = status, now' = now
  PROVE  Agreed(V, A)'
<1> DEFINE m == Head(chan[n][s])
<1>0. chan[n][s] \in Seq(Msg)
  BY DEF TypeOK
<1>1. m \in Msg /\ 1 \in 1..Len(chan[n][s]) /\ m = chan[n][s][1]
  BY <1>0, TailIs
<1>2. m \in FullMsg
  BY <1>1, MsgIs
<1>3. Fine(V, A, n, s, m)
  BY <1>1 DEF Agreed, Sent
<1>4. Fits(now, V, m) /\ (Down(A, s, n) => m.lastmod <= Age(s))
  BY <1>3, SMTT(60) DEF Fine
<1>5. m.lastmod \in Start..now
  BY <1>4 DEF Fits
<1>6. Down(A, s, n) \/ Down(A, n, s)
  <2>1. s # n /\ Via[s][n] = n
    BY DEF Paired, Ends
  <2> QED
    BY <2>1, DownOne
<1>a. m = Head(chan[n][s]) /\ m.t = "GL" /\ ms_gline_full(s, n, m)
  OBVIOUS
<1> HIDE DEF m
<1>7. CASE Down(A, n, s)
  BY <1>a, <1>2, <1>4, <1>7, ReadNewer
<1>8. CASE Down(A, s, n) /\ ~Down(A, n, s)
  BY <1>a, <1>2, <1>4, <1>5, <1>8, ReadOlder
<1> QED
  BY <1>6, <1>7, <1>8

(* A change for this server only keeps the version. *)
LEMMA SingleKeeps ==
  ASSUME GlineAssumption, TypeOK, now <= Start + OneMonth, NEW V, NEW s \in Servers, NEW n \in Servers, Recorded(V, s),
         NEW op \in {"+", "-", ">", "<"}, NEW expire, Single(s, n, op, expire)
  PROVE  Kept(s) /\ Emit(s, n, Silent) /\ \E g : SetGline(s, g)
<1> DEFINE p == [act |-> op, expire |-> 0, lastmod |-> 0, lifetime |-> 0, reason |-> None,
                 force |-> FALSE]
           g == gline_find(s)
<1>1. \/ SetGline(s, g) /\ Emit(s, n, Silent)
      \/ op \in {">", "<"} /\ g # None /\ gline_modify(s, n, g, p)
  BY DEF Single, local_add, local_destroy, Ignored
<1>2. p.act = op /\ p.expire = 0 /\ p.lifetime = 0 /\ p.reason = None /\ p \in Change
  BY DEF Change
<1>3. CASE SetGline(s, g) /\ Emit(s, n, Silent)
  <2>1. gl'[s] = g
    BY <1>3 DEF SetGline, TypeOK
  <2> QED
    BY <1>3, <2>1, Zenon DEF Kept
<1>4. CASE op \in {">", "<"} /\ g # None /\ gline_modify(s, n, g, p)
  <2> DEFINE h == Modified(g, p)
  <2>1. g \in Record /\ g.lifetime > now
    BY <1>4, FindIs
  <2>2. g.lifetime \in Int /\ now \in Nat /\ g.expire \in Int
    BY <2>1 DEF TypeOK, Record
  <2>3. IsLocalAct(p.act)
    BY <1>2, <1>4 DEF IsLocalAct
  <2> HIDE DEF p, g
  <2>4. \/ SetGline(s, g) /\ Emit(s, n, Silent)
        \/ SetGline(s, h) /\ Emit(s, n, Silent)
    BY <1>4, <2>3 DEF gline_modify, Older, Ignored, g
  <2>5. CASE SetGline(s, g) /\ Emit(s, n, Silent)
    BY <1>3, <2>5
  <2>6. CASE SetGline(s, h) /\ Emit(s, n, Silent)
    <3>1. gl'[s] = h
      BY <2>6 DEF SetGline, TypeOK
    <3>2. h \in Record /\ NewAction(g, p) \in {"modify", op}
      BY <1>2, <2>1, ModifiedType
    <3>3. NewExpire(g, p) = 0 /\ NewReason(g, p) = g.reason
      BY <1>2 DEF NewExpire, NewReason
    <3>4. NewLifetime(g, p) = g.lifetime
      BY <1>2, <2>1, <2>2, <3>3 DEF NewLifetime, Max
    <3>5. /\ h.lastmod = g.lastmod /\ h.lifetime = g.lifetime /\ h.expire = g.expire
          /\ h.reason = g.reason /\ h.active = g.active
      BY <1>4, <2>3, <3>2, <3>3, <3>4 DEF Modified
    <3>6. Kept(s)
      BY <1>4, <3>1, <3>2, <3>5 DEF Kept, g
    <3> QED
      BY <2>6, <3>6
  <2> QED
    BY <2>4, <2>5, <2>6
<1> QED
  BY <1>1, <1>3, <1>4

(* A change for one server is applied. *)
LEMMA SingleAgreed ==
  ASSUME GlineAssumption, Tree, TypeOK, TypeOK', Paired, now <= Start + OneMonth,
         NEW A \in Servers, NEW V, Agreed(V, A), NEW s \in Servers, NEW n \in Servers,
         NEW op \in {"+", "-", ">", "<"}, NEW expire, Single(s, n, op, expire),
         status' = status, now' = now, n # s => chan[n][s] # <<>> /\ Head(chan[n][s]).t = "ONE"
  PROVE  Agreed(V, A)'
<1>1. Recorded(V, s)
  BY DEF Agreed
<1>2. Kept(s) /\ Emit(s, n, Silent) /\ \E g : SetGline(s, g)
  BY <1>1, SingleKeeps
<1>3. Served(V, V, A, s, n, Silent)
  BY <1>2, ServedIs
<1>4. Nothing(V, A, s, n)
  BY DEF Nothing, Down
<1> QED
  BY <1>2, <1>3, <1>4, SilentAgreed

(* A change for one server is passed on. *)
LEMMA RoutedAgreed ==
  ASSUME GlineAssumption, Tree, TypeOK, TypeOK', Paired, now <= Start + OneMonth,
         NEW A \in Servers, NEW V, Agreed(V, A), NEW s \in Servers, NEW n \in Servers,
         NEW y \in Servers, NEW m \in Msg, m.t = "ONE",
         Emit(s, n, Silent) \/ Emit(s, n, To(y, <<m>>)), gl' = gl,
         status' = status, now' = now, n # s => chan[n][s] # <<>> /\ Head(chan[n][s]).t = "ONE"
  PROVE  Agreed(V, A)'
<1>1. Kept(s)
  BY DEF Kept
<1>2. Nothing(V, A, s, n)
  BY DEF Nothing, Down
<1>3. CASE Emit(s, n, Silent)
  <2>1. Served(V, V, A, s, n, Silent)
    BY <1>3 DEF Served
  <2> QED
    BY <1>1, <1>2, <2>1, SilentAgreed
<1>4. CASE Emit(s, n, To(y, <<m>>))
  <2>1. Served(V, V, A, s, n, To(y, <<m>>))
    BY <1>4 DEF Served
  <2>2. \A x \in Servers : Down(A, s, x) /\ status'[s][x] \in Linked => status[s][x] \in Linked
    OBVIOUS
  <2> QED
    BY <1>1, <1>2, <2>1, <2>2, OneAgreed
<1> QED
  BY <1>3, <1>4

(* The messages of two queues, one behind the other, again. *)
LEMMA CatEach ==
  ASSUME NEW q \in Seq(Msg), NEW r \in Seq(Msg), NEW S,
         \A i \in 1..Len(q) : q[i] \in S, \A i \in 1..Len(r) : r[i] \in S
  PROVE  \A i \in 1..Len(q \o r) : (q \o r)[i] \in S
<1> SUFFICES ASSUME NEW i \in 1..Len(q \o r) PROVE (q \o r)[i] \in S
  OBVIOUS
<1>1. CASE i \in 1..Len(q)
  BY <1>1, CatIs
<1>2. CASE i - Len(q) \in 1..Len(r) /\ (q \o r)[i] = r[i - Len(q)]
  BY <1>2
<1> QED
  BY <1>1, <1>2, CatIs

(* server_estab *)
Burst(s, n) == (Greeting(s, n) \o gline_burst(s)) \o <<M("EOB")>>

(* What a burst says of the G-line: the record of s, if there is one. *)
LEMMA BurstSays ==
  ASSUME TypeOK, NEW s \in Servers, NEW n \in Servers
  PROVE  /\ Burst(s, n) \in Seq(Msg)
         /\ \A i \in 1..Len(Burst(s, n)) :
              \/ Burst(s, n)[i].t \notin {"GL", "SHORT"}
              \/ gline_find(s) # None /\ Burst(s, n)[i] = Echo(s)
         /\ gline_find(s) # None => Has(Burst(s, n), {"GL"})
<1> DEFINE q == Greeting(s, n)
           r == gline_burst(s)
           e == <<M("EOB")>>
           g == gline_find(s)
           S == {m \in Msg : m.t \notin {"GL", "SHORT"} \/ (g # None /\ m = Echo(s))}
<1>1. q \in Seq(Msg) /\ r \in Seq(Msg) /\ e \in Seq(Msg)
  BY BurstIs
<1>2. \A i \in 1..Len(e) : e[i] \in S
  BY MsgIs
<1>3. \A i \in 1..Len(q) : q[i] \in S
  <2>1. M("HELLO") \in S
    BY MsgIs
  <2> HIDE DEF S
  <2>2. CASE q = <<M("HELLO")>>
    BY <2>1, <2>2
  <2>3. CASE q = <<>>
    BY <2>3
  <2> QED
    BY <2>2, <2>3 DEF Greeting
<1>4. (\A i \in 1..Len(r) : r[i] \in S) /\ (g # None => Has(r, {"GL"}))
  <2>1. CASE g = None
    BY <2>1 DEF gline_burst
  <2>2. CASE g # None
    <3>1. r = <<Echo(s)>>
      BY <2>2 DEF gline_burst, Echo
    <3>2. g \in Record /\ Sign(g) \in {"modify", "+", "-"}
      BY <2>2, FindType DEF Sign
    <3>3. Echo(s) \in Msg /\ Echo(s).t = "GL"
      BY <3>2, FullIs, ZenonT(60) DEF Echo
    <3>4. Echo(s) \in S
      BY <2>2, <3>3
    <3> HIDE DEF S, r
    <3>5. \A i \in 1..Len(r) : r[i] \in S
      BY <3>1, <3>4
    <3>6. Has(r, {"GL"})
      BY <3>1, <3>3, OneHas
    <3> QED BY <3>5, <3>6
  <2> QED
    BY <2>1, <2>2
<1> HIDE DEF q, r, e, S
<1> DEFINE w == q \o r
<1>5. w \in Seq(Msg) /\ (\A i \in 1..Len(w) : w[i] \in S) /\ (g # None => Has(w, {"GL"}))
  BY <1>1, <1>3, <1>4, CatIs, CatEach, HasCat
<1>6. Burst(s, n) = w \o e
  BY DEF Burst, q, r, e
<1> HIDE DEF w
<1>7. w \o e \in Seq(Msg) /\ (\A i \in 1..Len(w \o e) : (w \o e)[i] \in S) /\ (g # None => Has(w \o e, {"GL"}))
  BY <1>1, <1>2, <1>5, CatIs, CatEach, HasCat
<1>8. \A i \in 1..Len(Burst(s, n)) : Burst(s, n)[i] \in S
  BY <1>6, <1>7
<1>9. \A i \in 1..Len(Burst(s, n)) :
              \/ Burst(s, n)[i].t \notin {"GL", "SHORT"}
              \/ gline_find(s) # None /\ Burst(s, n)[i] = Echo(s)
  BY <1>8 DEF S
<1> QED
  BY <1>6, <1>7, <1>9

(* A link is established: s bursts. *)
LEMMA EstabAgreed ==
  ASSUME GlineAssumption, Tree, TypeOK, TypeOK', Paired, now <= Start + OneMonth,
         NEW A \in Servers, NEW V, Agreed(V, A), NEW s \in Servers, NEW n \in Servers, n # s,
         chan[n][s] # <<>>, status[s][n] # "none", Head(chan[n][s]).t = "HELLO",
         server_estab(s, n), now' = now
  PROVE  Agreed(V, A)'
<1> DEFINE w == Burst(s, n)
           o == To(n, w)
<1>0. Recorded(V, s)
  BY DEF Agreed
<1>a. gline_find(s) = None <=> Age(s) = 0
  BY <1>0, FindIs
<1>1. w \in Seq(Msg) /\ (gline_find(s) # None => Has(w, {"GL"}))
  BY BurstSays
<1>2. \A i \in 1..Len(w) : w[i].t \notin {"GL", "SHORT"} \/ (gline_find(s) # None /\ w[i] = Echo(s))
  BY BurstSays
<1>3. Emit(s, n, o) /\ SetGline(s, gline_find(s)) /\ status' = [status EXCEPT ![s][n] = "burst"]
  BY DEF server_estab, Burst, Greeting
<1> HIDE DEF w
<1>4. \A x \in Servers : o[x] = IF x = n THEN w ELSE <<>>
  BY WritesIs
<1>b. o \in Writes
  BY <1>1, WritesType
<1> HIDE DEF o
<1>5. gl'[s] = gline_find(s) /\ \A x \in Servers : x # s => gl'[x] = gl[x]
  BY <1>3 DEF SetGline, TypeOK
<1>6. \A x, y \in Servers : ~(x = s /\ y = n) => status'[x][y] = status[x][y]
  BY <1>3 DEF TypeOK
<1>7. Served(V, V, A, s, n, o)
  BY <1>3, <1>5, <1>6 DEF Served
<1>8. Kept(s)
  BY <1>5 DEF Kept
<1>9. \A x \in Servers : \A j \in 1..Len(o[x]) :
        o[x][j].t \notin {"GL", "SHORT"} \/ (Age(s) # 0 /\ o[x][j] = Echo(s))
  BY <1>2, <1>4, <1>a
<1>10. \A x \in Servers : Down(A, s, x) /\ status'[s][x] \in Linked =>
        Has(o[x], {"GL"}) \/ status[s][x] \in Linked \/ Age(s) = 0
  BY <1>1, <1>4, <1>6, <1>a, SMTT(60)
<1>11. Down(A, n, s) /\ Head(chan[n][s]).t = "GL" =>
         /\ Age(s) <= Head(chan[n][s]).lastmod
         /\ Eqv(now, V[Age(s)], V[Head(chan[n][s]).lastmod])
  OBVIOUS
<1> QED
  BY <1>b, <1>7, <1>8, <1>9, <1>10, <1>11, KeepAgreed

(* The end of a burst, its acknowledgement, the end of a link. *)
LEMMA BurstFlagAgreed ==
  ASSUME GlineAssumption, Tree, TypeOK, TypeOK', Paired, now <= Start + OneMonth,
         NEW A \in Servers, NEW V, Agreed(V, A), NEW s \in Servers, NEW n \in Servers, n # s,
         chan[n][s] # <<>>, status[s][n] # "none", Head(chan[n][s]).t \in {"CLOSE", "EOB", "EOB_ACK"},
         peer_closed(s, n) \/ ms_end_of_burst(s, n) \/ ms_end_of_burst_ack(s, n), now' = now
  PROVE  Agreed(V, A)'
<1>1. status[s][n] \in Linked
  BY StatusIs DEF Paired, Ends
<1>2. \A x, y \in Servers : ~(x = s /\ y = n) => status'[x][y] = status[x][y]
  <2>1. \/ status' = [status EXCEPT ![s][n] = "none"]
        \/ status' = [status EXCEPT ![s][n] = "ack"]
        \/ status' = [status EXCEPT ![s][n] = IF @ = "ack" THEN "server" ELSE @]
    BY DEF peer_closed, ms_end_of_burst, ms_end_of_burst_ack
  <2>2. status \in [Servers -> [Servers -> {"none", "unknown", "handshake"} \cup Linked]]
    BY DEF TypeOK
  <2> QED
    BY <2>1, <2>2
<1>3. gl' = gl
  BY DEF peer_closed, ms_end_of_burst, ms_end_of_burst_ack
<1>4. Kept(s)
  BY <1>3 DEF Kept
<1>5. Nothing(V, A, s, n)
  BY DEF Nothing
<1>6. \A x \in Servers : Down(A, s, x) /\ status'[s][x] \in Linked => status[s][x] \in Linked
  BY <1>1, <1>2, SMTT(60)
<1> DEFINE m == M("EOB_ACK")
<1>7. m \in Msg /\ m.t = "EOB_ACK"
  BY MsgIs
<1>8. Emit(s, n, Silent) \/ Emit(s, n, To(n, <<m>>))
  BY DEF peer_closed, ms_end_of_burst, ms_end_of_burst_ack
<1> HIDE DEF m
<1>9. CASE Emit(s, n, To(n, <<m>>))
  <2>1. Served(V, V, A, s, n, To(n, <<m>>))
    BY <1>2, <1>3, <1>9 DEF Served
  <2> QED
    BY <1>4, <1>5, <1>6, <1>7, <2>1, OneAgreed
<1>10. CASE Emit(s, n, Silent)
  <2>1. Served(V, V, A, s, n, Silent)
    BY <1>2, <1>3, <1>10 DEF Served
  <2>2. Silent \in Writes /\ \A x \in Servers : Silent[x] = <<>>
    BY SilentType DEF Silent
  <2>3. \A x \in Servers : \A j \in 1..Len(Silent[x]) :
          Silent[x][j].t \notin {"GL", "SHORT"} \/ (Age(s) # 0 /\ Silent[x][j] = Echo(s))
    BY <2>2
  <2>4. \A x \in Servers : Down(A, s, x) /\ status'[s][x] \in Linked =>
          Has(Silent[x], {"GL"}) \/ status[s][x] \in Linked \/ Age(s) = 0
    BY <1>6
  <2>5. Down(A, n, s) /\ Head(chan[n][s]).t = "GL" =>
         /\ Age(s) <= Head(chan[n][s]).lastmod
         /\ Eqv(now, V[Age(s)], V[Head(chan[n][s]).lastmod])
    OBVIOUS
  <2> QED
    BY <1>4, <2>1, <2>2, <2>3, <2>4, <2>5, KeepAgreed
<1> QED
  BY <1>8, <1>9, <1>10

(* A message is read. *)
LEMMA ReceiveAgreed ==
  ASSUME GlineAssumption, Tree, TypeOK, TypeOK', Paired, now <= Start + OneMonth,
         NEW A \in Servers, NEW V, Agreed(V, A), NEW s \in Servers, NEW n \in Servers, Receive(s, n)
  PROVE  Agreed(V, A)'
<1> DEFINE m == Head(chan[n][s])
<1>0. /\ chan[n][s] # <<>> /\ status[s][n] # "none" /\ now' = now /\ n # s
      /\ chan[n][s] \in Seq(Msg)
  BY DEF Receive, TypeOK, Paired, Ends
<1>1. m \in Msg /\ 1 \in 1..Len(chan[n][s]) /\ m = chan[n][s][1]
  BY <1>0, TailIs
<1>2. m.t # "SHORT"
  BY <1>0, <1>1 DEF Agreed, Sent, Fine
<1>3. CASE m.t = "HELLO" /\ server_estab(s, n)
  BY <1>0, <1>3, EstabAgreed
<1>4. CASE \/ m.t = "CLOSE" /\ peer_closed(s, n)
           \/ m.t = "EOB" /\ ms_end_of_burst(s, n)
           \/ m.t = "EOB_ACK" /\ ms_end_of_burst_ack(s, n)
  BY <1>0, <1>4, BurstFlagAgreed
<1>5. CASE m.t = "GL" /\ ms_gline_full(s, n, m) /\ status' = status
  BY <1>0, <1>5, ReadAgreed
<1>6. CASE m.t = "ONE" /\ ms_gline_one(s, n, m) /\ status' = status
  <2>1. m.op \in {"+", "-", ">", "<"} /\ m.target \in Servers
    BY <1>1, <1>6, MsgIs DEF OneMsg
  <2>2. Via[s][m.target] \in Servers
    BY <2>1, SMTT(60) DEF GlineAssumption
  <2>3. \/ Single(s, n, m.op, m.rel + now)
        \/ (Emit(s, n, Silent) \/ Emit(s, n, To(Via[s][m.target], <<m>>))) /\ gl' = gl
    BY <1>6 DEF ms_gline_one
  <2>4. CASE Single(s, n, m.op, m.rel + now)
    BY <1>0, <1>6, <2>1, <2>4, SingleAgreed
  <2>5. CASE (Emit(s, n, Silent) \/ Emit(s, n, To(Via[s][m.target], <<m>>))) /\ gl' = gl
    <3>1. m.t = "ONE" /\ Head(chan[n][s]).t = "ONE"
      BY <1>6
    <3> DEFINE y == Via[s][m.target]
    <3>2. y \in Servers /\ (Emit(s, n, Silent) \/ Emit(s, n, To(y, <<m>>)))
      BY <2>2, <2>5
    <3> HIDE DEF m, y
    <3> QED
      BY <1>0, <1>1, <1>6, <2>5, <3>1, <3>2, RoutedAgreed
  <2> QED
    BY <2>3, <2>4, <2>5
<1> QED
  BY <1>2, <1>3, <1>4, <1>5, <1>6 DEF Receive
-----------------------------------------------------------------------------
(* The author makes a version: what it is, and that every server behind    *)
(* the links of the author is brought to it.                               *)
LEMMA AuthorAgreed ==
  ASSUME GlineAssumption, Tree, TypeOK, TypeOK', Paired,
         NEW A \in Servers, NEW V, Agreed(V, A),
         NEW h \in Record, NEW op \in {"modify", "+", "-"}, NEW force \in BOOLEAN,
         SetGline(A, h), Emit(A, A, ToAllBut(A, A, <<Full(op, h, force)>>)),
         status' = status, now' = now,
         h.lastmod = now, now > Age(A), h.lifetime > now, h.lifetime >= h.expire,
         h.lifetime >= V[Age(A)].lifetime,
         op # "modify" => (op = "+" <=> h.active),
         force \/ h.expire <= now + MaxExpire,
         A \in Opers => h.expire <= now + MaxExpire,
         op = "modify" /\ h.expire > now =>
           V[Age(A)].lifetime > now /\ (Act(now, V[Age(A)]) <=> h.active),
         ~force /\ h.expire <= now => Eqv(now, V[Age(A)], h)
  PROVE  \E W : Agreed(W, A)'
<1>0. Versions(V) /\ V \in [Nat -> Record] /\ now \in Nat /\ now >= Start /\ Start \in Nat
  BY DEF Agreed, Versions, TypeOK, GlineAssumption
<1>1. Age(A) \in Nat
  BY AgeType
<1>2. PICK a \in Nat : a = Age(A)
  BY <1>1
<1> DEFINE W == [k \in Nat |-> IF k <= a THEN V[k] ELSE h]
<1>3. W \in [Nat -> Record] /\ \A k \in Nat : W[k] = IF k <= a THEN V[k] ELSE h
  BY <1>0
<1> HIDE DEF W
<1>4. \A k \in 0..a : W[k] = V[k]
  BY <1>3
<1>5. W[now] = h
  BY <1>0, <1>2, <1>3
<1>6. Versions(W)
  <2>1. W[0] = V[0]
    BY <1>4
  <2>2. W[0].lifetime = 0 /\ W[0].expire <= 0
    BY <1>0, <2>1 DEF Versions
  <2>3. ASSUME NEW k \in Nat PROVE W[k].lifetime >= W[k].expire
    <3>1. W[k] = V[k] \/ W[k] = h
      BY <1>3
    <3>2. V[k].lifetime >= V[k].expire
      BY <1>0 DEF Versions
    <3> QED BY <3>1, <3>2
  <2>4. ASSUME NEW j \in Nat, NEW k \in Nat, j <= k PROVE W[j].lifetime <= W[k].lifetime
    <3>1. V[j].lifetime <= V[k].lifetime
      BY <1>0, <2>4 DEF Versions
    <3>2. j <= a => V[j].lifetime <= V[a].lifetime
      BY <1>0 DEF Versions
    <3>3. V[j] \in Record /\ V[a] \in Record
      BY <1>0
    <3>4. V[j].lifetime \in Int /\ V[a].lifetime \in Int /\ h.lifetime \in Int
      BY <3>3 DEF Record
    <3>5. h.lifetime >= V[a].lifetime
      BY <1>2
    <3>6. j <= a => V[j].lifetime <= h.lifetime
      BY <3>2, <3>4, <3>5
    <3>7. CASE k <= a
      <4>1. j <= a
        BY <2>4, <3>7
      <4> QED BY <1>3, <3>1, <3>7, <4>1
    <3>8. CASE ~(k <= a) /\ j <= a
      <4>1. W[j] = V[j] /\ W[k] = h
        BY <1>3, <3>8
      <4> QED BY <3>6, <3>8, <4>1
    <3>9. CASE ~(k <= a) /\ ~(j <= a)
      <4>1. W[j] = h /\ W[k] = h
        BY <1>3, <3>9
      <4> QED BY <3>4, <4>1
    <3> QED
      BY <3>7, <3>8, <3>9
  <2> QED
    BY <1>3, <2>2, <2>3, <2>4 DEF Versions
<1>7. \A k \in 0..Age(A) : W[k] = V[k]
  BY <1>2, <1>4
<1> DEFINE o == ToAllBut(A, A, <<Full(op, h, force)>>)
<1>8. Served(V, W, A, A, A, o) /\ gl'[A] = h
  <2>1. Emit(A, A, o)
    OBVIOUS
  <2> HIDE DEF o
  <2> QED BY <2>1, ServedIs
<1>9. h.lastmod \in Start..now /\ h.lastmod > Age(A)
  BY <1>0
<1>10. Eqv(now, h, W[h.lastmod])
  <2>1. now \in Int /\ Eqv(now, h, h)
    BY <1>0, EqvLaws
  <2> QED BY <1>5, <2>1
<1>11. ASSUME NEW k \in 0..Age(A), Eqv(now, V[k], V[Age(A)])
       PROVE  Good(now, W, k, Full(op, h, force))
  <2> DEFINE m == Full(op, h, force)
             u == V[Age(A)]
  <2>1. m.op = op /\ m.force = force /\ m.lastmod = now /\ m.rel = Remaining(h.expire)
    BY FullIs
  <2> HIDE DEF m
  <2>2. h.expire \in Int /\ now \in Int
    BY <1>0 DEF Record
  <2>3. Remaining(h.expire) \in Int /\ (Remaining(h.expire) > 0 <=> h.expire > now)
    BY <2>2, RemainingIs
  <2>4. W[k] = V[k] /\ W[now] = h /\ V[k] \in Record /\ u \in Record
    BY <1>0, <1>1, <1>5, <1>7
  <2> HIDE DEF u
  <2>5. ASSUME op = "modify", m.rel > 0 PROVE V[k].lifetime > now /\ (Act(now, V[k]) <=> Act(now, h))
    <3>1. h.expire > now
      BY <2>1, <2>3, <2>5
    <3>2. u.lifetime > now /\ (Act(now, u) <=> h.active)
      BY <2>5, <3>1 DEF u
    <3>3. V[k].lifetime = u.lifetime
      BY <1>11 DEF Eqv, u
    <3>4. Act(now, V[k]) <=> Act(now, u)
      BY <1>11, <2>2, <2>4, EqvLaws DEF u
    <3>5. Act(now, h) <=> h.active
      BY <3>1 DEF Act, Running
    <3> QED
      BY <3>2, <3>3, <3>4, <3>5
  <2>6. ASSUME ~force, m.rel <= 0 PROVE Eqv(now, V[k], h)
    <3>1. h.expire <= now
      BY <2>1, <2>2, <2>3, <2>6
    <3>2. Eqv(now, u, h) /\ Eqv(now, V[k], u)
      BY <1>11, <2>6, <3>1 DEF u
    <3> QED
      BY <2>2, <2>4, <3>2, EqvLaws
  <2>7. Good(now, W, k, m)
    BY <2>1, <2>4, <2>5, <2>6 DEF Good
  <2> QED
    BY <2>7 DEF m
<1>12. Agreed(W, A)'
  BY <1>6, <1>7, <1>8, <1>9, <1>10, <1>11, AcceptAgreed, ZenonT(60)
<1> QED
  BY <1>12

(* A change by the author: an operator's is limited in time, one of the    *)
(* services says how long its record lives.                                *)
Authors(A, p) ==
  /\ p \in Change /\ p.act \in {"modify", "+", "-"} /\ p.lastmod = now
  /\ p.force => p.lifetime > now /\ p.lifetime >= p.expire /\ A \notin Opers
  /\ ~p.force => p.lifetime = 0 /\ A \in Opers

(* gline_add by the author. *)
LEMMA AuthorAdds ==
  ASSUME GlineAssumption, Tree, TypeOK, TypeOK', Paired, now <= Start + OneMonth,
         NEW A \in Servers, NEW V, Agreed(V, A), NEW p, Authors(A, p), p.act # "modify",
         p.reason \in Reasons, gline_find(A) = None, gline_add(A, A, p), status' = status, now' = now
  PROVE  \E W : Agreed(W, A)'
<1> DEFINE h == [active |-> p.act = "+" /\ p.expire > now, state |-> "global",
                 expire |-> p.expire, lastmod |-> p.lastmod,
                 lifetime |-> IF p.lifetime = 0 THEN p.expire ELSE p.lifetime,
                 reason |-> p.reason]
           op == Sign(h)
<1>0. /\ now \in Nat /\ now > 0 /\ MaxExpire \in Nat /\ p.expire \in Int /\ p.lifetime \in Int /\ p.lastmod = now
      /\ p.force \in BOOLEAN /\ Recorded(V, A)
  <2>1. now \in Nat /\ now >= Start /\ Start \in Nat \ {0, 1} /\ MaxExpire \in Nat
    BY DEF TypeOK, GlineAssumption
  <2>2. now > 0
    BY <2>1
  <2> QED BY <2>1, <2>2 DEF Authors, Change, Agreed
<1>1. \/ BadExpire(p) /\ Ignored(A, A)
      \/ /\ ~BadExpire(p) /\ SetGline(A, h)
         /\ Emit(A, A, ToAllBut(A, A, <<Full(op, h, p.force)>>))
  BY DEF gline_add
<1>2. CASE Ignored(A, A)
  <2>1. Nothing(V, A, A, A)
    BY DEF Nothing, Down
  <2>2. Agreed(V, A)'
    BY <1>2, <2>1, IgnoredAgreed
  <2> QED BY <2>2
<1>3. CASE ~BadExpire(p) /\ SetGline(A, h) /\ Emit(A, A, ToAllBut(A, A, <<Full(op, h, p.force)>>))
  <2>1. h \in Record
    BY <1>0 DEF Record
  <2>2. /\ h.active = (p.act = "+" /\ p.expire > now) /\ h.expire = p.expire /\ h.lastmod = now
        /\ h.lifetime = (IF p.lifetime = 0 THEN p.expire ELSE p.lifetime)
    BY <1>0
  <2>3. Age(A) = 0
    BY <1>0, FindIs
  <2>4. ~p.force => p.expire > now /\ p.expire <= now + MaxExpire
    BY <1>0, <1>3 DEF BadExpire
  <2>5. V[Age(A)].lifetime = 0
    BY <2>3 DEF Agreed, Versions
  <2>6. op \in {"modify", "+", "-"} /\ op # "modify" /\ (op = "+" <=> h.active)
    BY DEF Sign
  <2> HIDE DEF h, op
  <2>7. h.lifetime > now /\ h.lifetime >= h.expire /\ h.lifetime >= V[Age(A)].lifetime
    <3>1. CASE p.force
      <4>1. p.lifetime > now /\ p.lifetime >= p.expire
        BY <3>1 DEF Authors
      <4> QED BY <1>0, <2>2, <2>5, <4>1
    <3>2. CASE ~p.force
      <4>1. p.lifetime = 0
        BY <3>2 DEF Authors
      <4> QED BY <1>0, <2>2, <2>4, <2>5, <3>2, <4>1
    <3> QED BY <3>1, <3>2
  <2>8. (p.force \/ h.expire <= now + MaxExpire) /\ (A \in Opers => h.expire <= now + MaxExpire)
    BY <2>2, <2>4 DEF Authors
  <2>9. ~p.force /\ h.expire <= now => Eqv(now, V[Age(A)], h)
    BY <1>0, <2>2, <2>4
  <2>10. op = "modify" /\ h.expire > now => V[Age(A)].lifetime > now /\ (Act(now, V[Age(A)]) <=> h.active)
    BY <2>6
  <2>11. now > Age(A) /\ h.lastmod = now
    BY <1>0, <2>2, <2>3
  <2> QED
    BY <1>0, <1>3, <2>1, <2>6, <2>7, <2>8, <2>9, <2>10, <2>11, AuthorAgreed
<1> QED
  BY <1>1, <1>2, <1>3

(* gline_modify by the author. *)
LEMMA AuthorModifies ==
  ASSUME GlineAssumption, Tree, TypeOK, TypeOK', Paired, now <= Start + OneMonth,
         NEW A \in Servers, NEW V, Agreed(V, A), NEW p, Authors(A, p),
         gline_find(A) # None, gline_modify(A, A, gline_find(A), p), status' = status, now' = now
  PROVE  \E W : Agreed(W, A)'
<1> DEFINE g == gline_find(A)
           u == V[Age(A)]
           h == Modified(g, p)
           op == NewAction(g, p)
           e == NewExpire(g, p)
<1>0. /\ now \in Nat /\ now \in Int /\ now > 0 /\ MaxExpire \in Nat /\ p \in Change
      /\ p.expire \in Int /\ p.lifetime \in Int
      /\ p.lastmod = now /\ p.force \in BOOLEAN /\ p.act \in {"modify", "+", "-"}
  <2>1. now \in Nat /\ now >= Start /\ Start \in Nat \ {0, 1} /\ MaxExpire \in Nat
    BY DEF TypeOK, GlineAssumption
  <2>2. now > 0 /\ now \in Int
    BY <2>1
  <2> QED BY <2>1, <2>2 DEF Authors, Change
<1>a. /\ Versions(V) /\ V \in [Nat -> Record] /\ Recorded(V, A) /\ Limited(A) /\ Age(A) \in Nat
      /\ u \in Record
  BY AgeType DEF Agreed, Versions
<1>1. /\ g \in Record /\ g.lastmod = Age(A) /\ Age(A) \in Start..now /\ g.lifetime > now
      /\ g.expire = gl[A].expire /\ (g.active => g.expire > now) /\ Eqv(now, g, u)
  BY <1>a, FindIs
<1>2. \/ Older(g, p) /\ gline_resend(A, A, g)
      \/ ~Older(g, p) /\ Refused(g, p) /\ Ignored(A, A)
      \/ /\ ~Older(g, p) /\ ~Refused(g, p) /\ SetGline(A, h)
         /\ Emit(A, A, IF IsLocalAct(p.act) THEN Silent ELSE ToAllBut(A, A, <<Full(op, h, p.force)>>))
  BY DEF gline_modify
<1>3. ~IsLocalAct(p.act)
  BY <1>0 DEF IsLocalAct
<1> HIDE DEF g
<1>4. ~Older(g, p)
  BY <1>0, <1>1 DEF Older
<1>5. CASE Ignored(A, A)
  <2>1. Nothing(V, A, A, A)
    BY DEF Nothing, Down
  <2>2. Agreed(V, A)'
    BY <1>5, <2>1, IgnoredAgreed
  <2> QED BY <2>2
<1>6. CASE ~Refused(g, p) /\ SetGline(A, h) /\ Emit(A, A, ToAllBut(A, A, <<Full(op, h, p.force)>>))
  <2>1. h \in Record /\ op \in {"modify", p.act}
    BY <1>0, <1>1, ModifiedType
  <2>2. op \in {"modify", "+", "-"}
    BY <1>0, <2>1
  <2>3. g.expire \in Int /\ g.lifetime \in Int /\ u.expire \in Int /\ u.lifetime \in Int
        /\ g.active \in BOOLEAN
    BY <1>a, <1>1 DEF Record
  <2>4. e = IF p.expire = g.expire THEN 0 ELSE p.expire
    BY DEF NewExpire
  <2>5. NewLifetime(g, p) = Max(Max(p.lifetime, g.lifetime), e)
    BY DEF NewLifetime
  <2>6. /\ h.expire = (IF e = 0 THEN g.expire ELSE p.expire) /\ h.lastmod = now
        /\ h.lifetime = NewLifetime(g, p)
        /\ h.active = IF op \in {"+", "-"} THEN p.act = "+" ELSE g.active
    BY <1>0, <1>3 DEF Modified
  <2>7. now > Age(A)
    <3>1. Age(A) # now
      BY <1>0, <1>1, <1>3, <1>6 DEF Refused
    <3>2. Age(A) <= now
      BY <1>0, <1>a, <1>1 DEF GlineAssumption
    <3> DEFINE x == Age(A)
    <3>3. x \in Nat /\ x # now /\ x <= now /\ now \in Nat
      BY <1>0, <1>a, <3>1, <3>2
    <3> HIDE DEF x
    <3>4. now > x
      BY <3>3
    <3> QED BY <3>4 DEF x
  <2>8. ~p.force /\ p.expire # 0 => p.expire > now /\ p.expire <= now + MaxExpire
    BY <1>0, <1>6 DEF Refused, BadExpire
  <2>9. /\ u.lifetime = g.lifetime /\ (g.expire > now <=> u.expire > now)
        /\ g.expire > now => g.expire = u.expire
    BY <1>1 DEF Eqv, Running
  <2>10. u.lifetime >= u.expire
    BY <1>a DEF Versions
  <2> HIDE DEF h, op, e, u
  <2>11. g.lifetime >= g.expire
    BY <1>0, <1>1, <2>3, <2>9, <2>10
  <2>12. e \in Int /\ h.expire \in Int /\ h.lifetime \in Int
    BY <1>0, <2>1, <2>3, <2>4 DEF Record
  <2>13. h.lifetime >= g.lifetime /\ h.lifetime >= e
    BY <1>0, <2>3, <2>5, <2>6, <2>12 DEF Max
  <2>14. h.lifetime > now /\ h.lifetime >= h.expire /\ h.lifetime >= u.lifetime
    <3>1. h.expire = g.expire \/ h.expire = e
      BY <2>4, <2>6
    <3>2. h.lifetime >= h.expire
      BY <2>3, <2>11, <2>12, <2>13, <3>1
    <3>3. h.lifetime > now
      BY <1>0, <1>1, <2>3, <2>12, <2>13
    <3> QED BY <2>9, <2>13, <3>2, <3>3
  <2>15. op # "modify" => (op = "+" <=> h.active)
    BY <2>1, <2>2, <2>6
  <2>16. ~p.force => h.expire <= now + MaxExpire
    <3>1. ASSUME ~p.force, e = 0, p.expire = 0 PROVE g.expire <= now + MaxExpire
      <4>1. Age(A) # 0
        BY <1>1 DEF GlineAssumption
      <4> QED
        BY <1>a, <1>1, <3>1, <4>1 DEF Authors, Limited
    <3>2. ASSUME ~p.force, p.expire # 0 PROVE h.expire <= now + MaxExpire
      <4>1. p.expire <= now + MaxExpire
        BY <2>8, <3>2
      <4>2. h.expire = p.expire
        BY <2>4, <2>6, <3>2
      <4> QED BY <4>1, <4>2
    <3> QED
      BY <2>4, <2>6, <3>1, <3>2
  <2>17. (p.force \/ h.expire <= now + MaxExpire) /\ (A \in Opers => h.expire <= now + MaxExpire)
    BY <2>16 DEF Authors
  <2>18. op = "modify" /\ h.expire > now => u.lifetime > now /\ (Act(now, u) <=> h.active)
    <3>1. Act(now, g) <=> Act(now, u)
      BY <1>0, <1>a, <1>1, EqvLaws
    <3>2. g.active <=> Act(now, g)
      BY <1>1 DEF Act, Running
    <3>3. op = "modify" => h.active = g.active
      BY <2>6
    <3> QED
      BY <1>1, <2>9, <3>1, <3>2, <3>3
  <2>19. ASSUME ~p.force, h.expire <= now PROVE Eqv(now, u, h)
    <3>1. p.lifetime = 0
      BY <2>19 DEF Authors
    <3>2. p.expire = 0
      <4> SUFFICES ASSUME p.expire # 0 PROVE FALSE
        OBVIOUS
      <4>1. h.expire = p.expire
        BY <2>4, <2>6
      <4> QED BY <1>0, <2>8, <2>19, <4>1
    <3>3. e = 0 /\ h.expire = g.expire
      BY <2>4, <2>6, <3>2
    <3>4. h.lifetime = g.lifetime
      BY <1>0, <1>1, <2>3, <2>5, <2>6, <3>1, <3>3 DEF Max
    <3>5. ~(g.expire > now) /\ ~(u.expire > now)
      BY <1>0, <2>3, <2>9, <2>19, <3>3
    <3> QED
      BY <2>9, <3>3, <3>4, <3>5 DEF Eqv, Running
  <2> QED
    BY <1>0, <1>6, <2>1, <2>2, <2>6, <2>7, <2>14, <2>15, <2>17, <2>18, <2>19, AuthorAgreed DEF u
<1> QED
  BY <1>2, <1>3, <1>4, <1>5, <1>6

(* The commands: those that change the G-line are the author's. *)
LEMMA CommandAgreed ==
  ASSUME GlineAssumption, Tree, Opers \cap Services = {}, TypeOK, TypeOK', Paired,
         now <= Start + OneMonth, NEW A \in Servers, NEW V, Agreed(V, A),
         NEW s \in Servers, Commands(s), clean', author' \in {None, A}
  PROVE  \E W : Agreed(W, A)'
<1>0. now \in Nat /\ Terms \subseteq Int /\ LongTerms \subseteq Int /\ None \notin Reasons
  BY DEF TypeOK, GlineAssumption
<1>a. status' = status /\ now' = now
  BY DEF Commands, mo_gline, mo_gline_one, services_full, services_short, Op
<1>b. Authored(s) => s = A
  BY DEF Authored, GlineAssumption
<1>1. ASSUME NEW act \in {"modify", "+", "-"}, NEW term \in Terms \cup {None},
             NEW reason \in Reasons \cup {None}, mo_gline(s, act, term, reason)
      PROVE  \E W : Agreed(W, A)'
  <2> DEFINE p == [act |-> act, expire |-> IF term = None THEN 0 ELSE now + term, lastmod |-> now,
                   lifetime |-> 0, reason |-> reason, force |-> FALSE]
  <2>0. s = A
    BY <1>b, <1>1 DEF mo_gline
  <2>1. /\ A \in Opers /\ OperForm(act, term, reason)
        /\ \/ gline_find(A) = None /\ act # "modify" /\ term # None /\ gline_add(A, A, p)
           \/ gline_find(A) # None /\ gline_modify(A, A, gline_find(A), p)
    BY <1>1, <2>0 DEF mo_gline
  <2>2. /\ p \in Change /\ p.act = act /\ p.lastmod = now /\ p.lifetime = 0 /\ p.force = FALSE
        /\ p.reason = reason
    BY <1>0 DEF Change
  <2> HIDE DEF p
  <2>3. Authors(A, p)
    BY <2>1, <2>2 DEF Authors
  <2>4. CASE gline_find(A) = None /\ act # "modify" /\ term # None /\ gline_add(A, A, p)
    <3>1. p.reason \in Reasons
      BY <1>0, <2>1, <2>2, <2>4 DEF OperForm
    <3> QED
      BY <1>a, <2>2, <2>3, <2>4, <3>1, AuthorAdds
  <2>5. CASE gline_find(A) # None /\ gline_modify(A, A, gline_find(A), p)
    BY <1>a, <2>3, <2>5, AuthorModifies
  <2> QED
    BY <2>1, <2>4, <2>5
<1>2. ASSUME NEW target \in Targets, NEW op \in {"+", "-", ">", "<"}, NEW term \in Terms,
             mo_gline_one(s, target, op, term)
      PROVE  \E W : Agreed(W, A)'
  <2>1. CASE Single(s, s, op, now + term)
    <3>1. Agreed(V, A)'
      BY <1>a, <2>1, SingleAgreed
    <3> QED BY <3>1
  <2>2. CASE Emit(s, s, To(Via[s][target], <<ForOne(target, op, Max(term, -1))>>)) /\ gl' = gl
    <3> DEFINE m == ForOne(target, op, Max(term, -1))
               y == Via[s][target]
    <3>1. target \in Servers /\ y \in Servers
      BY DEF GlineAssumption
    <3>2. Max(term, -1) \in Int
      BY <1>0, MaxType
    <3>3. m \in Msg /\ m.t = "ONE"
      BY <3>1, <3>2 DEF ForOne, Msg
    <3> HIDE DEF m, y
    <3>4. Emit(s, s, To(y, <<m>>))
      BY <2>2 DEF m, y
    <3>5. Agreed(V, A)'
      BY <1>a, <2>2, <3>1, <3>3, <3>4, RoutedAgreed
    <3> QED BY <3>5
  <2> QED
    BY <1>2, <2>1, <2>2 DEF mo_gline_one
<1>3. ASSUME NEW act \in {"modify", "+", "-"}, NEW term \in LongTerms, NEW reason \in Reasons,
             services_full(s, act, term, reason)
      PROVE  \E W : Agreed(W, A)'
  <2> DEFINE m == [t |-> "GL", op |-> act, rel |-> term, lastmod |-> now,
                   lifetime |-> now + Max(term, 1), reason |-> reason, force |-> TRUE]
             p(a) == [act |-> a, expire |-> m.rel + now, lastmod |-> m.lastmod,
                      lifetime |-> m.lifetime, reason |-> m.reason, force |-> m.force]
             b == IF act = "modify" THEN "+" ELSE act
  <2>0. s = A
    BY <1>b, <1>3 DEF services_full
  <2>1. A \in Services /\ ms_gline_full(A, A, m)
    BY <1>3, <2>0 DEF services_full
  <2>2. term \in Int /\ Max(term, 1) \in Int /\ Max(term, 1) >= 1 /\ Max(term, 1) >= term
    BY <1>0 DEF Max
  <2>3. \/ gline_find(A) = None /\ gline_add(A, A, p(b))
        \/ gline_find(A) # None /\ gline_modify(A, A, gline_find(A), p(act))
    BY <2>1 DEF ms_gline_full
  <2>4. ASSUME NEW a \in {"modify", "+", "-"}
        PROVE  /\ p(a) \in Change /\ p(a).act = a /\ p(a).expire = term + now /\ p(a).lastmod = now
               /\ p(a).lifetime = now + Max(term, 1) /\ p(a).reason = reason /\ p(a).force = TRUE
    <3>1. term + now \in Int /\ now + Max(term, 1) \in Int
      BY <1>0, <2>2
    <3> DEFINE l == now + Max(term, 1)
    <3> HIDE DEF l
    <3>2. p(a) = [act |-> a, expire |-> term + now, lastmod |-> now, lifetime |-> l,
                  reason |-> reason, force |-> TRUE]
      BY DEF l
    <3> QED
      BY <1>0, <3>1, <3>2 DEF Change, l
  <2>5. now + Max(term, 1) > now /\ now + Max(term, 1) >= term + now /\ A \notin Opers
    <3>1. now + Max(term, 1) > now /\ now + Max(term, 1) >= term + now
      BY <1>0, <2>2
    <3> QED BY <2>1, <3>1
  <2> HIDE DEF p, m
  <2>6. \A a \in {"modify", "+", "-"} : Authors(A, p(a))
    BY <2>4, <2>5, ZenonT(60) DEF Authors
  <2>7. CASE gline_find(A) = None /\ gline_add(A, A, p(b))
    <3> DEFINE c == p(b)
    <3>1. b \in {"modify", "+", "-"} /\ b # "modify"
      OBVIOUS
    <3>2. Authors(A, c) /\ c.act # "modify" /\ c.reason \in Reasons
      BY <2>4, <2>6, <3>1
    <3> HIDE DEF c
    <3> QED
      BY <1>a, <2>7, <3>2, AuthorAdds DEF c
  <2>8. CASE gline_find(A) # None /\ gline_modify(A, A, gline_find(A), p(act))
    BY <1>a, <2>6, <2>8, AuthorModifies
  <2> QED
    BY <2>3, <2>7, <2>8
<1>4. ASSUME NEW act \in {"+", "-"}, services_short(s, act) PROVE FALSE
  BY <1>4 DEF services_short
<1> QED
  BY <1>1, <1>2, <1>3, <1>4 DEF Commands
-----------------------------------------------------------------------------
(* Links and time.                                                         *)

(* A link is opened. *)
LEMMA ConnectAgreed ==
  ASSUME GlineAssumption, TypeOK, NEW A \in Servers, NEW V, Agreed(V, A),
         NEW a \in Servers, NEW b \in Servers, a # b, Connect(a, b)
  PROVE  Agreed(V, A)'
<1>0. /\ gl' = gl /\ now' = now /\ now \in Int /\ V \in [Nat -> Record]
      /\ \A x \in Servers : Age(x) \in Nat
  <2>1. gl' = gl /\ now' = now
    BY DEF Connect
  <2>2. now \in Int
    BY DEF TypeOK
  <2>3. V \in [Nat -> Record]
    BY DEF Agreed, Versions
  <2>4. \A x \in Servers : Age(x) \in Nat
    BY AgeType
  <2> QED BY <2>1, <2>2, <2>3, <2>4
<1>1. /\ status'[a][b] = "handshake" /\ status'[b][a] = "unknown"
      /\ \A x, y \in Servers : ~(x = a /\ y = b) /\ ~(x = b /\ y = a) => status'[x][y] = status[x][y]
  BY ZenonT(60) DEF Connect, TypeOK
<1> DEFINE q == <<M("HELLO")>>
<1>2. /\ chan'[a][b] = q /\ chan'[b][a] = <<>>
      /\ \A x, y \in Servers : ~(x = a /\ y = b) /\ ~(x = b /\ y = a) => chan'[x][y] = chan[x][y]
  BY ZenonT(60) DEF Connect, TypeOK
<1>3. M("HELLO") \in Msg /\ M("HELLO").t = "HELLO"
  BY MsgIs
<1>4. q \in Seq(Msg) /\ ~Has(q, {"GL"}) /\ Len(q) = 1 /\ q[1] = M("HELLO")
      /\ <<>> \in Seq(Msg) /\ ~Has(<<>>, {"GL"})
  BY <1>3, OneHas
<1> HIDE DEF q
<1>5. \A x \in Servers : Age(x)' = Age(x)
  BY <1>0 DEF Age
<1>6. \A x \in Servers : Recorded(V, x)' /\ Age(x)' <= Age(A)'
  BY <1>0, <1>5 DEF Agreed, Recorded
<1>7. Versions(V) /\ Limited(A)'
  BY <1>0, <1>5 DEF Agreed, Limited
<1>8. ASSUME NEW x \in Servers, NEW y \in Servers PROVE Sent(V, A, x, y)'
  <2> SUFFICES ASSUME NEW i \in 1..Len(chan'[x][y]) PROVE Fine(V, A, x, y, chan[x][y][i])'
    BY DEF Sent
  <2> DEFINE m == chan'[x][y][i]
  <2>1. CASE m.t \notin {"GL", "SHORT"}
    BY <2>1 DEF Fine
  <2>2. CASE chan'[x][y] = chan[x][y]
    <3>1. Fine(V, A, x, y, m)
      BY <2>2 DEF Agreed, Sent
    <3> QED
      BY <1>0, <1>5, <3>1 DEF Fine, Down
  <2>3. CASE x = a /\ y = b
    <3>1. m = M("HELLO")
      BY <1>2, <1>4, <2>3
    <3> QED
      BY <1>3, <2>1, <3>1
  <2>4. CASE x = b /\ y = a
    BY <1>2, <2>4
  <2> QED
    BY <1>2, <2>2, <2>3, <2>4
<1>9. ASSUME NEW p \in Servers, NEW c \in Servers PROVE Fed(V, A, p, c)'
  <2> SUFFICES ASSUME Down(A, p, c)
               PROVE  /\ Age(c) <= Age(p)
                      /\ status'[c][p] # "none" =>
                           Flow(now, V, chan'[p][c], Age(c), Age(p), status'[p][c] \in Linked)
    BY <1>0, <1>5 DEF Fed, Down
  <2>1. /\ Age(c) <= Age(p)
        /\ status[c][p] # "none" => Flow(now, V, chan[p][c], Age(c), Age(p), status[p][c] \in Linked)
    BY DEF Agreed, Fed
  <2>2. CASE (p = a /\ c = b) \/ (p = b /\ c = a)
    <3> DEFINE r == chan'[p][c]
               x == Age(c)
               y == Age(p)
               sync == status'[p][c] \in Linked
    <3>a. r = q \/ r = <<>>
      BY <1>2, <2>2
    <3> HIDE DEF r
    <3>1. r \in Seq(Msg) /\ ~Has(r, {"GL"})
      BY <1>4, <3>a
    <3>2. ~sync
      BY <1>1, <2>2 DEF Linked
    <3>3. x \in Nat /\ y \in Nat /\ x <= y
      BY <1>0, <2>1
    <3> HIDE DEF r, x, y, sync
    <3>4. Flow(now, V, r, x, y, sync)
      BY <1>0, <3>1, <3>2, <3>3, FlowStart
    <3> QED
      BY <2>1, <3>4 DEF r, x, y, sync
  <2>3. CASE ~((p = a /\ c = b) \/ (p = b /\ c = a))
    <3>1. chan'[p][c] = chan[p][c] /\ status'[p][c] = status[p][c] /\ status'[c][p] = status[c][p]
      BY <1>1, <1>2, <2>3
    <3> QED
      BY <2>1, <3>1
  <2> QED
    BY <2>2, <2>3
<1> QED
  BY <1>6, <1>7, <1>8, <1>9 DEF Agreed, Versions

(* A link breaks. *)
LEMMA BreakAgreed ==
  ASSUME GlineAssumption, TypeOK, NEW A \in Servers, NEW V, Agreed(V, A),
         NEW s \in Servers, NEW n \in Servers, s # n, Break(s, n)
  PROVE  Agreed(V, A)'
<1>0. /\ gl' = gl /\ now' = now /\ now \in Int /\ V \in [Nat -> Record]
      /\ \A x \in Servers : Age(x) \in Nat
  <2>1. gl' = gl /\ now' = now
    BY DEF Break
  <2>2. now \in Int
    BY DEF TypeOK
  <2>3. V \in [Nat -> Record]
    BY DEF Agreed, Versions
  <2>4. \A x \in Servers : Age(x) \in Nat
    BY AgeType
  <2> QED BY <2>1, <2>2, <2>3, <2>4
<1>1. /\ status'[s][n] = "none"
      /\ \A x, y \in Servers : ~(x = s /\ y = n) => status'[x][y] = status[x][y]
  BY DEF Break, TypeOK
<1> DEFINE w == chan[s][n]
           r == <<M("CLOSE")>>
<1>2. /\ chan'[n][s] = <<>> /\ (chan'[s][n] = w \/ chan'[s][n] = w \o r)
      /\ status[n][s] # "none" => chan'[s][n] = w \o r
      /\ \A x, y \in Servers : ~(x = s /\ y = n) /\ ~(x = n /\ y = s) => chan'[x][y] = chan[x][y]
  BY ZenonT(60) DEF Break, TypeOK
<1>3. M("CLOSE") \in Msg /\ M("CLOSE").t = "CLOSE"
  BY MsgIs
<1>4. r \in Seq(Msg) /\ Len(r) = 1 /\ r[1] = M("CLOSE") /\ w \in Seq(Msg)
  BY <1>3, OneHas DEF TypeOK
<1> HIDE DEF r
<1>5. \A x \in Servers : Age(x)' = Age(x)
  BY <1>0 DEF Age
<1>6. \A x \in Servers : Recorded(V, x)' /\ Age(x)' <= Age(A)'
  BY <1>0, <1>5 DEF Agreed, Recorded
<1>7. Versions(V) /\ Limited(A)'
  BY <1>0, <1>5 DEF Agreed, Limited
<1>8. ASSUME NEW x \in Servers, NEW y \in Servers PROVE Sent(V, A, x, y)'
  <2> SUFFICES ASSUME NEW i \in 1..Len(chan'[x][y]) PROVE Fine(V, A, x, y, chan[x][y][i])'
    BY DEF Sent
  <2> DEFINE m == chan'[x][y][i]
  <2>1. CASE m.t \notin {"GL", "SHORT"}
    BY <2>1 DEF Fine
  <2>2. CASE \E j \in 1..Len(chan[x][y]) : m = chan[x][y][j]
    <3>1. Fine(V, A, x, y, m)
      BY <2>2 DEF Agreed, Sent
    <3> QED
      BY <1>0, <1>5, <3>1 DEF Fine, Down
  <2>3. CASE x = s /\ y = n /\ chan'[s][n] = w \o r
    <3>1. i \in 1..Len(w \o r) /\ m = (w \o r)[i]
      BY <2>3
    <3> HIDE DEF m
    <3>2. CASE i \in 1..Len(w)
      <4>1. m = w[i]
        BY <1>4, <3>1, <3>2, CatIs
      <4> QED
        BY <2>2, <2>3, <3>2, <4>1
    <3>3. CASE i - Len(w) \in 1..Len(r) /\ (w \o r)[i] = r[i - Len(w)]
      <4>1. m = M("CLOSE")
        BY <1>4, <3>1, <3>3, SMTT(60)
      <4> QED
        BY <1>3, <2>1, <4>1
    <3> HIDE DEF w
    <3> QED
      BY <1>4, <3>1, <3>2, <3>3, CatIs
  <2>4. CASE x = n /\ y = s
    BY <1>2, <2>4
  <2>5. CASE chan'[x][y] = chan[x][y]
    BY <2>2, <2>5
  <2> QED
    BY <1>2, <2>3, <2>4, <2>5
<1>9. ASSUME NEW p \in Servers, NEW c \in Servers PROVE Fed(V, A, p, c)'
  <2> SUFFICES ASSUME Down(A, p, c)
               PROVE  /\ Age(c) <= Age(p)
                      /\ status'[c][p] # "none" =>
                           Flow(now, V, chan'[p][c], Age(c), Age(p), status'[p][c] \in Linked)
    BY <1>0, <1>5 DEF Fed, Down
  <2>1. /\ Age(c) <= Age(p)
        /\ status[c][p] # "none" => Flow(now, V, chan[p][c], Age(c), Age(p), status[p][c] \in Linked)
    BY DEF Agreed, Fed
  <2>2. CASE p = s /\ c = n /\ status'[n][s] # "none"
    <3> DEFINE x == Age(n)
               y == Age(s)
               z == Age(s)
               sync == status[s][n] \in Linked
               sync2 == status'[s][n] \in Linked
    <3>1. status[n][s] # "none" /\ chan'[s][n] = w \o r
      BY <1>1, <1>2, <2>2
    <3>2. ~sync2
      BY <1>1 DEF Linked
    <3>3. x \in Nat /\ y \in Nat /\ z \in Nat /\ y <= z /\ Flow(now, V, w, x, y, sync)
      BY <1>0, <2>1, <2>2, <3>1
    <3>4. \A j \in 1..Len(r) : r[j].t # "GL"
      BY <1>3, <1>4
    <3>5. \A k \in 0..y : V[k] = V[k]
      OBVIOUS
    <3>a. z = Age(s)
      OBVIOUS
    <3> HIDE DEF w, x, y, z, sync, sync2
    <3>6. \A j \in 1..Len(r) : r[j].t = "GL" =>
            /\ r[j].lastmod = z
            /\ \A k \in 0..z :
                 k = z \/ (k <= y /\ (sync => Eqv(now, V[k], V[y]))) => Good(now, V, k, r[j])
      BY <3>4
    <3>7. sync2 => Has(r, {"GL"}) \/ (y = z /\ (sync \/ y = 0))
      BY <3>2
    <3>8. Flow(now, V, w \o r, x, z, sync2)
      BY <1>0, <1>4, <3>3, <3>5, <3>6, <3>7, FlowCat, Zenon
    <3> QED
      BY <2>1, <2>2, <3>1, <3>8, SMTT(60) DEF x, z, sync2
  <2>3. CASE p = n /\ c = s
    BY <1>1, <2>1, <2>3, SMTT(60)
  <2>4. CASE ~(p = s /\ c = n) /\ ~(p = n /\ c = s)
    <3>1. chan'[p][c] = chan[p][c] /\ status'[p][c] = status[p][c] /\ status'[c][p] = status[c][p]
      BY <1>1, <1>2, <2>4
    <3> QED
      BY <2>1, <3>1
  <2> QED
    BY <2>1, <2>2, <2>3, <2>4
<1> QED
  BY <1>6, <1>7, <1>8, <1>9 DEF Agreed, Versions

(* What is the same ban stays the same ban. *)
LEMMA EqvLater ==
  ASSUME NEW t \in Int, NEW u \in Record, NEW v \in Record, Eqv(t, u, v)
  PROVE  Eqv(t + 1, u, v)
BY DEF Eqv, Running, Record

(* A version is held until its life ends. *)
LEMMA AgeLater ==
  ASSUME GlineAssumption, TypeOK, NEW V, Versions(V), NEW s \in Servers, Recorded(V, s),
         gl' = gl, now' = now + 1
  PROVE  /\ Age(s) \in Nat /\ Age(s)' = IF V[Age(s)].lifetime > now + 1 THEN Age(s) ELSE 0
         /\ Age(s) # 0 => V[Age(s)].lifetime > now
<1> DEFINE g == gl[s]
<1>0. now \in Nat /\ Age(s) \in Nat /\ gl'[s] = g /\ g \in Record \cup {None} /\ V[0].lifetime = 0
      /\ None \notin Record
  BY AgeType DEF TypeOK, Versions, GlineAssumption
<1>1. CASE g = None
  <2>1. Age(s) = 0 /\ Age(s)' = 0
    BY <1>0, <1>1 DEF Age, AgeOf
  <2> QED
    BY <1>0, <2>1
<1>2. CASE g # None
  <2>0. g \in Record /\ g.lifetime \in Int /\ g.lastmod \in Start..now /\ g.lastmod \in Nat
    BY <1>0, <1>2 DEF Record, Recorded
  <2>1. Age(s) = (IF g.lifetime <= now THEN 0 ELSE g.lastmod) /\ Age(s)' = (IF g.lifetime <= now + 1 THEN 0 ELSE g.lastmod)
    BY <1>0, <1>2 DEF Age, AgeOf
  <2>2. CASE g.lifetime <= now
    <3>1. g.lifetime <= now + 1
      BY <1>0, <2>0, <2>2
    <3> QED
      BY <1>0, <2>1, <2>2, <3>1
  <2>3. CASE ~(g.lifetime <= now)
    <3>1. g.lifetime > now
      BY <1>0, <2>0, <2>3
    <3>2. Age(s) = g.lastmod /\ V[g.lastmod].lifetime = g.lifetime
      BY <1>2, <2>1, <2>3, <3>1 DEF Recorded, Eqv
    <3>3. V[Age(s)].lifetime = g.lifetime
      BY <3>2
    <3> QED
      BY <1>0, <2>0, <2>1, <3>1, <3>2, <3>3
  <2> QED
    BY <2>2, <2>3
<1> QED
  BY <1>1, <1>2

(* A second passes in a quiet network. *)
LEMMA TickAgreed ==
  ASSUME GlineAssumption, TypeOK, NEW A \in Servers, NEW V, Agreed(V, A), Quiet, Tick
  PROVE  Agreed(V, A)'
<1>0. /\ gl' = gl /\ status' = status /\ chan' = chan /\ now' = now + 1 /\ now \in Nat /\ now \in Int
      /\ now + 1 \in Int
  <2>1. now \in Nat
    BY DEF TypeOK
  <2> QED BY <2>1 DEF Tick
<1>1. Versions(V) /\ V \in [Nat -> Record]
  BY DEF Agreed, Versions
<1>2. \A x \in Servers : Recorded(V, x) /\ Age(x) <= Age(A)
  BY DEF Agreed
<1>3. \A x \in Servers : /\ Age(x) \in Nat
                         /\ Age(x)' = IF V[Age(x)].lifetime > now + 1 THEN Age(x) ELSE 0
                         /\ Age(x) # 0 => V[Age(x)].lifetime > now
  BY <1>0, <1>1, <1>2, AgeLater
<1>4. ASSUME NEW x \in Servers, NEW y \in Servers, Age(x) <= Age(y) PROVE Age(x)' <= Age(y)'
  <2>1. V[Age(x)].lifetime <= V[Age(y)].lifetime
    BY <1>1, <1>3, <1>4 DEF Versions
  <2>2. V[Age(x)] \in Record /\ V[Age(y)] \in Record
    BY <1>1, <1>3
  <2>3. V[Age(x)].lifetime \in Int /\ V[Age(y)].lifetime \in Int
    BY <2>2 DEF Record
  <2>4. CASE V[Age(x)].lifetime > now + 1
    <3>1. V[Age(y)].lifetime > now + 1
      BY <1>0, <2>1, <2>3, <2>4
    <3> QED
      BY <1>3, <1>4, <2>4, <3>1
  <2>5. CASE ~(V[Age(x)].lifetime > now + 1)
    <3>1. Age(x)' = 0 /\ (Age(y)' = 0 \/ Age(y)' = Age(y)) /\ Age(y) \in Nat
      BY <1>3, <2>5
    <3> QED BY <3>1
  <2> QED
    BY <2>4, <2>5
<1>5. ASSUME NEW x \in Servers PROVE Recorded(V, x)'
  <2> DEFINE g == gl[x]
  <2>1. CASE g = None
    BY <1>0, <2>1 DEF Recorded
  <2>2. CASE g # None
    <3>1. g \in Record /\ g.lifetime \in Int /\ g.lastmod \in Nat
      BY <2>2, ZenonT(60) DEF TypeOK, Record
    <3>2. g.lastmod \in Start..now /\ (g.lifetime > now => Eqv(now, g, V[g.lastmod]))
      BY <1>2, <2>2 DEF Recorded
    <3>3. g.lastmod \in Start..(now + 1)
      BY <1>0, <3>2 DEF GlineAssumption
    <3>4. V[g.lastmod] \in Record
      BY <1>1, <3>1
    <3>5. ASSUME g.lifetime > now + 1 PROVE Eqv(now + 1, g, V[g.lastmod])
      <4>1. g.lifetime > now
        BY <1>0, <3>1, <3>5
      <4> QED
        BY <1>0, <3>1, <3>2, <3>4, <4>1, EqvLater
    <3> QED
      BY <1>0, <3>3, <3>5 DEF Recorded
  <2> QED
    BY <2>1, <2>2
<1>6. Limited(A)'
  <2> SUFFICES ASSUME A \in Opers, Age(A)' # 0 PROVE gl[A].expire <= now + 1 + MaxExpire
    BY <1>0 DEF Limited
  <2>1. Age(A) # 0
    BY <1>3
  <2>2. gl[A].expire <= now + MaxExpire
    BY <2>1 DEF Agreed, Limited
  <2>3. gl[A].expire \in Int
    BY <2>1, AgeType DEF Record
  <2> QED
    BY <1>0, <2>2, <2>3 DEF GlineAssumption
<1>7. ASSUME NEW x \in Servers, NEW y \in Servers PROVE Sent(V, A, x, y)'
  BY <1>0 DEF Sent, Quiet
<1>8. ASSUME NEW p \in Servers, NEW c \in Servers PROVE Fed(V, A, p, c)'
  <2> SUFFICES ASSUME Down(A, p, c)
               PROVE  /\ Age(c)' <= Age(p)'
                      /\ status[c][p] # "none" =>
                           Flow(now + 1, V, chan[p][c], Age(c)', Age(p)', status[p][c] \in Linked)
    BY <1>0 DEF Fed, Down
  <2>1. /\ Age(c) <= Age(p)
        /\ status[c][p] # "none" => Flow(now, V, chan[p][c], Age(c), Age(p), status[p][c] \in Linked)
    BY DEF Agreed, Fed
  <2>2. Age(c)' <= Age(p)'
    BY <1>4, <2>1
  <2>3. ASSUME status[c][p] # "none"
        PROVE  Flow(now + 1, V, chan[p][c], Age(c)', Age(p)', status[p][c] \in Linked)
    <3> DEFINE q == chan[p][c]
               x == Age(c)
               y == Age(p)
               x2 == Age(c)'
               y2 == Age(p)'
               sync == status[p][c] \in Linked
               t == now + 1
    <3>1. q \in Seq(Msg) /\ q = <<>>
      BY DEF Quiet, TypeOK
    <3>2. /\ x \in Nat /\ y \in Nat /\ Flow(now, V, q, x, y, sync) /\ x <= y
          /\ x2 = (IF V[x].lifetime > t THEN x ELSE 0) /\ y2 = (IF V[y].lifetime > t THEN y ELSE 0)
          /\ x2 <= y2
      BY <1>3, <2>1, <2>2, <2>3
    <3> HIDE DEF q, x, y, x2, y2, sync
    <3>3. sync => Eqv(now, V[x], V[y])
      BY <1>0, <1>1, <3>1, <3>2, FlowEnd
    <3>4. x2 \in Nat /\ y2 \in Nat /\ V[x] \in Record /\ V[y] \in Record /\ V[0] \in Record
      BY <1>1, <3>2
    <3>5. ASSUME sync PROVE Eqv(t, V[x2], V[y2])
      <4>1. Eqv(t, V[x], V[y]) /\ Eqv(t, V[0], V[0])
        BY <1>0, <3>3, <3>4, <3>5, EqvLater, EqvLaws
      <4>2. V[x].lifetime = V[y].lifetime
        BY <4>1 DEF Eqv
      <4> QED
        BY <3>2, <4>1, <4>2
    <3>6. ~Has(q, {"GL"})
      BY <3>1, HasLess
    <3>7. t \in Int
      BY <1>0
    <3> HIDE DEF t
    <3>8. Flow(t, V, q, x2, y2, sync)
      BY <1>1, <3>1, <3>2, <3>4, <3>5, <3>6, <3>7, FlowStart
    <3> QED
      BY <3>8 DEF t, q, x2, y2, sync
  <2> QED
    BY <2>2, <2>3
<1> QED
  BY <1>0, <1>1, <1>2, <1>4, <1>5, <1>6, <1>7, <1>8 DEF Agreed, Versions
-----------------------------------------------------------------------------
(* The inductive invariant: as long as no server but one has changed the   *)
(* G-line, versions explain every record and every message.                *)
Explained(A) == \E V : Agreed(V, A)
OneHistory == clean => \A A \in Servers : author \in {None, A} => Explained(A)
Rules == Tree /\ Opers \cap Services = {} /\ MaxNow <= Start + OneMonth
GlineInv == TypeOK /\ Paired /\ now <= Start + OneMonth /\ OneHistory

(* Before the mask is banned. *)
LEMMA AgreedInit ==
  ASSUME GlineAssumption, Init, TypeOK, NEW A \in Servers
  PROVE  Explained(A)
<1>1. PICK r \in Reasons : TRUE
  BY DEF GlineAssumption
<1> DEFINE v == [active |-> FALSE, state |-> "global", expire |-> 0, lastmod |-> 0,
                 lifetime |-> 0, reason |-> r]
           V == [k \in Nat |-> v]
<1>2. v \in Record /\ v.lifetime = 0 /\ v.expire = 0
  BY DEF Record
<1> HIDE DEF v
<1>3. V \in [Nat -> Record] /\ \A k \in Nat : V[k] = v
  BY <1>2
<1> HIDE DEF V
<1>4. Versions(V)
  BY <1>2, <1>3 DEF Versions
<1>5. now \in Int /\ \A x \in Servers : gl[x] = None /\ \A y \in Servers : chan[x][y] = <<>> /\ chan[x][y] \in Seq(Msg)
  BY DEF Init, TypeOK
<1>6. \A x \in Servers : Age(x) = 0 /\ Recorded(V, x)
  BY <1>5, ZenonT(60) DEF Age, AgeOf, Recorded
<1>7. Limited(A)
  BY <1>6 DEF Limited
<1>8. \A x, y \in Servers : Sent(V, A, x, y)
  BY <1>5 DEF Sent
<1>9. ASSUME NEW p \in Servers, NEW c \in Servers PROVE Fed(V, A, p, c)
  <2> DEFINE q == chan[p][c]
             sync == status[p][c] \in Linked
             z == 0
  <2>1. q \in Seq(Msg) /\ q = <<>>
    BY <1>5
  <2>2. z \in Nat /\ z <= z /\ V[z] \in Record
    BY <1>3
  <2>z. z = 0
    OBVIOUS
  <2> HIDE DEF q, sync, z
  <2>3. ~Has(q, {"GL"}) /\ Eqv(now, V[z], V[z])
    BY <1>5, <2>1, <2>2, HasLess, EqvLaws
  <2>4. Flow(now, V, q, z, z, sync)
    BY <1>3, <1>5, <2>1, <2>2, <2>3, FlowStart
  <2>5. Age(p) = z /\ Age(c) = z /\ Age(c) <= Age(p)
    BY <1>6, <2>2, <2>z
  <2> QED
    BY <2>4, <2>5 DEF Fed, q, sync
<1>10. \A x \in Servers : Age(x) <= Age(A)
  <2>1. 0 <= 0
    OBVIOUS
  <2> QED BY <1>6, <2>1, ZenonT(60)
<1>11. Agreed(V, A)
  BY <1>4, <1>6, <1>7, <1>8, <1>9, <1>10, SMTT(60) DEF Agreed
<1> QED
  BY <1>11 DEF Explained

(* Nothing that the invariant is about changes. *)
LEMMA StillAgreed ==
  ASSUME NEW A, NEW V, Agreed(V, A), UNCHANGED <<gl, now, status, chan>>
  PROVE  Agreed(V, A)'
<1>1. \A x : Age(x)' = Age(x)
  BY DEF Age
<1>2. Limited(A)' /\ \A x \in Servers : Recorded(V, x)' /\ Age(x)' <= Age(A)'
  BY <1>1 DEF Agreed, Limited, Recorded
<1>3. ASSUME NEW x \in Servers, NEW y \in Servers PROVE Sent(V, A, x, y)' /\ Fed(V, A, x, y)'
  <2>1. Sent(V, A, x, y) /\ Fed(V, A, x, y)
    BY DEF Agreed
  <2>2. Sent(V, A, x, y)'
    <3> SUFFICES ASSUME NEW i \in 1..Len(chan[x][y]) PROVE Fine(V, A, x, y, chan[x][y][i])'
      BY DEF Sent
    <3>1. Fine(V, A, x, y, chan[x][y][i])
      BY <2>1 DEF Sent
    <3> QED
      BY <1>1, <3>1 DEF Fine, Down
  <2>3. Fed(V, A, x, y)'
    BY <1>1, <2>1 DEF Fed, Down
  <2> QED
    BY <2>2, <2>3
<1> QED
  BY <1>2, <1>3 DEF Agreed, Versions

(* A step keeps the history of one author explained. *)
LEMMA HistoryStep ==
  ASSUME GlineAssumption, Rules, GlineInv, TypeOK', [Next]_vars
  PROVE  OneHistory'
<1> SUFFICES ASSUME clean', NEW A \in Servers, author' \in {None, A}
             PROVE  \E V : Agreed(V, A)'
  BY DEF OneHistory, Explained
<1>0. TypeOK /\ Paired /\ now <= Start + OneMonth /\ OneHistory /\ Tree /\ Opers \cap Services = {}
  BY DEF GlineInv, Rules
<1>1. clean /\ author \in {None, A}
  <2>1. CASE clean' = clean /\ author' = author
    BY <2>1
  <2>2. CASE Tick
    BY <2>2 DEF Tick
  <2>3. CASE \E s \in Servers : Commands(s)
    <3>1. PICK s \in Servers : Commands(s)
      BY <2>3
    <3>2. Authored(s) \/ (clean' = clean /\ author' = author) \/ clean' = FALSE
      BY <3>1 DEF Commands, mo_gline, mo_gline_one, services_full, services_short, history
    <3> QED
      BY <2>1, <3>2 DEF Authored
  <2>4. \A s, n \in Servers : register_user(s) \/ m_quit(s) \/ Receive(s, n) \/ Connect(s, n) \/ Break(s, n)
          => clean' = clean /\ author' = author
    <3> SUFFICES ASSUME NEW s \in Servers, NEW n \in Servers,
                        register_user(s) \/ m_quit(s) \/ Receive(s, n) \/ Connect(s, n) \/ Break(s, n)
                 PROVE  UNCHANGED history
      BY DEF history
    <3>1. CASE register_user(s) \/ m_quit(s)
      BY <3>1 DEF register_user, m_quit
    <3>2. CASE Receive(s, n)
      BY <3>2, SMTT(60) DEF Receive
    <3>3. CASE Connect(s, n) \/ Break(s, n)
      BY <3>3 DEF Connect, Break
    <3> QED
      BY <3>1, <3>2, <3>3
  <2> QED
    BY <2>1, <2>2, <2>3, <2>4 DEF Next, vars, history
<1>2. PICK V : Agreed(V, A)
  BY <1>0, <1>1 DEF OneHistory, Explained
<1>3. CASE UNCHANGED <<gl, now, status, chan>>
  <2>1. Agreed(V, A)'
    BY <1>2, <1>3, StillAgreed
  <2> QED BY <2>1
<1>4. ASSUME NEW s \in Servers, Commands(s) PROVE \E W : Agreed(W, A)'
  BY <1>0, <1>2, <1>4, CommandAgreed
<1>5. ASSUME NEW s \in Servers, NEW n \in Servers, Receive(s, n) PROVE \E W : Agreed(W, A)'
  <2>1. Agreed(V, A)'
    BY <1>0, <1>2, <1>5, ReceiveAgreed
  <2> QED BY <2>1
<1>6. ASSUME NEW s \in Servers, NEW n \in Servers, Connect(s, n) \/ Break(s, n) PROVE \E W : Agreed(W, A)'
  <2>1. <<s, n>> \in Fragile
    BY <1>6 DEF Connect, Break
  <2>2. s # n
    BY <2>1 DEF GlineAssumption
  <2>3. Agreed(V, A)'
    BY <1>0, <1>2, <1>6, <2>2, ConnectAgreed, BreakAgreed
  <2> QED BY <2>3
<1>7. CASE Tick
  <2>1. Quiet
    BY <1>7 DEF Tick
  <2>2. Agreed(V, A)'
    BY <1>0, <1>2, <1>7, <2>1, TickAgreed
  <2> QED BY <2>2
<1>8. ASSUME NEW s \in Servers, register_user(s) \/ m_quit(s) PROVE UNCHANGED <<gl, now, status, chan>>
  BY <1>8 DEF register_user, m_quit
<1>9. UNCHANGED vars => UNCHANGED <<gl, now, status, chan>>
  BY DEF vars
<1> QED
  BY <1>3, <1>4, <1>5, <1>6, <1>7, <1>8, <1>9 DEF Next

(* Linked servers whose link is quiet have the same G-line. *)
LEMMA SameContent ==
  ASSUME GlineAssumption, TypeOK, now <= Start + OneMonth, NEW V, Versions(V),
         NEW s \in Servers, NEW n \in Servers, Recorded(V, s), Recorded(V, n),
         Eqv(now, V[Age(s)], V[Age(n)])
  PROVE  Content(s) = Content(n)
<1> DEFINE g == gline_find(s)
           f == gline_find(n)
           u == V[Age(s)]
           v == V[Age(n)]
<1>0. now \in Nat /\ Age(s) \in Nat /\ Age(n) \in Nat /\ u \in Record /\ v \in Record
  BY AgeType DEF Versions, TypeOK
<1>1. /\ g = None <=> Age(s) = 0
      /\ g # None => g \in Record /\ g.lifetime > now /\ Eqv(now, g, u)
  BY FindIs
<1>2. /\ f = None <=> Age(n) = 0
      /\ f # None => f \in Record /\ f.lifetime > now /\ Eqv(now, f, v)
  BY FindIs
<1>3. V[0].lifetime = 0 /\ u.lifetime = v.lifetime
  BY DEF Versions, Eqv
<1>4. g = None <=> f = None
  <2>1. g = None => u.lifetime = 0
    BY <1>1, <1>3
  <2>2. f = None => v.lifetime = 0
    BY <1>2, <1>3
  <2>3. g # None => u.lifetime > now
    BY <1>1 DEF Eqv
  <2>4. f # None => v.lifetime > now
    BY <1>2 DEF Eqv
  <2> QED
    BY <1>0, <1>3, <2>1, <2>2, <2>3, <2>4
<1>5. CASE g = None
  BY <1>4, <1>5 DEF Content
<1>6. CASE g # None
  <2>1. f # None /\ g \in Record /\ f \in Record /\ Eqv(now, g, u) /\ Eqv(now, f, v) /\ Eqv(now, u, v)
    BY <1>1, <1>2, <1>4, <1>6
  <2>2. now \in Int
    BY <1>0
  <2> HIDE DEF g, f, u, v
  <2>3. Eqv(now, g, f)
    <3>1. Eqv(now, g, v)
      BY <1>0, <2>1, <2>2, EqvLaws
    <3>2. Eqv(now, v, f)
      BY <1>0, <2>1, <2>2, EqvLaws
    <3> QED BY <1>0, <2>1, <2>2, <3>1, <3>2, EqvLaws
  <2>4. g.expire \in Int /\ f.expire \in Int
    BY <2>1 DEF Record
  <2>5. (g.expire <= now <=> f.expire <= now)
        /\ (~(g.expire <= now) => g.expire = f.expire /\ g.active = f.active /\ g.reason = f.reason)
    BY <2>2, <2>3, <2>4 DEF Eqv, Running
  <2>6. /\ Content(s) = IF g = None \/ g.expire <= now THEN None
                        ELSE [active |-> g.active, expire |-> g.expire, reason |-> g.reason]
        /\ Content(n) = IF f = None \/ f.expire <= now THEN None
                        ELSE [active |-> f.active, expire |-> f.expire, reason |-> f.reason]
    BY DEF Content, g, f
  <2>7. CASE g.expire <= now
    <3>1. Content(s) = None /\ Content(n) = None
      BY <2>5, <2>6, <2>7
    <3> QED BY <3>1
  <2>8. CASE ~(g.expire <= now)
    BY <1>6, <2>1, <2>5, <2>6, <2>8
  <2> QED
    BY <2>7, <2>8
<1> QED
  BY <1>5, <1>6

(* Where the invariant holds, the property does. *)
LEMMA InvAgrees ==
  ASSUME GlineAssumption, Rules, GlineInv
  PROVE  QuietMeansAgreed
<1> SUFFICES ASSUME Quiet, clean, NEW s \in Servers, NEW n \in Servers, status[s][n] \in Linked
             PROVE  Content(s) = Content(n)
  BY DEF QuietMeansAgreed
<1>0. TypeOK /\ Paired /\ now <= Start + OneMonth /\ OneHistory /\ Tree
  BY DEF GlineInv, Rules
<1>1. PICK A \in Servers : author \in {None, A}
  BY <1>0 DEF TypeOK
<1>2. PICK V : Agreed(V, A)
  BY <1>0, <1>1 DEF OneHistory, Explained
<1>3. Versions(V) /\ V \in [Nat -> Record] /\ \A x \in Servers : Recorded(V, x)
  BY <1>2 DEF Agreed, Versions
<1>4. chan[s][n] = <<>> /\ chan[n][s] = <<>> /\ \A x, y \in Servers : chan[x][y] \in Seq(Msg)
  BY <1>0 DEF Quiet, TypeOK
<1>5. ~Has(chan[s][n], {"CLOSE"}) /\ ~Has(chan[n][s], {"CLOSE"})
  BY <1>4, HasLess
<1>6. /\ status[s][n] # "none" /\ s # n /\ Via[s][n] = n
      /\ status[n][s] # "none"
  BY <1>0, <1>5, StatusIs DEF Paired, Ends
<1>7. status[n][s] \in Linked
  <2>1. status[n][s] \notin Opening
    <3> SUFFICES ASSUME status[n][s] \in Opening PROVE FALSE
      OBVIOUS
    <3>1. status[s][n] = "unknown"
      BY <1>0, <1>4 DEF Paired, Ends
    <3> QED
      BY <1>0, <3>1, StatusIs
  <2> QED
    BY <1>0, <1>6, <2>1, StatusIs
<1>8. ASSUME NEW p \in Servers, NEW c \in Servers, Down(A, p, c), chan[p][c] = <<>>,
             status[p][c] \in Linked, status[c][p] # "none"
      PROVE  Content(c) = Content(p)
  <2> DEFINE q == chan[p][c]
             x == Age(c)
             y == Age(p)
             sync == status[p][c] \in Linked
  <2>1. Flow(now, V, q, x, y, sync) /\ sync
    BY <1>2, <1>8 DEF Agreed, Fed
  <2>2. q \in Seq(Msg) /\ q = <<>> /\ x \in Nat /\ y \in Nat /\ now \in Int
    <3>1. q \in Seq(Msg) /\ q = <<>>
      BY <1>4, <1>8
    <3>2. x \in Nat /\ y \in Nat
      BY <1>0, AgeType
    <3>3. now \in Int
      BY <1>0 DEF TypeOK
    <3> QED BY <3>1, <3>2, <3>3
  <2> HIDE DEF q, x, y, sync
  <2>3. Eqv(now, V[x], V[y])
    BY <1>3, <2>1, <2>2, FlowEnd
  <2>4. Eqv(now, V[Age(c)], V[Age(p)])
    BY <2>3 DEF x, y
  <2> QED
    BY <1>0, <1>3, <2>4, SameContent
<1>9. Down(A, s, n) \/ Down(A, n, s)
  BY <1>0, <1>6, DownOne
<1> QED
  BY <1>4, <1>6, <1>7, <1>8, <1>9

(* The whole step. *)
LEMMA GlineStep ==
  ASSUME GlineAssumption, Rules, GlineInv, [Next]_vars
  PROVE  GlineInv'
<1>0. TypeOK /\ Paired /\ now <= Start + OneMonth /\ Tree /\ MaxNow <= Start + OneMonth
  BY DEF GlineInv, Rules
<1>1. TypeOK'
  BY <1>0, TypeStep
<1>2. Paired'
  BY <1>0, PairedStep
<1>3. OneHistory'
  BY <1>1, HistoryStep
<1>4. now' <= Start + OneMonth
  <2>1. CASE now' = now
    BY <1>0, <2>1
  <2>2. CASE Tick
    BY <1>0, <2>2 DEF Tick, TypeOK, GlineAssumption
  <2>3. \A s \in Servers : Commands(s) \/ register_user(s) \/ m_quit(s) => now' = now
    BY <1>0, CommandType, SMTT(60) DEF register_user, m_quit
  <2>4. \A s, n \in Servers : Receive(s, n) \/ Connect(s, n) \/ Break(s, n) => now' = now
    BY DEF Receive, Connect, Break
  <2> QED
    BY <2>1, <2>2, <2>3, <2>4 DEF Next, vars
<1> QED
  BY <1>1, <1>2, <1>3, <1>4 DEF GlineInv

(* When no message is in flight, the two ends of every link have the same  *)
(* running G-line (gline_add, gline_modify, gline_resend, gline_burst and  *)
(* the checks of lastmod in them), whatever was lost with broken links and *)
(* burst again: as long as one server makes the changes, none of them in   *)
(* the short form, and messages arrive within the second (clean).  Tree:   *)
(* IRC networks have no cycles.  A server's changes are an operator's or   *)
(* the services', not both: an operator's change of the reason of a G-line *)
(* that services have set for longer than GLINE_MAX_EXPIRE passes on its   *)
(* own server and is refused by the others.  No more than a month passes:  *)
(* gliter forgets a record that ended a month ago before its life ends,    *)
(* and a server that was split off may bring it back.                      *)
THEOREM NeighboursAgree ==
  ASSUME Tree, Opers \cap Services = {}, MaxNow <= Start + OneMonth
  PROVE  Spec => []QuietMeansAgreed
<1> USE GlineAssumption
<1>0. Rules
  BY DEF Rules
<1>1. Init => GlineInv
  <2> SUFFICES ASSUME Init PROVE GlineInv
    OBVIOUS
  <2>1. TypeOK
    BY TypeInit
  <2>2. Paired
    BY PairedInit
  <2>3. now <= Start + OneMonth
    BY DEF Init, GlineAssumption
  <2>4. OneHistory
    BY <2>1, AgreedInit DEF OneHistory
  <2> QED
    BY <2>1, <2>2, <2>3, <2>4 DEF GlineInv
<1>2. GlineInv /\ [Next]_vars => GlineInv'
  BY <1>0, GlineStep
<1>3. GlineInv => QuietMeansAgreed
  BY <1>0, InvAgrees
<1> QED
  BY <1>1, <1>2, <1>3, PTL DEF Spec
=============================================================================
