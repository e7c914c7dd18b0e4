------------------------------- MODULE Umode --------------------------------
(***************************************************************************)
(* User modes and operator status of the users of one server, and what     *)
(* another server knows of them: MODE, SVSMODE, OPER, OPMODE, the events   *)
(* of the DDB tables of nicks and operators, and the counts of operators   *)
(* and of invisible users that each server keeps (s_user.c, m_oper.c,      *)
(* m_opmode.c, client.c, ddb_events.c).                                    *)
(* Other modes are set and cleared as "w" is.  A MODE sent to the other    *)
(* server is done there before the next step: only the home of a user      *)
(* changes his modes, so that nothing crosses it.                          *)
(***************************************************************************)
EXTENDS Naturals, Integers, Sequences, FiniteSets, SequencesExt, FiniteSetsExt

CONSTANTS
  Users,
  MaxOther   \* bound: OPMODEs, SVSMODEs and DDB events of a behaviour

VARIABLES me,     \* the users, at home
          far,    \* the modes that the other server knows; None if it does not know the user
          opers,  \* UserStats.opers on each server
          inv,    \* UserStats.inv_clients on each server
          other,  \* how often OPMODE, SVSMODE or the DDB was used
          excess, \* what the steps that miscount have added to opers[1]
          kept    \* the users who keep an operator's rights that the DDB ended

uvars == <<me, far, opers, inv, other, excess, kept>>
-----------------------------------------------------------------------------
None == {"none"}
Global == {"o", "i", "w", "r", "a"}   \* modes that other servers are told of
Notices == {"user", "oper"}           \* server notices; the latter for operators only
IsAnOper(x) == x.flags \cap {"o", "O"} # {}
Gone == [reg |-> "gone", flags |-> {}, cmd |-> FALSE, priv |-> "none", handler |-> "CLIENT", sno |-> {}]
(* The operator blocks and classes that client_set_privs reads give either. *)
Grants == {"global", "local"}

Allowed(x) == IF IsAnOper(x) THEN Notices ELSE {"user"}
set_snomask(x, mask) == [x EXCEPT !.sno = mask \cap Allowed(x)]

(* send_umode_out: the other server is told of the modes that changed, of  *)
(* "o" only if it propagates.  Its counts follow the flags.                *)
Told(old, new, prop, f) ==
  LET ch == {m \in Global : (m \in old) # (m \in new) /\ (m = "o" => prop)}
  IN  (f \ ch) \cup (ch \cap new)
Bit(b) == IF b THEN 1 ELSE 0
Change(m, f, g) == Bit(m \in g) - Bit(m \in f)
Send(u, new, prop) ==
  IF far[u] = None THEN UNCHANGED far ELSE far' = [far EXCEPT ![u] = Told(me[u].flags, new, prop, @)]
(* Both counts after user u got the record x; here operators change by d.  *)
Counted(u, x, d) ==
  LET f == IF far[u] = None THEN {} ELSE far[u]
      g == IF far'[u] = None THEN {} ELSE far'[u]
      here == x.reg = "user"
  IN  /\ opers' = [opers EXCEPT ![1] = @ + d, ![2] = @ + Change("o", f, g)]
      /\ inv' = [inv EXCEPT ![1] = @ + (IF here THEN Change("i", me[u].flags, x.flags) ELSE 0), ![2] = @ + Change("i", f, g)]
-----------------------------------------------------------------------------
(* set_user_mode: the letters in order; tmp is the mask of notices.        *)
Letter(a, c) ==
  LET x == a.x
      mask == IF c.mask = None THEN (IF c.add THEN {"user"} ELSE {})
              ELSE (IF c.add THEN c.mask ELSE a.tmp \ c.mask) \cap Allowed(x)
  IN  CASE c.f = "s" -> [tmp |-> mask, x |-> [x EXCEPT !.flags = IF mask = {} THEN @ \ {"s"} ELSE @ \cup {"s"}]]
        [] c.f \in {"o", "O"} /\ ~c.add -> [tmp |-> x.sno \ {"oper"}, x |-> [x EXCEPT !.flags = @ \ {"o", "O"}]]
        [] OTHER -> [a EXCEPT !.x.flags = IF c.add THEN @ \cup {c.f} ELSE @ \ {c.f}]
Letters(x, cs) == FoldLeft(Letter, [tmp |-> x.sno, x |-> x], cs)

(* A user may not give himself operator status, an account or a role, nor  *)
(* server notices, which are for operators (HIS_SNOTICES_OPER_ONLY).       *)
Filtered(old, x) ==
  LET y == [x EXCEPT !.flags = @ \ ({"o", "O", "r", "a"} \ old.flags)]
  IN  IF "s" \notin old.flags /\ ~IsAnOper(y) THEN [y EXCEPT !.flags = @ \ {"s"}, !.sno = {}] ELSE y
Masked(x, tmp) ==
  IF "s" \notin x.flags THEN set_snomask(x, {}) ELSE IF tmp # x.sno THEN set_snomask(x, tmp) ELSE x
Deopered(old, x) == old.flags \cap {"o", "O"} # {} /\ ~IsAnOper(x)
(* Mutant: a local operator who steps down is taken off the count too. *)
OpersChangeAny(old, x) == IF Deopered(old, x) THEN -1 ELSE Bit("o" \in x.flags \ old.flags)
OpersChange(old, x) ==
  IF Deopered(old, x) THEN -Bit("o" \in old.flags) ELSE Bit("o" \in x.flags \ old.flags)
Other == other < MaxOther /\ other' = other + 1
(* The steps that miscount: -o of a user who then has O; OPER, or an       *)
(* operator record of the DDB, of one who has o; the DDB's drop of one.    *)
Miscounts(n) == excess' = excess + n
(* The record after the letters (a, see Letter), with its rights; SVSMODE  *)
(* filters nothing.                                                        *)
Rights(old, x) ==
  IF old.reg = "user" /\ ("o" \in x.flags \ old.flags \/ Deopered(old, x)) THEN [x EXCEPT !.priv = "none"] ELSE x
Handled(old, x) == IF Deopered(old, x) THEN [x EXCEPT !.handler = "CLIENT"] ELSE x
Moded(old, a, svs) == Rights(old, Masked(Handled(old, IF svs THEN a.x ELSE Filtered(old, a.x)), a.tmp))
Propagates(old, x) == "o" \notin x.flags \ old.flags /\ old.priv = "global"
SetModes(u, old, new) ==
  /\ me' = [me EXCEPT ![u] = new]
  /\ Send(u, new.flags, Propagates(old, new))
  /\ Counted(u, new, IF old.reg = "user" THEN OpersChange(old, new) ELSE 0)
  /\ Miscounts(Bit(old.reg = "user" /\ "o" \in old.flags \ new.flags /\ "O" \in new.flags))
  /\ UNCHANGED kept
set_user_mode(u, cs, svs) ==
  /\ me[u].reg # "gone"
  /\ IF svs THEN me[u].reg = "user" /\ Other ELSE UNCHANGED other
  /\ SetModes(u, me[u], Moded(me[u], Letters(me[u], cs), svs))

connect(u) ==
  /\ me[u].reg = "gone"
  /\ me' = [me EXCEPT ![u] = [Gone EXCEPT !.reg = "unknown"]]
  /\ UNCHANGED <<far, opers, inv, other, excess, kept>>
(* The modes that USER asked for count now; the DDB may know the nick.     *)
register_user(u, account) ==
  LET x == [me[u] EXCEPT !.reg = "user", !.flags = @ \cup account]
  IN  /\ me[u].reg = "unknown"
      /\ me' = [me EXCEPT ![u] = x]
      /\ far' = [far EXCEPT ![u] = (x.flags \cap Global) \ {"o"}]
      /\ opers' = [opers EXCEPT ![1] = @ + Bit("o" \in x.flags)]
      /\ inv' = [s \in 1..2 |-> inv[s] + Bit("i" \in x.flags)]
      /\ UNCHANGED <<other, excess, kept>>
exit_one_client(u) ==
  LET x == me[u]
      f == IF far[u] = None THEN {} ELSE far[u]
      n(m, s) == Bit(x.reg = "user" /\ m \in (IF s = 1 THEN x.flags ELSE f))
  IN  /\ x.reg # "gone"
      /\ me' = [me EXCEPT ![u] = Gone]
      /\ far' = [far EXCEPT ![u] = None]
      /\ opers' = [s \in 1..2 |-> opers[s] - n("o", s)]
      /\ inv' = [s \in 1..2 |-> inv[s] - n("i", s)]
      /\ kept' = kept \ {u}
      /\ UNCHANGED <<other, excess>>

(* What each way of becoming an operator gives. *)
Opered(x) == set_snomask([x EXCEPT !.handler = "OPER", !.flags = @ \cup {"w", "s"}], x.sno \cup {"user"})
(* OPER, of users that have the handlers of plain users. *)
m_oper(u, p) ==
  LET old == me[u]
      x == [old EXCEPT !.cmd = TRUE, !.priv = p, !.flags = IF p = "global" THEN (@ \ {"O"}) \cup {"o"} ELSE @ \cup {"O"}]
  IN  /\ old.reg = "user" /\ old.handler = "CLIENT"
      /\ me' = [me EXCEPT ![u] = Opered(x)]
      /\ Send(u, Opered(x).flags, p = "global")
      /\ Counted(u, Opered(x), Bit(p = "global"))
      /\ Miscounts(Bit(p = "global" /\ "o" \in old.flags))
      /\ UNCHANGED <<other, kept>>
(* OPMODE, of a server trusted with it.  Its -o is not passed on. *)
make_oper(u, p) ==
  LET x == Opered([me[u] EXCEPT !.flags = @ \cup {"o"}, !.priv = p])
  IN  /\ Other /\ me[u].reg = "user" /\ "o" \notin me[u].flags
      /\ me' = [me EXCEPT ![u] = x]
      /\ Send(u, x.flags, p = "global")
      /\ Counted(u, x, 1)
      /\ UNCHANGED <<excess, kept>>
de_oper(u) ==
  LET x == [me[u] EXCEPT !.flags = @ \ {"o", "s"}, !.handler = "CLIENT", !.sno = {}, !.priv = "none"]
  IN  /\ Other /\ me[u].reg = "user" /\ "o" \in me[u].flags
      /\ me' = [me EXCEPT ![u] = x]
      /\ UNCHANGED far
      /\ Counted(u, x, -1)
      /\ UNCHANGED <<excess, kept>>
-----------------------------------------------------------------------------
(* The DDB: the nick of a user is dropped or suspended, or its operator    *)
(* record is deleted or set.                                               *)
nickreg_clear_modeprivs(x) ==
  IF x.cmd THEN [x EXCEPT !.flags = @ \ {"a"}, !.priv = "none"]
  ELSE [x EXCEPT !.flags = @ \ {"a", "O", "s"}, !.handler = "CLIENT", !.sno = {}, !.priv = "none"]
ClearedCount(x) == IF ~x.cmd /\ "o" \in x.flags THEN -1 ELSE 0
ddb_events_nick(u, clear) ==
  LET x == [nickreg_clear_modeprivs(me[u]) EXCEPT !.flags = @ \ clear]
  IN  /\ Other /\ me[u].reg = "user" /\ "r" \in me[u].flags
      /\ me' = [me EXCEPT ![u] = x]
      /\ Send(u, x.flags, TRUE)
      /\ Counted(u, x, ClearedCount(me[u]))
      /\ Miscounts(ClearedCount(me[u]))
      /\ UNCHANGED kept
ddb_events_oper_deleted(u) == "a" \in me[u].flags /\ ddb_events_nick(u, {})
nickreg_set_modeprivs(x, modes, p) ==
  LET y == [x EXCEPT !.flags = @ \cup modes] IN IF IsAnOper(y) THEN [Opered(y) EXCEPT !.priv = p] ELSE y
ddb_events_oper_set(u, modes, p) ==
  LET old == me[u]
      x == [old EXCEPT !.flags = @ \ (IF old.cmd THEN {"a"} ELSE {"a", "o", "O"})]
      y == nickreg_set_modeprivs(x, modes, p)
  IN  /\ Other /\ old.reg = "user" /\ "r" \in old.flags
      /\ me' = [me EXCEPT ![u] = y]
      /\ Send(u, y.flags, TRUE)
      /\ Counted(u, y, ClearedCount(old) + Bit("o" \in modes))
      /\ Miscounts(Bit("o" \in x.flags \cap modes))
      /\ kept' = IF IsAnOper(old) /\ ~IsAnOper(y) THEN kept \cup {u} ELSE kept
-----------------------------------------------------------------------------
Asked == [f : {"o", "O", "i"}, add : BOOLEAN, mask : {None}] \cup [f : {"s"}, add : BOOLEAN, mask : {None, Notices}]

UmInit ==
  /\ me = [u \in Users |-> Gone]
  /\ far = [u \in Users |-> None]
  /\ opers = [s \in 1..2 |-> 0]
  /\ inv = [s \in 1..2 |-> 0]
  /\ other = 0 /\ excess = 0 /\ kept = {}

UmNext ==
  \E u \in Users :
    \/ connect(u) \/ exit_one_client(u)
    \/ register_user(u, {}) \/ register_user(u, {"r"})
    \/ \E a, b \in Asked : set_user_mode(u, <<a, b>>, FALSE)
    \/ \E a \in Asked : set_user_mode(u, <<a>>, TRUE)
    \/ \E p \in Grants : m_oper(u, p) \/ make_oper(u, p)
    \/ de_oper(u)
    \/ ddb_events_nick(u, {"r"}) \/ ddb_events_oper_deleted(u)
    \/ \E modes \in {{"a"}, {"o"}, {"a", "O"}}, p \in Grants : ddb_events_oper_set(u, modes, p)
-----------------------------------------------------------------------------
(* Each server's counts of invisible users and of operators are right,     *)
(* however users become operators and stop being it; the home count of     *)
(* operators is off by what the miscounts that Miscounts names have added, *)
(* and by nothing else (UserStats in s_user.c, m_oper.c, m_opmode.c,       *)
(* s_misc.c, ddb_events.c).                                                *)
OpersCounted ==
  /\ opers[1] = Cardinality({u \in Users : me[u].reg = "user" /\ "o" \in me[u].flags}) + excess
  /\ opers[2] = Cardinality({u \in Users : "o" \in far[u]})
  /\ inv[1] = Cardinality({u \in Users : me[u].reg = "user" /\ "i" \in me[u].flags})
  /\ inv[2] = Cardinality({u \in Users : "i" \in far[u]})

(* What an operator gets ends with his status, whoever ended it: the       *)
(* handlers and privileges of an operator and the notices for operators    *)
(* (set_user_mode, de_oper, set_snomask, nickreg_clear_modeprivs); only a  *)
(* DDB record that no longer makes him one leaves them, until he leaves.   *)
RightsEnd ==
  \A u \in Users \ kept :
    ~IsAnOper(me[u]) => me[u].handler = "CLIENT" /\ me[u].priv = "none" /\ "oper" \notin me[u].sno

(* The count of operators is right.  Does not hold: s_user.c, lines 800    *)
(* (the user stays an operator), 720 (he may be one already) and 1683 (he  *)
(* may keep +O), and m_oper.c, line 130, after SVSMODE +o.                 *)
NoneMiscounted == excess = 0

(* The DDB ends the rights with the status.  Does not hold: an operator    *)
(* whose record is replaced by one without +o and +O keeps the handlers    *)
(* and privileges of an operator (ddb_events.c, line 299).                 *)
NoneKept == kept = {}

(* The assertion of exit_one_client: an operator who leaves was counted.   *)
(* Does not hold: a user whose nick the DDB drops is no longer counted and *)
(* is still an operator (nickreg_clear_modeprivs, s_user.c, line 800).     *)
OpersAsserted == \A u \in Users : me[u].reg = "user" /\ "o" \in me[u].flags => opers[1] > 0
=============================================================================
