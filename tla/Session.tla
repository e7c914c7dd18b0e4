------------------------------ MODULE Session -------------------------------
(***************************************************************************)
(* What a client and its server agree on with CAP (m_cap.c), and the AWAYs *)
(* of another user (m_away.c), which the client hears while it has         *)
(* away-notify.  The client's requests and the server's answers each keep  *)
(* their order.  The flags of capab_list are parameters; but for "none",   *)
(* which is prohibited, no capability of the list has one.                 *)
(***************************************************************************)
EXTENDS Naturals, Sequences, FiniteSets, SequencesExt

CONSTANTS
  Caps, Sticky, Proto, Prohibit,  \* capabilities, and those with a flag of capab_list
  Texts,                          \* away messages
  MaxPending                      \* bound: requests that are not answered

VARIABLES req,    \* requests of the client that the server has not read
          ans,    \* answers that the client has not read
          capab, active,          \* cli_capab, cli_active
          view,   \* the capabilities the client thinks it has
          away, farAway,          \* someone's away message: at his server, and at another
          heard   \* what the client knows of it, as long as it has away-notify

cvars == <<req, ans, capab, active, view, away, farAway, heard>>
-----------------------------------------------------------------------------
Unknown == "unknown"   \* a name that capab_list does not have
Here == "here"         \* not away
Notify == "away-notify"
Nothing == "nothing"   \* the client knows nothing

(* find_cap, for each name of a list: [c, neg]. *)
Refuses(x) == x.c = Unknown \/ (~x.neg /\ x.c \in Prohibit) \/ (x.neg /\ x.c \in Sticky)
OneCap(s, x) ==
  LET now == x.c \notin Proto
  IN  IF x.neg THEN [cs |-> s.cs \ {x.c}, as |-> IF now THEN s.as \ {x.c} ELSE s.as, set |-> s.set \ {x.c}, rem |-> s.rem \cup {x.c}]
      ELSE [cs |-> s.cs \cup {x.c}, as |-> IF now THEN s.as \cup {x.c} ELSE s.as, set |-> s.set \cup {x.c}, rem |-> s.rem \ {x.c}]
Answer(sub, set, rem) == Append(ans, [sub |-> sub, set |-> set, rem |-> rem])

(* All of a request or nothing. *)
cap_req(list) ==
  LET s == FoldLeft(OneCap, [cs |-> capab, as |-> active, set |-> {}, rem |-> {}], list)
  IN  IF \E k \in DOMAIN list : Refuses(list[k])
      THEN ans' = Answer("NAK", {}, {}) /\ UNCHANGED <<capab, active>>
      ELSE ans' = Answer("ACK", s.set, s.rem) /\ capab' = s.cs /\ active' = s.as
(* The client confirms; what it has not asked for is passed over. *)
OneAck(as, x) ==
  IF x.c = Unknown \/ (x.c \in capab) = x.neg THEN as
  ELSE IF x.neg THEN (IF x.c \in Sticky THEN as ELSE as \ {x.c})
  ELSE IF x.c \in Prohibit THEN as ELSE as \cup {x.c}
cap_ack(list) == active' = FoldLeft(OneAck, active, list) /\ UNCHANGED <<capab, ans>>
cap_clear ==
  LET gone == capab \ Sticky
  IN  /\ capab' = capab \ gone
      /\ active' = active \ (gone \ Proto)
      /\ ans' = Answer("ACK", {}, gone)
m_cap ==
  LET r == Head(req)
  IN  /\ req # <<>>
      /\ CASE r.sub = "REQ" -> cap_req(r.list) [] r.sub = "ACK" -> cap_ack(r.list) [] r.sub = "CLEAR" -> cap_clear
      /\ req' = Tail(req)
      /\ UNCHANGED <<view, away, farAway, heard>>

(* The client asks; it follows the answers and confirms what needs it.     *)
(* Without away-notify it trusts no AWAY it has heard.                     *)
View(v, a) == IF a.sub = "AWAY" THEN v ELSE (v \ a.rem) \cup a.set
Ask(r) ==
  /\ Len(req) + Len(ans) < MaxPending
  /\ req' = Append(req, r)
  /\ UNCHANGED <<ans, capab, active, view, away, farAway, heard>>
ReadAnswer ==
  LET a == Head(ans)
      L == SetToSeq((a.set \cup a.rem) \cap Proto)
      acks == [k \in DOMAIN L |-> [c |-> L[k], neg |-> L[k] \in a.rem]]
  IN  /\ ans # <<>>
      /\ ans' = Tail(ans)
      /\ view' = View(view, a)
      /\ req' = IF a.sub = "ACK" /\ acks # <<>> THEN Append(req, [sub |-> "ACK", list |-> acks]) ELSE req
      /\ heard' = IF Notify \notin view' THEN Nothing ELSE IF a.sub = "AWAY" THEN a.text ELSE heard
      /\ UNCHANGED <<capab, active, away, farAway>>

(* AWAY: another server hears of it when it begins and when it ends, who   *)
(* asked for it each time.                                                 *)
m_away(text) ==
  /\ Len(ans) < MaxPending
  /\ away' = text
  /\ farAway' = IF text = Here THEN Here ELSE IF away = Here THEN text ELSE farAway
  /\ ans' = IF Notify \in active THEN Append(ans, [sub |-> "AWAY", set |-> {}, rem |-> {}, text |-> text]) ELSE ans
  /\ UNCHANGED <<req, capab, active, view, heard>>
-----------------------------------------------------------------------------
Lists == LET One == [c : Caps \cup {Unknown}, neg : BOOLEAN] IN {<<a, b>> : a, b \in One}

SsInit ==
  /\ req = <<>> /\ ans = <<>> /\ capab = {} /\ active = {} /\ view = {}
  /\ away = Here /\ farAway = Here /\ heard = Nothing

SsNext ==
  \/ \E l \in Lists : Ask([sub |-> "REQ", list |-> l])
  \/ Ask([sub |-> "CLEAR", list |-> <<>>])
  \/ m_cap \/ ReadAnswer
  \/ \E t \in Texts \cup {Here} : m_away(t)
-----------------------------------------------------------------------------
(* When every request is answered and every answer is confirmed, client    *)
(* and server mean the same capabilities, those that need confirmation     *)
(* too: a refused request changed nothing (cap_req, cap_ack, cap_clear).   *)
CapsAgree == req = <<>> /\ ans = <<>> => view = capab /\ active = capab

(* A client hears AWAYs exactly while it thinks that it has away-notify,   *)
(* so that what it knows, once it has read everything, is how things are;  *)
(* and other servers know whether someone is away, though not with which   *)
(* of his messages (m_away, sendcmdto_common_channels_capab_butone).       *)
AwayIsKnown ==
  /\ \A k \in DOMAIN ans : ans[k].sub = "AWAY" => Notify \in FoldLeft(View, view, SubSeq(ans, 1, k - 1))
  /\ ans = <<>> => heard \in {away, Nothing}
  /\ farAway = Here <=> away = Here
=============================================================================
