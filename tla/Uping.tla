-------------------------------- MODULE Uping -------------------------------
(***************************************************************************)
(* UPING (uping.c): pings of servers that operators ask for.  A ping owns  *)
(* a socket and two timers, the sender and the killer; its memory is freed *)
(* when the events of all three are destroyed, which happens at once, or   *)
(* after the callback that runs (Events).                                  *)
(***************************************************************************)
EXTENDS Naturals, FiniteSets

CONSTANTS
  Clients, Pings,   \* operators, and names for pings
  Counts            \* how many packets they ask for

VARIABLES ping,     \* pingList: from pings to [client, sent, got, count, pend]
          flagged,  \* clients with IsUPing
          online,   \* clients that are here
          misused   \* freed memory was read or written

zvars == <<ping, flagged, online, misused>>
-----------------------------------------------------------------------------
(* r: a ping whose events are being destroyed: those left, whether the one *)
(* whose callback runs is marked (later), and whether the ping is freed or *)
(* was used after that.                                                    *)
Alive(p) == [pend |-> ping[p].pend, later |-> FALSE, freed |-> FALSE, bad |-> FALSE]
(* Mutant: the first event that is destroyed frees the ping. *)
DestroyFirst(r, g) == [pend |-> r.pend \ {g}, later |-> r.later, freed |-> TRUE, bad |-> r.bad \/ r.freed]
(* ET_DESTROY at one of the three callbacks. *)
Destroy(r, g) ==
  [pend |-> r.pend \ {g}, later |-> r.later, freed |-> r.freed \/ r.pend \ {g} = {}, bad |-> r.bad \/ r.freed]
(* socket_del, timer_del: run = the callback that runs. *)
Mark(r) == [pend |-> r.pend, later |-> TRUE, freed |-> r.freed, bad |-> r.bad \/ r.freed]
Del(r, g, run) == IF g = run THEN Mark(r) ELSE Destroy(r, g)
Touched(r) == [pend |-> r.pend, later |-> r.later, freed |-> r.freed, bad |-> r.bad \/ r.freed]
Drop(r, g, run) == IF g \in r.pend THEN Del(r, g, run) ELSE Touched(r)
uping_end(r, run) == Drop(Drop(Drop(r, "socket", run), "sender", run), "killer", run)
(* The event loop, after the callback. *)
After(r, run) == IF r.later THEN Destroy(r, run) ELSE r

Without(ps) == [x \in DOMAIN ping \ ps |-> ping[x]]
(* A callback ends its ping: nothing of it may be freed before the end of  *)
(* the callback, everything must be after it.                              *)
End(p, run) ==
  LET r == uping_end(Alive(p), run)
      e == After(r, run)
  IN  /\ ping' = Without({p}) /\ flagged' = flagged \ {ping[p].client}
      /\ misused' = (misused \/ r.freed \/ e.bad \/ ~e.freed)
(* Out of any callback of the ping. *)
Cancelled(ps) == \E p \in ps : LET r == uping_end(Alive(p), "none") IN r.bad \/ ~r.freed
-----------------------------------------------------------------------------
(* The sender: a packet, or an error that ends the ping; the timer goes    *)
(* with the last packet.                                                   *)
uping_sender_callback(p, ok) ==
  LET last == ping[p].sent + 1 = ping[p].count
      r == IF last THEN After(Del(Alive(p), "sender", "sender"), "sender") ELSE Alive(p)
  IN  /\ "sender" \in ping[p].pend
      /\ IF ok THEN /\ ping' = [ping EXCEPT ![p].sent = @ + 1, ![p].pend = r.pend]
                    /\ misused' = (misused \/ r.freed) /\ UNCHANGED flagged
         ELSE End(p, "sender")
      /\ UNCHANGED online
(* A reply, of whoever sends one, or an error. *)
uping_read_callback(p, ok) ==
  /\ IF ok /\ ping[p].got + 1 < ping[p].count
     THEN ping' = [ping EXCEPT ![p].got = @ + 1] /\ UNCHANGED <<flagged, misused>>
     ELSE End(p, "socket")
  /\ UNCHANGED online
(* No reply for UPINGTIMEOUT. *)
uping_killer_callback(p) == End(p, "killer") /\ UNCHANGED online

Of(c) == {p \in DOMAIN ping : ping[p].client = c}
uping_cancel(c) ==
  ping' = Without(Of(c)) /\ flagged' = flagged \ {c} /\ misused' = (misused \/ Cancelled(Of(c)))

(* Another UPING of the same client ends the first; sock = there is a      *)
(* socket for it.                                                          *)
uping_server(c, p, n, sock) ==
  /\ c \in online /\ p \notin DOMAIN ping \ Of(c)
  /\ LET old == IF c \in flagged THEN Of(c) ELSE {}
         kept == Without(old)
         new == [client |-> c, sent |-> 0, got |-> 0, count |-> n, pend |-> {"socket"} \cup {"sender", "killer"}]
     IN  /\ ping' = IF sock THEN [x \in DOMAIN kept \cup {p} |-> IF x = p THEN new ELSE kept[x]] ELSE kept
         /\ flagged' = IF sock THEN flagged \cup {c} ELSE flagged \ {c}
         /\ misused' = (misused \/ Cancelled(old))
  /\ UNCHANGED online

exit_one_client(c) ==
  /\ c \in online /\ online' = online \ {c}
  /\ IF c \in flagged THEN uping_cancel(c) ELSE UNCHANGED <<ping, flagged, misused>>
Return(c) == c \notin online /\ online' = online \cup {c} /\ UNCHANGED <<ping, flagged, misused>>
-----------------------------------------------------------------------------
UpInit == ping = <<>> /\ flagged = {} /\ online = Clients /\ misused = FALSE
UpNext ==
  \/ \E c \in Clients : exit_one_client(c) \/ Return(c)
  \/ \E c \in Clients, p \in Pings, n \in Counts, s \in BOOLEAN : uping_server(c, p, n, s)
  \/ \E p \in DOMAIN ping : uping_killer_callback(p)
  \/ \E p \in DOMAIN ping, ok \in BOOLEAN : uping_sender_callback(p, ok) \/ uping_read_callback(p, ok)
UpSpec == UpInit /\ [][UpNext]_zvars
-----------------------------------------------------------------------------
(* Whichever callback ends a ping, and whichever of its three events are   *)
(* gone by then, its memory is freed, once, after the last use of it; and  *)
(* a ping on the list belongs to a client that is here and carries the     *)
(* flag by which its exit finds the ping (uping_end, uping_cancel).        *)
PingsAreOwned ==
  /\ ~misused
  /\ \A p \in DOMAIN ping : ping[p].client \in online \cap flagged
  /\ \A c \in flagged : Cardinality(Of(c)) = 1
=============================================================================
