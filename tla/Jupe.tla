-------------------------------- MODULE Jupe --------------------------------
(***************************************************************************)
(* Jupes, the bans of one server name (jupe.c, m_jupe.c, the check of      *)
(* mr_server and the burst of server_estab).  The servers 1, 2, ... are a  *)
(* line; the juped server is not one of them and may link to any of them.  *)
(* Messages between neighbours arrive in order; a link may break and come  *)
(* up again, with a burst.  Reasons and privileges are left out.           *)
(*                                                                         *)
(* A clock with the resolution of a second orders the changes: a command   *)
(* takes the next second, so that no two changes have the same lastmod     *)
(* from the clock.  (Two in one second would each be kept where they were  *)
(* made: ms_jupe ignores a change with an equal lastmod.)                  *)
(***************************************************************************)
EXTENDS Integers, Sequences

CONSTANTS
    Servers,      \* 1..n, neighbours are numbers next to each other
    Terms,        \* expirations an operator gives, in seconds
    MAX_EXPIRE,   \* JUPE_MAX_EXPIRE
    LocalOps,     \* the servers that a jupe may be changed for alone
    Uplinks,      \* the servers with a Connect block of the juped server
    MaxOps,       \* bound: commands
    MaxBreaks,    \* bound: links that break
    Pause,        \* seconds that pass without a command
    MaxPauses     \* bound: pauses

VARIABLES
    ju,           \* server -> its jupe of the name, or None
    on,           \* server -> is the juped server linked to it?
    link,         \* <<s, n>> -> s's view of its link: "down", or burst, ack, up
    chan,         \* <<s, n>> -> messages on their way from s to n
    now,          \* TStime()
    lapsed,       \* history: has a global jupe expired?
    untold,       \* history: has one been changed and nobody told?
    used          \* the commands, breaks and pauses so far

jvars == <<ju, on, link, chan, now, lapsed, untold, used>>

None == [none |-> TRUE]
Near(s) == {n \in Servers : n = s + 1 \/ n = s - 1}
Pairs == {p \in Servers \X Servers : p[2] \in Near(p[1])}
Toward(s, t) == IF t > s THEN s + 1 ELSE s - 1
Up(s) == {n \in Near(s) : link[<<s, n>>] # "down"}
Spend(what, most) == used[what] < most /\ used' = [used EXCEPT ![what] = @ + 1]

(***************************************************************************)
(* The record.                                                             *)
(***************************************************************************)

JupeIsActive(j) == j # None /\ j.active /\ ~j.ldeact

\* jupe_find drops what has expired on its way.
jupe_find(s) == IF ju[s] = None \/ ju[s].expire <= now THEN None ELSE ju[s]

Msg(j) == [type |-> "JU", target |-> 0, active |-> j.active,
           expire |-> j.expire - now, lastmod |-> j.lastmod]

\* Messages of s to each of a set of neighbours, in addition to ch.
Sent(ch, s, to, m) ==
    [p \in Pairs |-> IF p[1] = s /\ p[2] \in to THEN Append(ch[p], m) ELSE ch[p]]

propagate_jupe(ch, s, from, j) ==
    IF j.local THEN ch ELSE Sent(ch, s, Up(s) \ {from}, Msg(j))

\* do_jupe: an active jupe closes the link to the juped server.
do_jupe(s, j) == on' = [on EXCEPT ![s] = @ /\ ~JupeIsActive(j)]

\* ch is what the queues hold once the message at hand is taken.
jupe_add(ch, s, from, m, local) ==
    IF m.expire <= 0 \/ m.expire > MAX_EXPIRE
    THEN /\ ju' = [ju EXCEPT ![s] = None]
         /\ chan' = ch
         /\ UNCHANGED on
    ELSE LET j == [expire |-> m.expire + now, lastmod |-> m.lastmod,
                   active |-> m.active, local |-> local, ldeact |-> FALSE]
         IN  /\ ju' = [ju EXCEPT ![s] = j]
             /\ chan' = propagate_jupe(ch, s, from, j)
             /\ do_jupe(s, j)

Newer(j, lastmod) == IF j.lastmod >= lastmod THEN j.lastmod + 1 ELSE lastmod

jupe_activate(ch, s, from, j, lastmod, local) ==
    LET new == IF local THEN [j EXCEPT !.ldeact = FALSE]
               ELSE [j EXCEPT !.active = TRUE, !.lastmod = Newer(j, lastmod)]
    IN  /\ ju' = [ju EXCEPT ![s] = new]
        /\ IF JupeIsActive(j)
           THEN chan' = ch /\ UNCHANGED on
           ELSE /\ chan' = IF local THEN ch ELSE propagate_jupe(ch, s, from, new)
                /\ do_jupe(s, new)

\* Mutant: a deactivation keeps the time of the last change.
DeactivateKeepsTime(ch, s, from, j, lastmod, local) ==
    /\ UNCHANGED on
    /\ IF j.local
       THEN /\ ju' = [ju EXCEPT ![s] = None]
            /\ chan' = ch
       ELSE LET new == IF local THEN [j EXCEPT !.ldeact = TRUE]
                       ELSE [j EXCEPT !.active = FALSE]
            IN  /\ ju' = [ju EXCEPT ![s] = new]
                /\ chan' = IF ~JupeIsActive(j) \/ local THEN ch
                           ELSE propagate_jupe(ch, s, from, new)

\* A jupe that was not active here is changed, and nobody is told.
jupe_deactivate(ch, s, from, j, lastmod, local) ==
    /\ UNCHANGED on
    /\ IF j.local
       THEN /\ ju' = [ju EXCEPT ![s] = None]
            /\ chan' = ch
       ELSE LET new == IF local THEN [j EXCEPT !.ldeact = TRUE]
                       ELSE [j EXCEPT !.active = FALSE,
                                      !.lastmod = Newer(j, lastmod)]
            IN  /\ ju' = [ju EXCEPT ![s] = new]
                /\ chan' = IF ~JupeIsActive(j) \/ local THEN ch
                           ELSE propagate_jupe(ch, s, from, new)

(***************************************************************************)
(* Commands and messages.                                                  *)
(***************************************************************************)

\* mo_jupe for every server (target 0), for this one or for another one.
mo_jupe(s, target, active, term) ==
    /\ Spend("ops", MaxOps)
    /\ now' = now + 1
    /\ target \in LocalOps \cup {0}
    /\ LET m == [type |-> "JU", target |-> target, active |-> active,
                 expire |-> term, lastmod |-> now]
           local == target = s
           j == jupe_find(s)
       IN  IF target \notin {0, s}
           THEN /\ chan' = Sent(chan, s, Up(s) \cap {Toward(s, target)}, m)
                /\ UNCHANGED <<ju, on>>
           ELSE IF j = None \/ (j.local /\ ~local)
           THEN jupe_add(chan, s, 0, m, local)
           ELSE IF active
           THEN jupe_activate(chan, s, 0, j, now, local)
           ELSE jupe_deactivate(chan, s, 0, j, now, local)
    /\ UNCHANGED link

jupe_resend(ch, s, from, j) ==
    IF j.local THEN ch ELSE Sent(ch, s, {from}, Msg(j))

ms_jupe(ch, s, from, m) ==
    LET local == m.target = s
        j == jupe_find(s)
    IN  IF m.target \notin {0, s}
        THEN /\ chan' = Sent(ch, s, Up(s) \cap {Toward(s, m.target)}, m)
             /\ UNCHANGED <<ju, on>>
        ELSE IF j = None \/ (j.local /\ ~local)
        THEN jupe_add(ch, s, from, m, local)
        ELSE IF j.lastmod < m.lastmod
        THEN IF m.active
             THEN jupe_activate(ch, s, from, j, m.lastmod, local)
             ELSE jupe_deactivate(ch, s, from, j, m.lastmod, local)
        ELSE /\ chan' = IF \/ j.lastmod = m.lastmod
                           \/ link[<<s, from>>] \in {"burst", "ack"}
                        THEN ch ELSE jupe_resend(ch, s, from, j)
             /\ UNCHANGED <<ju, on>>

\* ms_end_of_burst and ms_end_of_burst_ack of a neighbour.
ms_end_of_burst(ch, s, from, m) ==
    /\ link' = [link EXCEPT ![<<s, from>>] = IF m.type = "EB" THEN "ack" ELSE "up"]
    /\ chan' = IF m.type = "EB" THEN Sent(ch, s, {from}, [type |-> "EA"]) ELSE ch
    /\ UNCHANGED <<ju, on>>

Receive(from, s) ==
    /\ chan[<<from, s>>] # << >>
    /\ LET m  == Head(chan[<<from, s>>])
           ch == [chan EXCEPT ![<<from, s>>] = Tail(@)]
       IN  IF m.type = "JU"
           THEN ms_jupe(ch, s, from, m) /\ UNCHANGED link
           ELSE ms_end_of_burst(ch, s, from, m)
    /\ UNCHANGED <<now, used>>

\* jupe_burst: what has not expired and is not local.
jupe_burst(s) ==
    IF jupe_find(s) = None \/ ju[s].local THEN << >> ELSE <<Msg(ju[s])>>

\* server_estab at both ends.
server_estab(s, n) ==
    /\ link[<<s, n>>] = "down"
    /\ link' = [link EXCEPT ![<<s, n>>] = "burst", ![<<n, s>>] = "burst"]
    /\ chan' = [chan EXCEPT ![<<s, n>>] = Append(jupe_burst(s), [type |-> "EB"]),
                            ![<<n, s>>] = Append(jupe_burst(n), [type |-> "EB"])]
    /\ UNCHANGED <<ju, on, now, used>>

Break(s, n) ==
    /\ Spend("breaks", MaxBreaks)
    /\ link[<<s, n>>] # "down"
    /\ link' = [link EXCEPT ![<<s, n>>] = "down", ![<<n, s>>] = "down"]
    /\ chan' = [chan EXCEPT ![<<s, n>>] = << >>, ![<<n, s>>] = << >>]
    /\ UNCHANGED <<ju, on, now>>

\* mr_server: the juped server, or try_connections of s to it.
mr_server(s) ==
    /\ s \in Uplinks /\ ~on[s]
    /\ on' = [on EXCEPT ![s] = ~JupeIsActive(jupe_find(s))]
    /\ UNCHANGED <<ju, link, chan, now, used>>

JuInit ==
    /\ ju = [s \in Servers |-> None]
    /\ on = [s \in Servers |-> FALSE]
    /\ link = [p \in Pairs |-> "up"]
    /\ chan = [p \in Pairs |-> << >>]
    /\ now = 1 /\ lapsed = FALSE /\ untold = FALSE
    /\ used = [ops |-> 0, breaks |-> 0, pauses |-> 0]

\* Seconds pass; the records that expire are dropped when they are met.
Tick ==
    /\ Spend("pauses", MaxPauses)
    /\ now' = now + Pause
    /\ UNCHANGED <<ju, on, link, chan>>

\* History: a global jupe runs out on a server.
Lapse == \E s \in Servers : ju'[s] # None /\ ~ju'[s].local /\ ju'[s].expire <= now'

\* History: a server changes a jupe of all servers and tells nobody.  Either
\* it had put the jupe out of force for itself alone and now ends it: it was
\* inactive there to begin with, so that jupe_deactivate returns before it
\* tells the others.  Or it repeats a change, which only makes its time newer,
\* while a link bursts: what the burst said is older, and the answer to what
\* the other server has is left out during a burst.
Untold ==
    \E s \in Servers :
        /\ ju[s] # None /\ ju'[s] # None
        /\ \/ ju[s].active /\ ju[s].ldeact /\ ~ju'[s].active
           \/ /\ ju[s].lastmod # ju'[s].lastmod /\ ju[s].active = ju'[s].active
              /\ \E n \in Near(s) : link[<<s, n>>] \in {"burst", "ack"}

JuNext ==
    /\ \/ \E s \in Servers, t \in Servers \cup {0}, a \in BOOLEAN, e \in Terms :
             mo_jupe(s, t, a, e)
       \/ \E p \in Pairs : Receive(p[1], p[2])
       \/ \E p \in Pairs : server_estab(p[1], p[2])
       \/ \E p \in Pairs : Break(p[1], p[2])
       \/ \E s \in Servers : mr_server(s)
       \/ Tick
    /\ lapsed' = (lapsed \/ Lapse)
    /\ untold' = (untold \/ Untold)

(***************************************************************************)
(* Properties.                                                             *)
(***************************************************************************)

\* A server on which a jupe is active has no link to the juped server,
\* whichever way the jupe came: a command, a message, a burst, a global jupe
\* in the place of a local one, or a local deactivation taken back.
JupedStaysOut == \A s \in Servers : JupeIsActive(jupe_find(s)) => ~on[s]

Quiet == \A p \in Pairs : chan[p] = << >> /\ link[p] = "up"

Agreed == \A s, t \in Servers :
    LET a == jupe_find(s)
        b == jupe_find(t)
    IN  a # None /\ ~a.local => b # None /\ ~b.local /\ a.active = b.active

\* When every message has arrived, a global jupe of one server is one of every
\* server and all agree whether it is active, after crossing commands, local
\* changes, lost links and bursts: the answer of jupe_resend reaches whoever
\* has an older state.  Two cases are left out.  Once a jupe has expired: the
\* seconds left are counted from the arrival of a message, so that an old
\* record may outlive a newer one.  And after a change of which nobody was
\* told (Untold).
QuietMeansAgreed == Quiet /\ ~lapsed /\ ~untold => Agreed

\* False of the code: that the servers agree after those changes as well
\* (jupe.c:207 and 259).  An operator puts a jupe out of force on one server,
\* and the same or another operator ends it there for all servers: the others
\* keep it in force.
NothingUntold == Quiet /\ ~lapsed => Agreed
=============================================================================
