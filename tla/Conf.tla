-------------------------------- MODULE Conf --------------------------------
(***************************************************************************)
(* The configuration and what holds on to it (s_conf.c, class.c,           *)
(* listener.c, with their callers in s_bsd.c, s_auth.c, m_server.c,        *)
(* m_oper.c, m_webirc.c and ircd.c).  A client points to the blocks that   *)
(* let it in, to the port it came through and to the WebIRC line that      *)
(* vouched for it; a block points to its class; a name lookup points to    *)
(* the block that asked for it.  REHASH takes all of them away and reads   *)
(* the file again while the clients stay.                                  *)
(*                                                                         *)
(* A structure is Free or a record; an item number names a piece of        *)
(* memory, and a number is given out again once it is free.  A class is    *)
(* named by its name, a listener by its port and a WebIRC line by its      *)
(* address and password, which is how the code finds them again.           *)
(* Matching names, hosts, passwords and fingerprints is a free choice.     *)
(***************************************************************************)
EXTENDS Naturals, FiniteSets

CONSTANTS
    Clients,     \* client structures
    Items,       \* ConfItem structures
    Kind,        \* block -> "CLIENT", "OPERATOR", "SERVER" or "UWORLD"
    ClassOf,     \* block -> class name, "none" for a UWORLD block
    MaxLinks,    \* class name -> maxlinks, 0 for no limit
    Rank,        \* the order of the blocks in the file, 1..n
    Named,       \* SERVER blocks whose host is a name, to be looked up
    Files,       \* the configuration files an operator may write
    Families,    \* address families a port may be configured for
    MaxRehash    \* bound: how often the file is read again

VARIABLES
    conf,        \* item -> ConfItem
    held,        \* <<client, item>>: cli_confs
    cls,         \* class name -> ConnectionClass
    port,        \* port -> Listener
    wline,       \* WebIRC line -> struct wline
    cl,          \* client -> its state, name, cli_listener and cli_wline
    asked,       \* <<item, who asked>>: lookups the resolver has not answered
    broken,      \* freed memory has been used as a live structure
    rehashes

cfvars == <<conf, held, cls, port, wline, cl, asked, broken, rehashes>>

Free == [free |-> TRUE]
Blocks == DOMAIN Kind
Classes == DOMAIN MaxLinks
Ports == UNION {f.ports : f \in Files}
Wlines == UNION {f.wlines : f \in Files}
Live(f) == {x \in DOMAIN f : f[x] # Free}

NoClient == [st |-> "none", name |-> "-", port |-> "-", wl |-> "-"]

(***************************************************************************)
(* Confs and classes.                                                      *)
(***************************************************************************)

\* CONF_CLIENT_MASK: the attachments a class counts in its ref_count.
Counted(i) == Kind[conf[i].blk] # "UWORLD"
InClass(i, k) == Counted(i) /\ ClassOf[conf[i].blk] = k
KindOf(i) == Kind[conf[i].blk]

\* The items of one kind an enquiry through GlobalConfList finds.
Listed(kind) ==
    {i \in Live(conf) : conf[i].list /\ ~conf[i].illegal /\ KindOf(i) = kind}

Holds(c) == {i \in Items : <<c, i>> \in held}

make_conf(b) ==
    [blk |-> b, list |-> TRUE, illegal |-> FALSE, clients |-> 0,
     pending |-> b \in Named, addr |-> b \notin Named]

\* detach_conf for a set of pairs: the class counts down, and an item that
\* was marked ILLEGAL goes with its last client.
Gone(pairs) ==
    {i \in {p[2] : p \in pairs} :
        /\ conf[i].illegal
        /\ conf[i].clients = Cardinality({p \in pairs : p[2] = i})}

detach_conf(cf, pairs) ==
    [i \in Items |->
        IF i \in Gone(pairs) THEN Free
        ELSE IF cf[i] = Free THEN Free
        ELSE [cf[i] EXCEPT !.clients =
                @ - Cardinality({p \in pairs : p[2] = i})]]

ConfLinksDown(cs, pairs) ==
    [k \in Classes |->
        IF cs[k] = Free THEN Free
        ELSE [cs[k] EXCEPT !.ref =
                @ - Cardinality({p \in pairs : InClass(p[2], k)})]]

\* free_conf: an item that has a lookup under way takes it back.
delete_queries(as, items) == {q \in as : q[1] \notin items}

det_confs(pairs) ==
    /\ held' = held \ pairs
    /\ conf' = detach_conf(conf, pairs)
    /\ cls' = ConfLinksDown(cls, pairs)
    /\ asked' = delete_queries(asked, Gone(pairs))

det_confs_butmask(c, kinds) ==
    det_confs({p \in held : p[1] = c /\ KindOf(p[2]) \notin kinds})

\* attach_conf: the limit is compared with the class's reference count.
ClassFull(i) ==
    LET k == ClassOf[conf[i].blk]
    IN  /\ KindOf(i) \in {"CLIENT", "OPERATOR"}
        /\ MaxLinks[k] > 0
        /\ cls[k].ref >= MaxLinks[k]

attach_conf(c, items) ==
    /\ held' = held \cup ({c} \X items)
    /\ conf' = [i \in Items |->
                  IF i \in items \ Holds(c)
                  THEN [conf[i] EXCEPT !.clients = @ + 1] ELSE conf[i]]
    /\ cls' = [k \in Classes |->
                  IF cls[k] = Free THEN Free
                  ELSE [cls[k] EXCEPT !.ref = @ +
                      Cardinality({i \in items \ Holds(c) : InClass(i, k)})]]
    /\ UNCHANGED asked

(***************************************************************************)
(* Listeners.                                                              *)
(***************************************************************************)

\* release_listener, close_listener: a port that is no longer configured
\* closes with the last client that came through it.
release_listener(ps, p, n) ==
    IF p = "-" \/ n = 0 THEN ps
    ELSE [ps EXCEPT ![p] =
            IF @.ref = n /\ ~@.active THEN Free ELSE [@ EXCEPT !.ref = @ - n]]

\* close_connection: every conf, then the listener.
close_connection(c) ==
    /\ det_confs_butmask(c, {})
    /\ port' = release_listener(port, cl[c].port, 1)
    /\ cl' = [cl EXCEPT ![c] = NoClient]
    /\ UNCHANGED <<wline, broken, rehashes>>

Exit(c) == cl[c].st # "none" /\ close_connection(c)

accept_connection(c, p) ==
    /\ cl[c] = NoClient
    /\ port[p] # Free /\ port[p].active
    /\ cl' = [cl EXCEPT ![c].st = "unknown", ![c].port = p]
    /\ port' = [port EXCEPT ![p].ref = @ + 1]
    /\ UNCHANGED <<conf, held, cls, wline, asked, broken, rehashes>>

(***************************************************************************)
(* Users.                                                                  *)
(***************************************************************************)

m_webirc(c, w) ==
    /\ cl[c].st = "unknown"
    /\ wline[w] # Free
    /\ cl' = [cl EXCEPT ![c].wl = w]
    /\ UNCHANGED <<conf, held, cls, port, wline, asked, broken, rehashes>>

\* preregister_user, attach_iline: the first block that matches decides.
preregister_user(c, i) ==
    /\ cl[c].st = "unknown"
    /\ i \in Listed("CLIENT")
    /\ IF ClassFull(i)
       THEN close_connection(c)
       ELSE /\ attach_conf(c, {i})
            /\ cl' = [cl EXCEPT ![c].st = "user"]
            /\ UNCHANGED <<port, wline, broken, rehashes>>

\* m_oper: find_conf_exact passes over a block that has maxlinks clients.
m_oper(c, i) ==
    /\ cl[c].st \in {"user", "oper"}
    /\ i \in Listed("OPERATOR") \ Holds(c)
    /\ LET m == MaxLinks[ClassOf[conf[i].blk]]
       IN  m = 0 \/ conf[i].clients < m
    /\ ~ClassFull(i)
    /\ attach_conf(c, {i})
    /\ cl' = [cl EXCEPT ![c].st = "oper"]
    /\ UNCHANGED <<port, wline, broken, rehashes>>

\* de-opering in set_user_mode, m_opmode and nickreg: only CLIENT stays.
Deoper(c) ==
    /\ cl[c].st = "oper"
    /\ det_confs_butmask(c, {"CLIENT"})
    /\ cl' = [cl EXCEPT ![c].st = "user"]
    /\ UNCHANGED <<port, wline, broken, rehashes>>

(***************************************************************************)
(* Server links.                                                           *)
(***************************************************************************)

Known(b) == \E c \in Clients : cl[c].name = b

\* connect_server: a block without an address first asks for it; else a new
\* client is made, that keeps the Connect blocks of that host.  cf and as
\* are the items and lookups as the caller has left them.
connect_server(i, c, cf, as) ==
    \/ /\ ~cf[i].addr
       /\ conf' = [cf EXCEPT ![i].pending = TRUE]
       /\ asked' = as \cup {<<i, "connect">>}
       /\ UNCHANGED <<held, cls, cl>>
    \/ /\ cf[i].addr
       /\ cl[c] = NoClient
       /\ LET k == ClassOf[cf[i].blk]
          IN  /\ conf' = [cf EXCEPT ![i].clients = @ + 1]
              /\ cls' = [cls EXCEPT ![k].ref = @ + 1]
       /\ held' = held \cup {<<c, i>>}
       /\ asked' = as
       /\ cl' = [cl EXCEPT ![c] =
                   [NoClient EXCEPT !.st = "connecting", !.name = cf[i].blk]]

\* An operator's CONNECT: any Connect block.
m_connect(i, c) ==
    /\ i \in Listed("SERVER")
    /\ ~conf[i].pending /\ ~Known(conf[i].blk)
    /\ connect_server(i, c, conf, asked)
    /\ UNCHANGED <<port, wline, broken, rehashes>>

\* try_connections: nothing while the class has its links.
try_connections(i, c) ==
    /\ i \in Listed("SERVER")
    /\ LET k == ClassOf[conf[i].blk] IN ~(cls[k].ref > MaxLinks[k])
    /\ ~conf[i].pending /\ ~Known(conf[i].blk)
    /\ connect_server(i, c, conf, asked)
    /\ UNCHANGED <<port, wline, broken, rehashes>>

\* The resolver's answer, for conf_dns_lookup and for connect_server.  The
\* second one goes on to connect, whether or not the block is still listed:
\* an item that is not listed is found by no search, so nothing is attached.
DnsAnswer(q, found, c) ==
    /\ q \in asked
    /\ LET i  == q[1]
           cf == [conf EXCEPT ![i].pending = FALSE,
                              ![i].addr = @ \/ found]
           as == asked \ {q}
       IN  IF /\ q[2] = "connect" /\ found /\ ~Known(conf[i].blk)
              /\ i \in Listed("SERVER") /\ cl[c] = NoClient
           THEN connect_server(i, c, cf, as)
           ELSE /\ conf' = cf /\ asked' = as
                /\ UNCHANGED <<held, cls, cl>>
    /\ UNCHANGED <<port, wline, broken, rehashes>>

completed_connection(c) ==
    /\ cl[c].st = "connecting"
    /\ cl' = [cl EXCEPT ![c].st = "handshake"]
    /\ UNCHANGED <<conf, held, cls, port, wline, asked, broken, rehashes>>

\* SERVER from a client that we do not know: every Connect block of that
\* name is attached, one is kept (conf_check_server), then the UWorld blocks
\* of that host.
mr_server_in(c, i, uw) ==
    /\ cl[c].st = "unknown"
    /\ i \in Listed("SERVER") /\ ~Known(conf[i].blk)
    /\ attach_conf(c, {i} \cup uw)
    /\ cl' = [cl EXCEPT ![c].st = "server", ![c].name = conf[i].blk]
    /\ UNCHANGED <<port, wline, broken, rehashes>>

\* SERVER on a connection we made.  conf_check_server drops every block and
\* attaches the one it had found again: a block that the file no longer has
\* was freed by the drop, and is read after that.  What is read is whatever
\* the memory holds: the block looks ILLEGAL and the link is refused, or it
\* does not and the link goes on with it.
mr_server_out(c, uw) ==
    /\ cl[c].st = "handshake"
    /\ LET mine == {i \in Holds(c) : KindOf(i) = "SERVER"}
           i    == CHOOSE x \in mine : TRUE
       IN  \/ /\ \/ mine = {}
                 \/ conf[i].illegal
              /\ close_connection(c)
           \/ /\ mine # {} /\ i \in Gone({<<c, i>>})
              /\ broken' = TRUE
              /\ UNCHANGED <<conf, held, cls, port, wline, cl, asked, rehashes>>
           \/ /\ mine # {} /\ ~conf[i].illegal
              /\ attach_conf(c, uw)
              /\ cl' = [cl EXCEPT ![c].st = "server"]
              /\ UNCHANGED <<port, wline, broken, rehashes>>

\* SERVER for a server behind a link: its UWorld block joins the link's.
ms_server(c, i) ==
    /\ cl[c].st = "server"
    /\ i \in Listed("UWORLD") \ Holds(c)
    /\ attach_conf(c, {i})
    /\ UNCHANGED <<port, wline, cl, broken, rehashes>>

(***************************************************************************)
(* rehash.                                                                 *)
(***************************************************************************)

\* Every item: one that nobody holds is freed, a Client block stays listed
\* while the file is read, anything else leaves the list.
SweepConfs ==
    [i \in Items |->
        IF conf[i] = Free THEN Free
        ELSE IF conf[i].clients = 0 THEN Free
        ELSE [conf[i] EXCEPT !.illegal = TRUE,
                             !.list = @ /\ KindOf(i) = "CLIENT"]]

class_mark_delete ==
    [k \in Classes |-> IF cls[k] = Free THEN Free
                       ELSE [cls[k] EXCEPT !.valid = FALSE]]

mark_listeners_closing ==
    [p \in Ports |-> IF port[p] = Free THEN Free
                     ELSE [port[p] EXCEPT !.active = FALSE]]

\* add_class: a class that is still there is taken up again.
add_class(cs, names) ==
    [k \in Classes |->
        IF k \notin names THEN cs[k]
        ELSE IF cs[k] = Free THEN [valid |-> TRUE, ref |-> 1]
        ELSE [cs[k] EXCEPT !.valid = TRUE]]

\* add_listener: an open socket of a configured family is kept, one of
\* another family is closed, and what is missing is opened where it can be.
\* A port without any socket is freed: a new one, or one that was listening,
\* which stays on ListenerPollList and with its clients (Unbound).
Unbound(ps, fams, bound) ==
    \E p \in Live(ps) : fams[p] # {} /\ fams[p] \cap (ps[p].fds \cup bound) = {}
add_listener(ps, fams, bound) ==
    [p \in Ports |->
        IF fams[p] = {} THEN ps[p]
        ELSE LET old == IF ps[p] = Free THEN {} ELSE ps[p].fds
                 new == fams[p] \cap (old \cup bound)
             IN  IF new = {} THEN Free
                 ELSE [active |-> TRUE, fds |-> new,
                       ref |-> IF ps[p] = Free THEN 0 ELSE ps[p].ref]]

close_listeners(ps) ==
    [p \in Ports |->
        IF ps[p] # Free /\ ~ps[p].active /\ ps[p].ref = 0 THEN Free ELSE ps[p]]

\* Mutant: the reference a class starts with is not allowed for.
DeleteWithOne(cs) ==
    [k \in Classes |->
        IF cs[k] # Free /\ ~cs[k].valid /\ cs[k].ref <= 2 THEN Free ELSE cs[k]]

class_delete_marked(cs) ==
    [k \in Classes |->
        IF cs[k] # Free /\ ~cs[k].valid /\ cs[k].ref <= 1 THEN Free ELSE cs[k]]

\* The clients the new file does not tolerate: users a Kill block or a
\* G-line matches, and those whose WebIRC line is no longer there.
Banished(killed, wls) ==
    {c \in Clients : \/ c \in killed /\ cl[c].st \in {"unknown", "user", "oper"}
                     \/ cl[c].wl \notin wls \cup {"-"}}

\* The blocks of a file that the parser accepts: the class must be there.
Accepted(f) == {b \in f.blocks : ClassOf[b] \in f.classes \cup {"none"}}

\* The pairs that go: what the banished held, and the UWorld blocks of the
\* links that stay.
Dropped(out) ==
    {p \in held : \/ p[1] \in out
                  \/ cl[p[1]].st = "server" /\ KindOf(p[2]) = "UWORLD"}

\* new is where make_conf finds memory for the accepted blocks, uw the new
\* UWorld blocks that match a server behind each link (attach_conf_uworld).
rehash(f, new, fams, bound, killed, uw) ==
    LET swept  == SweepConfs
        freed  == {i \in Live(conf) : swept[i] = Free}
        out    == Banished(killed, f.wlines)
        gone   == Dropped(out)
        links  == {c \in Clients \ out : cl[c].st = "server"}
        match  == {b \in Accepted(f) : Kind[b] = "UWORLD"} \cap uw
        at     == [b \in Accepted(f) |-> CHOOSE i \in Items : new[i] = b]
        came   == links \X {at[b] : b \in match}
        after  == {i \in Live(swept) :
                     swept[i].clients = Cardinality({p \in gone : p[2] = i})}
    IN  /\ conf' = [i \in Items |->
                     IF new[i] # "-"
                     THEN [make_conf(new[i]) EXCEPT !.clients =
                             Cardinality({p \in came : p[2] = i})]
                     ELSE IF swept[i] = Free \/ i \in after THEN Free
                     ELSE [swept[i] EXCEPT !.list = FALSE, !.clients =
                             @ - Cardinality({p \in gone : p[2] = i})]]
        /\ held' = (held \ gone) \cup came
        /\ cls' = LET cs == add_class(class_mark_delete, f.classes)
                  IN  ConfLinksDown(class_delete_marked(cs), gone)
        /\ port' = LET ps == close_listeners(add_listener(
                               mark_listeners_closing, fams, bound))
                   IN  [p \in Ports |-> release_listener(ps, p,
                          Cardinality({c \in out : cl[c].port = p}))[p]]
        /\ wline' = [w \in Wlines |->
                       IF w \in f.wlines THEN [free |-> FALSE] ELSE Free]
        /\ cl' = [c \in Clients |-> IF c \in out THEN NoClient ELSE cl[c]]
        /\ asked' = delete_queries(asked, freed \cup after)
                    \cup {<<at[b], "conf">> : b \in Accepted(f) \cap Named}

\* Where the new blocks go: memory that was free before, one item for each.
Placings(f) ==
    LET free    == {i \in Items : conf[i] = Free}
        acc     == Accepted(f)
        nth(i)  == Cardinality({j \in free : j <= i})
        which(i) == {b \in acc :
                       Cardinality({a \in acc : Rank[a] <= Rank[b]}) = nth(i)}
    IN  IF Cardinality(free) < Cardinality(acc) THEN {}
        ELSE {[i \in Items |-> IF i \in free /\ which(i) # {}
                               THEN CHOOSE b \in which(i) : TRUE ELSE "-"]}

Rehash ==
    /\ rehashes < MaxRehash
    /\ rehashes' = rehashes + 1
    /\ \E f \in Files, fam \in Families, bound \in SUBSET UNION Families,
          killed \in SUBSET Clients, uw \in SUBSET Blocks :
         /\ \A b \in uw : Kind[b] = "UWORLD"
         /\ \E new \in Placings(f) :
              LET fams == [p \in Ports |-> IF p \in f.ports THEN fam ELSE {}]
              IN  \/ /\ Unbound(port, fams, bound)
                     /\ broken' = TRUE
                     /\ UNCHANGED <<conf, held, cls, port, wline, cl, asked>>
                  \/ /\ ~Unbound(port, fams, bound)
                     /\ rehash(f, new, fams, bound, killed, uw)
                     /\ UNCHANGED broken

\* At the start nothing is there: init_conf reads the file for the first
\* time, which is what rehash does with nothing to sweep.
CfInit ==
    /\ conf = [i \in Items |-> Free]
    /\ held = {} /\ asked = {}
    /\ cls = [k \in Classes |-> Free]
    /\ port = [p \in Ports |-> Free]
    /\ wline = [w \in Wlines |-> Free]
    /\ cl = [c \in Clients |-> NoClient]
    /\ broken = FALSE /\ rehashes = 0

Step ==
    \/ \E c \in Clients, p \in Ports : accept_connection(c, p)
    \/ \E c \in Clients : Exit(c)
    \/ \E c \in Clients, w \in Wlines : m_webirc(c, w)
    \/ \E c \in Clients, i \in Items : preregister_user(c, i)
    \/ \E c \in Clients, i \in Items : m_oper(c, i)
    \/ \E c \in Clients : Deoper(c)
    \/ \E c \in Clients, i \in Items : m_connect(i, c)
    \/ \E c \in Clients, i \in Items : try_connections(i, c)
    \/ \E c \in Clients, q \in asked, found \in BOOLEAN : DnsAnswer(q, found, c)
    \/ \E c \in Clients : completed_connection(c)
    \/ \E c \in Clients, i \in Items, uw \in SUBSET Listed("UWORLD") :
          mr_server_in(c, i, uw)
    \/ \E c \in Clients, uw \in SUBSET Listed("UWORLD") : mr_server_out(c, uw)
    \/ \E c \in Clients, i \in Items : ms_server(c, i)
    \/ Rehash

CfNext == ~broken /\ Step

(***************************************************************************)
(* Properties.                                                             *)
(***************************************************************************)

\* Nothing that is still pointed to has been freed: not the blocks a client
\* holds, nor the class of a block, nor the port and the WebIRC line of a
\* client, nor the block a lookup will be answered to, whatever REHASH,
\* arrivals, answers and departures come in between (free_conf,
\* class_delete_marked, close_listeners and webirc_remove_stale).  Two
\* handlers do not keep to it and set broken, where a behaviour ends:
\* see NeverBroken.
NothingFreed ==
    /\ \A p \in held : conf[p[2]] # Free
    /\ \A i \in Live(conf) :
          ClassOf[conf[i].blk] # "none" => cls[ClassOf[conf[i].blk]] # Free
    /\ \A c \in Clients : /\ cl[c].port # "-" => port[cl[c].port] # Free
                          /\ cl[c].wl # "-" => wline[cl[c].wl] # Free
    /\ \A q \in asked : conf[q[1]] # Free

\* The counters that decide when something is freed are the numbers of
\* those who hold it, and what the file no longer has is kept only for
\* somebody (ConfItem.clients, ConnectionClass.ref_count,
\* Listener.ref_count).
CountsHold ==
    /\ \A i \in Live(conf) :
          /\ conf[i].clients = Cardinality({p \in held : p[2] = i})
          /\ ~conf[i].list => conf[i].illegal /\ conf[i].clients > 0
    /\ \A k \in Live(cls) :
          cls[k].ref = 1 + Cardinality({p \in held : InClass(p[2], k)})
    /\ \A p \in Live(port) :
          /\ port[p].ref = Cardinality({c \in Clients : cl[c].port = p})
          /\ ~port[p].active => port[p].ref > 0

\* No handler reads what it has freed itself.  Does not hold: conf_check_server
\* drops a block that the file no longer has and reads it (s_conf.c, lines
\* 1327 and 1339), and add_listener frees a port that is listening when no
\* socket of its new families can be opened (listener.c, line 368).
NeverBroken == ~broken

\* doc/example.conf, lines 130 and 131: "new clients will be allowed if there
\* are fewer than maxlinks clients in the class".  attach_conf refuses a
\* client only when the class has as many as it may have.  Does not hold: it
\* refuses the last one that may come (s_conf.c, line 558).
RefusedOnlyWhenFull ==
    \A i \in Listed("CLIENT") :
       LET k == ClassOf[conf[i].blk]
       IN  ClassFull(i) =>
              Cardinality({p \in held : InClass(p[2], k)}) >= MaxLinks[k]

=============================================================================
