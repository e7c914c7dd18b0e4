-------------------------------- MODULE Hash --------------------------------
(***************************************************************************)
(* The table of clients by name (hash.c), as clients get and change names  *)
(* and leave, and the table of nicks that the configuration reserves.      *)
(* Users and servers share the table: a server has its name in it from     *)
(* the start when it was called, only once it is accepted when it called.  *)
(***************************************************************************)
EXTENDS Chain, FiniteSets

CONSTANTS
  Clients, Nicks, Hosts,    \* connections; names of users and of servers
  HashOf, Buckets,          \* strhash
  JupeSize, JUPEMAX         \* slots of the table of reserved nicks, and how many it takes

VARIABLES tab,     \* clientTable
          cl,      \* by connection: [st, name]
          jupes,   \* jupeTable: slots 0 .. JupeSize-1
          asked    \* the nicks of the configuration that found room

hvars == <<tab, cl, jupes, asked>>
-----------------------------------------------------------------------------
NoName == ""
Is(c, S) == cl[c].st \in S
Bucket(c) == IF cl[c].name = NoName THEN 1 ELSE HashOf[cl[c].name]
Named(name, S) == {c \in Clients : cl[c].name = name /\ Is(c, S)}
Become(c, st, name) == cl' = [cl EXCEPT ![c] = [st |-> st, name |-> name]]

(* Linear probing from the slot of the name; a slot is full until the      *)
(* table is cleared.                                                       *)
Probe(t, n) ==
  LET at(i) == (HashOf[n] + i) % JupeSize
      K == {i \in 0..(JupeSize - 1) : t[at(i)] \in {NoName, n}}
  IN  at(CHOOSE i \in K : \A j \in K : i <= j)
isNickJuped(n) == jupes[Probe(jupes, n)] = n
JupesCount(t) == Cardinality({s \in DOMAIN t : t[s] # NoName})
(* One nick of the list; when the table is full the rest is not read.      *)
AddJupe(a, n) ==
  IF a.full \/ a.t[Probe(a.t, n)] = n THEN a
  ELSE IF JupesCount(a.t) = JUPEMAX THEN [a EXCEPT !.full = TRUE]
  ELSE [a EXCEPT !.t[Probe(a.t, n)] = n]
addNickJupes(ns) ==
  LET a == FoldLeft(AddJupe, [t |-> jupes, full |-> FALSE], ns)
  IN  /\ jupes' = a.t
      /\ asked' = asked \cup (IF a.full THEN {n \in Range(ns) : \E s \in DOMAIN a.t : a.t[s] = n} ELSE Range(ns))
      /\ UNCHANGED <<tab, cl>>
clearNickJupes == jupes' = [s \in DOMAIN jupes |-> NoName] /\ asked' = {} /\ UNCHANGED <<tab, cl>>
-----------------------------------------------------------------------------
(* Mutant: the bucket is that of the new name. *)
RenameLate(c, new) ==
  LET b == HashOf[new] IN hAdd(hRem(tab, b, c), b, c)
(* hChangeClient, and hRemClient with hAddClient of set_nick_name: the     *)
(* name is written after the client has left the bucket of the old one.    *)
Rename(c, new) ==
  hAdd(IF cl[c].name = NoName THEN tab ELSE hRem(tab, Bucket(c), c), HashOf[new], c)

Accept(c, st) == Is(c, {"none"}) /\ Become(c, st, NoName) /\ UNCHANGED <<tab, jupes, asked>>

(* NICK, on a port for users only. *)
m_nick(c, n) ==
  /\ Is(c, {"unknown_user", "user"}) /\ cl[c].name # n
  /\ ~isNickJuped(n) /\ Named(n, {"unknown_user", "user"}) = {}
  /\ tab' = Rename(c, n) /\ Become(c, cl[c].st, n)
  /\ UNCHANGED <<jupes, asked>>
Register(c) ==
  /\ Is(c, {"unknown_user"}) /\ cl[c].name # NoName
  /\ Become(c, "user", cl[c].name) /\ UNCHANGED <<tab, jupes, asked>>

(* connect_server: the name of the Connect block, unless that server is    *)
(* here already.                                                           *)
connect_server(c, n) ==
  /\ Is(c, {"none"}) /\ Named(n, {"server"}) = {}
  /\ Become(c, "handshake", n)
  /\ tab' = hAdd(tab, HashOf[n], c) /\ UNCHANGED <<jupes, asked>>
(* SERVER: who called is added when accepted, who was called may give      *)
(* another name than expected; ok = conf_check_server and the rest.        *)
mr_server(c, n, ok) ==
  LET called == Is(c, {"handshake"})
      t == IF called /\ cl[c].name # n THEN Rename(c, n) ELSE tab
  IN  /\ Is(c, {"handshake", "unknown_server"})
      /\ IF ok /\ Named(n, {"server"}) = {}
         THEN tab' = (IF called THEN t ELSE hAdd(t, HashOf[n], c)) /\ Become(c, "server", n)
         ELSE tab' = hRem(t, HashOf[n], c) /\ Become(c, "none", NoName)
      /\ UNCHANGED <<jupes, asked>>

exit_one_client(c) ==
  /\ ~Is(c, {"none"})
  /\ tab' = hRem(tab, Bucket(c), c) /\ Become(c, "none", NoName)
  /\ UNCHANGED <<jupes, asked>>

(* A lookup, of the clients of some kinds. *)
hSeekClient(n, S) ==
  LET P(c) == cl[c].name = n /\ Is(c, S)
  IN  tab' = hSeek(tab, HashOf[n], P) /\ UNCHANGED <<cl, jupes, asked>>
-----------------------------------------------------------------------------
AnyOne == {"unknown_user", "user", "handshake", "unknown_server", "server"}

HaInit ==
  /\ tab = [b \in Buckets |-> <<>>]
  /\ cl = [c \in Clients |-> [st |-> "none", name |-> NoName]]
  /\ jupes = [s \in 0..(JupeSize - 1) |-> NoName] /\ asked = {}

HaNext ==
  \/ \E c \in Clients, st \in {"unknown_user", "unknown_server"} : Accept(c, st)
  \/ \E c \in Clients, n \in Nicks : m_nick(c, n)
  \/ \E c \in Clients, n \in Hosts : connect_server(c, n)
  \/ \E c \in Clients, n \in Hosts, ok \in BOOLEAN : mr_server(c, n, ok)
  \/ \E c \in Clients : Register(c) \/ exit_one_client(c)
  \/ \E n \in Nicks \cup Hosts, S \in {AnyOne, {"user"}, {"server"}} : hSeekClient(n, S)
  \/ \E a, b \in Nicks : addNickJupes(<<a, b>>)
  \/ clearNickJupes
-----------------------------------------------------------------------------
(* Every client with a name that others may look up is once in the table,  *)
(* in the bucket of the name it has now, and nobody else is: through       *)
(* renames before and after registration, refused servers, and lookups     *)
(* that reorder the chains (hash.c, with its callers).                     *)
TableIsExact ==
  \A c \in Clients :
    LET in(b) == Cardinality({k \in DOMAIN tab[b] : tab[b][k] = c})
        hashed == cl[c].name # NoName /\ ~Is(c, {"unknown_server"})
    IN  \A b \in Buckets : in(b) = IF hashed /\ b = HashOf[cl[c].name] THEN 1 ELSE 0

(* A nick is reserved exactly if the configuration that was read last      *)
(* names it and the table had room: probing meets no gap and no other      *)
(* chain of slots hides it (isNickJuped, addNickJupes).                    *)
JupesAreFound == \A n \in Nicks : isNickJuped(n) <=> n \in asked
=============================================================================
