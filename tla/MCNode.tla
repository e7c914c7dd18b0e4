--------------------------------- MODULE MCNode -----------------------------
(***************************************************************************)
(* What one server does by itself, each part on its own small instance:    *)
(* part says which of them a behaviour is about, and never changes.  The   *)
(* parts about which there are theorems have the variables of their own    *)
(* modules and the constants of the configuration; the others take turns   *)
(* with the variables x1 to xa, and a part that has fewer leaves the rest  *)
(* at Off.  A part leaves what is not its own as it was at the start.      *)
(***************************************************************************)
EXTENDS Naturals, Sequences, TLC, Events, Engines, Resolver, Uping

VARIABLES part, x1, x2, x3, x4, x5, x6, x7, x8, x9, xa

xvars == <<x1, x2, x3, x4, x5, x6, x7, x8, x9, xa>>
vars == <<part, xvars, evars, gvars, rvars, zvars>>
-----------------------------------------------------------------------------
(* The instances. *)

(* A Connect block looks up a name, an authorization request an address:   *)
(* the first context is of either.                                         *)
LookupForms == <<{"name", "v6"}, {"v4"}>>

S == INSTANCE SendQ WITH
       Conns <- {1, 2}, ServerConns <- {2}, MsgLens <- {1, 2}, Pool <- 3, FergusonFlusher <- TRUE,
       MaxSendQ <- 1, Chunk <- 2, MaxMsgs <- 3, MaxCloses <- 1, sq <- x1, buf <- x2, list <- x3, out <- x4,
       said <- x5, msgs <- x6, closes <- x7, did <- x8

Q == INSTANCE RecvQ WITH
       BlockSize <- 2, LineSize <- 4, LineMax <- 3, Flood <- 7, DbufPool <- 4, Burst <- 1, MaxBytes <- 8,
       rq <- x1, status <- x2, nonl <- x3, line <- x4, lag <- x5, proc <- x6, parsed <- x7, stream <- x8,
       drops <- x9, bytes <- xa

NameHash == "a" :> 1 @@ "b" :> 2 @@ "c" :> 1 @@ "x." :> 1 @@ "y." :> 2
H == INSTANCE Hash WITH
       Clients <- {1, 2}, Nicks <- {"a", "b", "c"}, Hosts <- {"x.", "y."}, HashOf <- NameHash,
       Buckets <- {1, 2}, JupeSize <- 4, JUPEMAX <- 2, tab <- x1, cl <- x2, jupes <- x3, asked <- x4

ChanHash == "a" :> 1 @@ "b" :> 2 @@ "c" :> 1 @@ "d" :> 2
L == INSTANCE Listing WITH
       Chans <- {"a", "b", "c", "d"}, HashOf <- ChanHash, HASHSIZE <- 2,
       Filters <- {{"a", "b", "c", "d"}, {"a", "b"}}, HalfQueue <- 3, Resume <- 2, MaxQueue <- 3, tab <- x1,
       args <- x2, queue <- x3, listed <- x4, stay <- x5, ended <- x6

Commands == {<<"a", "b">>, <<"c">>}
Tokens == <<"a", "b">> :> <<"b">> @@ <<"c">> :> <<"c">>
ParameterCount == <<"a", "b">> :> 3 @@ <<"c">> :> 9
PseudoCommands == {<<"a">>, <<"a", "b", "c">>, <<"a", "b", "c", "a">>, <<"a", "1">>, <<"B">>}
TypedWords == {<<"a">>, <<"a", "b", "c">>, <<"A", "b">>, <<"c">>, <<"b">>, <<"a", "1">>}
SlotOfChar == "a" :> 1 @@ "A" :> 1 @@ "b" :> 2 @@ "B" :> 2 @@ "c" :> 3 @@ "1" :> 3
P == INSTANCE Parse WITH
       Builtin <- Commands, Token <- Tokens, Pseudos <- PseudoCommands, Alpha <- {"a", "A", "b", "B", "c"},
       Slot <- SlotOfChar, Typed <- TypedWords, Parameters <- ParameterCount, MAXPARA <- 3, MaxWords <- 4,
       tree <- x1, toks <- x2, maps <- x3, ran <- x4

D == INSTANCE Motd WITH
       Others <- {"o", "p"}, Paths <- {"f", "g"}, MaxChanges <- 1, motd <- x1, cache <- x2, file <- x3,
       since <- x4, ddb <- x5, crashed <- x6

BlockKind == "cli" :> "CLIENT" @@ "op" :> "OPERATOR" @@ "srv" :> "SERVER" @@ "uw" :> "UWORLD"
BlockClass == "cli" :> "a" @@ "op" :> "a" @@ "srv" :> "b" @@ "uw" :> "none"
BlockRank == "cli" :> 1 @@ "op" :> 2 @@ "srv" :> 3 @@ "uw" :> 4
ClassLinks == "a" :> 3 @@ "b" :> 1
ConfFiles ==
  {[classes |-> {"a", "b"}, blocks |-> {"cli", "op", "srv", "uw"}, ports |-> {"p"}, wlines |-> {"w"}],
   [classes |-> {"a"}, blocks |-> {"cli", "srv"}, ports |-> {"p"}, wlines |-> {}],
   [classes |-> {"b"}, blocks |-> {"srv", "uw"}, ports |-> {}, wlines |-> {"w"}]}
B == INSTANCE Conf WITH
       Clients <- {1, 2}, Items <- 1..7, Kind <- BlockKind, ClassOf <- BlockClass, MaxLinks <- ClassLinks,
       Rank <- BlockRank, Named <- {"srv"}, Files <- ConfFiles, Families <- {{4}, {6}}, MaxRehash <- 2, conf <- x1,
       held <- x2, cls <- x3, port <- x4, wline <- x5, cl <- x6, asked <- x7, broken <- x8, rehashes <- x9

I == INSTANCE IPcheck WITH
       Clients <- {1, 2, 3}, Addrs <- {"v4"}, V6 <- {}, ClockMod <- 6, Boot <- 4, ConnectedMod <- 3,
       AttemptsMod <- 4, Attempts48Mod <- 4, CLONE_LIMIT <- 2, CLONE_PERIOD <- 1, CLONE_LIMIT_48 <- 3,
       CLONE_PERIOD_48 <- 1, CLONE_DELAY <- 1, Expiry <- 2, AcceptFails <- FALSE, Bursts <- TRUE,
       Iauth <- FALSE, MaxTime <- 5, MaxTries <- 4, now <- x1, reg <- x2, reg48 <- x3, client <- x4,
       streak <- x5, tries <- x6

A == INSTANCE Auth WITH
       Fds <- {1}, AuthIds <- {1}, IPs <- {"x", "y"}, Banned <- {"y"},
       Kinds <- {"UNKNOWN_USER", "UNKNOWN_SERVER", "WEBIRC"}, Lookups <- {"ask"}, Idents <- {"open"},
       IAuthCmds <- {"N", "I", "D", "K"}, Policies <- {{}, {"REQUIRED"}}, MaxConns <- 2, MaxFaults <- 1,
       cli <- x1, auth <- x2, free <- x3, dns <- x4, ia <- x5, told <- x6, conns <- x7, faults <- x8,
       astray <- x9

-----------------------------------------------------------------------------
Off == 0
OffA == xa = Off
Off9 == x9 = Off /\ OffA
Off8 == x8 = Off /\ Off9
Off7 == x7 = Off /\ Off8
Off6 == x6 = Off /\ Off7
Off5 == x5 = Off /\ Off6
Off4 == x4 = Off /\ Off5
Off3 == x3 = Off /\ Off4
Off2 == x2 = Off /\ Off3
Off1 == x1 = Off /\ Off2
Init ==
  /\ EvInit /\ EgInit /\ ResInit /\ UpInit
  /\ \/ part = "events" /\ Off1
     \/ part = "engines" /\ Off1
     \/ part = "resolver" /\ Off1
     \/ part = "sendq" /\ S!SqInit /\ Off9
     \/ part = "recvq" /\ Q!RqInit
     \/ part = "hash" /\ H!HaInit /\ Off5
     \/ part = "listing" /\ L!LiInit /\ Off7
     \/ part = "parse" /\ P!PaInit /\ Off5
     \/ part = "motd" /\ D!MoInit /\ Off7
     \/ part = "uping" /\ Off1
     \/ part = "conf" /\ B!CfInit /\ OffA
     \/ part = "addresses" /\ I!Init /\ Off7
     \/ part = "auth" /\ A!Init /\ OffA
  /\ part = "engines" \/ eng = "poll"

Next ==
  /\ UNCHANGED part
  /\ \/ part = "events" /\ EvNext /\ UNCHANGED <<xvars, gvars, rvars, zvars>>
     \/ part = "engines" /\ EgNext /\ UNCHANGED <<xvars, evars, rvars, zvars>>
     \/ part = "resolver" /\ ResNext /\ UNCHANGED <<xvars, evars, gvars, zvars>>
     \/ part = "sendq" /\ S!SqNext /\ UNCHANGED <<x9, xa, evars, gvars, rvars, zvars>>
     \/ part = "recvq" /\ Q!RqNext /\ UNCHANGED <<evars, gvars, rvars, zvars>>
     \/ part = "hash" /\ H!HaNext /\ UNCHANGED <<x5, x6, x7, x8, x9, xa, evars, gvars, rvars, zvars>>
     \/ part = "listing" /\ L!LiNext /\ UNCHANGED <<x7, x8, x9, xa, evars, gvars, rvars, zvars>>
     \/ part = "parse" /\ P!PaNext /\ UNCHANGED <<x5, x6, x7, x8, x9, xa, evars, gvars, rvars, zvars>>
     \/ part = "motd" /\ D!MoNext /\ UNCHANGED <<x7, x8, x9, xa, evars, gvars, rvars, zvars>>
     \/ part = "uping" /\ UpNext /\ UNCHANGED <<xvars, evars, gvars, rvars>>
     \/ part = "conf" /\ B!CfNext /\ UNCHANGED <<xa, evars, gvars, rvars, zvars>>
     \/ part = "addresses" /\ I!Next /\ UNCHANGED <<x7, x8, x9, xa, evars, gvars, rvars, zvars>>
     \/ part = "auth" /\ A!Next /\ UNCHANGED <<xa, evars, gvars, rvars, zvars>>

(* check_pings of ircd.c runs for ever (auth_ping_timeout of s_auth.c).    *)
Timeout ==
  /\ part = "auth" /\ UNCHANGED <<part, xa, evars, gvars, rvars, zvars>>
  /\ \E f \in {1}, o \in A!Outcomes : A!auth_ping_timeout(f, o)
Spec == Init /\ [][Next]_vars /\ WF_vars(Timeout)
-----------------------------------------------------------------------------
(* Events, Engines, Resolver and Uping have their properties with them:    *)
(* EventsHold, TableIsKernels, AnsweredOnce, PingsAreOwned.                *)

(* SendQ: a peer reads whole messages, each once and those of a priority   *)
(* in order, whatever the kernel takes of a write; the buffers of the pool *)
(* that are out are the ones some queue holds; and a connection with       *)
(* something to send is waiting for the socket to be writable (msgq.c,     *)
(* send.c, s_bsd.c).                                                       *)
SendQueuesHold == part = "sendq" => S!WholeMessages /\ S!BuffersCounted /\ S!QueuedIsWatched

(* RecvQ: the lines that are parsed are the lines that were sent, however  *)
(* they were cut, but for what goes with a line that is too long, and one  *)
(* that the flood control holds back has a timer that will take it         *)
(* (packet.c, dbuf.c, read_packet of s_bsd.c).                             *)
InputHolds == part = "recvq" => Q!LinesAreSent /\ Q!WaitingIsTimed

(* Hash: the hash tables hold each client under its present name once and  *)
(* nothing else, and a juped nick is found by every query (hash.c).        *)
(* Listing: a LIST that is cut in pieces by the send queue shows each      *)
(* channel that was there from its start to its end (list_next_channels).  *)
TablesHold ==
  /\ part = "hash" => H!TableIsExact /\ H!JupesAreFound
  /\ part = "listing" => L!ListIsWhole

(* Parse: the tree of commands finds the commands and pseudo commands that *)
(* are registered and no others, through every change of the mappings, and *)
(* the words of a line reach the handler as they were typed (parse.c).     *)
ParserHolds == part = "parse" => P!TreeIsRegistry /\ P!LineIsWhole

(* Motd: a cached file is counted by those who use it, is freed with the   *)
(* last of them, and is never older than the last rehash (motd.c).         *)
MotdHolds == part = "motd" => D!RefsAreCounted /\ D!NoStaleMotd

(* Conf: no client, listener or lookup holds a freed block or class, and   *)
(* the counts of clients and links are right across rehashes (s_conf.c,    *)
(* class.c, listener.c).  IPcheck: the counter of an address is the number *)
(* of its clients, also where it is full and a client is refused for it    *)
(* (ip_registry_* of IPcheck.c).                                           *)
CountsHold ==
  /\ part = "conf" => B!NothingFreed /\ B!CountsHold
  /\ part = "addresses" => I!ConnectedIsCount

(* Auth: lookups belong to the requests that wait for them, unless iauth   *)
(* has changed the address; nobody is registered without the kill check, a *)
(* block, a nick, a user name and the PONG, nor while CAP is open; and a   *)
(* late command of iauth about an earlier connection settles nothing       *)
(* (s_auth.c).                                                             *)
AuthHolds ==
  part = "auth" => A!QueriesHaveOwners /\ A!RegisteredIsCleared /\ A!SettledByOwn

(* Auth: every connection is registered or gone in the end, though the     *)
(* resolver, the ident server, the client and iauth may all be silent.     *)
Settled == (part = "auth" /\ A!Unregistered(1)) ~> (part = "auth" /\ ~A!Unregistered(1))
=============================================================================
