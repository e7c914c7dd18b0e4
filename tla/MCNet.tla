--------------------------------- MODULE MCNet ------------------------------
(***************************************************************************)
(* What servers and users do with each other, each part on its own small   *)
(* instance: part says which of them a behaviour is about, and never       *)
(* changes.  The parts take turns with the same variables, x1 to x9; a     *)
(* part that has fewer leaves the others at Off.                           *)
(***************************************************************************)
EXTENDS Naturals, Sequences, TLC

CONSTANTS na, nb, nc  \* the servers of the part chain

VARIABLES part, x1, x2, x3, x4, x5, x6, x7, x8, x9
-----------------------------------------------------------------------------
(* The instances. *)

NickServers == {na, nb, nc}
NickVia ==
  [s \in NickServers |-> [x \in NickServers |-> IF nb \in {s, x} \/ s = x THEN x ELSE nb]]
M == INSTANCE Nick WITH
       Servers <- NickServers, Via <- NickVia, Capacity <- 3, Nicks <- {"n"}, Hosts <- {"h", "i"},
       Ghosting <- FALSE, MaxTs <- 2, MaxOps <- 2, MaxConnects <- 2, MaxBreaks <- 0, tab <- x1, dormant <- x2,
       last_nn <- x3, known <- x4, status <- x5, chan <- x6, ops <- x7, connects <- x8, breaks <- x9

ChannelHome == "u1" :> "a" @@ "u2" :> "b"
Direct == [s \in {"a", "b"} |-> [x \in {"a", "b"} |-> x]]
K == INSTANCE Channel WITH
       Servers <- {"a", "b"}, Via <- Direct, Users <- {"u1", "u2"}, Home <- ChannelHome, OpLevels <- TRUE,
       Keys <- 1, Commands <- {"JOIN", "PART", "KICK", "MODE", "OPMODE", "CLEARMODE", "INVITE", "SVSJOIN"},
       StartMembers <- <<"u1", "u2">>, MaxTs <- 4, MaxOps <- 2, MaxBreaks <- 1, MaxExpiry <- 1, ch <- x1,
       burst <- x2, up <- x3, wire <- x4, ops <- x5, breaks <- x6, expired <- x7

Z == INSTANCE Channel WITH
       Servers <- {"a", "b"}, Via <- Direct, Users <- {"u1", "u2"}, Home <- ChannelHome, OpLevels <- TRUE,
       Keys <- 1, Commands <- {"JOIN", "PART", "KICK", "MODE"}, StartMembers <- <<"u1", "u2">>, MaxTs <- 4,
       MaxOps <- 3, MaxBreaks <- 1, MaxExpiry <- 1, ch <- x1, burst <- x2, up <- x3, wire <- x4, ops <- x5,
       breaks <- x6, expired <- x7

\* A channel that nobody is on yet: both sides make it, linked or apart.
Y == INSTANCE Channel WITH
       Servers <- {"a", "b"}, Via <- Direct, Users <- {"u1", "u2"}, Home <- ChannelHome, OpLevels <- TRUE,
       Keys <- 1, Commands <- {"JOIN", "SVSJOIN", "MODE", "INVITE"}, StartMembers <- <<>>, MaxTs <- 2,
       MaxOps <- 3, MaxBreaks <- 1, MaxExpiry <- 0, ch <- x1, burst <- x2, up <- x3, wire <- x4, ops <- x5,
       breaks <- x6, expired <- x7

ModeHome == 1 :> 1 @@ 2 :> 2
ModeCovers == {<<3, 1>>, <<3, 2>>}
ModeNick == 1 :> <<{1, 3}, {3}>> @@ 2 :> <<{2, 3}, {}>>
C == INSTANCE ChanModes WITH
       Users <- {1, 2}, Home <- ModeHome, Masks <- {1, 3, 4}, Covers <- ModeCovers, Nick <- ModeNick,
       Words <- {"x", "y"}, Limits <- {1}, MAXOPLEVEL <- 1, AskedLevels <- {2},
       Length <- <<1, 1, 4, 1>>, MaxBans <- 2, AvBanLen <- 2,
       Opers <- {}, MayAge <- FALSE, LetterSets <- {{"b"}, {"o"}, {"D"}}, ch <- x1, nick <- x2

F == INSTANCE ChanModes WITH
       Users <- {1, 2}, Home <- ModeHome, Masks <- {1, 3}, Covers <- ModeCovers, Nick <- ModeNick,
       Words <- {"x", "y"}, Limits <- {1}, MAXOPLEVEL <- 1, AskedLevels <- 0..2,
       Length <- <<1, 1, 4, 1>>, MaxBans <- 2, AvBanLen <- 2,
       Opers <- {}, MayAge <- TRUE, LetterSets <- {{"k"}, {"A", "U"}, {"l"}, {"s", "p"}, {"m"}}, ch <- x1, nick <- x2

G == INSTANCE ChanModes WITH
       Users <- {1, 2}, Home <- ModeHome, Masks <- {1}, Covers <- ModeCovers, Nick <- ModeNick,
       Words <- {"x", "y"}, Limits <- {1}, MAXOPLEVEL <- 2, AskedLevels <- {0, 1, 3},
       Length <- <<1>>, MaxBans <- 2, AvBanLen <- 2,
       Opers <- {1}, MayAge <- TRUE, LetterSets <- {{"o"}, {"A"}}, ch <- x1, nick <- x2

L == INSTANCE Links WITH
       Servers <- {1, 2, 3}, MayConnect <- {<<1, 2>>, <<2, 3>>, <<3, 1>>}, ReliableClock <- FALSE,
       Started <- <<2, 1, 3>>, MaxEvents <- 3, tab <- x1, conns <- x2, pipe <- x3, since <- x4, now <- x5,
       squits <- x6, breaks <- x7

RelayHome == 11 :> 1 @@ 12 :> 1 @@ 13 :> 2 @@ 14 :> 3
RelayMembers == "c" :> {11, 12, 13, 14} @@ "d" :> {12, 14}
RelayOps == "c" :> {11, 14} @@ "d" :> {12}
RelayVoices == "c" :> {13} @@ "d" :> {}
RelayZombies == "c" :> {} @@ "d" :> {14}
RelayKinds ==
  {"PRIVMSG #", "NOTICE #", "WALLCHOPS", "WALLVOICES", "PRIVMSG", "NOTICE", "CPRIVMSG", "PRIVMSG $",
   "NOTICE $", "WALLOPS", "WALLUSERS", "DESYNCH", "NICK", "INVITE", "TOPIC"}
R == INSTANCE Relay WITH
       Servers <- {1, 2, 3}, Edges <- {{1, 2}, {2, 3}}, Users <- 11..14, Home <- RelayHome,
       Members <- RelayMembers, Ops <- RelayOps, Voices <- RelayVoices, Zombies <- RelayZombies, Deaf <- {13},
       Wallops <- {11, 14}, DebugUsers <- {12}, Opers <- {11, 14}, MarkerMax <- 2, Kinds <- RelayKinds,
       MaxMsgs <- 2, mark <- x1, along <- x2, wire <- x3, got <- x4, sent <- x5, topic <- x6, clock <- x7,
       total <- x8, wrapped <- x9

P == INSTANCE Presence WITH
       Clients <- {1, 2, 3}, Locals <- {1, 2}, Nicks <- {"a", "b"}, MaxMonitor <- 1, HistLens <- {1, 2},
       MaxLives <- 3, clients <- x1, watch <- x2, mine <- x3, told <- x4, hist <- x5, rec <- x6, chain <- x7,
       histlen <- x8, lives <- x9

U == INSTANCE Umode WITH
       Users <- {1}, MaxOther <- 3, me <- x1, far <- x2, opers <- x3, inv <- x4, other <- x5, excess <- x6,
       kept <- x7

S == INSTANCE Silence WITH
       Masks <- {1, 2, 3}, Covers <- {<<3, 1>>, <<3, 2>>}, Senders <- {{1, 3}, {2, 3}, {3}},
       Length <- <<1, 1, 3>>, MaxSiles <- 2, AvBanLen <- 2, MaxQueue <- 1, siles <- x1, told <- x2, full <- x3

T == INSTANCE Targets WITH
       Hashes <- {1, 2, 3}, Invites <- {3}, MAXTARGETS <- 2, STARTTARGETS <- 2, RESERVEDTARGETS <- 1,
       TARGET_DELAY <- 2, BONUS <- 3, WORD <- 64, MaxTime <- 4, now <- x1, online <- x2, targets <- x3, nexttarget <- x4,
       entry <- x5, start <- x6, granted <- x7, taken <- x8, recent <- x9

N == INSTANCE Session WITH
       Caps <- {"none", "away-notify", "tls"}, Sticky <- {}, Proto <- {}, Prohibit <- {"none"},
       Texts <- {"t"}, MaxPending <- 2, req <- x1, ans <- x2, capab <- x3, active <- x4, view <- x5,
       away <- x6, farAway <- x7, heard <- x8

J == INSTANCE Jupe WITH
       Servers <- {1, 2}, Terms <- {4}, MAX_EXPIRE <- 8, LocalOps <- {2}, Uplinks <- {2}, MaxOps <- 3,
       MaxBreaks <- 1, Pause <- 3, MaxPauses <- 1, ju <- x1, on <- x2, link <- x3, chan <- x4, now <- x5,
       lapsed <- x6, untold <- x7, used <- x8

\* A line of three, where the one in the middle passes on what it is told.
B == INSTANCE Jupe WITH
       Servers <- {1, 2, 3}, Terms <- {4}, MAX_EXPIRE <- 8, LocalOps <- {2}, Uplinks <- {2}, MaxOps <- 2,
       MaxBreaks <- 1, Pause <- 3, MaxPauses <- 0, ju <- x1, on <- x2, link <- x3, chan <- x4, now <- x5,
       lapsed <- x6, untold <- x7, used <- x8

-----------------------------------------------------------------------------
Off == 0
Off9 == x9 = Off
Off8 == x8 = Off /\ Off9
Off7 == x7 = Off /\ Off8
Off6 == x6 = Off /\ Off7
Off5 == x5 = Off /\ Off6
Off4 == x4 = Off /\ Off5
Off3 == x3 = Off /\ Off4
Init ==
  \/ part = "chain" /\ M!Init
  \/ part = "channel" /\ K!Init /\ Off8
  \/ part = "kicks" /\ Z!Init /\ Off8
  \/ part = "create" /\ Y!Init /\ Off8
  \/ part = "lists" /\ C!CmInit /\ Off3
  \/ part = "flags" /\ F!CmInit /\ Off3
  \/ part = "levels" /\ G!CmInit /\ Off3
  \/ part = "links" /\ L!LkInit /\ Off8
  \/ part = "relay" /\ R!ReInit
  \/ part = "presence" /\ P!PrInit
  \/ part = "umode" /\ U!UmInit /\ Off8
  \/ part = "silence" /\ S!SiInit /\ Off4
  \/ part = "targets" /\ T!TgInit
  \/ part = "session" /\ N!SsInit /\ Off9
  \/ part = "jupe" /\ J!JuInit /\ Off9
  \/ part = "jupeline" /\ B!JuInit /\ Off9

Next ==
  /\ UNCHANGED part
  /\ \/ part = "chain" /\ M!Next
     \/ part = "channel" /\ K!Next /\ UNCHANGED <<x8, x9>>
     \/ part = "kicks" /\ Z!Next /\ UNCHANGED <<x8, x9>>
     \/ part = "create" /\ Y!Next /\ UNCHANGED <<x8, x9>>
     \/ part = "lists" /\ C!CmNext /\ UNCHANGED <<x3, x4, x5, x6, x7, x8, x9>>
     \/ part = "flags" /\ F!CmNext /\ UNCHANGED <<x3, x4, x5, x6, x7, x8, x9>>
     \/ part = "levels" /\ G!CmNext /\ UNCHANGED <<x3, x4, x5, x6, x7, x8, x9>>
     \/ part = "links" /\ L!LkNext /\ UNCHANGED <<x8, x9>>
     \/ part = "relay" /\ R!ReNext
     \/ part = "presence" /\ P!PrNext
     \/ part = "umode" /\ U!UmNext /\ UNCHANGED <<x8, x9>>
     \/ part = "silence" /\ S!SiNext /\ UNCHANGED <<x4, x5, x6, x7, x8, x9>>
     \/ part = "targets" /\ T!TgNext
     \/ part = "session" /\ N!SsNext /\ UNCHANGED x9
     \/ part = "jupe" /\ J!JuNext /\ UNCHANGED x9
     \/ part = "jupeline" /\ B!JuNext /\ UNCHANGED x9

Spec == Init /\ [][Next]_<<part, x1, x2, x3, x4, x5, x6, x7, x8, x9>>
-----------------------------------------------------------------------------
(* Nick: once nothing is in flight, linked servers know the same users     *)
(* with the same nicks and timestamps, though users take one nick on       *)
(* several servers and NICK, KILL and QUIT cross (m_nick.c, m_kill.c).     *)
NicksAgree == part = "chain" => M!QuietMeansAgreed

(* Channel: a kicked user is gone at once on his own server, zombies alone *)
(* never keep a channel, an empty channel is watched until it goes, and    *)
(* once nothing is in flight the servers list the same members (channel.c, *)
(* m_join.c, m_part.c, m_kick.c, m_burst.c, m_destruct.c).                 *)
ChannelHolds ==
  /\ part = "channel" => K!LocalsNeverZombie /\ K!NotOnlyZombies /\ K!EmptyIsWatched /\ K!SameMembers
  /\ part = "kicks" => Z!LocalsNeverZombie /\ Z!NotOnlyZombies /\ Z!EmptyIsWatched /\ Z!SameMembers
  /\ part = "create" => Y!LocalsNeverZombie /\ Y!NotOnlyZombies /\ Y!EmptyIsWatched /\ Y!SameMembers

(* ChanModes: the modes and lists that a server which is told of a change  *)
(* has are the ones of the server that made it (modebuf_flush_int and      *)
(* mode_parse of channel.c), and so are the op levels where none asks for  *)
(* the weakest by name (channel.c:1870), a remembered verdict that a       *)
(* member is banned is the one the list gives now (mode_ban_invalidate,    *)
(* find_ban), and +d is shown exactly while joins made under +D are hidden.*)
ModesHold ==
  /\ part = "lists" => C!SameModes /\ C!BansAreCurrent /\ C!HiddenIsMarked
  /\ part = "flags" => F!SameModes
  /\ part = "levels" => G!SameModes /\ G!SameLevels

(* Links: what each server believes of the network is a tree, and once     *)
(* nothing is in flight all believe the same and it is the links that are  *)
(* there, after crossing SERVERs and SQUITs (m_server.c, m_squit.c).       *)
LinksHold == part = "links" => L!ViewIsTree /\ L!QuietMeansTree

(* Relay: a message reaches each of its receivers once and in order, also  *)
(* when the marker wraps but for the receiver on the highest descriptor,   *)
(* and the topic is the same everywhere once nothing is in flight (send.c, *)
(* ircd_relay.c, m_topic.c).                                               *)
RelayHolds == part = "relay" => R!OnceInOrder /\ R!TopicsAgree

(* Presence: who watches a nick was last told that it is on-line exactly   *)
(* while a user has it, but for announcements of connections that are not  *)
(* registered, and the history of nicks never points at a client that is   *)
(* gone and gives up its oldest record first (monitor.c, whowas.c).        *)
PresenceHolds == part = "presence" => P!NoChangeMissed /\ P!NothingDangles

(* Umode: each server's count of operators is the number of operators it   *)
(* knows, with what four steps that miscount have added, and no right of   *)
(* an operator outlives the mode but for one change of a DDB record        *)
(* (s_user.c, m_oper.c, m_opmode.c, ddb_events.c).                         *)
OpersHold == part = "umode" => U!OpersCounted /\ U!RightsEnd

(* Silence: a list never holds a mask that another one covers, and another *)
(* server drops for a user only what he has silenced, unless a mask was    *)
(* once refused for want of room (m_silence.c, is_silenced of s_user.c):   *)
(* after that FullStaysInStep is false of the code.                        *)
SilenceHolds == part = "silence" => S!ListRules /\ S!DropsOnlySilenced

(* Targets: a user never reaches more targets than he was granted, and the *)
(* ones he used last stay free (check_target_limit, add_target).           *)
TargetsHold == part = "targets" => T!WithinGrant /\ T!KeepsRecent


(* Jupe: a juped server stays out, and once nothing is in flight the       *)
(* servers agree on the jupes (jupe.c, m_jupe.c, m_server.c), over local   *)
(* changes and their withdrawal, expiry, lost links and bursts.  Agreement *)
(* is not promised once a jupe has expired, nor after a change that nobody *)
(* is told of (jupe.c:207, 259; NothingUntold is false of the code).       *)
JupesHold ==
  /\ part = "jupe" => J!JupedStaysOut /\ J!QuietMeansAgreed
  /\ part = "jupeline" => B!JupedStaysOut /\ B!QuietMeansAgreed
=============================================================================
