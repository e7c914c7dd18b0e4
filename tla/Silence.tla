------------------------------ MODULE Silence -------------------------------
(***************************************************************************)
(* The SILENCE list of a user and its copy at another server: masks and    *)
(* exceptions.  The other server is told of removals and of exceptions at  *)
(* once, of a mask only when someone it silences has written from there    *)
(* (m_silence.c, is_silenced of s_user.c, apply_ban and find_ban of        *)
(* channel.c).  The servers between the two do as the last one does.       *)
(***************************************************************************)
EXTENDS Naturals, Sequences, FiniteSets, SequencesExt

CONSTANTS
  Masks, Covers,  \* masks, and the pairs of which the first covers the second
  Senders,        \* users of the other server: the sets of masks that match each
  Length,         \* mask -> strlen of its banstr
  MaxSiles,       \* FEAT_MAXSILES
  AvBanLen,       \* FEAT_AVBANLEN
  MaxQueue        \* bound: commands on their way

VARIABLES siles,  \* the list, at home and at the other server: a sequence of [m, exc, f]
          told,   \* what is on its way to the other server
          full    \* a mask was refused for want of room

kvars == <<siles, told, full>>
-----------------------------------------------------------------------------
(* A ban never covers an exception. *)
bmatch(a, b) == ~(b.exc /\ ~a.exc) /\ (a.m = b.m \/ <<a.m, b.m>> \in Covers)
Marked(list, x) == [k \in DOMAIN list |-> IF bmatch(x, list[k]) THEN [list[k] EXCEPT !.f = @ \cup {"OVERLAPPED", "DEL"}] ELSE list[k]]

apply_ban(list, x) ==
  IF "ADD" \in x.f
  THEN IF \E k \in DOMAIN list : bmatch(list[k], x) /\ "DEL" \notin list[k].f THEN [ok |-> FALSE, list |-> list]
       ELSE [ok |-> TRUE, list |-> Append(Marked(list, x), x)]
  ELSE [ok |-> \E k \in DOMAIN list : bmatch(x, list[k]), list |-> Marked(list, x)]

(* find_ban: the first mask that matches, unless an exception does. *)
Matching(list, who) == {k \in DOMAIN list : list[k].m \in who}
find_ban(list, who) ==
  LET K == Matching(list, who)
  IN  IF K = {} \/ \E k \in K : list[k].exc THEN <<>>
      ELSE <<list[CHOOSE k \in K : \A j \in K : k <= j]>>
-----------------------------------------------------------------------------
(* forward_silences: a = the list so far, and what was taken, in order;    *)
(* an entry that a later one covers is marked where it was taken too.      *)
Take(a, x) ==
  LET r == apply_ban(a.list, x)
      known == [k \in DOMAIN a.taken |->
                  IF "ADD" \in a.taken[k].f /\ r.ok /\ bmatch(x, a.taken[k])
                  THEN [a.taken[k] EXCEPT !.f = @ \cup {"OVERLAPPED", "DEL"}] ELSE a.taken[k]]
  IN  [list |-> r.list, taken |-> IF r.ok THEN Append(known, x) ELSE known]
(* The user's own list has room for so many, and for so long masks.  A     *)
(* refused one ends the list after the last that counted (at): a later     *)
(* one that still fits is taken, and told, but is no longer on the list.   *)
Admit(r, x) ==
  IF x.f \cap {"OVERLAPPED", "DEL"} # {} THEN [r EXCEPT !.taken = Append(@, x)]
  ELSE IF r.count >= MaxSiles \/ r.length + Length[x.m] >= MaxSiles * AvBanLen
  THEN [r EXCEPT !.list = SubSeq(@, 1, r.at), !.full = TRUE]
  ELSE [r EXCEPT !.taken = Append(@, x), !.count = @ + 1, !.length = @ + Length[x.m],
                 !.at = IF Contains(r.list, x) THEN SelectInSeq(r.list, LAMBDA y : y = x)
                         ELSE Len(r.list)]
Room(a) ==
  LET old == {k \in DOMAIN a.list : a.list[k].f = {}}
  IN  FoldLeft(Admit, [list |-> a.list, taken |-> <<>>, count |-> Cardinality(old),
                       length |-> FoldSet(LAMBDA k, n : n + Length[a.list[k].m], 0, old),
                       at |-> Max(old \cup {0}), full |-> FALSE], a.taken)
Kept(list) ==
  LET K == SelectSeq(list, LAMBDA x : x.f \cap {"OVERLAPPED", "DEL"} = {})
  IN  [k \in DOMAIN K |-> [K[k] EXCEPT !.f = {}]]
(* Mutant: other servers hear of exceptions only. *)
ForwardAdds(taken) == SelectSeq(taken, LAMBDA x : "OVERLAPPED" \notin x.f /\ "ADD" \in x.f /\ x.exc)
Forward(taken) == SelectSeq(taken, LAMBDA x : "OVERLAPPED" \notin x.f /\ ("DEL" \in x.f \/ x.exc))

m_silence(cs) ==
  LET a == Room(FoldLeft(Take, [list |-> siles[1], taken |-> <<>>], cs))
  IN  /\ siles' = [siles EXCEPT ![1] = Kept(a.list)]
      /\ told' = IF Forward(a.taken) = <<>> THEN told ELSE Append(told, Forward(a.taken))
      /\ full' = (full \/ a.full)

(* The other server does as it is told, and has room for all. *)
ms_silence ==
  /\ told # <<>>
  /\ siles' = [siles EXCEPT ![2] = Kept(FoldLeft(Take, [list |-> @, taken |-> <<>>], Head(told)).list)]
  /\ told' = Tail(told)
  /\ UNCHANGED full

(* A message that the other server lets pass: if the list at home silences *)
(* its sender, the mask goes there, with all exceptions.                   *)
is_silenced(who) ==
  LET found == find_ban(siles[1], who)
      exc == SelectSeq(siles[1], LAMBDA x : x.exc)
      add(s) == [k \in DOMAIN s |-> [s[k] EXCEPT !.f = {"ADD"}]]
  IN  /\ find_ban(siles[2], who) = <<>> /\ found # <<>>
      /\ told' = Append(told, add(found \o exc))
      /\ UNCHANGED <<siles, full>>

(* The other server left and came back: it has forgotten the list. *)
Relink ==
  /\ siles[2] # <<>>
  /\ siles' = [siles EXCEPT ![2] = <<>>] /\ told' = <<>>
  /\ UNCHANGED full
-----------------------------------------------------------------------------
Changes == [m : Masks, exc : BOOLEAN, f : {{"ADD"}, {"DEL"}}]

SiInit == siles = [s \in 1..2 |-> <<>>] /\ told = <<>> /\ full = FALSE
SiNext ==
  \/ Len(told) < MaxQueue /\ \E a, b \in Changes : m_silence(<<a, b>>)
  \/ Len(told) < MaxQueue /\ \E who \in Senders : is_silenced(who)
  \/ ms_silence
  \/ Relink
-----------------------------------------------------------------------------
(* What the comment of apply_ban asks of a list, at home and at the other  *)
(* server: no mask is more specific than another mask or than an           *)
(* exception, and no exception than an exception.                          *)
ListRules == \A s \in 1..2 : \A j, k \in DOMAIN siles[s] : j # k => ~bmatch(siles[s][j], siles[s][k])

Drops(s, who) == find_ban(siles[s], who) # <<>>
InStep == \A who \in Senders : Drops(2, who) => Drops(1, who)

(* Once it has heard all, the other server drops no message that the       *)
(* user's own list lets pass, though it knows some masks that the list no  *)
(* longer has and not all of those it has (forward_silences).  It says     *)
(* nothing once a mask was refused for want of room.                       *)
DropsOnlySilenced == told = <<>> /\ ~full => InStep

(* False of the code: that it stays so once a mask was refused             *)
(* (m_silence.c:149).  The masks that the refused one covers are marked    *)
(* before, leave the list and are told to nobody: the other server keeps   *)
(* them.                                                                   *)
FullStaysInStep == told = <<>> => InStep
=============================================================================
