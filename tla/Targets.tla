------------------------------ MODULE Targets -------------------------------
(***************************************************************************)
(* The limit on the targets a client writes to (check_target_limit and     *)
(* add_target of s_user.c) and what the registry of addresses keeps of it  *)
(* from one connection to the next (IPcheck.c).  Clients of one address    *)
(* connect one after the other.  A target is known by its hash, 0 is an    *)
(* unused place.  The arithmetic of 32-bit unsigned free targets and of    *)
(* 64-bit times is kept where it matters.                                  *)
(***************************************************************************)
EXTENDS Integers, Sequences, FiniteSets, SequencesExt

CONSTANTS
  Hashes,                                           \* of targets
  Invites,                                          \* those of channels that he is invited to
  MAXTARGETS, STARTTARGETS, RESERVEDTARGETS,
  TARGET_DELAY,
  BONUS,                                            \* seconds online after which a client earns free targets
  WORD,                                             \* the unsigned integers are modulo this, 2^32
  MaxTime                                           \* bound on the clock

VARIABLES now,
          online,   \* a client is connected
          targets, nexttarget,
          entry,    \* of its address: the targets kept, the free ones, when it was last used
          start, granted, taken,   \* of the connection: when it began, the free targets it was given, the new ones it took
          recent    \* the targets it used last, the newest first

tvars == <<now, online, targets, nexttarget, entry, start, granted, taken, recent>>
-----------------------------------------------------------------------------
NoEntry == [has |-> FALSE, targets |-> <<>>, count |-> STARTTARGETS, last |-> 0]
Blank == [k \in 1..MAXTARGETS |-> 0]
AtMost(a, b) == IF a < b THEN a ELSE b
AtLeast(a, b) == IF a > b THEN a ELSE b

(* ip_registry_update_free_targets: one more for each delay that passed. *)
FreeTargets(e) == IF e.has THEN AtMost(e.count + (now - e.last) \div TARGET_DELAY, STARTTARGETS) ELSE STARTTARGETS
(* The product less one is unsigned: the greatest if there are no free targets. *)
NextTarget(free) == now - ((TARGET_DELAY * free - 1) % WORD)

(* Connected and registered; an address seen for the first time gets the   *)
(* default of make_client.                                                 *)
connect(known) ==
  LET free == FreeTargets(entry)
  IN  /\ ~online /\ (entry.has => known)
      /\ online' = TRUE
      /\ targets' = IF entry.has THEN entry.targets ELSE Blank
      /\ nexttarget' = IF known THEN NextTarget(free) ELSE now - TARGET_DELAY * (STARTTARGETS - 1)
      /\ entry' = IF entry.has THEN [entry EXCEPT !.count = free, !.last = now] ELSE [entry EXCEPT !.last = now]
      /\ start' = now /\ granted' = free /\ taken' = 0 /\ recent' = <<>>
      /\ UNCHANGED now

(* ip_registry_disconnect: the fewest free targets of any client are kept. *)
disconnect ==
  LET e == [entry EXCEPT !.count = FreeTargets(entry), !.last = now]
      left == IF nexttarget < now THEN (now - nexttarget) \div TARGET_DELAY + 1 ELSE 0
      free == left + AtLeast(0, now - start - BONUS) \div TARGET_DELAY
  IN  /\ online
      /\ online' = FALSE
      /\ entry' = [e EXCEPT !.has = TRUE, !.targets = targets, !.count = AtMost(e.count, free)]
      /\ UNCHANGED <<now, targets, nexttarget, start, granted, taken, recent>>

(* An address that nobody uses is forgotten after a while. *)
ip_registry_expire ==
  /\ ~online /\ entry.has
  /\ entry' = NoEntry
  /\ UNCHANGED <<now, online, targets, nexttarget, start, granted, taken, recent>>

IndexOf(h) == CHOOSE k \in 1..MAXTARGETS : targets[k] = h /\ \A j \in 1..MAXTARGETS : targets[j] = h => k <= j
Known(h) == h \in {targets[k] : k \in 1..MAXTARGETS}
(* memmove: places first to last move up by one, h comes first. *)
Shift(h, first, last) == [k \in 1..MAXTARGETS |-> IF k = first THEN h ELSE IF k > first /\ k <= last THEN targets[k - 1] ELSE targets[k]]
Used(h) == SubSeq(<<h>> \o SelectSeq(recent, LAMBDA x : x # h), 1, AtMost(RESERVEDTARGETS, Len(SelectSeq(recent, LAMBDA x : x # h)) + 1))

(* Mutant: who was idle may start from the oldest time each time. *)
PayFromOldest == AtMost(nexttarget + TARGET_DELAY, now - TARGET_DELAY * (MAXTARGETS - 1))
Pay == AtLeast(nexttarget + TARGET_DELAY, now - TARGET_DELAY * (MAXTARGETS - 1))
(* Every caller passes 0 for created.  An invitation lets him pass when it *)
(* is too early for a new target, and leaves no trace: the channel is not  *)
(* among his targets afterwards.                                           *)
check_target_limit(h) ==
  /\ online
  /\ \/ /\ Known(h)
        /\ targets' = Shift(h, 1, IndexOf(h)) /\ recent' = Used(h)
        /\ UNCHANGED <<nexttarget, taken>>
     \/ /\ ~Known(h) /\ now >= nexttarget
        /\ targets' = Shift(h, 1, MAXTARGETS) /\ recent' = Used(h)
        /\ nexttarget' = Pay /\ taken' = taken + 1
     \/ /\ ~Known(h) /\ now < nexttarget /\ h \in Invites
        /\ UNCHANGED <<targets, nexttarget, taken, recent>>
     \/ /\ ~Known(h) /\ now < nexttarget /\ h \notin Invites  \* refused, and later for having tried
        /\ nexttarget' = IF nexttarget - now < TARGET_DELAY + 8 THEN nexttarget + 2 ELSE nexttarget
        /\ UNCHANGED <<targets, taken, recent>>
  /\ UNCHANGED <<now, online, entry, start, granted>>

AddAt(h) == IF Known(h) THEN targets ELSE Shift(h, RESERVEDTARGETS + 1, MAXTARGETS)
(* Someone writes to him: he may answer. *)
add_target(h) ==
  /\ online
  /\ targets' = AddAt(h)
  /\ UNCHANGED <<now, online, nexttarget, entry, start, granted, taken, recent>>

Tick ==
  /\ now < MaxTime /\ now' = now + 1
  /\ UNCHANGED <<online, targets, nexttarget, entry, start, granted, taken, recent>>
-----------------------------------------------------------------------------
TgInit ==
  /\ now = 0 /\ online = FALSE /\ targets = Blank /\ nexttarget = 0 /\ entry = NoEntry
  /\ start = 0 /\ granted = 0 /\ taken = 0 /\ recent = <<>>

TgNext ==
  \/ \E known \in BOOLEAN : connect(known)
  \/ disconnect \/ ip_registry_expire
  \/ \E h \in Hashes : check_target_limit(h) \/ add_target(h)
  \/ Tick
-----------------------------------------------------------------------------
(* A connection that was given free targets takes no more new ones than    *)
(* those and one for each delay that has passed, whatever it was refused,  *)
(* however long it waited and with what its predecessor left; channels he  *)
(* is invited to come on top (check_target_limit, ip_registry_check_local).*)
WithinGrant == online /\ granted > 0 => taken <= granted + (now - start + TARGET_DELAY - 1) \div TARGET_DELAY

(* The targets he wrote to last, and that an invitation did not pass, are  *)
(* still known, so that he may write to them again, whoever has written to *)
(* him since (add_target keeps the reserved places).                       *)
KeepsRecent == online => \A k \in DOMAIN recent : Known(recent[k])

(* Nobody who comes from an address without free targets gets one at once. *)
(* Does not hold: the first of them is free (IPcheck.c, line 422).         *)
NoneAfterNone == online /\ granted = 0 /\ now = start => taken = 0
=============================================================================
