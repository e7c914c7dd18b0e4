----------------------------- MODULE ResolverAbs -----------------------------
(***************************************************************************)
(* What the resolver promises to its callers (s_auth.c and s_bsd.c, which  *)
(* wait in AR_DNS_PENDING and in aconf->dns_pending): a lookup is answered *)
(* by one call of the callback, or it is withdrawn and never answered.     *)
(***************************************************************************)
CONSTANTS Contexts
VARIABLES waiting,   \* the contexts with a lookup under way
          heard      \* per context, what the last callback was given

AbsInit == waiting = {} /\ heard = [c \in Contexts |-> "nothing"]

Ask(c) == c \notin waiting /\ waiting' = waiting \cup {c} /\ heard' = [heard EXCEPT ![c] = "nothing"]
Answer(c) == c \in waiting /\ waiting' = waiting \ {c} /\ \E a \in {"failed", "found"} : heard' = [heard EXCEPT ![c] = a]
Withdraw(c) == c \in waiting /\ waiting' = waiting \ {c} /\ UNCHANGED heard

AbsNext == \E c \in Contexts : Ask(c) \/ Answer(c) \/ Withdraw(c)
absvars == <<waiting, heard>>
AbsSpec == AbsInit /\ [][AbsNext]_absvars
=============================================================================
