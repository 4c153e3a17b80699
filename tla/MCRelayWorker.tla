--------------------------- MODULE MCRelayWorker ---------------------------
(* A small instance of RelayWorker: two requests at a time, an invite of    *)
(* one use and one of two.  Sign-ins and mail share nothing but the slots,  *)
(* so that they are served apart.                                           *)
EXTENDS RelayWorker, TLC

CONSTANTS s1, s2, once, twice   \* slots and invites

MCBudgets == {[account |-> 4, mail |-> 0], [account |-> 0, mail |-> 4]}
MCMaxUses == [i \in Invites |-> IF i = twice THEN 2 ELSE 0]
MCSymmetry == Permutations(Slots) \cup Permutations(Clients)
              \cup Permutations(Emails)
=============================================================================
