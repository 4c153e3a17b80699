--------------------------- MODULE MCHostedRelay ---------------------------
(* Instances of HostedRelay for TLC.                                       *)
EXTENDS HostedRelayInvariant, TLC

SymmetricRequests == Permutations(Requests)
=============================================================================
