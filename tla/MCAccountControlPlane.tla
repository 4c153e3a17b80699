----------------------- MODULE MCAccountControlPlane -----------------------
(* Instances of AccountControlPlane for TLC.                               *)
EXTENDS AccountControlPlaneInvariant, TLC

SymmetricProcesses == Permutations(Processes)
=============================================================================
