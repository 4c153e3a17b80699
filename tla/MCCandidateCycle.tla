------------------------- MODULE MCCandidateCycle -------------------------
(* A small instance of CandidateCycle: a planned and protected file, a      *)
(* planned one, and two orders for the protected one.                       *)
EXTENDS CandidateCycle

CONSTANTS charter, module, granted, other, r1, r2   \* files, orders and routes

MCWants == [o \in Orders |-> {charter}]
MCLane  == [c \in Orders \cup Planned |-> IF c = charter THEN r1 ELSE r2]
MCCapability == [r \in Routes |-> IF r = r1 THEN 2 ELSE 0]
=============================================================================
