---------------------------- MODULE MCTaskGraph ----------------------------
(* A small instance of TaskGraph.                                          *)
EXTENDS TaskGraph

CONSTANT letter   \* a message

MCFragments == [m \in Messages |-> <<"survey">>]
MCPlans ==
  {<< >>,
   <<[topic |-> "greeting", after |-> {}]>>,
   <<[topic |-> "digest", after |-> {3}], [topic |-> "report", after |-> {}],
     [topic |-> "survey", after |-> {}]>>}
MCReviewers == [c \in 0 .. MaxGraphCrashes |-> IF c = 0 THEN 4 ELSE 2]
=============================================================================
