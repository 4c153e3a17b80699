--------------------------- MODULE MCAstrataHost ---------------------------
(* A small host.  Its parts share the processes and little else, so that    *)
(* each behaviour exercises some of them: the budgets say which.            *)
EXTENDS AstrataHost, TLC

CONSTANTS s1, s2, r1, r2, ann, page

MCWatched == <<"ui", "daemon">>

Nothing == [k \in {"reconcile", "stop", "ps", "cut", "death", "start", "peek",
                   "mail", "ack", "archive", "compact", "chat", "click", "write",
                   "telemetry"} |-> 0]
With(from, some) == [from |-> from, left |-> some @@ Nothing]

MCClassifications ==
  {<<"local", "normal">>, <<"restricted", "normal">>, <<"local", "enclave">>}

MCBudgets ==
  { With("server",   [reconcile |-> 3, cut |-> 1, ps |-> 1]),
    With("server",   [reconcile |-> 2, cut |-> 1, stop |-> 1]),
    With("server",   [reconcile |-> 2, death |-> 1]),
    With("services", [reconcile |-> 1, start |-> 1, death |-> 1]),
    With("services", [mail |-> 1]),
    With("serving",  [start |-> 1, chat |-> 1, click |-> 1]),
    With("services", [reconcile |-> 1, start |-> 1, peek |-> 1, telemetry |-> 1]),
    With("serving",  [mail |-> 2]),
    With("serving",  [chat |-> 2, death |-> 1]),
    With("serving",  [mail |-> 1, death |-> 1]),
    With("serving",  [mail |-> 1, stop |-> 1]),
    With("serving",  [mail |-> 1, write |-> 2]),
    With("serving",  [mail |-> 1, archive |-> 1, cut |-> 1, ack |-> 1]),
    With("serving",  [mail |-> 1, compact |-> 1]),
    With("serving",  [chat |-> 3]) }

MCSymmetry == Permutations(Terminals) \cup Permutations(Requests)
=============================================================================
