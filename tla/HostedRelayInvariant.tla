------------------------ MODULE HostedRelayInvariant ------------------------
(***************************************************************************)
(* The inductive invariant behind NeverBoth and ResultMeansHandled: what   *)
(* the contents and the requests in hand are, besides the file.            *)
(***************************************************************************)
EXTENDS HostedRelayProperties

(* What a process can be doing with a request in hand.                     *)
Handling == {"enqueue", "tell", "accept", "ack", "deliver", "route", "park",
             "result", "tellResult"}

(* The steps that follow a save.                                            *)
Continuations == {"idle", "tell", "accept", "list", "serve", "deliver",
                  "result", "tellResult", "link"}

(* p's next step, once its save is done.                                    *)
Resumes(p) == IF pc[p] \in {"truncate", "write"} THEN after[p] ELSE pc[p]

(* Whoever handles a request has one in hand.                              *)
InHandOK == \A p \in Processes :
  /\ after[p] \in Continuations
  /\ Resumes(p) \in Handling => item[p] \in Requests

(* Nothing is on file, or about to be, that was never submitted.           *)
NothingInvented == \A c \in Contents : c.pending \cup c.acked \subseteq submitted

(* A request about to be enqueued is in no content, and only the web server *)
(* has one.                                                                 *)
FreshInHand ==
  \A p \in Processes : pc[p] = "enqueue" =>
    /\ p = "web" /\ item[p] \in submitted
    /\ \A c \in Contents : item[p] \notin c.pending \cup c.acked

(* A result about to be recorded is one of a request that was handled.      *)
HandledInHand ==
  \A p \in Processes : Resumes(p) = "result" => item[p] \in decided \cup parked

TypeInv   == TypeOK /\ InHandOK
QueueInv  == NothingInvented /\ NeverBoth /\ FreshInHand
ResultInv == ResultMeansHandled /\ HandledInHand
RelayInv  == TypeInv /\ QueueInv /\ ResultInv

-----------------------------------------------------------------------------
(* The web server as the only writer, without crashes: what RefinesQueue,   *)
(* AcceptedIsKept and AcceptedIsTold rest on.                               *)

SoleWriter == Processes = {"web"} /\ MaxCrashes = 0

(* What a rewrite makes of the queue: one of its steps, or nothing.         *)
QueueStep(c, d) ==
  LET same == d.pending = c.pending /\ d.acked = c.acked IN
  \/ same /\ d.results = c.results
  \/ \E r \in Requests :
       \/ /\ r \notin c.pending \cup c.acked
          /\ d.pending = c.pending \cup {r} /\ d.acked = c.acked /\ d.results = c.results
       \/ /\ r \in c.pending
          /\ d.pending = c.pending \ {r} /\ d.acked = c.acked \cup {r} /\ d.results = c.results
       \/ /\ r \in c.pending \cup c.acked /\ same
          /\ d.results = c.results \cup {r}

OnFile(c) == c.pending \cup c.acked

(* Nobody else writes: the file is torn between the two steps of the        *)
(* server's own save only, which is a step of the queue.                    *)
WriterOK ==
  /\ mixed = {} /\ (torn <=> pc["web"] = "write")
  /\ Resumes("web") \notin {"deliver", "route", "park"}
  /\ pc["web"] = "truncate" => /\ QueueStep(file, held["web"])
                               /\ file.messages \subseteq held["web"].messages

(* What the content will be when the save under way has ended.              *)
Final == IF pc["web"] \in {"truncate", "write"} THEN held["web"] ELSE file

(* Requests that were listed, are accepted or about to be are on file; the  *)
(* call of one about to be accepted has been told.                          *)
KeptOK ==
  /\ accepted \cup listed \cup todo["web"] \subseteq OnFile(Image)
  /\ Resumes("web") \in {"tell", "accept"} => item["web"] \in OnFile(Final)
  /\ pc["web"] = "result" => item["web"] \in listed
  /\ Resumes("web") # "result" \/ pc["web"] = "result"

ToldOK ==
  /\ AcceptedIsTold
  /\ Resumes("web") = "accept" => <<item["web"], "tool_call">> \in Final.messages

WebInv == WriterOK /\ KeptOK /\ ToldOK
=============================================================================
