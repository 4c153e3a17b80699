----------------------- MODULE HostedRelayProperties -----------------------
(***************************************************************************)
(* What the hosted relay's queue promises, stated over HostedRelay.        *)
(***************************************************************************)
EXTENDS HostedRelay

TypeOK ==
  /\ file \in Content /\ torn \in BOOLEAN /\ mixed \subseteq Processes
  /\ pc \in [Processes -> Steps] /\ after \in [Processes -> Steps]
  /\ held \in [Processes -> Content]
  /\ item \in [Processes -> Requests \cup {None}]
  /\ todo \in [Processes -> SUBSET Requests]
  /\ submitted \subseteq Requests /\ accepted \subseteq Requests
  /\ listed \subseteq Requests /\ decided \subseteq Requests
  /\ parked \subseteq Requests
  /\ crashes \in [Processes -> Nat]

(* Every content that is on disk or about to be.                           *)
Contents == {file} \cup {held[p] : p \in Processes}

-----------------------------------------------------------------------------
(* However many processes share the file and wherever they crash.          *)

(* No content, saved or about to be, has a request both pending and         *)
(* acknowledged: acknowledge_requests moves it within one rewrite, and no   *)
(* stale rewrite can bring the two lists apart.                             *)
NeverBoth == \A c \in Contents : c.pending \cap c.acked = {}

(* A result is on file only for a request that was handed off, rejected or  *)
(* parked by the watcher, or answered by a local node: _cmd_mcp_relay_watch *)
(* records after it delivers.                                               *)
ResultMeansHandled == \A c \in Contents : c.results \subseteq decided \cup parked

-----------------------------------------------------------------------------
(* The web server as the only writer, no crash.                            *)

(* What the file holds, or will hold once the save under way has ended.    *)
Image == IF torn THEN held["web"] ELSE file

Queue == INSTANCE RelayQueue WITH
  pending <- Image.pending, acked <- Image.acked, results <- Image.results

(* Every step of the server, its rewrites of sessions and links included,   *)
(* is a step of the queue it stands for, or none.                           *)
RefinesQueue == Queue!QueueSpec

(* A request whose sender was told "queued" is on file, pending or          *)
(* acknowledged, whenever the file can be read: the relay queue is durable. *)
AcceptedIsKept == ~ torn => accepted \subseteq file.pending \cup file.acked

(* What was accepted can be read back in its session.                       *)
AcceptedIsTold == \A r \in accepted : <<r, "tool_call">> \in Image.messages
=============================================================================
