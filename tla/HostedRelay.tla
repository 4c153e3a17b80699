---------------------------- MODULE HostedRelay ----------------------------
(***************************************************************************)
(* The hosted relay of one profile: astrata/mcp/relay.py.  The whole state *)
(* is one JSON file, read and rewritten as a whole by every operation, and *)
(* by several processes: the web server (webpresence/server.py), whose     *)
(* handlers run one after the other, the `mcp-relay-watch` command         *)
(* (main.py), and the desktop UI when it pairs a device (ui/service.py).   *)
(* Path.write_text truncates the file before it writes, and _load takes a  *)
(* file it cannot parse for an empty one.                                  *)
(***************************************************************************)
EXTENDS Naturals

CONSTANTS
  Requests,    \* ids that enqueue_remote_request can generate (a bound)
  Processes,   \* which of the three processes run
  Bound,       \* is the link's bridge_id registered with MCPBridgeService?
  MaxCrashes,  \* bound on the crashes of one process
  None         \* no request

ASSUME ProcessesAssumption == Processes \subseteq {"web", "watch", "desktop"}
ASSUME BoundAssumption == Bound \in BOOLEAN
ASSUME NoneAssumption == None \notin Requests

Kinds == {"tool_call", "tool_result"}

Content == [profile: BOOLEAN, link: BOOLEAN, session: BOOLEAN,
            pending: SUBSET Requests, acked: SUBSET Requests,
            results: SUBSET Requests, waiting: SUBSET Requests,
            messages: SUBSET (Requests \X Kinds)]

Empty == [profile |-> FALSE, link |-> FALSE, session |-> FALSE,
          pending |-> {}, acked |-> {}, results |-> {}, waiting |-> {}, messages |-> {}]

Paired == [Empty EXCEPT !.profile = TRUE, !.link = TRUE]

Steps == {"idle", "enqueue", "tell", "accept", "refresh", "list", "seen", "serve",
          "ack", "deliver", "route", "park", "result", "tellResult", "open",
          "profile", "link", "truncate", "write"}

VARIABLES
  file,      \* the last content written
  torn,      \* the file does not hold a parsable text
  mixed,     \* processes in whose write another one has written meanwhile
  pc,        \* pc[p]: where process p is
  after,     \* after[p]: where p goes once its save is done
  held,      \* held[p]: the content p is about to save
  item,      \* item[p]: the request p is working on
  todo,      \* todo[p]: the requests p has listed and not yet handled
  submitted, \* history: request ids that were generated
  accepted,  \* history: requests whose submission was answered "queued"
  listed,    \* history: requests returned to a local node over HTTP
  decided,   \* history: requests handed off, rejected or answered by a node
  parked,    \* history: requests the watcher put in the list nobody reads
  crashes    \* crashes[p]: at most MaxCrashes

private == <<pc, after, held, item, todo>>
history == <<submitted, accepted, listed, decided, parked, crashes>>
disk    == <<file, torn, mixed>>
vars    == <<disk, private, history>>

(* The file before this episode: none yet, or a paired desktop with the     *)
(* requests that were queued for it.                                        *)
Queued(S) == [Paired EXCEPT !.pending = S, !.session = S # {},
                            !.messages = S \X {"tool_call"}]

Init ==
  /\ \/ file = Empty /\ submitted = {}
     \/ \E S \in SUBSET Requests : file = Queued(S) /\ submitted = S
  /\ torn = FALSE /\ mixed = {}
  /\ pc = [p \in Processes |-> "idle"]
  /\ after = [p \in Processes |-> "idle"]
  /\ held = [p \in Processes |-> Empty]
  /\ item = [p \in Processes |-> None]
  /\ todo = [p \in Processes |-> {}]
  /\ accepted = submitted /\ listed = {} /\ decided = {} /\ parked = {}
  /\ crashes = [p \in Processes |-> 0]

-----------------------------------------------------------------------------
(* _load and _save.                                                        *)

Load == IF torn THEN Empty ELSE file

Goto(p, from, to) == pc[p] = from /\ pc' = [pc EXCEPT ![p] = to]

(* One read-modify-write: the content is read and changed here, and saved   *)
(* by the two steps below.                                                  *)
Save(p, from, content, to) ==
  /\ Goto(p, from, "truncate")
  /\ held' = [held EXCEPT ![p] = content]
  /\ after' = [after EXCEPT ![p] = to]

Truncate(p) ==
  /\ Goto(p, "truncate", "write")
  /\ torn' = TRUE
  /\ UNCHANGED <<file, mixed, after, held, item, todo, history>>

(* Fault: the request in hand is forgotten with the first of its saves.     *)
WriteAndForget(p) ==
  /\ Goto(p, "write", after[p])
  /\ file' = held[p]
  /\ torn' \in (IF p \in mixed THEN BOOLEAN ELSE {FALSE})
  /\ mixed' = (mixed \cup {q \in Processes : pc[q] = "write"}) \ {p}
  /\ held' = [held EXCEPT ![p] = Empty]
  /\ after' = [after EXCEPT ![p] = "idle"]
  /\ item' = [item EXCEPT ![p] = None]
  /\ UNCHANGED <<todo, history>>

(* When another process has written the file since it was truncated, the    *)
(* longer text of the two leaves its tail behind, or does not.              *)
Write(p) ==
  /\ Goto(p, "write", after[p])
  /\ file' = held[p]
  /\ torn' \in (IF p \in mixed THEN BOOLEAN ELSE {FALSE})
  /\ mixed' = (mixed \cup {q \in Processes : pc[q] = "write"}) \ {p}
  /\ held' = [held EXCEPT ![p] = Empty]
  /\ after' = [after EXCEPT ![p] = "idle"]
  /\ item' = IF after[p] = "idle" THEN [item EXCEPT ![p] = None] ELSE item
  /\ UNCHANGED <<todo, history>>

(* A handler that has returned, or was left by an exception.                *)
Finish(p) ==
  /\ pc' = [pc EXCEPT ![p] = "idle"]
  /\ item' = [item EXCEPT ![p] = None]
  /\ todo' = [todo EXCEPT ![p] = {}]

-----------------------------------------------------------------------------
(* enqueue_remote_request, called by the web server's /relay/mcp.          *)

(* A call of /relay/mcp: the profile is looked up, the id is a fresh uuid.  *)
Submit(r) ==
  /\ Goto("web", "idle", "enqueue")
  /\ r \notin submitted
  /\ Load.profile
  /\ submitted' = submitted \cup {r}
  /\ item' = [item EXCEPT !["web"] = r]
  /\ UNCHANGED <<disk, after, held, todo, accepted, listed, decided, parked, crashes>>

Enqueue(p) ==
  /\ Save(p, "enqueue", [Load EXCEPT !.pending = @ \cup {item[p]}], "tell")
  /\ UNCHANGED <<disk, item, todo, history>>

(* Fault: the session starts over with every call.                          *)
TellAfresh(p) ==
  /\ Save(p, "tell", [Load EXCEPT !.session = TRUE,
                                  !.messages = {<<item[p], "tool_call">>}], "accept")
  /\ UNCHANGED <<disk, item, todo, history>>

(* append_session_message of the call.                                      *)
Tell(p) ==
  /\ Save(p, "tell", [Load EXCEPT !.session = TRUE,
                                  !.messages = @ \cup {<<item[p], "tool_call">>}], "accept")
  /\ UNCHANGED <<disk, item, todo, history>>

(* The response: the request is queued.                                     *)
Accept(p) ==
  /\ pc[p] = "accept"
  /\ Finish(p)
  /\ accepted' = accepted \cup {item[p]}
  /\ UNCHANGED <<disk, after, held, submitted, listed, decided, parked, crashes>>

(* Fault: a session is read into the default content.                       *)
ReadSessionAfresh ==
  /\ Save("web", "idle", [Empty EXCEPT !.session = TRUE], "idle")
  /\ UNCHANGED <<disk, item, todo, history>>

(* GET /relay/session writes the session it reads; POST                     *)
(* /relay/session/message adds a message that stands for no request.        *)
ReadSession ==
  /\ Save("web", "idle", [Load EXCEPT !.session = TRUE], "idle")
  /\ UNCHANGED <<disk, item, todo, history>>

-----------------------------------------------------------------------------
(* local_heartbeat, over HTTP or in the watcher's loop.                    *)

Beat(p) ==
  /\ p \in {"web", "watch"}
  /\ Goto(p, "idle", "refresh")
  /\ UNCHANGED <<disk, after, held, item, todo, history>>

(* _update_local_link: only times change, but the whole file is rewritten.  *)
Refresh(p) ==
  /\ IF Load.link
     THEN Save(p, "refresh", Load, "list")
     ELSE Goto(p, "refresh", "list") /\ UNCHANGED <<after, held>>
  /\ UNCHANGED <<disk, item, todo, history>>

List(p) ==
  /\ Goto(p, "list", IF Load.pending = {} THEN "serve" ELSE "seen")
  /\ todo' = [todo EXCEPT ![p] = Load.pending]
  /\ UNCHANGED <<disk, after, held, item, history>>

(* _mark_session_seen: the same for the sessions, when there are any.       *)
Seen(p) ==
  /\ IF Load.session
     THEN Save(p, "seen", Load, "serve")
     ELSE Goto(p, "seen", "serve") /\ UNCHANGED <<after, held>>
  /\ UNCHANGED <<disk, item, todo, history>>

(* The response to a node that sent its heartbeat over HTTP.                *)
ReturnListing(p) ==
  /\ p = "web" /\ pc[p] = "serve"
  /\ Finish(p)
  /\ listed' = listed \cup todo[p]
  /\ UNCHANGED <<disk, after, held, submitted, accepted, decided, parked, crashes>>

-----------------------------------------------------------------------------
(* _cmd_mcp_relay_watch: every listed request is acknowledged, delivered    *)
(* and answered, one after the other.                                       *)

NextRequest(p) ==
  /\ p = "watch" /\ Goto(p, "serve", "ack")
  /\ \E r \in todo[p] : item' = [item EXCEPT ![p] = r]
  /\ UNCHANGED <<disk, after, held, todo, history>>

EndOfListing(p) ==
  /\ p = "watch" /\ pc[p] = "serve"
  /\ todo[p] = {}
  /\ Finish(p)
  /\ UNCHANGED <<disk, after, held, history>>

(* Faults: `remaining` is not saved; it is saved unfiltered.                *)
AckDropsRest(p) ==
  /\ LET moved == Load.pending \cap {item[p]} IN
     Save(p, "ack", [Load EXCEPT !.pending = {}, !.acked = @ \cup moved],
          IF p = "watch" THEN "deliver" ELSE "idle")
  /\ UNCHANGED <<disk, item, todo, history>>
AckKeepsPending(p) ==
  /\ LET moved == Load.pending \cap {item[p]} IN
     Save(p, "ack", [Load EXCEPT !.acked = @ \cup moved],
          IF p = "watch" THEN "deliver" ELSE "idle")
  /\ UNCHANGED <<disk, item, todo, history>>

(* acknowledge_requests: what is not pending (any more) is not moved, the   *)
(* watcher goes on to deliver it all the same.                              *)
Ack(p) ==
  /\ LET moved == Load.pending \cap {item[p]} IN
     Save(p, "ack", [Load EXCEPT !.pending = @ \ moved, !.acked = @ \cup moved],
          IF p = "watch" THEN "deliver" ELSE "idle")
  /\ UNCHANGED <<disk, item, todo, history>>

(* queue_tool_call: an unknown profile raises...                            *)
Deliver(p) ==
  /\ Load.profile
  /\ Goto(p, "deliver", "route")
  /\ UNCHANGED <<disk, after, held, item, todo, history>>

(* ...without an online link the call is parked in a list nobody reads...   *)
RouteToList(p) ==
  /\ ~ Load.link
  /\ Goto(p, "route", "park")
  /\ UNCHANGED <<disk, after, held, item, todo, history>>

Park(p) ==
  /\ Save(p, "park", [Load EXCEPT !.waiting = @ \cup {item[p]}], "result")
  /\ parked' = parked \cup {item[p]}
  /\ UNCHANGED <<disk, item, todo, submitted, accepted, listed, decided, crashes>>

(* ...otherwise it is rejected, or handed to the bridge of the link.        *)
Decide(p) ==
  /\ Goto(p, "route", "result")
  /\ decided' = decided \cup {item[p]}
  /\ UNCHANGED <<disk, after, held, item, todo, submitted, accepted, listed, parked, crashes>>

Reject(p)  == Load.link /\ Decide(p)
HandOff(p) == Load.link /\ Bound /\ Decide(p)

(* Fault: the watcher survives an unknown profile and records a result.     *)
RaiseIgnored(p) ==
  \/ /\ ~ Load.profile
     /\ Goto(p, "deliver", "result")
     /\ UNCHANGED <<disk, after, held, item, todo, history>>
  \/ /\ pc[p] \in {"refresh", "ack", "result"}
     /\ Finish(p)
     /\ UNCHANGED <<disk, after, held, history>>

(* get_profile finds nothing, open_inbound_handoff knows no such bridge, or *)
(* the account registry does not authorise the link: the exception ends an  *)
(* HTTP handler, and the watcher, which the supervisor starts again.        *)
Raise(p) ==
  /\ \/ pc[p] = "deliver" /\ ~ Load.profile
     \/ pc[p] = "route" /\ Load.link /\ ~ Bound
     \/ pc[p] \in {"refresh", "ack", "result"}
  /\ Finish(p)
  /\ UNCHANGED <<disk, after, held, history>>

-----------------------------------------------------------------------------
(* record_result: the result, then its session message.                    *)

Result(p) ==
  /\ Save(p, "result", [Load EXCEPT !.results = @ \cup {item[p]}], "tellResult")
  /\ UNCHANGED <<disk, item, todo, history>>

TellResult(p) ==
  /\ Save(p, "tellResult", [Load EXCEPT !.session = TRUE,
                                        !.messages = @ \cup {<<item[p], "tool_result">>}],
          IF p = "watch" THEN "serve" ELSE "idle")
  /\ todo' = [todo EXCEPT ![p] = @ \ {item[p]}]
  /\ UNCHANGED <<disk, item, history>>

(* A local node acknowledges over HTTP what it was given, and answers it;   *)
(* it may repeat both.                                                      *)
NodeAcks(r) ==
  /\ r \in listed
  /\ Goto("web", "idle", "ack")
  /\ item' = [item EXCEPT !["web"] = r]
  /\ UNCHANGED <<disk, after, held, todo, history>>

NodeAnswers(r) ==
  /\ r \in listed
  /\ Goto("web", "idle", "result")
  /\ item' = [item EXCEPT !["web"] = r]
  /\ decided' = decided \cup {r}
  /\ UNCHANGED <<disk, after, held, todo, submitted, accepted, listed, parked, crashes>>

-----------------------------------------------------------------------------
(* pair_desktop_device: register_profile, then register_local_link.        *)

RegisterProfile ==
  /\ Save("desktop", "idle", [Load EXCEPT !.profile = TRUE], "link")
  /\ UNCHANGED <<disk, item, todo, history>>

RegisterLink ==
  /\ Save("desktop", "link", [Load EXCEPT !.link = TRUE], "idle")
  /\ UNCHANGED <<disk, item, todo, history>>

-----------------------------------------------------------------------------
Crash(p) ==
  /\ pc[p] # "idle"
  /\ crashes[p] < MaxCrashes
  /\ crashes' = [crashes EXCEPT ![p] = @ + 1]
  /\ Finish(p)
  /\ held' = [held EXCEPT ![p] = Empty]
  /\ after' = [after EXCEPT ![p] = "idle"]
  /\ mixed' = mixed \ {p}
  /\ UNCHANGED <<file, torn, submitted, accepted, listed, decided, parked>>

(* The steps of a handler once it has begun.                                *)
Serve(p) == \/ Truncate(p) \/ Write(p)
            \/ Enqueue(p) \/ Tell(p) \/ Accept(p)
            \/ Refresh(p) \/ List(p) \/ Seen(p) \/ ReturnListing(p)
            \/ NextRequest(p) \/ EndOfListing(p) \/ Ack(p)
            \/ Deliver(p) \/ RouteToList(p) \/ Park(p) \/ Reject(p) \/ HandOff(p)
            \/ Raise(p) \/ Result(p) \/ TellResult(p)

WebCalls == \/ \E r \in Requests : Submit(r) \/ NodeAcks(r) \/ NodeAnswers(r)
            \/ ReadSession

Next == \/ \E p \in Processes : Serve(p) \/ Beat(p) \/ Crash(p)
        \/ "web" \in Processes /\ WebCalls
        \/ "desktop" \in Processes /\ (RegisterProfile \/ RegisterLink)

Spec == Init /\ [][Next]_vars
=============================================================================
