# Astrata: a verification project

TLA+ models of Astrata's own protocols, the TLC runs that check them on small
instances, and TLAPS proofs of the safety properties that matter most for every
value of the constants. The reference is the code of the repository; every
definition names the lines it stands for in `PROJECT.json` ("map").

## 1. The system

Astrata is a local agent runtime: a *Loop 0* that picks governed work, delegates
it to model providers and reconciles their answers; message lanes between the
principal, Prime and workers; a hosted relay that lets remote connectors reach a
local installation; an account control plane that says who may; and a
supervisor that keeps the processes running. Nothing in it is a server with one
owner of the state. Several operating-system processes (the loop0 daemon, the
`loop0-run` command, the desktop UI, the web server, the relay watcher, the
supervisor) share one SQLite database, where a single upsert is atomic and a
handler of several upserts is not, and a number of JSON files that every
operation reads and rewrites as a whole, without a lock.

### Inventory

| Component (source) | State | Operations | Interacts through | What is hard | What makes it correct | Module |
|---|---|---|---|---|---|---|
| Loop 0 delegation (`loop0/runner.py`, `loop0/resolution.py`) | task, worker-task and attempt records | select, delegate, supervise, repair, reconcile, retry | database, worker lanes | two runners, crash between writes, stale snapshots, late results | no work lost, answered before complete, dependencies first, one live worker, every wait ends | `WorkerDelegation` |
| Loop 0 task graph (`loop0/runner.py`, `comms/intake.py`) | task records, reviewers' worker tasks | intake, follow-ups, closing rules, batching, consensus | database, worker lanes | records written one by one, results late or twice, peers rewritten from a carrier | approval only by agreement, no duplicate without an original, follow-ups made once, answers stay | `TaskGraph` |
| Loop 0 cycle in place (`loop0/planner.py`, rest of `runner.py`, `governance/*`, `controllers/*`, `procedures/*`, `verification/*`, `audit/*`) | files, drift monitor, route health, attempts | scan, choose, coordinate, generate, verify, review | files, database, providers | crash between files and records, others edit, paths named only in texts | protected files governed, orders carried out once, drift told | `CandidateCycle` |
| Worker runtime, lanes (`workers/runtime.py`, `comms/lanes.py`) | communications and their status | send, list, acknowledge, resolve, serve | database | reply and resolve are two writes | a request is closed only after its answer, no repeat without a crash | `WorkerDelegation`, `TaskGraph`, `LaneTurns` |
| Hygiene (`storage/hygiene.py`) | attempts | close orphaned attempts | database | statuses read one table earlier | an attempt is closed by a status its task had | `WorkerDelegation` |
| Hosted relay (`mcp/relay.py`, `webpresence/server.py`, watcher in `main.py`) | one JSON file: links, pending, acknowledged, results, sessions | enqueue, heartbeat, acknowledge, deliver, answer, read session | the file, HTTP, MCP bridge | whole-file rewrites by three processes, truncation, acknowledge before delivery | an accepted request is kept, pending or acknowledged but not both | `HostedRelay` over `RelayQueue` |
| Relay worker (`worker.js`) | D1 tables, KV values per profile | sign-up, OAuth, calls, heartbeat, acknowledge, results | KV, D1, HTTP | an await between read and write, requests cut short | tokens for whom signed in, invites bounded, receipted calls reach the desktop | `RelayWorker` |
| Account control plane (`accounts/service.py`) | one JSON file: users, invites, devices, links, clients, codes, tokens | invite, pair, link, authorise, exchange, revoke | the file | shared file, three saves per registration | a code is redeemed once, a revoked token stays revoked, a link belongs to its owner | `AccountControlPlane` |
| Supervisor (`supervisor.py`) | `supervisor.json`, processes | reconcile, adopt, start, stop | processes, file | act on an old reading, save at the end, no lock | copies of a service bounded | `ServiceSupervisor` |
| Local runtime (`local/runtime/*`, `local/strata_endpoint.py`), thermal control (`local/thermal.py`) | state file per key, thermal latch, ports | ensure, start, stop, warm, evaluate | processes, files | many starters, one latch, ports taken | no start within the cooldown | `LocalRuntime` |
| Lane turns (`comms/runtime.py`, `agents/service.py`, `controllers/coordinator.py`) | messages, replies | pass over a lane, answer, fail over, resolve | database, providers, runtimes | several processes list the same messages, reply then resolve | answered before closed, once by each who answers | `LaneTurns` |
| Memory (`memory/*`) | pages of a slug | create or update, project, show | database | page read, changed and put back whole; reclassified in between | remote readers see what is public | `ProjectedMemory` |
| Archive (`storage/archive.py`) | the database's files | archive and rebuild, compact | database | nobody is kept from writing | nothing unanswered disappears unnoticed | `RuntimeArchive` |
| Chats (`chats/service.py`, `ui/service.py`) | `chat_threads.json` | poll and prune, create, send, archive, delete | the file | requests side by side rewrite one file | used threads are not pruned | `ChatThreads` |
| Scheduling and routing (`scheduling/*`, `routing/*`) | none of their own | quota, priorities, route choice | database (read) | None as a limit, ties | decisions agree with the policy | choices in the others |
| Evaluation, inference, context | observations, ratings | measure, rate, shape prompts | files, providers | floating-point scores | | not modelled |
| Providers, browser, voice, installer, desktop shell | little | external calls, packaging | processes, HTTP | external programs | | outcomes are choices |

`PROJECT.json` lists every component with its files and status, and under
"hazards" what in this code a test would hardly reach, at the line where it
bites, with the properties that would show it going wrong.

## 2. Modules

### Delegation

* `WorkerDelegation` is the model of the delegation life cycle. One action
  per durable write; `pc[p]` is the place of runner `p` in its cycle.
* `WorkerDelegationProperties` states what it promises. `DelegationContract` is the same promise without a word of how: tasks, their
  dependencies and the lanes that may answer them. `KeepsContract` maps the records to it: a task's status, the worker tasks that are
  `working` for it (`Live`), and those that were ever created.
* `WorkerDelegationInvariant` has the inductive strengthenings,
  `WorkerDelegationBookkeeping` and `WorkerDelegationSafety` the proofs.
* `MCWorkerDelegation` instantiates it for TLC.

How state and actions correspond to the code:

| Model | Code |
|---|---|
| `tasks[t]` (status, kids) | the task record and its `active_child_ids` |
| `wtask[w]`, `request[w]` | the worker task and its `worker_delegation_request`; *overdue* is a request older than a quarter of an hour |
| `sent`, `acked` | `worker_delegation_result` communications, acknowledged ones |
| `open`, `latest` | running attempts, the outcome of the latest one |
| `seen`, `view`, `queue`, `inbox`, `picked`, `job` | local variables of a cycle: payloads read earlier that later writes are built on |
| `HygieneRead`, `HygieneClose` | `reconcile_running_attempts` |
| `ListResults` ... `Acknowledge` | `_reconcile_worker_results` |
| `StartSupervision` ... `BlockTask` | `_supervise_worker_tasks`, `_repair_stalled_worker_task` |
| `Select`, `RewriteTask`, `RecordAttempt` | `next_candidate_assessment`, `_task_record_for_candidate`, `_execute_assessment` |
| `CreateWorker`, `SendRequest`, `LinkDispatched`, `LinkReassigned` | `_delegate_message_task` and what its callers write next |
| `ListRequests`, `EmitResult`, `ResolveRequest` | `WorkerRuntime.process_pending`, `_emit_result` |
| `Crash`, `Age` | a process dies or an exception ends the cycle; time passes |

What is abstracted: the order of results within a listing is arbitrary (the code
sorts by time); supervision's two adjacent table readings are one; artifacts
nobody reads are written with the next record; a provider call is one choice of
an outcome; when the ids in `Workers` are used up, no route is available. The model
is restricted to tasks to which no pending-closure rule applies, without
batching, consensus and follow-up tasks, which are `TaskGraph`'s.

### Hosted relay

* `RelayQueue` says abstractly what a profile's queue promises: a request stays until
  it is acknowledged, is never pending again after that, and an answer stays.
* `HostedRelay` is `mcp/relay.py` as three processes use it: one JSON file, each operation a
  read, a truncation and a write.
* `HostedRelayProperties` states the properties, among them that the web server as sole
  writer implements `RelayQueue` (`Queue == INSTANCE RelayQueue WITH ...`).
* `HostedRelayInvariant` has two inductive invariants, one for any processes and one for the web server as
  sole writer; `HostedRelayProofs` has the proofs, the refinement among them, and `MCHostedRelay` the instances for TLC.

| Model | Code |
|---|---|
| `file`, `torn`, `mixed` | the text on disk: the last content, not parsable, or written by two processes at once |
| `held[p]`, `after[p]` | the dictionary process `p` is about to save, and where its handler goes on |
| `item[p]`, `todo[p]` | the request in hand, the requests of the listing |
| `Load`, `Save`, `Truncate`, `Write` | `_load`, `_save`: `write_text` truncates, then writes; an unreadable file is an empty relay |
| `Submit`, `Enqueue`, `Tell`, `Accept` | `/relay/mcp`, `enqueue_remote_request`, `append_session_message`, the answer |
| `Beat`, `Refresh`, `List`, `Seen`, `ReturnListing` | `local_heartbeat` |
| `NextRequest`, `Ack`, `Deliver`, `RouteToList`, `Park`, `Reject`, `HandOff`, `Raise`, `Result`, `TellResult` | `_cmd_mcp_relay_watch`: acknowledge, `queue_tool_call`, `record_result` |
| `NodeAcks`, `NodeAnswers` | a node acknowledges and answers over HTTP |
| `RegisterProfile`, `RegisterLink` | `pair_desktop_device` |

The web server's handlers do not await between reading and saving, so within
that process they run one after the other. The pending list is a set (its order
is never used to decide), the list of results one entry per request (a lookup
returns the first), a node acknowledges one request per call, and the account
registry's answer is a choice. Pure look-ups have no action. What happens to a request after a failed hand-off is the watcher's and is not promised by any property.

### Account control plane

* `AccountControlPlane` is `accounts/service.py`: users, invites, profiles, devices, links, OAuth
  clients, codes and tokens in one JSON file. An operation is as many steps as it has reads of the
  file and rewrites; every rewrite is a truncation and a write, as in `HostedRelay`.
* `AccountControlPlaneProperties` states what the registry promises: some of it however operations
  overlap, some of it only while none overlaps another (`raced`).
* `AccountControlPlaneInvariant` has two inductive invariants, what holds however operations overlap and what
  holds while none does; `AccountControlPlaneProofs` has the proofs, `MCAccountControlPlane` the instance for TLC.

| Model | Code |
|---|---|
| `file`, `torn`, `mixed`, `held[p]`, `after[p]` | as in the relay; what `_load` takes for an empty registry is `Empty` |
| `call[p]` | the local variables an operation carries from one read to the next |
| `IssueInvite`, `RedeemInvite` | `issue_invite_code`, `redeem_invite_code` |
| `Pair`, `PairProfile`, `PairUser`, `RegisterDevice`, `LinkDevice` | `pair_device_for_user` and what it calls, each with a read of its own |
| `RegisterDesktop`, `DesktopProfile`, `RegisterDevice`, `LinkDevice` | `register_desktop_device`: three rewrites |
| `SetRemoteHostBash`, `RegisterClient` | `set_remote_host_bash`, `register_oauth_client` |
| `IssueCode`, `IssueUser`, `IssueProfile`, `Verify`, `VerifyLinks`, `IssueSave` | `issue_oauth_authorization_code`: the content saved is the one read first |
| `ExchangeCode`, `Verify`, `VerifyLinks`, `ExchangeSave` | `exchange_oauth_authorization_code` |
| `ResolveToken`, `Verify`, `VerifyLinks`, `TokenAuthorised`; `RevokeToken` | `resolve_oauth_access_token`, `revoke_oauth_access_token` |
| `admitted`, `redeemed`, `revoked`, a token's `code` | history, not stored |

What is abstracted: whether a code or a token has expired when it is looked at is a choice; so
is which of several profiles or links comes first. A request with another client, redirect
URI or code verifier than the record's is refused and is no step. Fields that no operation changes (the
`active` of devices, links and clients), labels, scopes and dates are left out. `register_desktop_device` and
`set_remote_host_bash` have no caller outside the tests; they are modelled all the same. The processes are the web
server, whose handlers do not await between reading and saving, the request threads of the
desktop UI and the account commands of `main.py`.

### The task graph

* `TaskGraph` is what `WorkerDelegation` leaves out of the loop's tasks: how records create, close,
  carry and judge one another. One runner, one action per durable write, crashes between any two.
* `TaskGraphInvariant` has its inductive invariants and `TaskGraphProofs` the proofs, `MCTaskGraph` the instance for TLC.

| Model | Code |
|---|---|
| `table`, `panel` | task records, worker tasks of reviewers; positions are the order of creation |
| `letters`, `unread` | the principal's messages and the reviewers' results that nobody acknowledged |
| `gpc`, `hand`, `sweep`, `turn` | where the runner is in `run_steps`, and the local variables of its handlers |
| `TakeLetter`, `SwallowResult`, `MakeTask`, `AcknowledgeLetter` | `process_inbound_messages`, `materialize_inbound_message` |
| `MakeTask`, `BeginOrder`, `OrderTask`, `EndFollowUps` | `_materialize_followup_tasks`: records, then their dependencies |
| `CloseTask` with `LowSignal`, `Duplicate`, `MayBeRealized`, `LikelySatisfied` | `_reconciled_task_payload` and its rules |
| `Offered`, `Batch`, `Carrier`, `Children`, `Retries` | candidate lists and `_collapse_batchable_message_candidates` |
| `TakeChild`, `EndChildren`, `BeginRunOnce`, `TakeBest` | `run_steps`, `run_once` |
| `ApplyAnswer`, `ApplyNothing`, `ApplyByConsensus`, `MakeReviewer`, `LinkReviewers` | `_execute_assessment`, `_delegate_consensus_message_task` |
| `WriteTask`, `SyncPeer`, `RecordAttempt` | `_task_record_for_candidate`, `_sync_batched_peer_tasks`, the attempt |
| `AnswerRequest`, `ResolveRequest` | `_process_all_pending_worker_turns` |
| `ReadResult`, `SettleParent`, `SettleReviewer`, `AcknowledgeResult` | `_reconcile_consensus_worker_result` |

A topic stands for a task's title, description and completion type. Whether a file that a task names
exists, which plan an answer proposes and whether a retry was due are choices. `spawned` counts each time an answer is taken
for its follow-ups, whether or not it names any. The answers a parent heard are a set in which each has its place in the order
of hearing (`nth`), since consensus compares the first ones only.

### The cycle in place

* `CandidateCycle` is `run_once` for a candidate that no worker is given: the governance scan, the choice, the
  coordination, the bounded generation of files, the records, the review.
* `CandidateCycleProofs` has its inductive invariant and its theorems.

| Model | Code |
|---|---|
| `files`, `writer` | the repository's files by content, and (history) who wrote the protected ones |
| `approved`, `reported`, `told` | `governance_drift_state.json`, and the alerts sent |
| `Initialise`, `Scan`, `Notify` | `GovernanceDriftMonitor.scan`, `_record_governance_drift_if_any` |
| `Candidates`, `Choose` | `planner.py`, message tasks, `derive_remediation_candidates` |
| `Coordinate` | `CoordinatorController.coordinate`, `LocalExecutorController.evaluate_handoff` |
| `ApplyBlocked`, `BeginProcedure`, `CallFails`, `CallAnswers`, `FallBack`, `WriteFile`, `EndWriting`, `Answer` | `_apply_candidate`, `_ensure_governance_write_allowed`, `procedures/execution.py` |
| `ApproveBaseline` | `_approve_governance_baseline_if_authorized` |
| `RecordTask`, `RecordAttempt`, `Review`, `Observe`, `FollowUp` | `_execute_assessment` and what it calls |
| `health` | `procedures/health.py` |

A file's content is a number, 0 when it is missing. Priorities, quota and preflight are choices: any candidate may come first.

### The relay as a Cloudflare worker

* `RelayWorker` is `worker.js` without a control plane behind it. A request is a chain of awaited reads
  and writes in a slot; another slot may act between any two, and a request may end there.
* `RelayWorkerProofs` has the inductive invariants and the theorems about tokens, calls and invites.

| Model | Code |
|---|---|
| `users`, `invites`, `codes`, `tokens`, `login` | tables of D1 (`schema.sql`) and the public sign-in request |
| `box`, `receipts` | KV: pending, acknowledged, results, session; receipts by key |
| `SignIn` ... `SettleLogin` | the sign-in pages: `getUserByEmail`, `validateInviteCode`, `createUser`, `consumeInviteCode`, `setOAuthCode` |
| `CompleteSignIn`, `RedeemCode`, `Mint`, `DeleteCode` | `complete_sign_in`, `handleOAuthToken` |
| `StartCall`, `Heartbeat`, `Ack`, `Result`, `ReadSession` | `handleRelayMcp`, `handleLocalHeartbeat`, `handleLocalAck`, `handleLocalResult`, `readSession` |
| `Get`, `Put`, `PutFails` | `getState`, `setState`, which falls back to the isolate's memory |
| `Drop` | the isolate or the client goes away |

### One host

Six modules that share the processes of one machine: `LocalRuntime` extends `ServiceSupervisor`, `LaneTurns` extends it, `ProjectedMemory` and
`ChatThreads`, and `RuntimeArchive` extends `LaneTurns`. `AstrataHost` composes them.

* `ServiceSupervisor`: the processes of the host, `supervisor.json`, and the commands of several terminals.
* `LocalRuntime`: the model servers, their state files, the thermal latch and everyone who starts or stops a server.
* `ProjectedMemory` and `ChatThreads`: memory pages, and the desktop UI's chats.
* `LaneTurns`: the lanes of Prime and Local, answered by daemon, command and UI, with fail-over to Reception and the local model.
* `RuntimeArchive`: archive runs and compaction under the lanes.
* `AstrataHost`: their steps together; terminals that close and processes that end with whatever they were doing.
* `AstrataHostInvariant` has one inductive invariant for each of the host's promises that needs one, `AstrataHostProofs` the proofs.

| Model | Code |
|---|---|
| `alive`, `bound`, `up` | processes, those with their port, those that answer |
| `desk[s]`, `Look`, `Start`, `Save`, `StopNext`, `CutOff` | `AstrataSupervisor.reconcile`, `stop`, `_save_state` |
| `op`, `DecideStart`, `TryPort`, `Launch`, `Record`, `Waited` | `LocalRuntimeManager.start_managed`, `ManagedProcessController.start` |
| `latch`, `Latched`, `Evaluate`, `Cool` | `ThermalController.evaluate` |
| `pages`, `BeginWrite`, `PutPage`, `MayRead`, `View`, `Snippet` | `create_or_update_page`, `assess_memory_access`, `project_memory_page_view`, `retrieve_views` |
| `chats`, `Upsert`, `OpenFile`, `WriteFile`, `ListThreads`, `Prune`, `ResolveThread` | `ChatThreadRegistry`, `_chat_snapshot`, `_resolve_chat_thread` |
| `mail`, `turn`, `BeginTurns`, `NextLane`, `Handle`, `AskPrime`, `AskReception`, `AskLocal`, `EmitReply`, `CloseLetter` | `LaneRuntime`, `StrataEndpointService`, `DurableAgentRegistry.choose_fallback` |
| `TakeSnapshot`, `RemoveLive`, `PutHot`, `CutRun`, `ReadOversized`, `WriteCompacted` | `archive_and_rebuild`, `compact_oversized_runtime_records` |

A process that ends, of itself or because the supervisor stopped it, leaves what it was doing (`LetGo`): its start of a model server,
its pass over the lanes, the requests it served. A process number is never used again; one evaluation of the latch and one reading of a chat thread are each one step; a process takes one lane
turn at a time; a text is known by where it comes from.

## 3. Runs

| Run | Question | Bounds |
|---|---|---|
| `delegation_single` | Is a task delegated to one worker at a time, never silently stranded, never re-opened, and does every wait end? Refinement of `DelegationContract` | one runner without crash, two independent tasks, three workers, one request served per cycle, two outcomes |
| `delegation_crash` | What survives a crash between any two writes, dependencies included? | one runner, one crash, two tasks in a chain, three workers |
| `delegation_two_runners` | What survives two processes on one database? | two runners, one task, one worker |
| `delegation_budget` | Is reassignment bounded? *Violated* | four workers |
| `graph` | What do consensus, duplicates, batches and follow-ups rest on, and does a review end? | one letter of one topic, answers that name no follow-up, one of low signal, or three (two to batch and review, of which the first depends on the last), five tasks, four reviewers (two once a crash hit), one crash |
| `cycle` | What is the principal told, what may write a protected file, how often is an order carried out? | two files of which one is protected, planned and edited by others, two orders for it of which one is authorised, two routes, one crash |
| `relay_web` | Is the file a queue when one process writes it? Refinement of `RelayQueue`, accepted requests kept and readable | two requests |
| `relay_shared` | What holds when rewrites race, tear and are lost? | watcher and pairing desktop, one request, one crash of each |
| `relay_worker` | What holds at the edge, with an await between any read and its write? | two slots, four requests (sign-ins and mail apart), one request or write cut short |
| `worker_refused` | Does an issued token admit its holder? *Violated* | as `relay_worker` |
| `accounts` | Who is let in, what do codes and tokens stand for, and what else holds while operations do not overlap? | two people, two processes, two operations from an empty or an enrolled registry, one crash |
| `host` | How many copies of a service, is the cooldown kept, who sees memory, is mail answered, are threads kept? | two terminals, six processes, two messages, two requests, two threads, one page, and the budgets of `MCBudgets` |

Why the bounds are enough. *Delegation:* three workers allow a dispatch, a supervised
reassignment and a retry of one task, which is every way a second worker for a task
comes to be; four are needed for a third reassignment. `TurnLimit = 1` in
`delegation_single` makes requests wait so that they are supervised before they are
served, which the code's limit of five would hide with so few workers. Two
tasks suffice for a dependency, and two independent ones for a request that waits; the clause of the contract about dependencies is
therefore left to its proof, and to `DependenciesEarned` in `delegation_crash`.
`blocked` differs from `failed` only in the attempt's outcome, so `delegation_single` goes without it. One crash per runner interrupts any single handler; the
handlers have no memory of earlier crashes but the records.
*Graph:* five tasks are a letter's task, its three follow-ups and one that the intake makes of a swallowed result; a batch of two has a carrier
and a peer; four reviewers are two panels, so that a second panel can hear the first one's late results.
*Cycle:* every property speaks of one protected file or one order; the second order and file are there to interfere with them.
*Relay:* one
request meets itself in every list, and two show that handling one
leaves the other alone; every property speaks of one request at a time.
*Worker:* two overlapping chains show every lost update of one box; the requests that came before in the same behaviour provide the content.
*Accounts:* a lost or mixed rewrite takes two
operations, one reading what the other is about to replace, and the enrolled registry they start from is what
earlier operations leave: a user with a linked desktop, an active token, an open invite and an open code, so that two more
operations reach redemption, replay, revocation and ownership across two people.
*Host:* a behaviour has a budget for each kind of outside event, and the budgets combine those that share state (reconciles with cuts,
`ps` failures, deaths; mail with deaths, stops, writes, archive, compaction; chats with chats), so that every pair of parts that can meet meets.

Deadlock is not checked in `accounts`, `relay_worker`, `worker_refused` and `host`, where operations or events are
bounded by a budget. `MaxCalls`, `MaxCrashes`, `MaxGraphCrashes`, `MaxTasks`, `MaxReviewers`, `MaxCycleCrashes`, `MaxDrops`, `Budgets`, `MaxPids`,
`MaxLetters`, `MaxThreads`, `Classifications`, the sets of ids and `TurnLimit` (a constant of the code, five) are the bounds.
Symmetry is used only where no temporal property is checked.

Fairness: `WF_vars(Step(p))` for every runner and every process that has
begun an operation in `WorkerDelegation` and `HostedRelay`, `WF_graphVars(GraphStep)` in `TaskGraph`. The daemon's loop (`_cmd_loop0_daemon`) and the watcher never
stop, a provider call ends or raises, and every write returns. Nothing is assumed of remote
callers, of crashes, of edits, or of the ageing of requests; the other modules state no fairness, and
no liveness.

### What the violated runs show

* `delegation_budget`: `retry_index` is read and never increased, so the budget of
  two that `test_worker_supervision_blocks_after_retry_budget_exhausted` sets up by
  hand is never used up.
* `worker_refused`: `setOAuthToken` stores no resource, and `resolveAdapterAuth` demands one: without a control plane the worker
  refuses every token of an OAuth client that it issued.

### What the models also showed

None of this is contradicted by the repository's own words, so it is recorded here and not as a finding.

* Two runners have no claim on a task and break `OneLiveWorker` at once; a crash between failing a stalled worker and updating its parent leaves
  a parent nobody selects. `OneLiveWorker`, `NoSilentStall`, `KeepsContract`, `CompleteIsFinal` and `StallsEnd` are therefore promises of one runner whose
  cycles run to their end.
* A reviewer that fails, or whose result the intake takes for a letter, leaves its parent `working` (`Unjudged` in `ReviewsEnd`); a notice of a fallback is sent again in every cycle;
  a message whose coordination raises holds up its lane.
* A crash before `LinkReviewers` leaves reviewers that no parent names; their late results may re-open what was answered and have it
  approved again. A carrier that was taken alone after it had members re-opens one of them that was answered meanwhile. `FollowUpsOnce` and
  `AnsweredStays` therefore speak of tasks that are `OnItsOwn`, and for them hold through any number of crashes.
* A batch's member may be taken by itself, or be given reviewers, while its carrier waits; it then no longer follows (`PeersFollow` excepts it).
* A protected file that is deleted drifts without an alert (`DriftTold` speaks of texts); a baseline is not approved after an authorised order, because the approval looks at
  the candidate's paths, of which an order has none, and so the next scan raises an alarm.
* A relay process that reads the file another has just truncated takes it for empty and saves that; a crash at the same place has the
  same effect. The watcher acknowledges before it delivers: if the hand-off raises, the request is not listed again.
* An operation of the registry that read before a revocation, a redemption or a link writes it back as it was, which is why `InviteOnce`,
  `RevocationLasts`, `BoundToLink` and `AdmittedStay` are stated for operations that do not overlap.
* In the worker, one-time invites are bounded by the sign-ups that overlap, not by one; two ids of JSON-RPC requests that coincide share a receipt;
  a write of the queue that was stale or failed loses calls (`torn`).
* `doctor` and the report at startup evaluate the latch without hysteresis and clear it for everyone; `supervisor-stop` does not know the relay watcher.
* An archive run loses messages sent while it runs, and drops acknowledged ones that nobody answered (`dropped`); compaction writes a message back as it read it (`rolled`).

## 4. Proofs

All proofs are for arbitrary sets of tasks, workers, runners, requests, people, terminals and processes, and for
any number of operations and crashes, under the assumptions the modules name (`DependsOn`
maps tasks to sets of tasks, `None` is no id, outcomes are among three, there is somebody in `Emails`, profile
names are not ids yet to be minted, slots and terminals are finitely many). Each inductive invariant was checked by TLC on the bounds of its
run before it was proved.

* **Delegation.** The properties speak of durable records, but what makes them hold is what a runner
  has in hand between two writes. `Bookkeeping` (types, references between records, what
  is in hand in every phase) is inductive by itself (`BookkeepingInvariant`). Each property then has its own
  strengthening on top of it: `EmittedBeforeResolve` for
  `NoLostDelegation`, `RecordedBeforeAck` for `AckedIsRecorded`; for `ServedOncePerCrash`
  that a request a runner served more often than it crashed is closed or about to be closed
  (`ServingOnce`), which needs that a fresh worker is one runner's own (`FreshIsPrivate`); for `CompletionIsEarned`
  that a runner about to complete a task holds an applied result (`EarnedInHand`); for
  `DependenciesEarned` that answers are never deleted.
  The promises of one runner whose cycles run to their end are proved under `SoleRunner` (one runner, no crash; what
  `delegation_single` instantiates), from `SoloInv`: what the runner has listed is what there is, and every result comes from a request served to its end
  (`ResultsOnce`); a worker task lives as long as something is due about it, its request, its result or the supervision that has it listed
  (`WorkersLast`); two never live for one task (`LivesAlone`); a task works exactly while one lives for it, but between the two writes that
  change the one and the other (`WorksWhileLive`); and the task a handler is about is as the handler found it (`AsFound`), which is what makes
  the stale copies it writes back harmless. Hence `OneLiveWorker`, `NoSilentStall`, and `KeepsContract`, the refinement of `DelegationContract`: `CreateWorker`
  opens a lane, `LinkDispatched` begins the work, `SettleWorker` and `FailWorker` close the lane, `SettleTask` and `BlockTask` settle the task,
  `RewriteTask` answers in place or repeats what is on file, and everything else is a stutter (`StepKeepsContract`). `CompleteIsFinal`, which no
  run checks because the contract says more, is proved beside it.
* **Task graph.** `GraphTypes` says what the records are and what the runner has in hand in every phase; a task in hand is the record on file
  but for what this flow has already changed. The rest are layers over it, each preserved on its own:
  `ReviewInv` (an approved review rests on as many agreeing answers as are required, each given by a reviewer of that task, each at a place of its
  own in the order of hearing) for `ConsensusEarned`; that a closing rule only ever compares with earlier records for `DuplicateKept`;
  `OnceInv` (without a crash a result is unread at most once and only of a served request) and `OwnInv` (an answered task on its own is complete and has no
  reviewer outstanding; one under review has exactly the reviewers it names; a candidate in hand was selected before any answer) for `FollowUpsOnce` and
  `AnsweredStays`; `PeersInv` (members agree with their carrier except those the runner is still to write in this pass) for `PeersFollow`.
* **Cycle.** `CycleInv` is inductive. What is written is decided well before it is written, so that the invariant follows the
  candidate: `InHand` (an order in hand is pending until it is settled, and its kind and key do not change), `Gate` (what is about to be written was let through, or the
  order is authorised; both the files an order names and the candidate's paths, since a template writes the latter). `Governed`
  follows from `Gate` in the one step that writes. For `AppliedOnce`, `Counted` says that a pending order was carried out at most once for each crash,
  except in the cycle that is about to settle it. For `DriftTold`, `Reported` says that what the monitor's file holds as reported has been
  told, except between the scan's save and the alert; a crash in that place is why the property, and this part of the invariant, ends with the first crash.
  The proof has one lemma per part of the invariant (`TypesKept` ... `ReportedKept`), with one step per action or group of actions, and lemmas on what the steps make of the job's record.
* **Relay.** `RelayInv` is inductive: types and requests in hand (`TypeInv`); nothing is on file that was not submitted, and the
  id about to be enqueued is in no content, on disk or in any process's hand (`QueueInv`),
  without which a stale rewrite could make a request pending that is acknowledged; a process about to record a result holds a
  handled request (`ResultInv`). Two lemmas, one for steps that save and one for steps that do not, carry almost every action.
  When the web server is the only process and is not cut off (`SoleWriter`, a hypothesis of the theorems and what `relay_web` instantiates), `WebInv` is inductive too: the file
  is torn only between the server's own truncation and its write, and what it is about to save is one step of the queue from what is on file (`WriterOK`);
  what was accepted or listed is on file, whatever save is under way (`KeptOK`), and so is the call that the session shows (`ToldOK`).
  `RelayIsAQueue`, the refinement of `RelayQueue`, follows: `InitRefines` maps the initial states, and `StepRefines` maps the
  truncation that begins a save to a step of the queue, or to none, and everything else to a stutter.
* **Relay worker.** `GrantInv` is inductive: codes, tokens and the exchange about to mint one (`Minting`) are of grants. For `CallsReach`,
  `ReachInv` adds what a request has still to update (`Agenda`), that an acknowledgement names only calls the desktop was given,
  and that a call past its update of the queue is in it (`Queued`) while no write was stale or failed. The part that matters is
  `UpdateKeepsQueue`: a write of the queue as it was read adds the call and takes only calls of the desktop. For `InvitesBound`, `InviteInv` accounts for the accounts:
  while an invite is active, each one made with it is owed for by a slot that has yet to consume it, or was cut short before it did. The proof counts
  with the library's facts on finite sets.
* **Accounts.** A rewrite can be lost, but it is always a change of one content that was read whole. So what is inductive is a statement about
  single contents: `Sound` (an eligible user has a redeemed invite; ids are unique and below the next one; codes are for
  admitted users; every token has one redeemed code that matches it, and no two tokens share one) holds for every content on disk or in any
  process's hand. The lemmas `SoundInvite` ... `SoundToken` show that each kind of change keeps one content sound, `SoundGrows` that minting an id or
  admitting a user disturbs none; `CallOK` adds what a call must carry, above all that an exchange about to be saved
  still holds its code open in the content it will save. `SaveKeeps`, `MoveKeeps` and `LeaveKeeps` then carry every action.
  `SoloInv` is what holds until two operations overlap: dictionaries have one entry for a key; links are bound to their profiles and devices, and codes and tokens in force
  name a link; a call that saves what it read earlier still holds what is on file (`ReadsOK`), and an answer about to be given is true of the content that stays
  (`AnswerOK`). With it `GrantsAreBound`, `InvitesServeOnce`, `RevocationsLast` and, as long as nothing crashed, `AdmittedAreKept`.
* **Host.** Five theorems about the composition of all six modules, so that every step of every other part is shown to leave each promise alone.
  `RemoteSafe` is inductive as it stands: `SnippetIsPublic` shows, for any page, that a remote reader's view is public or plain
  and not sensitive. `BoundInv` counts a service's copies together with the terminals that are about to start one; a terminal that
  is about to has seen no copy, unless `ps` failed it, so that the sum does not grow with the start (`ServicesAreBound`). `HeatInv`: while a cooldown is not over the latch is hot and
  fresh (`CooldownsHold`). `ChatInv` holds for the file and for every content a request is about to write over it: a thread keeps its own
  conversation unless it took the place of a lost one, every message is counted under its thread, and what a poll gives up had no message when it was counted (`ThreadsAreKept`).
  `MailInv` is the largest: who still has a message to answer has not answered it; who has answered it is about to close it, has closed it,
  or is gone (`Heard`); a message answered at once by the request that sent it is nobody else's (`LetterAsked`, `DueOK`);
  and what an archive run copied or a compaction read was true of the database when they read it (`CopyOK`). That the oldest message is among those due (`OldestIsDue`) rests on the library's
  well-founded ordering of finite sets. Hence `MailIsAnswered`.

Writing the proofs changed the models where they could not be reasoned about or were wrong: a supervisor's stop used to leave the ended process in the middle of its lane turn, which no
process does; arms of two CASE expressions overlapped; `FollowUpsOnce` and `AnsweredStays` were stated by the number of crashes and not by what a crash can leave behind; and
`BoundToLink` turned out to hold of a torn file's last content as well.

Only model-checked: `StallsEnd` and `ReviewsEnd`. Liveness under fairness and ENABLED are out of the prover's reach, as are induction over data and RECURSIVE
operators (there are none here).

## 5. Plan

Done: the modules above, with every invariant, action property and refinement that a passing run checks proved for all constants. Left:

* `LocalRuntime`: the stored state of a model server against the processes that run.

## 6. Not modelled

Components with status `not_modelled`: external programs and services (providers, browser, voice), prompt construction and token
budgets, and floating-point scoring (evaluation, ratings, arenas, cyclone), which TLC cannot explore. What the modelled parts need from
them is a nondeterministic outcome. Within the components that are modelled in part:

* Loop 0: the six hours after which an attempt is closed; artifact findings, which a cycle offers again every time; refreshes of registries; `_alignment_maintenance_candidates` and the executors of `execution/`, which the loop does not use.
* Priorities, quota arithmetic (a limit of `None` is compared with in one branch) and the advisor's scores are choices; trials, promotion and routines of `procedures/`, `variants/`, `routines/` are counters over scores.
* The lanes: which files a materialised task writes; `auto_load`, which is stored and never read; clearing a main chat.
* The host: the relay watcher's profile, the choice of a model by size and benchmark, critical as against severe heat, the UI's key of a runtime to stop beyond the active one.
* The Cloudflare worker with a control plane behind it, its pages and downloads.
* Memory: ranking of retrieved pages, revisions and proposals. Onboarding and bootstrap are sequences of prompts.
* Packaging, installer and desktop shell, request shaping (pages, projections), argument parsing.
