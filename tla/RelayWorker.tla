---------------------------- MODULE RelayWorker ----------------------------
(***************************************************************************)
(* The relay as a Cloudflare worker (deploy/cloudflare/mcp-relay/worker.js) *)
(* without a control plane behind it: accounts in D1, the mailbox of one    *)
(* profile in KV.  The worker serves several requests at once, each a chain *)
(* of awaited reads and writes; a request may end between any two of them.  *)
(***************************************************************************)
EXTENDS Naturals, Sequences, FiniteSets

CONSTANTS
  Slots,             \* requests served at once
  Emails, Invites,
  OneTime, MaxUses,  \* invites of type one_time; MaxUses[i], 0 for no limit
  Clients, Public,   \* registered OAuth clients; the public tool flow
  Keys,              \* idempotency keys, or ids of JSON-RPC requests
  Budgets, MaxDrops  \* bounds: requests of each kind served, and those cut short

ASSUME WorkerAssumption ==
  /\ IsFiniteSet(Slots) /\ Slots # {} /\ OneTime \subseteq Invites /\ MaxUses \in [Invites -> Nat]
  /\ Public \notin Clients /\ Budgets \subseteq [{"account", "mail"} -> Nat] /\ MaxDrops \in Nat

VARIABLES
  users,    \* rows of users, in order: [email, invite]
  invites,  \* rows of invite_codes: [uses, status]
  codes,    \* rows of oauth_authorization_codes: [client, user]
  tokens,   \* rows of oauth_access_tokens: [client, user]
  login,    \* the public sign-in request: none, pending or complete
  granted,  \* history: <<client, user>> for whom a user signed in
  box,      \* KV: box["pending"], box["results"] and so on, sets of items
  receipts, \* KV: the call each key is a receipt of, or 0
  received, \* history: calls whose sender holds a receipt
  desk,     \* calls the desktop was given
  torn,     \* history: a write of the queue was stale or failed
  flight,   \* flight[s]: the request in slot s
  left,     \* left[kind]: requests of that kind still to come
  drops

accounts == <<users, invites, codes, tokens, login, granted>>
mailbox  == <<box, receipts, received, desk, torn>>
workerVars == <<accounts, mailbox, flight, left, drops>>

Boxes == {"pending", "acked", "results", "session"}
Free  == [op |-> "none", step |-> "none", who |-> Public, ref |-> Public, user |-> 0,
          row |-> [uses |-> 0, status |-> "active"], todo |-> << >>, seen |-> {}, ids |-> {}]

WorkerInit ==
  /\ users = << >> /\ invites = [i \in Invites |-> [uses |-> 0, status |-> "active"]]
  /\ codes = {} /\ tokens = {} /\ login = "none" /\ granted = {}
  /\ box = [b \in Boxes |-> {}] /\ receipts = [k \in Keys |-> 0]
  /\ received = {} /\ desk = {} /\ torn = FALSE
  /\ flight = [s \in Slots |-> Free] /\ left \in Budgets /\ drops = 0

At(s, op, step) == flight[s].op = op /\ flight[s].step = step
Begin(s, kind, f) ==
  /\ flight[s] = Free /\ left[kind] > 0
  /\ flight' = [flight EXCEPT ![s] = f]
  /\ left' = [left EXCEPT ![kind] = @ - 1] /\ UNCHANGED drops
Continue(s, f) == flight' = [flight EXCEPT ![s] = f] /\ UNCHANGED <<left, drops>>
To(s, step) == Continue(s, [flight[s] EXCEPT !.step = step])
End(s) == Continue(s, Free)

-----------------------------------------------------------------------------
(* Accounts: the public sign-in page and the OAuth authorization page.      *)

StartLogin ==
  /\ login = "none" /\ login' = "pending" /\ left["account"] > 0
  /\ UNCHANGED <<users, invites, codes, tokens, granted, mailbox, flight, left, drops>>

(* A person signs in at a page of client c, perhaps with an invite.         *)
SignIn(s) ==
  /\ \E e \in Emails, i \in Invites, c \in Clients \cup {Public} :
       Begin(s, "account", [Free EXCEPT !.op = "sign", !.step = "user", !.who = e, !.ref = i, !.seen = {c}])
  /\ UNCHANGED <<accounts, mailbox>>

Client(s) == CHOOSE c \in flight[s].seen : TRUE
Rows(e)   == {u \in 1..Len(users) : users[u].email = e}

(* getUserByEmail; the password is that of the row.                         *)
FindUser(s) ==
  /\ At(s, "sign", "user")
  /\ IF Rows(flight[s].who) = {} THEN To(s, "validate")
     ELSE \E u \in Rows(flight[s].who) :
            Continue(s, [flight[s] EXCEPT !.user = u, !.step = "issue"])
  /\ UNCHANGED <<accounts, mailbox>>

Valid(i) == /\ invites[i].status = "active"
            /\ MaxUses[i] = 0 \/ invites[i].uses < MaxUses[i]

ValidateInvite(s) ==
  /\ At(s, "sign", "validate")
  /\ IF Valid(flight[s].ref)
     THEN Continue(s, [flight[s] EXCEPT !.row = invites[flight[s].ref], !.step = "create"])
     ELSE End(s)
  /\ UNCHANGED <<accounts, mailbox>>

CreateUser(s) ==
  /\ At(s, "sign", "create")
  /\ users' = Append(users, [email |-> flight[s].who, invite |-> flight[s].ref])
  /\ Continue(s, [flight[s] EXCEPT !.user = Len(users) + 1, !.step = "consume"])
  /\ UNCHANGED <<invites, codes, tokens, login, granted, mailbox>>

(* Fault: an invite is exhausted by its number of uses only.                *)
UsedByCount(i, row) ==
  LET n == row.uses + 1 IN
  [uses |-> n, status |-> IF MaxUses[i] # 0 /\ n >= MaxUses[i] THEN "exhausted" ELSE row.status]

(* What consumeInviteCode writes, of the row that was validated.            *)
Used(i, row) ==
  LET n == row.uses + 1 IN
  [uses |-> n, status |-> IF i \in OneTime \/ (MaxUses[i] # 0 /\ n >= MaxUses[i])
                          THEN "exhausted" ELSE row.status]

ConsumeInvite(s) ==
  /\ At(s, "sign", "consume")
  /\ invites' = [invites EXCEPT ![flight[s].ref] = Used(flight[s].ref, flight[s].row)]
  /\ To(s, "issue")
  /\ UNCHANGED <<users, codes, tokens, login, granted, mailbox>>

(* An authorization code for a client; a session token for the public flow. *)
Issue(s) ==
  /\ At(s, "sign", "issue")
  /\ LET g == [client |-> Client(s), user |-> flight[s].user] IN
     /\ granted' = granted \cup {g}
     /\ IF g.client = Public
        THEN tokens' = tokens \cup {g} /\ codes' = codes /\ To(s, "login")
        ELSE codes' = codes \cup {g} /\ tokens' = tokens /\ End(s)
  /\ UNCHANGED <<users, invites, login, mailbox>>

ReadLogin(s) ==
  /\ At(s, "sign", "login")
  /\ IF login = "none" THEN End(s) ELSE To(s, "settle")
  /\ UNCHANGED <<accounts, mailbox>>

SettleLogin(s) ==
  /\ At(s, "sign", "settle") /\ login' = "complete" /\ End(s)
  /\ UNCHANGED <<users, invites, codes, tokens, granted, mailbox>>

(* complete_sign_in: read, delete, and answer with the session token.       *)
CompleteSignIn(s) ==
  /\ login = "complete" /\ Begin(s, "account", [Free EXCEPT !.op = "complete", !.step = "delete"])
  /\ UNCHANGED <<accounts, mailbox>>

DeleteLogin(s) ==
  /\ At(s, "complete", "delete") /\ login' = "none" /\ End(s)
  /\ UNCHANGED <<users, invites, codes, tokens, granted, mailbox>>

(* Fault: the code of any client is accepted.                               *)
Presentable(g, c) == g \in codes

(* The checks of handleOAuthToken.                                          *)
Redeemable(g, c) == g \in codes /\ g.client = c

RedeemCode(s) ==
  /\ \E g \in codes, c \in Clients :
       Redeemable(g, c) /\ Begin(s, "account", [Free EXCEPT !.op = "token", !.step = "mint", !.ref = c,
                                                 !.user = g.user, !.seen = {g}])
  /\ UNCHANGED <<accounts, mailbox>>

Mint(s) ==
  /\ At(s, "token", "mint")
  /\ tokens' = tokens \cup {[client |-> flight[s].ref, user |-> flight[s].user]}
  /\ To(s, "delete")
  /\ UNCHANGED <<users, invites, codes, login, granted, mailbox>>

DeleteCode(s) ==
  /\ At(s, "token", "delete") /\ codes' = codes \ flight[s].seen /\ End(s)
  /\ UNCHANGED <<users, invites, tokens, login, granted, mailbox>>

(* resolveAdapterAuth: the rows of D1 have no resource, so that it refuses  *)
(* every token of a client; publicSessionAuth does not ask for one.         *)
Admitted(t) == t.client = Public

-----------------------------------------------------------------------------
(* The mailbox: each update of a box is an awaited read and a later write.  *)

(* handleRelayMcp: a call is numbered by the request that made it.          *)
RelayMcp(k) == [Free EXCEPT !.op = "call", !.ref = k, !.ids = {left["mail"]},
                            !.todo = <<"pending", "session">>]

(* handleMcpAdapterMessage and handleGptUseTool: a key that has a receipt   *)
(* is answered with it; otherwise a call is queued.                         *)
StartCall(s) ==
  /\ \E k \in Keys :
       Begin(s, "mail", IF receipts[k] # 0 THEN [Free EXCEPT !.op = "replay", !.ref = k] ELSE RelayMcp(k))
  /\ UNCHANGED <<accounts, mailbox>>

(* handleLocalHeartbeat: the queue, and the sessions marked as seen.        *)
Heartbeat(s) ==
  /\ LET todo == IF box["pending"] = {} THEN << >> ELSE <<"session">> IN
     Begin(s, "mail", [Free EXCEPT !.op = "heartbeat", !.ids = box["pending"], !.todo = todo])
  /\ UNCHANGED <<accounts, mailbox>>

(* The desktop acknowledges what it was given, and posts a result.          *)
Ack(s) ==
  /\ \E S \in SUBSET desk : S # {} /\
       Begin(s, "mail", [Free EXCEPT !.op = "ack", !.ids = S, !.todo = <<"pending", "acked">>])
  /\ UNCHANGED <<accounts, mailbox>>

Result(s) ==
  /\ \E c \in desk :
       Begin(s, "mail", [Free EXCEPT !.op = "result", !.ids = {c}, !.todo = <<"results", "session">>])
  /\ UNCHANGED <<accounts, mailbox>>

(* readSession also writes the session back.                                *)
ReadSession(s) ==
  /\ Begin(s, "mail", [Free EXCEPT !.op = "read", !.todo = <<"session">>])
  /\ UNCHANGED <<accounts, mailbox>>

Get(s) ==
  /\ flight[s].todo # << >> /\ flight[s].step = "none"
  /\ Continue(s, [flight[s] EXCEPT !.step = "put", !.seen = box[Head(flight[s].todo)]])
  /\ UNCHANGED <<accounts, mailbox>>

(* Fault: an acknowledgement clears the queue.                              *)
Emptied(f) ==
  CASE f.op = "ack" /\ Head(f.todo) = "pending" -> {}
    [] Head(f.todo) = "session" -> f.seen \cup (f.ids \X {f.op})
    [] OTHER -> f.seen \cup f.ids

(* What a request writes of the box it has read.                            *)
Updated(f) ==
  CASE f.op = "ack" /\ Head(f.todo) = "pending" -> f.seen \ f.ids
    [] Head(f.todo) = "session" /\ f.op \in {"call", "result"} -> f.seen \cup (f.ids \X {f.op})
    [] Head(f.todo) = "session" /\ f.op \notin {"call", "result"} -> f.seen
    [] OTHER -> f.seen \cup f.ids

(* handleLocalAck records those of the ids that it found, if any.           *)
Rest(f) ==
  LET found == IF f.op = "ack" /\ Head(f.todo) = "pending" THEN f.ids \cap f.seen ELSE f.ids IN
  [f EXCEPT !.todo = IF f.op = "ack" /\ found = {} THEN << >> ELSE Tail(@),
            !.step = "none", !.seen = {}, !.ids = found]

Put(s) ==
  /\ flight[s].todo # << >> /\ flight[s].step = "put"
  /\ LET f == flight[s] b == Head(f.todo) IN
     /\ box' = [box EXCEPT ![b] = Updated(f)]
     /\ torn' = (torn \/ (b = "pending" /\ f.seen # box[b]))
     /\ Continue(s, Rest(f))
  /\ UNCHANGED <<accounts, receipts, received, desk>>

(* setState: a write of KV that fails goes to the isolate's memory, which   *)
(* nothing reads as long as KV is bound.                                    *)
PutFails(s) ==
  /\ flight[s].todo # << >> /\ flight[s].step = "put" /\ drops < MaxDrops
  /\ torn' = (torn \/ Head(flight[s].todo) = "pending")
  /\ flight' = [flight EXCEPT ![s] = Rest(flight[s])] /\ drops' = drops + 1
  /\ UNCHANGED <<accounts, box, receipts, received, desk, left>>

Mailing == {"call", "replay", "heartbeat", "ack", "result", "read"}

(* The receipt is stored, and the answer leaves.                            *)
Answer(s) ==
  /\ flight[s].op \in Mailing /\ flight[s].todo = << >>
  /\ LET f == flight[s] IN
     /\ receipts' = [k \in Keys |-> IF f.op = "call" /\ k = f.ref
                                    THEN CHOOSE c \in f.ids : TRUE ELSE receipts[k]]
     /\ received' = IF f.op = "call" THEN received \cup f.ids ELSE received
     /\ desk' = IF f.op = "heartbeat" THEN desk \cup f.ids ELSE desk
  /\ End(s)
  /\ UNCHANGED <<accounts, box, torn>>

-----------------------------------------------------------------------------
(* The isolate goes away, or the client does, between two awaits.           *)
Drop(s) ==
  /\ flight[s] # Free /\ drops < MaxDrops
  /\ flight' = [flight EXCEPT ![s] = Free] /\ drops' = drops + 1
  /\ UNCHANGED <<accounts, mailbox, left>>

SignUp(s) == \/ SignIn(s) \/ FindUser(s) \/ ValidateInvite(s) \/ CreateUser(s)
             \/ ConsumeInvite(s) \/ Issue(s) \/ ReadLogin(s) \/ SettleLogin(s)
Exchange(s) == CompleteSignIn(s) \/ DeleteLogin(s) \/ RedeemCode(s) \/ Mint(s) \/ DeleteCode(s)
Mail(s) == \/ StartCall(s) \/ Heartbeat(s) \/ Ack(s) \/ Result(s) \/ ReadSession(s)
           \/ Get(s) \/ Put(s) \/ PutFails(s) \/ Answer(s)

WorkerNext == StartLogin \/ \E s \in Slots : SignUp(s) \/ Exchange(s) \/ Mail(s) \/ Drop(s)
WorkerSpec == WorkerInit /\ [][WorkerNext]_workerVars

-----------------------------------------------------------------------------
(* What the worker promises, and what it does not.                          *)

(* A one-time invite admits no more accounts than sign-ups that overlapped  *)
(* plus those cut short between the account and the invite                  *)
(* (validateInviteCode, createUser and consumeInviteCode are three awaits). *)
InvitesBound ==
  \A i \in OneTime :
    Cardinality({u \in 1..Len(users) : users[u].invite = i}) <= Cardinality(Slots) + drops

(* Whoever holds a token, its user signed in at a page of the very client   *)
(* it was issued to, however many exchanges and sign-ins overlap.           *)
TokensGranted == tokens \subseteq granted

(* A call whose sender holds a receipt waits in the queue until the desktop *)
(* was given it, as long as no write of the queue was stale or failed:      *)
(* neither an acknowledgement of others nor a request cut short loses it.   *)
CallsReach == ~ torn => received \subseteq box["pending"] \cup desk

(* docs/HOSTED_MCP_RELAY.md counts the resolution of OAuth tokens among     *)
(* what there is: a token that was issued admits its holder.                *)
TokensAdmit == \A t \in tokens : Admitted(t)
=============================================================================
