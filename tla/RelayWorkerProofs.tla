------------------------- MODULE RelayWorkerProofs -------------------------
(***************************************************************************)
(* The tokens, the queue and the invites of the relay worker, for any     *)
(* number of slots, clients, accounts and calls and wherever requests are *)
(* cut short.                                                              *)
(***************************************************************************)
EXTENDS RelayWorker, FiniteSetTheorems, TLAPS

(* What a request under way and a grant are made of.                        *)
IsRequest(f) ==
  f \in [op: {f.op}, step: {f.step}, who: {f.who}, ref: {f.ref}, user: {f.user},
         row: {f.row}, todo: {f.todo}, seen: {f.seen}, ids: {f.ids}]

IsGrant(g) == g = [client |-> g.client, user |-> g.user]

Shapes ==
  /\ flight = [s \in Slots |-> flight[s]]
  /\ \A s \in Slots : IsRequest(flight[s])
  /\ \A g \in granted : IsGrant(g)

(* An exchange about to mint a token is that of a code that was granted, to *)
(* the client that presented it.                                            *)
Minting(s) ==
  At(s, "token", "mint") => [client |-> flight[s].ref, user |-> flight[s].user] \in granted

GrantInv ==
  /\ Shapes
  /\ codes \subseteq granted /\ tokens \subseteq granted
  /\ \A s \in Slots : Minting(s)

-----------------------------------------------------------------------------
(* A step of slot s puts the request f there and takes nobody's grant.      *)

Proceeds(s, f) ==
  /\ flight' = [flight EXCEPT ![s] = f]
  /\ IsRequest(f)
  /\ f.op = "token" /\ f.step = "mint" => [client |-> f.ref, user |-> f.user] \in granted

LEMMA ProceedKeeps ==
  ASSUME GrantInv, NEW s \in Slots, NEW f, Proceeds(s, f), granted \subseteq granted',
         \A g \in granted' : IsGrant(g),
         codes' \subseteq granted', tokens' \subseteq granted'
  PROVE  GrantInv'
<1>1. \A r \in Slots : flight'[r] = IF r = s THEN f ELSE flight[r]
  BY DEF Proceeds, GrantInv, Shapes
<1>2. flight' = [r \in Slots |-> flight'[r]]
  BY DEF Proceeds, GrantInv, Shapes
<1>3. Shapes'
  BY <1>1, <1>2 DEF Proceeds, GrantInv, Shapes
<1>4. \A r \in Slots : Minting(r)'
  BY <1>1 DEF Proceeds, GrantInv, Minting, At
<1> QED
  BY <1>3, <1>4 DEF GrantInv

(* The same, when the grants stay as they are.                              *)
LEMMA MoveKeeps ==
  ASSUME GrantInv, NEW s \in Slots, NEW f, Proceeds(s, f), UNCHANGED <<granted, codes, tokens>>
  PROVE  GrantInv'
BY ProceedKeeps DEF GrantInv, Shapes

LEMMA FreeRequest == IsRequest(Free) /\ Free.op = "none"
BY DEF Free, IsRequest

LEMMA SignUpKeeps ==
  ASSUME GrantInv, NEW s \in Slots, SignUp(s) PROVE GrantInv'
<1> USE DEF accounts
<1>0. IsRequest(flight[s])
  BY DEF GrantInv, Shapes
<1>1. CASE SignIn(s)
  <2>1. PICK e, i, c : Begin(s, "account", [Free EXCEPT !.op = "sign", !.step = "user",
                                                        !.who = e, !.ref = i, !.seen = {c}])
    BY <1>1 DEF SignIn
  <2> DEFINE f == [Free EXCEPT !.op = "sign", !.step = "user", !.who = e, !.ref = i, !.seen = {c}]
  <2>2. Proceeds(s, f)
    BY <2>1 DEF Begin, Proceeds, IsRequest, Free
  <2> QED
    BY <1>1, <2>2, MoveKeeps DEF SignIn
<1>2. CASE FindUser(s)
  <2>1. \/ To(s, "validate")
        \/ \E u : Continue(s, [flight[s] EXCEPT !.user = u, !.step = "issue"])
    BY <1>2 DEF FindUser
  <2>2. CASE To(s, "validate")
    <3>1. Proceeds(s, [flight[s] EXCEPT !.step = "validate"])
      BY <1>0, <2>2 DEF To, Continue, Proceeds, IsRequest
    <3> QED
      BY <1>2, <3>1, MoveKeeps DEF FindUser
  <2>3. CASE \E u : Continue(s, [flight[s] EXCEPT !.user = u, !.step = "issue"])
    <3>1. PICK u : Continue(s, [flight[s] EXCEPT !.user = u, !.step = "issue"])
      BY <2>3
    <3>2. Proceeds(s, [flight[s] EXCEPT !.user = u, !.step = "issue"])
      BY <1>0, <3>1 DEF Continue, Proceeds, IsRequest
    <3> QED
      BY <1>2, <3>2, MoveKeeps DEF FindUser
  <2> QED
    BY <2>1, <2>2, <2>3
<1>3. CASE ValidateInvite(s)
  <2>1. \/ Proceeds(s, Free)
        \/ Proceeds(s, [flight[s] EXCEPT !.row = invites[flight[s].ref], !.step = "create"])
    BY <1>0, <1>3, FreeRequest DEF ValidateInvite, Continue, End, Proceeds, IsRequest
  <2> QED
    BY <1>3, <2>1, MoveKeeps DEF ValidateInvite
<1>4. CASE CreateUser(s)
  <2>1. Proceeds(s, [flight[s] EXCEPT !.user = Len(users) + 1, !.step = "consume"])
    BY <1>0, <1>4 DEF CreateUser, Continue, Proceeds, IsRequest
  <2> QED
    BY <1>4, <2>1, MoveKeeps DEF CreateUser
<1>5. CASE ConsumeInvite(s)
  <2>1. Proceeds(s, [flight[s] EXCEPT !.step = "issue"])
    BY <1>0, <1>5 DEF ConsumeInvite, To, Continue, Proceeds, IsRequest
  <2> QED
    BY <1>5, <2>1, MoveKeeps DEF ConsumeInvite
<1>6. CASE Issue(s)
  <2> DEFINE g == [client |-> Client(s), user |-> flight[s].user]
  <2>1. \/ Proceeds(s, Free)
        \/ Proceeds(s, [flight[s] EXCEPT !.step = "login"])
    BY <1>0, <1>6, FreeRequest DEF Issue, To, End, Continue, Proceeds, IsRequest
  <2>2. /\ granted' = granted \cup {g}
        /\ codes' \subseteq codes \cup {g} /\ tokens' \subseteq tokens \cup {g}
    BY <1>6 DEF Issue
  <2>3. IsGrant(g)
    BY DEF IsGrant
  <2>4. \A h \in granted' : IsGrant(h)
    BY <2>2, <2>3 DEF GrantInv, Shapes
  <2>5. granted \subseteq granted' /\ codes' \subseteq granted' /\ tokens' \subseteq granted'
    BY <2>2 DEF GrantInv
  <2> QED
    BY <2>1, <2>4, <2>5, ProceedKeeps
<1>7. CASE ReadLogin(s)
  <2>1. \/ Proceeds(s, Free)
        \/ Proceeds(s, [flight[s] EXCEPT !.step = "settle"])
    BY <1>0, <1>7, FreeRequest DEF ReadLogin, To, End, Continue, Proceeds, IsRequest
  <2> QED
    BY <1>7, <2>1, MoveKeeps DEF ReadLogin
<1>8. CASE SettleLogin(s)
  <2>1. Proceeds(s, Free)
    BY <1>8, FreeRequest DEF SettleLogin, End, Continue, Proceeds
  <2> QED
    BY <1>8, <2>1, MoveKeeps DEF SettleLogin
<1> QED
  BY <1>1, <1>2, <1>3, <1>4, <1>5, <1>6, <1>7, <1>8 DEF SignUp

LEMMA ExchangeKeeps ==
  ASSUME GrantInv, NEW s \in Slots, Exchange(s) PROVE GrantInv'
<1> USE DEF accounts
<1>0. IsRequest(flight[s])
  BY DEF GrantInv, Shapes
<1>1. CASE CompleteSignIn(s)
  <2>1. Proceeds(s, [Free EXCEPT !.op = "complete", !.step = "delete"])
    BY <1>1 DEF CompleteSignIn, Begin, Proceeds, IsRequest, Free
  <2> QED
    BY <1>1, <2>1, MoveKeeps DEF CompleteSignIn
<1>2. CASE DeleteLogin(s)
  <2>1. Proceeds(s, Free)
    BY <1>2, FreeRequest DEF DeleteLogin, End, Continue, Proceeds
  <2> QED
    BY <1>2, <2>1, MoveKeeps DEF DeleteLogin
<1>3. CASE RedeemCode(s)
  <2>1. PICK g \in codes, c \in Clients :
          /\ g.client = c
          /\ Begin(s, "account", [Free EXCEPT !.op = "token", !.step = "mint", !.ref = c,
                                              !.user = g.user, !.seen = {g}])
    BY <1>3 DEF RedeemCode, Redeemable
  <2> DEFINE f == [Free EXCEPT !.op = "token", !.step = "mint", !.ref = c,
                               !.user = g.user, !.seen = {g}]
  <2>2. [client |-> c, user |-> g.user] \in granted
    <3>1. IsGrant(g) /\ g \in granted
      BY DEF GrantInv, Shapes
    <3> QED
      BY <2>1, <3>1 DEF IsGrant
  <2>3. IsRequest(f) /\ f.ref = c /\ f.user = g.user
    BY DEF IsRequest, Free
  <2>4. Proceeds(s, f)
    BY <2>1, <2>2, <2>3 DEF Begin, Proceeds
  <2> QED
    BY <1>3, <2>4, MoveKeeps DEF RedeemCode
<1>4. CASE Mint(s)
  <2>1. Proceeds(s, [flight[s] EXCEPT !.step = "delete"])
    BY <1>0, <1>4 DEF Mint, To, Continue, Proceeds, IsRequest
  <2>2. tokens' \subseteq granted /\ granted' = granted /\ codes' = codes
    BY <1>4 DEF Mint, GrantInv, Minting
  <2> QED
    BY <2>1, <2>2, ProceedKeeps DEF GrantInv, Shapes
<1>5. CASE DeleteCode(s)
  <2>1. Proceeds(s, Free)
    BY <1>5, FreeRequest DEF DeleteCode, End, Continue, Proceeds
  <2>2. codes' \subseteq granted /\ granted' = granted /\ tokens' = tokens
    BY <1>5 DEF DeleteCode, GrantInv
  <2> QED
    BY <2>1, <2>2, ProceedKeeps DEF GrantInv, Shapes
<1> QED
  BY <1>1, <1>2, <1>3, <1>4, <1>5 DEF Exchange

LEMMA MailKeeps ==
  ASSUME GrantInv, NEW s \in Slots, Mail(s) \/ Drop(s) PROVE GrantInv'
<1> USE DEF accounts
<1>0. IsRequest(flight[s])
  BY DEF GrantInv, Shapes
<1>1. UNCHANGED <<granted, codes, tokens>>
  BY DEF Mail, Drop, StartCall, Heartbeat, Ack, Result, ReadSession, Get, Put, PutFails, Answer
<1>2. CASE StartCall(s)
  <2>1. PICK k : \/ Begin(s, "mail", [Free EXCEPT !.op = "replay", !.ref = k])
                 \/ Begin(s, "mail", RelayMcp(k))
    BY <1>2 DEF StartCall
  <2>2. Proceeds(s, [Free EXCEPT !.op = "replay", !.ref = k]) \/ Proceeds(s, RelayMcp(k))
    BY <2>1 DEF Begin, Proceeds, IsRequest, Free, RelayMcp
  <2> QED
    BY <1>1, <2>2, MoveKeeps
<1>3. CASE Heartbeat(s)
  <2> DEFINE todo == IF box["pending"] = {} THEN << >> ELSE <<"session">>
  <2>1. Proceeds(s, [Free EXCEPT !.op = "heartbeat", !.ids = box["pending"], !.todo = todo])
    BY <1>3 DEF Heartbeat, Begin, Proceeds, IsRequest, Free
  <2> QED
    BY <1>1, <2>1, MoveKeeps
<1>4. CASE ReadSession(s)
  <2>1. Proceeds(s, [Free EXCEPT !.op = "read", !.todo = <<"session">>])
    BY <1>4 DEF ReadSession, Begin, Proceeds, IsRequest, Free
  <2> QED
    BY <1>1, <2>1, MoveKeeps
<1>5. CASE Ack(s)
  <2>1. PICK S : Begin(s, "mail", [Free EXCEPT !.op = "ack", !.ids = S,
                                               !.todo = <<"pending", "acked">>])
    BY <1>5 DEF Ack
  <2>2. Proceeds(s, [Free EXCEPT !.op = "ack", !.ids = S, !.todo = <<"pending", "acked">>])
    BY <2>1 DEF Begin, Proceeds, IsRequest, Free
  <2> QED
    BY <1>1, <2>2, MoveKeeps
<1>6. CASE Result(s)
  <2>1. PICK c : Begin(s, "mail", [Free EXCEPT !.op = "result", !.ids = {c},
                                               !.todo = <<"results", "session">>])
    BY <1>6 DEF Result
  <2>2. Proceeds(s, [Free EXCEPT !.op = "result", !.ids = {c}, !.todo = <<"results", "session">>])
    BY <2>1 DEF Begin, Proceeds, IsRequest, Free
  <2> QED
    BY <1>1, <2>2, MoveKeeps
<1>7. CASE Get(s)
  <2>1. Proceeds(s, [flight[s] EXCEPT !.step = "put", !.seen = box[Head(flight[s].todo)]])
    BY <1>0, <1>7 DEF Get, Continue, Proceeds, IsRequest
  <2> QED
    BY <1>1, <2>1, MoveKeeps
<1>8. CASE Put(s) \/ PutFails(s)
  <2>1. Rest(flight[s]).step = "none" /\ IsRequest(Rest(flight[s]))
    BY <1>0 DEF Rest, IsRequest
  <2>2. Proceeds(s, Rest(flight[s]))
    BY <1>8, <2>1 DEF Put, PutFails, Continue, Proceeds
  <2> QED
    BY <1>1, <2>2, MoveKeeps
<1>9. CASE Answer(s) \/ Drop(s)
  <2>1. Proceeds(s, Free)
    BY <1>9, FreeRequest DEF Answer, Drop, End, Continue, Proceeds
  <2> QED
    BY <1>1, <2>1, MoveKeeps
<1> QED
  BY <1>2, <1>3, <1>4, <1>5, <1>6, <1>7, <1>8, <1>9 DEF Mail

LEMMA GrantInvInit == WorkerInit => GrantInv
<1> SUFFICES ASSUME WorkerInit PROVE GrantInv
  OBVIOUS
<1>1. \A s \in Slots : flight[s] = Free
  BY DEF WorkerInit
<1>2. Shapes
  BY <1>1, FreeRequest DEF WorkerInit, Shapes
<1>3. \A s \in Slots : Minting(s)
  BY <1>1, FreeRequest DEF Minting, At
<1> QED
  BY <1>2, <1>3 DEF WorkerInit, GrantInv

LEMMA GrantInvKept ==
  ASSUME GrantInv, [WorkerNext]_workerVars PROVE GrantInv'
<1>1. CASE StartLogin \/ UNCHANGED workerVars
  BY <1>1 DEF StartLogin, workerVars, accounts, GrantInv, Shapes, Minting, At
<1>2. CASE \E s \in Slots : SignUp(s) \/ Exchange(s) \/ Mail(s) \/ Drop(s)
  BY <1>2, SignUpKeeps, ExchangeKeeps, MailKeeps
<1> QED
  BY <1>1, <1>2 DEF WorkerNext

(* Whoever holds a token signed in at a page of the very client that it was *)
(* issued to (handleOAuthAuthorize, handleOAuthToken).                        *)
THEOREM TokensAreGranted == WorkerSpec => []TokensGranted
<1>1. GrantInv => TokensGranted
  BY DEF GrantInv, TokensGranted
<1> QED
  BY <1>1, GrantInvInit, GrantInvKept, PTL DEF WorkerSpec

-----------------------------------------------------------------------------
(* The boxes a request has still to update; the ids of an acknowledgement   *)
(* are those of calls that the desktop was given.                           *)
Agenda(f) ==
  /\ f.op = "call" => f.todo \in {<<"pending", "session">>, <<"session">>, << >>}
  /\ f.op = "ack"  => /\ f.todo \in {<<"pending", "acked">>, <<"acked">>, << >>}
                      /\ f.ids \subseteq desk
  /\ f.op \notin {"call", "ack"} => f.todo \in {<<"results", "session">>, <<"session">>, << >>}

(* A call that has updated the queue is in it until the desktop has it.     *)
Queued(f) ==
  f.op = "call" /\ f.todo # <<"pending", "session">> => f.ids \subseteq box["pending"] \cup desk

ReachInv ==
  /\ flight = [s \in Slots |-> flight[s]] /\ box = [b \in Boxes |-> box[b]]
  /\ \A s \in Slots : IsRequest(flight[s]) /\ Agenda(flight[s])
  /\ ~ torn => CallsReach /\ \A s \in Slots : Queued(flight[s])

(* A step that puts f in slot s and takes nothing that waits from the queue *)
(* and the desktop together.                                                *)
LEMMA StepReaches ==
  ASSUME ReachInv, NEW s \in Slots, NEW f, flight' = [flight EXCEPT ![s] = f],
         IsRequest(f), Agenda(f)', box' = [b \in Boxes |-> box'[b]],
         desk \subseteq desk', torn => torn',
         ~ torn' => /\ box["pending"] \cup desk \subseteq box'["pending"] \cup desk'
                    /\ Queued(f)'
                    /\ received' \subseteq box'["pending"] \cup desk'
  PROVE  ReachInv'
<1>1. \A r \in Slots : flight'[r] = IF r = s THEN f ELSE flight[r]
  BY DEF ReachInv
<1>2. flight' = [r \in Slots |-> flight'[r]]
  BY DEF ReachInv
<1>3. \A r \in Slots : IsRequest(flight'[r])
  BY <1>1 DEF ReachInv
<1>4. \A r \in Slots : Agenda(flight[r])'
  BY <1>1 DEF ReachInv, Agenda
<1>5. ~ torn' => \A r \in Slots : Queued(flight[r])'
  BY <1>1 DEF ReachInv, Queued
<1>6. ~ torn' => CallsReach'
  BY DEF CallsReach
<1> QED
  BY <1>2, <1>3, <1>4, <1>5, <1>6 DEF ReachInv

(* The same, when the mailbox stays as it is.                               *)
LEMMA MoveReaches ==
  ASSUME ReachInv, NEW s \in Slots, NEW f, flight' = [flight EXCEPT ![s] = f],
         IsRequest(f), Agenda(f), ~ torn => Queued(f), UNCHANGED <<box, received, desk, torn>>
  PROVE  ReachInv'
<1>1. Agenda(f)' /\ (~ torn' => Queued(f)')
  BY DEF Agenda, Queued
<1>2. box' = [b \in Boxes |-> box'[b]] /\ (~ torn' => received' \subseteq box'["pending"] \cup desk')
  BY DEF ReachInv, CallsReach
<1> QED
  BY <1>1, <1>2, StepReaches

LEMMA FreeReaches == Agenda(Free) /\ Queued(Free)
BY DEF Free, Agenda, Queued

(* A request that goes on to its next step, or ends, with nothing new to    *)
(* update.                                                                  *)
GoesOn(s, f) ==
  /\ flight' = [flight EXCEPT ![s] = f]
  /\ IsRequest(f)
  /\ \/ f.op \notin {"call", "ack"} /\ f.todo = << >>
     \/ f.op = flight[s].op /\ f.todo = flight[s].todo /\ f.ids = flight[s].ids

LEMMA GoesOnReaches ==
  ASSUME ReachInv, NEW s \in Slots, NEW f, GoesOn(s, f), UNCHANGED <<box, received, desk, torn>>
  PROVE  ReachInv'
<1>1. Agenda(f) /\ (~ torn => Queued(f))
  BY DEF ReachInv, Agenda, Queued, GoesOn
<1> QED
  BY <1>1, MoveReaches DEF GoesOn

LEMMA FreeGoesOn == ASSUME NEW s \in Slots, End(s) PROVE GoesOn(s, Free)
BY DEF End, Continue, GoesOn, Free, IsRequest

LEMMA ToGoesOn ==
  ASSUME NEW s \in Slots, IsRequest(flight[s]), NEW step, To(s, step)
  PROVE  GoesOn(s, [flight[s] EXCEPT !.step = step])
BY DEF To, Continue, GoesOn, IsRequest

LEMMA AccountsReach ==
  ASSUME ReachInv, NEW s \in Slots, SignUp(s) \/ Exchange(s) \/ Drop(s) PROVE ReachInv'
<1>0. IsRequest(flight[s])
  BY DEF ReachInv
<1> SUFFICES ASSUME \A f : ~ GoesOn(s, f) PROVE FALSE
  <2>1. UNCHANGED <<box, received, desk, torn>>
    BY DEF SignUp, Exchange, Drop, SignIn, FindUser, ValidateInvite, CreateUser, ConsumeInvite,
           Issue, ReadLogin, SettleLogin, CompleteSignIn, DeleteLogin, RedeemCode, Mint,
           DeleteCode, mailbox
  <2> QED
    BY <2>1, GoesOnReaches
<1>1. CASE SignIn(s)
  <2>1. PICK e, i, c : Begin(s, "account", [Free EXCEPT !.op = "sign", !.step = "user",
                                                        !.who = e, !.ref = i, !.seen = {c}])
    BY <1>1 DEF SignIn
  <2>2. GoesOn(s, [Free EXCEPT !.op = "sign", !.step = "user", !.who = e, !.ref = i, !.seen = {c}])
    BY <2>1 DEF Begin, GoesOn, IsRequest, Free
  <2> QED
    BY <2>2
<1>2. CASE FindUser(s)
  <2>1. \/ To(s, "validate")
        \/ \E u : Continue(s, [flight[s] EXCEPT !.user = u, !.step = "issue"])
    BY <1>2 DEF FindUser
  <2>2. ASSUME NEW u, Continue(s, [flight[s] EXCEPT !.user = u, !.step = "issue"]) PROVE FALSE
    <3>1. GoesOn(s, [flight[s] EXCEPT !.user = u, !.step = "issue"])
      BY <1>0, <2>2 DEF Continue, GoesOn, IsRequest
    <3> QED
      BY <3>1
  <2> QED
    BY <1>0, <2>1, <2>2, ToGoesOn
<1>3. CASE ValidateInvite(s)
  <2>1. \/ End(s)
        \/ GoesOn(s, [flight[s] EXCEPT !.row = invites[flight[s].ref], !.step = "create"])
    BY <1>0, <1>3 DEF ValidateInvite, Continue, GoesOn, IsRequest
  <2> QED
    BY <2>1, FreeGoesOn
<1>4. CASE CreateUser(s)
  <2>1. GoesOn(s, [flight[s] EXCEPT !.user = Len(users) + 1, !.step = "consume"])
    BY <1>0, <1>4 DEF CreateUser, Continue, GoesOn, IsRequest
  <2> QED
    BY <2>1
<1>5. CASE ConsumeInvite(s) \/ Issue(s) \/ ReadLogin(s) \/ SettleLogin(s)
  <2>1. End(s) \/ To(s, "issue") \/ To(s, "login") \/ To(s, "settle")
    BY <1>5 DEF ConsumeInvite, Issue, ReadLogin, SettleLogin
  <2> QED
    BY <1>0, <2>1, FreeGoesOn, ToGoesOn
<1>6. CASE CompleteSignIn(s)
  <2>1. GoesOn(s, [Free EXCEPT !.op = "complete", !.step = "delete"])
    BY <1>6 DEF CompleteSignIn, Begin, GoesOn, IsRequest, Free
  <2> QED
    BY <2>1
<1>7. CASE RedeemCode(s)
  <2>1. PICK g, c : Begin(s, "account", [Free EXCEPT !.op = "token", !.step = "mint", !.ref = c,
                                                     !.user = g.user, !.seen = {g}])
    BY <1>7 DEF RedeemCode
  <2>2. GoesOn(s, [Free EXCEPT !.op = "token", !.step = "mint", !.ref = c,
                               !.user = g.user, !.seen = {g}])
    BY <2>1 DEF Begin, GoesOn, IsRequest, Free
  <2> QED
    BY <2>2
<1>8. CASE DeleteLogin(s) \/ Mint(s) \/ DeleteCode(s)
  <2>1. End(s) \/ To(s, "delete")
    BY <1>8 DEF DeleteLogin, Mint, DeleteCode
  <2> QED
    BY <1>0, <2>1, FreeGoesOn, ToGoesOn
<1>9. CASE Drop(s)
  <2>1. GoesOn(s, Free)
    BY <1>9 DEF Drop, GoesOn, Free, IsRequest
  <2> QED
    BY <2>1
<1> QED
  BY <1>1, <1>2, <1>3, <1>4, <1>5, <1>6, <1>7, <1>8, <1>9 DEF SignUp, Exchange

(* A request of the mailbox that begins.                                    *)
LEMMA BeginsReach ==
  ASSUME ReachInv, NEW s \in Slots,
         StartCall(s) \/ Heartbeat(s) \/ Ack(s) \/ Result(s) \/ ReadSession(s)
  PROVE  ReachInv'
<1> DEFINE Starts(f) == /\ flight' = [flight EXCEPT ![s] = f]
                        /\ IsRequest(f) /\ Agenda(f) /\ Queued(f)
<1> SUFFICES ASSUME \A f : ~ Starts(f) PROVE FALSE
  <2>1. UNCHANGED <<box, received, desk, torn>>
    BY DEF StartCall, Heartbeat, Ack, Result, ReadSession, mailbox
  <2> QED
    BY <2>1, MoveReaches
<1>1. CASE StartCall(s)
  <2>1. PICK k : \/ Begin(s, "mail", [Free EXCEPT !.op = "replay", !.ref = k])
                 \/ Begin(s, "mail", RelayMcp(k))
    BY <1>1 DEF StartCall
  <2>2. Starts([Free EXCEPT !.op = "replay", !.ref = k]) \/ Starts(RelayMcp(k))
    BY <2>1 DEF Begin, IsRequest, Free, RelayMcp, Agenda, Queued
  <2> QED
    BY <2>2
<1>2. CASE Heartbeat(s)
  <2> DEFINE todo == IF box["pending"] = {} THEN << >> ELSE <<"session">>
  <2>1. Starts([Free EXCEPT !.op = "heartbeat", !.ids = box["pending"], !.todo = todo])
    BY <1>2 DEF Heartbeat, Begin, IsRequest, Free, Agenda, Queued
  <2> QED
    BY <2>1
<1>3. CASE Ack(s)
  <2>1. PICK S \in SUBSET desk : Begin(s, "mail", [Free EXCEPT !.op = "ack", !.ids = S,
                                                              !.todo = <<"pending", "acked">>])
    BY <1>3 DEF Ack
  <2>2. Starts([Free EXCEPT !.op = "ack", !.ids = S, !.todo = <<"pending", "acked">>])
    BY <2>1 DEF Begin, IsRequest, Free, Agenda, Queued
  <2> QED
    BY <2>2
<1>4. CASE Result(s)
  <2>1. PICK c : Begin(s, "mail", [Free EXCEPT !.op = "result", !.ids = {c},
                                               !.todo = <<"results", "session">>])
    BY <1>4 DEF Result
  <2>2. Starts([Free EXCEPT !.op = "result", !.ids = {c}, !.todo = <<"results", "session">>])
    BY <2>1 DEF Begin, IsRequest, Free, Agenda, Queued
  <2> QED
    BY <2>2
<1>5. CASE ReadSession(s)
  <2>1. Starts([Free EXCEPT !.op = "read", !.todo = <<"session">>])
    BY <1>5 DEF ReadSession, Begin, IsRequest, Free, Agenda, Queued
  <2> QED
    BY <2>1
<1> QED
  BY <1>1, <1>2, <1>3, <1>4, <1>5

LEMMA Tails ==
  /\ Tail(<<"pending", "session">>) = <<"session">> /\ Tail(<<"session">>) = << >>
  /\ Tail(<<"pending", "acked">>) = <<"acked">> /\ Tail(<<"acked">>) = << >>
  /\ Tail(<<"results", "session">>) = <<"session">>
OBVIOUS

(* What remains of a request after the box at the head of its agenda.       *)
LEMMA RestAgenda ==
  ASSUME NEW f, IsRequest(f), Agenda(f), f.todo # << >>
  PROVE  LET r == Rest(f) IN
         /\ IsRequest(r) /\ Agenda(r) /\ r.op = f.op
         /\ r.op = "call" => r.ids = f.ids /\ r.todo # <<"pending", "session">>
<1> DEFINE r == Rest(f)
<1>1. /\ IsRequest(r) /\ r.op = f.op
      /\ r.todo \in {<< >>, Tail(f.todo)}
      /\ r.ids = f.ids \/ (f.op = "ack" /\ r.ids = f.ids \cap f.seen)
  BY DEF Rest, IsRequest
<1>2. CASE f.op = "call"
  <2>1. r.todo \in {<<"session">>, << >>}
    BY <1>1, <1>2, Tails DEF Agenda
  <2> QED
    BY <1>1, <1>2, <2>1 DEF Agenda
<1>3. CASE f.op = "ack"
  <2>1. r.todo \in {<<"acked">>, << >>}
    BY <1>1, <1>3, Tails DEF Agenda
  <2> QED
    BY <1>1, <1>3, <2>1 DEF Agenda
<1>4. CASE f.op \notin {"call", "ack"}
  <2>1. r.todo \in {<<"session">>, << >>}
    BY <1>1, <1>4, Tails DEF Agenda
  <2> QED
    BY <1>1, <1>4, <2>1 DEF Agenda
<1> QED
  BY <1>2, <1>3, <1>4

(* A write of the queue as it was read adds the call, and takes only calls  *)
(* that the desktop was given.                                              *)
LEMMA UpdateKeepsQueue ==
  ASSUME NEW f, Agenda(f), f.todo # << >>, Head(f.todo) = "pending", f.seen = box["pending"]
  PROVE  /\ box["pending"] \cup desk \subseteq Updated(f) \cup desk
         /\ f.op = "call" => f.ids \subseteq Updated(f)
<1>1. f.op \in {"call", "ack"}
  BY DEF Agenda
<1>2. CASE f.op = "call"
  <2>1. Updated(f) = f.seen \cup f.ids
    BY <1>2 DEF Updated
  <2> QED
    BY <2>1
<1>3. CASE f.op = "ack"
  <2>1. Updated(f) = f.seen \ f.ids /\ f.ids \subseteq desk
    BY <1>3 DEF Updated, Agenda
  <2> QED
    BY <1>3, <2>1
<1> QED
  BY <1>1, <1>2, <1>3

LEMMA PutReaches ==
  ASSUME ReachInv, NEW s \in Slots, Put(s) \/ PutFails(s) PROVE ReachInv'
<1>0. PICK f, r, b : f = flight[s] /\ r = Rest(f) /\ b = Head(f.todo)
  OBVIOUS
<1>1. IsRequest(f) /\ Agenda(f) /\ f.todo # << >>
  BY <1>0 DEF ReachInv, Put, PutFails
<1>2. /\ IsRequest(r) /\ Agenda(r) /\ r.op = f.op
      /\ r.op = "call" => r.ids = f.ids /\ r.todo # <<"pending", "session">>
  BY <1>1, <1>0, RestAgenda
<1>3. flight' = [flight EXCEPT ![s] = r] /\ desk' = desk /\ received' = received
  BY <1>0 DEF Put, PutFails, Continue
<1>4. Agenda(r)'
  BY <1>2, <1>3 DEF Agenda
<1>5. torn => torn'
  BY DEF Put, PutFails
<1>6. box' = [c \in Boxes |-> box'[c]]
  BY DEF Put, PutFails, ReachInv
<1>7. ASSUME ~ torn', b # "pending"
      PROVE  box'["pending"] = box["pending"] /\ (f.op = "call" => Queued(f) /\ f.todo # <<"pending", "session">>)
  <2>1. box'["pending"] = box["pending"]
    BY <1>0, <1>7 DEF Put, PutFails, ReachInv, Boxes
  <2>2. f.todo # <<"pending", "session">>
    BY <1>0, <1>7
  <2> QED
    BY <1>0, <1>5, <1>7, <2>1, <2>2 DEF ReachInv
<1>8. ASSUME ~ torn', b = "pending"
      PROVE  box'["pending"] = Updated(f) /\ f.seen = box["pending"]
  BY <1>0, <1>8 DEF Put, PutFails, ReachInv, Boxes
<1>9. ~ torn' => /\ box["pending"] \cup desk \subseteq box'["pending"] \cup desk
                 /\ f.op = "call" => f.ids \subseteq box'["pending"] \cup desk
  <2>1. CASE b = "pending"
    BY <1>0, <1>1, <1>8, <2>1, UpdateKeepsQueue
  <2>2. CASE b # "pending"
    BY <1>7, <2>2 DEF Queued
  <2> QED
    BY <2>1, <2>2
<1>10. ~ torn' => Queued(r)'
  BY <1>2, <1>3, <1>9 DEF Queued
<1>11. ~ torn' => received' \subseteq box'["pending"] \cup desk'
  BY <1>3, <1>5, <1>9 DEF ReachInv, CallsReach
<1> QED
  BY <1>2, <1>3, <1>4, <1>5, <1>6, <1>9, <1>10, <1>11, StepReaches

LEMMA GetReaches ==
  ASSUME ReachInv, NEW s \in Slots, Get(s) PROVE ReachInv'
<1>1. GoesOn(s, [flight[s] EXCEPT !.step = "put", !.seen = box[Head(flight[s].todo)]])
  BY DEF Get, Continue, GoesOn, ReachInv, IsRequest
<1> QED
  BY <1>1, GoesOnReaches DEF Get, mailbox

LEMMA AnswerReaches ==
  ASSUME ReachInv, NEW s \in Slots, Answer(s) PROVE ReachInv'
<1>1. flight' = [flight EXCEPT ![s] = Free] /\ box' = box /\ torn' = torn /\ desk \subseteq desk'
  BY DEF Answer, End, Continue
<1>2. IsRequest(Free) /\ Agenda(Free)' /\ Queued(Free)'
  BY FreeRequest DEF Free, Agenda, Queued
<1>3. ~ torn => received' \subseteq box["pending"] \cup desk
  BY DEF Answer, ReachInv, CallsReach, Queued
<1> QED
  BY <1>1, <1>2, <1>3, StepReaches DEF ReachInv

LEMMA ReachInvInit == WorkerInit => ReachInv
<1> SUFFICES ASSUME WorkerInit PROVE ReachInv
  OBVIOUS
<1>1. \A s \in Slots : flight[s] = Free
  BY DEF WorkerInit
<1>2. \A s \in Slots : IsRequest(flight[s]) /\ Agenda(flight[s]) /\ Queued(flight[s])
  BY <1>1, FreeRequest, FreeReaches
<1>3. CallsReach
  BY DEF WorkerInit, CallsReach
<1>4. flight = [s \in Slots |-> flight[s]] /\ box = [b \in Boxes |-> box[b]]
  BY DEF WorkerInit
<1> QED
  BY <1>2, <1>3, <1>4 DEF ReachInv

LEMMA ReachInvKept ==
  ASSUME ReachInv, [WorkerNext]_workerVars PROVE ReachInv'
<1>1. CASE StartLogin \/ UNCHANGED workerVars
  BY <1>1 DEF StartLogin, workerVars, mailbox, ReachInv, Agenda, Queued, CallsReach
<1>2. ASSUME NEW s \in Slots, SignUp(s) \/ Exchange(s) \/ Mail(s) \/ Drop(s)
      PROVE  ReachInv'
  BY <1>2, AccountsReach, BeginsReach, GetReaches, PutReaches, AnswerReaches DEF Mail
<1> QED
  BY <1>1, <1>2 DEF WorkerNext

(* A call whose sender holds a receipt waits in the queue or was given to   *)
(* the desktop, whatever is acknowledged, repeated or cut short, as long as *)
(* no write of the queue was stale or failed (handleRelayMcp,               *)
(* handleLocalHeartbeat, handleLocalAck).                                   *)
THEOREM ReceiptedCallsReach == WorkerSpec => []CallsReach
<1>1. ReachInv => CallsReach
  BY DEF ReachInv, CallsReach
<1> QED
  BY <1>1, ReachInvInit, ReachInvKept, PTL DEF WorkerSpec

-----------------------------------------------------------------------------
(* A one-time invite is marked exhausted only after the account was made.   *)

Rowing == [email: Emails, invite: Invites]

(* The accounts made with i, the sign-ups that have made one and still owe  *)
(* the invite its use, and those that found it valid.                       *)
Made(i)  == {u \in 1..Len(users) : users[u].invite = i}
Owing(i) == {s \in Slots : At(s, "sign", "consume") /\ flight[s].ref = i}
Ready(i) == {s \in Slots : At(s, "sign", "create") /\ flight[s].ref = i}

(* As long as i is active every account made with it is owed for by a slot  *)
(* or by a request cut short; and no more will be made than there is room.  *)
Bounded(i) ==
  /\ Cardinality(Made(i)) + Cardinality(Ready(i)) <= Cardinality(Slots) + drops
  /\ invites[i].status = "active" =>
       Cardinality(Made(i)) <= Cardinality(Owing(i)) + drops

Signing(f) ==
  f.op = "sign" => f.who \in Emails /\ f.ref \in Invites /\ f.todo = << >>

InviteInv ==
  /\ flight = [s \in Slots |-> flight[s]]
  /\ \A s \in Slots : IsRequest(flight[s]) /\ Signing(flight[s])
  /\ users \in Seq(Rowing) /\ drops \in Nat
  /\ invites = [i \in Invites |-> invites[i]]
  /\ \A i \in OneTime : Bounded(i)

LEMMA Counting ==
  ASSUME InviteInv, NEW i \in OneTime
  PROVE  /\ IsFiniteSet(Made(i)) /\ Cardinality(Made(i)) \in Nat
         /\ IsFiniteSet(Owing(i)) /\ Cardinality(Owing(i)) \in Nat
         /\ IsFiniteSet(Ready(i)) /\ Cardinality(Ready(i)) \in Nat
         /\ Cardinality(Slots) \in Nat
         /\ Cardinality(Owing(i)) + Cardinality(Ready(i)) <= Cardinality(Slots)
<1>1. IsFiniteSet(Slots) /\ Cardinality(Slots) \in Nat
  BY WorkerAssumption, FS_CardinalityType
<1>2. /\ IsFiniteSet(Owing(i)) /\ Cardinality(Owing(i)) \in Nat
      /\ IsFiniteSet(Ready(i)) /\ Cardinality(Ready(i)) \in Nat
  <2>1. Owing(i) \in SUBSET Slots /\ Ready(i) \in SUBSET Slots
    BY DEF Owing, Ready
  <2> QED
    BY <1>1, <2>1, FS_Subset, FS_CardinalityType
<1>3. IsFiniteSet(Made(i)) /\ Cardinality(Made(i)) \in Nat
  <2>1. Len(users) \in Nat
    BY DEF InviteInv
  <2>2. IsFiniteSet(1..Len(users))
    BY <2>1, FS_Interval
  <2>3. Made(i) \in SUBSET (1..Len(users))
    BY DEF Made
  <2> QED
    BY <2>2, <2>3, FS_Subset, FS_CardinalityType
<1>4. Cardinality(Owing(i)) + Cardinality(Ready(i)) <= Cardinality(Slots)
  <2>1. Owing(i) \cap Ready(i) = {}
    BY DEF Owing, Ready, At
  <2>2. Cardinality(Owing(i) \cap Ready(i)) = 0
    BY <2>1, FS_EmptySet
  <2>3. Cardinality(Owing(i) \cup Ready(i)) = Cardinality(Owing(i)) + Cardinality(Ready(i))
    <3>1. Cardinality(Owing(i) \cup Ready(i)) =
            Cardinality(Owing(i)) + Cardinality(Ready(i)) - Cardinality(Owing(i) \cap Ready(i))
      BY <1>2, FS_Union, Zenon
    <3> QED
      BY <1>2, <2>2, <3>1
  <2>4. Owing(i) \cup Ready(i) \in SUBSET Slots
    BY DEF Owing, Ready
  <2>5. Cardinality(Owing(i) \cup Ready(i)) <= Cardinality(Slots)
    BY <1>1, <2>4, FS_Subset
  <2> QED
    BY <2>3, <2>5
<1> QED
  BY <1>1, <1>2, <1>3, <1>4

(* What a slot that moves on does to the two sets.                          *)
LEMMA SlotMoves ==
  ASSUME InviteInv, NEW s \in Slots, NEW f, flight' = [flight EXCEPT ![s] = f], NEW i \in OneTime
  PROVE  /\ Owing(i)' = IF f.op = "sign" /\ f.step = "consume" /\ f.ref = i
                        THEN Owing(i) \cup {s} ELSE Owing(i) \ {s}
         /\ Ready(i)' = IF f.op = "sign" /\ f.step = "create" /\ f.ref = i
                        THEN Ready(i) \cup {s} ELSE Ready(i) \ {s}
<1>1. \A r \in Slots : flight'[r] = IF r = s THEN f ELSE flight[r]
  BY DEF InviteInv
<1> QED
  BY <1>1 DEF Owing, Ready, At

(* The shapes after a step of s that makes no account.                      *)
LEMMA StillShaped ==
  ASSUME InviteInv, NEW s \in Slots, NEW f, flight' = [flight EXCEPT ![s] = f],
         IsRequest(f), Signing(f), UNCHANGED users, drops' \in Nat,
         invites' = [i \in Invites |-> invites'[i]], \A i \in OneTime : Bounded(i)'
  PROVE  InviteInv'
<1>1. \A r \in Slots : flight'[r] = IF r = s THEN f ELSE flight[r]
  BY DEF InviteInv
<1>2. flight' = [r \in Slots |-> flight'[r]]
  BY DEF InviteInv
<1>3. \A r \in Slots : IsRequest(flight'[r]) /\ Signing(flight'[r])
  BY <1>1 DEF InviteInv
<1> QED
  BY <1>2, <1>3 DEF InviteInv

(* A step that touches neither the accounts nor the invites keeps the bound *)
(* when the slot owed nothing, or is counted as cut short.                  *)
LEMMA ElsewhereBounded ==
  ASSUME InviteInv, NEW s \in Slots, NEW f, flight' = [flight EXCEPT ![s] = f],
         IsRequest(f), Signing(f), UNCHANGED <<users, invites>>,
         ~ (f.op = "sign" /\ f.step \in {"create", "consume"}),
         \/ drops' = drops + 1
         \/ drops' = drops /\ ~ At(s, "sign", "consume")
  PROVE  InviteInv'
<1>1. drops' \in Nat /\ drops \in Nat
  BY DEF InviteInv
<1>2. ASSUME NEW i \in OneTime PROVE Bounded(i)'
  <2>1. Made(i)' = Made(i) /\ invites'[i] = invites[i] /\ Cardinality(Slots)' = Cardinality(Slots)
    BY DEF Made
  <2>2. Owing(i)' = Owing(i) \ {s} /\ Ready(i)' = Ready(i) \ {s}
    BY SlotMoves
  <2>3. /\ Cardinality(Owing(i) \ {s}) = IF s \in Owing(i) THEN Cardinality(Owing(i)) - 1
                                         ELSE Cardinality(Owing(i))
        /\ Cardinality(Ready(i) \ {s}) = IF s \in Ready(i) THEN Cardinality(Ready(i)) - 1
                                         ELSE Cardinality(Ready(i))
    BY Counting, FS_RemoveElement
  <2>4. drops' = drops => s \notin Owing(i)
    BY <1>1 DEF Owing
  <2>5. /\ Cardinality(Ready(i)') <= Cardinality(Ready(i))
        /\ Cardinality(Owing(i)) + drops <= Cardinality(Owing(i)') + drops'
        /\ drops <= drops' /\ Cardinality(Ready(i)') \in Int /\ Cardinality(Owing(i)') \in Int
    BY <1>1, <2>2, <2>3, <2>4, Counting
  <2>6. Bounded(i)
    BY DEF InviteInv
  <2> QED
    BY <1>1, <2>1, <2>5, <2>6, Counting DEF Bounded
<1>3. invites' = [i \in Invites |-> invites'[i]]
  BY DEF InviteInv
<1> QED
  BY <1>1, <1>2, <1>3, StillShaped

(* A step of a slot that signs nobody up.                                  *)
LEMMA OthersBounded ==
  ASSUME InviteInv, NEW s \in Slots, NEW f, flight' = [flight EXCEPT ![s] = f],
         IsRequest(f), f.op # "sign", UNCHANGED <<users, invites>>,
         drops' = drops + 1 \/ (drops' = drops /\ flight[s].op # "sign")
  PROVE  InviteInv'
<1>1. Signing(f)
  BY DEF Signing
<1>2. drops' = drops => ~ At(s, "sign", "consume")
  <2>1. drops # drops + 1
    BY DEF InviteInv
  <2> QED
    BY <2>1 DEF At
<1> QED
  BY <1>1, <1>2, ElsewhereBounded

LEMMA ExchangeBounded ==
  ASSUME InviteInv, NEW s \in Slots, Exchange(s) PROVE InviteInv'
<1>0. IsRequest(flight[s])
  BY DEF InviteInv
<1>1. UNCHANGED <<users, invites, drops>>
  BY DEF Exchange, CompleteSignIn, DeleteLogin, RedeemCode, Mint, DeleteCode, accounts,
         Begin, Continue, To, End
<1>2. CASE CompleteSignIn(s)
  <2> DEFINE f == [Free EXCEPT !.op = "complete", !.step = "delete"]
  <2>1. flight' = [flight EXCEPT ![s] = f] /\ flight[s] = Free
    BY <1>2 DEF CompleteSignIn, Begin
  <2>2. IsRequest(f) /\ f.op = "complete"
    BY DEF Free, IsRequest
  <2> HIDE DEF f
  <2> QED
    BY <1>1, <2>1, <2>2, FreeRequest, OthersBounded
<1>3. CASE RedeemCode(s)
  <2>1. PICK g, c : Begin(s, "account", [Free EXCEPT !.op = "token", !.step = "mint", !.ref = c,
                                                     !.user = g.user, !.seen = {g}])
    BY <1>3 DEF RedeemCode
  <2> DEFINE f == [Free EXCEPT !.op = "token", !.step = "mint", !.ref = c,
                               !.user = g.user, !.seen = {g}]
  <2>2. flight' = [flight EXCEPT ![s] = f] /\ flight[s] = Free
    BY <2>1 DEF Begin
  <2>3. IsRequest(f) /\ f.op = "token"
    BY DEF Free, IsRequest
  <2> HIDE DEF f
  <2> QED
    BY <1>1, <2>2, <2>3, FreeRequest, OthersBounded
<1>4. CASE Mint(s)
  <2> DEFINE f == [flight[s] EXCEPT !.step = "delete"]
  <2>1. flight' = [flight EXCEPT ![s] = f] /\ flight[s].op = "token"
    BY <1>4 DEF Mint, To, Continue, At
  <2>2. IsRequest(f) /\ f.op = flight[s].op
    BY <1>0 DEF IsRequest
  <2> HIDE DEF f
  <2> QED
    BY <1>1, <2>1, <2>2, OthersBounded
<1>5. CASE DeleteLogin(s) \/ DeleteCode(s)
  <2>1. /\ flight' = [flight EXCEPT ![s] = Free] /\ flight[s].op \in {"complete", "token"}
    BY <1>5 DEF DeleteLogin, DeleteCode, End, Continue, At
  <2> QED
    BY <1>1, <2>1, FreeRequest, OthersBounded
<1> QED
  BY <1>2, <1>3, <1>4, <1>5 DEF Exchange

LEMMA MailBounded ==
  ASSUME InviteInv, NEW s \in Slots, Mail(s) \/ Drop(s) PROVE InviteInv'
<1>0. IsRequest(flight[s]) /\ Signing(flight[s])
  BY DEF InviteInv
<1>1. UNCHANGED <<users, invites>>
  BY DEF Mail, Drop, StartCall, Heartbeat, Ack, Result, ReadSession, Get, Put, PutFails,
         Answer, accounts
<1>2. ASSUME NEW f, Begin(s, "mail", f), IsRequest(f), f.op # "sign" PROVE InviteInv'
  <2>1. flight' = [flight EXCEPT ![s] = f] /\ flight[s].op # "sign" /\ drops' = drops
    BY <1>2, FreeRequest DEF Begin
  <2> QED
    BY <1>1, <1>2, <2>1, OthersBounded
<1>3. CASE StartCall(s)
  <2>1. PICK k : \/ Begin(s, "mail", [Free EXCEPT !.op = "replay", !.ref = k])
                 \/ Begin(s, "mail", RelayMcp(k))
    BY <1>3 DEF StartCall
  <2>2. /\ IsRequest([Free EXCEPT !.op = "replay", !.ref = k])
        /\ [Free EXCEPT !.op = "replay", !.ref = k].op = "replay"
        /\ IsRequest(RelayMcp(k)) /\ RelayMcp(k).op = "call"
    BY DEF Free, IsRequest, RelayMcp
  <2> QED
    BY <1>2, <2>1, <2>2
<1>4. CASE Heartbeat(s)
  <2> DEFINE todo == IF box["pending"] = {} THEN << >> ELSE <<"session">>
             f == [Free EXCEPT !.op = "heartbeat", !.ids = box["pending"], !.todo = todo]
  <2>1. Begin(s, "mail", f)
    BY <1>4 DEF Heartbeat
  <2> HIDE DEF todo
  <2>2. IsRequest(f) /\ f.op = "heartbeat"
    BY DEF Free, IsRequest
  <2> QED
    BY <1>2, <2>1, <2>2
<1>5. CASE Ack(s)
  <2>1. PICK S : Begin(s, "mail", [Free EXCEPT !.op = "ack", !.ids = S,
                                               !.todo = <<"pending", "acked">>])
    BY <1>5 DEF Ack
  <2> DEFINE f == [Free EXCEPT !.op = "ack", !.ids = S, !.todo = <<"pending", "acked">>]
  <2>2. IsRequest(f) /\ f.op = "ack"
    BY DEF Free, IsRequest
  <2> QED
    BY <1>2, <2>1, <2>2
<1>6. CASE Result(s)
  <2>1. PICK c : Begin(s, "mail", [Free EXCEPT !.op = "result", !.ids = {c},
                                               !.todo = <<"results", "session">>])
    BY <1>6 DEF Result
  <2> DEFINE f == [Free EXCEPT !.op = "result", !.ids = {c}, !.todo = <<"results", "session">>]
  <2>2. IsRequest(f) /\ f.op = "result"
    BY DEF Free, IsRequest
  <2> QED
    BY <1>2, <2>1, <2>2
<1>7. CASE ReadSession(s)
  <2> DEFINE f == [Free EXCEPT !.op = "read", !.todo = <<"session">>]
  <2>1. Begin(s, "mail", f)
    BY <1>7 DEF ReadSession
  <2>2. IsRequest(f) /\ f.op = "read"
    BY DEF Free, IsRequest
  <2> QED
    BY <1>2, <2>1, <2>2
<1>8. CASE Get(s)
  <2> DEFINE f == [flight[s] EXCEPT !.step = "put", !.seen = box[Head(flight[s].todo)]]
  <2>1. flight' = [flight EXCEPT ![s] = f] /\ flight[s].todo # << >> /\ drops' = drops
    BY <1>8 DEF Get, Continue
  <2>2. IsRequest(f) /\ f.op = flight[s].op
    BY <1>0 DEF IsRequest
  <2>3. flight[s].op # "sign"
    BY <1>0, <2>1 DEF Signing
  <2> HIDE DEF f
  <2> QED
    BY <1>1, <2>1, <2>2, <2>3, OthersBounded
<1>9. CASE Put(s) \/ PutFails(s)
  <2> DEFINE f == Rest(flight[s])
  <2>1. /\ flight' = [flight EXCEPT ![s] = f] /\ flight[s].todo # << >>
        /\ drops' = drops \/ drops' = drops + 1
    BY <1>9 DEF Put, PutFails, Continue
  <2>2. IsRequest(f) /\ f.op = flight[s].op
    BY <1>0 DEF IsRequest, Rest
  <2>3. flight[s].op # "sign"
    BY <1>0, <2>1 DEF Signing
  <2> HIDE DEF f
  <2> QED
    BY <1>1, <2>1, <2>2, <2>3, OthersBounded
<1>10. CASE Answer(s)
  <2>1. flight' = [flight EXCEPT ![s] = Free] /\ flight[s].op \in Mailing /\ drops' = drops
    BY <1>10 DEF Answer, End, Continue
  <2> QED
    BY <1>1, <2>1, FreeRequest, OthersBounded DEF Mailing
<1>11. CASE Drop(s)
  <2>1. flight' = [flight EXCEPT ![s] = Free] /\ drops' = drops + 1
    BY <1>11 DEF Drop
  <2>2. IsRequest(Free) /\ Free.op # "sign"
    BY FreeRequest
  <2> DEFINE f == Free
  <2>3. flight' = [flight EXCEPT ![s] = f] /\ IsRequest(f) /\ f.op # "sign"
    BY <2>1, <2>2
  <2> HIDE DEF f
  <2>4. drops' = drops + 1 \/ (drops' = drops /\ flight[s].op # "sign")
    BY <2>1
  <2> QED
    BY <1>1, <2>3, <2>4, OthersBounded
<1> QED
  BY <1>3, <1>4, <1>5, <1>6, <1>7, <1>8, <1>9, <1>10, <1>11 DEF Mail

(* An invite that was found valid is active, ...                           *)
LEMMA ValidateBounded ==
  ASSUME InviteInv, NEW s \in Slots, ValidateInvite(s) PROVE InviteInv'
<1>0. IsRequest(flight[s]) /\ Signing(flight[s]) /\ flight[s].op = "sign" /\ flight[s].step = "validate"
  BY DEF InviteInv, ValidateInvite, At
<1>1. UNCHANGED <<users, invites, drops>> /\ ~ At(s, "sign", "consume")
  BY <1>0 DEF ValidateInvite, accounts, Continue, End, At
<1>2. CASE ~ Valid(flight[s].ref)
  <2>1. flight' = [flight EXCEPT ![s] = Free]
    BY <1>2 DEF ValidateInvite, End, Continue
  <2> QED
    BY <1>1, <2>1, FreeRequest, ElsewhereBounded DEF Signing
<1>3. CASE Valid(flight[s].ref)
  <2> DEFINE f == [flight[s] EXCEPT !.row = invites[flight[s].ref], !.step = "create"]
  <2>1. flight' = [flight EXCEPT ![s] = f]
    BY <1>3 DEF ValidateInvite, Continue
  <2>2. /\ IsRequest(f) /\ f.op = "sign" /\ f.step = "create" /\ f.ref = flight[s].ref
        /\ f.who = flight[s].who /\ f.todo = flight[s].todo
    BY <1>0 DEF IsRequest
  <2> HIDE DEF f
  <2>3. Signing(f)
    BY <1>0, <2>2 DEF Signing
  <2>4. ASSUME NEW i \in OneTime PROVE Bounded(i)'
    <3>1. /\ Made(i)' = Made(i) /\ invites'[i] = invites[i] /\ drops' = drops
          /\ Cardinality(Slots)' = Cardinality(Slots)
      BY <1>1 DEF Made
    <3>2. Owing(i)' = Owing(i)
      BY <1>0, <2>1, <2>2, SlotMoves DEF Owing, At
    <3>3. Bounded(i) /\ drops \in Nat
      BY DEF InviteInv
    <3>4. CASE f.ref # i
      <4>1. Ready(i)' = Ready(i)
        BY <1>0, <2>1, <2>2, <3>4, SlotMoves DEF Ready, At
      <4> QED
        BY <3>1, <3>2, <3>3, <4>1 DEF Bounded
    <3>5. CASE f.ref = i
      <4>1. Ready(i)' = Ready(i) \cup {s} /\ s \notin Ready(i) /\ s \notin Owing(i)
        <5>1. Ready(i)' = Ready(i) \cup {s}
          BY <2>1, <2>2, <3>5, SlotMoves
        <5>2. s \notin Ready(i) /\ s \notin Owing(i)
          BY <1>0 DEF Ready, Owing, At
        <5> QED
          BY <5>1, <5>2
      <4>2. invites[i].status = "active"
        BY <1>3, <2>2, <3>5 DEF Valid
      <4>3. Cardinality(Made(i)) <= Cardinality(Owing(i)) + drops
        BY <3>3, <4>2 DEF Bounded
      <4>4. Cardinality(Ready(i)') = Cardinality(Ready(i)) + 1
        BY <4>1, Counting, FS_AddElement
      <4>5. Cardinality(Owing(i)) + Cardinality(Ready(i)) + 1 <= Cardinality(Slots)
        <5>1. IsFiniteSet(Slots)
          BY WorkerAssumption
        <5>2. Owing(i) \cap (Ready(i) \cup {s}) = {}
          BY <4>1 DEF Owing, Ready, At
        <5>3. /\ IsFiniteSet(Ready(i) \cup {s}) /\ IsFiniteSet(Owing(i))
              /\ Cardinality(Owing(i) \cap (Ready(i) \cup {s})) = 0
          BY <5>2, Counting, FS_AddElement, FS_EmptySet
        <5>4. Cardinality(Owing(i) \cup (Ready(i) \cup {s})) =
                Cardinality(Owing(i)) + Cardinality(Ready(i) \cup {s})
                  - Cardinality(Owing(i) \cap (Ready(i) \cup {s}))
          BY <5>3, FS_Union, Zenon
        <5>5. Owing(i) \cup (Ready(i) \cup {s}) \in SUBSET Slots
          BY DEF Owing, Ready
        <5>6. Cardinality(Owing(i) \cup (Ready(i) \cup {s})) <= Cardinality(Slots)
          BY <5>1, <5>5, FS_Subset
        <5> QED
          BY <4>1, <4>4, <5>3, <5>4, <5>6, Counting
      <4> QED
        BY <3>1, <3>2, <3>3, <4>3, <4>4, <4>5, Counting DEF Bounded
    <3> QED
      BY <3>4, <3>5
  <2>5. invites' = [i \in Invites |-> invites'[i]] /\ drops' \in Nat
    BY <1>1 DEF InviteInv
  <2> QED
    BY <1>1, <2>1, <2>2, <2>3, <2>4, <2>5, StillShaped
<1> QED
  BY <1>2, <1>3

(* ... its account is owed for, ...                                        *)
LEMMA CreateBounded ==
  ASSUME InviteInv, NEW s \in Slots, CreateUser(s) PROVE InviteInv'
<1> DEFINE f == [flight[s] EXCEPT !.user = Len(users) + 1, !.step = "consume"]
           u == [email |-> flight[s].who, invite |-> flight[s].ref]
<1>1. /\ flight' = [flight EXCEPT ![s] = f] /\ users' = Append(users, u)
      /\ UNCHANGED <<invites, drops>>
      /\ flight[s].op = "sign" /\ flight[s].step = "create"
  BY DEF CreateUser, Continue, At
<1>2. IsRequest(flight[s]) /\ flight[s].who \in Emails /\ flight[s].ref \in Invites
      /\ flight[s].todo = << >>
  BY <1>1 DEF InviteInv, Signing
<1>3. /\ IsRequest(f) /\ f.op = "sign" /\ f.step = "consume" /\ f.ref = flight[s].ref
      /\ f.who = flight[s].who /\ f.todo = flight[s].todo
  BY <1>1, <1>2 DEF IsRequest
<1>4. u \in Rowing /\ u.invite = flight[s].ref
  BY <1>2 DEF Rowing
<1> HIDE DEF f, u
<1>5. /\ users' \in Seq(Rowing) /\ Len(users) \in Nat /\ Len(users') = Len(users) + 1
      /\ users'[Len(users) + 1] = u /\ \A x \in 1..Len(users) : users'[x] = users[x]
  BY <1>1, <1>4 DEF InviteInv
<1>6. ASSUME NEW i \in OneTime PROVE Bounded(i)'
  <2>1. invites'[i] = invites[i] /\ drops' = drops /\ Cardinality(Slots)' = Cardinality(Slots)
    BY <1>1
  <2>2. Bounded(i) /\ drops \in Nat
    BY DEF InviteInv
  <2>3. CASE f.ref # i
    <3>1. Made(i)' = Made(i)
      BY <1>3, <1>4, <1>5, <2>3 DEF Made
    <3>2. Owing(i)' = Owing(i) /\ Ready(i)' = Ready(i)
      BY <1>1, <1>3, <2>3, SlotMoves DEF Owing, Ready, At
    <3> QED
      BY <2>1, <2>2, <3>1, <3>2 DEF Bounded
  <2>4. CASE f.ref = i
    <3>1. Made(i)' = Made(i) \cup {Len(users) + 1} /\ Len(users) + 1 \notin Made(i)
      BY <1>3, <1>4, <1>5, <2>4 DEF Made
    <3>2. /\ Owing(i)' = Owing(i) \cup {s} /\ s \notin Owing(i)
          /\ Ready(i)' = Ready(i) \ {s} /\ s \in Ready(i)
      <4>1. Owing(i)' = Owing(i) \cup {s} /\ Ready(i)' = Ready(i) \ {s}
        BY <1>1, <1>3, <2>4, SlotMoves
      <4>2. s \notin Owing(i) /\ s \in Ready(i)
        BY <1>1, <1>3, <2>4 DEF Owing, Ready, At
      <4> QED
        BY <4>1, <4>2
    <3>3. Cardinality(Made(i)') = Cardinality(Made(i)) + 1
      BY <3>1, Counting, FS_AddElement
    <3>4. Cardinality(Owing(i)') = Cardinality(Owing(i)) + 1
      BY <3>2, Counting, FS_AddElement
    <3>5. Cardinality(Ready(i)') = Cardinality(Ready(i)) - 1
      BY <3>2, Counting, FS_RemoveElement
    <3> QED
      BY <2>1, <2>2, <3>3, <3>4, <3>5, Counting DEF Bounded
  <2> QED
    BY <2>3, <2>4
<1>7. \A r \in Slots : flight'[r] = IF r = s THEN f ELSE flight[r]
  BY <1>1 DEF InviteInv
<1>8. flight' = [r \in Slots |-> flight'[r]] /\ invites' = [i \in Invites |-> invites'[i]]
      /\ drops' \in Nat
  BY <1>1 DEF InviteInv
<1>9. \A r \in Slots : IsRequest(flight'[r]) /\ Signing(flight'[r])
  BY <1>2, <1>3, <1>7 DEF InviteInv, Signing
<1> QED
  BY <1>5, <1>6, <1>8, <1>9 DEF InviteInv

(* ... and whoever pays for it makes it unusable.                          *)
LEMMA ConsumeBounded ==
  ASSUME InviteInv, NEW s \in Slots, ConsumeInvite(s) PROVE InviteInv'
<1> DEFINE f == [flight[s] EXCEPT !.step = "issue"]
           j == flight[s].ref
<1>1. /\ flight' = [flight EXCEPT ![s] = f] /\ UNCHANGED <<users, drops>>
      /\ invites' = [invites EXCEPT ![j] = Used(j, flight[s].row)]
      /\ flight[s].op = "sign" /\ flight[s].step = "consume"
  BY DEF ConsumeInvite, To, Continue, At
<1>2. IsRequest(flight[s]) /\ flight[s].who \in Emails /\ j \in Invites
      /\ flight[s].todo = << >>
  BY <1>1 DEF InviteInv, Signing
<1>3. /\ IsRequest(f) /\ f.op = "sign" /\ f.step = "issue" /\ f.ref = j
      /\ f.who = flight[s].who /\ f.todo = flight[s].todo
  BY <1>1, <1>2 DEF IsRequest
<1> HIDE DEF f
<1>4. Signing(f)
  BY <1>2, <1>3 DEF Signing
<1>5. ASSUME NEW i \in OneTime PROVE Bounded(i)'
  <2>1. Made(i)' = Made(i) /\ drops' = drops /\ Cardinality(Slots)' = Cardinality(Slots)
    BY <1>1 DEF Made
  <2>2. Bounded(i) /\ drops \in Nat /\ i \in Invites
    BY WorkerAssumption DEF InviteInv
  <2>3. Ready(i)' = Ready(i)
    BY <1>1, <1>3, SlotMoves DEF Ready, At
  <2>4. CASE i # j
    <3>1. invites'[i] = invites[i]
      BY <1>1, <2>2, <2>4 DEF InviteInv
    <3>2. Owing(i)' = Owing(i)
      BY <1>1, <1>3, <2>4, SlotMoves DEF Owing, At
    <3> QED
      BY <2>1, <2>2, <2>3, <3>1, <3>2 DEF Bounded
  <2>5. CASE i = j
    <3>1. invites'[i].status = "exhausted"
      BY <1>1, <1>2, <2>2, <2>5 DEF InviteInv, Used
    <3> QED
      BY <2>1, <2>2, <2>3, <3>1 DEF Bounded
  <2> QED
    BY <2>4, <2>5
<1>6. invites' = [i \in Invites |-> invites'[i]] /\ drops' \in Nat
  BY <1>1 DEF InviteInv
<1> QED
  BY <1>1, <1>3, <1>4, <1>5, <1>6, StillShaped

LEMMA SignUpBounded ==
  ASSUME InviteInv, NEW s \in Slots, SignUp(s) PROVE InviteInv'
<1>0. IsRequest(flight[s]) /\ Signing(flight[s])
  BY DEF InviteInv
<1>1. CASE ValidateInvite(s) \/ CreateUser(s) \/ ConsumeInvite(s)
  BY <1>1, ValidateBounded, CreateBounded, ConsumeBounded
<1>2. CASE SignIn(s)
  <2>1. PICK e \in Emails, i \in Invites, c \in Clients \cup {Public} :
          Begin(s, "account", [Free EXCEPT !.op = "sign", !.step = "user", !.who = e,
                                           !.ref = i, !.seen = {c}])
    BY <1>2 DEF SignIn
  <2> DEFINE f == [Free EXCEPT !.op = "sign", !.step = "user", !.who = e, !.ref = i, !.seen = {c}]
  <2>2. /\ flight' = [flight EXCEPT ![s] = f] /\ flight[s] = Free
        /\ UNCHANGED <<users, invites, drops>>
    BY <1>2, <2>1 DEF SignIn, Begin, accounts
  <2>3. IsRequest(f) /\ Signing(f) /\ f.step = "user"
    BY DEF Free, IsRequest, Signing
  <2>4. ~ At(s, "sign", "consume")
    BY <2>2, FreeRequest DEF At
  <2> HIDE DEF f
  <2> QED
    BY <2>2, <2>3, <2>4, ElsewhereBounded
<1>3. CASE FindUser(s) \/ Issue(s) \/ ReadLogin(s) \/ SettleLogin(s)
  <2>1. UNCHANGED <<users, invites, drops>> /\ ~ At(s, "sign", "consume") /\ flight[s].op = "sign"
    BY <1>3 DEF FindUser, Issue, ReadLogin, SettleLogin, accounts, To, End, Continue, At
  <2>2. ASSUME flight' = [flight EXCEPT ![s] = Free] PROVE InviteInv'
    BY <2>1, <2>2, FreeRequest, ElsewhereBounded DEF Signing
  <2>3. ASSUME NEW u, NEW step \in {"validate", "issue", "login", "settle"},
               flight' = [flight EXCEPT ![s] = [flight[s] EXCEPT !.user = u, !.step = step]]
        PROVE  InviteInv'
    <3> DEFINE f == [flight[s] EXCEPT !.user = u, !.step = step]
    <3>1. /\ IsRequest(f) /\ f.step = step /\ f.op = "sign" /\ f.ref = flight[s].ref
          /\ f.who = flight[s].who /\ f.todo = flight[s].todo
      BY <1>0, <2>1 DEF IsRequest
    <3>2. flight' = [flight EXCEPT ![s] = f]
      BY <2>3
    <3> HIDE DEF f
    <3>3. Signing(f)
      BY <1>0, <2>1, <3>1 DEF Signing
    <3> QED
      BY <2>1, <3>1, <3>2, <3>3, ElsewhereBounded
  <2>4. ASSUME NEW step, To(s, step)
        PROVE  flight' = [flight EXCEPT ![s] = [flight[s] EXCEPT !.user = flight[s].user,
                                                                 !.step = step]]
    <3>1. [flight[s] EXCEPT !.step = step] =
            [flight[s] EXCEPT !.user = flight[s].user, !.step = step]
      BY <1>0 DEF IsRequest
    <3> QED
      BY <2>4, <3>1 DEF To, Continue
  <2>5. \/ flight' = [flight EXCEPT ![s] = Free]
        \/ \E step \in {"validate", "login", "settle"} : To(s, step)
        \/ \E u : flight' = [flight EXCEPT ![s] = [flight[s] EXCEPT !.user = u, !.step = "issue"]]
    BY <1>3 DEF FindUser, Issue, ReadLogin, SettleLogin, End, Continue
  <2> QED
    BY <2>2, <2>3, <2>4, <2>5
<1> QED
  BY <1>1, <1>2, <1>3 DEF SignUp

LEMMA InviteInvInit == WorkerInit => InviteInv
<1> SUFFICES ASSUME WorkerInit PROVE InviteInv
  OBVIOUS
<1>1. /\ \A s \in Slots : flight[s] = Free
      /\ users = << >> /\ drops = 0
      /\ invites = [i \in Invites |-> invites[i]]
  BY DEF WorkerInit
<1>2. flight = [s \in Slots |-> flight[s]]
  BY DEF WorkerInit
<1>3. \A s \in Slots : IsRequest(flight[s]) /\ Signing(flight[s])
  BY <1>1, FreeRequest DEF Signing
<1>4. ASSUME NEW i \in OneTime PROVE Bounded(i)
  <2>1. Made(i) = {} /\ Owing(i) = {} /\ Ready(i) = {}
    BY <1>1, FreeRequest DEF Made, Owing, Ready, At
  <2>2. Cardinality(Slots) \in Nat
    BY WorkerAssumption, FS_CardinalityType
  <2> QED
    BY <1>1, <2>1, <2>2, FS_EmptySet DEF Bounded
<1> QED
  BY <1>1, <1>2, <1>3, <1>4 DEF InviteInv

LEMMA InviteInvKept ==
  ASSUME InviteInv, [WorkerNext]_workerVars PROVE InviteInv'
<1>1. CASE StartLogin \/ UNCHANGED workerVars
  <2>1. UNCHANGED users /\ UNCHANGED invites /\ UNCHANGED flight /\ UNCHANGED drops
    BY <1>1 DEF StartLogin, workerVars, accounts
  <2>2. ASSUME NEW i \in OneTime PROVE Bounded(i)'
    <3>1. Made(i)' = Made(i)
      BY <2>1 DEF Made
    <3>2. Owing(i)' = Owing(i) /\ Ready(i)' = Ready(i)
      BY <2>1 DEF Owing, Ready, At
    <3>3. Bounded(i)
      BY DEF InviteInv
    <3> QED
      BY <2>1, <3>1, <3>2, <3>3 DEF Bounded
  <2>3. flight' = [s \in Slots |-> flight'[s]] /\ invites' = [i \in Invites |-> invites'[i]]
    BY <2>1 DEF InviteInv
  <2>4. \A s \in Slots : IsRequest(flight'[s]) /\ Signing(flight'[s])
    BY <2>1 DEF InviteInv
  <2> QED
    BY <2>1, <2>2, <2>3, <2>4 DEF InviteInv
<1>2. ASSUME NEW s \in Slots, SignUp(s) \/ Exchange(s) \/ Mail(s) \/ Drop(s)
      PROVE  InviteInv'
  BY <1>2, SignUpBounded, ExchangeBounded, MailBounded
<1> QED
  BY <1>1, <1>2 DEF WorkerNext

(* However many sign-ups validate one invite before any of them has used    *)
(* it, and wherever they are cut short, it admits no more accounts than     *)
(* overlapped or were cut short (validateInviteCode, createUser,            *)
(* consumeInviteCode).                                                     *)
THEOREM InvitesAreBound == WorkerSpec => []InvitesBound
<1>1. InviteInv => InvitesBound
  <2> SUFFICES ASSUME InviteInv, NEW i \in OneTime
               PROVE  Cardinality(Made(i)) <= Cardinality(Slots) + drops
    BY DEF InvitesBound, Made
  <2>1. Bounded(i) /\ drops \in Nat
    BY DEF InviteInv
  <2> QED
    BY <2>1, Counting DEF Bounded
<1> QED
  BY <1>1, InviteInvInit, InviteInvKept, PTL DEF WorkerSpec
=============================================================================
