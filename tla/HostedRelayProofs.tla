-------------------------- MODULE HostedRelayProofs --------------------------
(***************************************************************************)
(* The relay's safety properties, for every set of requests, whichever of  *)
(* the processes share the file, and wherever they crash.                  *)
(***************************************************************************)
EXTENDS HostedRelayInvariant, TLAPS

(* What _load returns is a content: the file's, or none.                   *)
LEMMA LoadTyped == TypeOK => Load \in Content /\ Load.pending \subseteq Requests
  BY DEF TypeOK, Load, Empty, Content

(* A rewrite of the whole file keeps the types when its content has one and *)
(* it is followed by a step that can follow a save.                         *)
LEMMA SaveTyped ==
  ASSUME TypeInv, NEW p \in Processes, NEW from \in Steps,
         NEW content \in Content, NEW to \in Continuations,
         Save(p, from, content, to), UNCHANGED <<disk, item>>,
         to \in Handling => item[p] \in Requests,
         todo' \in [Processes -> SUBSET Requests],
         submitted' \subseteq Requests, accepted' \subseteq Requests,
         listed' \subseteq Requests, decided' \subseteq Requests,
         parked' \subseteq Requests,
         UNCHANGED crashes
  PROVE  TypeInv'
<1>1. /\ pc \in [Processes -> Steps] /\ after \in [Processes -> Steps]
      /\ held \in [Processes -> Content]
  BY DEF TypeInv, TypeOK
<1>2. /\ pc' = [pc EXCEPT ![p] = "truncate"] /\ after' = [after EXCEPT ![p] = to]
      /\ held' = [held EXCEPT ![p] = content]
  BY DEF Save, Goto
<1>3. TypeOK'
  <2>1. /\ pc' \in [Processes -> Steps] /\ after' \in [Processes -> Steps]
        /\ held' \in [Processes -> Content]
    BY <1>1, <1>2 DEF Steps, Continuations
  <2> QED
    BY <2>1 DEF TypeInv, TypeOK, disk
<1>4. InHandOK'
  <2> SUFFICES ASSUME NEW q \in Processes
               PROVE  /\ after'[q] \in Continuations
                      /\ Resumes(q)' \in Handling => item'[q] \in Requests
    BY DEF InHandOK
  <2>1. CASE q = p
    BY <1>1, <1>2, <2>1 DEF Resumes
  <2>2. CASE q # p
    BY <1>1, <1>2, <2>2 DEF TypeInv, InHandOK, Resumes
  <2> QED
    BY <2>1, <2>2
<1> QED
  BY <1>3, <1>4 DEF TypeInv

(* So does a step that moves a process on with a request in hand.          *)
LEMMA MoveTyped ==
  ASSUME TypeInv, NEW p \in Processes, NEW to \in Steps \ {"truncate", "write"},
         pc' = [pc EXCEPT ![p] = to], UNCHANGED <<disk, after, held, crashes>>,
         item' \in [Processes -> Requests \cup {None}],
         \A q \in Processes : q # p => item'[q] = item[q],
         to \in Handling => item'[p] \in Requests,
         todo' \in [Processes -> SUBSET Requests],
         submitted' \subseteq Requests, accepted' \subseteq Requests,
         listed' \subseteq Requests, decided' \subseteq Requests,
         parked' \subseteq Requests
  PROVE  TypeInv'
<1>1. pc \in [Processes -> Steps] /\ pc' \in [Processes -> Steps]
  BY DEF TypeInv, TypeOK
<1>2. TypeOK'
  BY <1>1 DEF TypeInv, TypeOK, disk
<1>3. InHandOK'
  <2> SUFFICES ASSUME NEW q \in Processes
               PROVE  /\ after'[q] \in Continuations
                      /\ Resumes(q)' \in Handling => item'[q] \in Requests
    BY DEF InHandOK
  <2>1. CASE q = p
    BY <1>1, <2>1 DEF TypeInv, InHandOK, Resumes
  <2>2. CASE q # p
    BY <1>1, <2>2 DEF TypeInv, InHandOK, Resumes
  <2> QED
    BY <2>1, <2>2
<1> QED
  BY <1>2, <1>3 DEF TypeInv

LEMMA TypeInit == Init => TypeInv
<1> SUFFICES ASSUME Init PROVE TypeInv
  OBVIOUS
<1>1. Empty \in Content /\ Paired \in Content
  BY DEF Empty, Paired, Content
<1>2. ASSUME NEW S \in SUBSET Requests PROVE Queued(S) \in Content
  <2>1. S \X {"tool_call"} \in SUBSET (Requests \X Kinds)
    BY <1>2 DEF Kinds
  <2>2. S \in SUBSET Requests /\ (S # {}) \in BOOLEAN
    BY <1>2
  <2> QED
    BY <1>1, <2>1, <2>2 DEF Queued, Content
<1>3. file \in Content /\ submitted \subseteq Requests
  BY <1>1, <1>2 DEF Init
<1>4. TypeOK
  BY <1>1, <1>3 DEF Init, TypeOK, Steps
<1>5. InHandOK
  BY DEF Init, InHandOK, Resumes, Continuations, Handling
<1> QED
  BY <1>4, <1>5 DEF TypeInv

(* Every step of a handler keeps them.                                     *)
LEMMA TypeServe ==
  ASSUME TypeInv, NEW p \in Processes, Serve(p)
  PROVE  TypeInv'
<1> USE DEF vars, history
<1>0. /\ file \in Content /\ Load \in Content /\ item[p] \in Requests \cup {None}
      /\ pc \in [Processes -> Steps] /\ item \in [Processes -> Requests \cup {None}]
      /\ todo \in [Processes -> SUBSET Requests]
      /\ Load.pending \subseteq Requests
  BY LoadTyped DEF TypeInv, TypeOK
<1>a. ASSUME pc[p] \in Handling PROVE item[p] \in Requests
  BY <1>a DEF TypeInv, InHandOK, Resumes, Handling
<1>1. CASE Truncate(p)
  BY <1>1 DEF Truncate, Goto, TypeInv, TypeOK, InHandOK, Resumes, Steps
<1>2. CASE Write(p)
  <2>1. /\ pc' = [pc EXCEPT ![p] = after[p]] /\ after' = [after EXCEPT ![p] = "idle"]
        /\ item' \in [Processes -> Requests \cup {None}]
        /\ held' \in [Processes -> Content]
        /\ \A q \in Processes : q # p \/ after[p] # "idle" => item'[q] = item[q]
    BY <1>2 DEF Write, Goto, TypeInv, TypeOK, Empty, Content
  <2>2. TypeOK'
    BY <1>2, <2>1 DEF Write, Goto, TypeInv, TypeOK, InHandOK, Continuations, Steps
  <2>3. InHandOK'
    <3> SUFFICES ASSUME NEW q \in Processes
                 PROVE  /\ after'[q] \in Continuations
                        /\ Resumes(q)' \in Handling => item'[q] \in Requests
      BY DEF InHandOK
    <3>1. CASE q = p
      BY <1>2, <2>1, <3>1
      DEF Write, Goto, TypeInv, TypeOK, InHandOK, Resumes, Continuations, Handling
    <3>2. CASE q # p
      BY <2>1, <3>2 DEF TypeInv, TypeOK, InHandOK, Resumes
    <3> QED
      BY <3>1, <3>2
  <2> QED
    BY <2>2, <2>3 DEF TypeInv
<1>3. CASE Enqueue(p)
  <2>1. item[p] \in Requests
    BY <1>a, <1>3 DEF Enqueue, Save, Goto, Handling
  <2>2. [Load EXCEPT !.pending = @ \cup {item[p]}] \in Content
    BY <1>0, <2>1 DEF Content
  <2> QED
    BY <1>0, <1>3, <2>1, <2>2, SaveTyped
    DEF Enqueue, TypeInv, TypeOK, Steps, Continuations
<1>4. CASE Tell(p)
  <2>1. item[p] \in Requests
    BY <1>a, <1>4 DEF Tell, Save, Goto, Handling
  <2> DEFINE told == Load.messages \cup {<<item[p], "tool_call">>}
  <2>0. told \in SUBSET (Requests \X Kinds)
    BY <1>0, <2>1 DEF Content, Kinds
  <2>2. [Load EXCEPT !.session = TRUE,
                     !.messages = @ \cup {<<item[p], "tool_call">>}] \in Content
    <3> HIDE DEF told
    <3>1. [Load EXCEPT !.session = TRUE, !.messages = told] \in Content
      BY <1>0, <2>0 DEF Content
    <3> QED
      BY <3>1 DEF told
  <2> QED
    BY <1>0, <1>4, <2>1, <2>2, SaveTyped
    DEF Tell, TypeInv, TypeOK, Steps, Continuations
<1>5. CASE Accept(p)
  <2>1. item[p] \in Requests
    BY <1>a, <1>5 DEF Accept, Handling
  <2> QED
    BY <1>0, <1>5, <2>1, MoveTyped DEF Accept, Finish, TypeInv, TypeOK, Steps, Handling
<1>6. CASE Refresh(p)
  <2>1. CASE Load.link
    BY <1>0, <1>6, <2>1, SaveTyped DEF Refresh, TypeInv, TypeOK, Steps, Continuations, Handling
  <2>2. CASE ~ Load.link
    BY <1>0, <1>6, <2>2, MoveTyped DEF Refresh, Goto, TypeInv, TypeOK, Steps, Handling
  <2> QED
    BY <2>1, <2>2
<1>7. CASE List(p)
  <2>1. todo' \in [Processes -> SUBSET Requests]
    BY <1>0, <1>7 DEF List
  <2> QED
    BY <1>0, <1>7, <2>1, MoveTyped DEF List, Goto, TypeInv, TypeOK, Steps, Handling
<1>8. CASE Seen(p)
  <2>1. CASE Load.session
    BY <1>0, <1>8, <2>1, SaveTyped DEF Seen, TypeInv, TypeOK, Steps, Continuations, Handling
  <2>2. CASE ~ Load.session
    BY <1>0, <1>8, <2>2, MoveTyped DEF Seen, Goto, TypeInv, TypeOK, Steps, Handling
  <2> QED
    BY <2>1, <2>2
<1>9. CASE ReturnListing(p)
  BY <1>0, <1>9, MoveTyped DEF ReturnListing, Finish, TypeInv, TypeOK, Steps, Handling
<1>10. CASE NextRequest(p)
  <2>1. PICK r \in todo[p] : item' = [item EXCEPT ![p] = r]
    BY <1>10 DEF NextRequest
  <2>2. r \in Requests
    BY <1>0, <2>1
  <2> QED
    BY <1>0, <1>10, <2>1, <2>2, MoveTyped DEF NextRequest, Goto, TypeInv, TypeOK, Steps
<1>11. CASE EndOfListing(p)
  BY <1>0, <1>11, MoveTyped DEF EndOfListing, Finish, TypeInv, TypeOK, Steps, Handling
<1>12. CASE Ack(p)
  <2>1. item[p] \in Requests
    BY <1>a, <1>12 DEF Ack, Save, Goto, Handling
  <2> DEFINE moved == Load.pending \cap {item[p]}
             content == [Load EXCEPT !.pending = @ \ moved, !.acked = @ \cup moved]
             next == IF p = "watch" THEN "deliver" ELSE "idle"
  <2>2. content \in Content /\ next \in Continuations
    BY <1>0, <2>1 DEF Content, Continuations
  <2>3. Save(p, "ack", content, next) /\ UNCHANGED <<disk, item>>
    BY <1>12 DEF Ack
  <2> QED
    BY <1>0, <1>12, <2>1, <2>2, <2>3, SaveTyped DEF Ack, TypeInv, TypeOK, Steps
<1>13. CASE Deliver(p)
  BY <1>0, <1>a, <1>13, MoveTyped DEF Deliver, Goto, TypeInv, TypeOK, Steps, Handling
<1>14. CASE RouteToList(p)
  BY <1>0, <1>a, <1>14, MoveTyped DEF RouteToList, Goto, TypeInv, TypeOK, Steps, Handling
<1>15. CASE Park(p)
  <2>1. item[p] \in Requests
    BY <1>a, <1>15 DEF Park, Save, Goto, Handling
  <2>2. [Load EXCEPT !.waiting = @ \cup {item[p]}] \in Content
    BY <1>0, <2>1 DEF Content
  <2> QED
    BY <1>0, <1>15, <2>1, <2>2, SaveTyped DEF Park, TypeInv, TypeOK, Steps, Continuations
<1>16. CASE Reject(p) \/ HandOff(p)
  <2>1. item[p] \in Requests
    BY <1>a, <1>16 DEF Reject, HandOff, Decide, Goto, Handling
  <2> QED
    BY <1>0, <1>16, <2>1, MoveTyped DEF Reject, HandOff, Decide, Goto, TypeInv, TypeOK, Steps
<1>17. CASE Raise(p)
  BY <1>0, <1>17, MoveTyped DEF Raise, Finish, TypeInv, TypeOK, Steps, Handling
<1>18. CASE Result(p)
  <2>1. item[p] \in Requests
    BY <1>a, <1>18 DEF Result, Save, Goto, Handling
  <2>2. [Load EXCEPT !.results = @ \cup {item[p]}] \in Content
    BY <1>0, <2>1 DEF Content
  <2> QED
    BY <1>0, <1>18, <2>1, <2>2, SaveTyped DEF Result, TypeInv, TypeOK, Steps, Continuations
<1>19. CASE TellResult(p)
  <2>1. item[p] \in Requests
    BY <1>a, <1>19 DEF TellResult, Save, Goto, Handling
  <2> DEFINE told == Load.messages \cup {<<item[p], "tool_result">>}
  <2>0. told \in SUBSET (Requests \X Kinds)
    BY <1>0, <2>1 DEF Content, Kinds
  <2>2. [Load EXCEPT !.session = TRUE,
                     !.messages = @ \cup {<<item[p], "tool_result">>}] \in Content
    <3> HIDE DEF told
    <3>1. [Load EXCEPT !.session = TRUE, !.messages = told] \in Content
      BY <1>0, <2>0 DEF Content
    <3> QED
      BY <3>1 DEF told
  <2>3. todo' \in [Processes -> SUBSET Requests]
    BY <1>0, <1>19 DEF TellResult
  <2> QED
    BY <1>0, <1>19, <2>1, <2>2, <2>3, SaveTyped
    DEF TellResult, TypeInv, TypeOK, Steps, Continuations, Handling
<1> QED
  BY <1>1, <1>2, <1>3, <1>4, <1>5, <1>6, <1>7, <1>8, <1>9, <1>10, <1>11, <1>12, <1>13,
     <1>14, <1>15, <1>16, <1>17, <1>18, <1>19 DEF Serve

(* So do the calls that begin a handler, a crash, and a stutter.           *)
LEMMA TypeNext == TypeInv /\ [Next]_vars => TypeInv'
<1> SUFFICES ASSUME TypeInv, [Next]_vars PROVE TypeInv'
  OBVIOUS
<1> USE DEF vars, history
<1>0. /\ Load \in Content
      /\ pc \in [Processes -> Steps] /\ item \in [Processes -> Requests \cup {None}]
      /\ todo \in [Processes -> SUBSET Requests]
  BY LoadTyped DEF TypeInv, TypeOK
<1>1. ASSUME NEW p \in Processes, Serve(p) PROVE TypeInv'
  BY <1>1, TypeServe
<1>2. ASSUME NEW p \in Processes, Beat(p) PROVE TypeInv'
  BY <1>0, <1>2, MoveTyped DEF Beat, Goto, TypeInv, TypeOK, Steps, Handling
<1>3. ASSUME NEW p \in Processes, Crash(p) PROVE TypeInv'
  <2>1. TypeOK'
    BY <1>3 DEF Crash, Finish, TypeInv, TypeOK, Steps, Empty, Content
  <2>2. InHandOK'
    BY <1>0, <1>3 DEF Crash, Finish, TypeInv, TypeOK, InHandOK, Resumes, Continuations, Handling
  <2> QED
    BY <2>1, <2>2 DEF TypeInv
<1>4. ASSUME "web" \in Processes, NEW r \in Requests, Submit(r) \/ NodeAcks(r) \/ NodeAnswers(r)
      PROVE  TypeInv'
  <2>1. CASE Submit(r)
    BY <1>0, <1>4, <2>1, MoveTyped DEF Submit, Goto, TypeInv, TypeOK, Steps, Handling
  <2>2. CASE NodeAcks(r)
    BY <1>0, <1>4, <2>2, MoveTyped DEF NodeAcks, Goto, TypeInv, TypeOK, Steps, Handling
  <2>3. CASE NodeAnswers(r)
    BY <1>0, <1>4, <2>3, MoveTyped DEF NodeAnswers, Goto, TypeInv, TypeOK, Steps, Handling
  <2> QED
    BY <1>4, <2>1, <2>2, <2>3
<1>5. ASSUME "web" \in Processes, ReadSession PROVE TypeInv'
  <2>1. [Load EXCEPT !.session = TRUE] \in Content
    BY <1>0 DEF Content
  <2> QED
    BY <1>0, <1>5, <2>1, SaveTyped
    DEF ReadSession, TypeInv, TypeOK, Steps, Continuations, Handling
<1>6. ASSUME "desktop" \in Processes, RegisterProfile \/ RegisterLink PROVE TypeInv'
  <2>1. /\ [Load EXCEPT !.profile = TRUE] \in Content
        /\ [Load EXCEPT !.link = TRUE] \in Content
    BY <1>0 DEF Content
  <2>2. CASE RegisterProfile
    BY <1>0, <1>6, <2>1, <2>2, SaveTyped
    DEF RegisterProfile, TypeInv, TypeOK, Steps, Continuations, Handling
  <2>3. CASE RegisterLink
    BY <1>0, <1>6, <2>1, <2>3, SaveTyped
    DEF RegisterLink, TypeInv, TypeOK, Steps, Continuations, Handling
  <2> QED
    BY <1>6, <2>2, <2>3
<1>7. CASE UNCHANGED vars
  BY <1>7 DEF disk, private, TypeInv, TypeOK, InHandOK, Resumes
<1> QED
  BY <1>1, <1>2, <1>3, <1>4, <1>5, <1>6, <1>7 DEF Next, WebCalls

-----------------------------------------------------------------------------
(* A rewrite keeps the queue's and the results' invariants when its content *)
(* queues nothing new and has no result of a request nobody handled.        *)
LEMMA SaveSafe ==
  ASSUME TypeInv, QueueInv, ResultInv, NEW p \in Processes, NEW from,
         NEW content, NEW to \in Continuations,
         Save(p, from, content, to), UNCHANGED <<disk, item, submitted>>,
         decided \subseteq decided', parked \subseteq parked',
         content.pending \cup content.acked \subseteq Load.pending \cup Load.acked,
         content.pending \cap content.acked = {},
         content.results \subseteq decided' \cup parked',
         to = "result" => item[p] \in decided' \cup parked'
  PROVE  QueueInv' /\ ResultInv'
<1>1. /\ pc' = [pc EXCEPT ![p] = "truncate"] /\ after' = [after EXCEPT ![p] = to]
      /\ held' = [held EXCEPT ![p] = content]
  BY DEF Save, Goto
<1>2. /\ pc \in [Processes -> Steps] /\ after \in [Processes -> Steps]
      /\ held \in [Processes -> Content]
  BY DEF TypeInv, TypeOK
<1>3. Contents' \subseteq Contents \cup {content} /\ file' = file
  BY <1>1, <1>2 DEF Contents, disk
<1>4. Load = file \/ Load.pending \cup Load.acked = {}
  BY DEF Load, Empty
<1>5. content.pending \cup content.acked \subseteq file.pending \cup file.acked
  BY <1>4
<1>6. file \in Contents
  BY DEF Contents
<1>7. NothingInvented' /\ NeverBoth'
  BY <1>3, <1>5, <1>6 DEF QueueInv, NothingInvented, NeverBoth
<1>8. FreshInHand'
  <2> SUFFICES ASSUME NEW q \in Processes, pc'[q] = "enqueue"
               PROVE  /\ q = "web" /\ item'[q] \in submitted'
                      /\ \A c \in Contents' : item'[q] \notin c.pending \cup c.acked
    BY DEF FreshInHand
  <2>1. pc[q] = "enqueue"
    BY <1>1, <1>2
  <2> QED
    BY <1>3, <1>5, <1>6, <2>1 DEF QueueInv, FreshInHand
<1>9. ResultMeansHandled'
  BY <1>3 DEF ResultInv, ResultMeansHandled
<1>10. HandledInHand'
  BY <1>1, <1>2 DEF ResultInv, HandledInHand, Resumes
<1> QED
  BY <1>7, <1>8, <1>9, <1>10 DEF QueueInv, ResultInv

(* So does a step that saves nothing and begins no submission.             *)
LEMMA MoveSafe ==
  ASSUME TypeInv, QueueInv, ResultInv, NEW p \in Processes,
         NEW to \in Steps \ {"truncate", "write", "enqueue"},
         pc' = [pc EXCEPT ![p] = to], UNCHANGED submitted,
         \A q \in Processes : q # p => item'[q] = item[q],
         \A q \in Processes : q # p => after'[q] = after[q],
         decided \subseteq decided', parked \subseteq parked',
         Contents' \subseteq Contents \cup {Empty},
         to = "result" => item'[p] \in decided' \cup parked'
  PROVE  QueueInv' /\ ResultInv'
<1>1. pc \in [Processes -> Steps]
  BY DEF TypeInv, TypeOK
<1>2. /\ Empty.pending = {} /\ Empty.acked = {} /\ Empty.results = {}
  BY DEF Empty
<1>3. NothingInvented' /\ NeverBoth' /\ ResultMeansHandled'
  BY <1>2 DEF QueueInv, ResultInv, NothingInvented, NeverBoth, ResultMeansHandled
<1>4. FreshInHand'
  <2> SUFFICES ASSUME NEW q \in Processes, pc'[q] = "enqueue"
               PROVE  /\ q = "web" /\ item'[q] \in submitted'
                      /\ \A c \in Contents' : item'[q] \notin c.pending \cup c.acked
    BY DEF FreshInHand
  <2>1. q # p /\ pc[q] = "enqueue" /\ item'[q] = item[q]
    BY <1>1
  <2> QED
    BY <1>2, <2>1 DEF QueueInv, FreshInHand
<1>5. HandledInHand'
  <2> SUFFICES ASSUME NEW q \in Processes, Resumes(q)' = "result"
               PROVE  item'[q] \in decided' \cup parked'
    BY DEF HandledInHand
  <2>1. CASE q = p
    BY <1>1, <2>1 DEF Resumes
  <2>2. CASE q # p
    BY <1>1, <2>2 DEF ResultInv, HandledInHand, Resumes
  <2> QED
    BY <2>1, <2>2
<1> QED
  BY <1>3, <1>4, <1>5 DEF QueueInv, ResultInv

LEMMA SafeInit == Init => QueueInv /\ ResultInv
<1> SUFFICES ASSUME Init PROVE QueueInv /\ ResultInv
  OBVIOUS
<1>1. \A c \in Contents : /\ c.pending \subseteq submitted
                          /\ c.acked = {} /\ c.results = {}
  <2>1. /\ Empty.pending = {} /\ Empty.acked = {} /\ Empty.results = {}
    BY DEF Empty
  <2>2. ASSUME NEW S \in SUBSET Requests
        PROVE  /\ Queued(S).pending = S /\ Queued(S).acked = {}
               /\ Queued(S).results = {}
    BY DEF Queued, Paired, Empty
  <2>3. \A p \in Processes : held[p] = Empty
    BY DEF Init
  <2> QED
    BY <2>1, <2>2, <2>3 DEF Init, Contents
<1>2. \A p \in Processes : pc[p] = "idle"
  BY DEF Init
<1> QED
  BY <1>1, <1>2 DEF QueueInv, ResultInv, NothingInvented, NeverBoth, FreshInHand,
                    ResultMeansHandled, HandledInHand, Resumes

(* Enqueuing: the id in hand is in no content yet, so it is not acknowledged*)
(* in the one that is saved.                                                *)
LEMMA EnqueueSafe ==
  ASSUME TypeInv, QueueInv, ResultInv, NEW p \in Processes, Enqueue(p)
  PROVE  QueueInv' /\ ResultInv'
<1> DEFINE content == [Load EXCEPT !.pending = @ \cup {item[p]}]
<1>1. /\ pc[p] = "enqueue" /\ pc' = [pc EXCEPT ![p] = "truncate"]
      /\ held' = [held EXCEPT ![p] = content] /\ after' = [after EXCEPT ![p] = "tell"]
      /\ UNCHANGED <<file, item, submitted, decided, parked>>
  BY DEF Enqueue, Save, Goto, disk, history
<1>2. /\ pc \in [Processes -> Steps] /\ after \in [Processes -> Steps]
      /\ held \in [Processes -> Content] /\ Load \in Content
  BY LoadTyped DEF TypeInv, TypeOK
<1>3. Contents' \subseteq Contents \cup {content}
  BY <1>1, <1>2 DEF Contents
<1>4. Load = file \/ (Load.pending = {} /\ Load.acked = {} /\ Load.results = {})
  BY DEF Load, Empty
<1>5. file \in Contents
  BY DEF Contents
<1>6. p = "web" /\ item[p] \in submitted /\ item[p] \notin file.acked
  BY <1>1, <1>5 DEF QueueInv, FreshInHand
<1>7. /\ content.pending = Load.pending \cup {item[p]}
      /\ content.acked = Load.acked /\ content.results = Load.results
  BY <1>2 DEF Content
<1> HIDE DEF content
<1>8. NothingInvented' /\ NeverBoth' /\ ResultMeansHandled'
  BY <1>1, <1>3, <1>4, <1>5, <1>6, <1>7
  DEF QueueInv, ResultInv, NothingInvented, NeverBoth, ResultMeansHandled
<1>9. FreshInHand'
  BY <1>1, <1>2, <1>6 DEF QueueInv, FreshInHand
<1>10. HandledInHand'
  BY <1>1, <1>2 DEF ResultInv, HandledInHand, Resumes
<1> QED
  BY <1>8, <1>9, <1>10 DEF QueueInv, ResultInv

(* A new submission: nothing on file or about to be was ever not submitted. *)
LEMMA SubmitSafe ==
  ASSUME TypeInv, QueueInv, ResultInv, "web" \in Processes, NEW r \in Requests, Submit(r)
  PROVE  QueueInv' /\ ResultInv'
<1>1. /\ r \notin submitted /\ submitted' = submitted \cup {r}
      /\ pc' = [pc EXCEPT !["web"] = "enqueue"] /\ item' = [item EXCEPT !["web"] = r]
      /\ Contents' = Contents /\ UNCHANGED <<after, decided, parked>>
  BY DEF Submit, Goto, disk, Contents
<1>2. /\ pc \in [Processes -> Steps] /\ item \in [Processes -> Requests \cup {None}]
  BY DEF TypeInv, TypeOK
<1>3. NothingInvented' /\ NeverBoth' /\ ResultMeansHandled'
  BY <1>1 DEF QueueInv, ResultInv, NothingInvented, NeverBoth, ResultMeansHandled
<1>4. FreshInHand'
  BY <1>1, <1>2 DEF QueueInv, NothingInvented, FreshInHand
<1>5. HandledInHand'
  BY <1>1, <1>2 DEF ResultInv, HandledInHand, Resumes
<1> QED
  BY <1>3, <1>4, <1>5 DEF QueueInv, ResultInv

(* Every step of a handler keeps both.                                     *)
LEMMA SafeServe ==
  ASSUME TypeInv, QueueInv, ResultInv, NEW p \in Processes, Serve(p)
  PROVE  QueueInv' /\ ResultInv'
<1> USE DEF history
<1>0. /\ Load \in Content
      /\ pc \in [Processes -> Steps] /\ item \in [Processes -> Requests \cup {None}]
      /\ held \in [Processes -> Content] /\ after \in [Processes -> Steps]
  BY LoadTyped DEF TypeInv, TypeOK
<1>a. /\ Load.pending \cap Load.acked = {}
      /\ Load.results \subseteq decided \cup parked
  BY DEF QueueInv, ResultInv, NeverBoth, ResultMeansHandled, Contents, Load, Empty
<1>1. CASE Truncate(p)
  <2>1. /\ pc[p] = "truncate" /\ pc' = [pc EXCEPT ![p] = "write"] /\ Contents' = Contents
        /\ UNCHANGED <<after, item, submitted, decided, parked>>
    BY <1>1 DEF Truncate, Goto, Contents
  <2>2. FreshInHand' /\ HandledInHand'
    BY <1>0, <2>1 DEF QueueInv, ResultInv, FreshInHand, HandledInHand, Resumes
  <2> QED
    BY <2>1, <2>2 DEF QueueInv, ResultInv, NothingInvented, NeverBoth, ResultMeansHandled
<1>2. CASE Write(p)
  <2>1. /\ pc[p] = "write" /\ pc' = [pc EXCEPT ![p] = after[p]]
        /\ after' = [after EXCEPT ![p] = "idle"] /\ UNCHANGED <<submitted, decided, parked>>
        /\ file' = held[p] /\ held' = [held EXCEPT ![p] = Empty]
        /\ \A q \in Processes : q # p \/ after[p] # "idle" => item'[q] = item[q]
    BY <1>0, <1>2 DEF Write, Goto
  <2>2. after[p] \in Steps \ {"truncate", "write", "enqueue"}
    BY <1>0 DEF TypeInv, InHandOK, Continuations
  <2>3. Contents' \subseteq Contents \cup {Empty}
    BY <1>0, <2>1 DEF Contents
  <2>4. after[p] = "result" => item'[p] \in decided' \cup parked'
    BY <2>1 DEF ResultInv, HandledInHand, Resumes
  <2> QED
    BY <1>0, <2>1, <2>2, <2>3, <2>4, MoveSafe
<1>3. CASE Enqueue(p)
  BY <1>3, EnqueueSafe
<1>4. CASE Tell(p)
  BY <1>0, <1>a, <1>4, SaveSafe DEF Tell, Content, Continuations
<1>5. CASE Accept(p)
  BY <1>0, <1>5, MoveSafe DEF Accept, Finish, Contents, disk, Steps
<1>6. CASE Refresh(p)
  <2>1. CASE Load.link
    BY <1>a, <1>6, <2>1, SaveSafe DEF Refresh, Continuations
  <2>2. CASE ~ Load.link
    BY <1>0, <1>6, <2>2, MoveSafe DEF Refresh, Goto, Contents, disk, Steps
  <2> QED
    BY <2>1, <2>2
<1>7. CASE List(p)
  BY <1>0, <1>7, MoveSafe DEF List, Goto, Contents, disk, Steps
<1>8. CASE Seen(p)
  <2>1. CASE Load.session
    BY <1>a, <1>8, <2>1, SaveSafe DEF Seen, Continuations
  <2>2. CASE ~ Load.session
    BY <1>0, <1>8, <2>2, MoveSafe DEF Seen, Goto, Contents, disk, Steps
  <2> QED
    BY <2>1, <2>2
<1>9. CASE ReturnListing(p)
  BY <1>0, <1>9, MoveSafe DEF ReturnListing, Finish, Contents, disk, Steps
<1>10. CASE NextRequest(p)
  <2>1. PICK r \in todo[p] : item' = [item EXCEPT ![p] = r]
    BY <1>10 DEF NextRequest
  <2>2. /\ pc' = [pc EXCEPT ![p] = "ack"] /\ UNCHANGED <<after, submitted, decided, parked>>
        /\ Contents' = Contents
    BY <1>10 DEF NextRequest, Goto, Contents, disk
  <2> QED
    BY <1>0, <2>1, <2>2, MoveSafe DEF Steps
<1>11. CASE EndOfListing(p)
  BY <1>0, <1>11, MoveSafe DEF EndOfListing, Finish, Contents, disk, Steps
<1>12. CASE Ack(p)
  <2> DEFINE moved == Load.pending \cap {item[p]}
             content == [Load EXCEPT !.pending = @ \ moved, !.acked = @ \cup moved]
             next == IF p = "watch" THEN "deliver" ELSE "idle"
  <2>1. Save(p, "ack", content, next) /\ UNCHANGED <<disk, item, submitted, decided, parked>>
    BY <1>12 DEF Ack
  <2>2. /\ content.pending = Load.pending \ moved /\ content.acked = Load.acked \cup moved
        /\ content.results = Load.results
    BY <1>0 DEF Content
  <2>3. next \in Continuations /\ next # "result"
    BY DEF Continuations
  <2> HIDE DEF content, next
  <2> QED
    BY <1>a, <2>1, <2>2, <2>3, SaveSafe
<1>13. CASE Deliver(p)
  BY <1>0, <1>13, MoveSafe DEF Deliver, Goto, Contents, disk, Steps
<1>14. CASE RouteToList(p)
  BY <1>0, <1>14, MoveSafe DEF RouteToList, Goto, Contents, disk, Steps
<1>15. CASE Park(p)
  <2>1. item[p] \in parked' /\ parked \subseteq parked'
    BY <1>15 DEF Park
  <2> QED
    BY <1>0, <1>a, <1>15, <2>1, SaveSafe DEF Park, Content, Continuations
<1>16. CASE Reject(p) \/ HandOff(p)
  BY <1>0, <1>16, MoveSafe DEF Reject, HandOff, Decide, Goto, Contents, disk, Steps
<1>17. CASE Raise(p)
  BY <1>0, <1>17, MoveSafe DEF Raise, Finish, Contents, disk, Steps
<1>18. CASE Result(p)
  <2>1. item[p] \in decided \cup parked
    BY <1>18 DEF Result, Save, Goto, ResultInv, HandledInHand, Resumes
  <2> QED
    BY <1>0, <1>a, <1>18, <2>1, SaveSafe DEF Result, Content, Continuations
<1>19. CASE TellResult(p)
  BY <1>0, <1>a, <1>19, SaveSafe DEF TellResult, Content, Continuations
<1> QED
  BY <1>1, <1>2, <1>3, <1>4, <1>5, <1>6, <1>7, <1>8, <1>9, <1>10, <1>11, <1>12, <1>13,
     <1>14, <1>15, <1>16, <1>17, <1>18, <1>19 DEF Serve

LEMMA SafeNext == TypeInv /\ QueueInv /\ ResultInv /\ [Next]_vars => QueueInv' /\ ResultInv'
<1> SUFFICES ASSUME TypeInv, QueueInv, ResultInv, [Next]_vars PROVE QueueInv' /\ ResultInv'
  OBVIOUS
<1> USE DEF history
<1>0. /\ Load \in Content
      /\ pc \in [Processes -> Steps] /\ item \in [Processes -> Requests \cup {None}]
      /\ held \in [Processes -> Content] /\ after \in [Processes -> Steps]
  BY LoadTyped DEF TypeInv, TypeOK
<1>a. /\ Load.pending \cap Load.acked = {}
      /\ Load.results \subseteq decided \cup parked
  BY DEF QueueInv, ResultInv, NeverBoth, ResultMeansHandled, Contents, Load, Empty
<1>1. ASSUME NEW p \in Processes, Serve(p) PROVE QueueInv' /\ ResultInv'
  BY <1>1, SafeServe
<1>2. ASSUME NEW p \in Processes, Beat(p) PROVE QueueInv' /\ ResultInv'
  BY <1>0, <1>2, MoveSafe DEF Beat, Goto, Contents, disk, Steps
<1>3. ASSUME NEW p \in Processes, Crash(p) PROVE QueueInv' /\ ResultInv'
  BY <1>0, <1>3, MoveSafe DEF Crash, Finish, Contents, Steps
<1>4. ASSUME "web" \in Processes, NEW r \in Requests, Submit(r) PROVE QueueInv' /\ ResultInv'
  BY <1>4, SubmitSafe
<1>5. ASSUME "web" \in Processes, NEW r \in Requests, NodeAcks(r) PROVE QueueInv' /\ ResultInv'
  BY <1>0, <1>5, MoveSafe DEF NodeAcks, Goto, Contents, disk, Steps
<1>6. ASSUME "web" \in Processes, NEW r \in Requests, NodeAnswers(r)
      PROVE  QueueInv' /\ ResultInv'
  BY <1>0, <1>6, MoveSafe DEF NodeAnswers, Goto, Contents, disk, Steps
<1>7. ASSUME "web" \in Processes, ReadSession PROVE QueueInv' /\ ResultInv'
  BY <1>0, <1>a, <1>7, SaveSafe DEF ReadSession, Content, Continuations
<1>8. ASSUME "desktop" \in Processes, RegisterProfile PROVE QueueInv' /\ ResultInv'
  BY <1>0, <1>a, <1>8, SaveSafe DEF RegisterProfile, Content, Continuations
<1>9. ASSUME "desktop" \in Processes, RegisterLink PROVE QueueInv' /\ ResultInv'
  BY <1>0, <1>a, <1>9, SaveSafe DEF RegisterLink, Content, Continuations
<1>10. CASE UNCHANGED vars
  BY <1>10 DEF vars, disk, private, Contents, QueueInv, ResultInv, NothingInvented, NeverBoth,
               FreshInHand, ResultMeansHandled, HandledInHand, Resumes
<1> QED
  BY <1>1, <1>2, <1>3, <1>4, <1>5, <1>6, <1>7, <1>8, <1>9, <1>10 DEF Next, WebCalls

-----------------------------------------------------------------------------
(* The invariant holds in every state.                                     *)
THEOREM RelayInvariant == Spec => []RelayInv
<1>1. Init => RelayInv
  BY TypeInit, SafeInit DEF RelayInv
<1>2. RelayInv /\ [Next]_vars => RelayInv'
  BY TypeNext, SafeNext DEF RelayInv
<1> QED
  BY <1>1, <1>2, PTL DEF Spec

(* Every content the relay writes or holds has its shape.                  *)
THEOREM RelayTypeCorrect == Spec => []TypeOK
<1>1. RelayInv => TypeOK
  BY DEF RelayInv, TypeInv
<1> QED
  BY <1>1, RelayInvariant, PTL

(* No content has a request both pending and acknowledged, whatever races  *)
(* and crashes there are: what acknowledge_requests moves, it moves whole.  *)
THEOREM PendingOrAcked == Spec => []NeverBoth
<1>1. RelayInv => NeverBoth
  BY DEF RelayInv, QueueInv
<1> QED
  BY <1>1, RelayInvariant, PTL

(* A result is on file only for a request that somebody handled, however    *)
(* stale the content it was added to.                                       *)
THEOREM ResultsEarned == Spec => []ResultMeansHandled
<1>1. RelayInv => ResultMeansHandled
  BY DEF RelayInv, ResultInv
<1> QED
  BY <1>1, RelayInvariant, PTL

-----------------------------------------------------------------------------
(* The web server as the only writer.                                       *)

(* The steps of a rewrite lose nothing that is on file.                     *)
LEMMA StepKeeps ==
  ASSUME NEW c \in Content, NEW d \in Content, QueueStep(c, d)
  PROVE  OnFile(c) \subseteq OnFile(d)
BY DEF QueueStep, OnFile

(* A handler of the server that reads, changes and is about to save.        *)
LEMMA WebSaves ==
  ASSUME SoleWriter, TypeInv, WebInv, NEW from \in Steps \ {"truncate", "write"},
         NEW content \in Content,
         NEW to \in Continuations \ {"deliver", "result"},
         Save("web", from, content, to), UNCHANGED <<disk, item, accepted, listed>>,
         todo'["web"] \subseteq todo["web"],
         QueueStep(file, content), file.messages \subseteq content.messages,
         to \in {"tell", "accept"} => item["web"] \in OnFile(content),
         to = "accept" => <<item["web"], "tool_call">> \in content.messages
  PROVE  WebInv'
<1>1. /\ pc["web"] = from /\ pc'["web"] = "truncate" /\ after'["web"] = to
      /\ held'["web"] = content
  BY DEF Save, Goto, TypeInv, TypeOK, SoleWriter
<1>2. /\ ~ torn /\ ~ torn' /\ file' = file /\ mixed' = mixed
  BY <1>1 DEF WebInv, WriterOK, disk
<1>3. Resumes("web")' = to /\ Final' = content /\ Image = file /\ Image' = file
  BY <1>1, <1>2 DEF Resumes, Final, Image
<1>4. to \notin {"deliver", "route", "park", "result"}
  BY DEF Continuations
<1>5. WriterOK'
  BY <1>1, <1>2, <1>3, <1>4 DEF WebInv, WriterOK, QueueStep
<1>6. KeptOK'
  BY <1>1, <1>2, <1>3, <1>4 DEF WebInv, KeptOK, OnFile
<1>7. ToldOK'
  BY <1>1, <1>2, <1>3 DEF WebInv, ToldOK, AcceptedIsTold
<1> QED
  BY <1>5, <1>6, <1>7 DEF WebInv

(* One that goes on without a save.                                         *)
LEMMA WebMoves ==
  ASSUME SoleWriter, TypeInv, WebInv, pc["web"] \notin {"truncate", "write"},
         NEW to \in Steps \ {"truncate", "write", "tell", "accept", "deliver", "route", "park"},
         pc' = [pc EXCEPT !["web"] = to], UNCHANGED disk,
         accepted' \cup listed' \cup todo'["web"] \subseteq OnFile(file),
         \A r \in accepted' : <<r, "tool_call">> \in file.messages,
         to = "result" => item'["web"] \in listed'
  PROVE  WebInv'
<1>1. pc'["web"] = to
  BY DEF TypeInv, TypeOK, SoleWriter
<1>2. ~ torn /\ ~ torn' /\ file' = file /\ mixed' = mixed
  BY DEF WebInv, WriterOK, disk
<1>3. Resumes("web")' = to /\ Image' = file'
  BY <1>1, <1>2 DEF Resumes, Image
<1> QED
  BY <1>1, <1>2, <1>3 DEF WebInv, WriterOK, KeptOK, ToldOK, AcceptedIsTold, OnFile

LEMMA WebInit == ASSUME SoleWriter, Init PROVE WebInv
<1>1. ~ torn /\ mixed = {} /\ pc["web"] = "idle" /\ listed = {} /\ todo["web"] = {}
  BY DEF Init, SoleWriter
<1>2. /\ accepted \subseteq file.pending
      /\ \A r \in accepted : <<r, "tool_call">> \in file.messages
  <2>1. CASE file = Empty /\ submitted = {}
    BY <2>1 DEF Init
  <2>2. CASE \E S \in SUBSET Requests : file = Queued(S) /\ submitted = S
    <3>1. PICK S \in SUBSET Requests : file = Queued(S) /\ submitted = S
      BY <2>2
    <3>2. file.pending = S /\ file.messages = S \X {"tool_call"}
      BY <3>1 DEF Queued, Paired, Empty
    <3> QED
      BY <3>1, <3>2 DEF Init
  <2> QED
    BY <2>1, <2>2 DEF Init
<1>3. Image = file /\ Resumes("web") = "idle"
  BY <1>1 DEF Image, Resumes
<1> QED
  BY <1>1, <1>2, <1>3 DEF WebInv, WriterOK, KeptOK, ToldOK, AcceptedIsTold, OnFile

(* The steps of a handler.                                                  *)
LEMMA WebServes ==
  ASSUME SoleWriter, TypeInv, QueueInv, WebInv, Serve("web")
  PROVE  WebInv'
<1> USE DEF vars, history
<1>0. /\ file \in Content /\ Load \in Content /\ "web" \in Processes
      /\ pc \in [Processes -> Steps] /\ after \in [Processes -> Steps]
      /\ held \in [Processes -> Content] /\ item \in [Processes -> Requests \cup {None}]
      /\ todo \in [Processes -> SUBSET Requests]
  BY LoadTyped DEF TypeInv, TypeOK, SoleWriter
<1>1. ASSUME pc["web"] \notin {"truncate", "write"}
      PROVE  /\ Load = file /\ Image = file /\ Final = file
             /\ accepted \cup listed \cup todo["web"] \subseteq OnFile(file)
             /\ \A r \in accepted : <<r, "tool_call">> \in file.messages
             /\ QueueStep(file, file)
  <2>1. Load = file /\ Image = file /\ Final = file
    BY <1>1 DEF WebInv, WriterOK, Load, Image, Final
  <2> QED
    BY <2>1 DEF WebInv, KeptOK, ToldOK, AcceptedIsTold, QueueStep
<1>2. CASE Truncate("web")
  <2>1. /\ pc["web"] = "truncate" /\ pc'["web"] = "write" /\ torn' /\ ~ torn
        /\ UNCHANGED <<file, mixed, after, held, item, todo, accepted, listed>>
    BY <1>0, <1>2 DEF Truncate, Goto, WebInv, WriterOK
  <2>2. /\ Image = file /\ Image' = held["web"] /\ Final = held["web"] /\ Final' = held["web"]
        /\ Resumes("web")' = Resumes("web")
    BY <2>1 DEF Image, Final, Resumes
  <2>3. OnFile(file) \subseteq OnFile(held["web"]) /\ file.messages \subseteq held["web"].messages
    BY <1>0, <2>1, StepKeeps DEF WebInv, WriterOK
  <2>4. WriterOK'
    BY <2>1, <2>2 DEF WebInv, WriterOK
  <2>5. KeptOK'
    BY <2>1, <2>2, <2>3 DEF WebInv, KeptOK
  <2>6. ToldOK'
    BY <2>1, <2>2, <2>3 DEF WebInv, ToldOK, AcceptedIsTold
  <2> QED
    BY <2>4, <2>5, <2>6 DEF WebInv
<1>3. CASE Write("web")
  <2>1. /\ pc["web"] = "write" /\ pc'["web"] = after["web"] /\ torn /\ ~ torn' /\ mixed' = {}
        /\ file' = held["web"] /\ UNCHANGED <<todo, accepted, listed>>
        /\ after["web"] # "idle" => item' = item
    BY <1>0, <1>3 DEF Write, Goto, WebInv, WriterOK, SoleWriter
  <2>2. after["web"] \notin {"truncate", "write", "result"} /\ Resumes("web") = after["web"]
    BY <1>0, <2>1 DEF TypeInv, InHandOK, Continuations, WebInv, KeptOK, Resumes
  <2>3. /\ Image = held["web"] /\ Image' = held["web"]
        /\ Final = held["web"] /\ Final' = held["web"] /\ Resumes("web")' = Resumes("web")
    BY <2>1, <2>2 DEF Image, Final, Resumes
  <2>4. WriterOK'
    BY <2>1, <2>2, <2>3 DEF WebInv, WriterOK
  <2>5. KeptOK'
    BY <2>1, <2>2, <2>3 DEF WebInv, KeptOK
  <2>6. ToldOK'
    BY <2>1, <2>2, <2>3 DEF WebInv, ToldOK, AcceptedIsTold
  <2> QED
    BY <2>4, <2>5, <2>6 DEF WebInv
<1>4. CASE Enqueue("web")
  <2> DEFINE content == [Load EXCEPT !.pending = @ \cup {item["web"]}]
  <2>1. pc["web"] = "enqueue"
    BY <1>4 DEF Enqueue, Save, Goto
  <2>2. item["web"] \in Requests /\ item["web"] \notin file.pending \cup file.acked
    BY <1>0, <2>1 DEF TypeInv, InHandOK, Resumes, Handling, QueueInv, FreshInHand, Contents
  <2>3. content \in Content
    BY <1>0, <2>2 DEF Content
  <2>4. /\ content.pending = file.pending \cup {item["web"]} /\ content.acked = file.acked
        /\ content.results = file.results /\ content.messages = file.messages
    BY <1>0, <1>1, <2>1 DEF Content
  <2>5. Save("web", "enqueue", content, "tell") /\ UNCHANGED <<disk, item, todo, history>>
    BY <1>4 DEF Enqueue
  <2> HIDE DEF content
  <2>6. QueueStep(file, content) /\ item["web"] \in OnFile(content)
    BY <2>2, <2>4 DEF QueueStep, OnFile
  <2> QED
    BY <2>3, <2>4, <2>5, <2>6, WebSaves DEF Steps, Continuations
<1>5. CASE Tell("web")
  <2> DEFINE told == Load.messages \cup {<<item["web"], "tool_call">>}
             content == [Load EXCEPT !.session = TRUE, !.messages = told]
  <2>1. pc["web"] = "tell"
    BY <1>5 DEF Tell, Save, Goto
  <2>2. item["web"] \in Requests /\ item["web"] \in OnFile(file)
    BY <1>0, <1>1, <2>1 DEF TypeInv, InHandOK, Resumes, Handling, WebInv, KeptOK
  <2>3. told \in SUBSET (Requests \X Kinds)
    BY <1>0, <2>2 DEF Content, Kinds
  <2>4. /\ content \in Content /\ content.messages = told
        /\ content.pending = file.pending /\ content.acked = file.acked
        /\ content.results = file.results
    <3> HIDE DEF told
    <3> QED
      BY <1>0, <1>1, <2>1, <2>3 DEF Content
  <2>5. Save("web", "tell", content, "accept") /\ UNCHANGED <<disk, item, todo, history>>
    BY <1>5 DEF Tell
  <2>6. file.messages \subseteq told /\ <<item["web"], "tool_call">> \in told
    BY <1>1, <2>1
  <2> HIDE DEF content, told
  <2>7. QueueStep(file, content) /\ item["web"] \in OnFile(content)
    BY <2>2, <2>4 DEF QueueStep, OnFile
  <2> QED
    BY <2>4, <2>5, <2>6, <2>7, WebSaves DEF Steps, Continuations
<1>6. CASE Accept("web")
  <2>1. pc["web"] = "accept"
    BY <1>6 DEF Accept
  <2>2. item["web"] \in OnFile(file) /\ <<item["web"], "tool_call">> \in file.messages
    BY <1>1, <2>1 DEF WebInv, KeptOK, ToldOK, Resumes
  <2> QED
    BY <1>0, <1>1, <1>6, <2>1, <2>2, WebMoves DEF Accept, Finish, Steps
<1>7. CASE Refresh("web")
  <2>1. pc["web"] = "refresh"
    BY <1>7 DEF Refresh, Save, Goto
  <2>2. CASE Load.link
    BY <1>0, <1>1, <1>7, <2>1, <2>2, WebSaves DEF Refresh, Steps, Continuations
  <2>3. CASE ~ Load.link
    BY <1>0, <1>1, <1>7, <2>1, <2>3, WebMoves DEF Refresh, Goto, Steps
  <2> QED
    BY <2>2, <2>3
<1>8. CASE List("web")
  <2>1. pc["web"] = "list" /\ todo'["web"] = Load.pending
    BY <1>0, <1>8 DEF List, Goto
  <2>2. todo'["web"] \subseteq OnFile(file)
    BY <1>1, <2>1 DEF OnFile
  <2> QED
    BY <1>0, <1>1, <1>8, <2>1, <2>2, WebMoves DEF List, Goto, Steps
<1>9. CASE Seen("web")
  <2>1. pc["web"] = "seen"
    BY <1>9 DEF Seen, Save, Goto
  <2>2. CASE Load.session
    BY <1>0, <1>1, <1>9, <2>1, <2>2, WebSaves DEF Seen, Steps, Continuations
  <2>3. CASE ~ Load.session
    BY <1>0, <1>1, <1>9, <2>1, <2>3, WebMoves DEF Seen, Goto, Steps
  <2> QED
    BY <2>2, <2>3
<1>10. CASE ReturnListing("web")
  BY <1>0, <1>1, <1>10, WebMoves DEF ReturnListing, Finish, Steps
<1>11. CASE Ack("web")
  <2> DEFINE moved == Load.pending \cap {item["web"]}
             content == [Load EXCEPT !.pending = @ \ moved, !.acked = @ \cup moved]
  <2>1. pc["web"] = "ack" /\ item["web"] \in Requests
    BY <1>0, <1>11 DEF Ack, Save, Goto, TypeInv, InHandOK, Resumes, Handling
  <2>2. content \in Content
    BY <1>0, <2>1 DEF Content
  <2>3. /\ content.pending = file.pending \ moved /\ content.acked = file.acked \cup moved
        /\ content.results = file.results /\ content.messages = file.messages
    BY <1>0, <1>1, <2>1 DEF Content
  <2>4. Save("web", "ack", content, "idle") /\ UNCHANGED <<disk, item, todo, history>>
    BY <1>11 DEF Ack
  <2>5. moved = {} \/ (item["web"] \in file.pending /\ moved = {item["web"]})
    BY <1>1, <2>1
  <2> HIDE DEF content, moved
  <2>6. QueueStep(file, content)
    BY <2>1, <2>3, <2>5 DEF QueueStep
  <2> QED
    BY <2>2, <2>3, <2>4, <2>6, WebSaves DEF Steps, Continuations
<1>12. CASE Raise("web")
  <2>1. pc["web"] \notin {"truncate", "write"}
    BY <1>12 DEF Raise
  <2>2. todo'["web"] = {}
    BY <1>0, <1>12 DEF Raise, Finish
  <2> QED
    BY <1>0, <1>1, <1>12, <2>1, <2>2, WebMoves DEF Raise, Finish, Steps
<1>13. CASE Result("web")
  <2> DEFINE content == [Load EXCEPT !.results = @ \cup {item["web"]}]
  <2>1. pc["web"] = "result" /\ item["web"] \in Requests
    BY <1>0, <1>13 DEF Result, Save, Goto, TypeInv, InHandOK, Resumes, Handling
  <2>2. item["web"] \in OnFile(file)
    BY <1>1, <2>1 DEF WebInv, KeptOK
  <2>3. content \in Content
    BY <1>0, <2>1 DEF Content
  <2>4. /\ content.results = file.results \cup {item["web"]} /\ content.pending = file.pending
        /\ content.acked = file.acked /\ content.messages = file.messages
    BY <1>0, <1>1, <2>1 DEF Content
  <2>5. Save("web", "result", content, "tellResult") /\ UNCHANGED <<disk, item, todo, history>>
    BY <1>13 DEF Result
  <2> HIDE DEF content
  <2>6. QueueStep(file, content)
    BY <2>1, <2>2, <2>4 DEF QueueStep, OnFile
  <2> QED
    BY <2>3, <2>4, <2>5, <2>6, WebSaves DEF Steps, Continuations
<1>14. CASE TellResult("web")
  <2> DEFINE told == Load.messages \cup {<<item["web"], "tool_result">>}
             content == [Load EXCEPT !.session = TRUE, !.messages = told]
  <2>1. pc["web"] = "tellResult" /\ item["web"] \in Requests
    BY <1>0, <1>14 DEF TellResult, Save, Goto, TypeInv, InHandOK, Resumes, Handling
  <2>2. told \in SUBSET (Requests \X Kinds)
    BY <1>0, <2>1 DEF Content, Kinds
  <2>3. /\ content \in Content /\ content.messages = told
        /\ content.pending = file.pending /\ content.acked = file.acked
        /\ content.results = file.results
    <3> HIDE DEF told
    <3> QED
      BY <1>0, <1>1, <2>1, <2>2 DEF Content
  <2>4. /\ Save("web", "tellResult", content, "idle") /\ UNCHANGED <<disk, item, history>>
        /\ todo'["web"] \subseteq todo["web"]
    BY <1>0, <1>14 DEF TellResult
  <2>5. file.messages \subseteq told
    BY <1>1, <2>1
  <2> HIDE DEF content, told
  <2>6. QueueStep(file, content)
    BY <2>3 DEF QueueStep
  <2> QED
    BY <2>3, <2>4, <2>5, <2>6, WebSaves DEF Steps, Continuations
<1>15. ~ (NextRequest("web") \/ EndOfListing("web"))
  BY DEF NextRequest, EndOfListing
<1>16. ~ (Deliver("web") \/ RouteToList("web") \/ Park("web") \/ Reject("web") \/ HandOff("web"))
  <2>1. pc["web"] \notin {"deliver", "route", "park"}
    BY DEF WebInv, WriterOK, Resumes
  <2> QED
    BY <2>1 DEF Deliver, RouteToList, Park, Save, Reject, HandOff, Decide, Goto
<1> QED
  BY <1>2, <1>3, <1>4, <1>5, <1>6, <1>7, <1>8, <1>9, <1>10, <1>11, <1>12, <1>13, <1>14, <1>15,
     <1>16 DEF Serve

LEMMA WebNext ==
  ASSUME SoleWriter, TypeInv, QueueInv, WebInv, [Next]_vars
  PROVE  WebInv'
<1> USE DEF vars, history
<1>0. /\ file \in Content /\ Load \in Content /\ "web" \in Processes
      /\ pc \in [Processes -> Steps] /\ item \in [Processes -> Requests \cup {None}]
  BY LoadTyped DEF TypeInv, TypeOK, SoleWriter
<1>1. ASSUME pc["web"] = "idle"
      PROVE  /\ Load = file /\ QueueStep(file, file)
             /\ accepted \cup listed \cup todo["web"] \subseteq OnFile(file)
             /\ \A r \in accepted : <<r, "tool_call">> \in file.messages
  <2>1. Load = file /\ Image = file
    BY <1>1 DEF WebInv, WriterOK, Load, Image
  <2> QED
    BY <2>1 DEF WebInv, KeptOK, ToldOK, AcceptedIsTold, QueueStep
<1>2. CASE Serve("web")
  BY <1>2, WebServes
<1>3. CASE Beat("web")
  BY <1>0, <1>1, <1>3, WebMoves DEF Beat, Goto, Steps
<1>4. ASSUME NEW r \in Requests, Submit(r) \/ NodeAcks(r) \/ NodeAnswers(r) PROVE WebInv'
  <2>1. CASE Submit(r)
    BY <1>0, <1>1, <2>1, WebMoves DEF Submit, Goto, Steps
  <2>2. CASE NodeAcks(r)
    BY <1>0, <1>1, <2>2, WebMoves DEF NodeAcks, Goto, Steps
  <2>3. CASE NodeAnswers(r)
    BY <1>0, <1>1, <2>3, WebMoves DEF NodeAnswers, Goto, Steps
  <2> QED
    BY <1>4, <2>1, <2>2, <2>3
<1>5. CASE ReadSession
  <2> DEFINE content == [Load EXCEPT !.session = TRUE]
  <2>1. pc["web"] = "idle" /\ Save("web", "idle", content, "idle")
    BY <1>5 DEF ReadSession, Save, Goto
  <2>2. /\ content \in Content /\ content.messages = file.messages
        /\ content.pending = file.pending /\ content.acked = file.acked
        /\ content.results = file.results
    BY <1>0, <1>1, <2>1 DEF Content
  <2> HIDE DEF content
  <2>3. QueueStep(file, content)
    BY <2>2 DEF QueueStep
  <2> QED
    BY <1>5, <2>1, <2>2, <2>3, WebSaves DEF ReadSession, Steps, Continuations
<1>6. ~ Crash("web")
  BY <1>0 DEF Crash, SoleWriter, TypeInv, TypeOK
<1>7. CASE UNCHANGED vars
  BY <1>7 DEF disk, private, WebInv, WriterOK, KeptOK, ToldOK, AcceptedIsTold, Resumes, Image,
              Final, QueueStep, OnFile
<1> QED
  BY <1>2, <1>3, <1>4, <1>5, <1>6, <1>7 DEF Next, WebCalls, SoleWriter

(* With one writer the file is always parsable between two saves, and what  *)
(* was enqueued, told, acknowledged or answered is never lost.              *)
THEOREM SoleWriterInvariant == ASSUME SoleWriter PROVE Spec => []WebInv
<1>1. Init => WebInv
  BY WebInit
<1>2. RelayInv /\ WebInv /\ [Next]_vars => WebInv'
  BY WebNext DEF RelayInv
<1> QED
  BY <1>1, <1>2, RelayInvariant, PTL DEF Spec

(* A request whose sender was told "queued" (enqueue_remote_request) is     *)
(* pending or acknowledged in every file that can be read.                  *)
THEOREM AcceptedKept == ASSUME SoleWriter PROVE Spec => []AcceptedIsKept
<1>1. WebInv => AcceptedIsKept
  BY DEF WebInv, KeptOK, AcceptedIsKept, Image, OnFile
<1> QED
  BY <1>1, SoleWriterInvariant, PTL

(* It can be read back in its session (append_session_message).             *)
THEOREM AcceptedTold == ASSUME SoleWriter PROVE Spec => []AcceptedIsTold
<1>1. WebInv => AcceptedIsTold
  BY DEF WebInv, ToldOK
<1> QED
  BY <1>1, SoleWriterInvariant, PTL

-----------------------------------------------------------------------------
(* The refinement: the image of the file moves with the truncation that     *)
(* begins a save, by the step that the save makes of the queue.             *)

LEMMA QueueStepRefines ==
  ASSUME NEW c, QueueStep(Image, c), Image' = c
  PROVE  [Queue!QueueNext]_(Queue!queueVars)
BY DEF QueueStep, Queue!QueueNext, Queue!queueVars, Queue!EnqueueRequest,
       Queue!AcknowledgeRequest, Queue!AnswerRequest

LEMMA StepRefines ==
  ASSUME SoleWriter, TypeInv, WebInv, WebInv', [Next]_vars
  PROVE  [Queue!QueueNext]_(Queue!queueVars)
<1>0. /\ "web" \in Processes /\ pc \in [Processes -> Steps]
      /\ held \in [Processes -> Content] /\ after \in [Processes -> Steps]
  BY DEF TypeInv, TypeOK, SoleWriter
<1>1. CASE Truncate("web")
  <2>1. pc["web"] = "truncate" /\ ~ torn /\ torn' /\ held' = held
    BY <1>1 DEF Truncate, Goto, WebInv, WriterOK
  <2>2. Image = file /\ Image' = held["web"] /\ QueueStep(file, held["web"])
    BY <2>1 DEF Image, WebInv, WriterOK
  <2> QED
    BY <2>2, QueueStepRefines
<1>2. CASE Write("web")
  <2>1. torn /\ ~ torn' /\ file' = held["web"]
    BY <1>0, <1>2 DEF Write, Goto, WebInv, WriterOK
  <2>2. Image' = Image
    BY <2>1 DEF Image
  <2> QED
    BY <2>2 DEF Queue!queueVars
<1>3. CASE UNCHANGED disk
  <2>1. CASE torn
    <3>1. pc["web"] = "write" /\ pc'["web"] = "write"
      BY <1>3, <2>1 DEF disk, WebInv, WriterOK
    <3>2. ~ Crash("web") /\ ~ Write("web")
      BY <1>0, <1>3, <2>1 DEF Crash, Write, disk, SoleWriter, TypeInv, TypeOK, WebInv, WriterOK
    <3>3. held' = held
      BY <1>0, <3>1, <3>2
      DEF Next, Serve, Truncate, Goto, Save, Enqueue, Tell, Accept, Refresh, List, Seen,
          ReturnListing, NextRequest, EndOfListing, Ack, Deliver, RouteToList, Park, Reject,
          HandOff, Decide, Raise, Result, TellResult, Finish, Beat, WebCalls, Submit,
          NodeAcks, NodeAnswers, ReadSession, RegisterProfile, RegisterLink, vars, private, SoleWriter
    <3> QED
      BY <1>3, <2>1, <3>3 DEF disk, Image, Queue!queueVars
  <2>2. CASE ~ torn
    BY <1>3, <2>2 DEF disk, Image, Queue!queueVars
  <2> QED
    BY <2>1, <2>2
<1>4. Truncate("web") \/ Write("web") \/ UNCHANGED disk
  <2>1. ~ Crash("web")
    BY <1>0 DEF Crash, SoleWriter, TypeInv, TypeOK
  <2> QED
    BY <2>1 DEF Next, Serve, Enqueue, Tell, Accept, Refresh, List, Seen, ReturnListing,
      NextRequest, EndOfListing, Ack, Deliver, RouteToList, Park, Reject, HandOff, Decide, Raise,
      Result, TellResult, Beat, WebCalls, Submit, NodeAcks, NodeAnswers, ReadSession,
      RegisterProfile, RegisterLink, vars, SoleWriter
<1> QED
  BY <1>1, <1>2, <1>3, <1>4

LEMMA InitRefines == ASSUME SoleWriter, Init PROVE Queue!QueueInit
<1>1. Image = file
  BY DEF Init, Image
<1>2. file.pending \subseteq Requests /\ file.acked = {} /\ file.results = {}
  <2>1. CASE file = Empty
    BY <2>1 DEF Empty
  <2>2. ASSUME NEW S \in SUBSET Requests, file = Queued(S)
        PROVE  file.pending = S /\ file.acked = {} /\ file.results = {}
    BY <2>2 DEF Queued, Paired, Empty
  <2> QED
    BY <2>1, <2>2 DEF Init
<1> QED
  BY <1>1, <1>2 DEF Queue!QueueInit

(* With the web server as the only writer the file is the queue: every step *)
(* of the server, its rewrites of links and sessions included, is a step of *)
(* RelayQueue or none.                                                      *)
THEOREM RelayIsAQueue == ASSUME SoleWriter PROVE Spec => RefinesQueue
<1>1. Init => Queue!QueueInit
  BY InitRefines
<1>2. RelayInv /\ WebInv /\ WebInv' /\ [Next]_vars => [Queue!QueueNext]_(Queue!queueVars)
  BY StepRefines DEF RelayInv
<1> QED
  BY <1>1, <1>2, RelayInvariant, SoleWriterInvariant, PTL DEF Spec, RefinesQueue, Queue!QueueSpec
=============================================================================
