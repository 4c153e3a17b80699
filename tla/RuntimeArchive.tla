--------------------------- MODULE RuntimeArchive ---------------------------
(* The upkeep of the database below the lanes (storage/archive.py): an      *)
(* operator's archive_and_rebuild, which copies the database, builds a small*)
(* one of what is open and puts it in the place of the first, and the       *)
(* compaction of oversized records that a reconcile and the UI call.        *)
(* Neither keeps anyone else from writing.                                  *)
EXTENDS LaneTurns

VARIABLES
    rebuild,        \* the archive run, with what it copied
    compact,        \* the message a compaction has read
    rolled,         \* history: answered messages that upkeep made open again
    dropped         \* history: messages it took away without an answer

keepVars == <<rebuild, compact, rolled, dropped>>

NoRun  == [at |-> "none", copy |-> <<>>]
Closed == {"acknowledged", "resolved"}
Replied(m) == \E p \in Pids \cup {0} : replies[m][p] > 0

(* Fault: only what is not yet delivered counts as open.                    *)
OnlyQueued(copy) == {m \in Letters : copy[m].status = "queued"}

(* _partition_communications: the small database keeps what is not closed.  *)
StillOpen(copy) == {m \in Letters : copy[m].status \notin Closed \cup {"unsent", "gone"}}

TakeSnapshot ==
    /\ rebuild.at = "none"
    /\ rebuild' = [at |-> "copied", copy |-> mail]
    /\ UNCHANGED <<laneVars, compact, rolled, dropped>>

(* _rebuild_hot_db, and the old files removed.                              *)
RemoveLive ==
    /\ rebuild.at = "copied"
    /\ rebuild' = [rebuild EXCEPT !.at = "removed"]
    /\ mail' = [m \in Letters |-> IF Kept(m) THEN [mail[m] EXCEPT !.status = "gone"]
                                  ELSE mail[m]]
    /\ UNCHANGED <<replies, made, turn, compact, rolled, dropped>>

(* The small database takes the place of the old one, and of anything that  *)
(* was written there since.                                                 *)
PutHot ==
    /\ rebuild.at = "removed"
    /\ LET hot == StillOpen(rebuild.copy)
       IN /\ mail' = [m \in Letters |->
                IF m \in hot THEN rebuild.copy[m]
                ELSE IF Kept(m) THEN [mail[m] EXCEPT !.status = "gone"] ELSE mail[m]]
          /\ rolled' = rolled \cup {m \in hot : Replied(m)}
          /\ dropped' = dropped \cup
                {m \in Letters \ hot :
                   \/ rebuild.copy[m].status = "acknowledged"
                   \/ rebuild.copy[m].status = "unsent" /\ mail[m].status # "unsent"}
    /\ rebuild' = NoRun
    /\ UNCHANGED <<replies, made, turn, compact>>

(* A run that is cut off leaves the copy and perhaps no database.           *)
CutRun ==
    /\ rebuild.at # "none"
    /\ rebuild' = NoRun
    /\ dropped' = dropped \cup {m \in Letters : mail[m].status = "gone"}
    /\ UNCHANGED <<laneVars, compact, rolled>>

(* compact_oversized_runtime_records for one message: the record is read,   *)
(* and later written back as it was, with its payload cut.                  *)
ReadOversized(m) ==
    /\ compact.of = 0 /\ Kept(m)
    /\ compact' = [of |-> m, was |-> mail[m].status]
    /\ UNCHANGED <<laneVars, rebuild, rolled, dropped>>

WriteCompacted ==
    /\ compact.of # 0
    /\ LET m == compact.of
       IN /\ mail' = IF Kept(m) THEN [mail EXCEPT ![m].status = compact.was] ELSE mail
          /\ rolled' = IF Kept(m) /\ Replied(m) /\ compact.was \notin Closed
                       THEN rolled \cup {m} ELSE rolled
    /\ compact' = [of |-> 0, was |-> "none"]
    /\ UNCHANGED <<replies, made, turn, rebuild, dropped>>

UpkeepInit ==
    /\ rebuild = NoRun /\ compact = [of |-> 0, was |-> "none"]
    /\ rolled = {} /\ dropped = {}

(* A message is closed, or archived, only after somebody answered it or the *)
(* user acknowledged it; the request that sent it and the passes of each    *)
(* process answer it at most once each, however often they list the lanes;  *)
(* and one nobody answered is still listed, whatever ended in between.      *)
(* Excepted is what an archive run or a compaction overwrote: a message     *)
(* answered meanwhile is open again, one sent meanwhile is lost             *)
(* (LaneRuntime.process_pending_turns, handle_message and _emit_reply;      *)
(* RuntimeStateArchiver.archive_and_rebuild).                               *)
MailAnswered ==
    \A m \in Letters :
        /\ m \notin rolled => \A p \in Pids \cup {0} : replies[m][p] <= 1
        /\ mail[m].status = "resolved" => Replied(m)
        /\ mail[m].status = "gone" /\ rebuild.at # "removed" /\ m \notin dropped => Replied(m)
=============================================================================
