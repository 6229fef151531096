----------------------------- MODULE EventQueue -----------------------------
(***************************************************************************)
(* The durable event queue of the bridge (table inbound_events, db.py), the *)
(* single EventWorker that drains it (events.py) and the generators that    *)
(* drain the background jobs kept in the same table.                        *)
(*                                                                         *)
(* A row is an event: its status, how often it was claimed, its priority,  *)
(* whether its available_at lies in the future, and the rowid it was given *)
(* on insertion.  Statements of one SQLite transaction are one action.     *)
(* What the worker does between the claim and the completion of an event   *)
(* is left to the modules that compose with this one.                      *)
(*                                                                         *)
(* The clock is abstracted: "waiting" holds the events whose available_at  *)
(* is still ahead, and BackoffElapses is the passage of that time.  The    *)
(* third lane orders equal priorities by available_at; here that choice is *)
(* free.                                                                   *)
(***************************************************************************)
EXTENDS Integers

CONSTANTS
    Events,            (* request ids                                       *)
    NoEvent,           (* "no event", not a request id                      *)
    Kind,              (* [Events -> Kinds], the event_type column          *)
    ReceivedAt,        (* [Events -> Nat], the received_at column: the      *)
                       (* platform's timestamp in seconds, which need not   *)
                       (* follow the order of insertion                     *)
    Persona,           (* [Events -> p], the persona_hash of a refresh job  *)
    Generators,        (* the kinds of job that a configured generator runs *)
    MaxAttempts,       (* worker_max_attempts                               *)
    JobAttemptBound,   (* bound: claims of one background job               *)
    MaxInterruptions   (* bound: crashes and cancellations                  *)

BackgroundKinds ==
    {"reaction_bank.refresh", "motion_invention.request", "event_memory.extract"}

WorkerKinds ==
    {"recording.finished", "message.received", "radar.detected",
     "accel.detected", "motion.due", "motion.finished", "emo_talk.finished",
     "recording.started", "illuminance.changed", "schedule.custom"}

ASSUME EventQueueAssumption ==
    /\ NoEvent \notin Events
    /\ Kind \in [Events -> WorkerKinds \cup BackgroundKinds]
    /\ ReceivedAt \in [Events -> Nat]
    /\ Generators \subseteq BackgroundKinds
    /\ MaxAttempts \in Nat \ {0}
    /\ JobAttemptBound \in Nat
    /\ MaxInterruptions \in Nat

VARIABLES
    status,         (* [Events -> Statuses]                                 *)
    attempts,       (* [Events -> Nat]                                      *)
    priority,       (* [Events -> Int]                                      *)
    waiting,        (* the rows whose available_at is in the future         *)
    rowid,          (* [Events -> Nat], 0 for an event never inserted       *)
    rows,           (* number of rows inserted                              *)
    running,        (* "process" if it is up, and the loops that have       *)
                    (* recovered their rows                                 *)
    job,            (* the event the worker is processing, or NoEvent       *)
    generating,     (* the job each generator works on, or NoEvent           *)
    interruptions   (* crashes and cancellations so far                     *)

rowVars == <<status, attempts, priority, waiting, rowid, rows>>
loopVars == <<running, job, generating, interruptions>>
queueVars == <<rowVars, loopVars>>

Statuses == {"absent", "pending", "processing", "completed", "dead_letter"}
Active == {"pending", "processing"}
Terminal == {"completed", "dead_letter"}
Loops == {"worker"} \cup Generators
Up == "process" \in running

OfKind(k) == {e \in Events : Kind[e] = k}
Background == {e \in Events : Kind[e] \in BackgroundKinds}
WorkerEvents == Events \ Background
Acks == OfKind("recording.finished")
UserEvents == OfKind("message.received")
Refreshes == OfKind("reaction_bank.refresh")
Cues == OfKind("motion.due")
Jolts == OfKind("accel.detected")

(* _event_priority.                                                        *)
EventPriority(k) ==
    CASE k = "recording.finished" -> 110
      [] k = "message.received"   -> 100
      [] k \in {"radar.detected", "accel.detected"} -> 50
      [] k \in {"motion.due", "motion.finished", "emo_talk.finished",
                "recording.started"} -> 40
      [] k \in {"schedule.custom"} \cup BackgroundKinds -> -100
      [] OTHER -> 0

(* The statement that inserts motion.due names no priority: the column's   *)
(* default holds until the next initialization rewrites it.                *)
InsertedPriority(k) == IF k = "motion.due" THEN 0 ELSE EventPriority(k)

QueueInit ==
    /\ status = [e \in Events |-> "absent"]
    /\ attempts = [e \in Events |-> 0]
    /\ priority = [e \in Events |-> 0]
    /\ waiting = {}
    /\ rowid = [e \in Events |-> 0]
    /\ rows = 0
    /\ running = {}
    /\ job = NoEvent
    /\ generating = [k \in Generators |-> NoEvent]
    /\ interruptions = 0
-----------------------------------------------------------------------------
(*                               Insertion                                 *)

New(e) == status[e] = "absent"

(* INSERT OR IGNORE of one row; a motion cue becomes due later.            *)
Insert(e) ==
    /\ New(e)
    /\ priority' = [priority EXCEPT ![e] = InsertedPriority(Kind[e])]
    /\ waiting' = IF e \in Cues THEN waiting \cup {e} ELSE waiting
    /\ rows' = rows + 1
    /\ rowid' = [rowid EXCEPT ![e] = rows + 1]
    /\ UNCHANGED <<attempts, loopVars>>

(* A webhook, the scheduler, or the cues of a reply being delivered.       *)
Enqueue(e) ==
    /\ Up
    /\ e \in WorkerEvents
    /\ e \in Cues => job # NoEvent
    /\ Insert(e)
    /\ status' = [status EXCEPT ![e] = "pending"]

(* Motion invention and event extraction are asked for by a message that   *)
(* the worker is processing.                                               *)
EnqueueJob(e) ==
    /\ job # NoEvent
    /\ e \in Background \ Refreshes
    /\ Insert(e)
    /\ status' = [status EXCEPT ![e] = "pending"]

ActiveRefreshes == {r \in Refreshes : status[r] \in Active}

(* A refresh is asked for at startup, before the loops run, or by a        *)
(* persona command.  It is dropped if one for the same persona is active,  *)
(* and otherwise supersedes every active one in the same transaction.      *)
EnqueueRefresh(e) ==
    /\ Up
    /\ job # NoEvent \/ running = {"process"}
    /\ e \in Refreshes
    /\ \A r \in ActiveRefreshes : Persona[r] # Persona[e]
    /\ Insert(e)
    /\ status' = [x \in Events |-> CASE x = e                 -> "pending"
                                     [] x \in ActiveRefreshes -> "completed"
                                     [] OTHER                 -> status[x]]
-----------------------------------------------------------------------------
(*                               The worker                                *)

BackoffElapses(e) ==
    /\ e \in waiting
    /\ waiting' = waiting \ {e}
    /\ UNCHANGED <<status, attempts, priority, rowid, rows, loopVars>>

Pending(S) == {e \in S : status[e] = "pending"}
Available(S) == Pending(S) \ waiting

(* ORDER BY received_at, rowid                                             *)
Precedes(u, v) == \/ ReceivedAt[u] < ReceivedAt[v]
                  \/ ReceivedAt[u] = ReceivedAt[v] /\ rowid[u] < rowid[v]

FirstOf(S) == {e \in S : \A x \in S \ {e} : Precedes(e, x)}

MostUrgent(S) == {e \in S : \A x \in S : priority[x] <= priority[e]}

MutantNextClaim ==
    IF Available(Acks) # {} THEN FirstOf(Available(Acks))
    ELSE IF Available(UserEvents) # {} THEN FirstOf(Available(UserEvents))
    ELSE MostUrgent(Available(WorkerEvents))

(* The row claim_next picks: an available acknowledgment; else the head of *)
(* the user lane, which blocks the queue while it backs off; else the most *)
(* urgent available row.                                                   *)
NextClaim ==
    IF Available(Acks) # {} THEN FirstOf(Available(Acks))
    ELSE IF Pending(UserEvents) # {} THEN FirstOf(Pending(UserEvents)) \ waiting
    ELSE MostUrgent(Available(WorkerEvents))

MarkProcessing(e) ==
    /\ status' = [status EXCEPT ![e] = "processing"]
    /\ attempts' = [attempts EXCEPT ![e] = @ + 1]
    /\ UNCHANGED <<priority, waiting, rowid, rows>>

ClaimNext(e) ==
    /\ "worker" \in running
    /\ job = NoEvent
    /\ e \in NextClaim
    /\ MarkProcessing(e)
    /\ job' = e
    /\ UNCHANGED <<running, generating, interruptions>>

(* UPDATE ... WHERE status = 'processing': what a loop writes about a row  *)
(* that was superseded meanwhile is lost.                                  *)
Finish(e, s) ==
    /\ status' = IF status[e] = "processing" THEN [status EXCEPT ![e] = s]
                                             ELSE status
    /\ UNCHANGED <<attempts, priority, rowid, rows>>

MutantRequeue(e, delayed) ==
    /\ waiting' = IF delayed THEN waiting \cup {e} ELSE waiting
    /\ UNCHANGED <<status, attempts, priority, rowid, rows>>

Requeue(e, delayed) ==
    /\ Finish(e, "pending")
    /\ waiting' = IF delayed /\ status[e] = "processing" THEN waiting \cup {e}
                                                         ELSE waiting

Complete ==
    /\ job # NoEvent
    /\ Finish(job, "completed")
    /\ job' = NoEvent
    /\ UNCHANGED <<waiting, running, generating, interruptions>>

MayRetry == attempts[job] < MaxAttempts

(* Processing raised: back off and retry, or give up.                      *)
Retry ==
    /\ job # NoEvent
    /\ MayRetry
    /\ Requeue(job, TRUE)
    /\ job' = NoEvent
    /\ UNCHANGED <<running, generating, interruptions>>

DeadLetter ==
    /\ job # NoEvent
    /\ ~MayRetry
    /\ Finish(job, "dead_letter")
    /\ job' = NoEvent
    /\ UNCHANGED <<waiting, running, generating, interruptions>>

(* Before an accelerometer event reacts it takes over the pending ones of  *)
(* the same second.                                                        *)
Coalesce ==
    LET peers == {e \in Pending(Jolts) : ReceivedAt[e] = ReceivedAt[job]} IN
    /\ job \in Jolts
    /\ peers # {}
    /\ status' = [e \in Events |-> IF e \in peers THEN "completed" ELSE status[e]]
    /\ UNCHANGED <<attempts, priority, waiting, rowid, rows, loopVars>>

(* A message's delivery anchor moves its pending cues to a later time.     *)
PostponeCue(e) ==
    /\ job # NoEvent
    /\ e \in Pending(Cues)
    /\ waiting' = waiting \cup {e}
    /\ UNCHANGED <<status, attempts, priority, rowid, rows, loopVars>>
-----------------------------------------------------------------------------
(*                            The generators                               *)

Claimable(k) == Available(OfKind(k))

ClaimJob(k, e) ==
    /\ k \in running
    /\ generating[k] = NoEvent
    /\ e \in Claimable(k)
    /\ attempts[e] < JobAttemptBound
    /\ MarkProcessing(e)
    /\ generating' = [generating EXCEPT ![k] = e]
    /\ UNCHANGED <<running, job, interruptions>>

ReleaseJob(k) ==
    /\ generating[k] # NoEvent
    /\ generating' = [generating EXCEPT ![k] = NoEvent]
    /\ UNCHANGED <<running, job, interruptions>>

(* Generated and stored; or output that is no decision; or given up.       *)
CompleteJob(k) ==
    /\ ReleaseJob(k)
    /\ Finish(generating[k], "completed")
    /\ UNCHANGED waiting

(* A failure, or a foreground call that displaced the generation.          *)
RetryJob(k) ==
    /\ ReleaseJob(k)
    /\ Requeue(generating[k], TRUE)

(* A job that cannot be decoded.                                           *)
DeadLetterJob(k) ==
    /\ ReleaseJob(k)
    /\ Finish(generating[k], "dead_letter")
    /\ UNCHANGED waiting
-----------------------------------------------------------------------------
(*                      Start, shutdown and crashes                        *)

(* Initialization rewrites every row's priority, and the cues of an        *)
(* earlier run are abandoned.                                              *)
Start ==
    /\ ~Up
    /\ running' = {"process"}
    /\ status' = [e \in Events |-> IF e \in Cues /\ status[e] \in Active
                                   THEN "completed" ELSE status[e]]
    /\ priority' = [e \in Events |-> IF status[e] = "absent" THEN 0
                                     ELSE EventPriority(Kind[e])]
    /\ UNCHANGED <<attempts, waiting, rowid, rows,
                   job, generating, interruptions>>

(* The rows a loop owns: the worker all but the jobs, a generator its own. *)
Owned(l) == IF l = "worker" THEN WorkerEvents ELSE OfKind(l)

MutantStranded(l) == {}
Stranded(l) == {e \in Owned(l) : status[e] = "processing"}

(* A loop begins by making the rows it left in processing pending again.   *)
Recover(l) ==
    /\ Up
    /\ l \notin running
    /\ running' = running \cup {l}
    /\ status' = [e \in Events |-> IF e \in Stranded(l) THEN "pending"
                                                     ELSE status[e]]
    /\ UNCHANGED <<attempts, priority, waiting, rowid, rows,
                   job, generating, interruptions>>

Halt ==
    /\ Up
    /\ interruptions < MaxInterruptions
    /\ interruptions' = interruptions + 1
    /\ running' = {}
    /\ job' = NoEvent
    /\ generating' = [k \in Generators |-> NoEvent]

Crash == Halt /\ UNCHANGED rowVars

(* A shutdown cancels the loops: each hands back the row it holds, at once *)
(* available.  One whose last write was under way may have finished its    *)
(* row first; that is Complete or CompleteJob before this step.            *)
InHand == {e \in Events : e = job \/ \E k \in Generators : generating[k] = e}

Shutdown ==
    /\ Halt
    /\ status' = [e \in Events |->
                    IF e \in InHand /\ status[e] = "processing"
                    THEN "pending" ELSE status[e]]
    /\ UNCHANGED <<attempts, priority, waiting, rowid, rows>>
-----------------------------------------------------------------------------
WorkerStep == (\E e \in Events : ClaimNext(e)) \/ Complete \/ Retry \/ DeadLetter

JobStep(k) == \/ \E e \in Events : ClaimJob(k, e)
              \/ CompleteJob(k)
              \/ RetryJob(k)
              \/ DeadLetterJob(k)

QueueNext ==
    \/ \E e \in Events : Enqueue(e) \/ EnqueueJob(e) \/ EnqueueRefresh(e)
    \/ \E e \in Events : BackoffElapses(e) \/ PostponeCue(e)
    \/ WorkerStep
    \/ Coalesce
    \/ \E k \in Generators : JobStep(k)
    \/ Start
    \/ \E l \in Loops : Recover(l)
    \/ Crash
    \/ Shutdown

QueueSpec == QueueInit /\ [][QueueNext]_queueVars
-----------------------------------------------------------------------------
(*                              Properties                                 *)

TypeOK ==
    /\ status \in [Events -> Statuses]
    /\ attempts \in [Events -> Nat]
    /\ priority \in [Events -> Int]
    /\ waiting \subseteq Events
    /\ rowid \in [Events -> Nat]
    /\ rows \in Nat
    /\ running \subseteq {"process"} \cup Loops
    /\ job \in WorkerEvents \cup {NoEvent}
    /\ generating \in [Generators -> Events \cup {NoEvent}]
    /\ \A k \in Generators : generating[k] \in OfKind(k) \cup {NoEvent}
    /\ interruptions \in Nat

(* At most one of the rows a loop owns is in processing, even between a    *)
(* crash and the recovery, and it is the one the loop holds once it runs:  *)
(* the worker is a single worker and no row is stranded in processing.     *)
Holder(l) == IF l = "worker" THEN job ELSE generating[l]

SingleFlight ==
    \A l \in Loops : \A e, f \in Owned(l) :
        /\ status[e] = "processing" /\ status[f] = "processing" => e = f
        /\ status[e] = "processing" /\ l \in running => e = Holder(l)

(* The user's messages keep their order through retries, backoffs, crashes *)
(* and recoveries: while or after a message is processed, every message    *)
(* inserted before it and dated no later has been settled (unless the      *)
(* later one went back to pending).                                        *)
UserOrder ==
    \A u, v \in UserEvents :
        /\ rowid[u] # 0
        /\ rowid[u] < rowid[v]
        /\ ReceivedAt[u] <= ReceivedAt[v]
        /\ status[v] \in {"processing"} \cup Terminal
        => status[u] \in Terminal

(* However refreshes are asked for, claimed, preempted and recovered, at   *)
(* most one is active: an older persona cannot be generated after a newer. *)
OneActiveRefresh ==
    \A r, s \in Refreshes : {status[r], status[s]} \subseteq Active => r = s

(* The worker gives an event up: only a crash or a shutdown lets it be     *)
(* claimed more than MaxAttempts times, once each.                         *)
AttemptsBounded ==
    \A e \in WorkerEvents : attempts[e] <= MaxAttempts + interruptions

(* A settled row stays as it is, whatever a loop that still holds it does. *)
SettledForGood ==
    [][\A e \in Events : status[e] \in Terminal => status'[e] = status[e]]_queueVars

(* The queue is an implementation of the inbox it promises to be.          *)
box == [e \in Events |-> CASE status[e] = "absent"   -> "absent"
                           [] status[e] \in Active   -> "open"
                           [] status[e] \in Terminal -> "settled"]

Inbox == INSTANCE DurableInbox WITH
             box <- box, place <- rowid, accepted <- rows,
             Ordered <- UserEvents, Expendable <- Refreshes \cup Cues \cup Jolts,
             Promised <- WorkerEvents, DatedAt <- ReceivedAt

ImplementsInbox == Inbox!InboxSafety

(* Every event the worker owns is settled in the end, whatever fails.      *)
EventuallySettled == Inbox!NothingForgotten
=============================================================================
