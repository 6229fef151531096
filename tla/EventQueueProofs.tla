-------------------------- MODULE EventQueueProofs --------------------------
(***************************************************************************)
(* Proofs about the event queue, for every set of events, every assignment *)
(* of kinds and dates, and every bound on attempts and interruptions.      *)
(***************************************************************************)
EXTENDS EventQueue, TLAPS

(* The worker holds a row that is in processing (the row of a generator    *)
(* may have been superseded); nothing runs in a process that is down.      *)
Held ==
    /\ job # NoEvent => status[job] = "processing" /\ "worker" \in running
    /\ \A k \in Generators : generating[k] # NoEvent => k \in running
    /\ running # {} => Up

(* Row ids are given in the order of insertion and never twice.            *)
RowIds ==
    /\ \A e \in Events : rowid[e] <= rows
    /\ \A e \in Events : status[e] = "absent" <=> rowid[e] = 0

(* Which event belongs to whom.                                            *)
LEMMA KindsDisjoint ==
    /\ Acks \subseteq WorkerEvents
    /\ UserEvents \subseteq WorkerEvents
    /\ Cues \subseteq WorkerEvents
    /\ Jolts \subseteq WorkerEvents
    /\ Acks \cap UserEvents = {}
    /\ Cues \cap UserEvents = {}
    /\ Jolts \cap UserEvents = {}
    /\ Refreshes \cap WorkerEvents = {}
    /\ Background \cap WorkerEvents = {}
    /\ \A k \in Generators : OfKind(k) \cap WorkerEvents = {}
    /\ WorkerEvents \subseteq Events
    /\ \A k \in Generators : k \notin {"worker", "process"}
BY EventQueueAssumption
   DEF EventQueueAssumption, Acks, UserEvents, Cues, Jolts, Refreshes, Background, WorkerEvents,
       OfKind, WorkerKinds, BackgroundKinds

LEMMA LoopNames ==
    \A l \in Loops : /\ l # "process"
                     /\ l = "worker" \/ (l \in Generators /\ l # "worker")
<1>1. \A l \in Loops : l # "process"
  BY EventQueueAssumption DEF EventQueueAssumption, Loops, BackgroundKinds
<1>2. \A l \in Loops : l = "worker" \/ l \in Generators
  BY DEF Loops
<1>3. \A k \in Generators : k # "worker"
  BY EventQueueAssumption DEF EventQueueAssumption, BackgroundKinds
<1>4. \A l \in Loops : l = "worker" \/ (l \in Generators /\ l # "worker")
  BY <1>2, <1>3, Zenon
<1> QED
  BY <1>1, <1>4, Zenon

(* What a loop claims is its own and pending.                              *)
LEMMA WorkerClaim ==
    ASSUME NEW e \in Events, ClaimNext(e)
    PROVE  e \in WorkerEvents /\ status[e] = "pending"
BY KindsDisjoint
   DEF ClaimNext, NextClaim, FirstOf, MostUrgent, Available, Pending

LEMMA JobClaim ==
    ASSUME NEW k, NEW e \in Events, ClaimJob(k, e)
    PROVE  e \in OfKind(k) /\ status[e] = "pending"
BY DEF ClaimJob, Claimable, Available, Pending

LEMMA TypeInit == QueueInit => TypeOK
BY EventQueueAssumption DEF EventQueueAssumption, QueueInit, TypeOK, Statuses, Loops

LEMMA TypeStep == TypeOK /\ [QueueNext]_queueVars => TypeOK'
<1> SUFFICES ASSUME TypeOK, [QueueNext]_queueVars PROVE TypeOK'
  OBVIOUS
<1> USE EventQueueAssumption DEF EventQueueAssumption, TypeOK, Statuses, Loops, loopVars
<1>p. \A k \in WorkerKinds \cup BackgroundKinds :
        EventPriority(k) \in Int /\ InsertedPriority(k) \in Int
  BY DEF EventPriority, InsertedPriority
<1>1. ASSUME NEW e \in Events, Enqueue(e) PROVE TypeOK'
  BY <1>1, <1>p DEF Enqueue, Insert, New
<1>2. ASSUME NEW e \in Events, EnqueueJob(e) PROVE TypeOK'
  BY <1>2, <1>p DEF EnqueueJob, Insert, New
<1>3. ASSUME NEW e \in Events, EnqueueRefresh(e) PROVE TypeOK'
  BY <1>3, <1>p DEF EnqueueRefresh, Insert, New
<1>4. ASSUME NEW e \in Events, BackoffElapses(e) PROVE TypeOK'
  BY <1>4 DEF BackoffElapses
<1>5. ASSUME NEW e \in Events, PostponeCue(e) PROVE TypeOK'
  BY <1>5 DEF PostponeCue
<1>6. ASSUME NEW e \in Events, ClaimNext(e) PROVE TypeOK'
  <2>1. e \in WorkerEvents
    BY <1>6, WorkerClaim
  <2> QED
    BY <1>6, <2>1 DEF ClaimNext, MarkProcessing
<1>7. CASE Complete
  BY <1>7 DEF Complete, Finish
<1>8. CASE Retry
  BY <1>8, KindsDisjoint DEF Retry, MayRetry, Requeue, Finish
<1>9. CASE DeadLetter
  BY <1>9 DEF DeadLetter, Finish
<1>10. CASE Coalesce
  BY <1>10 DEF Coalesce
<1>11. ASSUME NEW k \in Generators, NEW e \in Events, ClaimJob(k, e)
       PROVE TypeOK'
  <2>1. e \in OfKind(k)
    BY <1>11, JobClaim
  <2> QED
    BY <1>11, <2>1 DEF ClaimJob, MarkProcessing
<1>12. ASSUME NEW k \in Generators, CompleteJob(k) PROVE TypeOK'
  BY <1>12 DEF CompleteJob, ReleaseJob, Finish
<1>13. ASSUME NEW k \in Generators, RetryJob(k) PROVE TypeOK'
  BY <1>13 DEF RetryJob, ReleaseJob, Requeue, Finish
<1>14. ASSUME NEW k \in Generators, DeadLetterJob(k) PROVE TypeOK'
  BY <1>14 DEF DeadLetterJob, ReleaseJob, Finish
<1>15. CASE Start
  BY <1>15, <1>p DEF Start
<1>16. ASSUME NEW l \in Loops, Recover(l) PROVE TypeOK'
  BY <1>16 DEF Recover, Stranded
<1>17. CASE Crash
  BY <1>17 DEF Crash, Halt, rowVars
<1>18. CASE Shutdown
  BY <1>18 DEF Shutdown, Halt
<1>19. CASE UNCHANGED queueVars
  BY <1>19 DEF queueVars, rowVars
<1> QED
  BY <1>1, <1>2, <1>3, <1>4, <1>5, <1>6, <1>7, <1>8, <1>9, <1>10, <1>11,
     <1>12, <1>13, <1>14, <1>15, <1>16, <1>17, <1>18, <1>19
     DEF QueueNext, WorkerStep, JobStep

(* Every variable of the queue keeps its type.                             *)
THEOREM Typing == QueueSpec => []TypeOK
BY TypeInit, TypeStep, PTL DEF QueueSpec
-----------------------------------------------------------------------------
(* The life of a row: how one step can change its status, and by whom.     *)
Inserted(e) ==
    /\ status[e] = "absent" /\ status'[e] = "pending"
    /\ Enqueue(e) \/ EnqueueJob(e) \/ EnqueueRefresh(e)

Claimed(e) ==
    /\ status[e] = "pending" /\ status'[e] = "processing"
    /\ ClaimNext(e) \/ \E k \in Generators : ClaimJob(k, e)

Ended(e) ==
    /\ status[e] = "processing"
    /\ status'[e] \in {"pending"} \cup Terminal

Overtaken(e) ==
    /\ status[e] \in Active /\ status'[e] = "completed"
    /\ e \in Refreshes \cup Cues \cup Jolts

Life(e) == \/ status'[e] = status[e]
           \/ Inserted(e) \/ Claimed(e) \/ Ended(e) \/ Overtaken(e)

(* No step changes a status in another way.                                *)
LEMMA LifeStep ==
    ASSUME TypeOK, [QueueNext]_queueVars
    PROVE  \A e \in Events : Life(e)
<1> SUFFICES ASSUME NEW x \in Events PROVE Life(x)
  OBVIOUS
<1> USE DEF TypeOK, Statuses, Active, Terminal, Life
<1>1. ASSUME NEW e \in Events, Enqueue(e) PROVE Life(x)
  BY <1>1 DEF Enqueue, Insert, New, Inserted
<1>2. ASSUME NEW e \in Events, EnqueueJob(e) PROVE Life(x)
  BY <1>2 DEF EnqueueJob, Insert, New, Inserted
<1>3. ASSUME NEW e \in Events, EnqueueRefresh(e) PROVE Life(x)
  BY <1>3 DEF EnqueueRefresh, ActiveRefreshes, Insert, New, Inserted, Overtaken
<1>4. ASSUME NEW e \in Events, BackoffElapses(e) \/ PostponeCue(e) PROVE Life(x)
  BY <1>4 DEF BackoffElapses, PostponeCue
<1>5. ASSUME NEW e \in Events, ClaimNext(e) PROVE Life(x)
  <2>1. status[e] = "pending"
    BY <1>5, WorkerClaim
  <2> QED
    BY <1>5, <2>1 DEF ClaimNext, MarkProcessing, Claimed
<1>6. ASSUME Complete \/ Retry \/ DeadLetter PROVE Life(x)
  BY <1>6 DEF Complete, Retry, DeadLetter, MayRetry, Requeue, Finish, Ended
<1>7. CASE Coalesce
  BY <1>7 DEF Coalesce, Pending, Overtaken
<1>8. ASSUME NEW k \in Generators, NEW e \in Events, ClaimJob(k, e)
      PROVE  Life(x)
  <2>1. status[e] = "pending"
    BY <1>8, JobClaim
  <2> QED
    BY <1>8, <2>1 DEF ClaimJob, MarkProcessing, Claimed
<1>9. ASSUME NEW k \in Generators, CompleteJob(k) \/ RetryJob(k) \/ DeadLetterJob(k)
      PROVE  Life(x)
  BY <1>9 DEF CompleteJob, RetryJob, DeadLetterJob, ReleaseJob, Requeue, Finish, Ended
<1>10. CASE Start
  BY <1>10 DEF Start, Overtaken
<1>11. ASSUME NEW l \in Loops, Recover(l) PROVE Life(x)
  BY <1>11 DEF Recover, Stranded, Ended
<1>12. CASE Crash \/ UNCHANGED queueVars
  BY <1>12 DEF Crash, queueVars, rowVars
<1>13. CASE Shutdown
  BY <1>13 DEF Shutdown, Ended
<1> QED
  BY <1>1, <1>2, <1>3, <1>4, <1>5, <1>6, <1>7, <1>8, <1>9, <1>10, <1>11,
     <1>12, <1>13 DEF QueueNext, WorkerStep, JobStep

(* A row that is settled stays as it is, whatever a loop that still holds  *)
(* it writes: every UPDATE asks for the status it expects.                 *)
THEOREM Settlement == QueueSpec => SettledForGood
<1>1. TypeOK /\ [QueueNext]_queueVars
      => [\A e \in Events : status[e] \in Terminal => status'[e] = status[e]]_queueVars
  BY LifeStep DEF Life, Inserted, Claimed, Ended, Overtaken, Active, Terminal
<1> QED
  BY <1>1, Typing, PTL DEF QueueSpec, SettledForGood
-----------------------------------------------------------------------------
(* The inductive invariant.  SingleFlight alone is not inductive: that a   *)
(* claim finds no other row in processing follows from the loop holding    *)
(* the one there is, and that takes Held.                                  *)
IInv == TypeOK /\ Held /\ RowIds /\ SingleFlight

LEMMA InvInit == QueueInit => IInv
BY TypeInit, KindsDisjoint
   DEF QueueInit, IInv, Held, RowIds, SingleFlight, Owned, WorkerEvents, OfKind

LEMMA HeldStep ==
    ASSUME TypeOK, Held, [QueueNext]_queueVars
    PROVE  Held'
<1> USE KindsDisjoint DEF TypeOK, Statuses, Held, Up, loopVars
<1>1. ASSUME NEW e \in Events, Enqueue(e) \/ EnqueueJob(e) PROVE Held'
  BY <1>1 DEF Enqueue, EnqueueJob, Insert, New
<1>2. ASSUME NEW e \in Events, EnqueueRefresh(e) PROVE Held'
  BY <1>2 DEF EnqueueRefresh, ActiveRefreshes, Insert, New
<1>3. ASSUME NEW e \in Events, BackoffElapses(e) \/ PostponeCue(e) PROVE Held'
  BY <1>3 DEF BackoffElapses, PostponeCue
<1>4. ASSUME NEW e \in Events, ClaimNext(e) PROVE Held'
  <2>1. e \in WorkerEvents
    BY <1>4, WorkerClaim
  <2> QED
    BY <1>4, <2>1 DEF ClaimNext, MarkProcessing
<1>5. ASSUME Complete \/ Retry \/ DeadLetter PROVE Held'
  BY <1>5, EventQueueAssumption
     DEF EventQueueAssumption, Complete, Retry, DeadLetter
<1>6. CASE Coalesce
  BY <1>6 DEF Coalesce, Pending
<1>7. ASSUME NEW k \in Generators, NEW e \in Events, ClaimJob(k, e) PROVE Held'
  BY <1>7, JobClaim DEF ClaimJob, MarkProcessing, OfKind
<1>8. ASSUME NEW k \in Generators, CompleteJob(k) \/ RetryJob(k) \/ DeadLetterJob(k)
      PROVE  Held'
  BY <1>8 DEF CompleteJob, RetryJob, DeadLetterJob, ReleaseJob, Requeue, Finish
<1>9. CASE Start
  BY <1>9 DEF Start
<1>10. ASSUME NEW l \in Loops, Recover(l) PROVE Held'
  BY <1>10 DEF Recover, Stranded, Owned, Loops
<1>11. CASE Crash \/ Shutdown
  BY <1>11, EventQueueAssumption DEF EventQueueAssumption, Crash, Shutdown, Halt
<1>12. CASE UNCHANGED queueVars
  BY <1>12 DEF queueVars, rowVars
<1> QED
  BY <1>1, <1>2, <1>3, <1>4, <1>5, <1>6, <1>7, <1>8, <1>9, <1>10, <1>11,
     <1>12 DEF QueueNext, WorkerStep, JobStep

(* A step inserts at most one row, and it is the last one.                 *)
Appended(e) ==
    /\ status[e] = "absent" /\ status'[e] = "pending"
    /\ rows' = rows + 1 /\ rowid' = [rowid EXCEPT ![e] = rows + 1]
    /\ attempts' = attempts /\ interruptions' = interruptions

NotAbsent(x) == status[x] # "absent" <=> status'[x] # "absent"

LEMMA RowIdChange ==
    ASSUME TypeOK, [QueueNext]_queueVars
    PROVE  \/ UNCHANGED <<rowid, rows>> /\ \A x \in Events : NotAbsent(x)
           \/ \E e \in Events : Appended(e) /\ \A x \in Events \ {e} : NotAbsent(x)
<1> USE DEF TypeOK, Statuses, NotAbsent, Appended, Active, loopVars
<1>1. ASSUME NEW e \in Events, Enqueue(e) \/ EnqueueJob(e)
      PROVE  Appended(e) /\ \A x \in Events \ {e} : NotAbsent(x)
  BY <1>1 DEF Enqueue, EnqueueJob, Insert, New
<1>2. ASSUME NEW e \in Events, EnqueueRefresh(e)
      PROVE  Appended(e) /\ \A x \in Events \ {e} : NotAbsent(x)
  BY <1>2 DEF EnqueueRefresh, ActiveRefreshes, Insert, New
<1> DEFINE Quiet == UNCHANGED <<rowid, rows>> /\ \A x \in Events : NotAbsent(x)
<1>3. ASSUME NEW e \in Events, BackoffElapses(e) \/ PostponeCue(e) PROVE Quiet
  BY <1>3 DEF BackoffElapses, PostponeCue
<1>4. ASSUME NEW e \in Events, ClaimNext(e) PROVE Quiet
  <2>1. status[e] = "pending"
    BY <1>4, WorkerClaim
  <2> QED
    BY <1>4, <2>1 DEF ClaimNext, MarkProcessing
<1>5. ASSUME Complete \/ Retry \/ DeadLetter PROVE Quiet
  BY <1>5 DEF Complete, Retry, DeadLetter, MayRetry, Requeue, Finish
<1>6. CASE Coalesce
  BY <1>6 DEF Coalesce, Pending
<1>7. ASSUME NEW k \in Generators, NEW e \in Events, ClaimJob(k, e) PROVE Quiet
  BY <1>7, JobClaim DEF ClaimJob, MarkProcessing
<1>8. ASSUME NEW k \in Generators, CompleteJob(k) \/ RetryJob(k) \/ DeadLetterJob(k)
      PROVE  Quiet
  BY <1>8 DEF CompleteJob, RetryJob, DeadLetterJob, Requeue, Finish
<1>9. CASE Start
  BY <1>9 DEF Start
<1>10. ASSUME NEW l \in Loops, Recover(l) PROVE Quiet
  BY <1>10 DEF Recover, Stranded
<1>11. CASE Crash \/ Shutdown
  BY <1>11 DEF Crash, Shutdown, rowVars
<1>12. CASE UNCHANGED queueVars
  BY <1>12 DEF queueVars, rowVars
<1> QED
  BY <1>1, <1>2, <1>3, <1>4, <1>5, <1>6, <1>7, <1>8, <1>9, <1>10, <1>11,
     <1>12 DEF QueueNext, WorkerStep, JobStep

LEMMA RowIdsStep ==
    ASSUME TypeOK, RowIds, [QueueNext]_queueVars
    PROVE  RowIds'
<1>1. CASE UNCHANGED <<rowid, rows>> /\ \A x \in Events : NotAbsent(x)
  BY <1>1 DEF RowIds, NotAbsent
<1>2. ASSUME NEW e \in Events, Appended(e), \A x \in Events \ {e} : NotAbsent(x)
      PROVE  RowIds'
  BY <1>2 DEF TypeOK, RowIds, Appended, NotAbsent
<1> QED
  BY <1>1, <1>2, RowIdChange

LEMMA SingleFlightStep ==
    ASSUME IInv, [QueueNext]_queueVars
    PROVE  SingleFlight'
<1> USE KindsDisjoint, EventQueueAssumption
    DEF EventQueueAssumption, TypeOK, Statuses, loopVars, Holder, Owned
<1> SUFFICES ASSUME NEW l \in Loops, NEW e \in Owned(l), NEW f \in Owned(l),
                    status'[e] = "processing"
             PROVE  /\ status'[f] = "processing" => e = f
                    /\ l \in running' => e = Holder(l)'
  BY DEF SingleFlight
<1> DEFINE Goal == /\ status'[f] = "processing" => e = f
                   /\ l \in running' => e = Holder(l)'
<1>0. /\ TypeOK /\ e \in Events /\ f \in Events
      /\ status[e] = "processing" /\ status[f] = "processing" => e = f
      /\ status[e] = "processing" /\ l \in running => e = Holder(l)
      /\ status[f] = "processing" /\ l \in running => f = Holder(l)
      /\ l = "worker" \/ (l \in Generators /\ l # "worker")
      /\ l # "process"
  <2>1. TypeOK /\ SingleFlight
    BY DEF IInv
  <2>2. l # "process" /\ (l = "worker" \/ (l \in Generators /\ l # "worker"))
    BY LoopNames
  <2>3. e \in Events /\ f \in Events
    BY DEF OfKind
  <2> QED
    BY <2>1, <2>2, <2>3 DEF SingleFlight
<1>1. ASSUME NEW x \in Events, Enqueue(x) \/ EnqueueJob(x) PROVE Goal
  BY <1>0, <1>1 DEF Enqueue, EnqueueJob, Insert, New
<1>2. ASSUME NEW x \in Events, EnqueueRefresh(x) PROVE Goal
  BY <1>0, <1>2 DEF EnqueueRefresh, ActiveRefreshes, Insert, New
<1>3. ASSUME NEW x \in Events, BackoffElapses(x) \/ PostponeCue(x) PROVE Goal
  BY <1>0, <1>3 DEF BackoffElapses, PostponeCue
<1>4. ASSUME NEW x \in Events, ClaimNext(x) PROVE Goal
  <2>1. x \in WorkerEvents
    BY <1>4, WorkerClaim
  <2>2. CASE l = "worker"
    BY <1>0, <1>4, <2>2 DEF ClaimNext, MarkProcessing
  <2>3. CASE l \in Generators
    BY <1>0, <1>4, <2>1, <2>3 DEF ClaimNext, MarkProcessing
  <2> QED
    BY <1>0, <2>2, <2>3
<1>5. ASSUME Complete \/ Retry \/ DeadLetter PROVE Goal
  BY <1>0, <1>5 DEF Complete, Retry, DeadLetter, MayRetry, Requeue, Finish
<1>6. CASE Coalesce
  BY <1>0, <1>6 DEF Coalesce, Pending
<1>7. ASSUME NEW k \in Generators, NEW x \in Events, ClaimJob(k, x) PROVE Goal
  <2>1. x \in OfKind(k)
    BY <1>7, JobClaim
  <2>2. CASE l = k
    BY <1>0, <1>7, <2>2 DEF ClaimJob, MarkProcessing
  <2>3. CASE l # k
    BY <1>0, <1>7, <2>1, <2>3 DEF ClaimJob, MarkProcessing, OfKind
  <2> QED
    BY <2>2, <2>3
<1>8. ASSUME NEW k \in Generators, CompleteJob(k) \/ RetryJob(k) \/ DeadLetterJob(k)
      PROVE  Goal
  BY <1>0, <1>8 DEF CompleteJob, RetryJob, DeadLetterJob, ReleaseJob, Requeue, Finish
<1>9. CASE Start
  BY <1>0, <1>9 DEF Start
<1>10. ASSUME NEW m \in Loops, Recover(m) PROVE Goal
  BY <1>0, <1>10 DEF Recover, Stranded
<1>11. CASE Crash \/ Shutdown
  BY <1>0, <1>11 DEF Crash, Shutdown, Halt, rowVars
<1>12. CASE UNCHANGED queueVars
  BY <1>0, <1>12 DEF queueVars, rowVars
<1> QED
  BY <1>1, <1>2, <1>3, <1>4, <1>5, <1>6, <1>7, <1>8, <1>9, <1>10, <1>11,
     <1>12 DEF QueueNext, WorkerStep, JobStep

LEMMA InvStep == IInv /\ [QueueNext]_queueVars => IInv'
BY TypeStep, HeldStep, RowIdsStep, SingleFlightStep DEF IInv

LEMMA Invariance == QueueSpec => []IInv
BY InvInit, InvStep, PTL DEF QueueSpec

(* One row in processing per loop, even between a crash and the recovery,  *)
(* and none that its loop does not hold: the worker is a single worker.    *)
THEOREM OneAtATime == QueueSpec => []SingleFlight
<1>1. IInv => SingleFlight
  BY DEF IInv
<1> QED
  BY <1>1, Invariance, PTL
-----------------------------------------------------------------------------
(*                     The order of the user's messages                    *)

(* The claim of a user message: those that come before it are settled,     *)
(* because it is the head of its lane and nothing else is in processing.   *)
LEMMA HeadOfLane ==
    ASSUME IInv, NEW u \in UserEvents, NEW v \in UserEvents, ClaimNext(v),
           rowid[u] # 0, rowid[u] < rowid[v], ReceivedAt[u] <= ReceivedAt[v]
    PROVE  status[u] \in Terminal
<1> USE KindsDisjoint, EventQueueAssumption DEF EventQueueAssumption
<1>1. u \in Events /\ v \in Events /\ u # v
  BY DEF IInv, TypeOK
<1>2. TypeOK /\ RowIds /\ SingleFlight /\ "worker" \in running /\ job = NoEvent
  BY DEF IInv, ClaimNext
<1>3. v \in NextClaim
  BY DEF ClaimNext
<1>4. v \in FirstOf(Pending(UserEvents))
  <2>1. CASE Available(Acks) # {}
    BY <1>3, <2>1 DEF NextClaim, FirstOf, Available, Pending
  <2>2. CASE Available(Acks) = {} /\ Pending(UserEvents) # {}
    BY <1>3, <2>2 DEF NextClaim
  <2>3. CASE Available(Acks) = {} /\ Pending(UserEvents) = {}
    BY <1>3, <2>3 DEF NextClaim, MostUrgent, Available, Pending
  <2> QED
    BY <2>1, <2>2, <2>3
<1>5. ~Precedes(v, u)
  BY <1>1, <1>2 DEF Precedes, TypeOK
<1>6. status[u] # "pending"
  BY <1>1, <1>4, <1>5 DEF FirstOf, Pending
<1>7. status[u] # "absent"
  BY <1>1, <1>2 DEF RowIds
<1>8. status[u] # "processing"
  BY <1>1, <1>2 DEF SingleFlight, Loops, Owned, Holder
<1> QED
  BY <1>1, <1>2, <1>6, <1>7, <1>8 DEF TypeOK, Statuses, Terminal

LEMMA UserOrderStep ==
    ASSUME IInv, UserOrder, [QueueNext]_queueVars
    PROVE  UserOrder'
<1> USE KindsDisjoint
<1> DEFINE Begun(e) == status[e] \in {"processing"} \cup Terminal
<1> SUFFICES ASSUME NEW u \in UserEvents, NEW v \in UserEvents,
                    rowid'[u] # 0, rowid'[u] < rowid'[v],
                    ReceivedAt[u] <= ReceivedAt[v], Begun(v)'
             PROVE  status'[u] \in Terminal
  BY DEF UserOrder
<1>1. u \in Events /\ v \in Events /\ TypeOK /\ RowIds
  BY DEF IInv
<1>2. Life(u) /\ Life(v)
  BY <1>1, LifeStep
<1>3. rowid[u] # 0 /\ rowid[u] < rowid[v]
  <2>1. CASE UNCHANGED <<rowid, rows>>
    BY <2>1
  <2>2. ASSUME NEW e \in Events, Appended(e) PROVE rowid[u] # 0 /\ rowid[u] < rowid[v]
    <3>1. rowid[u] <= rows /\ rowid[v] <= rows /\ rowid[u] \in Nat /\ rows \in Nat
      BY <1>1 DEF RowIds, TypeOK
    <3>2. e # v
      BY <2>2, <1>1 DEF Appended, Terminal
    <3>3. e # u
      BY <2>2, <1>1, <3>1, <3>2 DEF Appended, TypeOK
    <3> QED
      BY <2>2, <1>1, <3>2, <3>3 DEF Appended, TypeOK
  <2> QED
    BY <1>1, <2>1, <2>2, RowIdChange
<1>4. Begun(v) \/ ClaimNext(v)
  BY <1>1, <1>2 DEF Life, Inserted, Claimed, Ended, Overtaken, Terminal, Active,
                    ClaimJob, Claimable, Available, Pending, OfKind
<1>5. status[u] \in Terminal
  BY <1>3, <1>4, HeadOfLane DEF UserOrder
<1> QED
  BY <1>2, <1>5 DEF Life, Inserted, Claimed, Ended, Overtaken, Terminal, Active

(* The user's messages keep their order through retries, backoffs, crashes *)
(* and recoveries, for any number of messages in any order of dates.       *)
THEOREM InOrder == QueueSpec => []UserOrder
<1>1. QueueInit => UserOrder
  BY KindsDisjoint DEF QueueInit, UserOrder
<1>2. IInv /\ UserOrder /\ [QueueNext]_queueVars => UserOrder'
  BY UserOrderStep
<1> QED
  BY <1>1, <1>2, Invariance, PTL DEF QueueSpec
-----------------------------------------------------------------------------
(*                       Refreshes and attempts                            *)

(* A refresh becomes active only by an insertion that ends all others.     *)
LEMMA OneActiveRefreshStep ==
    ASSUME TypeOK, OneActiveRefresh, [QueueNext]_queueVars
    PROVE  OneActiveRefresh'
<1> USE KindsDisjoint DEF ActiveRefreshes, Active
<1>1. ASSUME NEW e \in Events, Inserted(e), e \in Refreshes
      PROVE  OneActiveRefresh'
  <2>1. EnqueueRefresh(e)
    BY <1>1 DEF Inserted, Enqueue, EnqueueJob
  <2> QED
    BY <2>1 DEF EnqueueRefresh, OneActiveRefresh, TypeOK, Refreshes, OfKind
<1>2. ASSUME \A e \in Events : e \in Refreshes => ~Inserted(e)
      PROVE  OneActiveRefresh'
  BY <1>2, LifeStep
     DEF OneActiveRefresh, Life, Claimed, Ended, Overtaken, Terminal,
         Refreshes, OfKind
<1> QED
  BY <1>1, <1>2

(* However refreshes are asked for, claimed, displaced and recovered.      *)
THEOREM OneRefresh == QueueSpec => []OneActiveRefresh
<1>1. QueueInit => OneActiveRefresh
  BY DEF QueueInit, OneActiveRefresh, ActiveRefreshes, Active, Refreshes, OfKind
<1>2. TypeOK /\ OneActiveRefresh /\ [QueueNext]_queueVars => OneActiveRefresh'
  BY OneActiveRefreshStep
<1> QED
  BY <1>1, <1>2, Typing, PTL DEF QueueSpec

(* What is left of an event's attempts: one that waits, or that a crash    *)
(* left in processing, can be claimed once more; none is claimed before it *)
(* is inserted.                                                            *)
Budget ==
    \A e \in WorkerEvents :
        /\ attempts[e] <= MaxAttempts + interruptions
        /\ status[e] = "absent" => attempts[e] = 0
        /\ status[e] = "pending" \/ (status[e] = "processing" /\ e # job)
             => attempts[e] < MaxAttempts + interruptions

LEMMA BudgetStep ==
    ASSUME IInv, Budget, [QueueNext]_queueVars
    PROVE  Budget'
<1> USE KindsDisjoint, EventQueueAssumption
    DEF EventQueueAssumption, TypeOK, Statuses, Active, Terminal, loopVars
<1> SUFFICES ASSUME NEW e \in WorkerEvents
             PROVE  /\ attempts'[e] <= MaxAttempts + interruptions'
                    /\ status'[e] = "absent" => attempts'[e] = 0
                    /\ status'[e] = "pending" \/ (status'[e] = "processing" /\ e # job')
                         => attempts'[e] < MaxAttempts + interruptions'
  BY DEF Budget
<1> DEFINE Goal == /\ attempts'[e] <= MaxAttempts + interruptions'
                   /\ status'[e] = "absent" => attempts'[e] = 0
                   /\ status'[e] = "pending" \/ (status'[e] = "processing" /\ e # job')
                        => attempts'[e] < MaxAttempts + interruptions'
<1>0. /\ e \in Events /\ TypeOK
      /\ attempts[e] <= MaxAttempts + interruptions
      /\ status[e] = "absent" => attempts[e] = 0
      /\ status[e] = "pending" \/ (status[e] = "processing" /\ e # job)
           => attempts[e] < MaxAttempts + interruptions
  BY DEF IInv, Budget
<1>1. ASSUME NEW x \in Events, Enqueue(x) \/ EnqueueJob(x) PROVE Goal
  BY <1>0, <1>1 DEF Enqueue, EnqueueJob, Insert, New
<1>2. ASSUME NEW x \in Events, EnqueueRefresh(x) PROVE Goal
  BY <1>0, <1>2 DEF EnqueueRefresh, ActiveRefreshes, Insert, New
<1>3. ASSUME NEW x \in Events, BackoffElapses(x) \/ PostponeCue(x) PROVE Goal
  BY <1>0, <1>3 DEF BackoffElapses, PostponeCue
<1>4. ASSUME NEW x \in Events, ClaimNext(x) PROVE Goal
  <2>1. status[x] = "pending"
    BY <1>4, WorkerClaim
  <2> QED
    BY <1>0, <1>4, <2>1 DEF ClaimNext, MarkProcessing
<1>5. ASSUME Complete \/ Retry \/ DeadLetter PROVE Goal
  BY <1>0, <1>5 DEF Complete, Retry, DeadLetter, MayRetry, Requeue, Finish
<1>6. CASE Coalesce
  BY <1>0, <1>6 DEF Coalesce, Pending
<1>7. ASSUME NEW k \in Generators, NEW x \in Events, ClaimJob(k, x) PROVE Goal
  BY <1>0, <1>7, JobClaim DEF ClaimJob, MarkProcessing
<1>8. ASSUME NEW k \in Generators, CompleteJob(k) \/ RetryJob(k) \/ DeadLetterJob(k)
      PROVE  Goal
  BY <1>0, <1>8
     DEF IInv, Held, CompleteJob, RetryJob, DeadLetterJob, ReleaseJob, Requeue, Finish
<1>9. CASE Start
  BY <1>0, <1>9 DEF Start
<1>10. ASSUME NEW m \in Loops, Recover(m) PROVE Goal
  <2>1. m = "worker" => job = NoEvent
    BY <1>10 DEF IInv, Held, Recover, Stranded, Stranded
  <2>2. m # "worker" => e \notin Owned(m)
    BY LoopNames DEF Owned
  <2> QED
    BY <1>0, <1>10, <2>1, <2>2 DEF Recover, Stranded
<1>11. CASE Crash \/ Shutdown
  BY <1>0, <1>11 DEF Crash, Shutdown, Halt, rowVars
<1>12. CASE UNCHANGED queueVars
  BY <1>0, <1>12 DEF queueVars, rowVars
<1> QED
  BY <1>1, <1>2, <1>3, <1>4, <1>5, <1>6, <1>7, <1>8, <1>9, <1>10, <1>11,
     <1>12 DEF QueueNext, WorkerStep, JobStep

(* Only a crash or a shutdown lets an event be claimed more often than     *)
(* worker_max_attempts says, once each.                                    *)
THEOREM GivesUp == QueueSpec => []AttemptsBounded
<1>1. QueueInit => Budget
  <2> SUFFICES ASSUME QueueInit, NEW e \in WorkerEvents
               PROVE  /\ attempts[e] = 0 /\ interruptions = 0
                      /\ status[e] = "absent"
    BY EventQueueAssumption DEF EventQueueAssumption, Budget
  <2> QED
    BY KindsDisjoint DEF QueueInit
<1>2. IInv /\ Budget /\ [QueueNext]_queueVars => Budget'
  BY BudgetStep
<1>3. Budget => AttemptsBounded
  BY DEF Budget, AttemptsBounded
<1> QED
  BY <1>1, <1>2, <1>3, Invariance, PTL DEF QueueSpec
-----------------------------------------------------------------------------
(*                    The queue implements the inbox                       *)

Expendables == Refreshes \cup Cues \cup Jolts

(* Settling rows that are active and expendable, or one row of which no    *)
(* open message is ahead, is a step of the inbox.                          *)
LEMMA SettleStep ==
    ASSUME TypeOK, NEW S \in SUBSET Events,
           \A e \in S : status[e] \in Active,
           S \subseteq Expendables \/ \E e \in Events : S = {e},
           \A u \in Events, e \in S : status[u] \in Active => ~Inbox!Ahead(u, e),
           status' = [e \in Events |-> IF e \in S THEN status'[e] ELSE status[e]],
           \A e \in S : status'[e] \in Terminal,
           UNCHANGED <<rowid, rows>>
    PROVE  Inbox!Settle(S)
<1> USE DEF TypeOK, Statuses, Active, Terminal
<1>1. \A e \in Events : box[e] = "open" <=> status[e] \in Active
  BY DEF box
<1>2. S \subseteq Inbox!Open(Events)
  BY <1>1 DEF Inbox!Open
<1>3. \A u \in Inbox!Open(Events), e \in S : ~Inbox!Ahead(u, e)
  BY <1>1 DEF Inbox!Open
<1>4. box' = [x \in Events |-> IF x \in S THEN "settled" ELSE box[x]]
  BY DEF box
<1> QED
  BY <1>2, <1>3, <1>4 DEF Inbox!Settle, Expendables

(* A step that keeps the active rows active is not seen by the inbox.      *)
LEMMA Stutter ==
    ASSUME TypeOK, UNCHANGED <<rowid, rows>>,
           status' \in [Events -> Statuses],
           \A e \in Events : \/ status'[e] = status[e]
                             \/ status[e] \in Active /\ status'[e] \in Active
    PROVE  UNCHANGED Inbox!inboxVars
<1>1. box' = box
  BY DEF TypeOK, Statuses, Active, Terminal, box
<1> QED
  BY <1>1 DEF Inbox!inboxVars

(* An insertion is an acceptance; it may end expendable rows.              *)
LEMMA AcceptStep ==
    ASSUME TypeOK, NEW e \in Events, Appended(e),
           NEW S \in SUBSET Expendables, \A x \in S : status[x] \in Active,
           S \subseteq Events,
           status' = [x \in Events |-> CASE x = e    -> "pending"
                                       [] x \in S -> "completed"
                                       [] OTHER  -> status[x]]
    PROVE  Inbox!Accept(e, S)
<1> USE DEF TypeOK, Statuses, Active, Terminal, Appended
<1>1. box[e] = "absent"
  BY DEF box
<1>2. S \subseteq Inbox!Open(Expendables)
  BY DEF box, Inbox!Open
<1>3. box' = [x \in Events |-> CASE x = e   -> "open"
                               [] x \in S -> "settled"
                               [] OTHER   -> box[x]]
  BY DEF box
<1> QED
  BY <1>1, <1>2, <1>3 DEF Inbox!Accept, Expendables

(* No open message is ahead of the one in processing.                      *)
LEMMA NoneAhead ==
    ASSUME IInv, UserOrder, NEW u \in Events, NEW e \in Events,
           status[u] \in Active,
           e \notin UserEvents \/ status[e] = "processing"
    PROVE  ~Inbox!Ahead(u, e)
<1> SUFFICES ASSUME Inbox!Ahead(u, e) PROVE FALSE
  OBVIOUS
<1>1. u \in UserEvents /\ e \in UserEvents /\ status[e] = "processing"
  BY DEF Inbox!Ahead
<1>2. rowid[u] # 0
  BY DEF IInv, RowIds, Active
<1>3. status[u] \in Terminal
  BY <1>1, <1>2 DEF UserOrder, Inbox!Ahead
<1> QED
  BY <1>3 DEF Active, Terminal

LEMMA InboxStep ==
    ASSUME IInv, UserOrder, [QueueNext]_queueVars
    PROVE  [Inbox!InboxNext]_(Inbox!inboxVars)
<1> DEFINE Goal == Inbox!InboxNext \/ UNCHANGED Inbox!inboxVars
<1> SUFFICES Goal
  OBVIOUS
<1> USE KindsDisjoint DEF Active, Terminal, Statuses
<1>0. TypeOK /\ TypeOK' /\ Held /\ Expendables \subseteq Events
      /\ status' \in [Events -> Statuses]
  BY InvStep DEF IInv, Expendables, Refreshes, OfKind, TypeOK
<1>s. ASSUME NEW S \in SUBSET Events, Inbox!Settle(S) PROVE Goal
  <2>1. CASE S \subseteq Expendables
    <3>1. S \in SUBSET Inbox!Open(Refreshes \cup Cues \cup Jolts)
      BY <1>s, <2>1 DEF Inbox!Settle, Inbox!Open, Expendables
    <3> QED
      BY <1>s, <3>1 DEF Inbox!InboxNext
  <2>2. ASSUME NEW e \in Events, S = {e} PROVE Goal
    <3>1. e \in Inbox!Open(Events)
      BY <1>s, <2>2 DEF Inbox!Settle
    <3> QED
      BY <1>s, <2>2, <3>1 DEF Inbox!InboxNext
  <2> QED
    BY <1>s, <2>1, <2>2 DEF Inbox!Settle, Expendables
<1>a. ASSUME NEW e \in Events, NEW S \in SUBSET Expendables, Inbox!Accept(e, S)
      PROVE  Goal
  <2>1. S \in SUBSET Inbox!Open(Refreshes \cup Cues \cup Jolts)
    BY <1>a DEF Inbox!Accept, Expendables
  <2> QED
    BY <1>a, <2>1 DEF Inbox!InboxNext
<1>1. ASSUME NEW e \in Events, Enqueue(e) \/ EnqueueJob(e) PROVE Goal
  <2>1. Appended(e) /\ status' = [status EXCEPT ![e] = "pending"]
    BY <1>0, <1>1 DEF Enqueue, EnqueueJob, Insert, New, Appended, loopVars, TypeOK
  <2>2. status' = [x \in Events |-> CASE x = e   -> "pending"
                                    [] x \in {} -> "completed"
                                    [] OTHER   -> status[x]]
    BY <1>0, <2>1 DEF TypeOK
  <2> QED
    BY <1>0, <1>a, <2>1, <2>2, AcceptStep
<1>2. ASSUME NEW e \in Events, EnqueueRefresh(e) PROVE Goal
  <2>1. Appended(e)
    BY <1>0, <1>2
       DEF EnqueueRefresh, Insert, New, Appended, ActiveRefreshes, loopVars, TypeOK
  <2>2. /\ ActiveRefreshes \subseteq Expendables
        /\ ActiveRefreshes \subseteq Events
        /\ \A x \in ActiveRefreshes : status[x] \in Active
    BY <1>0 DEF ActiveRefreshes, Expendables
  <2> QED
    BY <1>0, <1>2, <1>a, <2>1, <2>2, AcceptStep DEF EnqueueRefresh
<1>3. ASSUME NEW e \in Events, BackoffElapses(e) \/ PostponeCue(e) PROVE Goal
  BY <1>0, <1>3, Stutter DEF BackoffElapses, PostponeCue
<1>4. ASSUME NEW e \in Events, ClaimNext(e) PROVE Goal
  <2>1. status[e] = "pending"
    BY <1>4, WorkerClaim
  <2> QED
    BY <1>0, <1>4, <2>1, Stutter DEF ClaimNext, MarkProcessing, TypeOK
<1>5. ASSUME Complete \/ DeadLetter PROVE Goal
  <2>1. job \in Events /\ status[job] = "processing"
    BY <1>0, <1>5 DEF Complete, DeadLetter, Held, TypeOK
  <2>2. /\ UNCHANGED <<rowid, rows>>
        /\ status' = [x \in Events |-> IF x \in {job} THEN status'[x] ELSE status[x]]
        /\ \A x \in {job} : status'[x] \in Terminal
    BY <1>0, <1>5, <2>1 DEF Complete, DeadLetter, Finish, TypeOK
  <2>3. \A u \in Events, x \in {job} : status[u] \in Active => ~Inbox!Ahead(u, x)
    BY <2>1, NoneAhead
  <2> QED
    BY <1>0, <1>s, <2>1, <2>2, <2>3, SettleStep
<1>6. CASE Retry
  BY <1>0, <1>6, Stutter DEF Retry, MayRetry, Requeue, Finish, TypeOK
<1>7. CASE Coalesce
  <2> DEFINE peers == {e \in Pending(Jolts) : ReceivedAt[e] = ReceivedAt[job]}
  <2>1. /\ UNCHANGED <<rowid, rows>>
        /\ status' = [x \in Events |-> IF x \in peers THEN status'[x] ELSE status[x]]
        /\ \A x \in peers : status'[x] \in Terminal
    BY <1>0, <1>7 DEF Coalesce, Pending, TypeOK
  <2>2. /\ peers \in SUBSET Events /\ peers \subseteq Expendables
        /\ \A x \in peers : status[x] \in Active /\ x \notin UserEvents
    BY DEF Pending, Expendables
  <2>3. \A u \in Events, x \in peers : status[u] \in Active => ~Inbox!Ahead(u, x)
    BY <2>2, NoneAhead
  <2> QED
    BY <1>0, <1>s, <2>1, <2>2, <2>3, SettleStep
<1>8. ASSUME NEW k \in Generators, NEW e \in Events, ClaimJob(k, e) PROVE Goal
  BY <1>0, <1>8, JobClaim, Stutter DEF ClaimJob, MarkProcessing, TypeOK
<1>9. ASSUME NEW k \in Generators, CompleteJob(k) \/ DeadLetterJob(k) PROVE Goal
  <2> DEFINE e == generating[k]
  <2>1. e \in OfKind(k) /\ e \in Events /\ e \notin UserEvents
    BY <1>0, <1>9 DEF CompleteJob, DeadLetterJob, ReleaseJob, TypeOK, OfKind
  <2>2. CASE status[e] = "processing"
    <3>1. /\ UNCHANGED <<rowid, rows>>
          /\ status' = [x \in Events |-> IF x \in {e} THEN status'[x] ELSE status[x]]
          /\ \A x \in {e} : status'[x] \in Terminal
      BY <1>0, <1>9, <2>1, <2>2 DEF CompleteJob, DeadLetterJob, Finish, TypeOK
    <3>2. \A u \in Events, x \in {e} : status[u] \in Active => ~Inbox!Ahead(u, x)
      BY <2>1, NoneAhead
    <3>3. Inbox!Settle({e})
      <4> HIDE DEF e
      <4> QED
        BY <1>0, <2>1, <2>2, <3>1, <3>2, SettleStep
    <3> QED
      BY <1>s, <2>1, <3>3
  <2>3. CASE status[e] # "processing"
    BY <1>0, <1>9, <2>3, Stutter DEF CompleteJob, DeadLetterJob, Finish
  <2> QED
    BY <2>2, <2>3
<1>10. ASSUME NEW k \in Generators, RetryJob(k) PROVE Goal
  BY <1>0, <1>10, Stutter DEF RetryJob, ReleaseJob, Requeue, Finish, TypeOK, Held, OfKind
<1>11. CASE Start
  <2> DEFINE stale == {e \in Cues : status[e] \in Active}
  <2>1. /\ UNCHANGED <<rowid, rows>>
        /\ status' = [x \in Events |-> IF x \in stale THEN status'[x] ELSE status[x]]
        /\ \A x \in stale : status'[x] \in Terminal
    BY <1>0, <1>11 DEF Start, TypeOK
  <2>2. /\ stale \in SUBSET Events /\ stale \subseteq Expendables
        /\ \A x \in stale : status[x] \in Active /\ x \notin UserEvents
    BY DEF Expendables
  <2>3. \A u \in Events, x \in stale : status[u] \in Active => ~Inbox!Ahead(u, x)
    BY <2>2, NoneAhead
  <2> QED
    BY <1>0, <1>s, <2>1, <2>2, <2>3, SettleStep
<1>12. ASSUME NEW l \in Loops, Recover(l) PROVE Goal
  BY <1>0, <1>12, Stutter DEF Recover, Stranded
<1>13. CASE Crash \/ Shutdown \/ UNCHANGED queueVars
  BY <1>0, <1>13, Stutter DEF Crash, Shutdown, queueVars, rowVars
<1> QED
  BY <1>1, <1>2, <1>3, <1>4, <1>5, <1>6, <1>7, <1>8, <1>9, <1>10, <1>11,
     <1>12, <1>13 DEF QueueNext, WorkerStep, JobStep

(* The queue with its lanes, retries, recoveries and crashes implements    *)
(* the inbox: what is accepted once is never forgotten, never reopened and *)
(* settled in order.                                                       *)
THEOREM Refinement == QueueSpec => ImplementsInbox
<1>1. QueueInit => Inbox!InboxInit
  BY DEF QueueInit, Inbox!InboxInit, box, Active, Terminal
<1>2. IInv /\ UserOrder /\ [QueueNext]_queueVars
      => [Inbox!InboxNext]_(Inbox!inboxVars)
  BY InboxStep
<1> QED
  BY <1>1, <1>2, Invariance, InOrder, PTL
     DEF QueueSpec, ImplementsInbox, Inbox!InboxSafety
=============================================================================
