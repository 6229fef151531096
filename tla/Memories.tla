------------------------------ MODULE Memories ------------------------------
(***************************************************************************)
(* What the household's exchanges leave behind: the turns of the           *)
(* transcript, the facts it dictates (memory.py), and the events that the  *)
(* EventExtractor finds in what was said (event_extraction.py,             *)
(* event_memory.py), with the worker's steps that write, queue and forget  *)
(* them (events.py).                                                       *)
(*                                                                         *)
(* The worker goes through the messages of one room in their order; how a  *)
(* message is delivered and tried again is ReplyLoop's.  The three stores  *)
(* are three databases: one transaction is one action, and a crash may     *)
(* fall between any two.  An event is told apart by topic and day, a fact  *)
(* by its topic, which is its subject.                                     *)
(***************************************************************************)
EXTENDS Transcript

CONSTANTS
    Households,       (* what a household does, a record:                   *)
                      (*  - messages: Seq([does, topic]), said in turn;     *)
                      (*  - before: the turns it finds in the transcript;   *)
                      (*  - noted: the events it finds in the store;         *)
                      (*  - extracts: event_memory_enabled;                 *)
                      (*  - backfills: the tool is run;                     *)
                      (*  - mishaps: bound on failing writes, generations,  *)
                      (*    restarts and setbacks of the clock              *)
    RotateTurns,      (* hermes_conversation_rotate_turns                   *)
    RetentionEvents,  (* event_memory_retention                             *)
    Recalled,         (* event_memory_recalled                              *)
    MaxAttempts,      (* attempts of an extraction job                      *)
    MaxDay,           (* bound: the last day                                *)
    NoCount           (* no entry in _room_turn_counts                      *)

ASSUME MemoriesAssumption ==
    /\ \A h \in Households :
           /\ h.messages \in Seq([does : {"talk", "remember", "forget"}, topic : Topics])
           /\ Rows(h.before) /\ Rows(h.noted)
           /\ \A t \in h.before : t.id \in 1..Cardinality(h.before)
           /\ \A e \in h.noted : e.source \in Int /\ e.source < 1
    /\ RotateTurns \in Nat \ {0} /\ RetentionEvents \in Nat \ {0}
    /\ MaxAttempts \in Nat \ {0} /\ Recalled \in Nat
    /\ NoCount \notin Nat

VARIABLES
    household,   (* the one of this behaviour                               *)
    day,         (* the wall clock                                          *)
    turn,        (* the message the worker is at                            *)
    stage,       (* how far it is                                           *)
    heard,       (* message -> the day it was received                      *)
    deflected,   (* the reply being recorded is a deflection                *)
    counted,     (* _room_turn_counts of the room                           *)
    talked,      (* history: epoch -> exchanges had in that conversation    *)
    tasks,       (* ids of the turns that detached tasks are embedding      *)
    batch,       (* ids of the turns that the backfill tool is embedding    *)
    facts,       (* Seq of the rows of facts, in the order of insertion     *)
    events,      (* the rows of events: [id, source, topic, day]            *)
    jobs,        (* message -> its extraction job                           *)
    extractor,   (* what the EventExtractor has in hand                     *)
    excused,     (* history: message -> why its event need not be stored    *)
    late,        (* history: jobs unfinished when their topic was forgotten *)
    mishaps      (* so far                                                  *)

worker == <<turn, stage, heard, deflected>>
conversation == <<counted, talked>>
embedding == <<tasks, batch>>
extraction == <<jobs, extractor>>
history == <<excused, late>>
bounds == <<household, mishaps>>
memoryVars == <<transcriptVars, day, worker, conversation, embedding, facts,
                events, extraction, history, bounds>>

Messages == household.messages
All == DOMAIN Messages
NoJob == [status |-> "none", tries |-> 0, said |-> 0, delayed |-> FALSE]
Resting == [at |-> "idle", job |-> 0, found |-> 0]

MemoryInit ==
    /\ household \in Households
    /\ TranscriptHolds(household.before)
    /\ day = 1
    /\ turn = 1 /\ stage = "waiting" /\ heard = [m \in All |-> 0] /\ deflected = FALSE
    /\ counted = NoCount
    /\ talked = [e \in 0..(Cardinality(household.before) + Len(Messages)) |-> 0]
    /\ tasks = {} /\ batch = {}
    /\ facts = <<>> /\ events = household.noted
    /\ jobs = [m \in All |-> NoJob] /\ extractor = Resting
    /\ excused = [m \in All |-> "no"] /\ late = {}
    /\ mishaps = 0

Mishap == mishaps < household.mishaps /\ mishaps' = mishaps + 1 /\ UNCHANGED household
Topic(m) == Messages[m].topic
Doing(what) == turn \in All /\ Messages[turn].does = what
Done == turn' = turn + 1 /\ stage' = "waiting"
-----------------------------------------------------------------------------
(*                   An exchange (_process_message)                         *)

(* The conversation is named by its epoch; the context is read here.        *)
Compose ==
    /\ Doing("talk") /\ stage = "waiting"
    /\ LET count == IF counted = NoCount THEN Cardinality(turns) ELSE counted IN
           /\ counted' = count
           /\ talked' = [talked EXCEPT ![count \div RotateTurns] = @ + 1]
    /\ heard' = [heard EXCEPT ![turn] = IF @ = 0 THEN day ELSE @]
    /\ stage' = "composing"
    /\ UNCHANGED <<transcriptVars, day, turn, deflected, embedding, facts, events,
                   extraction, history, bounds>>

(* The reply is saved and spoken.                                           *)
Speak ==
    /\ stage = "composing"
    /\ stage' = "spoken" /\ deflected' \in BOOLEAN
    /\ UNCHANGED <<transcriptVars, day, turn, heard, conversation, embedding, facts,
                   events, extraction, history, bounds>>

(* _record_turn: the turn is stored, the cached count dropped, and the turn *)
(* embedded by a detached task.                                             *)
RecordTurn ==
    /\ stage = "spoken"
    /\ LET row == Turn(turn, day, Topic(turn), deflected) IN
           /\ Insert(row)
           /\ tasks' = tasks \cup {row.id}
    /\ counted' = NoCount
    /\ stage' = "recorded"
    /\ UNCHANGED <<day, turn, heard, deflected, talked, batch, facts, events, extraction,
                   history, bounds>>

(* The write fails, or the row does not survive: no extraction is queued.   *)
RecordFails ==
    /\ stage = "spoken"
    /\ \/ Mishap
       \/ ~Survives(Turn(turn, day, Topic(turn), deflected)) /\ UNCHANGED bounds
    /\ Done
    /\ UNCHANGED <<transcriptVars, day, heard, deflected, conversation, embedding, facts,
                   events, extraction, history>>

Queued(said) == [status |-> "pending", tries |-> 0, said |-> said, delayed |-> TRUE]

MutantQueueExtraction ==
    /\ stage = "recorded"
    /\ jobs' = IF household.extracts
               THEN [jobs EXCEPT ![turn] = Queued(day)] ELSE jobs
    /\ Done
    /\ UNCHANGED <<transcriptVars, day, heard, deflected, conversation, embedding, facts,
                   events, extractor, history, bounds>>

(* _schedule_event_extraction, dated by the reception of the message; there *)
(* is none while event memory is off.                                       *)
QueueExtraction ==
    /\ stage = "recorded"
    /\ jobs' = IF household.extracts
               THEN [jobs EXCEPT ![turn] = Queued(heard[turn])] ELSE jobs
    /\ Done
    /\ UNCHANGED <<transcriptVars, day, heard, deflected, conversation, embedding, facts,
                   events, extractor, history, bounds>>

QueueFails ==
    /\ stage = "recorded" /\ household.extracts /\ Mishap
    /\ Done
    /\ UNCHANGED <<transcriptVars, day, heard, deflected, conversation, embedding, facts,
                   events, extraction, history>>

(* After an interruption the saved reply is spoken, but nothing recorded.   *)
SpeakAgain ==
    /\ stage = "saved"
    /\ Done
    /\ UNCHANGED <<transcriptVars, day, heard, deflected, conversation, embedding, facts,
                   events, extraction, history, bounds>>

(* The detached task: the embedding service may not answer.                 *)
Embed(id) ==
    /\ id \in tasks /\ tasks' = tasks \ {id}
    /\ StoreVector(id) \/ UNCHANGED vectors
    /\ UNCHANGED <<turns, lastId, day, worker, conversation, batch, facts, events,
                   extraction, history, bounds>>

(* The tool reads which turns lack a vector, and stores one after another.  *)
ReadBatch ==
    /\ household.backfills /\ batch = {}
    /\ batch' = {t.id : t \in turns} \ vectors
    /\ batch' # {}
    /\ UNCHANGED <<transcriptVars, day, worker, conversation, tasks, facts, events,
                   extraction, history, bounds>>

Backfill(id) ==
    /\ id \in batch /\ batch' = batch \ {id}
    /\ StoreVector(id)
    /\ UNCHANGED <<turns, lastId, day, worker, conversation, tasks, facts, events,
                   extraction, history, bounds>>
-----------------------------------------------------------------------------
(*            Dictated facts (_process_memory_command, memory.py)           *)

(* Without superseding what is known of the subject.                        *)
MutantRemember ==
    /\ Doing("remember") /\ stage = "waiting"
    /\ facts' = IF \E i \in DOMAIN facts : facts[i].source = turn THEN facts
                ELSE Append(facts, [source |-> turn, topic |-> Topic(turn), active |-> TRUE])
    /\ stage' = "remembered"
    /\ UNCHANGED <<transcriptVars, day, turn, heard, deflected, conversation, embedding,
                   events, extraction, history, bounds>>

(* Once per message; the active facts of the subject are superseded.        *)
Remember ==
    /\ Doing("remember") /\ stage = "waiting"
    /\ facts' =
         IF \E i \in DOMAIN facts : facts[i].source = turn THEN facts
         ELSE Append([i \in DOMAIN facts |->
                        IF facts[i].topic = Topic(turn)
                        THEN [facts[i] EXCEPT !.active = FALSE] ELSE facts[i]],
                     [source |-> turn, topic |-> Topic(turn), active |-> TRUE])
    /\ stage' = "remembered"
    /\ UNCHANGED <<transcriptVars, day, turn, heard, deflected, conversation, embedding,
                   events, extraction, history, bounds>>

(* First the facts, which are only deactivated, ...                         *)
ForgetFacts ==
    /\ Doing("forget") /\ stage = "waiting"
    /\ facts' = [i \in DOMAIN facts |->
                   IF facts[i].topic = Topic(turn)
                   THEN [facts[i] EXCEPT !.active = FALSE] ELSE facts[i]]
    /\ stage' = "forgetting"
    /\ UNCHANGED <<transcriptVars, day, turn, heard, deflected, conversation, embedding,
                   events, extraction, history, bounds>>

Unfinished(m) ==
    \/ jobs[m].status \in {"pending", "processing"}
    \/ extractor.at = "storing" /\ extractor.job = m

(* Only what was noted of today is looked at.                               *)
MutantForgetEvents ==
    /\ stage = "forgetting"
    /\ events' = {e \in events : e.topic # Topic(turn) \/ e.day # day}
    /\ late' = late \cup {m \in All : Unfinished(m) /\ Topic(m) = Topic(turn)}
    /\ stage' = "forgotten"
    /\ UNCHANGED <<transcriptVars, day, turn, heard, deflected, conversation, embedding,
                   facts, extraction, excused, bounds>>

(* ... then the events, which are deleted.                                  *)
ForgetEvents ==
    /\ stage = "forgetting"
    /\ events' = {e \in events : e.topic # Topic(turn)}
    /\ late' = late \cup {m \in All : Unfinished(m) /\ Topic(m) = Topic(turn)}
    /\ excused' = [m \in All |-> IF Topic(m) = Topic(turn) /\ excused[m] = "no" /\ m < turn
                                 THEN "forgotten" ELSE excused[m]]
    /\ stage' = "forgotten"
    /\ UNCHANGED <<transcriptVars, day, turn, heard, deflected, conversation, embedding,
                   facts, extraction, bounds>>

(* _forget_events swallows a failure of the store: none are counted.        *)
ForgetEventsFails ==
    /\ stage = "forgetting" /\ Mishap
    /\ late' = late \cup {m \in All : Topic(m) = Topic(turn)} \cup {e.source : e \in events}
    /\ stage' = "forgotten"
    /\ UNCHANGED <<transcriptVars, day, turn, heard, deflected, conversation, embedding,
                   facts, events, extraction, excused>>

(* The confirmation is saved, and spoken.                                   *)
Confirm ==
    /\ stage \in {"remembered", "forgotten"}
    /\ Done
    /\ UNCHANGED <<transcriptVars, day, heard, deflected, conversation, embedding, facts,
                   events, extraction, history, bounds>>
-----------------------------------------------------------------------------
(*                        The EventExtractor                                *)

SetJob(m, job) == jobs' = [jobs EXCEPT ![m] = job]
Excuse(m, why) == excused' = [excused EXCEPT ![m] = why]
Elsewhere == <<transcriptVars, day, worker, conversation, embedding, facts>>

DelayElapses(m) ==
    /\ jobs[m].delayed
    /\ SetJob(m, [jobs[m] EXCEPT !.delayed = FALSE])
    /\ UNCHANGED <<Elsewhere, events, extractor, history, bounds>>

(* run() first takes back what an earlier process left.                     *)
RecoverExtractions ==
    /\ extractor.at = "off"
    /\ jobs' = [m \in All |-> IF jobs[m].status = "processing"
                              THEN [jobs[m] EXCEPT !.status = "pending", !.delayed = FALSE]
                              ELSE jobs[m]]
    /\ extractor' = Resting
    /\ UNCHANGED <<Elsewhere, events, history, bounds>>

ClaimExtraction(m) ==
    /\ extractor.at = "idle"
    /\ jobs[m].status = "pending" /\ ~jobs[m].delayed
    /\ SetJob(m, [jobs[m] EXCEPT !.status = "processing", !.tries = @ + 1])
    /\ extractor' = [at |-> "asking", job |-> m, found |-> 0]
    /\ UNCHANGED <<Elsewhere, events, history, bounds>>

PutBack(m) == SetJob(m, [jobs[m] EXCEPT !.status = "pending", !.delayed = TRUE])
Finish(m) == SetJob(m, [jobs[m] EXCEPT !.status = "completed"])

(* The foreground took the gate: another try, however many there were.      *)
Preempted ==
    /\ extractor.at = "asking" /\ Mishap
    /\ PutBack(extractor.job)
    /\ extractor' = Resting
    /\ UNCHANGED <<Elsewhere, events, history>>

(* _give_up: after the last try the exchange is dropped.                    *)
ExtractionFails ==
    LET m == extractor.job IN
    /\ extractor.at = "asking" /\ Mishap
    /\ IF jobs[m].tries < MaxAttempts
       THEN PutBack(m) /\ UNCHANGED excused
       ELSE Finish(m) /\ Excuse(m, "gave up")
    /\ extractor' = Resting
    /\ UNCHANGED <<Elsewhere, events, late>>

(* The model finds nothing, or answers in prose.                            *)
FindsNothing ==
    /\ extractor.at = "asking"
    /\ Finish(extractor.job) /\ Excuse(extractor.job, "nothing")
    /\ extractor' = Resting
    /\ UNCHANGED <<Elsewhere, events, late, bounds>>

(* It finds an event of the day of the words or of the day before them; the *)
(* job is completed before the event is stored.                             *)
FindsEvent ==
    LET m == extractor.job IN
    /\ extractor.at = "asking"
    /\ Finish(m)
    /\ \E found \in {jobs[m].said, jobs[m].said - 1} :
           extractor' = [at |-> "storing", job |-> m, found |-> found]
    /\ UNCHANGED <<Elsewhere, events, history, bounds>>

(* ORDER BY occurred_at DESC, id DESC, the order of NewestFirst.            *)
RetainedEvents(E) == {e \in E : Cardinality({f \in E : Newer(f, e)}) < RetentionEvents}

(* Same source, or same sentence of the same day: nothing new; otherwise    *)
(* the distant past makes room.                                             *)
StoreEvent ==
    LET m   == extractor.job
        row == [id |-> 1 + Max({0} \cup {e.id : e \in events}), source |-> m,
                topic |-> Topic(m), day |-> extractor.found]
        known == \E e \in events : e.source = m \/ (e.topic = row.topic /\ e.day = row.day)
        kept == RetainedEvents(events \cup {row})
    IN
    /\ extractor.at = "storing"
    /\ IF known
       THEN UNCHANGED events /\ Excuse(m, "duplicate")
       ELSE /\ events' = kept
            /\ excused' = [n \in All |-> IF \E e \in (events \cup {row}) \ kept : e.source = n
                                         THEN "retention" ELSE excused[n]]
    /\ extractor' = Resting
    /\ UNCHANGED <<Elsewhere, jobs, late, bounds>>

(* _give_up finds the job completed and changes nothing.                    *)
StoreFails ==
    /\ extractor.at = "storing" /\ Mishap
    /\ Excuse(extractor.job, "store failed")
    /\ extractor' = Resting
    /\ UNCHANGED <<Elsewhere, events, jobs, late>>

(* _recall_sync: the period first, then the words; what was seen already is *)
(* fetched on top, so that the limit is the same for both.                  *)
Recall(topic, period) ==
    LET dated == IF period = Always THEN <<>>
                 ELSE FirstOf(NewestFirst(Within(events, period)), Recalled)
        words == FirstOf(NewestFirst({e \in events : e.topic = topic}), Recalled)
        fresh == ToSet(words) \ ToSet(dated)
    IN  FirstOf(dated \o NewestFirst(fresh), Recalled)
-----------------------------------------------------------------------------
(*                     The clock, crashes, restarts                         *)

MidnightPasses ==
    /\ day < MaxDay /\ day' = day + 1
    /\ UNCHANGED <<transcriptVars, worker, conversation, embedding, facts, events,
                   extraction, history, bounds>>

SetBack ==
    /\ Mishap /\ day > 1 /\ day' = day - 1
    /\ UNCHANGED <<transcriptVars, worker, conversation, embedding, facts, events,
                   extraction, history>>

(* The worker begins its message anew; a saved reply is only delivered.     *)
Restart ==
    /\ Mishap
    /\ extractor.at # "off" /\ extractor' = [Resting EXCEPT !.at = "off"]
    /\ stage' = IF stage \in {"spoken", "recorded", "saved"} THEN "saved" ELSE "waiting"
    /\ tasks' = {} /\ counted' = NoCount
    /\ excused' = IF extractor.at = "storing"
                  THEN [excused EXCEPT ![extractor.job] = "crash"] ELSE excused
    /\ UNCHANGED <<transcriptVars, day, turn, heard, deflected, talked, batch, facts,
                   events, late>>

Crash == Restart /\ UNCHANGED jobs

(* The extractor is cancelled at the model and hands its job back.          *)
Shutdown ==
    /\ extractor.at = "asking" /\ Restart
    /\ SetJob(extractor.job, [jobs[extractor.job] EXCEPT !.status = "pending",
                                                         !.delayed = FALSE])

MemoryNext ==
    \/ Compose \/ Speak \/ RecordTurn \/ RecordFails
    \/ QueueExtraction \/ QueueFails \/ SpeakAgain
    \/ \E id \in tasks : Embed(id)
    \/ ReadBatch \/ \E id \in batch : Backfill(id)
    \/ Remember \/ ForgetFacts \/ ForgetEvents \/ ForgetEventsFails \/ Confirm
    \/ \E m \in All : DelayElapses(m) \/ ClaimExtraction(m)
    \/ RecoverExtractions \/ Preempted \/ ExtractionFails
    \/ FindsNothing \/ FindsEvent \/ StoreEvent \/ StoreFails
    \/ MidnightPasses \/ SetBack \/ Crash \/ Shutdown

MemorySpec == MemoryInit /\ [][MemoryNext]_memoryVars
-----------------------------------------------------------------------------
(*                              Properties                                  *)

(* Whatever is retried or interrupted, when a command has done its work the *)
(* active fact of every subject is what the household said last about it,   *)
(* or none.                                                                 *)
SaidLastHolds ==
    stage \in {"remembered", "forgetting", "forgotten"} =>
        \A t \in Topics :
            LET said   == {m \in 1..turn : Topic(m) = t /\ Messages[m].does # "talk"}
                active == {f \in ToSet(facts) : f.topic = t /\ f.active}
            IN  {f.source : f \in active} =
                    {m \in said : m = Max(said) /\ Messages[m].does = "remember"}

(* An event that the household had removed does not come back, unless its   *)
(* exchange was still waiting to be extracted, or the store had failed.     *)
ForgottenStaysGone ==
    \A e \in events :
        \A m \in 1..(turn - 1) : m > e.source /\
            Messages[m].does = "forget" /\ Topic(m) = e.topic => e.source \in late

(* Each event is one that was spoken, at most one to an exchange, dated by  *)
(* the day of the words however late they were extracted; and an exchange   *)
(* whose job has ended has its event, or there is a reason that it has not. *)
EventsTellTheTruth ==
    /\ \A e \in events \ household.noted :
           /\ Messages[e.source].does = "talk" /\ Topic(e.source) = e.topic
           /\ e.day \in {heard[e.source], heard[e.source] - 1}
           /\ \A f \in events : f.source = e.source => f = e
    /\ \A m \in All :
           jobs[m].status = "completed" /\ excused[m] = "no" =>
               \/ \E e \in events : e.source = m
               \/ extractor.at = "storing" /\ extractor.job = m

(* No vector outlives its turn, although its task may; and the conversation *)
(* is named by a count that agrees with the table.                          *)
TablesInStep ==
    /\ vectors \subseteq {t.id : t \in turns}
    /\ counted # NoCount => counted = Cardinality(turns)

(* The events of the period come first and are never displaced by those the *)
(* words find; none comes twice, and no slot is left empty that one of      *)
(* either kind could fill.                                                  *)
RecallSound(periods) ==
    \A topic \in Topics \cup {NoTopic}, period \in periods :
        LET s     == Recall(topic, period)
            dated == IF period = Always THEN {} ELSE Within(events, period)
            found == dated \cup {e \in events : e.topic = topic}
        IN  /\ Distinct(s)
            /\ Len(s) = Fewer(Recalled, Cardinality(found))
            /\ Cardinality(ToSet(s) \cap dated) = Fewer(Recalled, Cardinality(dated))

(* What is put before the model when a reply is composed.                   *)
Periods == {Always} \cup {{d} : d \in 1..MaxDay}
ContextSound ==
    stage = "composing" =>
        RecentIsThinned /\ RetrievalSound(Periods) /\ RecallSound(Periods)

(* hermes_conversation_rotate_turns: "rotating" starts a fresh conversation *)
(* when so many exchanges were recorded in one.                             *)
ConversationsRotate == \A e \in DOMAIN talked : talked[e] <= RotateTurns
=============================================================================
