-------------------------- MODULE MotionInvention --------------------------
(***************************************************************************)
(* Motions invented on request: the commands as the event worker answers   *)
(* them (events.py), the generator that drains the durable jobs off the    *)
(* worker (motion_invention.py), the repertoire both use (repertoire.py),  *)
(* and what of it the robot says and plays.  Texts and documents are those *)
(* of MotionSpec.                                                          *)
(*                                                                         *)
(* One room.  The queue that hands the commands to the worker is           *)
(* EventQueue: here they come in order and one is tried until it ends.     *)
(* Statements on the queue's database succeed; those on the repertoire,    *)
(* which is a file of its own, the model and the platform may fail.        *)
(***************************************************************************)
EXTENDS MotionSpec

CONSTANTS
    Asks,            (* Seq(theme \cup {"", "list"}), the commands in order *)
    Texts,           (* what the model may generate                         *)
    Alike(_, _),     (* one normalized name contains the other              *)
    Retention,       (* motion_invention_retention                          *)
    MaxAttempts,     (* worker_max_attempts                                 *)
    Times,           (* bound: what the clock may show; it may be set back  *)
    MaxMishaps       (* bound: failures, preemptions, crashes and shutdowns *)

ASSUME InventionAssumption ==
    /\ Asks \in Seq(STRING)
    /\ Retention \in Nat \ {0} /\ MaxAttempts \in Nat \ {0}
    /\ Times \subseteq Nat /\ Times # {}
    /\ MaxMishaps \in Nat

VARIABLES
    repertoire,  (* the rows of invented_motions                            *)
    lastId,      (* sqlite_sequence: the last id AUTOINCREMENT gave out     *)
    replies,     (* the reply saved of each command, and whether it was sent *)
    turn,        (* the command the worker is at                            *)
    worker,      (* what the worker holds in memory                         *)
    jobs,        (* the job of each command: [status, attempts]             *)
    due,         (* Seq of the commands whose job is pending, in order      *)
    generator,   (* what the generator holds in memory                      *)
    said,        (* the outcomes spoken aside for each command              *)
    shown,       (* what was performed: for whom, what was named, and what  *)
                 (* was played                                              *)
    excused,     (* history: commands whose outcome a fault has swallowed   *)
    mishaps

work == <<replies, turn, worker>>
queue == <<jobs, due>>
store == <<repertoire, lastId>>
robot == <<said, shown>>
inventionVars == <<store, work, queue, generator, robot, excused, mishaps>>

Commands == 1..Len(Asks)
(* Whatever may be generated for a command, or be read of it when it is     *)
(* stored, and what of it can be played.                                    *)
Invented == {Parse(text, Asks[r]) : text \in Texts, r \in Commands}
Specs == Invented \cup {Parse(ToText(spec), spec.name) : spec \in Invented}
Renderable ==
    {spec \in Specs : spec # None /\ Render(spec, RenderBudget) # Refused}
NoMotion == [id |-> 0]
NoReply == [says |-> "none", sent |-> FALSE]
Waiting == [at |-> "idle", says |-> "none", motion |-> NoMotion]
Off == [at |-> "off", job |-> 0, spec |-> None, motion |-> NoMotion]
Idle == [Off EXCEPT !.at = "idle"]

Init ==
    /\ repertoire = {} /\ lastId = 0
    /\ replies = [r \in Commands |-> NoReply]
    /\ turn = 1 /\ worker = Waiting
    /\ jobs = [r \in Commands |-> [status |-> "none", attempts |-> 0]]
    /\ due = <<>> /\ generator = Off
    /\ said = [r \in Commands |-> <<>>] /\ shown = {}
    /\ excused = {} /\ mishaps = 0

Mishap == mishaps < MaxMishaps /\ mishaps' = mishaps + 1
-----------------------------------------------------------------------------
(*                              The repertoire                              *)

(* A is recalled before B: ORDER BY created_at DESC, id DESC.               *)
Newer(a, b) == a.at > b.at \/ (a.at = b.at /\ a.id > b.id)
Newest(rows) == CHOOSE a \in rows : \A b \in rows \ {a} : Newer(a, b)
Named(name) == {row \in repertoire : row.name = name}
Close(name) ==
    LET alike == {row \in repertoire : Alike(row.name, name)}
    IN {row \in alike : \A other \in alike : Len(other.name) <= Len(row.name)}

(* By name, exactly before nearly, and then the longest name first; the     *)
(* latest where no theme was given.                                         *)
Recalled(theme) ==
    LET rows == IF theme = "" THEN repertoire
                ELSE IF Named(theme) # {} THEN Named(theme) ELSE Close(theme)
    IN IF rows = {} THEN NoMotion ELSE Newest(rows)

Known(id) == {row \in repertoire : row.id = id}

(* A plausible bug: an id is given out again once its row is gone.          *)
MutantNewId(rows) == Max({0} \cup {row.id : row \in rows}) + 1

(* AUTOINCREMENT, whatever rows there are.                                  *)
NewId(rows) == lastId + 1

(* _remember_sync: a job that stored already stores no more; a name has one *)
(* motion; the rest is pruned, the new row too where the clock went back.   *)
Remembered(job, spec, now) ==
    LET others == {row \in repertoire : row.name # spec.name}
        new == [id |-> NewId(others), name |-> spec.name, text |-> ToText(spec),
                source |-> job, at |-> now]
        all == others \cup {new}
        ahead(row) == Cardinality({other \in all : Newer(other, row)})
    IN {row \in all : ahead(row) < Retention}
Stored(job) == {row \in repertoire : row.source = job}
-----------------------------------------------------------------------------
(*                    The event worker, at one command                      *)

Working(stage) == worker.at = stage /\ UNCHANGED generator

Answering(says, motion) ==
    worker' = [at |-> "answering", says |-> says, motion |-> motion]

(* A reply that is saved is delivered as it is, and recalls nothing.        *)
Resume ==
    /\ Working("idle") /\ turn \in Commands
    /\ replies[turn] # NoReply
    /\ worker' = [Waiting EXCEPT !.at = "delivering"]
    /\ UNCHANGED <<store, queue, robot, excused, mishaps, replies, turn>>

Look ==
    /\ Working("idle") /\ turn \in Commands
    /\ replies[turn] = NoReply
    /\ LET theme == Asks[turn] IN
       IF theme = "list" THEN Answering("names", NoMotion)
       ELSE IF Recalled(theme) # NoMotion THEN Answering("again", Recalled(theme))
       ELSE worker' = [Waiting EXCEPT !.at = "enqueueing"]
    /\ UNCHANGED <<store, queue, robot, excused, mishaps, replies, turn>>

(* A repertoire that cannot be read is answered with a line.                *)
LookFails ==
    /\ Working("idle") /\ turn \in Commands
    /\ replies[turn] = NoReply
    /\ Mishap
    /\ Answering("sorry", NoMotion)
    /\ UNCHANGED <<store, queue, robot, excused, replies, turn>>

(* INSERT OR IGNORE: one job for a command, however often it is tried.      *)
Enqueue ==
    /\ Working("enqueueing")
    /\ IF jobs[turn].status = "none"
       THEN /\ jobs' = [jobs EXCEPT ![turn].status = "pending"]
            /\ due' = Append(due, turn)
       ELSE UNCHANGED queue
    /\ Answering("ack", NoMotion)
    /\ UNCHANGED <<store, robot, excused, mishaps, replies, turn>>

(* save_response_if_absent.                                                 *)
SaveReply ==
    /\ Working("answering")
    /\ replies' = [replies EXCEPT ![turn] = [says |-> worker.says, sent |-> FALSE]]
    /\ worker' = [worker EXCEPT !.at = "delivering", !.says = "none"]
    /\ UNCHANGED <<store, queue, robot, excused, mishaps, turn>>

(* _deliver_response, unless an earlier attempt has delivered.              *)
Deliver ==
    /\ Working("delivering")
    /\ replies' = [replies EXCEPT ![turn].sent = TRUE]
    /\ worker' = [worker EXCEPT !.at = "performing"]
    /\ UNCHANGED <<store, queue, robot, excused, mishaps, turn>>

DeliverFails ==
    /\ Working("delivering") /\ ~replies[turn].sent
    /\ Mishap
    /\ worker' = Waiting
    /\ UNCHANGED <<store, queue, robot, excused, replies, turn>>

(* perform_invented_motion for a command: nothing where the budget has no   *)
(* slot, the call fails, the motion is gone, or it no longer renders.       *)
Performance(command, motion) ==
    {[command |-> command, named |-> motion, played |-> row] :
        row \in {row \in Known(motion.id) : Parse(row.text, row.name) \in Renderable}}

Perform ==
    /\ Working("performing")
    /\ \/ shown' = shown \cup Performance(turn, worker.motion) /\ UNCHANGED mishaps
       \/ worker.motion # NoMotion /\ Mishap /\ UNCHANGED shown
    /\ turn' = turn + 1 /\ worker' = Waiting
    /\ UNCHANGED <<store, queue, said, excused, replies>>
-----------------------------------------------------------------------------
(*                     MotionInventionGenerator                             *)

Generating(stage) == generator.at = stage /\ UNCHANGED work
Ahead(stage) == generator' = [generator EXCEPT !.at = stage, !.spec = None]
Holds(motion) ==
    generator' = [generator EXCEPT !.at = "completing", !.spec = None, !.motion = motion]

(* The job goes back to the queue, after a delay or at once.                *)
HandBack(job, delayed) ==
    /\ jobs' = [jobs EXCEPT ![job].status = IF delayed THEN "delayed" ELSE "pending"]
    /\ due' = IF delayed THEN due ELSE Append(due, job)

(* A plausible bug: only what waits for its delay is taken up.              *)
MutantTakenUp == {r \in Commands : jobs[r].status = "delayed"}

(* The rows that recover_motion_inventions takes up again at a start.       *)
TakenUp == {r \in Commands : jobs[r].status = "processing"}

Recover ==
    /\ Generating("off")
    /\ jobs' = [r \in Commands |->
                  IF r \in TakenUp THEN [jobs[r] EXCEPT !.status = "pending"] ELSE jobs[r]]
    /\ due' = due \o SetToSeq(TakenUp)
    /\ generator' = Idle
    /\ UNCHANGED <<store, robot, excused, mishaps>>

DelayElapses(r) ==
    /\ jobs[r].status = "delayed"
    /\ HandBack(r, FALSE)
    /\ UNCHANGED <<store, work, generator, robot, excused, mishaps>>

Claim ==
    /\ Generating("idle") /\ due # <<>>
    /\ jobs' = [jobs EXCEPT ![Head(due)] =
                    [status |-> "processing", attempts |-> @.attempts + 1]]
    /\ due' = Tail(due)
    /\ generator' = [Idle EXCEPT !.at = "generating", !.job = Head(due)]
    /\ UNCHANGED <<store, robot, excused, mishaps>>

(* A job that is completed is not claimed or recovered again.               *)
(* A plausible bug: the outcome is spoken without it.                       *)
MutantCompleted(job) == jobs

(* complete_motion_invention, before the outcome and the performance.       *)
Completed(job) == [jobs EXCEPT ![job].status = "completed"]

(* _give_up: another attempt, or none where the text itself is the matter.  *)
GiveUp(hopeless) ==
    IF jobs[generator.job].attempts < MaxAttempts /\ ~hopeless
    THEN /\ HandBack(generator.job, TRUE) /\ generator' = Idle
    ELSE /\ jobs' = Completed(generator.job) /\ UNCHANGED due
         /\ Ahead("failing")

(* What the model wrote becomes a spec that renders, or the end of the job. *)
Generate(text) ==
    /\ Generating("generating")
    /\ LET spec == Parse(text, Asks[generator.job]) IN
       IF spec \in Renderable
       THEN /\ generator' = [generator EXCEPT !.at = "remembering", !.spec = spec]
            /\ UNCHANGED queue
       ELSE GiveUp(TRUE)
    /\ UNCHANGED <<store, robot, excused, mishaps>>

GenerateFails ==
    /\ Generating("generating") /\ Mishap
    /\ GiveUp(FALSE)
    /\ UNCHANGED <<store, robot, excused>>

(* A reply of the foreground takes the model away: the job is handed back   *)
(* however often that happens and is never given up for it.  The claim has  *)
(* counted an attempt all the same, which brings the last one nearer.       *)
Preempted ==
    /\ Generating("generating") /\ Mishap
    /\ HandBack(generator.job, TRUE) /\ generator' = Idle
    /\ UNCHANGED <<store, robot, excused>>

(* The motion that is named from here on is the one that is stored, which   *)
(* is not the one just generated where an earlier attempt had stored.       *)
Remember(now) ==
    /\ Generating("remembering")
    /\ LET job == generator.job
           rows == Remembered(job, generator.spec, now) IN
       IF Stored(job) # {}
       THEN /\ Holds(Newest(Stored(job)))
            /\ UNCHANGED <<store, queue>>
       ELSE /\ repertoire' = rows /\ lastId' = lastId + 1
            /\ IF \E row \in rows : row.source = job
               THEN /\ Holds(CHOOSE row \in rows : row.source = job)
                    /\ UNCHANGED queue
               ELSE GiveUp(TRUE)
    /\ UNCHANGED <<robot, excused, mishaps>>

RememberFails ==
    /\ Generating("remembering") /\ Mishap
    /\ GiveUp(FALSE)
    /\ UNCHANGED <<store, robot, excused>>

Complete ==
    /\ Generating("completing")
    /\ jobs' = Completed(generator.job)
    /\ Ahead("ready")
    /\ UNCHANGED <<store, due, robot, excused, mishaps>>

(* speak_aside: a line that is not sent is not tried again.                 *)
SpeakOutcome ==
    LET job == generator.job IN
    /\ Generating(generator.at) /\ generator.at \in {"ready", "failing"}
    /\ \/ said' = [said EXCEPT ![job] = Append(@, generator.at)]
          /\ UNCHANGED <<excused, mishaps>>
       \/ Mishap /\ excused' = excused \cup {job} /\ UNCHANGED said
    /\ generator' = IF generator.at = "ready"
                    THEN [generator EXCEPT !.at = "performing"] ELSE Idle
    /\ UNCHANGED <<store, queue, shown>>

PerformInvention ==
    /\ Generating("performing")
    /\ \/ shown' = shown \cup Performance(generator.job, generator.motion)
          /\ UNCHANGED mishaps
       \/ Mishap /\ UNCHANGED shown
    /\ generator' = Idle
    /\ UNCHANGED <<store, queue, said, excused>>
-----------------------------------------------------------------------------
(*                        Restarts                                         *)

Stops ==
    /\ Mishap
    /\ generator' = Off /\ worker' = Waiting
    /\ UNCHANGED <<store, replies, turn, robot>>

(* The command under way is begun anew; what the generator held is gone.    *)
Crash ==
    /\ Stops
    /\ excused' = IF generator.at \in {"ready", "failing"}
                  THEN excused \cup {generator.job} ELSE excused
    /\ UNCHANGED queue

(* A shutdown cancels the generation under way, and its job is handed back. *)
Shutdown ==
    /\ worker.at = "idle" /\ generator.at = "generating"
    /\ Stops
    /\ HandBack(generator.job, FALSE)
    /\ UNCHANGED excused

InventionNext ==
    \/ Resume \/ Look \/ LookFails \/ Enqueue \/ SaveReply
    \/ Deliver \/ DeliverFails \/ Perform
    \/ Recover \/ Claim
    \/ \E text \in Texts : Generate(text)
    \/ GenerateFails \/ Preempted
    \/ \E now \in Times : Remember(now)
    \/ RememberFails \/ Complete \/ SpeakOutcome \/ PerformInvention
    \/ \E r \in Commands : DelayElapses(r)
    \/ Crash \/ Shutdown

InventionSpec == Init /\ [][InventionNext]_inventionVars
-----------------------------------------------------------------------------
(*                              Properties                                  *)

(* What the robot plays is what it has just named, although the repertoire  *)
(* may change between the two: a motion that was replaced or pruned by then *)
(* is not played at all, and nothing is played in its place.                *)
PlaysWhatItNamed ==
    \A p \in shown : p.played.name = p.named.name /\ p.played.text = p.named.text

(* A job has one outcome.  However often it is tried, preempted, recovered  *)
(* or regenerated, no second one is ever spoken, and a job that is over has *)
(* had its line, but for a line that was not sent or died in a crash.       *)
OneOutcome ==
    \A r \in Commands :
        /\ Len(said[r]) <= 1
        /\ jobs[r].status = "completed" /\ generator.job # r /\ r \notin excused =>
               Len(said[r]) = 1

(* A job that was accepted is never stranded: it waits for its delay or in  *)
(* the queue, once, or the generator is at it, or is about to recover it;   *)
(* no preemption, failure, cancellation or crash loses it on the way.       *)
NoJobStranded ==
    \A r \in Commands :
        /\ jobs[r].status = "processing" => generator.job = r \/ generator.at = "off"
        /\ Cardinality({i \in 1..Len(due) : due[i] = r}) =
               (IF jobs[r].status = "pending" THEN 1 ELSE 0)
=============================================================================
