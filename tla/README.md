# The BOCCO emo ambient agent bridge in TLA+

The bridge (`src/bridge/src/bocco_bridge`, Python, asyncio, SQLite) lets a BOCCO emo robot
converse through a language model. It receives webhooks from the BOCCO platform through a
tunnel, keeps them in a durable queue, answers the user's messages, performs motions beside
the speech, reacts to sensors, and prepares reactions, motions and memories in the
background. This directory holds its formal model: what is modelled, what TLC checks of it on
small instances and what TLAPS proves of it for all. File names in this document are relative
to `src/bridge/src/bocco_bridge` unless they begin with `src/`.

- [The system](#the-system)
- [The modules](#the-modules)
- [The runs](#the-runs)
- [Fairness](#fairness)
- [The proofs](#the-proofs)
- [Where the code and its documents disagree](#where-the-code-and-its-documents-disagree)
- [What is not modelled](#what-is-not-modelled)
- [Plan](#plan)

Checking a module: `tlc -config MCEventQueue.cfg MCEventQueue`. Proving one:
`tlapm EventQueueProofs.tla`. `PROJECT.json` lists the runs, the mutation of the model each
property catches, the source lines of every definition, the hazards and the theorems.

## The system

One asyncio process. All tasks share one event loop and one SQLite file; a task may be
interrupted by another only at an `await`, and every statement of one transaction is atomic.

| component | state | operations | correct when |
|---|---|---|---|
| event queue (`db.py`) | table `inbound_events`: status, attempts, priority, available_at, received_at | enqueue, claim, complete, retry, dead-letter, recover; three lanes | nothing accepted is forgotten; the user's messages keep their order; one row per loop is in processing; a settled row stays settled |
| event worker (`events.py`, `EventWorker`) | the event in hand | claim, process, settle, back off, give up | bounded attempts, no event stranded by a crash |
| reply path (`events.py`, `db.py`) | `event_effects` (response, bocco_sent), `outbound_messages`, `outbound_stream_messages`, transcript | recognise echoes, generate or stream, checkpoint, deliver, record, remember | the robot does not answer itself; a retry says the same words; a message is never met with silence; the transcript holds what was heard |
| background generators (`reaction_generation.py`, `motion_invention.py`, `event_extraction.py`) | rows of the queue, what is in hand | claim a job, generate under the gate, publish, retry, be superseded, preempted or stopped | a job is never stranded and goes on where it stopped; a superseded one writes nothing more |
| reaction bank (`reaction_generation.py`, `db.py`) | phrases per persona and key | ask for a refresh, publish a key, complete | the persona in force has its bank or a job for it |
| transcript and recall (`transcript.py`, `embeddings.py`) | turns, vectors, the count that names the conversation | record, retain, embed, retrieve | no vector without its turn; the context holds what it should, once and within its quotas |
| facts and events (`memory.py`, `event_memory.py`, `event_extraction.py`) | facts with their successors, events | remember, forget, extract, retain, recall | the last word on a fact holds; what was forgotten stays gone; an event is one that was told |
| motion invention (`motion_invention.py`, `motion_spec.py`, `repertoire.py`) | the repertoire of named motions, jobs | ask, list, recall, invent, render, store, perform | the robot plays what it has just named, says one outcome per job, moves at a safe rate and comes home |
| model gate (`reaction_generation.py`, `HermesPriorityGate`) | `_active`, `_foreground_waiters`, `_background_call` | enter and leave in the foreground or the background, interrupt | one call at a time; the worker does not wait behind a generator; no wake-up is lost |
| motion chains and call budget (`db.py`, `events.py`) | `motion_chains`, `motion_call_budget`, `motion.due` rows, speech observations | create, start, complete, release at the end of the speech, move by an anchor, sweep, abandon | one motion in flight, none early, none left behind, the budget respected |
| delivery monitor (`delivery.py`) | its flags and the probe of the cycle | probe, repair, back off, give up | a deaf bridge does not stay so unnoticed |
| tunnel supervisor (`tunnel.py`) | the child process, its host, the registration lock, the secret | spawn, discover, register, re-register, recycle | listener and platform agree on address and secret |
| ambient reactions and schedules (`events.py`, `db.py`, `scheduler.py`) | cooldowns, reservations, recent phrases, schedules | react to a jolt, a presence, a change of light, a due schedule | one reaction per cooldown, one firing per day |
| platform client (`bocco/client.py`, `bocco/token_store.py`) | access and refresh token | send with retries, refresh the token | tokens rotate for a cause only; a refresh token is spent twice only if an answer was lost; every call ends |
| lifecycle (`app.py`) | the tasks | start and stop in an order, webhook handler | what was accepted is durable before the answer 200 |
| fast routes, skills, Hermes client, configuration, parser | see [below](#what-is-not-modelled) | | |

How they interact. A webhook (`app.py:130`) is checked against the secret, parsed, inserted
into the queue, and wakes the worker; it also tells the delivery monitor that something came
and interrupts the background call at the gate. The worker claims one row at a time; for a
message it first asks whether it is the echo of something the bridge posted, then generates a
reply through the gate and posts it, as one message or sentence by sentence. With the reply
it inserts a motion chain and its `motion.due` rows, which come back through the same queue,
as do the webhooks that report a finished motion or the end of the speech. Generators work
on jobs that are rows of the same table, beside the worker, and may speak asides and perform
motions on their own.

What is hard here. Every message the bridge posts comes back as a webhook of the same
account, so the delivery record must beat the echo or the robot converses with itself. A
crash may fall between any two transactions, and between the platform's acceptance of a POST
and its record. The transport repeats a request whose response was lost. Webhooks are late
and out of order, and carry the platform's time. Background work is preempted at any moment.
A registration may succeed without effect. The transcript, the facts, the events and the
repertoire are files of their own, so that what belongs together is written in several
transactions, some of them repeated by a retry.

The documents recommend to leave `agent_user_uuid` unset where the robot's posts and the
user's share an account (`src/docs/bridge-runtime.md`); with it set, echoes would be filtered
by their author before they reach the queue. The model is of the recommended setting.

## The modules

| module | models | composed from |
|---|---|---|
| `DurableInbox` | what the queue promises, in terms of accepted and settled events | |
| `EventQueue` | the queue, the worker's loop and the generators' loops | implements `DurableInbox` |
| `EventQueueProofs` | theorems about `EventQueue` | |
| `ReplyLoop`, `ReplyLoopProofs` | the reply to a message: echoes, generation, streaming, delivery, transcript, asides; theorems | extends `EventQueue` |
| `AmbientReactions`, `AmbientProofs` | the reactions to jolts, presences, changes of light and due schedules: peers, cooldowns, saved words; theorems | extends `EventQueue` |
| `ModelGate` | the gate to the model server | |
| `MotionChain`, `MotionChainProofs` | the choreography of a reply and the call budget, theorems | |
| `Tunnel` | the supervisor, the registration under its lock, the secret | |
| `DeliveryMonitor` | the monitor, the tunnel and the platform together | extends `Tunnel` |
| `PlatformClient` | calls to the platform: connection pool, retries, token refresh, token file | |
| `PlatformProofs` | theorems about the tunnel, its monitor and the client | |
| `ReactionBank` | persona commands, refresh jobs, their generator, the phrases | |
| `BackgroundProofs` | theorems about the gate and the bank | |
| `Transcript` | the turns of a room: retention, vectors, retrieval, the context of a prompt | |
| `Memories`, `MemoriesProofs` | the worker's and the extractor's steps on turns, facts and events; theorems | extends `Transcript` |
| `MotionSpec` | the words of a choreography, its parser and renderer, the checks of a document | |
| `Choreography` | a design as it is invented, kept as a text, and rendered again | extends `MotionSpec` |
| `MotionInvention` | commands, jobs, the repertoire and the performances | extends `MotionSpec` |
| `MotionInventionProofs` | theorems about both | extends `MotionInvention`, `Choreography` |
| `MCEventQueue`, `MCReplyLoop`, `MCAmbientReactions`, `MCMotionChain`, `MCReactionBank`, `MCMemories`, `MCMotionInvention` | the small instances | |

### EventQueue

A row is a function value per event: `status`, `attempts`, `priority`, `rowid`; `waiting` is
the set of rows whose `available_at` lies ahead, and `BackoffElapses` the passage of that
time. `running` holds `"process"` while the process is up and each loop that has recovered
its rows; `job` and `generating` are what the loops have in hand. One transaction is one
action:

| action | code |
|---|---|
| `Enqueue`, `EnqueueJob`, `EnqueueRefresh` | `db.py` enqueue_event, the INSERTs of jobs; a refresh supersedes the active ones |
| `ClaimNext` (`NextClaim`) | claim_next: an available acknowledgment, else the head of the user lane, which blocks while it backs off, else the most urgent row |
| `Complete`, `Retry`, `DeadLetter` | the three ends of `EventWorker.process_once` |
| `Coalesce`, `PostponeCue` | statements inside the processing of an event that change other rows |
| `ClaimJob`, `CompleteJob`, `RetryJob`, `DeadLetterJob` | the loops of the generators |
| `Start`, `Recover`, `Crash`, `Shutdown` | initialization, recover_processing, kill, cancellation |

`InsertedPriority` keeps a detail of the code: the INSERT of `motion.due` names no priority,
so a cue has the column's default 0 until the next start rewrites it to 40.

### ReplyLoop

`EventQueue` plus the worker's program counter. Speech is abstracted to pieces `<<g, i>>`,
sentence i of generation g, so that "the same words" and "words of two replies" are visible
and nothing else is. `posts` is what the room heard; `EchoOf` names the event that each
post's echo will be. `Post` is the client's call: it may be accepted nought, one or two times
and answered or not, each acceptance without an answer being a fault. `MatchesId` and
`MatchesText` are the two ways of `consume_outbound_echo`. The second looks at the words only,
whoever said them: a human who says what the robot has just said, where posts have no ids, is
completed without an answer, uses up the record, and leaves the echo to be answered in their
place. `Misheard` are these humans, `Spent` the records used up; `NeverSilent` and
`EchoAnsweredOnlyIfLost` say that the harm is no greater than that: one record for each, and,
while nothing else is lost, one echo.

A message has a `Form`: one without a room, or that is neither speech nor a recording, is
completed without an answer (`Receive`, `Reply`); a recording of which nothing was understood gets
a fixed line (`NotHeard`); an answer that broke off before its first sentence
(`HermesIncompleteError`) is apologised for in any attempt (`Generate`), other failures in the last.
`LoseMemory` is what a crash or a
shutdown does to the worker: the durable variables stay. `setup` is chosen once: whether
replies are streamed, whether the platform gives ids, which asides are spoken, which humans
speak, what and in which form, and how many posts and lost responses there are. Humans speak
in pieces too: words of their own, or a piece the robot may say.

Left out are the age limit of delivery records and their retention: no echo is later than the
window. A sentence whose POST failed hands its number on to the next one, so the
pieces of a stream are numbered by what was answered.

### AmbientReactions

`EventQueue` plus the worker's program counter for events without a message. Time is relative:
`left` is what remains of each cooldown, `since` and the ages in the histories `reactions`
(reservations made) and `heard` (announcements spoken) are counted up to `Horizon`, and `Tick`
lets a unit pass between any two steps. Words are abstracted to the key they were chosen for.

| action | code |
|---|---|
| `TakePeers` | coalesce_same_second_accel: completes the pending jolts of the same second and writes the most dramatic kind into the row, in one transaction |
| `ReserveReaction`, `SaveReaction` | reserve_accel_reaction and save_response_if_absent: two transactions, an interruption may fall between them |
| `Announce` | the beginning of `_process_radar`, `_process_illuminance`, `_process_schedule`: ignored, saved words, cooldown, generation and its failure |
| `Deliver`, `RecordDelivery` | the POST, which may be accepted although it fails, and its record |
| `Conclude` | set_cooldown after the delivery of an announcement |

### ModelGate

The condition's lock is not held across an `await`, so a critical section is one action. A
waiting caller is asleep or woken; a woken one evaluates its predicate again at a time of the
loop's choice. A turn whose stream the worker closed is `"abandoned"`: it holds the gate
until the inner generator is finalized. A cancelled backend call is `"cancelling"` until it
has ended. `StopGenerator` is one generator's stop(), which interrupts whoever is calling;
`CancelTasks` the shutdown that cancels all.

### MotionChain

Every time is relative to the present and `Tick` moves all of them into the past, so the
state space is finite without a bound on time. A webhook carries the platform's timestamp
`at`, which is at most `MaxLag` before the moment it is handled: late and reordered webhooks
are that. `ClaimMotion` is `_reserve_and_claim_motion`, the one place where a motion of a chain
is released; it is reached from a due row, a report, the end of the speech and a document.
The robot plays presets and reports their kind only (`Awaits`); a custom document is never
reported and counts as finished when its POST returns. `AnswerJolt` calls the robot without
booking a slot, as the code does. The budget is the set of its rows `<<time, number>>`, the
number telling calls of one unit apart: `booked` what the table holds, `calls` the history of
what was sent. Thinking motions take and spend the budget as acknowledgments do. Which motions a reply gets and how offsets are computed is data.

### Tunnel and DeliveryMonitor

Each start of cloudflared mints a new host, so addresses are `"live"` (the host of the latest
start) and `"old"`. Each registration rotates the secret, so a secret is who knows the latest
one. A registration is three steps under the lock: address, subscription (which rotates), and
the arrival of the answer; a failure at any of them may leave the platform's part done.
`DeliveryMonitor` adds the flags and the cycle of the monitor; delays are steps that may end
at any time; `last_inbound` is kept as the two comparisons made with it. `taken` says whether
the platform delivers to what it registered, and changes as it likes.

### PlatformClient

The platform rotates the access and the refresh token together, so one number names the pair,
and a refresh token is good once. `tokens` is the pair in memory, `stored` the one in the
file, `platform` the newest one given out. A call passes through `Begin` (an expired pair?),
`Lock` (under `_refresh_lock` it looks again: `Superseded`), `Rotate`, `Save`, `Lease` (a
connection of the pool) and the answer; an unauthorized call refreshes once by force, a rate limited one
pauses. The connection is held by a thread, so `Unanswered` may mean that the platform did
what it was asked to. A crash leaves the file.

### ReactionBank

A bank is kept under the hash of persona and recipe of the prompts; a job remembers its hash
and the keys it has done. `Commands` are what the user asks for, in the order of their dates;
their webhooks come in any order and the worker takes the pending one of the earliest date, so
a late one may come between two attempts at another. `overtaken` remembers the commands to which
that happened when their refresh was in the table already.

| action | code |
|---|---|
| `Arrive` | the webhook of a command is accepted, late or in time |
| `SetPersona`, `CommandAsks`, `Reply` | an attempt at a persona command, which sets the persona each time: two transactions and the reply, any of which a crash may leave out; a reply that fails leaves the command pending |
| `AskRefresh`, `StartupAsks` | enqueue_reaction_bank_refresh: nothing if an active job wants the same, otherwise the others are superseded |
| `Claim`, `Generate`, `Publish`, `CompleteJob`, `HandBack` | the generator: `Publish` looks in one transaction whether the job is still its own |
| `Start`, `Crash`, `Shutdown`, `Recover` | a restart may bring another recipe |

### Transcript and Memories

A turn is about a topic and answers or deflects; words match when topics do, and time is
counted in days. `Recent`, `Lexical`, `Semantic`, `Fuse`, `Spread` and `Retrieved` are the
retrieval of `transcript.py` as pure operators: the window of recent turns is fetched in
excess, thinned of its deflections, and what is retrieved besides is fused from two rankings
or spread over the period that was asked for, as far back as one scan reaches (`WindowCap`). An
ORDER BY is `Ordered`: a row stands where as many others precede it, which orders a table whose
ids are a key (`Rows`) and can be reasoned about. `Retained` is the pruning
(the rows with fewer than so many newer ones), `StoreVector` the
INSERT that only happens while the turn is there.

`Memories` adds the worker and the extractor. A message talks, dictates or takes back; the
three databases are written one after the other (`Speak`, `RecordTurn`, `QueueExtraction`;
`Remember` or `ForgetFacts`, `ForgetEvents`, `Confirm`), a crash may fall between any two,
and the worker begins again with the same message. `Embed` and `ReadBatch` are the task that
computes vectors beside the worker, `Backfill` the tool that runs beside the bridge.
The messages come to the worker in the order of their dates: one of an earlier date that comes late,
between two attempts at another, is left out here (it is in `ReactionBank`).
`excused` records why an exchange has no event, `late` the exchanges that were not yet
extracted, or whose forgetting failed, when the household had their event removed.

### MotionSpec, Choreography and MotionInvention

`MotionSpec` is the renderer as operators on numbers: `Parse` and `ToText` of a spec, `Build`
of the head's moves with the durations that the curve needs, `Plan`, which drops beats,
drifts and amplitude until the budget is kept and falls back on a minimal figure, `Antenna`
and `Leds`, and `Valid` and `Sendable`, the checks of `custom_motions.py`. The speed on the spline between two poses
is a parameter (`PathSpeed`), as are the jitter drawn from the name (`Jitter`) and what is left
of a name (`Clean`: `_clean_name` strips it, then cuts it to sixteen characters). With the
stand-ins of `MCMotionInvention` for these put into the code as well, the documents of the model
and those of the code were compared on more than six thousand designs and budgets: there were
no differences.

`Choreography` is the way of one design: `Invent` reads what a model wrote and renders it once,
as the generator does before it stores anything, and keeps the text (`ToText`) of it; `Replay`
reads that text again and renders it, as the worker does each time the motion is asked for.
A design lacks a name of its own when the text has no `name:` line; the theme it was asked for
(`Wished`) is its name then.

`MotionInvention` is the life of a motion: `Look` finds a theme in the repertoire or queues a
job (`Enqueue`), the reply is saved, delivered and followed by `Perform`; the generator
claims, generates, stores (`Remember`, with the retention and the replacement of a motion of
the same name), completes, speaks the outcome and performs. `played_count` is left out; a
`MotionSpecError` and another ValueError are one outcome, and jobs that do not decode cannot
occur.

## The runs

| run | states | question | what keeps it small, and why that is enough |
|---|---|---|---|
| `queue` | 168,065 | five casts, of which a behaviour draws one (`OneCast`): two messages and an acknowledgment; jobs of two generators and a message; two refreshes and a message; three refreshes; two jolts and a cue. Retries, a crash or shutdown and recovery: `SingleFlight`, and `ImplementsInbox`, the refinement of `DurableInbox` | messages may be inserted against their dates; three refreshes, the third for the first persona again, are the shortest sequence in which a superseded job has an active successor of its own persona; one interruption may fall anywhere; two attempts reach the retry and the dead letter |
| `ambient` | about 2,350,000 | jolts and changes of light with failing POSTs and generation and an interruption: `ReactionsApart`, `DramaKept`, `QuietForCause`, `GreetingsApart` | a drop and a settle of one second, in either order, reach every branch of the reservation, two changes of light each branch of the cooldown; cooldowns of one and two units, time counted up to `Horizon` = 2, the longest cooldown. The two changes of light are symmetric; a VIEW leaves the rowids aside, at which no claim of this instance looks |
| `reply` | 754,424 | six setups: a plain reply without ids, a streamed one with ids, one beside an aside, each through one lost response; a second human who says what the robot says first; and a message without a room, or without speech, before one that was not understood. Failing calls and one interruption in all of them: `SameWordsAgain`, `NeverSilent`, `EchoAnsweredOnlyIfLost`, `StreamCoherent`, `EventuallySettled` | three posts let an echo be answered and that answer be lost or repeated; two chunks: a first and a later one are treated differently, a third is not; two humans and two posts are enough for one to be taken for the echo of the answer to the other, and for that echo to be answered |
| `model_gate` | 3,315 | one worker, three generators, webhooks, a shutdown: `OneCall`, `ForegroundServed`, `BackgroundResumes` | the code has three generators; two turns are enough because at most one is not abandoned and an abandoned one only holds the gate |
| `chain_prompt` | 25,532 | two chains of presets of distinct kinds and an acknowledgment, webhooks handled in their unit: `SerialOnRobot`, `RollingBudget`, `NoneStranded`, and `ChainEnds` | two replies overlap, a budget of two is exhausted; the conditions under which the first three hold, prompt webhooks, distinct kinds, no jolt, are those of their theorems, see [below](#where-the-code-and-its-documents-disagree) |
| `chain_late` | 220,760 | documents and a preset with late, reordered webhooks, anchors, a jolt, failed calls, restarts: `NotEarly` | three motions, the longest chain the code makes |
| `delivery` | 50,364 | monitor, tunnel, platform and a restart: `Agreement`, `NoSecondVerdict`, `DeafnessNoticed`, `RegistrationsEnd` | three probes, so each rung of the ladder is reached |
| `client` | 580,862 | two calls and one connection: `RotatesForCause`, `SpentOnlyIfLost`, `EveryCallEnds` | two calls contend for the lock and the connection, and the second finds the refresh of the first; two rotations let the older pair matter; two faults lose an answer and its repetition, or an answer and a save |
| `bank` | 8,589,762 | a persona set and set back by commands that come in either order and are tried again, two keys that are alike (SYMMETRY), two restarts, one of them perhaps with new prompts: `PersonaCovered`, `ResumesWhereItStopped`, `SupersededIsSilent` | setting it back makes a job for a hash that an earlier job has half done; two keys make a half; two commands, the earlier one late, are the shortest way for one to be overtaken |
| `memory` | 1,798,954 | three households: one that chats about two topics over a full transcript, beside the backfill tool, one that dictates, talks and takes back, and one that remembers more of a topic than a scan reaches: `SaidLastHolds`, `ForgottenStaysGone`, `EventsTellTheTruth`, `TablesInStep`, `ContextSound` | five retained turns, four of them there before, so retention prunes at the second; a window of two fetched doubly and quotas of two are filled and overfilled, and the scan of a period (`WindowCap`) leaves rows out; the five messages have each pair of commands that may undo each other, with two mishaps between them |
| `invention` | 2,049,960 | three commands of two similar and one other theme, a model that may name its motion after another or write no beat, a repertoire of one, two mishaps: `PlaysWhatItNamed`, `OneOutcome`, `NoJobStranded`; or (5,184 of the states) every text of up to four lines, and those with a beat too many, read, kept, read again and rendered within four budgets: `NeverHurried`, `ComesHome`, `PlaysTheSame` | a repertoire of one is replaced and pruned by the next motion; a clock of two instants may be set back; seven lines cover each kind of line, word and beat; the four budgets reach the full figure, the shortened and the minimal one, down to a single millisecond; one name is cut at a blank. A behaviour is of a life of motions or of one design, for neither reads the other's state |
| `conversations_rotate` | | a violation, [below](#where-the-code-and-its-documents-disagree) | |

All bounds are named constants: `MaxInterruptions` (crashes and shutdowns), `JobAttemptBound`
(claims of one job; the code has no such limit), the `faults` and `posts` of a setup and `MaxFaults` (acceptances and exchanges without an answer),
`MaxPosts` (the length of `EchoOf`), `MaxChunks` (the code's own limit, made small), `MaxLag`,
`MaxNods`, `MaxJolts`, `MaxRestarts`, `MaxPairs`, `MaxCrashes`, `MaxRetries`, `MaxRecipe`, `MaxDay`, the
`mishaps` of a household, `MaxMishaps`, `Times`, `MaxLines` (of a text), and `Budgets`. `MaxAttempts`, the retentions, the quotas and the budgets are the code's, made small.
Deadlock checking is off for the instances whose work ends (`EventQueue`, `ReplyLoop`,
`AmbientReactions`, `ReactionBank`, `Memories`, `MotionInvention`): with every event settled,
every command done and no interruption left there is nothing to do.

Every property has a mutation in `PROJECT.json`: a plausible bug in one operation under which
TLC finds the property violated. The operators named `Mutant...` in the modules are those
mutations; nothing else uses them.

## Fairness

Weak fairness stands where the code loops or the world goes on:

- `ReplyLoop`'s `FairSpec`: systemd restarts the process (`Start`); a started loop recovers; the worker
  goes round its loop, each call it makes having a timeout; a backoff elapses. Nothing is
  owed by the outside, by crashes, or by the generators, which foreground work may displace for ever.
  That is why only the worker's events are promised to be settled.
- `GateFairness`: the event loop runs what is ready, and the client's timeout ends each
  call. Nobody has to ask for the gate, and a turn once entered leaves it.
- `ChainFairness`: the worker posts what it claimed and handles its webhooks, the sweeper runs,
  and time passes; `Tick` is strongly fair because the model lets it wait for a webhook at
  the age bound to be handled. The robot owes nothing: `ChainEnds` does not rest on its reports.
- `DeliveryMonitor`'s `Fairness`: the monitor's and the registrations' tasks go on, the hours of
  silence pass, and a rung of the ladder that posts its probe again and again has one accepted in
  the end (strong fairness). The tunnel need not ever start.
- `FairClientSpec`: each call goes on and each exchange on the wire ends, by its timeout at the
  latest, and a call that waits for the lock or a connection is woken (weak fairness of
  `CallStep`). The number of calls, pairs and faults is finite, so no call is overtaken for ever.

## The proofs

TLAPS proves the following for all values of the constants under the named assumptions of the
modules (`EventQueueAssumption`, `ReplyLoopAssumption`, `AmbientAssumption`, `ModelGateAssumption`,
`ReactionBankAssumption`, `MotionChainAssumption`, `DeliveryMonitorAssumption`, `PlatformClientAssumption`,
`InventionAssumption`, `ChoreographyAssumption`, `TranscriptAssumption`, `MemoriesAssumption`), which TLC evaluates in the runs.
They say what the code takes for granted: that bounds are numbers, that a post has an echo of its
own (`EchoOf` is injective), that a reply has at most three motions, that a cooldown is at
least a unit and the histories reach as far as the longest.
Each invariant was checked by TLC before it was proved. Every proof of a safety property has
the same outline: the step is sorted into the few kinds of effect it may have on the state the
invariant speaks of, and each part of the invariant is proved over those kinds.

**EventQueueProofs.** `Typing`, `Settlement`, `OneAtATime`, `InOrder`, `OneRefresh`, `GivesUp` and
`Refinement`, of which the runs check `SingleFlight` and `ImplementsInbox` also; the latter
implies order and settlement as the inbox states them. The invariants are not inductive alone. *Held* says that the row in the worker's hand is in
processing and that nothing runs in a process that is down: without it a claim could find
another row in processing. *RowIds* says that row ids grow and are never reused: `UserOrder`
speaks of them. `OneAtATime` strengthens `TypeOK` by Held; `InOrder` needs RowIds and the
blocking head of the lane; `Refinement` maps each action to `Accept`, `Settle` or a
stutter, and its hard case is that a claimed message has nothing ahead of it, which is
`UserOrder`.

**ReplyLoopProofs.** `ConversationIsAQueue`: each step of the composition is a step of the queue, so
its theorems hold of it, `ConversationImplementsInbox` among them. `AMessageIsAnswered`,
`StreamsAreCoherent` and `TheSameWordsAgain` rest on `ReplyInvariant`, which says at each place of
the worker's code what was posted, filed, saved and remembered: *SavedFirst*, that a reply
that is not streamed is saved before it is spoken; *Streams* and *SentencesInOrder*, that the
sentences heard of a generation are a beginning of it, in order; *OneGeneration*, that what is filed
for a message is of one generation; *Uninterrupted*, what an attempt that met no interruption has
said. `TheSameWordsAgain` counts the posts of an event by the faults and interruptions that
explain them.

`AMessageIsAnswered` and `EchoesAnsweredOnlyIfLost` rest on `EchoInvariant` also. With ids, an answered echo
is of a post that no record has (*Unrecorded*). Without ids a record is found by its words, whoever says
them, and two posts may have the same ones, so the parts of the invariant compare cardinalities,
for each piece of speech: the humans who were ignored for saying it are no more than the records
of it that were used up (*Mistaken*, which gives the one half of `NeverSilent`, as *Answered* in
`ReplyInvariant` gives the other). While nothing is lost, every post is recorded
before the worker looks at the next message (*EveryPostAtHand*), the records used up are no more than
the echoes and the humans ignored (*Tallied*), and so the echoes answered no more than
those humans (*FewAnswered*): an echo is answered only if every record of its words is used up, which
leaves fewer echoes than records to have done it, and a human for each one that is
missing.

**AmbientProofs.** `AmbientIsAQueue`, as above; `ReactionsStayApart`, `DramaStaysKept`, `QuietHasACause` and
`GreetingsStayApart`. *Drama*: the jolt that took over a peer carries at least its drama, in its row
or in the words it saved. *Cooled*: for each reaction that was made, what is left of its cooldown
and the state of the last reaction agree with its age (`InTime`, `Remembered`), so that a
reservation too early would have been refused (`NotTooSoon`), and nothing is refused too late
(`NotTooLate`). *Voiced*: a reservation has its words, unless its worker was interrupted before they
were saved. *Greeted*: a first attempt either speaks, and then its cooldown covers the later ones
(`Covered`), or has not got so far (`Untried`).

**BackgroundProofs.** Of the gate, `GateTyping`, `OneCallAtATime`, `Yielding`, `WakeupsKept`. *Books* says that `_active`
names the holder, that one turn at most holds the gate and that a backend call belongs to the
generator inside; *Awake* that while the gate is free no turn is asleep, and a generator is only
if a turn is about to take it. `GateInv` is their conjunction with `Yields`, proved in one step
per action. Of the bank, `PersonaStaysCovered`, `JobsResumeWhereTheyStopped` and `SupersededJobsAreSilent`, from
`BankInvariant`: the generator's copy agrees with its row (*Held*), the triggers in the table are of
commands and starts that have been (*Triggered*), and a command that has asked and is tried again, if no other came between, was the last to be
attempted, so that it finds its persona in force and its bank covered (*Commanded*). That is what keeps
`PersonaCovered` when a second attempt at the command enqueues nothing; its third case, `overtaken`, is
where the code does not keep it.

**PlatformProofs.** `TunnelInvariant` and `RegistrationAgrees`. *Locked*: only the holder of the lock is
past asking. *Addressed*: no registration of an old host can follow the one a ready tunnel
made, because the monitor's, if late, goes before the supervisor's. *Informed*: only a
registration in progress knows a secret the listener lacks. `MonitorImplementsTunnel` maps the steps
of `DeliveryMonitor` to those of the tunnel with registrations asked for at any time, which
carries `Agreement` to the composition (`MonitoredTunnelAgrees`); `NoRegistrationJudgedTwice` adds what
the monitor remembers of its verdict. Of the client, `EveryRefreshHasACause` and `RefreshTokensAreSpentOnce`, from
`ClientInvariant`: *Serial*, that only the holder of `_refresh_lock` refreshes or saves; *Caused*, that a call
waits for the lock, or refreshes, for a pair that is still expired or refused; *Kept*, that memory
and file hold the newest pair unless it is being saved or was lost, from which the refresh token
about to be spent is the newest one.

**MotionChainProofs.** `CInvAlways`, `OneInFlightAlways`, `NotEarlyAlways`. *Counters*: a chain has sent at most
one motion more than it has finished. *Posting*: the motion being posted is the last its
chain claimed; without it the posting of a document could count a report of another motion.
*Clocks*: due times are integers and no webhook is of the future, so what is due at a
webhook's time is due now. `NotEarly` follows for each of the four ways to release a motion.
Three theorems have a condition, the one without which the code does not keep the promise:

- `SerialOnRobotAlways`, for `DistinctKinds`. *Played*: what the robot has of a chain is its last motion,
  unfinished, and what it has reported it has no longer.
- `NoneStrandedAlways`, for `Prompt`: no lag and no observed speech. *Kept*: of a chain that waits, every
  motion ahead has its row or is due already, and the next one has its row if nothing is in
  flight (`RowsLeft`).
- `RollingBudgetAlways`, for `Honest`: no lag and no jolt answered. *Paid*: the calls of the window are
  exactly its rows.

**MotionInventionProofs.** `PlayedIsNamed`, `JobsHaveOneOutcome` and `JobsAreNotStranded`, for any texts, clock and renderer,
from `InventionInvariant`. *Lined* and *Placed*: a job without an outcome is pending, once in the
queue, or with the generator, or will be recovered. *Spoken*: which jobs have had their line.
*Recallable*: a motion that the worker or the generator holds is found as it was, or not at all,
because an id is never used twice.

Of the designs, `PlaysTheSameAlways`, for any texts, names and budgets, and `NeverHurriedAlways` and
`ComesHomeAlways` under two hypotheses on the parameters: *Measured*, that a speed on the curve
is a natural number, and *DrawnInRange*, that the jitter lies in -60..60, the range it is drawn
from. The argument follows the document through the renderer:

- What the recursive functions compute. Their equations are derived from well-foundedness on an
  interval (`Unfolding`), the rest by taking the least argument at which a claim fails
  (`LeastOne`, `Climb`): for the words of a line (`KnownWordsFacts`), the lines of a text
  (`ParseFacts`), running totals (`RunningFacts`, `Telescope`), and the moves of all beats in one
  sequence (`Flattened`).
- `RoundTrip`: the words written for a beat are heard as that beat again, whichever of them are
  left out, so `Parse` of `ToText` of a design is the design, but for its name if `Clean`
  does not leave it alone.
- `BuildSound`: a figure built of a design has at most so many moves, and each takes at least the
  floor and the time its rate asks for. `MinimalSound` says it of the figure of last resort, whose
  amplitude is shrunk to the time there is.
- `PlanPlayable`: `Plan` returns a figure that is *Playable*, sound and within its budget, for every
  design and budget. This is the strengthening: the checks at the end look at the document alone,
  and cannot be shown to hold of it without what the plan kept in mind.
- `PlayableSent`: with the antenna (`AntennaFacts`) and the lights (`LedsFacts`) that are made for a
  playable plan, every track ends when the head does and `Valid` and `Sendable` hold, so `Render`
  does not refuse it. `SketchInv` carries that to each step of `Choreography`.

**MemoriesProofs.** `TranscriptInStep` is inductive as it stands. `SaidLastHoldsAlways`: *Dictated* says that the
active facts are those that stand after the messages before the present one, or after the
present one too, for an attempt that was interrupted may have done its work; and that a fact
which has this message for its source is a sign of the latter. That *remember* may look for such a
row and do nothing, and *forget* need not look, is the content of the proof. `EventsTellTheTruthAlways` and
`ForgottenStaysGoneAlways`, from `Extracted`: a job is of an exchange the worker has left behind and keeps
the day its words were received (*JobsOfTalks*); the job in hand is claimed or completed (*InHand*);
stored events were told (*EventsTold*); a completed job is accounted for (*Accounted*); and what is
stored, or may still be stored, of a topic removed since was late (*Gone*). *Gone* has to speak of
unfinished jobs beside events, for those are the events to come. `ContextSoundAlways`, for any tables,
quotas and periods: its only invariant is `TablesOfRows`, that ids are a key and no row has an id yet to
be given, from which a set in an order of ranks is a listing of it, each row once and no row
before one that precedes it (`Ordering`). Then each kind of retrieval is `Chosen`, distinct rows
that were there and not yet shown, as many as fit; the even sample of a period takes different rows,
the first and the last among them (`EvenSample`: the rounding of `i * last / (n - 1)` grows by
at least one); and what thinning drops from the window is at most one row short of the
refusals in it (`RecentIsThin`).

Only model-checked:

- Liveness, all of it (`EventuallySettled`, `ForegroundServed`, `BackgroundResumes`, `ChainEnds`, `DeafnessNoticed`,
  `RegistrationsEnd`, `EveryCallEnds`), for TLAPS does not reason about ENABLED.

Every safety invariant and every action property of the passing runs is a theorem, three of them
with the condition named above, and so is the refinement of `DurableInbox`. The library's theorems
on induction take an operator as a parameter, which the installed provers cannot instantiate.
Where a proof needs induction, that a set of numbers has a least one or that a recursive function
satisfies its equation, it cites the theorems on well-founded relations, which take none.

## Where the code and its documents disagree

One run expects a violation; its finding in `PROJECT.json` quotes the docstring.

- `conversations_rotate` (`ConversationsRotate`): `turn_count`, "Total turns ever stored for a room,
  retention losses included" (`transcript.py:630`), counts the rows that retention has left. Once
  the transcript is full the count stands still, so the conversation, numbered by
  `turns // rotate_turns` (`events.py:1643`), is never rotated again, whatever
  `src/README.md:316` and `config.py:278` say of the setting.

Others were met while modelling and are described here rather than run:

- A generator's aside is posted while the worker is free and recorded after the POST returns
  (`events.py:1911`): the worker may take its echo in between and answer it, without any fault.
  The docstring says "with echo suppression intact" (`events.py:1905`).
- After a crash in a streamed reply the next attempt generates a new reply, does not speak it,
  and remembers it as the exchange (`events.py:1197`, `events.py:2058`). `StreamCoherent` speaks of uninterrupted replies.
- An address registered while the last probe of a cycle is out is forgotten when the cycle
  ends, and the monitor has given up (`delivery.py:360`, `delivery.py:374`).
- A jolt whose words are saved takes over a more dramatic peer when it is tried again
  (`events.py:2303`); `DramaKept` excludes it.
- The extraction of an exchange that is still pending when the household asks to forget it
  stores the event afterwards (`event_memory.py:836`). `ForgottenStaysGone` excepts it, and the
  failed forgetting that `_forget_events` swallows.
- A failing transcript returns before the extraction of the exchange is queued (`events.py:1689`),
  although the two are separate stores: no event then comes of it.
- Deflections that the recent window thins out may come back through the retrieval.
- With a clock set back, a motion is pruned by its own retention as it is stored, after the old one
  of its name was deleted (`repertoire.py:156`).
- A model may name a motion differently from the theme that was asked for: the docstring of
  `events.py:401` does not hold then, and the theme is invented again when asked for again.
- A recalled motion whose reply was saved before a crash is named again and not performed
  (`events.py:1835`).
- The job is queued before its acknowledgment is spoken (`events.py:1864`), so the outcome may come first.
- `_clean_name` strips a name first and cuts it last
  (`motion_spec.py:397`), so the cut may leave a blank at the end, which goes when the stored text
  is read again. The motion is then called otherwise than it was stored, and its jitter drawn
  from another seed, although a spec is to round-trip through its stored text
  (`src/bridge/tests/runtime/test_motion_invention.py:95`). `PlaysTheSame` states what holds: the
  beats are the same always, the rest if the name is left alone.
- A theme with the label of a beat in it, taken for a name, splits its line when the stored text is
  read again, which gives a beat more. `MotionSpec` takes names without labels.
- The minimal figure with two antenna groups ends with the cheeks lit; a full one ends dark.
- Where posts have no ids, a human who repeats the robot's words within the window is taken for
  its echo and gets no answer, and the echo is then answered without any fault (`db.py:2327`).
  `NeverSilent` and `EchoAnsweredOnlyIfLost` count these humans.
- A persona command that backs off may be overtaken by one of an earlier date that comes late; tried
  again, it restores its persona (`events.py:1388`), whose refresh was superseded and is not inserted
  a second time (`db.py:2532`). The bank stays incomplete until the next command or start, which
  `PersonaCovered` excepts.
- A match by words is consumed in a transaction before the echo's row is completed
  (`db.py:2337`): an echo interrupted in between is answered by its next attempt. With ids
  it cannot happen (`EchoAnsweredOnlyIfLost`).
- A late report books its slot of the call budget at the platform's time (`events.py:2255`), so
  the calls made in a real window may exceed the budget; and the answer to a jolt books none
  (`events.py:2365`). `RollingBudget` is checked and proved without both.
- A report that is too early for the next motion's due time but handled after its row was consumed leaves
  the next motion to the end of the speech or the timeout. `NoneStranded` is checked and
  proved with prompt webhooks and without observed speech, for every timeout: a chain the sweeper
  gives up is no longer active, and its cues are then dropped.
- A report carries a kind only: one of an acknowledgment of the kind a chain awaits is taken for the chain's
  (`db.py:2005`). `SerialOnRobot` is checked and proved with distinct kinds.
- "`normal` / `lying_down` は常に無言" (`src/README.md:159`): the code answers a settle as a lift
  (`reactions.py:281`).
- "room cooldown 中なら ignored outcome で完了する" (`src/docs/design/bridge-architecture.md:120`):
  a presence that is tried again speaks its saved words without asking the cooldown
  (`events.py:2267`). `GreetingsApart` says what holds.
- "既に確保した cooldown のために発話を失わない" (`src/docs/design/bridge-architecture.md:154`) is said of a
  failed delivery, where it holds. An interruption between the reservation and the saved
  response does lose the reaction; `QuietForCause` allows it that cause alone.

## What is not modelled

- Of memory: the tokens and the scores of full-text search, the numbers of embeddings, the breaker
  of their endpoint, the rendering of facts and events into a prompt, time expressions. Which
  turns match is the topic, which day is meant a parameter.
- Of motions: the spline itself and how far it swings between two poses, which `is_safe` checks
  beside the speed; the random numbers drawn from a name; the fixed documents of
  `custom_motions.py`; the choice of motions for a reply.
- The scheduler's own loop: a comparison of dates each minute, nothing runs beside it, and its
  tests enumerate the cases. What a due schedule does is in `AmbientReactions`.
- Fast routes, skills, the Hermes client, prompts: text recognition and calls without
  shared state; their outcomes are the choices of `Generate` and `EndStream`.
- Configuration and the parsing of webhooks; tools, images and deployment outside the running
  bridge.
- SQLite: transactions are atomic and succeed. `dispatch_due_motion` reads its chain before
  the transaction begins; read and claim are one step here.
- `recycle()`'s outcome is only logged by its caller and has no variable.

## Plan

Done, in this order of importance: the queue and its abstract specification, the reply loop, the
gate, the chains, tunnel and monitor, the ambient reactions; the token refresh, the reaction bank,
the memories, the invented motions with their renderer; proofs of each of them, so that every
safety property of a passing run is a theorem.

Left, should the project go on:

1. That `ReactionBank`'s and `MotionInvention`'s jobs are `EventQueue`'s, as refinements instead of by
   construction.
2. The sentence assembly of the stream and the choice of motions against reference
   definitions over bounded inputs.
3. The curve: that how far and how fast it swings is bounded by its poses, which would replace
   the parameter `PathSpeed`.
