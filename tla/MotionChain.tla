---------------------------- MODULE MotionChain ----------------------------
(***************************************************************************)
(* The choreography of a spoken reply: tables motion_chains and            *)
(* motion_call_budget (db.py), the motion.due rows and the handlers of     *)
(* motion webhooks (events.py), and the tasks beside the worker that spend *)
(* the same budget.                                                        *)
(*                                                                         *)
(* A chain holds the motions of one reply, each due at a point of the      *)
(* speech.  The worker sends the next one when it is due or the speech is  *)
(* over, and only after the robot reported the previous one finished; a    *)
(* custom document sends no report and counts as finished once posted.     *)
(*                                                                         *)
(* Every time is kept relative to the clock: t is "t units from now", and  *)
(* Tick moves all of them into the past, down to a floor below which no    *)
(* comparison tells them apart.  A webhook carries the platform's          *)
(* timestamp, so the worker handles it some units after that moment.  The  *)
(* calibration of the speech rate changes offsets only and is left out.    *)
(***************************************************************************)
EXTENDS Integers, Sequences, FiniteSets

CONSTANTS
    Chains,         (* replies with a chain: their request ids              *)
    Kinds,          (* the kinds motion.finished reports, and Document      *)
    Kind,           (* [Chains -> Seq(Kinds)], the kind of each motion      *)
    Document,       (* "custom document", no kind                           *)
    NodKind,        (* the kind of the acknowledgment motion                *)
    Offset,         (* [Chains -> Seq(Nat)], anchor_offsets                 *)
    Observed,       (* replies with a speech observation: those not         *)
                    (* streamed                                             *)
    Reports,        (* the types of webhook the robot sends                 *)
    Nothing,        (* the worker is not sending a motion                   *)
    ColdLag,        (* delivery lag of the cold calibration                 *)
    Timeout,        (* motion_chain_timeout_seconds                         *)
    AnchorWindow,   (* min(timeout, 10)                                     *)
    Window,         (* the 60 seconds of the budget                         *)
    Budget,         (* motion_budget_per_minute                             *)
    MaxLag,         (* bound: age of a webhook when it is handled           *)
    MaxNods,        (* bound: acknowledgment motions                        *)
    MaxJolts        (* bound: motions that answer a jolt                    *)

ASSUME MotionChainAssumption ==
    /\ Nothing \notin Chains \X Nat
    /\ Kind \in [Chains -> Seq(Kinds)] /\ Offset \in [Chains -> Seq(Nat)]
    /\ \A c \in Chains : Len(Kind[c]) \in 1..3 /\ Len(Offset[c]) = Len(Kind[c])
    /\ {Document, NodKind} \subseteq Kinds
    /\ Observed \subseteq Chains
    /\ {ColdLag, Timeout, AnchorWindow, MaxLag, MaxNods, MaxJolts} \subseteq Nat
    /\ {Window, Budget} \subseteq Nat \ {0}

VARIABLES
    status,         (* [Chains -> Statuses]                                 *)
    sent,           (* [Chains -> Nat], sent_count                          *)
    finished,       (* [Chains -> Nat], finished_count                      *)
    talked,         (* chains whose talk_finished is set                    *)
    anchored,       (* chains whose anchored_at is set                      *)
    due,            (* [Chains -> Seq(Int)], due_times                      *)
    expires,        (* [Chains -> Int], expires_at                          *)
    age,            (* [Chains -> Nat], order of created_at, 0: no chain    *)
    cues,           (* motion.due rows that are pending: <<chain, index>>   *)
    unheard,        (* speech observations without an anchor                *)
    spoken,         (* [Chains -> Int], text_sent_at of the observation     *)
    booked,         (* rows of motion_call_budget: <<sent_at, number>>      *)
    sending,        (* the motion the worker is posting, or Nothing         *)
    signals,        (* webhooks of the robot that are not handled yet       *)
    playing,        (* presets of chains the robot has and has not reported *)
    nodding,        (* acknowledgments the robot has not reported           *)
    calls,          (* the motion calls made: <<time, number>>              *)
    nods, jolts     (* counters of acknowledgments and jolts                *)

chainVars == <<status, sent, finished, talked, anchored, due, expires, age>>
speechVars == <<unheard, spoken>>
callVars == <<booked, sending, calls>>
robotVars == <<signals, playing, nodding, nods, jolts>>
vars == <<chainVars, cues, speechVars, callVars, robotVars>>

Active == {c \in Chains : status[c] = "active"}
Motions(c) == Len(Kind[c])
IsDocument(c, i) == Kind[c][i] = Document
Newest(S) == {c \in S : \A d \in S : age[d] <= age[c]}
ChainInit ==
    /\ status = [c \in Chains |-> "none"]
    /\ sent = [c \in Chains |-> 0]
    /\ finished = [c \in Chains |-> 0]
    /\ talked = {}
    /\ anchored = {}
    /\ due = Offset
    /\ expires = [c \in Chains |-> 0]
    /\ age = [c \in Chains |-> 0]
    /\ cues = {}
    /\ unheard = {}
    /\ spoken = [c \in Chains |-> 0]
    /\ booked = {}
    /\ sending = Nothing
    /\ signals = {}
    /\ playing = {}
    /\ nodding = 0
    /\ calls = {}
    /\ nods = 0
    /\ jolts = 0
-----------------------------------------------------------------------------
(*                              The call budget                            *)

(* Rows of one time are told apart by a number: another row of time t has  *)
(* the next one.                                                           *)
Later(rows, t) == {r \in rows : r[1] > t}
Another(rows, t) == rows \cup {<<t, 1 + Cardinality({r \in rows : r[1] = t})>>}
Older(rows, floor) == {<<r[1] - 1, r[2]>> : r \in Later(rows, floor + 1)}

(* One call booked at time t, if the rows younger than the window leave    *)
(* room.                                                                   *)
MutantHasRoom(t) == Cardinality(Later(booked, t - Window)) <= Budget
HasRoom(t) == Cardinality(Later(booked, t - Window)) < Budget

Book(t) ==
    /\ HasRoom(t)
    /\ booked' = Another(Later(booked, t - Window), t)
    /\ calls' = Another(calls, 0)

TurnAway(t) ==
    /\ ~HasRoom(t)
    /\ booked' = Later(booked, t - Window)
    /\ UNCHANGED calls

(* _reserve_and_claim_motion at time t, in a transaction that has brought  *)
(* the statuses to st: the chain sends its next motion or is given up.     *)
ClaimMotion(c, t, st) ==
    \/ /\ Book(t)
       /\ sending' = <<c, sent[c] + 1>>
       /\ sent' = [sent EXCEPT ![c] = @ + 1]
       /\ expires' = [expires EXCEPT ![c] = t + Timeout]
       /\ status' = st
    \/ /\ TurnAway(t)
       /\ sending' = Nothing
       /\ status' = [st EXCEPT ![c] = "abandoned"]
       /\ UNCHANGED <<sent, expires>>
-----------------------------------------------------------------------------
(*                                The worker                               *)

(* _deliver_response or _stream_reply: the text is posted and recorded and *)
(* its chain created.  A retry finds the chain and leaves it alone.        *)
DeliverReply(c) ==
    /\ sending = Nothing
    /\ status[c] = "none"
    /\ status' = [status EXCEPT ![c] = "active"]
    /\ due' = [due EXCEPT ![c] = [i \in DOMAIN Offset[c] |-> ColdLag + Offset[c][i]]]
    /\ expires' = [expires EXCEPT ![c] = Timeout]
    /\ age' = [age EXCEPT ![c] = 1 + Cardinality({d \in Chains : age[d] > 0})]
    /\ cues' = cues \cup {<<c, i>> : i \in 1..Motions(c)}
    /\ unheard' = unheard \cup ({c} \cap Observed)
    /\ spoken' = [spoken EXCEPT ![c] = 0]
    /\ UNCHANGED <<sent, finished, talked, anchored, callVars, robotVars>>

(* The row of motion i finds its chain waiting for just that motion.       *)
MayStart(c, i) ==
    /\ c \in Active /\ expires[c] > 0
    /\ i = sent[c] + 1 /\ sent[c] = finished[c]

(* After the end of motion i - 1: may motion i follow at time t?           *)
MutantReleased(c, i, t) == TRUE
MutantReleasedByTalk(c, i, t) == c \in talked
Released(c, i, t) == c \in talked \/ due[c][i] <= t

IsLast(c, i) == i = Motions(c)

(* _process_motion_due.  The row is completed whatever the chain says.     *)
ProcessDue(c, i) ==
    /\ sending = Nothing
    /\ <<c, i>> \in cues
    /\ due[c][i] <= 0
    /\ cues' = cues \ {<<c, i>>}
    /\ IF MayStart(c, i)
       THEN ClaimMotion(c, 0, status)
       ELSE UNCHANGED <<status, sent, expires, callVars>>
    /\ UNCHANGED <<finished, talked, anchored, due, age, speechVars, robotVars>>

(* The POST of the motion succeeded: the robot has it.  A document counts  *)
(* as finished at once (complete_custom_motion), which may claim the next. *)
PostMotion(c, i) ==
    /\ sending = <<c, i>>
    /\ IF ~IsDocument(c, i)
       THEN /\ playing' = playing \cup {<<c, i>>}
            /\ sending' = Nothing
            /\ UNCHANGED <<chainVars, booked, calls>>
       ELSE /\ UNCHANGED <<talked, anchored, due, age, playing>>
            /\ IF /\ c \in Active /\ expires[c] > 0
                  /\ sent[c] = finished[c] + 1 /\ IsDocument(c, finished[c] + 1)
               THEN /\ finished' = [finished EXCEPT ![c] = @ + 1]
                    /\ IF IsLast(c, i)
                       THEN /\ status' = [status EXCEPT ![c] = "completed"]
                            /\ expires' = [expires EXCEPT ![c] = Timeout]
                            /\ sending' = Nothing
                            /\ UNCHANGED <<sent, booked, calls>>
                       ELSE IF Released(c, i + 1, 0)
                       THEN ClaimMotion(c, 0, status)
                       ELSE /\ expires' = [expires EXCEPT ![c] = Timeout]
                            /\ sending' = Nothing
                            /\ UNCHANGED <<status, sent, booked, calls>>
               ELSE /\ sending' = Nothing
                    /\ UNCHANGED <<status, sent, finished, expires, booked, calls>>
    /\ UNCHANGED <<cues, speechVars, signals, nodding, nods, jolts>>

(* The POST failed: a chain with a failed document is given up, one with a *)
(* failed preset waits for a report that will not come.                    *)
PostFails(c, i) ==
    /\ sending = <<c, i>>
    /\ sending' = Nothing
    /\ status' = [status EXCEPT ![c] =
                    IF IsDocument(c, i) /\ @ = "active" THEN "abandoned" ELSE @]
    /\ UNCHANGED <<sent, finished, talked, anchored, due, expires, age, cues,
                   speechVars, booked, calls, robotVars>>

-----------------------------------------------------------------------------
(*                       Webhooks handled by the worker                    *)

(* A webhook s carries the platform's time s.at, not later than now.       *)
Handles(s) ==
    /\ sending = Nothing
    /\ s \in signals
    /\ signals' = signals \ {s}

(* advance_motion_chain first gives up what had expired at that time.      *)
Live(t) == {c \in Active : expires[c] > t}
MutantSwept(t) == status
Swept(t) == [c \in Chains |-> IF c \in Active \ Live(t) THEN "abandoned" ELSE status[c]]

NoClaim(st) ==
    /\ status' = st
    /\ UNCHANGED <<sent, expires, callVars>>

MutantAwaits(c, kind) ==
    /\ sent[c] > finished[c] /\ finished[c] < Motions(c)
    /\ ~IsDocument(c, finished[c] + 1)
Awaits(c, kind) ==
    /\ sent[c] > finished[c] /\ finished[c] < Motions(c)
    /\ ~IsDocument(c, finished[c] + 1)
    /\ Kind[c][finished[c] + 1] = kind

(* The newest chain that waits for a report of this kind takes it.         *)
ProcessFinished(s) ==
    LET waiting == {c \in Live(s.at) : Awaits(c, s.about)} IN
    /\ Handles(s)
    /\ s.type = "motion.finished"
    /\ \/ waiting = {} /\ NoClaim(Swept(s.at)) /\ UNCHANGED finished
       \/ \E c \in Newest(waiting) :
             LET done == finished[c] + 1 IN
             /\ finished' = [finished EXCEPT ![c] = done]
             /\ IF IsLast(c, done)
                THEN NoClaim([Swept(s.at) EXCEPT ![c] = "completed"])
                ELSE IF done = sent[c] /\ Released(c, done + 1, s.at)
                THEN ClaimMotion(c, s.at, Swept(s.at))
                ELSE NoClaim(Swept(s.at))
    /\ UNCHANGED <<talked, anchored, due, age, cues, speechVars, playing, nodding, nods, jolts>>

(* The chain of the reply with these words, else the newest, is released   *)
(* from its due times.                                                     *)
ProcessTalk(s) ==
    LET open == Live(s.at) \ talked
        named == open \cap Observed \cap {s.about}
    IN  /\ Handles(s)
        /\ s.type = "emo_talk.finished"
        /\ \/ open = {} /\ NoClaim(Swept(s.at)) /\ UNCHANGED talked
           \/ \E c \in Newest(IF named # {} THEN named ELSE open) :
                 /\ talked' = talked \cup {c}
                 /\ IF finished[c] # sent[c]
                    THEN NoClaim(Swept(s.at))
                    ELSE IF sent[c] = Motions(c)
                    THEN NoClaim([Swept(s.at) EXCEPT ![c] = "completed"])
                    ELSE ClaimMotion(c, s.at, Swept(s.at))
        /\ UNCHANGED <<finished, anchored, due, age, cues, speechVars, playing, nodding, nods, jolts>>

(* record_message_anchor: the newest observation the robot may have begun  *)
(* to speak moves its chain's due times, and those of the pending rows.    *)
ProcessAnchor(s) ==
    LET heard == {c \in unheard : spoken[c] <= s.at /\ spoken[c] >= s.at - AnchorWindow} IN
    /\ Handles(s)
    /\ s.type = "newMessageMotion"
    /\ \/ heard = {} /\ UNCHANGED <<unheard, anchored, due, expires>>
       \/ \E c \in Newest(heard) :
             /\ unheard' = unheard \ {c}
             /\ IF c \in Active \ anchored
                THEN /\ anchored' = anchored \cup {c}
                     /\ due' = [due EXCEPT ![c] = [i \in DOMAIN Offset[c] |-> s.at + Offset[c][i]]]
                     /\ expires' = [expires EXCEPT ![c] = s.at + Timeout]
                ELSE UNCHANGED <<anchored, due, expires>>
    /\ UNCHANGED <<status, sent, finished, talked, age, cues, spoken, callVars,
                   playing, nodding, nods, jolts>>

ProcessSignal(s) == ProcessFinished(s) \/ ProcessTalk(s) \/ ProcessAnchor(s)

(* A jolt is answered with a motion that books no slot.                    *)
AnswerJolt ==
    /\ sending = Nothing
    /\ jolts < MaxJolts
    /\ jolts' = jolts + 1
    /\ calls' = Another(calls, 0)
    /\ UNCHANGED <<chainVars, cues, speechVars, booked, sending, signals, playing, nodding, nods>>
-----------------------------------------------------------------------------
(*                          Beside the worker                              *)

(* The task of an acknowledgment: reserve_ack_motion and the POST.         *)
Nod ==
    /\ nods < MaxNods
    /\ nods' = nods + 1
    /\ \/ Book(0) /\ nodding' = nodding + 1
       \/ TurnAway(0) /\ UNCHANGED nodding
    /\ UNCHANGED <<chainVars, cues, speechVars, sending, signals, playing, jolts>>

(* _sweep_motion_timeouts.                                                 *)
Sweep ==
    /\ Active # Live(0)
    /\ status' = Swept(0)
    /\ UNCHANGED <<sent, finished, talked, anchored, due, expires, age, cues,
                   speechVars, callVars, robotVars>>

(* A crash at any moment, and abandon_motion_chains_for_restart.           *)
Restart ==
    /\ status' = [c \in Chains |-> IF c \in Active THEN "abandoned" ELSE status[c]]
    /\ cues' = {}
    /\ sending' = Nothing
    /\ UNCHANGED <<sent, finished, talked, anchored, due, expires, age,
                   speechVars, booked, calls, robotVars>>
-----------------------------------------------------------------------------
(*                          The robot and the clock                        *)

Send(type, about) ==
    /\ type \in Reports
    /\ signals' = signals \cup {[type |-> type, about |-> about, at |-> 0]}

RobotFinishes(c, i) ==
    /\ <<c, i>> \in playing
    /\ playing' = playing \ {<<c, i>>}
    /\ Send("motion.finished", Kind[c][i])
    /\ UNCHANGED <<chainVars, cues, speechVars, callVars, nodding, nods, jolts>>

RobotNodded ==
    /\ nodding > 0
    /\ nodding' = nodding - 1
    /\ Send("motion.finished", NodKind)
    /\ UNCHANGED <<chainVars, cues, speechVars, callVars, playing, nods, jolts>>

(* The robot begins or ends some utterance.                                *)
RobotSpeaks ==
    /\ \/ Send("newMessageMotion", Nothing)
       \/ \E c \in Chains : Send("emo_talk.finished", c)
    /\ UNCHANGED <<chainVars, cues, speechVars, callVars, playing, nodding, nods, jolts>>

Aged(t, floor) == IF t > floor THEN t - 1 ELSE floor

Tick ==
    /\ \A s \in signals : s.at > -MaxLag
    /\ signals' = {[s EXCEPT !.at = @ - 1] : s \in signals}
    /\ due' = [c \in Chains |-> IF c \in Active
                                THEN [i \in DOMAIN due[c] |-> Aged(due[c][i], -MaxLag)]
                                ELSE due[c]]
    /\ expires' = [c \in Chains |-> IF c \in Active THEN Aged(expires[c], -MaxLag) ELSE 0]
    /\ spoken' = [c \in Chains |-> IF c \in unheard
                                   THEN Aged(spoken[c], -(MaxLag + AnchorWindow + 1))
                                   ELSE 0]
    /\ booked' = Older(booked, -(MaxLag + Window))
    /\ calls' = Older(calls, -Window)
    /\ UNCHANGED <<status, sent, finished, talked, anchored, age, cues, unheard,
                   sending, playing, nodding, nods, jolts>>

Places == {p \in Chains \X (1..3) : p[2] <= Motions(p[1])}

ChainNext ==
    \/ \E c \in Chains : DeliverReply(c)
    \/ \E p \in Places :
        \/ ProcessDue(p[1], p[2])
        \/ PostMotion(p[1], p[2])
        \/ PostFails(p[1], p[2])
        \/ RobotFinishes(p[1], p[2])
    \/ \E s \in signals : ProcessSignal(s)
    \/ AnswerJolt
    \/ Nod
    \/ Sweep
    \/ Restart
    \/ RobotNodded
    \/ RobotSpeaks
    \/ Tick

ChainSpec == ChainInit /\ [][ChainNext]_vars

(* The worker posts what it claimed and handles its webhooks, the sweeper  *)
(* runs, and time passes.                                                  *)
Webhooks ==
    [type : Reports, about : Chains \cup Kinds \cup {Nothing}, at : -MaxLag..0]

ChainFairness ==
    /\ \A p \in Places : WF_vars(PostMotion(p[1], p[2]))
    /\ \A s \in Webhooks : WF_vars(ProcessSignal(s))
    /\ WF_vars(Sweep)
    /\ SF_vars(Tick)

FairChainSpec == ChainSpec /\ ChainFairness
-----------------------------------------------------------------------------
(*                               Properties                                *)

(* Types; a chain is completed only when all its motions are finished.     *)
ChainTypeOK ==
    /\ status \in [Chains -> {"none", "active", "completed", "abandoned"}]
    /\ \A c \in Chains : 0 <= finished[c] /\ finished[c] <= sent[c] /\ sent[c] <= Motions(c)
    /\ \A c \in Chains : status[c] = "completed" => finished[c] = Motions(c)
    /\ talked \subseteq Chains /\ anchored \subseteq Chains /\ unheard \subseteq Observed
    /\ cues \subseteq Places /\ playing \subseteq Places
    /\ sending \in Places \cup {Nothing}
    /\ \A s \in signals : s \in Webhooks

(* One motion of a chain is in flight at a time, whatever releases the     *)
(* next one: its due time, the end of the speech, a document, a report.    *)
OneInFlight ==
    \A c \in Chains :
        /\ sent[c] <= finished[c] + 1
        /\ sending # Nothing /\ sending[1] = c => sending[2] = sent[c]

(* No motion of a reply is sent before its moment of the speech, as the    *)
(* last anchor has it, unless the speech is over.                          *)
NotEarly ==
    [][\A c \in Chains : sent'[c] # sent[c] =>
            due[c][sent'[c]] <= 0 \/ c \in talked']_vars

(* The robot never has two presets of one chain to play.                   *)
SerialOnRobot ==
    \A p, q \in playing : p[1] = q[1] => p = q

(* No more motion calls than the budget in any window.                     *)
RollingBudget == Cardinality(calls) <= Budget

(* A chain whose next motion is due, with nothing of it in flight, has a   *)
(* row left that will send it: its report did not come too early for the   *)
(* due time and too late for the row.                                      *)
Stranded(c) ==
    /\ c \in Live(0) /\ c \notin talked
    /\ sent[c] = finished[c]
    /\ <<c, sent[c] + 1>> \notin cues
NoneStranded == \A c \in Chains : ~Stranded(c)

(* No chain stays active for ever.                                         *)
ChainEnds == \A c \in Chains : c \in Active ~> c \notin Active
=============================================================================
