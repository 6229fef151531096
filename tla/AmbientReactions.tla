-------------------------- MODULE AmbientReactions --------------------------
(***************************************************************************)
(* Reactions without a message: a jolt of the robot, a presence before the *)
(* radar, a change of light, a scheduled announcement (events.py), with    *)
(* the tables cooldowns and accel_reaction_state (db.py), composed with    *)
(* the queue they come from.                                               *)
(*                                                                         *)
(* A jolt reserves its cooldowns before its words are chosen and saved; a  *)
(* presence or a change of light sets its cooldown after the words were    *)
(* delivered.  Words that were saved are delivered by every later attempt, *)
(* whatever the cooldowns say by then.                                     *)
(*                                                                         *)
(* The clock is relative: "left" is what remains of a cooldown, and the    *)
(* time since a reaction is counted up to Horizon.  Phrases are abstracted *)
(* to the key they are chosen for.  The motion that follows the words of a *)
(* jolt is in MotionChain.  The instances hold no events of other kinds.   *)
(***************************************************************************)
EXTENDS EventQueue, Sequences

CONSTANTS
    Shock,             (* [Jolts -> AccelKinds], event_detail as it came    *)
    ActiveCooldown,    (* accel_active_cooldown_seconds                     *)
    DefaultCooldown,   (* accel_default_cooldown_seconds                    *)
    Override,          (* dropped_override_seconds                          *)
    RadarCooldown,     (* radar_cooldown_seconds                            *)
    LightCooldown,     (* illuminance_cooldown_seconds                      *)
    Horizon,           (* bound: longer ago than this is all the same       *)
    MaxFaults          (* bound: POSTs that fail                            *)

DramaOrder == <<"dropped", "shaken", "upside_down", "lift", "beaten">>
Dramatic == {DramaOrder[i] : i \in DOMAIN DramaOrder}
AccelKinds == Dramatic \cup {"normal", "lying_down"}
ActiveKinds == {"beaten", "lift", "shaken"}

(* accel_reaction_key: a settle is handled as a lift.                      *)
ReactionKey(kind) == IF kind \in Dramatic THEN kind ELSE "lift"

(* The place in ACCEL_DRAMA_ORDER; a settle comes after all of them.       *)
Rank(kind) == IF kind \in Dramatic THEN CHOOSE i \in 1..5 : DramaOrder[i] = kind ELSE 6

KindCooldown(key) == IF key \in ActiveKinds THEN ActiveCooldown ELSE DefaultCooldown

Radars == OfKind("radar.detected")
Lights == OfKind("illuminance.changed")
Schedules == OfKind("schedule.custom")
Announcements == Radars \cup Lights \cup Schedules

ASSUME AmbientAssumption ==
    /\ Events = Jolts \cup Announcements
    /\ Shock \in [Jolts -> AccelKinds]
    /\ {ActiveCooldown, DefaultCooldown, RadarCooldown, LightCooldown}
          \subseteq 1..Horizon
    /\ Override \in 0..(Horizon - 1) /\ Horizon \in Nat /\ MaxFaults \in Nat

VARIABLES
    pc,            (* where the worker is in the event it processes         *)
    selected,      (* the key of the reaction it is about to choose         *)
    detail,        (* [Jolts -> AccelKinds], event_detail                   *)
    words,         (* [Events -> key], event_effects.response_text          *)
    delivered,     (* the events whose bocco_sent is set                    *)
    left,          (* [Cooldowns -> Nat], of next_allowed_at                *)
    lastKind,      (* accel_reaction_state: last_kind, ...                  *)
    since,         (* ... and how long ago last_reacted_at is               *)
    faults,        (* POSTs that failed                                     *)
    reactions,     (* the reservations made: event, key, how long ago       *)
    heard,         (* [Announcements -> 0..Horizon], how long ago the robot *)
                   (* said it                                               *)
    takenBy        (* [Jolts -> the event that took it over before it had   *)
                   (* words, or NoEvent]                                    *)

attemptVars == <<pc, selected>>
cooldownVars == <<left, lastKind, since>>
historyVars == <<reactions, heard, takenBy>>
ambientVars == <<attemptVars, detail, words, delivered, cooldownVars, faults, historyVars>>
vars == <<queueVars, ambientVars>>

Silence == "silence"
Cooldowns == {"reaction", "radar", "light"} \cup Dramatic

Init ==
    /\ QueueInit
    /\ pc = "idle" /\ selected = Silence
    /\ detail = Shock
    /\ words = [e \in Events |-> Silence]
    /\ delivered = {}
    /\ left = [k \in Cooldowns |-> 0]
    /\ lastKind = Silence /\ since = Horizon
    /\ faults = 0
    /\ reactions = <<>> /\ heard = [e \in Announcements |-> Horizon]
    /\ takenBy = [e \in Jolts |-> NoEvent]

Goto(l) == pc' = l
-----------------------------------------------------------------------------
(*                                   Jolts                                 *)

Claim(e) ==
    /\ ClaimNext(e)
    /\ Goto("received")
    /\ selected' = Silence
    /\ UNCHANGED <<detail, words, delivered, cooldownVars, faults, historyVars>>

Peers == {e \in Pending(Jolts) : ReceivedAt[e] = ReceivedAt[job]}

(* The most dramatic of the kinds, or the one that came if none is.        *)
MostDramatic(kinds, own) ==
    IF kinds \cap Dramatic = {} THEN own
    ELSE CHOOSE k \in kinds \cap Dramatic : \A x \in kinds \cap Dramatic : Rank(k) <= Rank(x)

MutantRecordKind(kind) == UNCHANGED detail
RecordKind(kind) == detail' = [detail EXCEPT ![job] = kind]

(* coalesce_same_second_accel: the pending jolts of the same second are    *)
(* completed, and the most dramatic kind becomes that of this event.       *)
TakePeers ==
    LET kind == MostDramatic({detail[e] : e \in Peers \cup {job}}, detail[job]) IN
    /\ pc = "received" /\ job \in Jolts
    /\ IF Peers = {} THEN UNCHANGED queueVars ELSE Coalesce
    /\ RecordKind(kind)
    /\ selected' = ReactionKey(kind)
    /\ takenBy' = [e \in Jolts |-> IF e \in Peers /\ words[job] = Silence
                                   THEN job ELSE takenBy[e]]
    /\ Goto("choosing")
    /\ UNCHANGED <<words, delivered, cooldownVars, faults, reactions, heard>>

Blocked(key) == {k \in {"reaction", key} : left[k] > 0}

MutantMayReact(key) == Blocked(key) \subseteq {"reaction"}

(* A drop is answered in spite of the cooldown that a lesser reaction of   *)
(* a moment ago has set.                                                   *)
MayReact(key) ==
    \/ Blocked(key) = {}
    \/ /\ key = "dropped" /\ key \notin Blocked(key)
       /\ lastKind \notin {Silence, "dropped"}
       /\ since <= Override

MutantKeepsWords == FALSE
KeepsWords == words[job] # Silence

(* reserve_accel_reaction, unless an earlier attempt has saved its words.  *)
ReserveReaction ==
    /\ pc = "choosing"
    /\ \/ /\ KeepsWords
          /\ Goto("delivering")
          /\ UNCHANGED <<cooldownVars, reactions>>
       \/ /\ ~KeepsWords /\ MayReact(selected)
          /\ left' = [left EXCEPT !["reaction"] = ActiveCooldown,
                                  ![selected] = KindCooldown(selected)]
          /\ lastKind' = selected /\ since' = 0
          /\ reactions' = Append(reactions, [event |-> job, key |-> selected, ago |-> 0])
          /\ Goto("reserved")
       \/ /\ ~KeepsWords /\ ~MayReact(selected)
          /\ Goto("done")
          /\ UNCHANGED <<cooldownVars, reactions>>
    /\ UNCHANGED <<queueVars, selected, detail, words, delivered, faults, heard, takenBy>>

SaveWords(key) == words' = [words EXCEPT ![job] = IF @ = Silence THEN key ELSE @]

SaveReaction ==
    /\ pc = "reserved"
    /\ SaveWords(selected)
    /\ Goto("delivering")
    /\ UNCHANGED <<queueVars, selected, detail, delivered, cooldownVars, faults, historyVars>>
-----------------------------------------------------------------------------
(*                              Announcements                              *)

(* The cooldown an announcement observes: schedules have none.             *)
CooldownOf(e) == IF e \in Radars THEN {"radar"} ELSE IF e \in Lights THEN {"light"} ELSE {}
Length(k) == IF k = "radar" THEN RadarCooldown ELSE LightCooldown

SetCooldown ==
    left' = [k \in Cooldowns |-> IF k \in CooldownOf(job) THEN Length(k) ELSE left[k]]

Ready == \A k \in CooldownOf(job) : left[k] = 0

LastAttempt == attempts[job] >= MaxAttempts

(* A presence has its phrase at hand; the others ask Hermes, which may     *)
(* fail.  The last failure is silent and, for a change of light, counts as *)
(* an announcement.  A change of light at another time of day is ignored.  *)
Announce ==
    /\ pc = "received" /\ job \in Announcements
    /\ \/ /\ job \in Lights
          /\ Goto("done")
          /\ UNCHANGED <<words, left>>
       \/ /\ words[job] # Silence
          /\ Goto("delivering")
          /\ UNCHANGED <<words, left>>
       \/ /\ words[job] = Silence /\ ~Ready
          /\ Goto("done")
          /\ UNCHANGED <<words, left>>
       \/ /\ words[job] = Silence /\ Ready
          /\ SaveWords("greeting")
          /\ Goto("delivering")
          /\ UNCHANGED left
       \/ /\ words[job] = Silence /\ Ready /\ job \notin Radars
          /\ ~LastAttempt
          /\ Goto("failed")
          /\ UNCHANGED <<words, left>>
       \/ /\ words[job] = Silence /\ Ready /\ job \notin Radars
          /\ LastAttempt
          /\ SetCooldown
          /\ Goto("done")
          /\ UNCHANGED words
    /\ UNCHANGED <<queueVars, selected, detail, delivered, lastKind, since, faults, historyVars>>
-----------------------------------------------------------------------------
(*                                 Delivery                                *)

Hear == heard' = [e \in Announcements |-> IF e = job THEN 0 ELSE heard[e]]

(* The POST; when it fails the platform may have accepted it all the same. *)
Deliver ==
    /\ pc = "delivering"
    /\ \/ /\ job \in delivered
          /\ Goto("delivered")
          /\ UNCHANGED <<faults, heard>>
       \/ /\ job \notin delivered
          /\ Hear
          /\ Goto("posted")
          /\ UNCHANGED faults
       \/ /\ job \notin delivered
          /\ faults < MaxFaults
          /\ faults' = faults + 1
          /\ Hear \/ UNCHANGED heard
          /\ Goto("failed")
    /\ UNCHANGED <<queueVars, selected, detail, words, delivered, cooldownVars,
                   reactions, takenBy>>

RecordDelivery ==
    /\ pc = "posted"
    /\ delivered' = delivered \cup {job}
    /\ Goto("delivered")
    /\ UNCHANGED <<queueVars, selected, detail, words, cooldownVars, faults, historyVars>>

MutantConclude ==
    /\ pc = "delivered"
    /\ Goto("done")
    /\ UNCHANGED <<queueVars, selected, detail, words, delivered, left, lastKind,
                   since, faults, historyVars>>

Conclude ==
    /\ pc = "delivered"
    /\ SetCooldown
    /\ Goto("done")
    /\ UNCHANGED <<queueVars, selected, detail, words, delivered, lastKind,
                   since, faults, historyVars>>

Settle ==
    /\ \/ pc = "done" /\ Complete
       \/ pc = "failed" /\ (Retry \/ DeadLetter)
    /\ Goto("idle")
    /\ UNCHANGED <<selected, detail, words, delivered, cooldownVars, faults, historyVars>>
-----------------------------------------------------------------------------
(*                             The world outside                           *)

Interrupt ==
    /\ Crash \/ Shutdown
    /\ Goto("idle")
    /\ selected' = Silence
    /\ UNCHANGED <<detail, words, delivered, cooldownVars, faults, historyVars>>

Older(ago) == IF ago < Horizon THEN ago + 1 ELSE ago

Tick ==
    /\ left' = [k \in Cooldowns |-> IF left[k] > 0 THEN left[k] - 1 ELSE 0]
    /\ since' = Older(since)
    /\ reactions' = [i \in DOMAIN reactions |-> [reactions[i] EXCEPT !.ago = Older(@)]]
    /\ heard' = [e \in Announcements |-> Older(heard[e])]
    /\ UNCHANGED <<queueVars, attemptVars, detail, words, delivered, lastKind,
                   faults, takenBy>>

Environment ==
    /\ \/ \E e \in Events : Enqueue(e) \/ BackoffElapses(e)
       \/ Start
       \/ Recover("worker")
    /\ UNCHANGED ambientVars

Process ==
    \/ \E e \in Events : Claim(e)
    \/ TakePeers \/ ReserveReaction \/ SaveReaction
    \/ Announce
    \/ Deliver \/ RecordDelivery \/ Conclude
    \/ Settle

Next == Process \/ Environment \/ Interrupt \/ Tick

Spec == Init /\ [][Next]_vars
-----------------------------------------------------------------------------
(*                               Properties                                *)

(* The cooldowns of jolts hold across retries, crashes and restarts: two   *)
(* reactions follow one another within the common cooldown only if the     *)
(* second answers a drop and the first did not, and two of one kind never  *)
(* within that kind's own.                                                 *)
ReactionsApart ==
    \A i, j \in DOMAIN reactions :
        LET first == reactions[i]
            second == reactions[j] IN
        i < j /\ first.ago < Horizon =>
            /\ first.ago - second.ago < ActiveCooldown
               => second.key = "dropped" /\ first.key # "dropped"
            /\ first.key = second.key
               => first.ago - second.ago >= KindCooldown(first.key)

(* A jolt that was taken over by another is answered at least as it        *)
(* deserves, even if the one that took it over was interrupted before its  *)
(* words were chosen.                                                      *)
DramaKept ==
    \A e \in Jolts :
        takenBy[e] # NoEvent /\ words[takenBy[e]] # Silence
            => Rank(words[takenBy[e]]) <= Rank(Shock[e])

(* A jolt is passed over only because another was answered not long ago,   *)
(* or because an interruption came between the reservation of its own      *)
(* reaction and its words: the cooldown it has set itself never silences   *)
(* it when it is tried again.                                              *)
QuietForCause ==
    [][pc = "choosing" /\ pc' = "done" =>
         \E i \in DOMAIN reactions :
            LET r == reactions[i] IN
            /\ \/ r.ago < ActiveCooldown
               \/ r.key = selected /\ r.ago < KindCooldown(selected)
            /\ r.event = job => interruptions > 0]_vars

(* Two presences, or two changes of light, are both answered within one    *)
(* cooldown only if an attempt at one of them failed or was interrupted:   *)
(* its saved words are spoken whatever the cooldown, and an attempt that   *)
(* broke off after the POST has set none.                                  *)
AtFirstAttempt(e) == attempts[e] = 1 /\ (status[e] = "completed" \/ job = e)

GreetingsApart ==
    \A e, f \in Announcements : \A k \in CooldownOf(e) \cap CooldownOf(f) :
        /\ e # f /\ AtFirstAttempt(e) /\ AtFirstAttempt(f)
        => Length(k) <= heard[e] \/ Length(k) <= heard[f]
=============================================================================
