---------------------------- MODULE AmbientProofs ----------------------------
(***************************************************************************)
(* Proofs about the reactions without a message, for any jolts, presences, *)
(* changes of light and schedules, any cooldowns and any number of         *)
(* attempts, faults and interruptions.                                     *)
(*                                                                         *)
(* The composition is a queue, so what is proved of the queue holds in it. *)
(* Beside that the invariant has a part for each promise: what the pending *)
(* jolts and the saved words keep of the drama (Drama); what the cooldowns *)
(* say of the reactions made (Cooled) and which of them have words         *)
(* (Voiced); and what the first attempts at announcements found and left   *)
(* (Greeted).                                                              *)
(***************************************************************************)
EXTENDS AmbientReactions, EventQueueProofs

Places == {"idle", "received", "choosing", "reserved", "delivering", "posted",
           "delivered", "done", "failed"}

Reactions == [event : Jolts, key : Dramatic, ago : 0..Horizon]

AmbientTypeOK ==
    /\ pc \in Places
    /\ pc = "idle" <=> job = NoEvent
    /\ detail \in [Jolts -> AccelKinds]
    /\ words \in [Events -> Dramatic \cup {"greeting", Silence}]
    /\ \A e \in Jolts : words[e] # "greeting"
    /\ left \in [Cooldowns -> Nat]
    /\ heard \in [Announcements -> 0..Horizon]
    /\ takenBy \in [Jolts -> Jolts \cup {NoEvent}]
    /\ since \in 0..Horizon
    /\ reactions \in Seq(Reactions)

(* Between the choice of a key and its words the event is a jolt and the    *)
(* key is that of its kind.                                                 *)
Chosen ==
    pc \in {"choosing", "reserved"} =>
        job \in Jolts /\ selected = ReactionKey(detail[job])

(*                              Kinds and events                            *)

LEMMA EventSets ==
    /\ Jolts \subseteq Events /\ Announcements \subseteq Events
    /\ Jolts \cap Announcements = {} /\ Events = Jolts \cup Announcements
    /\ Cues = {} /\ Background = {} /\ WorkerEvents = Events
    /\ NoEvent \notin Events
<1>1. Jolts \subseteq Events /\ Announcements \subseteq Events /\ NoEvent \notin Events
  BY EventQueueAssumption
     DEF EventQueueAssumption, Jolts, Announcements, Radars, Lights, Schedules, OfKind
<1>2. Events = Jolts \cup Announcements BY AmbientAssumption DEF AmbientAssumption
<1>3. \A e \in Jolts : Kind[e] = "accel.detected" BY DEF Jolts, OfKind
<1>4. \A e \in Announcements :
        Kind[e] \in {"radar.detected", "illuminance.changed", "schedule.custom"}
  BY DEF Announcements, Radars, Lights, Schedules, OfKind
<1>5. Jolts \cap Announcements = {} BY <1>3, <1>4
<1>6. Cues = {} BY <1>2, <1>3, <1>4 DEF Cues, OfKind
<1>7. Background = {} BY <1>2, <1>3, <1>4 DEF Background, BackgroundKinds
<1> QED BY <1>1, <1>2, <1>5, <1>6, <1>7 DEF WorkerEvents

(* The most dramatic kind has the first rank, a settle the last.            *)
LEMMA Ranks ==
    /\ \A k \in Dramatic : Rank(k) \in 1..5
    /\ \A k : k \notin Dramatic => Rank(k) = 6
    /\ \A k : ReactionKey(k) \in Dramatic /\ Rank(ReactionKey(k)) <= Rank(k)
    /\ Silence \notin Dramatic /\ "dropped" \in Dramatic /\ Dramatic \subseteq AccelKinds
    /\ \A k \in Dramatic : k \notin {"reaction", "radar", "light"}
<1>1. DOMAIN DramaOrder = 1..5 BY DEF DramaOrder
<1>2. \A k \in Dramatic : \E i \in 1..5 : DramaOrder[i] = k
  BY <1>1 DEF Dramatic
<1>3. \A k \in Dramatic : Rank(k) \in 1..5 BY <1>2 DEF Rank
<1>4. \A k : k \notin Dramatic => Rank(k) = 6 BY DEF Rank
<1>5. DramaOrder[1] = "dropped" /\ DramaOrder[4] = "lift" BY DEF DramaOrder
<1>6. "dropped" \in Dramatic /\ "lift" \in Dramatic BY <1>1, <1>5 DEF Dramatic
<1>7. \A i \in 1..5 : DramaOrder[i] \notin {Silence, "reaction", "radar", "light"}
  BY DEF DramaOrder, Silence
<1>8. Silence \notin Dramatic /\ \A k \in Dramatic : k \notin {"reaction", "radar", "light"}
  BY <1>2, <1>7
<1>9. \A k : ReactionKey(k) \in Dramatic /\ Rank(ReactionKey(k)) <= Rank(k)
  <2> SUFFICES ASSUME NEW k
               PROVE  ReactionKey(k) \in Dramatic /\ Rank(ReactionKey(k)) <= Rank(k)
      OBVIOUS
  <2>1. CASE k \in Dramatic
    <3>1. ReactionKey(k) = k BY <2>1 DEF ReactionKey
    <3> QED BY <1>3, <2>1, <3>1
  <2>2. CASE k \notin Dramatic
    <3>1. ReactionKey(k) = "lift" BY <2>2 DEF ReactionKey
    <3> QED BY <1>3, <1>4, <1>6, <2>2, <3>1
  <2> QED BY <2>1, <2>2
<1> QED BY <1>3, <1>4, <1>6, <1>8, <1>9 DEF AccelKinds

LEMMA Lengths ==
    /\ Horizon \in Nat /\ Override \in Nat /\ MaxFaults \in Nat
    /\ ActiveCooldown \in 1..Horizon /\ DefaultCooldown \in 1..Horizon
    /\ \A k : KindCooldown(k) \in 1..Horizon /\ Length(k) \in 1..Horizon
BY AmbientAssumption DEF AmbientAssumption, KindCooldown, Length
-----------------------------------------------------------------------------
(*                       The composition is a queue                         *)

LEMMA QueueStep == [Next]_vars => [QueueNext]_queueVars
<1> SUFFICES ASSUME [Next]_vars PROVE QueueNext \/ UNCHANGED queueVars
  OBVIOUS
<1>1. ASSUME NEW e \in Events, Claim(e) PROVE QueueNext
  BY <1>1 DEF Claim, QueueNext, WorkerStep
<1>2. CASE TakePeers BY <1>2 DEF TakePeers, QueueNext
<1>3. CASE ReserveReaction BY <1>3 DEF ReserveReaction
<1>4. CASE SaveReaction BY <1>4 DEF SaveReaction
<1>5. CASE Announce BY <1>5 DEF Announce
<1>6. CASE Deliver BY <1>6 DEF Deliver
<1>7. CASE RecordDelivery BY <1>7 DEF RecordDelivery
<1>8. CASE Conclude BY <1>8 DEF Conclude
<1>9. CASE Settle BY <1>9 DEF Settle, QueueNext, WorkerStep
<1>10. CASE Environment
  <2>1. "worker" \in Loops BY DEF Loops
  <2> QED BY <1>10, <2>1 DEF Environment, QueueNext
<1>11. CASE Interrupt BY <1>11 DEF Interrupt, QueueNext
<1>12. CASE Tick BY <1>12 DEF Tick
<1>13. CASE UNCHANGED vars BY <1>13 DEF vars
<1> QED BY <1>1, <1>2, <1>3, <1>4, <1>5, <1>6, <1>7, <1>8, <1>9, <1>10, <1>11, <1>12, <1>13
        DEF Next, Process

(* The reactions are made by a worker of the queue: what is promised of any *)
(* queue (EventQueue, DurableInbox) is promised of this one.                *)
THEOREM AmbientIsAQueue == Spec => QueueSpec
<1>1. Init => QueueInit BY DEF Init
<1> QED BY <1>1, QueueStep, PTL DEF Spec, QueueSpec

(* How a step treats the worker's event, the attempts and what is settled:  *)
(* only a claim counts an attempt, and only a settled or a taken-over event *)
(* becomes completed.                                                       *)
AsCompleted == \A f \in Events : status'[f] = "completed" <=> status[f] = "completed"

LEMMA ClaimFrame ==
    ASSUME IInv, NEW e \in Events, Claim(e)
    PROVE  /\ job = NoEvent /\ job' = e /\ pc' = "received"
           /\ status[e] = "pending" /\ status'[e] = "processing"
           /\ attempts' = [attempts EXCEPT ![e] = @ + 1]
           /\ AsCompleted /\ interruptions' = interruptions
<1>1. status[e] = "pending" BY WorkerClaim DEF Claim
<1> QED BY <1>1 DEF Claim, ClaimNext, MarkProcessing, IInv, TypeOK, Goto, AsCompleted

LEMMA TakeFrame ==
    ASSUME IInv, TakePeers
    PROVE  /\ job' = job /\ attempts' = attempts /\ interruptions' = interruptions
           /\ job \in Jolts
           /\ \A f \in Announcements : status'[f] = status[f]
<1>1. \A f \in Announcements : f \notin Pending(Jolts) BY EventSets DEF Pending
<1>2. CASE Peers = {} BY <1>2 DEF TakePeers, queueVars, rowVars, loopVars
<1>3. CASE Coalesce
  BY <1>1, <1>3, EventSets DEF Coalesce, loopVars, IInv, TypeOK, TakePeers
<1> QED BY <1>2, <1>3 DEF TakePeers

LEMMA SettleFrame ==
    ASSUME IInv, Settle
    PROVE  /\ pc \in {"done", "failed"} /\ pc' = "idle"
           /\ job \in Events /\ job' = NoEvent
           /\ attempts' = attempts /\ interruptions' = interruptions
           /\ \A f \in Events \ {job} : status'[f] = status[f]
           /\ pc = "failed" /\ status'[job] = "completed" => status[job] = "completed"
<1>1. job \in Events
  BY EventSets DEF Settle, Complete, Retry, DeadLetter, IInv, TypeOK
<1> QED BY <1>1 DEF Settle, Complete, Retry, DeadLetter, Requeue, Finish, IInv, TypeOK, Goto

LEMMA EnvironmentFrame ==
    ASSUME IInv, Environment
    PROVE  /\ job' = job /\ attempts' = attempts /\ interruptions' = interruptions
           /\ AsCompleted
<1>1. ASSUME NEW e \in Events, Enqueue(e)
      PROVE  job' = job /\ attempts' = attempts /\ interruptions' = interruptions /\ AsCompleted
  BY <1>1 DEF Enqueue, Insert, New, loopVars, AsCompleted, IInv, TypeOK
<1>2. ASSUME NEW e \in Events, BackoffElapses(e)
      PROVE  job' = job /\ attempts' = attempts /\ interruptions' = interruptions /\ AsCompleted
  BY <1>2 DEF BackoffElapses, loopVars, AsCompleted
<1>3. ASSUME Start
      PROVE  job' = job /\ attempts' = attempts /\ interruptions' = interruptions /\ AsCompleted
  BY <1>3, EventSets DEF Start, AsCompleted
<1>4. ASSUME Recover("worker")
      PROVE  job' = job /\ attempts' = attempts /\ interruptions' = interruptions /\ AsCompleted
  BY <1>4 DEF Recover, Stranded, AsCompleted
<1> QED BY <1>1, <1>2, <1>3, <1>4 DEF Environment

LEMMA InterruptFrame ==
    ASSUME IInv, Interrupt
    PROVE  /\ job' = NoEvent /\ pc' = "idle" /\ attempts' = attempts /\ AsCompleted
           /\ interruptions' = interruptions + 1
<1>1. CASE Crash BY <1>1 DEF Interrupt, Crash, Halt, rowVars, Goto, AsCompleted
<1>2. CASE Shutdown BY <1>2 DEF Interrupt, Shutdown, Halt, Goto, AsCompleted
<1> QED BY <1>1, <1>2 DEF Interrupt
-----------------------------------------------------------------------------
(*                            Types and places                              *)

LEMMA AmbientTypeInit == Init => AmbientTypeOK /\ Chosen
<1> SUFFICES ASSUME Init PROVE AmbientTypeOK /\ Chosen
  OBVIOUS
<1> USE EventSets, Ranks, Lengths, AmbientAssumption
<1>1. pc \in Places /\ (pc = "idle" <=> job = NoEvent) /\ Chosen
  BY DEF Init, QueueInit, Places, Chosen
<1>2. detail \in [Jolts -> AccelKinds] BY DEF Init, AmbientAssumption
<1>3. words \in [Events -> Dramatic \cup {"greeting", Silence}] /\ \A e \in Jolts : words[e] # "greeting"
  BY DEF Init, Silence
<1>4. left \in [Cooldowns -> Nat] /\ heard \in [Announcements -> 0..Horizon] /\ since \in 0..Horizon
  BY DEF Init
<1>5. takenBy \in [Jolts -> Jolts \cup {NoEvent}] BY DEF Init
<1>6. reactions \in Seq(Reactions) BY DEF Init
<1> QED BY <1>1, <1>2, <1>3, <1>4, <1>5, <1>6 DEF AmbientTypeOK

(* The most dramatic kind of a set is one of them, and none comes before it. *)
LEMMA MostDramaticKind ==
    ASSUME NEW kinds \in SUBSET AccelKinds, NEW own \in kinds
    PROVE  /\ MostDramatic(kinds, own) \in kinds
           /\ \A k \in kinds : Rank(MostDramatic(kinds, own)) <= Rank(k)
<1> DEFINE D == kinds \cap Dramatic
           Least(k) == \A x \in D : Rank(k) <= Rank(x)
<1>1. CASE D = {}
  <2>1. MostDramatic(kinds, own) = own BY <1>1 DEF MostDramatic
  <2> QED BY <1>1, <2>1, Ranks
<1>2. CASE D # {}
  <2>1. \E k \in D : Least(k)
    <3>1. \A x \in D : Rank(x) \in 1..5 BY Ranks
    <3> DEFINE At(i) == \E x \in D : Rank(x) = i
    <3> HIDE DEF At
    <3>2. \A i : At(i) => \E x \in D : Rank(x) = i BY DEF At
    <3>3. \A x \in D : At(Rank(x)) BY DEF At
    <3>4. At(1) \/ At(2) \/ At(3) \/ At(4) \/ At(5)
      <4>1. PICK x \in D : TRUE BY <1>2
      <4> HIDE DEF D
      <4> QED BY <3>1, <3>3, <4>1
    <3>5. \E i \in 1..5 : At(i) /\ \A n \in 1..5 : n < i => ~At(n)
      BY <3>4
    <3>6. PICK i \in 1..5 : At(i) /\ \A n \in 1..5 : n < i => ~At(n) BY <3>5
    <3>7. PICK k \in D : Rank(k) = i BY <3>2, <3>6
    <3>8. ASSUME NEW x \in D PROVE i <= Rank(x)
      <4>1. Rank(x) \in 1..5 /\ At(Rank(x)) BY <3>1, <3>3
      <4> QED BY <3>6, <4>1
    <3> QED BY <3>7, <3>8
  <2> DEFINE m == CHOOSE k \in D : Least(k)
  <2>2. MostDramatic(kinds, own) = m BY <1>2 DEF MostDramatic
  <2>3. m \in D /\ Least(m) BY <2>1
  <2>4. ASSUME NEW k \in kinds PROVE Rank(m) <= Rank(k)
    <3>1. CASE k \in D BY <2>3, <3>1
    <3>2. CASE k \notin D
      <4>1. Rank(k) = 6 /\ Rank(m) \in 1..5 BY <2>3, <3>2, Ranks
      <4> QED BY <4>1
    <3> QED BY <3>1, <3>2
  <2> HIDE DEF m
  <2> QED BY <2>2, <2>3, <2>4
<1> QED BY <1>1, <1>2

(* What TakePeers records is the kind of one of the jolts it has gathered.  *)
Gathered == Peers \cup {job}
Chief == MostDramatic({detail[e] : e \in Gathered}, detail[job])

LEMMA Taking ==
    ASSUME AmbientTypeOK, TakePeers
    PROVE  /\ detail' = [detail EXCEPT ![job] = Chief] /\ Chief \in AccelKinds
           /\ selected' = ReactionKey(Chief)
           /\ job \in Jolts /\ Peers \subseteq Jolts
           /\ \A e \in Gathered : Rank(Chief) <= Rank(detail[e])
<1>1. job \in Jolts /\ Peers \subseteq Jolts BY DEF TakePeers, Peers, Pending
<1>2. detail' = [detail EXCEPT ![job] = Chief] /\ selected' = ReactionKey(Chief)
  BY DEF TakePeers, RecordKind, Chief, Gathered
<1> DEFINE kinds == {detail[e] : e \in Gathered}
<1>3. kinds \in SUBSET AccelKinds /\ detail[job] \in kinds
  BY <1>1 DEF Gathered, AmbientTypeOK
<1>4. Chief \in kinds /\ \A k \in kinds : Rank(Chief) <= Rank(k)
  <2> HIDE DEF kinds
  <2>1. Chief = MostDramatic(kinds, detail[job]) BY DEF Chief, kinds
  <2> QED BY <1>3, <2>1, MostDramaticKind
<1>5. \A e \in Gathered : detail[e] \in kinds OBVIOUS
<1> HIDE DEF kinds
<1> QED BY <1>1, <1>2, <1>3, <1>4, <1>5

LEMMA TickReactions ==
    ASSUME AmbientTypeOK, Tick
    PROVE  /\ Len(reactions') = Len(reactions)
           /\ reactions' \in Seq(Reactions)
           /\ \A i \in 1..Len(reactions) :
                /\ reactions'[i].event = reactions[i].event
                /\ reactions'[i].key = reactions[i].key
                /\ reactions'[i].ago = Older(reactions[i].ago)
<1>1. reactions \in Seq(Reactions) BY DEF AmbientTypeOK
<1>2. ASSUME NEW i \in 1..Len(reactions)
      PROVE  /\ reactions[i] \in Reactions
             /\ [reactions[i] EXCEPT !.ago = Older(reactions[i].ago)] \in Reactions
             /\ [reactions[i] EXCEPT !.ago = Older(reactions[i].ago)]
                  = [event |-> reactions[i].event, key |-> reactions[i].key,
                     ago |-> Older(reactions[i].ago)]
  <2>1. reactions[i] \in Reactions BY <1>1, <1>2
  <2>2. PICK r \in Reactions : r = reactions[i] BY <2>1
  <2>3. Older(r.ago) \in 0..Horizon BY <2>2, Lengths DEF Reactions, Older
  <2>4. [r EXCEPT !.ago = Older(r.ago)] \in Reactions
        /\ [r EXCEPT !.ago = Older(r.ago)]
             = [event |-> r.event, key |-> r.key, ago |-> Older(r.ago)]
    <3>1. PICK ev \in Jolts, key \in Dramatic, a \in 0..Horizon :
            r = [event |-> ev, key |-> key, ago |-> a]
      BY DEF Reactions
    <3> DEFINE t == Older(r.ago)
    <3>2. t \in 0..Horizon BY <2>3
    <3> HIDE DEF t
    <3>3. [r EXCEPT !.ago = t] = [event |-> r.event, key |-> r.key, ago |-> t]
      BY <3>1
    <3>4. [event |-> ev, key |-> key, ago |-> t] \in Reactions BY <3>2 DEF Reactions
    <3> QED BY <3>1, <3>3, <3>4 DEF t
  <2> QED BY <2>1, <2>2, <2>4
<1>3. reactions' = [i \in DOMAIN reactions |-> [reactions[i] EXCEPT !.ago = Older(@)]]
  BY DEF Tick
<1>4. DOMAIN reactions = 1..Len(reactions) /\ Len(reactions) \in Nat BY <1>1
<1> DEFINE next(i) == [reactions[i] EXCEPT !.ago = Older(reactions[i].ago)]
           s == [i \in 1..Len(reactions) |-> next(i)]
<1>5. reactions' = s BY <1>3, <1>4
<1>6. \A i \in 1..Len(reactions) :
         /\ next(i) \in Reactions
         /\ next(i) = [event |-> reactions[i].event, key |-> reactions[i].key,
                       ago |-> Older(reactions[i].ago)]
  BY <1>2
<1> HIDE DEF next
<1>7. s \in Seq(Reactions) /\ Len(s) = Len(reactions) BY <1>4, <1>6
<1>8. \A i \in 1..Len(reactions) : s[i] = next(i) OBVIOUS
<1> HIDE DEF s
<1> QED BY <1>5, <1>6, <1>7, <1>8

(* What a reservation sets: the common cooldown and that of the key.        *)
LEMMA Reserving ==
    ASSUME AmbientTypeOK, Chosen, ReserveReaction
    PROVE  \/ UNCHANGED <<cooldownVars, reactions>> /\ pc' \in {"delivering", "done"}
           \/ /\ pc' = "reserved" /\ MayReact(selected) /\ words[job] = Silence
              /\ left' \in [Cooldowns -> Nat]
              /\ left'["reaction"] = ActiveCooldown
              /\ left'[selected] = KindCooldown(selected)
              /\ \A k \in Cooldowns \ {"reaction", selected} : left'[k] = left[k]
              /\ lastKind' = selected /\ since' = 0
              /\ reactions' = Append(reactions, [event |-> job, key |-> selected, ago |-> 0])
<1> USE Ranks, Lengths DEF Goto
<1>1. selected \in Dramatic BY DEF Chosen, ReserveReaction
<1>2. selected \in Cooldowns /\ "reaction" \in Cooldowns /\ selected # "reaction"
  BY <1>1 DEF Cooldowns
<1>3. CASE /\ ~KeepsWords /\ MayReact(selected)
           /\ left' = [left EXCEPT !["reaction"] = ActiveCooldown,
                                   ![selected] = KindCooldown(selected)]
           /\ lastKind' = selected /\ since' = 0
           /\ reactions' = Append(reactions, [event |-> job, key |-> selected, ago |-> 0])
           /\ Goto("reserved")
  <2> DEFINE once == [left EXCEPT !["reaction"] = ActiveCooldown]
  <2>1. /\ once \in [Cooldowns -> Nat] /\ once["reaction"] = ActiveCooldown
        /\ \A k \in Cooldowns \ {"reaction"} : once[k] = left[k]
    BY <1>2 DEF AmbientTypeOK
  <2>2. left' = [once EXCEPT ![selected] = KindCooldown(selected)] BY <1>3
  <2> HIDE DEF once
  <2>3. KindCooldown(selected) \in Nat OBVIOUS
  <2> DEFINE c == KindCooldown(selected)
  <2> HIDE DEF c
  <2>4. /\ left' \in [Cooldowns -> Nat] /\ left'["reaction"] = ActiveCooldown
        /\ left'[selected] = c
        /\ \A k \in Cooldowns \ {"reaction", selected} : left'[k] = left[k]
    BY <1>2, <2>1, <2>2, <2>3 DEF c
  <2> QED BY <1>3, <2>4 DEF c, KeepsWords
<1> QED BY <1>3 DEF ReserveReaction

LEMMA AmbientTypeStep ==
    ASSUME IInv, AmbientTypeOK, Chosen, [Next]_vars
    PROVE  AmbientTypeOK' /\ Chosen'
<1> USE EventSets, Ranks, Lengths DEF AmbientTypeOK, Chosen, Places, Goto
<1> DEFINE Goal == AmbientTypeOK' /\ Chosen'
<1>1. ASSUME NEW e \in Events, Claim(e) PROVE Goal
  BY <1>1, ClaimFrame DEF Claim, cooldownVars, historyVars
<1>2. CASE TakePeers
  <2>1. /\ pc' = "choosing" /\ job' = job /\ job \in Jolts
        /\ UNCHANGED <<words, left, lastKind, since, reactions, heard>>
    BY <1>2, TakeFrame DEF TakePeers, cooldownVars
  <2>2. /\ detail' \in [Jolts -> AccelKinds] /\ detail'[job] = Chief
        /\ selected' = ReactionKey(Chief)
    BY <1>2, Taking
  <2>3. takenBy' \in [Jolts -> Jolts \cup {NoEvent}] BY <1>2 DEF TakePeers
  <2> QED BY <2>1, <2>2, <2>3
<1>3. CASE ReserveReaction
  <2>1. /\ pc' \in {"delivering", "reserved", "done"} /\ pc # "idle" /\ job' = job
        /\ pc' = "reserved" => pc = "choosing"
        /\ UNCHANGED <<selected, detail, words, heard, takenBy>>
    BY <1>3 DEF ReserveReaction, queueVars, loopVars
  <2>3. job \in Jolts /\ selected \in Dramatic BY <1>3 DEF ReserveReaction
  <2>2. left' \in [Cooldowns -> Nat] /\ since' \in 0..Horizon
    BY <1>3, Reserving DEF cooldownVars
  <2>4. reactions' \in Seq(Reactions)
    <3>1. CASE UNCHANGED reactions BY <3>1
    <3>2. CASE reactions' = Append(reactions, [event |-> job, key |-> selected, ago |-> 0])
      <4>1. [event |-> job, key |-> selected, ago |-> 0] \in Reactions
        BY <2>3 DEF Reactions
      <4> QED BY <3>2, <4>1
    <3> QED BY <1>3, <3>1, <3>2 DEF ReserveReaction
  <2> QED BY <2>1, <2>2, <2>3, <2>4
<1>4. CASE SaveReaction
  <2>1. job' = job /\ job \in Jolts /\ selected \in Dramatic /\ pc' = "delivering"
        /\ pc # "idle"
        /\ UNCHANGED <<detail, left, lastKind, since, reactions, heard, takenBy>>
    BY <1>4 DEF SaveReaction, queueVars, loopVars, cooldownVars, historyVars
  <2>2. words' = [words EXCEPT ![job] = IF words[job] = Silence THEN selected ELSE words[job]]
    BY <1>4 DEF SaveReaction, SaveWords
  <2>3. selected # "greeting" BY <2>1 DEF Dramatic, DramaOrder
  <2> QED BY <2>1, <2>2, <2>3
<1>5. CASE Announce
  <2>1. /\ pc' \in {"done", "delivering", "failed"} /\ pc # "idle" /\ job' = job
        /\ job \in Announcements
        /\ UNCHANGED <<detail, since, reactions, heard, takenBy>>
    BY <1>5 DEF Announce, queueVars, loopVars, historyVars
  <2>2. left' \in [Cooldowns -> Nat] BY <1>5 DEF Announce, SetCooldown
  <2>3. words' = words \/ words' = [words EXCEPT ![job] = IF words[job] = Silence
                                                         THEN "greeting" ELSE words[job]]
    BY <1>5 DEF Announce, SaveWords
  <2> QED BY <2>1, <2>2, <2>3
<1>6. CASE Deliver
  <2>1. /\ pc' \in {"delivered", "posted", "failed"} /\ pc # "idle" /\ job' = job
        /\ UNCHANGED <<detail, words, left, since, reactions, takenBy>>
    BY <1>6 DEF Deliver, queueVars, loopVars, cooldownVars
  <2>2. heard' \in [Announcements -> 0..Horizon] BY <1>6 DEF Deliver, Hear
  <2> QED BY <2>1, <2>2
<1>7. CASE RecordDelivery
  BY <1>7 DEF RecordDelivery, queueVars, loopVars, cooldownVars, historyVars
<1>8. CASE Conclude
  <2>1. left' \in [Cooldowns -> Nat] BY <1>8 DEF Conclude, SetCooldown
  <2> QED BY <1>8, <2>1 DEF Conclude, queueVars, loopVars, historyVars
<1>9. CASE Settle
  BY <1>9, SettleFrame DEF Settle, cooldownVars, historyVars
<1>10. CASE Environment
  BY <1>10, EnvironmentFrame DEF Environment, ambientVars, attemptVars, cooldownVars, historyVars
<1>11. CASE Interrupt
  BY <1>11, InterruptFrame DEF Interrupt, cooldownVars, historyVars
<1>12. CASE Tick
  <2>1. left' \in [Cooldowns -> Nat] BY <1>12 DEF Tick
  <2>2. heard' \in [Announcements -> 0..Horizon] /\ since' \in 0..Horizon
    BY <1>12 DEF Tick, Older
  <2>3. reactions' \in Seq(Reactions) BY <1>12, TickReactions
  <2>4. UNCHANGED <<pc, job, selected, detail, words, takenBy>>
    BY <1>12 DEF Tick, queueVars, loopVars, attemptVars
  <2> QED BY <2>1, <2>2, <2>3, <2>4
<1>13. CASE UNCHANGED vars
  BY <1>13 DEF vars, queueVars, loopVars, ambientVars, attemptVars, cooldownVars, historyVars
<1> QED BY <1>1, <1>2, <1>3, <1>4, <1>5, <1>6, <1>7, <1>8, <1>9, <1>10, <1>11, <1>12, <1>13
        DEF Next, Process
-----------------------------------------------------------------------------
(*                                  Drama                                   *)

(* A jolt's kind only becomes more dramatic, and while the event that took  *)
(* another over has no words yet, its kind is no less than the other's.     *)
Drama ==
    /\ \A e \in Jolts : Rank(detail[e]) <= Rank(Shock[e])
    /\ \A e \in Jolts :
         takenBy[e] # NoEvent /\ words[takenBy[e]] = Silence
            => Rank(detail[takenBy[e]]) <= Rank(Shock[e])
    /\ DramaKept

LEMMA AllRanked == \A k : Rank(k) \in 1..6
<1> SUFFICES ASSUME NEW k PROVE Rank(k) \in 1..6
  OBVIOUS
<1>1. CASE k \in Dramatic BY <1>1, Ranks
<1>2. CASE k \notin Dramatic BY <1>2, Ranks
<1> QED BY <1>1, <1>2

LEMMA DramaInit == Init => Drama
BY AllRanked DEF Init, Drama, DramaKept

(* Only two steps touch what the drama is about.                            *)
LEMMA DramaSteps ==
    ASSUME IInv, AmbientTypeOK, Chosen, [Next]_vars
    PROVE  \/ TakePeers \/ SaveReaction
           \/ /\ UNCHANGED <<detail, takenBy>>
              /\ \A e \in Jolts : words'[e] = words[e]
<1> DEFINE Same == UNCHANGED <<detail, takenBy>> /\ \A e \in Jolts : words'[e] = words[e]
<1>1. ASSUME NEW e \in Events, Claim(e) PROVE Same BY <1>1 DEF Claim, historyVars
<1>2. CASE ReserveReaction BY <1>2 DEF ReserveReaction
<1>3. CASE Announce
  <2>1. job \in Announcements /\ UNCHANGED <<detail, takenBy>>
    BY <1>3 DEF Announce, historyVars
  <2>2. words' = words \/ words' = [words EXCEPT ![job] = IF words[job] = Silence
                                                         THEN "greeting" ELSE words[job]]
    BY <1>3 DEF Announce, SaveWords
  <2> QED BY <2>1, <2>2, EventSets DEF AmbientTypeOK
<1>4. CASE Deliver BY <1>4 DEF Deliver
<1>5. CASE RecordDelivery BY <1>5 DEF RecordDelivery, historyVars
<1>6. CASE Conclude BY <1>6 DEF Conclude, historyVars
<1>7. CASE Settle BY <1>7 DEF Settle, historyVars
<1>8. CASE Environment BY <1>8 DEF Environment, ambientVars, historyVars
<1>9. CASE Interrupt BY <1>9 DEF Interrupt, historyVars
<1>10. CASE Tick BY <1>10 DEF Tick
<1>11. CASE UNCHANGED vars BY <1>11 DEF vars, ambientVars, historyVars
<1> QED BY <1>1, <1>2, <1>3, <1>4, <1>5, <1>6, <1>7, <1>8, <1>9, <1>10, <1>11
        DEF Next, Process

LEMMA DramaStep ==
    ASSUME IInv, AmbientTypeOK, Chosen, Drama, [Next]_vars
    PROVE  Drama'
<1> USE AllRanked, EventSets
<1>1. CASE TakePeers
  <2>1. /\ job \in Jolts /\ Peers \subseteq Jolts /\ detail'[job] = Chief
        /\ \A e \in Jolts \ {job} : detail'[e] = detail[e]
        /\ \A e \in Gathered : Rank(Chief) <= Rank(detail[e])
    BY <1>1, Taking DEF AmbientTypeOK
  <2>2. words' = words BY <1>1 DEF TakePeers
  <2>3. \A e \in Jolts : Rank(detail'[e]) <= Rank(detail[e])
    BY <2>1 DEF Gathered
  <2>4. ASSUME NEW e \in Jolts PROVE Rank(detail'[e]) <= Rank(Shock[e])
    BY <2>3 DEF Drama
  <2>5. \A e \in Jolts : \/ takenBy'[e] = takenBy[e]
                         \/ e \in Peers /\ takenBy'[e] = job /\ words[job] = Silence
    BY <1>1 DEF TakePeers
  <2>6. ASSUME NEW e \in Jolts, takenBy'[e] # NoEvent, words[takenBy'[e]] = Silence
        PROVE  Rank(detail'[takenBy'[e]]) <= Rank(Shock[e])
    <3>1. CASE takenBy'[e] = takenBy[e]
      <4>1. takenBy[e] \in Jolts BY <2>6, <3>1 DEF AmbientTypeOK
      <4>2. Rank(detail'[takenBy[e]]) <= Rank(detail[takenBy[e]]) BY <2>3, <4>1
      <4>3. Rank(detail[takenBy[e]]) <= Rank(Shock[e]) BY <2>6, <3>1 DEF Drama
      <4> QED BY <3>1, <4>2, <4>3
    <3>2. CASE e \in Peers /\ takenBy'[e] = job
      <4>1. Rank(Chief) <= Rank(detail[e]) BY <2>1, <3>2 DEF Gathered
      <4>2. Rank(detail[e]) <= Rank(Shock[e]) BY DEF Drama
      <4> QED BY <2>1, <3>2, <4>1, <4>2
    <3> QED BY <2>5, <3>1, <3>2
  <2>7. ASSUME NEW e \in Jolts, takenBy'[e] # NoEvent, words[takenBy'[e]] # Silence
        PROVE  Rank(words[takenBy'[e]]) <= Rank(Shock[e])
    BY <2>5, <2>7 DEF Drama, DramaKept
  <2> QED BY <2>2, <2>4, <2>6, <2>7 DEF Drama, DramaKept
<1>2. CASE SaveReaction
  <2>1. /\ job \in Jolts /\ selected = ReactionKey(detail[job])
        /\ UNCHANGED <<detail, takenBy>>
    BY <1>2 DEF SaveReaction, Chosen, historyVars
  <2>2. words' = [words EXCEPT ![job] = IF words[job] = Silence THEN selected ELSE words[job]]
    BY <1>2 DEF SaveReaction, SaveWords
  <2>3. Rank(selected) <= Rank(detail[job]) /\ selected # Silence BY <2>1, Ranks
  <2>4. /\ \A e \in Events \ {job} : words'[e] = words[e]
        /\ words'[job] = (IF words[job] = Silence THEN selected ELSE words[job])
    BY <2>1, <2>2 DEF AmbientTypeOK
  <2>5. ASSUME NEW e \in Jolts, takenBy[e] # NoEvent
        PROVE  /\ words'[takenBy[e]] = Silence => Rank(detail[takenBy[e]]) <= Rank(Shock[e])
               /\ words'[takenBy[e]] # Silence => Rank(words'[takenBy[e]]) <= Rank(Shock[e])
    <3>1. takenBy[e] \in Jolts BY <2>5 DEF AmbientTypeOK
    <3>2. /\ words[takenBy[e]] = Silence => Rank(detail[takenBy[e]]) <= Rank(Shock[e])
          /\ words[takenBy[e]] # Silence => Rank(words[takenBy[e]]) <= Rank(Shock[e])
      BY <2>5 DEF Drama, DramaKept
    <3>3. CASE takenBy[e] = job /\ words[job] = Silence
      BY <2>3, <2>4, <3>2, <3>3
    <3>4. CASE ~(takenBy[e] = job /\ words[job] = Silence)
      <4>1. words'[takenBy[e]] = words[takenBy[e]] BY <2>4, <3>1, <3>4
      <4> QED BY <3>2, <4>1
    <3> QED BY <3>3, <3>4
  <2> QED BY <2>1, <2>5 DEF Drama, DramaKept
<1>3. CASE UNCHANGED <<detail, takenBy>> /\ \A e \in Jolts : words'[e] = words[e]
  BY <1>3 DEF Drama, DramaKept, AmbientTypeOK
<1> QED BY <1>1, <1>2, <1>3, DramaSteps
-----------------------------------------------------------------------------
(*                          Cooldowns and reactions                         *)

Made == 1..Len(reactions)

(* The reactions are in order of time and the last one is what the table    *)
(* remembers.  A cooldown that has not run out stems from a reaction, and   *)
(* no reaction's cooldown has run out before its time.                      *)
InTime == \A i, j \in Made : i <= j => reactions[j].ago <= reactions[i].ago

Remembered ==
    IF Made = {} THEN lastKind = Silence
    ELSE /\ lastKind = reactions[Len(reactions)].key
         /\ since = reactions[Len(reactions)].ago

NotTooSoon ==
    \A i \in Made :
        /\ left["reaction"] + reactions[i].ago >= ActiveCooldown
        /\ left[reactions[i].key] + reactions[i].ago >= KindCooldown(reactions[i].key)

NotTooLate ==
    /\ left["reaction"] > 0 =>
         \E i \in Made : left["reaction"] + reactions[i].ago <= ActiveCooldown
    /\ \A k \in Dramatic : left[k] > 0 =>
         \E i \in Made : /\ reactions[i].key = k
                         /\ left[k] + reactions[i].ago <= KindCooldown(k)

Cooled == InTime /\ Remembered /\ NotTooSoon /\ NotTooLate /\ ReactionsApart

LEMMA CooledInit == Init => Cooled
<1> SUFFICES ASSUME Init PROVE Cooled
  OBVIOUS
<1>1. Made = {} /\ reactions = <<>> /\ lastKind = Silence BY DEF Init, Made
<1>2. \A k \in {"reaction"} \cup Dramatic : left[k] = 0 BY DEF Init, Cooldowns
<1>3. ReactionsApart BY <1>1 DEF ReactionsApart
<1>4. InTime /\ NotTooSoon BY <1>1 DEF InTime, NotTooSoon
<1>5. Remembered BY <1>1 DEF Remembered
<1>6. NotTooLate
  <2>1. ~(left["reaction"] > 0) BY <1>2
  <2>2. ASSUME NEW k \in Dramatic PROVE ~(left[k] > 0)
    <3>1. left[k] = 0 BY <1>2
    <3> QED BY <3>1
  <2> QED BY <2>1, <2>2 DEF NotTooLate
<1> QED BY <1>3, <1>4, <1>5, <1>6 DEF Cooled

(* What a step does to the cooldowns of the jolts and to the reactions.     *)
NothingCooled ==
    /\ UNCHANGED <<lastKind, since, reactions>>
    /\ \A k \in {"reaction"} \cup Dramatic : left'[k] = left[k]

Reserved ==
    /\ pc = "choosing" /\ pc' = "reserved" /\ job \in Jolts /\ job' = job
    /\ selected \in Dramatic /\ MayReact(selected)
    /\ words[job] = Silence /\ words' = words
    /\ left'["reaction"] = ActiveCooldown
    /\ left'[selected] = KindCooldown(selected)
    /\ \A k \in Dramatic \ {selected} : left'[k] = left[k]
    /\ lastKind' = selected /\ since' = 0
    /\ reactions' = Append(reactions, [event |-> job, key |-> selected, ago |-> 0])

LEMMA CooldownSteps ==
    ASSUME IInv, AmbientTypeOK, Chosen, [Next]_vars
    PROVE  Reserved \/ Tick \/ NothingCooled
<1> USE Ranks DEF NothingCooled, cooldownVars
<1>1. ASSUME NEW e \in Events, Claim(e) PROVE NothingCooled
  BY <1>1 DEF Claim, historyVars
<1>2. CASE TakePeers BY <1>2 DEF TakePeers
<1>3. CASE ReserveReaction
  <2>1. job \in Jolts /\ selected \in Dramatic /\ pc = "choosing" /\ job' = job /\ words' = words
    BY <1>3 DEF ReserveReaction, Chosen, queueVars, loopVars
  <2>2. \A k \in Dramatic \ {selected} : k \in Cooldowns \ {"reaction", selected}
    BY DEF Cooldowns
  <2> QED BY <1>3, <2>1, <2>2, Reserving DEF Reserved
<1>4. CASE SaveReaction BY <1>4 DEF SaveReaction, historyVars
<1> DEFINE Kept == \A k \in {"reaction"} \cup Dramatic : left'[k] = left[k]
<1>5. SetCooldown => Kept
  BY DEF SetCooldown, CooldownOf, Cooldowns
<1>6. CASE Announce
  <2>1. left' = left \/ SetCooldown BY <1>6 DEF Announce
  <2> QED BY <1>5, <1>6, <2>1 DEF Announce, historyVars
<1>7. CASE Deliver BY <1>7 DEF Deliver
<1>8. CASE RecordDelivery BY <1>8 DEF RecordDelivery, historyVars
<1>9. CASE Conclude BY <1>5, <1>9 DEF Conclude, historyVars
<1>10. CASE Settle BY <1>10 DEF Settle, historyVars
<1>11. CASE Environment BY <1>11 DEF Environment, ambientVars, historyVars
<1>12. CASE Interrupt BY <1>12 DEF Interrupt, historyVars
<1>13. CASE UNCHANGED vars BY <1>13 DEF vars, ambientVars, historyVars
<1> QED BY <1>1, <1>2, <1>3, <1>4, <1>6, <1>7, <1>8, <1>9, <1>10, <1>11, <1>12, <1>13
        DEF Next, Process

(* Reactions are records of the expected kind.                              *)
LEMMA EachReaction ==
    ASSUME AmbientTypeOK
    PROVE  /\ Len(reactions) \in Nat /\ DOMAIN reactions = Made
           /\ \A i \in Made : /\ reactions[i].ago \in 0..Horizon
                              /\ reactions[i].key \in Dramatic
                              /\ reactions[i].event \in Jolts
           /\ \A k \in {"reaction"} \cup Dramatic : left[k] \in Nat
<1>1. reactions \in Seq(Reactions) BY DEF AmbientTypeOK
<1>2. Len(reactions) \in Nat /\ DOMAIN reactions = Made BY <1>1 DEF Made
<1>3. \A i \in Made : reactions[i] \in Reactions BY <1>1 DEF Made
<1>4. \A r \in Reactions : r.ago \in 0..Horizon /\ r.key \in Dramatic /\ r.event \in Jolts
  BY DEF Reactions
<1>5. \A k \in {"reaction"} \cup Dramatic : left[k] \in Nat BY DEF AmbientTypeOK, Cooldowns
<1> QED BY <1>2, <1>3, <1>4, <1>5

(* A reservation comes after the cooldowns of all that were made before it. *)
LEMMA ReservedApart ==
    ASSUME AmbientTypeOK, Cooled, Reserved, NEW i \in Made
    PROVE  /\ reactions[i].ago < ActiveCooldown
              => selected = "dropped" /\ reactions[i].key # "dropped"
           /\ reactions[i].key = selected => reactions[i].ago >= KindCooldown(selected)
<1> USE EachReaction, Lengths, Ranks
<1> DEFINE n == Len(reactions)
<1>1. left[selected] = 0
  <2>1. \A k : k \in Blocked(selected) <=> k \in {"reaction", selected} /\ left[k] > 0
    BY DEF Blocked
  <2>2. selected \notin Blocked(selected)
    BY DEF Reserved, MayReact
  <2>3. left[selected] \in Nat BY DEF Reserved
  <2> QED BY <2>1, <2>2, <2>3
<1>2. reactions[i].key = selected => reactions[i].ago >= KindCooldown(selected)
  <2>1. left[reactions[i].key] + reactions[i].ago >= KindCooldown(reactions[i].key)
    BY DEF Cooled, NotTooSoon
  <2> SUFFICES ASSUME reactions[i].key = selected
               PROVE  reactions[i].ago >= KindCooldown(selected)
      OBVIOUS
  <2> QED BY <1>1, <2>1
<1>3. ASSUME reactions[i].ago < ActiveCooldown
      PROVE  selected = "dropped" /\ reactions[i].key # "dropped"
  <2>1. left["reaction"] + reactions[i].ago >= ActiveCooldown BY DEF Cooled, NotTooSoon
  <2>2. left["reaction"] > 0
    <3>1. left["reaction"] \in Nat /\ reactions[i].ago \in 0..Horizon OBVIOUS
    <3> QED BY <1>3, <2>1, <3>1
  <2>3. Blocked(selected) # {} BY <2>2 DEF Blocked
  <2>4. selected = "dropped" /\ lastKind \notin {Silence, "dropped"}
    BY <2>3 DEF Reserved, MayReact
  <2>5. n \in Made /\ i <= n BY DEF Made
  <2>8. Made # {} BY <2>5
  <2>6. reactions[n].key # "dropped" BY <2>4, <2>8 DEF Cooled, Remembered
  <2>7. reactions[i].key # "dropped"
    <3>1. SUFFICES ASSUME reactions[i].key = "dropped" PROVE FALSE
      OBVIOUS
    <3>2. i < n
      <4>1. i # n BY <2>6, <3>1
      <4>2. i \in Int /\ n \in Int BY DEF Made
      <4> HIDE DEF n
      <4> QED BY <2>5, <4>1, <4>2
    <3>3. /\ reactions[i].ago \in 0..Horizon /\ reactions[n].ago \in 0..Horizon
      BY <2>5
    <3>4. reactions[i].ago < Horizon BY <1>3, <3>3
    <3>5. reactions[i].ago - reactions[n].ago < ActiveCooldown BY <1>3, <3>3
    <3>6. reactions[i].ago - reactions[n].ago < ActiveCooldown => reactions[n].key = "dropped"
      BY <2>5, <3>2, <3>4 DEF Cooled, ReactionsApart
    <3> QED BY <2>6, <3>5, <3>6
  <2> QED BY <2>4, <2>7
<1> QED BY <1>2, <1>3

LEMMA ReserveCooled ==
    ASSUME AmbientTypeOK, Cooled, Reserved
    PROVE  Cooled'
<1> USE Lengths, Ranks
<1> DEFINE n == Len(reactions)
           new == [event |-> job, key |-> selected, ago |-> 0]
<1>1. n \in Nat /\ reactions \in Seq(Reactions) /\ job \in Jolts /\ selected \in Dramatic
  BY EachReaction DEF AmbientTypeOK, Reserved
<1>2. new \in Reactions BY <1>1 DEF Reactions
<1>3. reactions' = Append(reactions, new) BY DEF Reserved
<1>4. new.key = selected /\ new.ago = 0 OBVIOUS
<1> HIDE DEF new
<1>5. Len(reactions') = n + 1 /\ Made' = 1..(n + 1) /\ Made = 1..n
  BY <1>1, <1>2, <1>3 DEF Made
<1>6. \A i \in Made : reactions'[i] = reactions[i]
  BY <1>1, <1>2, <1>3, <1>5
<1>7. reactions'[n + 1] = new BY <1>1, <1>2, <1>3
<1>8. \A i \in Made' : i \in Made \/ i = n + 1 BY <1>1, <1>5
<1>16. \A i \in Made : i \in Int /\ i < n + 1 BY <1>1, <1>5
<1>9. \A i \in Made : /\ reactions[i].ago \in 0..Horizon /\ reactions[i].key \in Dramatic
  BY EachReaction
<1>10. InTime'
  <2>1. ASSUME NEW i \in Made', NEW j \in Made', i <= j
        PROVE  reactions'[j].ago <= reactions'[i].ago
    <3>1. CASE j = n + 1
      <4>1. reactions'[j].ago = 0 BY <1>4, <1>7, <3>1
      <4>2. reactions'[i].ago \in Nat BY <1>4, <1>6, <1>7, <1>8, <1>9
      <4> QED BY <4>1, <4>2
    <3>2. CASE j \in Made
      <4>1. i \in Made BY <1>8, <1>16, <1>1, <2>1, <3>2
      <4> QED BY <1>6, <2>1, <3>2, <4>1 DEF Cooled, InTime
    <3> QED BY <1>8, <3>1, <3>2
  <2> QED BY <2>1 DEF InTime
<1>11. Remembered'
  <2>3. n + 1 \in 1..(n + 1) BY <1>1
  <2>1. Made' # {} BY <1>5, <2>3
  <2>2. lastKind' = selected /\ since' = 0 BY DEF Reserved
  <2> QED BY <1>4, <1>5, <1>7, <2>1, <2>2 DEF Remembered
<1>12. /\ left'["reaction"] = ActiveCooldown
       /\ left'[selected] = KindCooldown(selected)
       /\ \A k \in Dramatic \ {selected} : left'[k] = left[k]
  BY DEF Reserved
<1>13. NotTooSoon'
  <2>1. ASSUME NEW i \in Made'
        PROVE  /\ left'["reaction"] + reactions'[i].ago >= ActiveCooldown
               /\ left'[reactions'[i].key] + reactions'[i].ago >= KindCooldown(reactions'[i].key)
    <3>1. CASE i = n + 1
      <4>1. reactions'[i].key = selected /\ reactions'[i].ago = 0 BY <1>4, <1>7, <3>1
      <4>2. KindCooldown(selected) \in Nat OBVIOUS
      <4> QED BY <1>12, <4>1, <4>2
    <3>2. CASE i \in Made
      <4>1. reactions'[i] = reactions[i] BY <1>6, <3>2
      <4>2. reactions[i].ago \in Nat BY <1>9, <3>2
      <4>3. left[reactions[i].key] + reactions[i].ago >= KindCooldown(reactions[i].key)
        BY <3>2 DEF Cooled, NotTooSoon
      <4>4. CASE reactions[i].key = selected
        <5>1. left'[selected] + reactions[i].ago >= KindCooldown(selected)
          <6>1. KindCooldown(selected) \in Nat OBVIOUS
          <6> QED BY <1>12, <4>2, <6>1
        <5> QED BY <1>12, <4>1, <4>2, <4>4, <5>1
      <4>5. CASE reactions[i].key # selected
        <5>1. left'[reactions[i].key] = left[reactions[i].key] BY <1>9, <1>12, <3>2, <4>5
        <5> QED BY <1>12, <4>1, <4>2, <4>3, <5>1
      <4> QED BY <4>4, <4>5
    <3> QED BY <1>8, <3>1, <3>2
  <2> QED BY <2>1 DEF NotTooSoon
<1>14. NotTooLate'
  <2>1. n + 1 \in Made' BY <1>1, <1>5
  <2>2. left'["reaction"] + reactions'[n + 1].ago <= ActiveCooldown BY <1>4, <1>7, <1>12
  <2>3. ASSUME NEW k \in Dramatic, left'[k] > 0
        PROVE  \E i \in Made' : /\ reactions'[i].key = k
                                /\ left'[k] + reactions'[i].ago <= KindCooldown(k)
    <3>1. CASE k = selected
      <4>1. KindCooldown(k) \in Nat OBVIOUS
      <4>2. reactions'[n + 1].key = k /\ left'[k] + reactions'[n + 1].ago <= KindCooldown(k)
        BY <1>4, <1>7, <1>12, <3>1, <4>1
      <4> QED BY <2>1, <4>2
    <3>2. CASE k # selected
      <4>1. left'[k] = left[k] BY <1>12, <3>2
      <4>2. PICK i \in Made : /\ reactions[i].key = k
                              /\ left[k] + reactions[i].ago <= KindCooldown(k)
        BY <2>3, <4>1 DEF Cooled, NotTooLate
      <4>3. i \in Made' BY <1>1, <1>5
      <4> QED BY <1>6, <4>1, <4>2, <4>3
    <3> QED BY <3>1, <3>2
  <2> QED BY <2>1, <2>2, <2>3 DEF NotTooLate
<1>15. ReactionsApart'
  <2>1. DOMAIN reactions' = Made' BY <1>1, <1>2, <1>3, <1>5
  <2> SUFFICES ASSUME NEW i \in Made', NEW j \in Made', i < j, reactions'[i].ago < Horizon
               PROVE  /\ reactions'[i].ago - reactions'[j].ago < ActiveCooldown
                         => reactions'[j].key = "dropped" /\ reactions'[i].key # "dropped"
                      /\ reactions'[i].key = reactions'[j].key
                         => reactions'[i].ago - reactions'[j].ago >= KindCooldown(reactions'[i].key)
      BY <2>1 DEF ReactionsApart
  <2>2. i \in Made BY <1>1, <1>5
  <2>3. reactions'[i] = reactions[i] /\ reactions[i].ago \in Nat BY <1>6, <1>9, <2>2
  <2>4. CASE j = n + 1
    <3>1. reactions'[j].key = selected /\ reactions'[j].ago = 0 BY <1>4, <1>7, <2>4
    <3>2. reactions'[i].ago - reactions'[j].ago = reactions[i].ago BY <2>3, <3>1
    <3> QED BY <2>2, <2>3, <3>1, <3>2, ReservedApart
  <2>5. CASE j \in Made
    <3>1. reactions'[j] = reactions[j] BY <1>6, <2>5
    <3>2. DOMAIN reactions = Made BY EachReaction
    <3> QED BY <2>2, <2>3, <2>5, <3>1, <3>2 DEF Cooled, ReactionsApart
  <2> QED BY <1>8, <2>4, <2>5
<1> QED BY <1>10, <1>11, <1>13, <1>14, <1>15 DEF Cooled

LEMMA TickCooled ==
    ASSUME AmbientTypeOK, Cooled, Tick
    PROVE  Cooled'
<1> USE Lengths, Ranks
<1>1. /\ Len(reactions') = Len(reactions) /\ reactions' \in Seq(Reactions)
      /\ \A i \in Made : /\ reactions'[i].key = reactions[i].key
                         /\ reactions'[i].ago = Older(reactions[i].ago)
  BY TickReactions DEF Made
<1>2. Made' = Made /\ DOMAIN reactions' = Made /\ DOMAIN reactions = Made
      /\ Len(reactions) \in Nat
  BY <1>1, EachReaction DEF Made
<1>3. \A i \in Made : reactions[i].ago \in 0..Horizon /\ reactions[i].key \in Dramatic
  BY EachReaction
<1>4. \A a \in 0..Horizon : Older(a) = (IF a < Horizon THEN a + 1 ELSE Horizon)
  BY DEF Older
<1>5. \A k \in {"reaction"} \cup Dramatic :
        /\ left[k] \in Nat
        /\ left'[k] = (IF left[k] > 0 THEN left[k] - 1 ELSE 0)
  BY EachReaction DEF Tick, Cooldowns
<1>6. lastKind' = lastKind /\ since' = Older(since) BY DEF Tick
(* What holds of a cooldown and of the age of a reaction holds a second     *)
(* later.                                                                   *)
<1>7. \A l \in Nat, a \in 0..Horizon, c \in 1..Horizon :
         /\ l + a >= c => (IF l > 0 THEN l - 1 ELSE 0) + Older(a) >= c
         /\ l + a <= c /\ l > 1 => (l - 1) + Older(a) <= c
  BY <1>4
<1>8. InTime'
  <2>1. \A a, b \in 0..Horizon : a <= b => Older(a) <= Older(b) BY <1>4
  <2> QED BY <1>1, <1>2, <1>3, <2>1 DEF Cooled, InTime
<1>9. Remembered'
  <2>1. CASE Made = {} BY <1>2, <1>6, <2>1 DEF Cooled, Remembered
  <2>2. CASE Made # {}
    <3>1. Len(reactions) \in Made BY <1>2, <2>2 DEF Made
    <3> QED BY <1>1, <1>2, <1>6, <2>2, <3>1 DEF Cooled, Remembered
  <2> QED BY <2>1, <2>2
<1>10. NotTooSoon'
  <2>1. ASSUME NEW i \in Made
        PROVE  /\ left'["reaction"] + reactions'[i].ago >= ActiveCooldown
               /\ left'[reactions'[i].key] + reactions'[i].ago >= KindCooldown(reactions'[i].key)
    <3> DEFINE k == reactions[i].key
               a == reactions[i].ago
    <3>1. k \in Dramatic /\ a \in 0..Horizon BY <1>3
    <3>2. left["reaction"] + a >= ActiveCooldown /\ left[k] + a >= KindCooldown(k)
      BY DEF Cooled, NotTooSoon
    <3>3. reactions'[i].key = k /\ reactions'[i].ago = Older(a) BY <1>1
    <3> HIDE DEF k, a
    <3>4. left'["reaction"] + Older(a) >= ActiveCooldown
      BY <1>5, <1>7, <3>1, <3>2
    <3>5. left'[k] + Older(a) >= KindCooldown(k)
      BY <1>5, <1>7, <3>1, <3>2
    <3> QED BY <3>3, <3>4, <3>5
  <2> QED BY <1>2, <2>1 DEF NotTooSoon
<1>11. NotTooLate'
  <2>1. ASSUME NEW k \in {"reaction"} \cup Dramatic, NEW i \in Made, NEW c \in 1..Horizon,
               left'[k] > 0, left[k] + reactions[i].ago <= c
        PROVE  left[k] > 0 /\ left'[k] + reactions'[i].ago <= c
    <3>1. left[k] \in Nat /\ left'[k] = (IF left[k] > 0 THEN left[k] - 1 ELSE 0) BY <1>5
    <3>2. left[k] > 1 /\ left'[k] = left[k] - 1 BY <2>1, <3>1
    <3>3. reactions'[i].ago = Older(reactions[i].ago) /\ reactions[i].ago \in 0..Horizon
      BY <1>1, <1>3
    <3> QED BY <1>7, <2>1, <3>1, <3>2, <3>3
  <2>2. \A k \in {"reaction"} \cup Dramatic : left'[k] > 0 => left[k] > 0 BY <1>5
  <2>3. ASSUME left'["reaction"] > 0
        PROVE  \E i \in Made : left'["reaction"] + reactions'[i].ago <= ActiveCooldown
    <3>1. PICK i \in Made : left["reaction"] + reactions[i].ago <= ActiveCooldown
      BY <2>2, <2>3 DEF Cooled, NotTooLate
    <3> QED BY <2>1, <2>3, <3>1
  <2>4. ASSUME NEW k \in Dramatic, left'[k] > 0
        PROVE  \E i \in Made : /\ reactions'[i].key = k
                               /\ left'[k] + reactions'[i].ago <= KindCooldown(k)
    <3>1. left[k] > 0 BY <2>2, <2>4
    <3>2. PICK i \in Made : /\ reactions[i].key = k
                            /\ left[k] + reactions[i].ago <= KindCooldown(k)
      BY <3>1 DEF Cooled, NotTooLate
    <3>3. KindCooldown(k) \in 1..Horizon OBVIOUS
    <3>4. left'[k] + reactions'[i].ago <= KindCooldown(k) BY <2>1, <2>4, <3>2, <3>3
    <3> QED BY <1>1, <3>2, <3>4
  <2> QED BY <1>2, <2>3, <2>4 DEF NotTooLate
<1>12. ReactionsApart'
  <2> SUFFICES ASSUME NEW i \in Made, NEW j \in Made, i < j, reactions'[i].ago < Horizon
               PROVE  /\ reactions'[i].ago - reactions'[j].ago < ActiveCooldown
                         => reactions'[j].key = "dropped" /\ reactions'[i].key # "dropped"
                      /\ reactions'[i].key = reactions'[j].key
                         => reactions'[i].ago - reactions'[j].ago >= KindCooldown(reactions'[i].key)
      BY <1>2 DEF ReactionsApart
  <2> DEFINE a == reactions[i].ago
             b == reactions[j].ago
  <2>1. i \in Int /\ j \in Int BY DEF Made
  <2>2. b <= a BY <2>1 DEF Cooled, InTime
  <2>3. a \in 0..Horizon /\ b \in 0..Horizon BY <1>3
  <2>4. reactions'[i].ago = Older(a) /\ reactions'[j].ago = Older(b) BY <1>1
  <2>5. /\ a < Horizon => /\ a - b < ActiveCooldown
                             => reactions[j].key = "dropped" /\ reactions[i].key # "dropped"
                          /\ reactions[i].key = reactions[j].key
                             => a - b >= KindCooldown(reactions[i].key)
    BY <1>2 DEF Cooled, ReactionsApart
  <2> HIDE DEF a, b
  <2>6. a < Horizon /\ Older(a) = a + 1 /\ Older(b) = b + 1
    BY <1>4, <2>2, <2>3, <2>4
  <2>7. reactions'[i].ago - reactions'[j].ago = a - b BY <2>3, <2>4, <2>6
  <2> QED BY <1>1, <2>5, <2>6, <2>7
<1> QED BY <1>8, <1>9, <1>10, <1>11, <1>12 DEF Cooled

LEMMA CooledStep ==
    ASSUME IInv, AmbientTypeOK, Chosen, Cooled, [Next]_vars
    PROVE  Cooled'
<1>1. CASE NothingCooled
  <2>1. Made' = Made /\ reactions' = reactions BY <1>1 DEF NothingCooled, Made
  <2>2. lastKind' = lastKind /\ since' = since
        /\ \A k \in {"reaction"} \cup Dramatic : left'[k] = left[k]
    BY <1>1 DEF NothingCooled
  <2>3. \A i \in Made : reactions[i].key \in Dramatic BY EachReaction
  <2>4. InTime' /\ Remembered' /\ ReactionsApart'
    BY <2>1, <2>2 DEF Cooled, InTime, Remembered, ReactionsApart
  <2>5. NotTooSoon' BY <2>1, <2>2, <2>3 DEF Cooled, NotTooSoon
  <2>6. NotTooLate' BY <2>1, <2>2 DEF Cooled, NotTooLate
  <2> QED BY <2>4, <2>5, <2>6 DEF Cooled
<1> QED BY <1>1, CooldownSteps, ReserveCooled, TickCooled
-----------------------------------------------------------------------------
(*                         Reactions and their words                        *)

(* A reaction that was reserved has its words, or is about to have them, or *)
(* an interruption came between.                                            *)
Voiced ==
    \A i \in Made : \/ words[reactions[i].event] # Silence
                    \/ pc = "reserved" /\ job = reactions[i].event
                    \/ interruptions > 0

LEMMA WordsKept ==
    ASSUME IInv, AmbientTypeOK, Chosen, [Next]_vars
    PROVE  \A e \in Jolts : words[e] # Silence => words'[e] # Silence
<1>1. CASE TakePeers BY <1>1 DEF TakePeers
<1>2. CASE SaveReaction
  <2>1. words' = [words EXCEPT ![job] = IF words[job] = Silence THEN selected ELSE words[job]]
        /\ selected \in Dramatic
    BY <1>2, Ranks DEF SaveReaction, SaveWords, Chosen
  <2>2. selected # Silence BY <2>1, Ranks
  <2> QED BY <2>1, <2>2, EventSets DEF AmbientTypeOK
<1> QED BY <1>1, <1>2, DramaSteps

(* A step from the place between reservation and words: it saves the words, *)
(* or stays, or interrupts.                                                 *)
LEMMA FromReserved ==
    ASSUME IInv, AmbientTypeOK, Chosen, [Next]_vars
    PROVE  /\ interruptions \in Nat /\ interruptions' \in Nat /\ interruptions' >= interruptions
           /\ pc = "reserved" => \/ words'[job] # Silence
                                 \/ pc' = "reserved" /\ job' = job
                                 \/ interruptions' > 0
<1> DEFINE Same == interruptions' = interruptions
           Stays == pc' = pc /\ job' = job
<1>1. interruptions \in Nat BY DEF IInv, TypeOK
<1>2. ASSUME NEW e \in Events, Claim(e) PROVE Same /\ pc # "reserved"
  BY <1>2, ClaimFrame DEF AmbientTypeOK
<1>3. ASSUME TakePeers PROVE Same /\ pc # "reserved"
  BY <1>3, TakeFrame DEF TakePeers
<1>4. ASSUME ReserveReaction PROVE Same /\ pc # "reserved"
  BY <1>4 DEF ReserveReaction, queueVars, loopVars
<1>5. CASE SaveReaction
  <2>1. /\ words' = [words EXCEPT ![job] = IF words[job] = Silence THEN selected ELSE words[job]]
        /\ selected \in Dramatic /\ job \in Jolts
    BY <1>5, Ranks DEF SaveReaction, SaveWords, Chosen
  <2>2. selected # Silence BY <2>1, Ranks
  <2>3. words'[job] # Silence BY <2>1, <2>2, EventSets DEF AmbientTypeOK
  <2>4. Same BY <1>5 DEF SaveReaction, queueVars, loopVars
  <2> QED BY <1>1, <2>3, <2>4
<1>6. ASSUME Announce PROVE Same /\ pc # "reserved"
  BY <1>6 DEF Announce, queueVars, loopVars
<1>7. ASSUME Deliver PROVE Same /\ pc # "reserved"
  BY <1>7 DEF Deliver, queueVars, loopVars
<1>8. ASSUME RecordDelivery PROVE Same /\ pc # "reserved"
  BY <1>8 DEF RecordDelivery, queueVars, loopVars
<1>9. ASSUME Conclude PROVE Same /\ pc # "reserved"
  BY <1>9 DEF Conclude, queueVars, loopVars
<1>10. ASSUME Settle PROVE Same /\ pc # "reserved"
  BY <1>10, SettleFrame
<1>11. CASE Environment
  <2>1. Same /\ Stays
    BY <1>11, EnvironmentFrame DEF Environment, ambientVars, attemptVars
  <2> QED BY <1>1, <2>1
<1>12. CASE Interrupt
  <2>1. interruptions' = interruptions + 1 BY <1>12, InterruptFrame
  <2> QED BY <1>1, <2>1
<1>13. CASE Tick
  <2>1. Same /\ Stays BY <1>13 DEF Tick, queueVars, loopVars, attemptVars
  <2> QED BY <1>1, <2>1
<1>14. CASE UNCHANGED vars
  <2>1. Same /\ Stays
    BY <1>14 DEF vars, queueVars, loopVars, ambientVars, attemptVars
  <2> QED BY <1>1, <2>1
<1>15. CASE Same /\ pc # "reserved" BY <1>1, <1>15
<1>16. \/ \E e \in Events : Claim(e)
       \/ TakePeers \/ ReserveReaction \/ SaveReaction \/ Announce \/ Deliver \/ RecordDelivery
       \/ Conclude \/ Settle \/ Environment \/ Interrupt \/ Tick \/ UNCHANGED vars
  BY DEF Next, Process
<1> QED BY <1>1, <1>2, <1>3, <1>4, <1>5, <1>6, <1>7, <1>8, <1>9, <1>10, <1>11, <1>12, <1>13,
           <1>14, <1>16

LEMMA VoicedStep ==
    ASSUME IInv, AmbientTypeOK, Chosen, Voiced, [Next]_vars
    PROVE  Voiced'
<1> DEFINE Heeded(j) == \/ words'[j] # Silence
                        \/ pc' = "reserved" /\ job' = j
                        \/ interruptions' > 0
<1>1. ASSUME NEW i \in Made PROVE Heeded(reactions[i].event)
  <2> DEFINE j == reactions[i].event
  <2>1. j \in Jolts BY EachReaction
  <2>2. words[j] # Silence => words'[j] # Silence BY <2>1, WordsKept
  <2>3. pc = "reserved" /\ job = j => Heeded(j) BY FromReserved
  <2>4. interruptions > 0 => interruptions' > 0
    <3>1. interruptions \in Nat /\ interruptions' \in Nat /\ interruptions' >= interruptions
      BY FromReserved
    <3> QED BY <3>1
  <2> HIDE DEF j
  <2>5. words[j] # Silence \/ (pc = "reserved" /\ job = j) \/ interruptions > 0
    BY DEF Voiced, j
  <2> QED BY <2>2, <2>3, <2>4, <2>5 DEF j
<1>2. CASE Reserved
  <2> DEFINE n == Len(reactions)
             new == [event |-> job, key |-> selected, ago |-> 0]
  <2>1. n \in Nat /\ reactions \in Seq(Reactions) BY EachReaction DEF AmbientTypeOK
  <2>2. new \in Reactions BY <1>2, Lengths DEF Reserved, Reactions
  <2>3. reactions' = Append(reactions, new) BY <1>2 DEF Reserved
  <2>4. new.event = job OBVIOUS
  <2> HIDE DEF new
  <2>5. /\ Made' = 1..(n + 1) /\ \A i \in Made : reactions'[i] = reactions[i]
        /\ reactions'[n + 1] = new
        /\ \A i \in Made' : i \in Made \/ i = n + 1
    BY <2>1, <2>2, <2>3 DEF Made
  <2>6. Heeded(job) BY <1>2 DEF Reserved
  <2>7. \A i \in Made' : Heeded(reactions'[i].event) BY <1>1, <2>4, <2>5, <2>6
  <2> QED BY <2>7 DEF Voiced
<1>3. CASE Tick
  <2>1. /\ Len(reactions') = Len(reactions)
        /\ \A i \in 1..Len(reactions) : reactions'[i].event = reactions[i].event
    BY <1>3, TickReactions
  <2>2. Made' = Made BY <2>1 DEF Made
  <2>3. \A i \in Made' : Heeded(reactions'[i].event) BY <1>1, <2>1, <2>2 DEF Made
  <2> QED BY <2>3 DEF Voiced
<1>4. CASE NothingCooled
  <2>1. reactions' = reactions /\ Made' = Made BY <1>4 DEF NothingCooled, Made
  <2>2. \A i \in Made' : Heeded(reactions'[i].event) BY <1>1, <2>1
  <2> QED BY <2>2 DEF Voiced
<1> QED BY <1>2, <1>3, <1>4, CooldownSteps

(* A jolt is passed over by one step only.                                  *)
LEMMA PassedOver ==
    ASSUME IInv, AmbientTypeOK, Chosen, [Next]_vars, pc = "choosing", pc' = "done"
    PROVE  /\ job \in Jolts /\ selected \in Dramatic
           /\ words[job] = Silence /\ Blocked(selected) # {}
<1> USE DEF Goto
<1>1. ASSUME NEW e \in Events, Claim(e) PROVE FALSE BY <1>1, ClaimFrame
<1>2. ASSUME TakePeers PROVE FALSE BY <1>2 DEF TakePeers
<1>3. CASE ReserveReaction
  <2>1. ~KeepsWords /\ ~MayReact(selected) BY <1>3 DEF ReserveReaction
  <2> QED BY <2>1, Ranks DEF KeepsWords, MayReact, Chosen
<1>4. ASSUME SaveReaction PROVE FALSE BY <1>4 DEF SaveReaction
<1>5. ASSUME Announce PROVE FALSE BY <1>5 DEF Announce
<1>6. ASSUME Deliver PROVE FALSE BY <1>6 DEF Deliver
<1>7. ASSUME RecordDelivery PROVE FALSE BY <1>7 DEF RecordDelivery
<1>8. ASSUME Conclude PROVE FALSE BY <1>8 DEF Conclude
<1>9. ASSUME Settle PROVE FALSE BY <1>9, SettleFrame
<1>10. ASSUME Environment PROVE FALSE BY <1>10 DEF Environment, ambientVars, attemptVars
<1>11. ASSUME Interrupt PROVE FALSE BY <1>11, InterruptFrame
<1>12. ASSUME Tick PROVE FALSE BY <1>12 DEF Tick, attemptVars
<1>13. ASSUME UNCHANGED vars PROVE FALSE BY <1>13 DEF vars, ambientVars, attemptVars
<1> QED BY <1>1, <1>2, <1>3, <1>4, <1>5, <1>6, <1>7, <1>8, <1>9, <1>10, <1>11, <1>12, <1>13
        DEF Next, Process

LEMMA QuietStep ==
    ASSUME IInv, AmbientTypeOK, Chosen, Cooled, Voiced, [Next]_vars,
           pc = "choosing", pc' = "done"
    PROVE  \E i \in DOMAIN reactions :
              LET r == reactions[i] IN
              /\ \/ r.ago < ActiveCooldown
                 \/ r.key = selected /\ r.ago < KindCooldown(selected)
              /\ r.event = job => interruptions > 0
<1> USE Lengths
<1>1. /\ job \in Jolts /\ selected \in Dramatic
      /\ words[job] = Silence /\ Blocked(selected) # {}
  BY PassedOver
<1>2. \A i \in Made : reactions[i].event = job => interruptions > 0
  BY <1>1 DEF Voiced
<1>3. \A i \in Made : reactions[i].ago \in 0..Horizon BY EachReaction
<1>4. left["reaction"] > 0 \/ left[selected] > 0 BY <1>1 DEF Blocked
<1>5. \E i \in Made : \/ reactions[i].ago < ActiveCooldown
                      \/ reactions[i].key = selected /\ reactions[i].ago < KindCooldown(selected)
  <2>1. left["reaction"] \in Nat /\ left[selected] \in Nat BY <1>1, EachReaction
  <2>2. CASE left["reaction"] > 0
    <3>1. PICK i \in Made : left["reaction"] + reactions[i].ago <= ActiveCooldown
      BY <2>2 DEF Cooled, NotTooLate
    <3>2. reactions[i].ago < ActiveCooldown BY <1>3, <2>1, <2>2, <3>1
    <3> QED BY <3>2
  <2>3. CASE left[selected] > 0
    <3>1. PICK i \in Made : /\ reactions[i].key = selected
                            /\ left[selected] + reactions[i].ago <= KindCooldown(selected)
      BY <1>1, <2>3 DEF Cooled, NotTooLate
    <3>2. KindCooldown(selected) \in 1..Horizon OBVIOUS
    <3>3. reactions[i].ago < KindCooldown(selected) BY <1>3, <2>1, <2>3, <3>1, <3>2
    <3> QED BY <3>1, <3>3
  <2> QED BY <1>4, <2>2, <2>3
<1>6. DOMAIN reactions = Made BY EachReaction
<1> QED BY <1>2, <1>5, <1>6
-----------------------------------------------------------------------------
(*                         The theorems about jolts                         *)

JoltInv == IInv /\ AmbientTypeOK /\ Chosen /\ Drama /\ Cooled /\ Voiced

LEMMA JoltInvariance == Spec => []JoltInv
<1>1. Init => JoltInv
  <2>1. Init => Voiced BY DEF Init, Voiced, Made
  <2>2. Init => QueueInit BY DEF Init
  <2> QED BY <2>1, <2>2, InvInit, AmbientTypeInit, DramaInit, CooledInit DEF JoltInv
<1>2. JoltInv /\ [Next]_vars => JoltInv'
  BY QueueStep, InvStep, AmbientTypeStep, DramaStep, CooledStep, VoicedStep DEF JoltInv
<1> QED BY <1>1, <1>2, PTL DEF Spec

(* The cooldowns of jolts hold across retries, crashes and restarts, for    *)
(* any jolts and any cooldowns.                                             *)
THEOREM ReactionsStayApart == Spec => []ReactionsApart
<1>1. JoltInv => ReactionsApart BY DEF JoltInv, Cooled
<1> QED BY <1>1, JoltInvariance, PTL

(* A jolt that was taken over is answered at least as it deserves, however  *)
(* often the one that took it over was interrupted.                         *)
THEOREM DramaStaysKept == Spec => []DramaKept
<1>1. JoltInv => DramaKept BY DEF JoltInv, Drama
<1> QED BY <1>1, JoltInvariance, PTL

(* No jolt is passed over without a reaction to blame, and only an          *)
(* interruption makes that its own.                                         *)
THEOREM QuietHasACause == Spec => QuietForCause
<1>1. JoltInv /\ [Next]_vars
      => [pc = "choosing" /\ pc' = "done" =>
            \E i \in DOMAIN reactions :
               LET r == reactions[i] IN
               /\ \/ r.ago < ActiveCooldown
                  \/ r.key = selected /\ r.ago < KindCooldown(selected)
               /\ r.event = job => interruptions > 0]_vars
  <2> SUFFICES ASSUME JoltInv, [Next]_vars, pc = "choosing", pc' = "done"
               PROVE  \E i \in DOMAIN reactions :
                         LET r == reactions[i] IN
                         /\ \/ r.ago < ActiveCooldown
                            \/ r.key = selected /\ r.ago < KindCooldown(selected)
                         /\ r.event = job => interruptions > 0
      OBVIOUS
  <2> QED BY QuietStep DEF JoltInv
<1> QED BY <1>1, JoltInvariance, PTL DEF Spec, QuietForCause
-----------------------------------------------------------------------------
(*                              Announcements                               *)

(* Settled by the first attempt, the first attempt under way, and the       *)
(* cooldown of an announcement still to run or its words long enough ago.   *)
SettledFirst == {e \in Announcements : attempts[e] = 1 /\ status[e] = "completed"}

AtFirst == job \in Announcements /\ attempts[job] = 1

Covered(e) == \A k \in CooldownOf(e) : left[k] + heard[e] >= Length(k)

Clear ==
    \A f \in SettledFirst \ {job} : \A k \in CooldownOf(f) \cap CooldownOf(job) :
        Length(k) <= heard[f]

(* An announcement that was never tried has no words; a first attempt finds *)
(* it so, finds before it speaks that no other was heard of late, and ends  *)
(* only when its own cooldown covers what was said; hence those that the    *)
(* first attempt settled stay covered and apart.                            *)
Untried ==
    \A e \in Announcements :
        attempts[e] = 0 => words[e] = Silence /\ heard[e] = Horizon /\ e \notin delivered

FirstAttempt ==
    /\ job # NoEvent => attempts[job] # 0
    /\ AtFirst /\ pc = "received" => words[job] = Silence
    /\ AtFirst /\ pc \in {"received", "delivering"} => heard[job] = Horizon /\ job \notin delivered
    /\ AtFirst /\ pc = "delivering" => Clear
    /\ AtFirst => heard[job] = Horizon \/ Clear
    /\ AtFirst /\ pc = "done" => Covered(job)

SettledApart ==
    /\ \A e \in SettledFirst : Covered(e)
    /\ \A e, f \in SettledFirst : \A k \in CooldownOf(e) \cap CooldownOf(f) :
         e # f => Length(k) <= heard[e] \/ Length(k) <= heard[f]

Greeted == Untried /\ FirstAttempt /\ SettledApart

LEMMA Cooling ==
    /\ \A e : CooldownOf(e) \subseteq {"radar", "light"}
    /\ \A e \in Jolts : CooldownOf(e) = {}
    /\ \A k \in {"radar", "light"} : k \in Cooldowns /\ k \notin {"reaction"} \cup Dramatic
    /\ \A k : Length(k) \in 1..Horizon
<1>1. \A e : CooldownOf(e) \subseteq {"radar", "light"} BY DEF CooldownOf
<1>2. \A e \in Jolts : e \notin Radars /\ e \notin Lights BY EventSets DEF Announcements
<1>3. \A k \in {"radar", "light"} : k \in Cooldowns /\ k \notin {"reaction"} \cup Dramatic
  BY Ranks DEF Cooldowns
<1> QED BY <1>1, <1>2, <1>3, Lengths DEF CooldownOf

LEMMA GreetedTypes ==
    ASSUME IInv, AmbientTypeOK
    PROVE  /\ \A e \in Announcements : heard[e] \in 0..Horizon /\ attempts[e] \in Nat
           /\ \A k \in {"radar", "light"} : left[k] \in Nat
           /\ job # NoEvent => job \in Events /\ status[job] = "processing" /\ job \notin SettledFirst
           /\ SettledFirst \subseteq Announcements
<1>1. \A e \in Announcements : heard[e] \in 0..Horizon /\ attempts[e] \in Nat
  BY EventSets DEF IInv, TypeOK, AmbientTypeOK
<1>2. \A k \in {"radar", "light"} : left[k] \in Nat BY Cooling DEF AmbientTypeOK
<1>3. job # NoEvent => job \in Events /\ status[job] = "processing"
  BY EventSets DEF IInv, TypeOK, Held
<1> QED BY <1>1, <1>2, <1>3 DEF SettledFirst

LEMMA GreetedInit == Init => Greeted
<1> SUFFICES ASSUME Init PROVE Greeted
  OBVIOUS
<1>1. \A e \in Announcements : words[e] = Silence /\ heard[e] = Horizon /\ e \notin delivered
                               /\ attempts[e] = 0
  BY EventSets DEF Init, QueueInit
<1>2. SettledFirst = {} BY <1>1 DEF SettledFirst
<1>3. job = NoEvent /\ job \notin Announcements BY EventSets DEF Init, QueueInit
<1> QED BY <1>1, <1>2, <1>3 DEF Greeted, Untried, FirstAttempt, AtFirst, SettledApart

(* What is said of the announcements depends on this alone.                 *)
SameGreetings ==
    /\ \A e \in Announcements : /\ words'[e] = words[e] /\ heard'[e] = heard[e]
                                /\ (e \in delivered') <=> (e \in delivered)
    /\ \A k \in {"radar", "light"} : left'[k] = left[k]

LEMMA SameSettled ==
    ASSUME attempts' = attempts,
           \A e \in Announcements : status'[e] = "completed" <=> status[e] = "completed"
    PROVE  SettledFirst' = SettledFirst
BY DEF SettledFirst

(* A step that neither claims nor settles keeps what is settled, as long as *)
(* nothing is said and no cooldown is set.                                  *)
LEMMA SettledStays ==
    ASSUME Untried, SettledApart, SameGreetings, attempts' = attempts,
           SettledFirst' = SettledFirst
    PROVE  Untried' /\ SettledApart'
<1> USE Cooling DEF SameGreetings, SettledFirst
<1>1. Untried' BY DEF Untried
<1>2. \A e \in SettledFirst : \A k \in CooldownOf(e) : left'[k] + heard'[e] >= Length(k)
  BY DEF SettledApart, Covered
<1>3. \A e, f \in SettledFirst : \A k \in CooldownOf(e) \cap CooldownOf(f) :
         e # f => Length(k) <= heard'[e] \/ Length(k) <= heard'[f]
  BY DEF SettledApart
<1> QED BY <1>1, <1>2, <1>3 DEF SettledApart, Covered

(* A step of an attempt at a jolt.                                          *)
LEMMA GreetedJolt ==
    ASSUME Greeted, IInv, SameGreetings, attempts' = attempts, job' = job, job \in Jolts,
           \A e \in Announcements : status'[e] = "completed" <=> status[e] = "completed"
    PROVE  Greeted'
<1>1. Untried' /\ SettledApart' BY SameSettled, SettledStays DEF Greeted
<1>2. ~AtFirst' BY EventSets DEF AtFirst
<1>3. job' # NoEvent => attempts'[job'] # 0 BY DEF Greeted, FirstAttempt
<1> QED BY <1>1, <1>2, <1>3 DEF Greeted, FirstAttempt

(* A step that changes neither the event nor the place.                     *)
LEMMA GreetedSame ==
    ASSUME Greeted, SameGreetings, attempts' = attempts, job' = job, pc' = pc,
           \A e \in Announcements : status'[e] = "completed" <=> status[e] = "completed"
    PROVE  Greeted'
<1> USE Cooling
<1>1. SettledFirst' = SettledFirst BY SameSettled
<1>2. Untried' /\ SettledApart' BY <1>1, SettledStays DEF Greeted
<1>3. AtFirst' <=> AtFirst BY DEF AtFirst
<1>4. AtFirst /\ Clear => Clear'
  BY <1>1 DEF AtFirst, Clear, SameGreetings, SettledFirst
<1>5. AtFirst => /\ words'[job] = words[job] /\ heard'[job] = heard[job]
                 /\ (job \in delivered') <=> (job \in delivered)
  BY DEF AtFirst, SameGreetings
<1>6. AtFirst /\ Covered(job) => Covered(job)'
  BY <1>5 DEF AtFirst, Covered, SameGreetings
<1>7. FirstAttempt' BY <1>3, <1>4, <1>5, <1>6 DEF Greeted, FirstAttempt
<1> QED BY <1>2, <1>7 DEF Greeted

(* A step after which the worker holds nothing.                             *)
LEMMA GreetedIdle ==
    ASSUME Greeted, SameGreetings, attempts' = attempts, job' = NoEvent,
           \A e \in Announcements : status'[e] = "completed" <=> status[e] = "completed"
    PROVE  Greeted'
<1>1. Untried' /\ SettledApart' BY SameSettled, SettledStays DEF Greeted
<1>2. ~AtFirst' BY EventSets DEF AtFirst
<1> QED BY <1>1, <1>2 DEF Greeted, FirstAttempt

LEMMA GreetedClaim ==
    ASSUME IInv, AmbientTypeOK, Greeted, NEW e \in Events, Claim(e)
    PROVE  Greeted'
<1> USE EventSets
<1>1. /\ job = NoEvent /\ job' = e /\ pc' = "received"
      /\ status[e] = "pending" /\ status'[e] = "processing"
      /\ attempts' = [attempts EXCEPT ![e] = @ + 1]
      /\ AsCompleted
  BY ClaimFrame
<1>2. SameGreetings BY DEF Claim, cooldownVars, historyVars, SameGreetings
<1>3. attempts \in [Events -> Nat] BY DEF IInv, TypeOK
<1>4. \A f \in Events : attempts'[f] = (IF f = e THEN attempts[f] + 1 ELSE attempts[f])
  BY <1>1, <1>3
<1>5. SettledFirst' = SettledFirst
  BY <1>1, <1>4 DEF SettledFirst, AsCompleted
<1>6. Untried'
  <2>1. \A f \in Announcements : attempts'[f] = 0 => attempts[f] = 0
    <3>1. attempts[e] + 1 # 0 BY <1>3
    <3> QED BY <1>4, <3>1
  <2> QED BY <1>2, <2>1 DEF Greeted, Untried, SameGreetings
<1>7. SettledApart'
  <2>1. \A f \in SettledFirst : \A k \in CooldownOf(f) : left'[k] + heard'[f] >= Length(k)
    BY <1>2, Cooling DEF Greeted, SettledApart, Covered, SameGreetings, SettledFirst
  <2>2. \A f, g \in SettledFirst : \A k \in CooldownOf(f) \cap CooldownOf(g) :
           f # g => Length(k) <= heard'[f] \/ Length(k) <= heard'[g]
    BY <1>2 DEF Greeted, SettledApart, SameGreetings, SettledFirst
  <2> QED BY <1>5, <2>1, <2>2 DEF SettledApart, Covered
<1>8. FirstAttempt'
  <2>1. attempts'[job'] # 0
    <3>1. attempts[e] \in Nat /\ attempts'[e] = attempts[e] + 1 BY <1>3, <1>4
    <3> QED BY <1>1, <3>1
  <2>2. AtFirst' => /\ words'[e] = Silence /\ heard'[e] = Horizon /\ e \notin delivered'
    <3>1. AtFirst' => e \in Announcements /\ attempts[e] = 0
      <4>1. attempts[e] \in Nat /\ attempts'[e] = attempts[e] + 1 BY <1>3, <1>4
      <4> QED BY <1>1, <4>1 DEF AtFirst
    <3> QED BY <1>2, <3>1 DEF Greeted, Untried, SameGreetings
  <2> QED BY <1>1, <2>1, <2>2 DEF FirstAttempt
<1> QED BY <1>6, <1>7, <1>8 DEF Greeted

LEMMA AnnounceGreeted ==
    ASSUME IInv, AmbientTypeOK, Greeted, Announce
    PROVE  Greeted'
<1> USE GreetedTypes, Cooling DEF Goto
<1>1. /\ job \in Announcements /\ pc = "received" /\ job' = job /\ attempts' = attempts
      /\ status' = status /\ heard' = heard /\ delivered' = delivered
  BY DEF Announce, queueVars, rowVars, loopVars, historyVars
<1>2. SettledFirst' = SettledFirst BY <1>1, SameSettled
<1>3. job # NoEvent /\ attempts[job] # 0 /\ job \notin SettledFirst
  BY <1>1, EventSets DEF Greeted, FirstAttempt
<1>4. \/ words' = words
      \/ words' = [words EXCEPT ![job] = IF words[job] = Silence THEN "greeting" ELSE words[job]]
  BY DEF Announce, SaveWords
<1>5. \A e \in Announcements \ {job} : words'[e] = words[e]
  BY <1>1, <1>4, EventSets DEF AmbientTypeOK
<1>6. Untried' BY <1>1, <1>3, <1>5 DEF Greeted, Untried
<1>7. \A k \in {"radar", "light"} :
        left'[k] = left[k] \/ (k \in CooldownOf(job) /\ left'[k] = Length(k))
  BY DEF Announce, SetCooldown
<1>8. \A e \in SettledFirst : \A k \in CooldownOf(e) : left'[k] + heard[e] >= Length(k)
  <2> SUFFICES ASSUME NEW e \in SettledFirst, NEW k \in CooldownOf(e)
               PROVE  left'[k] + heard[e] >= Length(k)
      OBVIOUS
  <2>1. left[k] + heard[e] >= Length(k) BY DEF Greeted, SettledApart, Covered
  <2>2. heard[e] \in 0..Horizon /\ Length(k) \in 1..Horizon /\ k \in {"radar", "light"}
    BY DEF SettledFirst
  <2>3. left'[k] = left[k] \/ left'[k] = Length(k) BY <1>7, <2>2
  <2> QED BY <2>1, <2>2, <2>3
<1>9. SettledApart'
  BY <1>1, <1>2, <1>8 DEF Greeted, SettledApart, Covered
<1>10. AtFirst' <=> AtFirst BY <1>1 DEF AtFirst
<1>11. AtFirst => words[job] = Silence /\ heard[job] = Horizon /\ job \notin delivered
  BY <1>1 DEF Greeted, FirstAttempt
<1>12. pc' \in {"delivering", "failed", "done"} BY DEF Announce
<1>13. AtFirst /\ pc' = "delivering" => Clear'
  <2> SUFFICES ASSUME AtFirst, pc' = "delivering", NEW f \in SettledFirst \ {job},
                      NEW k \in CooldownOf(f) \cap CooldownOf(job)
               PROVE  Length(k) <= heard[f]
      BY <1>1, <1>2 DEF Clear
  <2>1. Ready BY <1>11 DEF Announce
  <2>2. left[k] = 0 BY <2>1 DEF Ready
  <2>3. left[k] + heard[f] >= Length(k) BY DEF Greeted, SettledApart, Covered
  <2>4. heard[f] \in 0..Horizon BY DEF SettledFirst
  <2> QED BY <2>2, <2>3, <2>4
<1>14. AtFirst /\ pc' = "done" => \A k \in CooldownOf(job) : left'[k] + heard[job] >= Length(k)
  <2> SUFFICES ASSUME AtFirst, NEW k \in CooldownOf(job)
               PROVE  left'[k] + heard[job] >= Length(k)
      OBVIOUS
  <2>1. heard[job] = Horizon /\ Length(k) \in 1..Horizon /\ k \in {"radar", "light"} BY <1>11
  <2>2. left'[k] \in Nat BY <1>7, <2>1
  <2>3. Horizon \in Nat BY Lengths
  <2> QED BY <2>1, <2>2, <2>3
<1>15. FirstAttempt'
  <2>1. AtFirst /\ pc' = "done" => Covered(job)' BY <1>1, <1>14 DEF Covered
  <2> QED BY <1>1, <1>3, <1>10, <1>11, <1>12, <1>13, <2>1 DEF FirstAttempt
<1> QED BY <1>6, <1>9, <1>15 DEF Greeted

(* A step that speaks, or records what was said, or does neither.           *)
LEMMA SpeakGreeted ==
    ASSUME IInv, AmbientTypeOK, Greeted,
           attempts' = attempts, status' = status, words' = words, left' = left, job' = job,
           job \in Announcements,
           \A e \in Announcements \ {job} : /\ heard'[e] = heard[e]
                                            /\ (e \in delivered') <=> (e \in delivered),
           AtFirst => Clear \/ (heard[job] = Horizon /\ heard'[job] = Horizon),
           pc' \in {"posted", "delivered", "failed"}
    PROVE  Greeted'
<1> USE GreetedTypes, Cooling
<1>1. SettledFirst' = SettledFirst BY SameSettled
<1>2. job # NoEvent /\ attempts[job] # 0 /\ job \notin SettledFirst
  BY EventSets DEF Greeted, FirstAttempt
<1>3. Untried' BY <1>2 DEF Greeted, Untried
<1>4. \A e \in SettledFirst : heard'[e] = heard[e] BY <1>2
<1>5. SettledApart' BY <1>1, <1>4 DEF Greeted, SettledApart, Covered
<1>6. AtFirst' => Clear' \/ heard'[job] = Horizon
  <2>1. AtFirst' <=> AtFirst BY DEF AtFirst
  <2>2. Clear => Clear' BY <1>1, <1>4 DEF Clear
  <2> QED BY <2>1, <2>2
<1>7. FirstAttempt' BY <1>2, <1>6 DEF FirstAttempt
<1> QED BY <1>3, <1>5, <1>7 DEF Greeted

LEMMA DeliverGreeted ==
    ASSUME IInv, AmbientTypeOK, Greeted, Deliver
    PROVE  Greeted'
<1> USE EventSets DEF Goto
<1>1. /\ job' = job /\ attempts' = attempts /\ status' = status /\ words' = words
      /\ left' = left /\ delivered' = delivered /\ pc = "delivering"
      /\ pc' \in {"posted", "delivered", "failed"}
  BY DEF Deliver, queueVars, rowVars, loopVars, cooldownVars
<1>2. job \in Events BY <1>1, GreetedTypes DEF AmbientTypeOK
<1>3. heard' = heard \/ heard' = [e \in Announcements |-> IF e = job THEN 0 ELSE heard[e]]
  BY DEF Deliver, Hear
<1>4. CASE job \in Announcements
  <2>1. AtFirst => Clear BY <1>1 DEF Greeted, FirstAttempt
  <2>2. \A e \in Announcements \ {job} : heard'[e] = heard[e] BY <1>3
  <2> QED BY <1>1, <1>4, <2>1, <2>2, SpeakGreeted
<1>5. CASE job \in Jolts
  <2>1. \A e \in Announcements : heard'[e] = heard[e] BY <1>3, <1>5
  <2>2. SameGreetings BY <1>1, <2>1 DEF SameGreetings
  <2> QED BY <1>1, <1>5, <2>2, GreetedJolt
<1> QED BY <1>2, <1>4, <1>5

LEMMA RecordGreeted ==
    ASSUME IInv, AmbientTypeOK, Greeted, RecordDelivery
    PROVE  Greeted'
<1> USE EventSets DEF Goto
<1>1. /\ job' = job /\ attempts' = attempts /\ status' = status /\ words' = words
      /\ left' = left /\ heard' = heard /\ pc = "posted" /\ pc' = "delivered"
      /\ delivered' = delivered \cup {job}
  BY DEF RecordDelivery, queueVars, rowVars, loopVars, cooldownVars, historyVars
<1>2. job \in Events BY <1>1, GreetedTypes DEF AmbientTypeOK
<1>3. CASE job \in Announcements
  <2>1. AtFirst => Clear \/ (heard[job] = Horizon /\ heard'[job] = Horizon)
    BY <1>1 DEF Greeted, FirstAttempt
  <2> QED BY <1>1, <1>3, <2>1, SpeakGreeted
<1>4. CASE job \in Jolts
  <2>1. SameGreetings BY <1>1, <1>4 DEF SameGreetings
  <2> QED BY <1>1, <1>4, <2>1, GreetedJolt
<1> QED BY <1>2, <1>3, <1>4

LEMMA ConcludeGreeted ==
    ASSUME IInv, AmbientTypeOK, Greeted, Conclude
    PROVE  Greeted'
<1> USE GreetedTypes, Cooling, EventSets DEF Goto
<1>1. /\ job' = job /\ attempts' = attempts /\ status' = status /\ words' = words
      /\ heard' = heard /\ delivered' = delivered /\ pc = "delivered" /\ pc' = "done"
  BY DEF Conclude, queueVars, rowVars, loopVars, historyVars
<1>2. \A k \in {"radar", "light"} :
        left'[k] = (IF k \in CooldownOf(job) THEN Length(k) ELSE left[k])
  BY DEF Conclude, SetCooldown
<1>3. job \in Events BY <1>1 DEF AmbientTypeOK
<1>4. CASE job \in Jolts
  <2>1. SameGreetings BY <1>1, <1>2, <1>4 DEF SameGreetings
  <2> QED BY <1>1, <1>4, <2>1, GreetedJolt
<1>5. CASE job \in Announcements
  <2>1. SettledFirst' = SettledFirst BY <1>1, SameSettled
  <2>2. Untried' BY <1>1 DEF Greeted, Untried
  <2>3. ASSUME NEW e \in Announcements, NEW k \in CooldownOf(e),
               left[k] + heard[e] >= Length(k) \/ e = job
        PROVE  left'[k] + heard[e] >= Length(k)
    <3>1. heard[e] \in 0..Horizon /\ Length(k) \in 1..Horizon /\ k \in {"radar", "light"}
      OBVIOUS
    <3> QED BY <1>2, <2>3, <3>1
  <2>4. \A e \in SettledFirst : \A k \in CooldownOf(e) : left'[k] + heard[e] >= Length(k)
    BY <2>3 DEF Greeted, SettledApart, Covered
  <2>5. SettledApart' BY <1>1, <2>1, <2>4 DEF Greeted, SettledApart, Covered
  <2>6. Covered(job)' BY <1>1, <1>5, <2>3 DEF Covered
  <2>7. AtFirst' => heard'[job'] = Horizon \/ Clear'
    BY <1>1, <2>1 DEF Greeted, FirstAttempt, AtFirst, Clear
  <2>8. FirstAttempt' BY <1>1, <2>6, <2>7 DEF Greeted, FirstAttempt
  <2> QED BY <2>2, <2>5, <2>8 DEF Greeted
<1> QED BY <1>3, <1>4, <1>5

LEMMA SettleGreeted ==
    ASSUME IInv, AmbientTypeOK, Greeted, Settle
    PROVE  Greeted'
<1> USE GreetedTypes, Cooling, EventSets
<1>1. /\ pc \in {"done", "failed"} /\ job \in Events /\ job' = NoEvent
      /\ attempts' = attempts
      /\ \A f \in Events \ {job} : status'[f] = status[f]
      /\ pc = "failed" /\ status'[job] = "completed" => status[job] = "completed"
  BY SettleFrame
<1>2. words' = words /\ heard' = heard /\ delivered' = delivered /\ left' = left
  BY DEF Settle, cooldownVars, historyVars
<1>3. SettledFirst' \subseteq SettledFirst \cup {job}
  BY <1>1 DEF SettledFirst
<1>4. job \in SettledFirst' => AtFirst /\ pc = "done"
  BY <1>1 DEF SettledFirst, AtFirst
<1>5. Untried' BY <1>1, <1>2 DEF Greeted, Untried
<1>6. \A e \in SettledFirst' : Covered(e)
  BY <1>3, <1>4 DEF Greeted, SettledApart, FirstAttempt
<1>7. ASSUME NEW f \in SettledFirst \ {job}, NEW k \in CooldownOf(f) \cap CooldownOf(job),
             job \in SettledFirst'
      PROVE  Length(k) <= heard[f] \/ Length(k) <= heard[job]
  <2>1. heard[job] = Horizon \/ Clear BY <1>4, <1>7 DEF Greeted, FirstAttempt
  <2>2. CASE Clear BY <2>2 DEF Clear
  <2>3. CASE heard[job] = Horizon
    <3>1. Length(k) \in 1..Horizon OBVIOUS
    <3> QED BY <2>3, <3>1
  <2> QED BY <2>1, <2>2, <2>3
<1>8. \A e, f \in SettledFirst' : \A k \in CooldownOf(e) \cap CooldownOf(f) :
         e # f => Length(k) <= heard[e] \/ Length(k) <= heard[f]
  BY <1>3, <1>7 DEF Greeted, SettledApart
<1>9. SettledApart' BY <1>2, <1>6, <1>8 DEF SettledApart, Covered
<1>10. ~AtFirst' BY <1>1 DEF AtFirst
<1>11. FirstAttempt' BY <1>1, <1>10 DEF FirstAttempt
<1> QED BY <1>5, <1>9, <1>11 DEF Greeted

LEMMA TickGreeted ==
    ASSUME IInv, AmbientTypeOK, Greeted, Tick
    PROVE  Greeted'
<1> USE GreetedTypes, Cooling, Lengths
<1>1. /\ job' = job /\ attempts' = attempts /\ status' = status /\ words' = words
      /\ delivered' = delivered /\ pc' = pc
  BY DEF Tick, queueVars, rowVars, loopVars, attemptVars
<1>2. SettledFirst' = SettledFirst BY <1>1, SameSettled
<1>3. \A e \in Announcements :
        /\ heard'[e] = (IF heard[e] < Horizon THEN heard[e] + 1 ELSE heard[e])
        /\ heard'[e] >= heard[e] /\ heard'[e] \in 0..Horizon
        /\ heard[e] = Horizon => heard'[e] = Horizon
  BY DEF Tick, Older
<1>4. \A k \in {"radar", "light"} : left'[k] = (IF left[k] > 0 THEN left[k] - 1 ELSE 0)
  BY DEF Tick
<1>5. ASSUME NEW e \in Announcements, NEW k \in CooldownOf(e), left[k] + heard[e] >= Length(k)
      PROVE  left'[k] + heard'[e] >= Length(k)
  <2>1. Length(k) \in 1..Horizon /\ left[k] \in Nat /\ heard[e] \in 0..Horizon
    OBVIOUS
  <2>2. left'[k] = (IF left[k] > 0 THEN left[k] - 1 ELSE 0) BY <1>4
  <2>3. heard'[e] = (IF heard[e] < Horizon THEN heard[e] + 1 ELSE heard[e]) BY <1>3
  <2> QED BY <1>5, <2>1, <2>2, <2>3
<1>6. ASSUME NEW e \in Announcements, NEW k \in CooldownOf(e), Length(k) <= heard[e]
      PROVE  Length(k) <= heard'[e]
  <2>1. Length(k) \in 1..Horizon /\ heard[e] \in 0..Horizon OBVIOUS
  <2> QED BY <1>3, <1>6, <2>1
<1>7. Untried' BY <1>1, <1>3 DEF Greeted, Untried
<1>8. SettledApart'
  <2>1. \A e \in SettledFirst : \A k \in CooldownOf(e) : left'[k] + heard'[e] >= Length(k)
    BY <1>5 DEF Greeted, SettledApart, Covered
  <2>2. \A e, f \in SettledFirst : \A k \in CooldownOf(e) \cap CooldownOf(f) :
           e # f => Length(k) <= heard'[e] \/ Length(k) <= heard'[f]
    BY <1>6 DEF Greeted, SettledApart
  <2> QED BY <1>2, <2>1, <2>2 DEF SettledApart, Covered
<1>9. AtFirst' <=> AtFirst BY <1>1 DEF AtFirst
<1>10. Clear => Clear' BY <1>1, <1>2, <1>6 DEF Clear
<1>11. AtFirst /\ Covered(job) => Covered(job)' BY <1>1, <1>5 DEF Covered, AtFirst
<1>12. AtFirst /\ heard[job] = Horizon => heard'[job] = Horizon BY <1>3 DEF AtFirst
<1>13. FirstAttempt' BY <1>1, <1>9, <1>10, <1>11, <1>12 DEF Greeted, FirstAttempt
<1> QED BY <1>7, <1>8, <1>13 DEF Greeted

LEMMA GreetedStep ==
    ASSUME IInv, AmbientTypeOK, Chosen, Greeted, [Next]_vars
    PROVE  Greeted'
<1> USE EventSets
<1>1. ASSUME NEW e \in Events, Claim(e) PROVE Greeted' BY <1>1, GreetedClaim
<1>2. CASE TakePeers
  <2>1. SameGreetings BY <1>2 DEF TakePeers, cooldownVars, SameGreetings
  <2> QED BY <1>2, <2>1, TakeFrame, GreetedJolt
<1>3. CASE ReserveReaction
  <2>1. /\ job' = job /\ attempts' = attempts /\ status' = status /\ job \in Jolts
        /\ words' = words /\ heard' = heard /\ delivered' = delivered /\ selected \in Dramatic
    BY <1>3, Ranks DEF ReserveReaction, queueVars, rowVars, loopVars, Chosen
  <2>2. \A k \in {"radar", "light"} : k \in Cooldowns \ {"reaction", selected}
    BY <2>1, Cooling
  <2>3. \A k \in {"radar", "light"} : left'[k] = left[k]
    BY <1>3, <2>2, Reserving DEF cooldownVars
  <2>4. SameGreetings BY <2>1, <2>3 DEF SameGreetings
  <2> QED BY <2>1, <2>4, GreetedJolt
<1>4. CASE SaveReaction
  <2>1. /\ job' = job /\ attempts' = attempts /\ status' = status /\ job \in Jolts
        /\ heard' = heard /\ delivered' = delivered /\ left' = left
    BY <1>4 DEF SaveReaction, queueVars, rowVars, loopVars, cooldownVars, historyVars, Chosen
  <2>2. \A e \in Announcements : words'[e] = words[e]
    <3>1. words' = [words EXCEPT ![job] = IF words[job] = Silence THEN selected ELSE words[job]]
      BY <1>4 DEF SaveReaction, SaveWords
    <3> QED BY <2>1, <3>1 DEF AmbientTypeOK
  <2>3. SameGreetings BY <2>1, <2>2 DEF SameGreetings
  <2> QED BY <2>1, <2>3, GreetedJolt
<1>5. CASE Announce BY <1>5, AnnounceGreeted
<1>6. CASE Deliver BY <1>6, DeliverGreeted
<1>7. CASE RecordDelivery BY <1>7, RecordGreeted
<1>8. CASE Conclude BY <1>8, ConcludeGreeted
<1>9. CASE Settle BY <1>9, SettleGreeted
<1>10. CASE Environment
  <2>1. SameGreetings /\ pc' = pc
    BY <1>10 DEF Environment, ambientVars, attemptVars, cooldownVars, historyVars, SameGreetings
  <2> QED BY <1>10, <2>1, EnvironmentFrame, GreetedSame DEF AsCompleted
<1>11. CASE Interrupt
  <2>1. SameGreetings BY <1>11 DEF Interrupt, cooldownVars, historyVars, SameGreetings
  <2> QED BY <1>11, <2>1, InterruptFrame, GreetedIdle DEF AsCompleted
<1>12. CASE Tick BY <1>12, TickGreeted
<1>13. CASE UNCHANGED vars
  <2>1. SameGreetings /\ pc' = pc /\ job' = job /\ attempts' = attempts /\ status' = status
    BY <1>13 DEF vars, queueVars, rowVars, loopVars, ambientVars, attemptVars, cooldownVars,
                 historyVars, SameGreetings
  <2> QED BY <2>1, GreetedSame
<1> QED BY <1>1, <1>2, <1>3, <1>4, <1>5, <1>6, <1>7, <1>8, <1>9, <1>10, <1>11, <1>12, <1>13
        DEF Next, Process

(* Two presences, or two changes of light, that were both handled by a      *)
(* first attempt are not both announced within one cooldown.                *)
THEOREM GreetingsStayApart == Spec => []GreetingsApart
<1>1. Init => Greeted BY GreetedInit
<1>2. JoltInv /\ Greeted /\ [Next]_vars => Greeted'
  BY GreetedStep DEF JoltInv
<1>3. JoltInv /\ Greeted => GreetingsApart
  <2> SUFFICES ASSUME JoltInv, Greeted, NEW e \in Announcements, NEW f \in Announcements,
                      NEW k \in CooldownOf(e) \cap CooldownOf(f),
                      e # f, AtFirstAttempt(e), AtFirstAttempt(f)
               PROVE  Length(k) <= heard[e] \/ Length(k) <= heard[f]
      BY DEF GreetingsApart
  <2>1. Length(k) \in 1..Horizon BY Cooling
  <2>2. \A g \in Announcements : AtFirstAttempt(g) => g \in SettledFirst \/ (g = job /\ AtFirst)
    BY DEF AtFirstAttempt, SettledFirst, AtFirst
  <2>3. ASSUME NEW g \in SettledFirst, AtFirst, g # job, k \in CooldownOf(g) \cap CooldownOf(job)
        PROVE  Length(k) <= heard[job] \/ Length(k) <= heard[g]
    <3>1. heard[job] = Horizon \/ Clear BY <2>3 DEF Greeted, FirstAttempt
    <3> QED BY <2>1, <2>3, <3>1 DEF Clear
  <2>4. CASE e \in SettledFirst /\ f \in SettledFirst BY <2>4 DEF Greeted, SettledApart
  <2>5. CASE e = job /\ AtFirst /\ f \in SettledFirst BY <2>3, <2>5
  <2>6. CASE f = job /\ AtFirst /\ e \in SettledFirst BY <2>3, <2>6
  <2> QED BY <2>2, <2>4, <2>5, <2>6
<1> QED BY <1>1, <1>2, <1>3, JoltInvariance, PTL DEF Spec
=============================================================================
