---------------------------- MODULE MCEventQueue ----------------------------
(***************************************************************************)
(* Small instances of EventQueue, one for each of five casts of events:    *)
(* the events inserted in a behaviour are all of one cast.                 *)
(***************************************************************************)
EXTENDS EventQueue, TLC
CONSTANTS m1, m2, ack, jolt, peer, cue, r1, r2, r3, job1, pA, pB

(* Lanes: two messages that may be inserted in either order, and the       *)
(* acknowledgment of a recording.                                          *)
Lanes == {m1, m2, ack}
(* Jobs: one of either generator, and the message that asks for them.      *)
Jobs == {m1, job1, r1}
(* Banks: two refreshes, the second asked for by a message.                *)
Banks == {m1, r1, r2}
(* Starts: three, the third for the first persona again, asked for at      *)
(* starts.                                                                 *)
Starts == {r1, r2, r3}
(* Jolts: two of the same second, and a cue of a reply to one of them.     *)
Jolted == {jolt, peer, cue}
Casts == {Lanes, Jobs, Banks, Starts, Jolted}

Cast == UNION Casts
CastKind == (m1 :> "message.received") @@ (m2 :> "message.received")
            @@ (ack :> "recording.finished") @@ (job1 :> "event_memory.extract")
            @@ (jolt :> "accel.detected") @@ (peer :> "accel.detected")
            @@ (cue :> "motion.due")
            @@ [r \in {r1, r2, r3} |-> "reaction_bank.refresh"]
CastReceivedAt == [e \in Cast |-> CASE e = m2 -> 2 [] e = job1 -> 3 [] OTHER -> 1]
Personas == [e \in Cast |-> IF e = r2 THEN pB ELSE pA]

BothGenerators == {"event_memory.extract", "reaction_bank.refresh"}

Inserted == {e \in Events : status[e] # "absent"}
OneCast == \E cast \in Casts : Inserted \subseteq cast
=============================================================================
