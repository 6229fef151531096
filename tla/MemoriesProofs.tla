--------------------------- MODULE MemoriesProofs ---------------------------
(***************************************************************************)
(* Proofs about what the household's exchanges leave behind, for any       *)
(* messages, any retention, any number of mishaps.                         *)
(*                                                                         *)
(* The invariant has a part for each store: the tables of the transcript   *)
(* (TablesInStep, which is inductive), the facts (Dictated: what stands    *)
(* after the first n messages, and that an interrupted command may have    *)
(* been at work already), and the events with the jobs that find them      *)
(* (Extracted).  What the selection of context returns is proved from one  *)
(* fact about the tables, that a row has an identity and a day             *)
(* (TablesOfRows): a set ordered by rank is then a listing of it, and the  *)
(* later sections follow a listing through sampling, thinning and joining. *)
(***************************************************************************)
EXTENDS Memories, FiniteSetTheorems, WellFoundedInduction, TLAPS

Stages == {"waiting", "composing", "spoken", "recorded", "saved", "remembered",
           "forgetting", "forgotten"}
Talking == {"composing", "spoken", "recorded", "saved"}
Does(m) == Messages[m].does

(* The worker is at a message of the kind its stage belongs to.             *)
Course ==
    /\ household \in Households
    /\ turn \in 1..(Len(Messages) + 1)
    /\ stage \in Stages
    /\ stage \in Talking => Doing("talk")
    /\ stage = "remembered" => Doing("remember")
    /\ stage \in {"forgetting", "forgotten"} => Doing("forget")

LEMMA MessageTypes ==
    ASSUME Course
    PROVE  /\ Len(Messages) \in Nat /\ All = 1..Len(Messages)
           /\ \A m \in All : Topic(m) \in Topics /\ Does(m) \in {"talk", "remember", "forget"}
           /\ \A e \in household.noted : e.source \in Int /\ e.source < 1
<1> DEFINE Kinds == [does : {"talk", "remember", "forget"}, topic : Topics]
<1>1. /\ Messages \in Seq(Kinds)
      /\ \A e \in household.noted : e.source \in Int /\ e.source < 1
  BY MemoriesAssumption DEF MemoriesAssumption, Course, Messages
<1>4. \A k \in Kinds : k.topic \in Topics /\ k.does \in {"talk", "remember", "forget"}
  OBVIOUS
<1> HIDE DEF Kinds
<1>2. Len(Messages) \in Nat /\ All = 1..Len(Messages) BY <1>1 DEF All
<1>3. \A m \in All : Messages[m] \in Kinds BY <1>1, <1>2
<1> QED BY <1>1, <1>2, <1>3, <1>4 DEF Topic, Does
-----------------------------------------------------------------------------
(*                     What a step does to the worker                       *)

Stays == UNCHANGED <<turn, stage, heard, facts>>

Proceeds ==
    /\ UNCHANGED <<turn, facts>>
    /\ stage' \in Talking
    /\ \/ stage \in Talking /\ heard' = heard
       \/ Compose

Leaves ==
    /\ stage \in {"spoken", "recorded", "saved"} /\ Done /\ UNCHANGED <<heard, facts>>

Drops ==
    /\ stage = "forgetting" /\ stage' = "forgotten" /\ UNCHANGED <<turn, heard, facts>>

StepsBack ==
    /\ UNCHANGED <<turn, heard, facts>>
    /\ \/ stage \in Talking /\ stage' = "saved"
       \/ stage' = "waiting"

LEMMA WorkerSteps ==
    ASSUME [MemoryNext]_memoryVars
    PROVE  /\ household' = household
           /\ Stays \/ Proceeds \/ Leaves \/ Remember \/ ForgetFacts \/ Drops \/ Confirm \/ StepsBack
<1> DEFINE Goal == /\ household' = household
                   /\ Stays \/ Proceeds \/ Leaves \/ Remember \/ ForgetFacts \/ Drops
                      \/ Confirm \/ StepsBack
<1> USE DEF Stays, worker, bounds, Mishap
<1>1. CASE Compose BY <1>1 DEF Compose, Proceeds, Talking
<1>2. CASE Speak BY <1>2 DEF Speak, Proceeds, Talking
<1>3. CASE RecordTurn BY <1>3 DEF RecordTurn, Proceeds, Talking
<1>4. CASE RecordFails BY <1>4 DEF RecordFails, Leaves
<1>5. CASE QueueExtraction BY <1>5 DEF QueueExtraction, Leaves
<1>6. CASE QueueFails BY <1>6 DEF QueueFails, Leaves
<1>7. CASE SpeakAgain BY <1>7 DEF SpeakAgain, Leaves
<1>8. ASSUME NEW id \in tasks, Embed(id) PROVE Goal BY <1>8 DEF Embed
<1>9. CASE ReadBatch BY <1>9 DEF ReadBatch
<1>10. ASSUME NEW id \in batch, Backfill(id) PROVE Goal BY <1>10 DEF Backfill
<1>11. CASE Remember BY <1>11 DEF Remember
<1>12. CASE ForgetFacts BY <1>12 DEF ForgetFacts
<1>13. CASE ForgetEvents BY <1>13 DEF ForgetEvents, Drops
<1>14. CASE ForgetEventsFails BY <1>14 DEF ForgetEventsFails, Drops
<1>15. CASE Confirm BY <1>15 DEF Confirm
<1>16. ASSUME NEW m \in All, DelayElapses(m) \/ ClaimExtraction(m) PROVE Goal
  BY <1>16 DEF DelayElapses, ClaimExtraction, Elsewhere
<1>17. CASE RecoverExtractions BY <1>17 DEF RecoverExtractions, Elsewhere
<1>18. CASE Preempted BY <1>18 DEF Preempted, Elsewhere
<1>19. CASE ExtractionFails BY <1>19 DEF ExtractionFails, Elsewhere
<1>20. CASE FindsNothing BY <1>20 DEF FindsNothing, Elsewhere
<1>21. CASE FindsEvent BY <1>21 DEF FindsEvent, Elsewhere
<1>22. CASE StoreEvent BY <1>22 DEF StoreEvent, Elsewhere
<1>23. CASE StoreFails BY <1>23 DEF StoreFails, Elsewhere
<1>24. CASE MidnightPasses BY <1>24 DEF MidnightPasses
<1>25. CASE SetBack BY <1>25 DEF SetBack
<1>26. CASE Restart BY <1>26 DEF Restart, StepsBack, Talking
<1>27. CASE UNCHANGED memoryVars BY <1>27 DEF memoryVars
<1> QED
  BY <1>1, <1>2, <1>3, <1>4, <1>5, <1>6, <1>7, <1>8, <1>9, <1>10, <1>11, <1>12, <1>13, <1>14,
     <1>15, <1>16, <1>17, <1>18, <1>19, <1>20, <1>21, <1>22, <1>23, <1>24, <1>25, <1>26, <1>27
     DEF MemoryNext, Crash, Shutdown

LEMMA CourseInit == MemoryInit => Course
<1> SUFFICES ASSUME MemoryInit PROVE Course
  OBVIOUS
<1>1. household \in Households /\ turn = 1 /\ stage = "waiting" BY DEF MemoryInit
<1>2. Messages \in Seq([does : {"talk", "remember", "forget"}, topic : Topics])
  BY <1>1, MemoriesAssumption DEF MemoriesAssumption, Messages
<1>3. Len(Messages) \in Nat BY <1>2
<1> QED BY <1>1, <1>3 DEF Course, Stages, Talking

LEMMA CourseStep ==
    ASSUME Course, [MemoryNext]_memoryVars
    PROVE  Course' /\ Messages' = Messages /\ All' = All
<1>1. household' = household /\ Messages' = Messages /\ All' = All
  BY WorkerSteps DEF Messages, All
<1>2. Len(Messages) \in Nat /\ All = 1..Len(Messages) BY MessageTypes
<1>3. turn \in All => turn + 1 \in 1..(Len(Messages) + 1)
  BY <1>2 DEF Course
<1> USE DEF Course, Doing, Stages, Talking
<1>4. CASE Stays BY <1>1, <1>4 DEF Stays
<1>5. CASE Proceeds BY <1>1, <1>5 DEF Proceeds, Compose
<1>6. CASE Leaves BY <1>1, <1>3, <1>6 DEF Leaves, Done
<1>7. CASE Remember BY <1>1, <1>7 DEF Remember
<1>8. CASE ForgetFacts BY <1>1, <1>8 DEF ForgetFacts
<1>9. CASE Drops BY <1>1, <1>9 DEF Drops
<1>10. CASE Confirm BY <1>1, <1>3, <1>10 DEF Confirm, Done
<1>11. CASE StepsBack BY <1>1, <1>11 DEF StepsBack
<1> QED BY <1>1, <1>4, <1>5, <1>6, <1>7, <1>8, <1>9, <1>10, <1>11, WorkerSteps
-----------------------------------------------------------------------------
(*                        The transcript's tables                           *)

(* However turns are recorded, retained, embedded late or backfilled, no    *)
(* vector outlives its turn and the cached count is the table's.            *)
THEOREM TranscriptInStep == MemorySpec => []TablesInStep
<1>1. MemoryInit => TablesInStep
  BY DEF MemoryInit, TranscriptHolds, TablesInStep
<1>2. ASSUME TablesInStep, [MemoryNext]_memoryVars PROVE TablesInStep'
  <2> DEFINE Same == turns' = turns /\ vectors' = vectors
                     /\ (counted' = counted \/ counted' = NoCount)
  <2> USE DEF transcriptVars, conversation
  <2>1. Same => TablesInStep' BY <1>2 DEF TablesInStep
  <2>2. CASE Compose
    <3>1. turns' = turns /\ vectors' = vectors /\ counted' \in {counted, Cardinality(turns)}
      BY <2>2 DEF Compose
    <3> QED BY <1>2, <3>1, <2>2 DEF TablesInStep, Compose
  <2>3. CASE RecordTurn
    <3>1. counted' = NoCount BY <2>3 DEF RecordTurn
    <3>2. PICK row : Insert(row) BY <2>3 DEF RecordTurn
    <3>3. vectors' \subseteq {t.id : t \in turns'} BY <3>2 DEF Insert
    <3> QED BY <3>1, <3>3 DEF TablesInStep
  <2>4. ASSUME NEW id, StoreVector(id) \/ UNCHANGED vectors, turns' = turns, counted' = counted
        PROVE  TablesInStep'
    <3>1. vectors' \subseteq vectors \cup {t.id : t \in turns} BY <2>4 DEF StoreVector
    <3> QED BY <1>2, <2>4, <3>1 DEF TablesInStep
  <2>5. ASSUME NEW id \in tasks, Embed(id) PROVE TablesInStep'
    BY <2>4, <2>5 DEF Embed
  <2>6. ASSUME NEW id \in batch, Backfill(id) PROVE TablesInStep'
    BY <2>4, <2>6 DEF Backfill
  <2>7. CASE Speak \/ RecordFails \/ QueueExtraction \/ QueueFails \/ SpeakAgain
    BY <2>1, <2>7 DEF Speak, RecordFails, QueueExtraction, QueueFails, SpeakAgain
  <2>8. CASE ReadBatch \/ Remember \/ ForgetFacts
    BY <2>1, <2>8 DEF ReadBatch, Remember, ForgetFacts
  <2>9. CASE ForgetEvents \/ ForgetEventsFails \/ Confirm
    BY <2>1, <2>9 DEF ForgetEvents, ForgetEventsFails, Confirm
  <2>10. ASSUME NEW m \in All, DelayElapses(m) \/ ClaimExtraction(m) PROVE TablesInStep'
    BY <2>1, <2>10 DEF DelayElapses, ClaimExtraction, Elsewhere
  <2>11. CASE RecoverExtractions \/ Preempted \/ ExtractionFails
    BY <2>1, <2>11 DEF RecoverExtractions, Preempted, ExtractionFails, Elsewhere
  <2>12. CASE FindsNothing \/ FindsEvent
    BY <2>1, <2>12 DEF FindsNothing, FindsEvent, Elsewhere
  <2>13. CASE StoreEvent \/ StoreFails BY <2>1, <2>13 DEF StoreEvent, StoreFails, Elsewhere
  <2>14. CASE MidnightPasses \/ SetBack BY <2>1, <2>14 DEF MidnightPasses, SetBack
  <2>15. CASE Restart BY <2>1, <2>15 DEF Restart
  <2>16. CASE UNCHANGED memoryVars BY <2>1, <2>16 DEF memoryVars
  <2> QED
    BY <1>2, <2>2, <2>3, <2>5, <2>6, <2>7, <2>8, <2>9, <2>10, <2>11, <2>12, <2>13, <2>14,
       <2>15, <2>16 DEF MemoryNext, Crash, Shutdown
<1> QED BY <1>1, <1>2, PTL DEF MemorySpec
-----------------------------------------------------------------------------
(*                           The dictated facts                             *)

(* Of the first n messages, m is the last that says something of t to be    *)
(* kept, and it said to remember it.                                        *)
Standing(n, t, m) ==
    /\ m \in 1..n /\ Topic(m) = t /\ Does(m) = "remember"
    /\ \A k \in 1..n : k > m => ~(Topic(k) = t /\ Does(k) # "talk")

IsActive(t, m) ==
    \E i \in 1..Len(facts) : facts[i].source = m /\ facts[i].topic = t /\ facts[i].active

FactsUpTo(n) == \A t \in Topics, m \in Nat : IsActive(t, m) <=> Standing(n, t, m)

FactRows == [source : Nat, topic : Topics, active : BOOLEAN]
HasFact(m) == \E i \in 1..Len(facts) : facts[i].source = m
Settled == {"remembered", "forgetting", "forgotten"}

(* When a command has done its work the facts are those of the messages up  *)
(* to it; before, they may be those of the messages before it, or an        *)
(* attempt that was interrupted has been at work already, and if it has     *)
(* left a fact the work is done.                                            *)
Dictated ==
    /\ facts \in Seq(FactRows)
    /\ \A m \in Nat : HasFact(m) => m \in All /\ m <= turn
    /\ HasFact(turn) => FactsUpTo(turn)
    /\ stage \in Settled => FactsUpTo(turn)
    /\ FactsUpTo(turn - 1) \/ (turn \in All /\ FactsUpTo(turn))

(* A conversation says nothing to be kept.                                  *)
LEMMA TalkKeeps ==
    ASSUME Course, NEW n \in All, Does(n) = "talk"
    PROVE  FactsUpTo(n) <=> FactsUpTo(n - 1)
<1>1. n \in Nat /\ n >= 1 BY MessageTypes
<1>2. ASSUME NEW t \in Topics, NEW m \in Nat
      PROVE  Standing(n, t, m) <=> Standing(n - 1, t, m)
  <2>1. CASE m = n BY <1>1, <2>1 DEF Standing
  <2>2. CASE m # n
    <3>1. m \in 1..n <=> m \in 1..(n - 1) BY <1>1, <2>2
    <3>2. \A k \in 1..n : k \in 1..(n - 1) \/ k = n BY <1>1
    <3>3. \A k \in 1..(n - 1) : k \in 1..n BY <1>1
    <3> QED BY <3>1, <3>2, <3>3 DEF Standing
  <2> QED BY <2>1, <2>2
<1> QED BY <1>2 DEF FactsUpTo

LEMMA SameFacts ==
    ASSUME facts' = facts, Messages' = Messages
    PROVE  /\ \A n \in Nat : (FactsUpTo(n)') <=> FactsUpTo(n)
           /\ \A m \in Nat : (HasFact(m)') <=> HasFact(m)
BY DEF FactsUpTo, IsActive, Standing, HasFact, Topic, Does

LEMMA DictatedInit == MemoryInit => Dictated
<1> SUFFICES ASSUME MemoryInit PROVE Dictated
  OBVIOUS
<1>1. facts = <<>> /\ turn = 1 /\ stage = "waiting" BY DEF MemoryInit
<1>2. facts \in Seq(FactRows) /\ Len(facts) = 0 BY <1>1
<1>3. \A m : ~HasFact(m) BY <1>2 DEF HasFact
<1>4. FactsUpTo(0)
  <2>1. \A t, m : ~IsActive(t, m) BY <1>2 DEF IsActive
  <2>2. \A t, m : ~Standing(0, t, m) BY DEF Standing
  <2> QED BY <2>1, <2>2 DEF FactsUpTo
<1> QED BY <1>1, <1>2, <1>3, <1>4 DEF Dictated, Settled

(* The rows of a topic are made inactive, the others are left alone.        *)
Retired(t) ==
    [i \in DOMAIN facts |-> IF facts[i].topic = t
                            THEN [facts[i] EXCEPT !.active = FALSE] ELSE facts[i]]

LEMMA Retiring ==
    ASSUME facts \in Seq(FactRows), NEW t \in Topics
    PROVE  /\ Retired(t) \in Seq(FactRows) /\ Len(Retired(t)) = Len(facts)
           /\ Len(facts) \in Nat
           /\ \A i \in 1..Len(facts) :
                /\ Retired(t)[i].source = facts[i].source
                /\ Retired(t)[i].topic = facts[i].topic
                /\ Retired(t)[i].active <=> (facts[i].active /\ facts[i].topic # t)
<1>1. Len(facts) \in Nat /\ DOMAIN facts = 1..Len(facts) OBVIOUS
<1> DEFINE row(i) == IF facts[i].topic = t
                     THEN [facts[i] EXCEPT !.active = FALSE] ELSE facts[i]
<1>2. ASSUME NEW i \in 1..Len(facts)
      PROVE  /\ row(i) \in FactRows
             /\ row(i).source = facts[i].source /\ row(i).topic = facts[i].topic
             /\ row(i).active <=> (facts[i].active /\ facts[i].topic # t)
  <2>1. facts[i] \in FactRows BY <1>1
  <2>2. PICK r \in FactRows : r = facts[i] BY <2>1
  <2>3. PICK d : d = [r EXCEPT !.active = FALSE] OBVIOUS
  <2>4. d \in FactRows /\ d.source = r.source /\ d.topic = r.topic /\ d.active = FALSE
    BY <2>3 DEF FactRows
  <2>5. CASE r.topic = t
    <3>1. row(i) = d BY <2>2, <2>3, <2>5
    <3> HIDE DEF row
    <3> QED BY <2>2, <2>4, <2>5, <3>1
  <2>6. CASE r.topic # t
    <3>1. row(i) = r BY <2>2, <2>6
    <3> HIDE DEF row
    <3> QED BY <2>2, <2>6, <3>1
  <2> QED BY <2>5, <2>6
<1>3. Retired(t) = [i \in 1..Len(facts) |-> row(i)] BY <1>1 DEF Retired
<1> HIDE DEF row
<1>4. [i \in 1..Len(facts) |-> row(i)] \in Seq(FactRows)
      /\ Len([i \in 1..Len(facts) |-> row(i)]) = Len(facts)
  BY <1>1, <1>2
<1> QED BY <1>1, <1>2, <1>3, <1>4

(* What is said of a topic changes what stands of that topic only.          *)
LEMMA SaidOfATopic ==
    ASSUME Course, Dictated, turn \in All, NEW u \in Topics, NEW m \in Nat, u # Topic(turn)
    PROVE  IsActive(u, m) <=> Standing(turn, u, m)
<1>1. turn \in Nat /\ turn >= 1 BY MessageTypes
<1>2. Standing(turn, u, m) <=> Standing(turn - 1, u, m)
  <2>1. CASE m = turn BY <1>1, <2>1 DEF Standing
  <2>2. CASE m # turn
    <3>1. m \in 1..turn <=> m \in 1..(turn - 1) BY <1>1, <2>2
    <3>2. \A k \in 1..turn : k \in 1..(turn - 1) \/ k = turn BY <1>1
    <3>3. \A k \in 1..(turn - 1) : k \in 1..turn BY <1>1
    <3> QED BY <3>1, <3>2, <3>3 DEF Standing
  <2> QED BY <2>1, <2>2
<1> QED BY <1>2 DEF Dictated, FactsUpTo

(* The command is done now, or an interrupted attempt had done it.          *)
LEMMA DictatedRemember ==
    ASSUME Course, Dictated, Remember, Messages' = Messages, All' = All
    PROVE  Dictated'
<1> DEFINE t == Topic(turn)
           new == [source |-> turn, topic |-> t, active |-> TRUE]
<1>1. turn \in All /\ turn' = turn /\ stage' = "remembered" /\ Does(turn) = "remember"
  BY DEF Remember, Doing, Does
<1>2. turn \in Nat /\ turn >= 1 /\ t \in Topics BY <1>1, MessageTypes
<1>3. facts \in Seq(FactRows) /\ DOMAIN facts = 1..Len(facts) /\ Len(facts) \in Nat
  BY DEF Dictated
<1>4. CASE HasFact(turn)
  <2>1. facts' = facts BY <1>3, <1>4 DEF Remember, HasFact
  <2>2. FactsUpTo(turn)' <=> FactsUpTo(turn) BY <2>1, <1>1, <1>2, SameFacts
  <2>3. \A m \in Nat : (HasFact(m)') <=> HasFact(m) BY <2>1, SameFacts
  <2> QED BY <1>1, <1>4, <2>1, <2>2, <2>3 DEF Dictated
<1>5. CASE ~HasFact(turn)
  <2>1. facts' = Append(Retired(t), new) BY <1>3, <1>5 DEF Remember, HasFact, Retired
  <2>2. new \in FactRows /\ new.source = turn /\ new.topic = t /\ new.active
    BY <1>2 DEF FactRows
  <2> HIDE DEF new
  <2>3. /\ Retired(t) \in Seq(FactRows) /\ Len(Retired(t)) = Len(facts)
        /\ \A i \in 1..Len(facts) :
             /\ Retired(t)[i].source = facts[i].source
             /\ Retired(t)[i].topic = facts[i].topic
             /\ Retired(t)[i].active <=> (facts[i].active /\ facts[i].topic # t)
    BY <1>2, <1>3, Retiring
  <2> HIDE DEF t
  <2>4. /\ facts' \in Seq(FactRows) /\ Len(facts') = Len(facts) + 1
        /\ \A i \in 1..Len(facts) : facts'[i] = Retired(t)[i]
        /\ facts'[Len(facts) + 1] = new
    BY <1>3, <2>1, <2>2, <2>3
  <2>5. \A i \in 1..Len(facts') : i \in 1..Len(facts) \/ i = Len(facts) + 1
    BY <1>3, <2>4
  <2>6. \A i \in 1..Len(facts) : i \in 1..Len(facts')
        /\ Len(facts) + 1 \in 1..Len(facts')
    BY <1>3, <2>4
  <2>7. Len(facts) + 1 \in 1..Len(facts') BY <1>3, <2>4
  <2>8. \A m \in Nat : HasFact(m)' => HasFact(m) \/ m = turn
    BY <2>2, <2>3, <2>4, <2>5 DEF HasFact
  <2>9. ASSUME NEW u \in Topics, NEW m \in Nat PROVE IsActive(u, m)' <=> Standing(turn, u, m)
    <3>1. CASE u # t
      <4>1. IsActive(u, m)' => IsActive(u, m) BY <3>1, <2>2, <2>3, <2>4, <2>5 DEF IsActive
      <4>2. IsActive(u, m) => IsActive(u, m)' BY <3>1, <2>3, <2>4, <2>6 DEF IsActive
      <4> QED BY <4>1, <4>2, <3>1, <1>1, SaidOfATopic DEF t
    <3>2. CASE u = t
      <4>1. IsActive(u, m)' => m = turn BY <3>2, <2>2, <2>3, <2>4, <2>5 DEF IsActive
      <4>2. m = turn => IsActive(u, m)' BY <3>2, <2>2, <2>4, <2>7 DEF IsActive
      <4>3. Standing(turn, u, m) => m = turn
        BY <3>2, <1>1, <1>2 DEF Standing, t
      <4>4. Standing(turn, u, turn) BY <3>2, <1>1, <1>2 DEF Standing, t
      <4> QED BY <4>1, <4>2, <4>3, <4>4
    <3> QED BY <3>1, <3>2
  <2>10. \A u, m : (Standing(turn, u, m)') <=> Standing(turn, u, m)
    BY <1>1 DEF Standing, Topic, Does
  <2>11. FactsUpTo(turn)' BY <2>9, <2>10, <1>1 DEF FactsUpTo
  <2>12. \A m \in Nat : HasFact(m)' => m \in All /\ m <= turn
    BY <2>8, <1>1, <1>2 DEF Dictated
  <2> QED BY <1>1, <2>4, <2>11, <2>12 DEF Dictated
<1> QED BY <1>4, <1>5

(* What is taken back twice is gone as if once.                             *)
LEMMA DictatedForget ==
    ASSUME Course, Dictated, ForgetFacts, Messages' = Messages, All' = All
    PROVE  Dictated'
<1> DEFINE t == Topic(turn)
<1>1. turn \in All /\ turn' = turn /\ stage' = "forgetting" /\ Does(turn) = "forget"
      /\ facts' = Retired(t)
  BY DEF ForgetFacts, Doing, Does, Retired
<1>2. turn \in Nat /\ turn >= 1 /\ t \in Topics BY <1>1, MessageTypes
<1>3. facts \in Seq(FactRows) /\ Len(facts) \in Nat BY DEF Dictated
<1>4. /\ facts' \in Seq(FactRows) /\ Len(facts') = Len(facts)
      /\ \A i \in 1..Len(facts) :
           /\ facts'[i].source = facts[i].source
           /\ facts'[i].topic = facts[i].topic
           /\ facts'[i].active <=> (facts[i].active /\ facts[i].topic # t)
  BY <1>1, <1>2, <1>3, Retiring
<1> HIDE DEF t
<1>5. \A m \in Nat : (HasFact(m)') <=> HasFact(m) BY <1>4 DEF HasFact
<1>6. ASSUME NEW u \in Topics, NEW m \in Nat PROVE IsActive(u, m)' <=> Standing(turn, u, m)
  <2>1. CASE u # t
    <3>1. IsActive(u, m)' <=> IsActive(u, m) BY <2>1, <1>4 DEF IsActive
    <3> QED BY <3>1, <2>1, <1>1, SaidOfATopic DEF t
  <2>2. CASE u = t
    <3>1. ~(IsActive(u, m)') BY <2>2, <1>4 DEF IsActive
    <3>2. ~Standing(turn, u, m) BY <2>2, <1>1, <1>2 DEF Standing, t
    <3> QED BY <3>1, <3>2
  <2> QED BY <2>1, <2>2
<1>7. \A u, m : (Standing(turn, u, m)') <=> Standing(turn, u, m)
  BY <1>1 DEF Standing, Topic, Does
<1>8. FactsUpTo(turn)' BY <1>6, <1>7, <1>1 DEF FactsUpTo
<1> QED BY <1>1, <1>4, <1>5, <1>8 DEF Dictated

LEMMA DictatedStep ==
    ASSUME Course, Dictated, [MemoryNext]_memoryVars
    PROVE  Dictated'
<1>1. Messages' = Messages /\ All' = All BY CourseStep
<1>2. turn \in Nat /\ turn >= 1 /\ turn - 1 \in Nat BY MessageTypes DEF Course
<1>3. ASSUME facts' = facts, turn' = turn, stage' \in Settled => stage \in Settled
      PROVE  Dictated'
  <2>1. /\ (FactsUpTo(turn)') <=> FactsUpTo(turn)
        /\ (FactsUpTo(turn - 1)') <=> FactsUpTo(turn - 1)
        /\ \A m \in Nat : (HasFact(m)') <=> HasFact(m)
    BY <1>1, <1>2, <1>3, SameFacts
  <2>2. (HasFact(turn)') <=> HasFact(turn) BY <1>2, <1>3, <2>1
  <2> QED BY <1>1, <1>3, <2>1, <2>2 DEF Dictated
<1>4. ASSUME facts' = facts, turn \in All, turn' = turn + 1, stage' = "waiting", FactsUpTo(turn)
      PROVE  Dictated'
  <2>1. /\ \A n \in Nat : (FactsUpTo(n)') <=> FactsUpTo(n)
        /\ \A m \in Nat : (HasFact(m)') <=> HasFact(m)
    BY <1>1, <1>4, SameFacts
  <2>2. turn' \in Nat /\ turn' - 1 = turn BY <1>2, <1>4
  <2>3. ~(HasFact(turn)')
    <3>1. ~HasFact(turn + 1) BY <1>2 DEF Dictated
    <3> QED BY <3>1, <1>4 DEF HasFact
  <2>4. FactsUpTo(turn - 1)'
    <3>1. \A t, m : (Standing(turn - 1, t, m)') <=> Standing(turn, t, m)
      BY <1>1, <2>2 DEF Standing, Topic, Does
    <3> QED BY <3>1, <1>4 DEF FactsUpTo, IsActive
  <2>5. \A m \in Nat : HasFact(m)' => m \in All' /\ m <= turn'
    <3>1. \A m \in Nat : HasFact(m) => m \in All /\ m <= turn BY DEF Dictated
    <3>2. \A m \in Nat : m <= turn => m <= turn' BY <2>2, <1>2, <1>4
    <3> QED BY <2>1, <3>1, <3>2, <1>1
  <2>6. facts' \in Seq(FactRows) BY <1>4 DEF Dictated
  <2>7. ~(stage' \in Settled) BY <1>4 DEF Settled
  <2> QED BY <2>3, <2>4, <2>5, <2>6, <2>7 DEF Dictated
<1>5. CASE Stays BY <1>3, <1>5 DEF Stays
<1>6. CASE Proceeds BY <1>3, <1>6 DEF Proceeds, Talking, Settled
<1>7. CASE Leaves
  <2>1. turn \in All /\ Does(turn) = "talk" BY <1>7 DEF Leaves, Course, Doing, Does, Talking
  <2>2. FactsUpTo(turn) BY <2>1, TalkKeeps DEF Dictated
  <2> QED BY <1>4, <1>7, <2>1, <2>2 DEF Leaves, Done
<1>8. CASE Remember BY <1>1, <1>8, DictatedRemember
<1>9. CASE ForgetFacts BY <1>1, <1>9, DictatedForget
<1>10. CASE Drops BY <1>3, <1>10 DEF Drops, Settled
<1>11. CASE Confirm
  <2>1. turn \in All /\ FactsUpTo(turn) BY <1>11 DEF Confirm, Course, Doing, Dictated, Settled
  <2> QED BY <1>4, <1>11, <2>1 DEF Confirm, Done
<1>12. CASE StepsBack BY <1>3, <1>12 DEF StepsBack, Talking, Settled
<1> QED BY <1>5, <1>6, <1>7, <1>8, <1>9, <1>10, <1>11, <1>12, WorkerSteps

(* The greatest of a set of numbers up to a bound, as Max names it.         *)
LEMMA GreatestIsMax ==
    ASSUME NEW n \in Nat, NEW S \in SUBSET (1..n), NEW m \in S
    PROVE  m = Max(S) <=> \A k \in S : k <= m
<1>1. Max(S) = CHOOSE x \in S : \A y \in S : x >= y BY DEF Max
<1>2. ASSUME NEW a \in S, NEW b \in S, \A k \in S : k <= a, \A k \in S : k <= b PROVE a = b
  BY <1>2
<1>3. \E x \in S : \A y \in S : x >= y
  <2> DEFINE D == {n - k : k \in S}
  <2>1. D \in SUBSET Nat /\ D # {} OBVIOUS
  <2>7. PICK d \in D : \A e \in D : ~ (<<e, d>> \in OpToRel(<, Nat))
    BY <2>1, NatLessThanWellFounded, WFMin
  <2>8. ASSUME NEW e \in D PROVE d <= e
    <3>1. d \in Nat /\ e \in Nat BY <2>1
    <3>2. e < d => <<e, d>> \in OpToRel(<, Nat) BY <3>1 DEF OpToRel
    <3>3. ~ (<<e, d>> \in OpToRel(<, Nat)) BY <2>7, Zenon
    <3>4. ~ (e < d) BY <3>2, <3>3, Zenon
    <3> QED BY <3>1, <3>4
  <2>2. \A e \in D : d <= e BY <2>8
  <2>3. PICK x \in S : d = n - x BY <2>7
  <2>4. \A y \in S : n - y \in D OBVIOUS
  <2>5. \A y \in S : n - x <= n - y BY <2>2, <2>3, <2>4
  <2>6. \A y \in S : x >= y BY <2>5
  <2> QED BY <2>6
<1>4. Max(S) \in S /\ \A y \in S : Max(S) >= y BY <1>1, <1>3
<1>5. \A k \in S : k <= Max(S) BY <1>4
<1> QED BY <1>2, <1>4, <1>5

(* Whatever is retried or interrupted, the active facts are what was said   *)
(* last of each topic.                                                      *)
THEOREM SaidLastHoldsAlways == MemorySpec => []SaidLastHolds
<1>1. MemoryInit => Course /\ Dictated BY CourseInit, DictatedInit
<1>2. Course /\ Dictated /\ [MemoryNext]_memoryVars => Course' /\ Dictated'
  BY CourseStep, DictatedStep
<1>3. Course /\ Dictated => SaidLastHolds
  <2> SUFFICES ASSUME Course, Dictated, stage \in Settled, NEW t \in Topics
               PROVE  LET said   == {m \in 1..turn : Topic(m) = t /\ Messages[m].does # "talk"}
                          active == {f \in ToSet(facts) : f.topic = t /\ f.active}
                      IN  {f.source : f \in active} =
                              {m \in said : m = Max(said) /\ Messages[m].does = "remember"}
    BY DEF SaidLastHolds, Settled
  <2> DEFINE said   == {m \in 1..turn : Topic(m) = t /\ Messages[m].does # "talk"}
             active == {f \in ToSet(facts) : f.topic = t /\ f.active}
  <2>1. turn \in Nat BY MessageTypes DEF Course
  <2>2. FactsUpTo(turn) BY DEF Dictated
  <2>3. facts \in Seq(FactRows) /\ Len(facts) \in Nat /\ DOMAIN facts = 1..Len(facts)
    BY DEF Dictated
  <2>4. ToSet(facts) = {facts[i] : i \in 1..Len(facts)} BY <2>3 DEF ToSet
  <2>5. \A i \in 1..Len(facts) : facts[i].source \in Nat
    <3>1. \A r \in FactRows : r.source \in Nat BY DEF FactRows
    <3> QED BY <2>3, <3>1
  <2>6. ASSUME NEW m PROVE m \in {f.source : f \in active} <=> m \in Nat /\ IsActive(t, m)
    BY <2>4, <2>5 DEF IsActive
  <2>7. ASSUME NEW m PROVE m \in {x \in said : x = Max(said) /\ Messages[x].does = "remember"}
                             <=> m \in Nat /\ Standing(turn, t, m)
    <3>1. CASE m \in said
      <4>1. m = Max(said) <=> \A k \in said : k <= m BY <2>1, <3>1, GreatestIsMax
      <4> QED BY <2>1, <3>1, <4>1 DEF Standing, Does
    <3>2. CASE m \notin said
      BY <2>1, <3>2 DEF Standing, Does
    <3> QED BY <3>1, <3>2
  <2>8. \A m \in Nat : IsActive(t, m) <=> Standing(turn, t, m) BY <2>2 DEF FactsUpTo
  <2> QED BY <2>6, <2>7, <2>8
<1> QED BY <1>1, <1>2, <1>3, PTL DEF MemorySpec
-----------------------------------------------------------------------------
(*                    The jobs, the extractor, the events                   *)

Statuses == {"none", "pending", "processing", "completed"}
Jobs == [status : Statuses, tries : Nat, said : Int, delayed : BOOLEAN]
Extractors == [at : {"off", "idle", "asking", "storing"}, job : Int, found : Int]
Reasons == {"no", "forgotten", "gave up", "nothing", "duplicate", "retention",
            "store failed", "crash"}

ExtractionTypes ==
    /\ jobs \in [All -> Jobs] /\ extractor \in Extractors
    /\ excused \in [All -> Reasons]
    /\ day \in Int /\ heard \in [All -> Int]

(* A job is of a conversation the worker has left behind, and remembers the *)
(* day on which its words were received.                                    *)
JobsOfTalks ==
    \A m \in All : jobs[m].status # "none" =>
        m < turn /\ Does(m) = "talk" /\ jobs[m].said = heard[m]

(* The job in hand is claimed while the model is asked, and completed when  *)
(* its event is about to be stored.                                         *)
InHand ==
    LET m == extractor.job IN
    /\ extractor.at = "asking" => m \in All /\ jobs[m].status = "processing"
    /\ extractor.at = "storing" =>
         /\ m \in All /\ jobs[m].status = "completed"
         /\ extractor.found \in {heard[m], heard[m] - 1}

Told(e) ==
    /\ e.source \in All /\ e.source < turn
    /\ Does(e.source) = "talk" /\ Topic(e.source) = e.topic
    /\ e.day \in {heard[e.source], heard[e.source] - 1}

EventsTold ==
    /\ \A e \in events : e \in household.noted \/ Told(e)
    /\ \A e, f \in events : e \notin household.noted /\ f.source = e.source => f = e

Accounted ==
    \A m \in All :
        jobs[m].status = "completed" /\ excused[m] = "no" =>
            \/ \E e \in events : e.source = m
            \/ extractor.at = "storing" /\ extractor.job = m

(* The household has had the topic of message m removed.                    *)
ForgetDone(m) ==
    Does(m) = "forget" /\ (m < turn \/ (m = turn /\ stage = "forgotten"))

(* What is stored of a topic that was removed since, and what may still be  *)
(* stored of it, is what was late.                                          *)
Gone ==
    /\ \A e \in events, m \in All :
         ForgetDone(m) /\ Topic(m) = e.topic /\ m > e.source => e.source \in late
    /\ \A n, m \in All :
         Unfinished(n) /\ ForgetDone(m) /\ Topic(m) = Topic(n) /\ m > n => n \in late

Extracted ==
    /\ ExtractionTypes /\ JobsOfTalks /\ InHand /\ EventsTold /\ Accounted /\ Gone

LEMMA JobChanges ==
    ASSUME NEW j \in Jobs
    PROVE  /\ LET k == [j EXCEPT !.delayed = FALSE] IN
                  k \in Jobs /\ k.status = j.status /\ k.said = j.said
           /\ LET k == [j EXCEPT !.status = "pending", !.delayed = FALSE] IN
                  k \in Jobs /\ k.status = "pending" /\ k.said = j.said
           /\ LET k == [j EXCEPT !.status = "pending", !.delayed = TRUE] IN
                  k \in Jobs /\ k.status = "pending" /\ k.said = j.said
           /\ LET k == [j EXCEPT !.status = "processing", !.tries = @ + 1] IN
                  k \in Jobs /\ k.status = "processing" /\ k.said = j.said
           /\ LET k == [j EXCEPT !.status = "completed"] IN
                  k \in Jobs /\ k.status = "completed" /\ k.said = j.said
<1> USE DEF Jobs, Statuses
<1>1. \A k : k = [j EXCEPT !.delayed = FALSE]
        => k \in Jobs /\ k.status = j.status /\ k.said = j.said
  OBVIOUS
<1>2. \A k : k = [j EXCEPT !.status = "pending", !.delayed = FALSE]
        => k \in Jobs /\ k.status = "pending" /\ k.said = j.said
  OBVIOUS
<1>3. \A k : k = [j EXCEPT !.status = "pending", !.delayed = TRUE]
        => k \in Jobs /\ k.status = "pending" /\ k.said = j.said
  OBVIOUS
<1>4. \A k : k = [j EXCEPT !.status = "processing", !.tries = @ + 1]
        => k \in Jobs /\ k.status = "processing" /\ k.said = j.said
  <2>1. j.tries + 1 \in Nat OBVIOUS
  <2>2. \A n \in Nat : \A k : k = [j EXCEPT !.status = "processing", !.tries = n]
          => k \in Jobs /\ k.status = "processing" /\ k.said = j.said
    OBVIOUS
  <2> HIDE DEF Jobs
  <2> QED BY <2>1, <2>2
<1>5. \A k : k = [j EXCEPT !.status = "completed"]
        => k \in Jobs /\ k.status = "completed" /\ k.said = j.said
  OBVIOUS
<1> QED BY <1>1, <1>2, <1>3, <1>4, <1>5, Zenon

LEMMA ExtractedInit == MemoryInit => Extracted
<1> SUFFICES ASSUME MemoryInit PROVE Extracted
  OBVIOUS
<1>1. Course BY CourseInit
<1>2. All = 1..Len(Messages) /\ Len(Messages) \in Nat
      /\ \A e \in household.noted : e.source \in Int /\ e.source < 1
  BY <1>1, MessageTypes
<1>3. /\ turn = 1 /\ stage = "waiting" /\ day = 1
      /\ heard = [m \in All |-> 0] /\ events = household.noted
      /\ jobs = [m \in All |-> NoJob] /\ extractor = Resting
      /\ excused = [m \in All |-> "no"]
  BY DEF MemoryInit
<1>4. NoJob \in Jobs /\ NoJob.status = "none" BY DEF NoJob, Jobs, Statuses
<1>5. ExtractionTypes
  <2>1. jobs \in [All -> Jobs] BY <1>3, <1>4
  <2>2. extractor \in Extractors BY <1>3 DEF Resting, Extractors
  <2>3. excused \in [All -> Reasons] BY <1>3 DEF Reasons
  <2>4. heard \in [All -> Int] /\ day \in Int BY <1>3
  <2> QED BY <2>1, <2>2, <2>3, <2>4 DEF ExtractionTypes
<1>6. \A m \in All : jobs[m].status = "none" BY <1>3, <1>4
<1>7. JobsOfTalks BY <1>6 DEF JobsOfTalks
<1>8. InHand BY <1>3 DEF InHand, Resting
<1>9. EventsTold BY <1>3 DEF EventsTold
<1>10. Accounted BY <1>6 DEF Accounted
<1>11. \A m \in All : ~ForgetDone(m) BY <1>2, <1>3 DEF ForgetDone
<1>12. Gone BY <1>11 DEF Gone
<1> QED BY <1>5, <1>7, <1>8, <1>9, <1>10, <1>12 DEF Extracted

(* A step of the worker that does not touch the jobs or the events: at most *)
(* it dates its own message, and the message it leaves is not a removal     *)
(* unless that has been done.                                               *)
Aside ==
    /\ UNCHANGED <<jobs, extractor, events, excused, late>>
    /\ day' \in Int /\ heard' \in [All -> Int]
    /\ \A m \in All : m < turn => heard'[m] = heard[m]
    /\ \/ turn' = turn /\ (stage' = "forgotten" => stage = "forgotten")
       \/ /\ turn \in All /\ turn' = turn + 1 /\ stage' = "waiting"
          /\ Does(turn) = "forget" => stage = "forgotten"

(* A step of the extractor that stores no event.                            *)
Extracts ==
    /\ UNCHANGED <<turn, day, heard, events, late>>
    /\ stage' = stage \/ stage' # "forgotten"
    /\ jobs' \in [All -> Jobs] /\ extractor' \in Extractors /\ excused' \in [All -> Reasons]
    /\ \A m \in All :
         /\ jobs'[m].status # "none" => jobs[m].status # "none"
         /\ jobs'[m].said = jobs[m].said
         /\ Unfinished(m)' => Unfinished(m)
    /\ InHand' /\ Accounted'

LEMMA AsideKeeps ==
    ASSUME Course, Extracted, Messages' = Messages, All' = All, household' = household, Aside
    PROVE  Extracted'
<1>1. turn \in Nat /\ All = 1..Len(Messages) /\ Len(Messages) \in Nat
  BY MessageTypes DEF Course
<1>2. turn' \in Nat /\ turn <= turn' BY <1>1 DEF Aside
<1>3. /\ jobs' = jobs /\ extractor' = extractor /\ events' = events
      /\ excused' = excused /\ late' = late
      /\ \A m \in All : m < turn => heard'[m] = heard[m] /\ m < turn'
  BY <1>1, <1>2 DEF Aside
<1>4. ExtractionTypes'
  BY <1>3 DEF Extracted, ExtractionTypes, Aside
<1>5. JobsOfTalks' BY <1>1, <1>3 DEF Extracted, JobsOfTalks, Does
<1>6. InHand'
  <2>1. extractor.at = "storing" => extractor.job < turn
    BY DEF Extracted, InHand, JobsOfTalks
  <2> QED BY <1>3, <2>1 DEF Extracted, InHand
<1>7. EventsTold'
  <2>1. \A e : Told(e) => Told(e)' BY <1>1, <1>3 DEF Told, Does, Topic
  <2> QED BY <1>3, <2>1 DEF Extracted, EventsTold
<1>8. Accounted' BY <1>3 DEF Extracted, Accounted
<1>9. \A m \in All : ForgetDone(m)' => ForgetDone(m)
  BY <1>1, <1>2 DEF ForgetDone, Does, Aside
<1>10. \A m \in All : Unfinished(m)' <=> Unfinished(m) BY <1>3 DEF Unfinished
<1>11. \A m \in All : Topic(m)' = Topic(m) BY DEF Topic
<1>12. Gone' BY <1>3, <1>9, <1>10, <1>11 DEF Extracted, Gone
<1> QED BY <1>4, <1>5, <1>6, <1>7, <1>8, <1>12 DEF Extracted

LEMMA ExtractsKeeps ==
    ASSUME Course, Extracted, Messages' = Messages, All' = All, household' = household, Extracts
    PROVE  Extracted'
<1>1. turn' = turn /\ day' = day /\ heard' = heard /\ events' = events /\ late' = late
  BY DEF Extracts
<1>2. ExtractionTypes' BY <1>1 DEF Extracted, ExtractionTypes, Extracts
<1>3. JobsOfTalks' BY <1>1 DEF Extracted, JobsOfTalks, Does, Extracts
<1>4. EventsTold'
  <2>1. \A e : Told(e) => Told(e)' BY <1>1 DEF Told, Does, Topic
  <2> QED BY <1>1, <2>1 DEF Extracted, EventsTold
<1>5. \A m \in All : ForgetDone(m)' => ForgetDone(m)
  BY <1>1 DEF ForgetDone, Does, Extracts
<1>6. \A m \in All : Topic(m)' = Topic(m) BY DEF Topic
<1>7. \A m \in All : Unfinished(m)' => Unfinished(m) BY DEF Extracts
<1>8. Gone' BY <1>1, <1>5, <1>6, <1>7 DEF Extracted, Gone
<1> QED BY <1>2, <1>3, <1>4, <1>8 DEF Extracted, Extracts

(* One job is changed, and what was unfinished stays so at most.            *)
LEMMA OneJob ==
    ASSUME ExtractionTypes, NEW m \in All, NEW k \in Jobs,
           jobs' = [jobs EXCEPT ![m] = k], k.said = jobs[m].said
    PROVE  /\ jobs' \in [All -> Jobs] /\ jobs'[m] = k
           /\ \A n \in All : n # m => jobs'[n] = jobs[n]
           /\ \A n \in All : jobs'[n].said = jobs[n].said
<1>1. jobs \in [All -> Jobs] BY DEF ExtractionTypes
<1>2. jobs' \in [All -> Jobs] /\ jobs'[m] = k BY <1>1
<1>3. \A n \in All : n # m => jobs'[n] = jobs[n] BY <1>1
<1> QED BY <1>2, <1>3

LEMMA HandTypes ==
    ASSUME ExtractionTypes
    PROVE  /\ Resting \in Extractors /\ Resting.at = "idle"
           /\ [Resting EXCEPT !.at = "off"] \in Extractors
           /\ [Resting EXCEPT !.at = "off"].at = "off"
           /\ \A m \in All : /\ jobs[m] \in Jobs
                             /\ \A why \in Reasons : [excused EXCEPT ![m] = why] \in [All -> Reasons]
<1>1. Resting \in Extractors /\ Resting.at = "idle" BY DEF Resting, Extractors
<1>2. [Resting EXCEPT !.at = "off"] = [at |-> "off", job |-> 0, found |-> 0]
  BY DEF Resting
<1>3. [at |-> "off", job |-> 0, found |-> 0] \in Extractors BY DEF Extractors
<1>4. [at |-> "off", job |-> 0, found |-> 0].at = "off" OBVIOUS
<1>5. \A m \in All : \A why \in Reasons : [excused EXCEPT ![m] = why] \in [All -> Reasons]
  BY DEF ExtractionTypes
<1>6. \A m \in All : jobs[m] \in Jobs BY DEF ExtractionTypes
<1> QED BY <1>1, <1>2, <1>3, <1>4, <1>5, <1>6

LEMMA DelayIsExtracts ==
    ASSUME Extracted, NEW m \in All, DelayElapses(m), All' = All
    PROVE  Extracts
<1> DEFINE k == [jobs[m] EXCEPT !.delayed = FALSE]
<1>1. ExtractionTypes /\ jobs[m] \in Jobs BY HandTypes DEF Extracted
<1>2. k \in Jobs /\ k.status = jobs[m].status /\ k.said = jobs[m].said BY <1>1, JobChanges
<1>3. /\ jobs' = [jobs EXCEPT ![m] = k] /\ extractor' = extractor
      /\ UNCHANGED <<turn, stage, day, heard, events, late, excused>>
  BY DEF DelayElapses, SetJob, Elsewhere, worker, history
<1> HIDE DEF k
<1>4. /\ jobs' \in [All -> Jobs] /\ jobs'[m] = k
      /\ \A n \in All : n # m => jobs'[n] = jobs[n]
      /\ \A n \in All : jobs'[n].said = jobs[n].said
  BY <1>1, <1>2, <1>3, OneJob
<1>5. \A n \in All : jobs'[n].status = jobs[n].status BY <1>2, <1>4
<1>6. InHand' /\ Accounted' BY <1>3, <1>5 DEF Extracted, InHand, Accounted
<1>7. \A n \in All : Unfinished(n)' => Unfinished(n) BY <1>3, <1>5 DEF Unfinished
<1> QED BY <1>1, <1>3, <1>4, <1>5, <1>6, <1>7 DEF Extracts, ExtractionTypes

LEMMA RecoverIsExtracts ==
    ASSUME Extracted, RecoverExtractions, All' = All
    PROVE  Extracts
<1> DEFINE back(m) == [jobs[m] EXCEPT !.status = "pending", !.delayed = FALSE]
           new(m) == IF jobs[m].status = "processing" THEN back(m) ELSE jobs[m]
<1>1. ExtractionTypes /\ \A m \in All : jobs[m] \in Jobs BY HandTypes DEF Extracted
<1>2. \A m \in All : back(m) \in Jobs /\ back(m).status = "pending" /\ back(m).said = jobs[m].said
  BY <1>1, JobChanges
<1>3. /\ jobs' = [m \in All |-> new(m)] /\ extractor' = Resting /\ extractor.at = "off"
      /\ UNCHANGED <<turn, stage, day, heard, events, late, excused>>
  BY DEF RecoverExtractions, Elsewhere, worker, history
<1> HIDE DEF back
<1>4. \A m \in All : /\ new(m) \in Jobs /\ new(m).said = jobs[m].said
                     /\ \/ new(m).status = jobs[m].status
                        \/ new(m).status = "pending" /\ jobs[m].status = "processing"
  BY <1>1, <1>2
<1> HIDE DEF new
<1>5. jobs' \in [All -> Jobs] /\ \A m \in All : jobs'[m] = new(m) BY <1>3, <1>4
<1>6. Resting \in Extractors /\ Resting.at = "idle" BY <1>1, HandTypes
<1>7. InHand' /\ Accounted'
  BY <1>3, <1>4, <1>5, <1>6 DEF Extracted, InHand, Accounted
<1>8. \A n \in All : Unfinished(n)' => Unfinished(n)
  BY <1>3, <1>4, <1>5, <1>6 DEF Unfinished
<1> QED BY <1>1, <1>3, <1>4, <1>5, <1>6, <1>7, <1>8 DEF Extracts, ExtractionTypes

LEMMA ClaimIsExtracts ==
    ASSUME Course, Extracted, NEW m \in All, ClaimExtraction(m), All' = All
    PROVE  Extracts
<1> DEFINE k == [jobs[m] EXCEPT !.status = "processing", !.tries = @ + 1]
           hand == [at |-> "asking", job |-> m, found |-> 0]
<1>1. ExtractionTypes /\ jobs[m] \in Jobs BY HandTypes DEF Extracted
<1>2. k \in Jobs /\ k.status = "processing" /\ k.said = jobs[m].said BY <1>1, JobChanges
<1>3. /\ jobs' = [jobs EXCEPT ![m] = k] /\ extractor' = hand
      /\ extractor.at = "idle" /\ jobs[m].status = "pending"
      /\ UNCHANGED <<turn, stage, day, heard, events, late, excused>>
  BY DEF ClaimExtraction, SetJob, Elsewhere, worker, history
<1> HIDE DEF k
<1>4. /\ jobs' \in [All -> Jobs] /\ jobs'[m] = k
      /\ \A n \in All : n # m => jobs'[n] = jobs[n]
      /\ \A n \in All : jobs'[n].said = jobs[n].said
  BY <1>1, <1>2, <1>3, OneJob
<1>5. m \in Int BY MessageTypes
<1>6. hand \in Extractors /\ hand.at = "asking" /\ hand.job = m BY <1>5 DEF Extractors
<1> HIDE DEF hand
<1>7. InHand' BY <1>2, <1>3, <1>4, <1>6 DEF InHand
<1>8. Accounted' BY <1>2, <1>3, <1>4 DEF Extracted, Accounted
<1>9. \A n \in All : Unfinished(n)' => Unfinished(n)
  BY <1>2, <1>3, <1>4, <1>6 DEF Unfinished
<1> QED BY <1>1, <1>2, <1>3, <1>4, <1>6, <1>7, <1>8, <1>9 DEF Extracts, ExtractionTypes

(* The job in hand goes back among the pending ones, or is completed.       *)
LEMMA PutBackIsExtracts ==
    ASSUME Extracted, extractor.at = "asking", PutBack(extractor.job), extractor' = Resting,
           UNCHANGED <<turn, stage, day, heard, events, late, excused>>, All' = All
    PROVE  Extracts
<1> DEFINE m == extractor.job
           k == [jobs[m] EXCEPT !.status = "pending", !.delayed = TRUE]
<1>1. m \in All /\ jobs[m].status = "processing" BY DEF Extracted, InHand
<1>2. ExtractionTypes /\ jobs[m] \in Jobs BY <1>1, HandTypes DEF Extracted
<1>3. k \in Jobs /\ k.status = "pending" /\ k.said = jobs[m].said BY <1>2, JobChanges
<1>4. jobs' = [jobs EXCEPT ![m] = k] BY DEF PutBack, SetJob
<1> HIDE DEF k, m
<1>5. /\ jobs' \in [All -> Jobs] /\ jobs'[m] = k
      /\ \A n \in All : n # m => jobs'[n] = jobs[n]
      /\ \A n \in All : jobs'[n].said = jobs[n].said
  BY <1>1, <1>2, <1>3, <1>4, OneJob
<1>6. Resting \in Extractors /\ Resting.at = "idle" BY <1>2, HandTypes
<1>7. InHand' BY <1>6 DEF InHand
<1>8. Accounted' BY <1>3, <1>5 DEF Extracted, Accounted
<1>9. \A n \in All : Unfinished(n)' => Unfinished(n)
  BY <1>1, <1>3, <1>5, <1>6 DEF Unfinished
<1> QED BY <1>1, <1>2, <1>3, <1>5, <1>6, <1>7, <1>8, <1>9 DEF Extracts, ExtractionTypes

LEMMA FinishIsExtracts ==
    ASSUME Extracted, extractor.at = "asking", Finish(extractor.job), All' = All,
           extractor' \in Extractors, extractor'.at \in {"idle", "storing"},
           UNCHANGED <<turn, stage, day, heard, events, late>>,
           \/ /\ extractor'.at = "idle"
              /\ \E why \in Reasons \ {"no"} : Excuse(extractor.job, why)
           \/ /\ excused' = excused /\ extractor'.at = "storing"
              /\ extractor'.job = extractor.job
              /\ extractor'.found \in {jobs[extractor.job].said, jobs[extractor.job].said - 1}
    PROVE  Extracts
<1> DEFINE m == extractor.job
           k == [jobs[m] EXCEPT !.status = "completed"]
<1>1. m \in All /\ jobs[m].status = "processing" BY DEF Extracted, InHand
<1>2. ExtractionTypes /\ jobs[m] \in Jobs BY <1>1, HandTypes DEF Extracted
<1>3. k \in Jobs /\ k.status = "completed" /\ k.said = jobs[m].said BY <1>2, JobChanges
<1>4. jobs' = [jobs EXCEPT ![m] = k] BY DEF Finish, SetJob
<1>5. jobs[m].said = heard[m] BY <1>1 DEF Extracted, JobsOfTalks
<1> HIDE DEF k
<1>6. /\ jobs' \in [All -> Jobs] /\ jobs'[m] = k
      /\ \A n \in All : n # m => jobs'[n] = jobs[n]
      /\ \A n \in All : jobs'[n].said = jobs[n].said
  BY <1>1, <1>2, <1>3, <1>4, OneJob
<1>7. InHand' BY <1>1, <1>3, <1>5, <1>6 DEF InHand
<1>8. Accounted' /\ excused' \in [All -> Reasons]
  <2>1. CASE extractor'.at = "storing" /\ extractor'.job = m /\ excused' = excused
    <3>1. \A n \in All : n # m => jobs'[n] = jobs[n] BY <1>6
    <3> QED BY <2>1, <3>1, <1>2 DEF Extracted, Accounted, ExtractionTypes
  <2>2. ASSUME NEW why \in Reasons \ {"no"}, excused' = [excused EXCEPT ![m] = why]
        PROVE  Accounted' /\ excused' \in [All -> Reasons]
    <3>1. excused' \in [All -> Reasons] /\ excused'[m] # "no"
          /\ \A n \in All : n # m => excused'[n] = excused[n]
      BY <2>2, <1>1, <1>2 DEF ExtractionTypes
    <3> QED BY <3>1, <1>1, <1>6 DEF Extracted, Accounted
  <2> QED BY <2>1, <2>2 DEF Excuse
<1>9. \A n \in All : Unfinished(n)' => Unfinished(n)
  BY <1>1, <1>3, <1>6 DEF Unfinished
<1> QED BY <1>1, <1>2, <1>3, <1>6, <1>7, <1>8, <1>9 DEF Extracts, ExtractionTypes

(* The process stops: what was about to be stored is lost.                  *)
LEMMA RestartIsExtracts ==
    ASSUME Extracted, Restart, UNCHANGED jobs \/ Shutdown, All' = All
    PROVE  Extracts
<1>1. ExtractionTypes BY DEF Extracted
<1>2. /\ [Resting EXCEPT !.at = "off"] \in Extractors
      /\ [Resting EXCEPT !.at = "off"].at = "off"
  BY <1>1, HandTypes
<1>3. extractor' \in Extractors /\ extractor'.at = "off" BY <1>2 DEF Restart
<1>4. UNCHANGED <<turn, day, heard, events, late>> /\ stage' # "forgotten"
  BY DEF Restart
<1>5. InHand' BY <1>3 DEF InHand
<1>6. /\ excused' \in [All -> Reasons]
      /\ \A n \in All : excused'[n] = "no" =>
           excused[n] = "no" /\ ~(extractor.at = "storing" /\ extractor.job = n)
  <2>1. CASE extractor.at = "storing"
    <3>1. extractor.job \in All BY <2>1 DEF Extracted, InHand
    <3>2. excused' = [excused EXCEPT ![extractor.job] = "crash"] BY <2>1 DEF Restart
    <3> QED BY <1>1, <3>1, <3>2 DEF ExtractionTypes, Reasons
  <2>2. CASE extractor.at # "storing"
    <3>1. excused' = excused BY <2>2 DEF Restart
    <3> QED BY <1>1, <2>2, <3>1 DEF ExtractionTypes
  <2> QED BY <2>1, <2>2
<1>7. /\ jobs' \in [All -> Jobs]
      /\ \A n \in All : jobs'[n].said = jobs[n].said
      /\ \A n \in All : \/ jobs'[n].status = jobs[n].status
                        \/ jobs'[n].status = "pending" /\ jobs[n].status = "processing"
  <2>1. CASE UNCHANGED jobs BY <1>1, <2>1 DEF ExtractionTypes
  <2>2. CASE Shutdown
    <3> DEFINE m == extractor.job
               k == [jobs[m] EXCEPT !.status = "pending", !.delayed = FALSE]
    <3>1. m \in All /\ jobs[m].status = "processing" BY <2>2 DEF Shutdown, Extracted, InHand
    <3>2. jobs[m] \in Jobs BY <1>1, <3>1, HandTypes
    <3>3. k \in Jobs /\ k.status = "pending" /\ k.said = jobs[m].said BY <3>2, JobChanges
    <3>4. jobs' = [jobs EXCEPT ![m] = k] BY <2>2 DEF Shutdown, SetJob
    <3> HIDE DEF k, m
    <3>5. /\ jobs' \in [All -> Jobs] /\ jobs'[m] = k
          /\ \A n \in All : n # m => jobs'[n] = jobs[n]
          /\ \A n \in All : jobs'[n].said = jobs[n].said
      BY <1>1, <3>1, <3>3, <3>4, OneJob
    <3> QED BY <3>1, <3>3, <3>5
  <2> QED BY <2>1, <2>2
<1>8. Accounted' BY <1>4, <1>6, <1>7 DEF Extracted, Accounted
<1>9. \A n \in All : Unfinished(n)' => Unfinished(n)
  BY <1>3, <1>7 DEF Unfinished
<1> QED BY <1>3, <1>4, <1>5, <1>6, <1>7, <1>8, <1>9 DEF Extracts

LEMMA StoreFailsIsExtracts ==
    ASSUME Extracted, StoreFails, All' = All
    PROVE  Extracts
<1> DEFINE m == extractor.job
<1>1. ExtractionTypes /\ m \in All BY DEF Extracted, InHand, StoreFails
<1>2. /\ extractor' = Resting /\ jobs' = jobs
      /\ excused' = [excused EXCEPT ![m] = "store failed"]
      /\ UNCHANGED <<turn, stage, day, heard, events, late>>
  BY DEF StoreFails, Excuse, Elsewhere, worker
<1>3. Resting \in Extractors /\ Resting.at = "idle" BY <1>1, HandTypes
<1>4. /\ excused' \in [All -> Reasons] /\ excused'[m] # "no"
      /\ \A n \in All : n # m => excused'[n] = excused[n]
  BY <1>1, <1>2 DEF ExtractionTypes, Reasons
<1>5. InHand' BY <1>2, <1>3 DEF InHand
<1>6. Accounted' BY <1>2, <1>4 DEF Extracted, Accounted
<1>7. \A n \in All : Unfinished(n)' => Unfinished(n) BY <1>2, <1>3 DEF Unfinished
<1> QED BY <1>1, <1>2, <1>3, <1>4, <1>5, <1>6, <1>7 DEF Extracts, ExtractionTypes

(* What is stored is told by the exchange in hand; what makes room for it   *)
(* is excused.                                                              *)
LEMMA StoreKeeps ==
    ASSUME Course, Extracted, StoreEvent, Messages' = Messages, All' = All,
           household' = household
    PROVE  Extracted'
<1> DEFINE m   == extractor.job
           row == [id |-> 1 + Max({0} \cup {e.id : e \in events}), source |-> m,
                   topic |-> Topic(m), day |-> extractor.found]
           kept == RetainedEvents(events \cup {row})
           known == \E e \in events : e.source = m \/ (e.topic = row.topic /\ e.day = row.day)
<1>1. ExtractionTypes /\ m \in All /\ jobs[m].status = "completed"
      /\ extractor.at = "storing" /\ extractor.found \in {heard[m], heard[m] - 1}
  BY DEF StoreEvent, Extracted, InHand
<1>2. /\ extractor' = Resting /\ jobs' = jobs
      /\ UNCHANGED <<turn, stage, day, heard, late>>
  BY DEF StoreEvent, Elsewhere, worker
<1>3. Resting \in Extractors /\ Resting.at = "idle" BY <1>1, HandTypes
<1>4. row.source = m /\ row.topic = Topic(m) /\ row.day = extractor.found OBVIOUS
<1>5. m < turn /\ Does(m) = "talk" BY <1>1 DEF Extracted, JobsOfTalks
<1>6. Told(row) BY <1>1, <1>4, <1>5 DEF Told
<1>7. \/ known /\ events' = events /\ excused' = [excused EXCEPT ![m] = "duplicate"]
      \/ /\ ~known /\ events' = kept
         /\ excused' = [n \in All |-> IF \E e \in (events \cup {row}) \ kept : e.source = n
                                      THEN "retention" ELSE excused[n]]
  BY DEF StoreEvent, Excuse
<1>8. kept \subseteq events \cup {row} BY DEF RetainedEvents
<1>9. ~known => \A e \in events : e.source # m BY <1>4
<1>10. \A e \in household.noted : e.source # m BY <1>1, MessageTypes
<1> HIDE DEF m, row, kept, known
<1>11. \A e \in events' : e \in events \/ (e = row /\ ~known) BY <1>7, <1>8
<1>12. ExtractionTypes'
  <2>1. excused' \in [All -> Reasons]
    <3>1. CASE excused' = [excused EXCEPT ![m] = "duplicate"]
      BY <1>1, <3>1 DEF ExtractionTypes, Reasons
    <3>2. CASE excused' = [n \in All |-> IF \E e \in (events \cup {row}) \ kept : e.source = n
                                         THEN "retention" ELSE excused[n]]
      <4>1. "retention" \in Reasons /\ \A n \in All : excused[n] \in Reasons
        BY <1>1 DEF ExtractionTypes, Reasons
      <4> QED BY <3>2, <4>1
    <3> QED BY <3>1, <3>2, <1>7
  <2> QED BY <2>1, <1>1, <1>2, <1>3 DEF ExtractionTypes
<1>13. JobsOfTalks' BY <1>2 DEF Extracted, JobsOfTalks, Does
<1>14. InHand' BY <1>2, <1>3 DEF InHand
<1>15. EventsTold'
  <2>1. \A e : Told(e) => Told(e)' BY <1>2 DEF Told, Does, Topic
  <2>2. \A e \in events' : e \in household.noted \/ Told(e)'
    BY <2>1, <1>6, <1>11 DEF Extracted, EventsTold
  <2>3. ASSUME NEW e \in events', NEW f \in events', e \notin household.noted,
               f.source = e.source
        PROVE  f = e
    <3>1. CASE e \in events /\ f \in events BY <2>3, <3>1 DEF Extracted, EventsTold
    <3>2. CASE e = row /\ f = row BY <3>2
    <3>3. CASE ~known /\ e = row /\ f \in events
      <4>1. f.source = m BY <2>3, <3>3, <1>4
      <4> QED BY <4>1, <3>3, <1>9
    <3>4. CASE ~known /\ f = row /\ e \in events
      <4>1. e.source = m BY <2>3, <3>4, <1>4
      <4> QED BY <4>1, <3>4, <1>9
    <3> QED BY <3>1, <3>2, <3>3, <3>4, <1>11
  <2> QED BY <2>2, <2>3 DEF EventsTold
<1>16. Accounted'
  <2>1. SUFFICES ASSUME NEW n \in All, jobs[n].status = "completed", excused'[n] = "no"
                 PROVE  \E e \in events' : e.source = n
    BY <1>2 DEF Accounted
  <2>2. CASE known
    <3>1. /\ excused'[m] # "no" /\ \A x \in All : x # m => excused'[x] = excused[x]
          /\ events' = events
      BY <1>1, <1>7, <2>2 DEF ExtractionTypes
    <3>2. n # m /\ excused[n] = "no" BY <2>1, <3>1
    <3> QED BY <2>1, <3>1, <3>2 DEF Extracted, Accounted, m
  <2>3. CASE ~known
    <3>1. events' = kept /\ excused[n] = "no"
          /\ \A e \in (events \cup {row}) \ kept : e.source # n
      BY <1>7, <2>1, <2>3
    <3>2. \E e \in events \cup {row} : e.source = n
      BY <2>1, <3>1, <1>4 DEF Extracted, Accounted, m
    <3> QED BY <3>1, <3>2
  <2> QED BY <2>2, <2>3
<1>17. Gone'
  <2>1. \A x \in All : /\ ForgetDone(x)' <=> ForgetDone(x)
                       /\ Topic(x)' = Topic(x)
    BY <1>2 DEF ForgetDone, Does, Topic
  <2>2. \A x \in All : Unfinished(x)' => Unfinished(x) BY <1>2, <1>3 DEF Unfinished
  <2>3. Unfinished(m) BY <1>1 DEF Unfinished, m
  <2>4. ASSUME NEW e \in events', NEW x \in All,
               ForgetDone(x), Topic(x) = e.topic, x > e.source
        PROVE  e.source \in late
    <3>1. CASE e \in events BY <2>4, <3>1 DEF Extracted, Gone
    <3>2. CASE e = row BY <2>3, <2>4, <3>2, <1>1, <1>4 DEF Extracted, Gone
    <3> QED BY <3>1, <3>2, <1>11
  <2>5. \A e \in events', x \in All :
          ForgetDone(x)' /\ Topic(x)' = e.topic /\ x > e.source => e.source \in late'
    BY <2>1, <2>4, <1>2
  <2>6. \A n, x \in All : Unfinished(n)' /\ ForgetDone(x)' /\ Topic(x)' = Topic(n)' /\ x > n
                            => n \in late'
    BY <2>1, <2>2, <1>2 DEF Extracted, Gone
  <2> QED BY <2>5, <2>6 DEF Gone
<1> QED BY <1>12, <1>13, <1>14, <1>15, <1>16, <1>17 DEF Extracted

LEMMA QueueKeeps ==
    ASSUME Course, Extracted, QueueExtraction, household.extracts,
           Messages' = Messages, All' = All, household' = household
    PROVE  Extracted'
<1> DEFINE k == Queued(heard[turn])
<1>1. turn \in All /\ turn \in Nat /\ Does(turn) = "talk"
  BY MessageTypes DEF QueueExtraction, Course, Talking, Doing, Does
<1>2. ExtractionTypes /\ heard[turn] \in Int BY <1>1 DEF Extracted, ExtractionTypes
<1>3. k \in Jobs /\ k.status = "pending" /\ k.said = heard[turn]
  BY <1>2 DEF Queued, Jobs, Statuses
<1>4. /\ jobs' = [jobs EXCEPT ![turn] = k]
      /\ turn' = turn + 1 /\ stage' = "waiting"
      /\ UNCHANGED <<day, heard, events, extractor, excused, late>>
  BY DEF QueueExtraction, Done, history
<1> HIDE DEF k
<1>5. /\ jobs' \in [All -> Jobs] /\ jobs'[turn] = k
      /\ \A n \in All : n # turn => jobs'[n] = jobs[n]
  BY <1>1, <1>2, <1>3, <1>4 DEF ExtractionTypes
<1>6. \A n \in All : n \in Nat BY MessageTypes
<1>7. ExtractionTypes' BY <1>2, <1>4, <1>5 DEF ExtractionTypes
<1>8. JobsOfTalks'
  <2>1. \A n \in All : Does(n)' = Does(n) BY DEF Does
  <2>2. SUFFICES ASSUME NEW n \in All, jobs'[n].status # "none"
                 PROVE  n < turn' /\ Does(n) = "talk" /\ jobs'[n].said = heard[n]
    BY <2>1, <1>4 DEF JobsOfTalks
  <2>3. CASE n = turn BY <2>3, <1>1, <1>3, <1>4, <1>5
  <2>4. CASE n # turn
    <3>1. n < turn /\ Does(n) = "talk" /\ jobs[n].said = heard[n]
      BY <2>2, <2>4, <1>5 DEF Extracted, JobsOfTalks
    <3>2. n < turn' BY <3>1, <1>1, <1>4, <1>6
    <3> QED BY <3>1, <3>2, <2>4, <1>5
  <2> QED BY <2>3, <2>4
<1>9. \A n \in All : jobs[n].status # "none" => n # turn
  BY <1>1, <1>6 DEF Extracted, JobsOfTalks
<1>10. InHand' BY <1>4, <1>5, <1>9 DEF Extracted, InHand
<1>11. EventsTold'
  <2>1. \A n \in All : n < turn => n < turn' BY <1>1, <1>4, <1>6
  <2>2. \A e : Told(e) => Told(e)' BY <2>1, <1>4 DEF Told, Does, Topic
  <2> QED BY <1>4, <2>2 DEF Extracted, EventsTold
<1>12. Accounted' BY <1>3, <1>4, <1>5 DEF Extracted, Accounted
<1>13. \A m \in All : ForgetDone(m)' => ForgetDone(m)
  <2>1. ASSUME NEW m \in All, ForgetDone(m)' PROVE ForgetDone(m)
    <3>1. Does(m) = "forget" /\ m < turn + 1 BY <2>1, <1>4, <1>6 DEF ForgetDone, Does
    <3>2. m # turn BY <3>1, <1>1
    <3> QED BY <3>1, <3>2, <1>1, <1>6 DEF ForgetDone
  <2> QED BY <2>1
<1>14. \A n \in All : Unfinished(n)' => Unfinished(n) \/ n = turn
  BY <1>4, <1>5 DEF Unfinished
<1>15. \A n \in All : Topic(n)' = Topic(n) BY DEF Topic
<1>16. \A m \in All : ForgetDone(m) => m <= turn BY <1>1, <1>6 DEF ForgetDone
<1>17. Gone'
  <2>1. \A e \in events', m \in All :
          ForgetDone(m)' /\ Topic(m)' = e.topic /\ m > e.source => e.source \in late'
    BY <1>4, <1>13, <1>15 DEF Extracted, Gone
  <2>2. ASSUME NEW n \in All, NEW m \in All, Unfinished(n)', ForgetDone(m)',
               Topic(m)' = Topic(n)', m > n
        PROVE  n \in late'
    <3>1. ForgetDone(m) /\ m <= turn BY <2>2, <1>13, <1>16
    <3>2. n # turn BY <2>2, <3>1, <1>1, <1>6
    <3>3. Unfinished(n) /\ Topic(m) = Topic(n) BY <2>2, <3>2, <1>14, <1>15
    <3> QED BY <2>2, <3>1, <3>3, <1>4 DEF Extracted, Gone
  <2> QED BY <2>1, <2>2 DEF Gone
<1> QED BY <1>7, <1>8, <1>10, <1>11, <1>12, <1>17 DEF Extracted

(* What a removal leaves, whether it succeeds or the store fails.           *)
LEMMA RemovalKeeps ==
    ASSUME Course, Extracted, ForgetEvents \/ ForgetEventsFails,
           Messages' = Messages, All' = All, household' = household
    PROVE  Extracted'
<1> DEFINE t == Topic(turn)
<1>1. turn \in All /\ turn \in Nat /\ Does(turn) = "forget"
  BY MessageTypes DEF ForgetEvents, ForgetEventsFails, Course, Doing, Does
<1>2. /\ UNCHANGED <<turn, day, heard, jobs, extractor>> /\ stage' = "forgotten"
      /\ events' \subseteq events
  BY DEF ForgetEvents, ForgetEventsFails, extraction
<1>3. ExtractionTypes BY DEF Extracted
<1>4. /\ excused' \in [All -> Reasons]
      /\ \A n \in All : excused'[n] = "no" => excused[n] = "no"
      /\ late \subseteq late'
      /\ \A e \in events' : e.topic = t => e.source \in late'
      /\ \A n \in All : Unfinished(n) /\ Topic(n) = t => n \in late'
      /\ \A e \in events \ events' :
           /\ e.topic = t
           /\ \A n \in All : n = e.source /\ Topic(n) = t /\ n < turn => excused'[n] # "no"
  <2>1. CASE ForgetEvents
    <3>1. /\ events' = {e \in events : e.topic # t}
          /\ late' = late \cup {m \in All : Unfinished(m) /\ Topic(m) = t}
          /\ excused' = [m \in All |-> IF Topic(m) = t /\ excused[m] = "no" /\ m < turn
                                       THEN "forgotten" ELSE excused[m]]
      BY <2>1 DEF ForgetEvents
    <3>2. excused \in [All -> Reasons] /\ "forgotten" \in Reasons
      BY <1>3 DEF ExtractionTypes, Reasons
    <3> HIDE DEF t
    <3>3. /\ excused' \in [All -> Reasons]
          /\ \A n \in All : excused'[n] = "no" => excused[n] = "no"
          /\ \A n \in All : Topic(n) = t /\ n < turn => excused'[n] # "no"
      BY <3>1, <3>2
    <3> QED BY <3>1, <3>3
  <2>2. CASE ForgetEventsFails
    <3>1. /\ events' = events /\ excused' = excused
          /\ late' = late \cup {m \in All : Topic(m) = t} \cup {e.source : e \in events}
      BY <2>2 DEF ForgetEventsFails
    <3> HIDE DEF t
    <3> QED BY <3>1, <1>3 DEF ExtractionTypes
  <2> QED BY <2>1, <2>2
<1> HIDE DEF t
<1>5. ExtractionTypes' BY <1>2, <1>3, <1>4 DEF ExtractionTypes
<1>6. JobsOfTalks' BY <1>2 DEF Extracted, JobsOfTalks, Does
<1>7. InHand' BY <1>2 DEF Extracted, InHand
<1>8. EventsTold'
  <2>1. \A e : Told(e) => Told(e)' BY <1>2 DEF Told, Does, Topic
  <2> QED BY <1>2, <2>1 DEF Extracted, EventsTold
<1>9. Accounted'
  <2>1. SUFFICES ASSUME NEW n \in All, jobs[n].status = "completed", excused'[n] = "no",
                        ~(extractor.at = "storing" /\ extractor.job = n)
                 PROVE  \E e \in events' : e.source = n
    BY <1>2 DEF Accounted
  <2>2. PICK e \in events : e.source = n BY <2>1, <1>4 DEF Extracted, Accounted
  <2>3. e \notin household.noted /\ n < turn
    <3>1. \A x \in household.noted : x.source < 1 /\ ~(x.source \in All) BY MessageTypes
    <3> QED BY <3>1, <2>1, <2>2 DEF Extracted, JobsOfTalks
  <2>4. Topic(n) = e.topic BY <2>2, <2>3 DEF Extracted, EventsTold, Told
  <2> QED BY <2>1, <2>2, <2>3, <2>4, <1>4
<1>10. \A m \in All : ForgetDone(m)' => ForgetDone(m) \/ m = turn
  BY <1>2 DEF ForgetDone, Does
<1>11. \A n \in All : (Unfinished(n)' <=> Unfinished(n)) /\ Topic(n)' = Topic(n)
  BY <1>2 DEF Unfinished, Topic
<1>12. Gone'
  <2>1. ASSUME NEW e \in events', NEW m \in All,
               ForgetDone(m)', Topic(m) = e.topic, m > e.source
        PROVE  e.source \in late'
    BY <2>1, <1>2, <1>4, <1>10 DEF Extracted, Gone, t
  <2>2. ASSUME NEW n \in All, NEW m \in All,
               Unfinished(n), ForgetDone(m)', Topic(m) = Topic(n), m > n
        PROVE  n \in late'
    BY <2>2, <1>4, <1>10 DEF Extracted, Gone, t
  <2> QED BY <2>1, <2>2, <1>11 DEF Gone
<1> QED BY <1>5, <1>6, <1>7, <1>8, <1>9, <1>12 DEF Extracted

LEMMA ExtractionSteps ==
    ASSUME Course, Extracted, [MemoryNext]_memoryVars
    PROVE  \/ Aside
           \/ QueueExtraction /\ household.extracts
           \/ ForgetEvents \/ ForgetEventsFails
           \/ \E m \in All : DelayElapses(m) \/ ClaimExtraction(m)
           \/ RecoverExtractions \/ Preempted \/ ExtractionFails
           \/ FindsNothing \/ FindsEvent \/ StoreEvent \/ StoreFails
           \/ Crash \/ Shutdown
<1>1. /\ day \in Int /\ heard \in [All -> Int] /\ day + 1 \in Int /\ day - 1 \in Int
  BY DEF Extracted, ExtractionTypes
<1> USE <1>1 DEF Aside, worker, extraction, history
<1>2. CASE Compose
  <2>1. turn \in All /\ turn' = turn /\ stage' = "composing"
    BY <1>2 DEF Compose, Doing
  <2>2. heard' = [heard EXCEPT ![turn] = IF @ = 0 THEN day ELSE @] BY <1>2 DEF Compose
  <2>3. /\ heard' \in [All -> Int]
        /\ \A m \in All : m # turn => heard'[m] = heard[m]
    BY <2>1, <2>2
  <2>4. turn \in Int /\ \A m \in All : m < turn => m # turn BY <2>1, MessageTypes
  <2>5. UNCHANGED <<jobs, extractor, events, excused, late, day>> BY <1>2 DEF Compose
  <2> QED BY <2>1, <2>3, <2>4, <2>5
<1>3. CASE Speak BY <1>3 DEF Speak
<1>4. CASE RecordTurn BY <1>4 DEF RecordTurn
<1>5. ASSUME turn' = turn + 1, stage' = "waiting", stage \in Talking \cup {"remembered", "forgotten"},
             UNCHANGED <<jobs, extractor, events, excused, late, day, heard>>
      PROVE  Aside
  <2>1. turn \in All /\ (Does(turn) = "forget" => stage = "forgotten")
    BY <1>5 DEF Course, Talking, Doing, Does
  <2> QED BY <1>5, <2>1
<1>6. CASE RecordFails BY <1>5, <1>6 DEF RecordFails, Done, Talking
<1>7. CASE QueueExtraction /\ ~household.extracts
  <2>1. jobs' = jobs BY <1>7 DEF QueueExtraction
  <2> QED BY <1>5, <1>7, <2>1 DEF QueueExtraction, Done, Talking
<1>8. CASE QueueFails BY <1>5, <1>8 DEF QueueFails, Done, Talking
<1>9. CASE SpeakAgain BY <1>5, <1>9 DEF SpeakAgain, Done, Talking
<1>10. ASSUME NEW id \in tasks, Embed(id) PROVE Aside BY <1>10 DEF Embed
<1>11. CASE ReadBatch BY <1>11 DEF ReadBatch
<1>12. ASSUME NEW id \in batch, Backfill(id) PROVE Aside BY <1>12 DEF Backfill
<1>13. CASE Remember BY <1>13 DEF Remember
<1>14. CASE ForgetFacts BY <1>14 DEF ForgetFacts
<1>15. CASE Confirm BY <1>5, <1>15 DEF Confirm, Done
<1>16. CASE MidnightPasses BY <1>16 DEF MidnightPasses
<1>17. CASE SetBack BY <1>17 DEF SetBack
<1>18. CASE UNCHANGED memoryVars BY <1>18 DEF memoryVars
<1> HIDE DEF Aside, worker, extraction, history
<1> QED
  BY <1>2, <1>3, <1>4, <1>6, <1>7, <1>8, <1>9, <1>10, <1>11, <1>12, <1>13, <1>14, <1>15,
     <1>16, <1>17, <1>18 DEF MemoryNext

LEMMA ExtractedStep ==
    ASSUME Course, Extracted, [MemoryNext]_memoryVars
    PROVE  Extracted'
<1>1. Messages' = Messages /\ All' = All BY CourseStep
<1>2. household' = household BY WorkerSteps
<1>3. ExtractionTypes BY DEF Extracted
<1> USE <1>1, <1>2
<1>4. Extracts => Extracted' BY ExtractsKeeps
<1>5. CASE Aside BY <1>5, AsideKeeps
<1>6. CASE QueueExtraction /\ household.extracts BY <1>6, QueueKeeps
<1>7. CASE ForgetEvents \/ ForgetEventsFails BY <1>7, RemovalKeeps
<1>8. ASSUME NEW m \in All, DelayElapses(m) \/ ClaimExtraction(m) PROVE Extracted'
  BY <1>4, <1>8, DelayIsExtracts, ClaimIsExtracts
<1>9. CASE RecoverExtractions BY <1>4, <1>9, RecoverIsExtracts
<1>10. Resting \in Extractors /\ Resting.at = "idle" BY <1>3, HandTypes
<1>11. CASE Preempted
  <2>1. UNCHANGED <<turn, stage, day, heard, events, late, excused>>
    BY <1>11 DEF Preempted, Elsewhere, worker, history
  <2> QED BY <1>4, <1>11, <2>1, PutBackIsExtracts DEF Preempted
<1>12. CASE ExtractionFails
  <2>1. UNCHANGED <<turn, stage, day, heard, events, late>> /\ extractor' = Resting
        /\ extractor.at = "asking"
    BY <1>12 DEF ExtractionFails, Elsewhere, worker
  <2>2. CASE PutBack(extractor.job) /\ UNCHANGED excused
    BY <1>4, <2>1, <2>2, PutBackIsExtracts
  <2>3. CASE Finish(extractor.job) /\ Excuse(extractor.job, "gave up")
    <3>1. "gave up" \in Reasons \ {"no"} BY DEF Reasons
    <3> QED BY <1>4, <1>10, <2>1, <2>3, <3>1, FinishIsExtracts
  <2> QED BY <1>12, <2>2, <2>3 DEF ExtractionFails
<1>13. CASE FindsNothing
  <2>1. UNCHANGED <<turn, stage, day, heard, events, late>> /\ extractor' = Resting
        /\ extractor.at = "asking" /\ Finish(extractor.job)
        /\ Excuse(extractor.job, "nothing")
    BY <1>13 DEF FindsNothing, Elsewhere, worker
  <2>2. "nothing" \in Reasons \ {"no"} BY DEF Reasons
  <2> QED BY <1>4, <1>10, <2>1, <2>2, FinishIsExtracts
<1>14. CASE FindsEvent
  <2> DEFINE m == extractor.job
  <2>1. UNCHANGED <<turn, stage, day, heard, events, late, excused>>
        /\ extractor.at = "asking" /\ Finish(m)
    BY <1>14 DEF FindsEvent, Elsewhere, worker, history
  <2>2. PICK found \in {jobs[m].said, jobs[m].said - 1} :
          extractor' = [at |-> "storing", job |-> m, found |-> found]
    BY <1>14 DEF FindsEvent
  <2>3. m \in All /\ m \in Int BY <2>1, MessageTypes DEF Extracted, InHand
  <2>4. jobs[m].said \in Int /\ jobs[m].said - 1 \in Int
    <3>1. jobs[m] \in Jobs BY <1>3, <2>3, HandTypes
    <3>2. \A j \in Jobs : j.said \in Int BY DEF Jobs
    <3> QED BY <3>1, <3>2
  <2> HIDE DEF m
  <2>5. /\ extractor' \in Extractors /\ extractor'.at = "storing" /\ extractor'.job = m
        /\ extractor'.found = found
    BY <2>2, <2>3, <2>4 DEF Extractors
  <2> QED BY <1>4, <2>1, <2>2, <2>5, FinishIsExtracts DEF m
<1>15. CASE StoreEvent BY <1>15, StoreKeeps
<1>16. CASE StoreFails BY <1>4, <1>16, StoreFailsIsExtracts
<1>17. CASE Crash BY <1>4, <1>17, RestartIsExtracts DEF Crash
<1>18. CASE Shutdown BY <1>4, <1>18, RestartIsExtracts DEF Shutdown
<1> QED
  BY <1>5, <1>6, <1>7, <1>8, <1>9, <1>11, <1>12, <1>13, <1>14, <1>15, <1>16, <1>17, <1>18,
     ExtractionSteps

(* What an exchange left is told truly, and a job that ended has its event  *)
(* or a reason for having none.                                             *)
THEOREM EventsTellTheTruthAlways == MemorySpec => []EventsTellTheTruth
<1>1. MemoryInit => Course /\ Extracted BY CourseInit, ExtractedInit
<1>2. Course /\ Extracted /\ [MemoryNext]_memoryVars => Course' /\ Extracted'
  BY CourseStep, ExtractedStep
<1>3. Course /\ Extracted => EventsTellTheTruth
  BY DEF Extracted, EventsTold, Told, Accounted, EventsTellTheTruth, Does
<1> QED BY <1>1, <1>2, <1>3, PTL DEF MemorySpec

(* What the household had removed does not come back, unless it was late.   *)
THEOREM ForgottenStaysGoneAlways == MemorySpec => []ForgottenStaysGone
<1>1. MemoryInit => Course /\ Extracted BY CourseInit, ExtractedInit
<1>2. Course /\ Extracted /\ [MemoryNext]_memoryVars => Course' /\ Extracted'
  BY CourseStep, ExtractedStep
<1>3. Course /\ Extracted => ForgottenStaysGone
  <2> SUFFICES ASSUME Course, Extracted, NEW e \in events, NEW m \in 1..(turn - 1),
                      m > e.source, Messages[m].does = "forget", Topic(m) = e.topic
               PROVE  e.source \in late
    BY DEF ForgottenStaysGone
  <2>1. m \in All /\ m < turn BY MessageTypes DEF Course
  <2> QED BY <2>1 DEF Extracted, Gone, ForgetDone, Does
<1> QED BY <1>1, <1>2, <1>3, PTL DEF MemorySpec
-----------------------------------------------------------------------------
(*                 Listings of rows, and what is cut from them               *)

(* s has each member of T once.                                             *)
Lists(s, T) ==
    /\ IsFiniteSet(T)
    /\ s \in Seq(T) /\ Len(s) = Cardinality(T)
    /\ \A t \in T : \E i \in 1..Len(s) : s[i] = t
    /\ \A i, j \in 1..Len(s) : s[i] = s[j] => i = j

Sorted(s, score) == \A i, j \in 1..Len(s) : i < j => Precedes(s[i], s[j], score)

(* An order of rows by score and id is a listing of them.                   *)
LEMMA Ordering ==
    ASSUME NEW T, Rows(T), NEW score \in [T -> Int]
    PROVE  Lists(Ordered(T, score), T) /\ Sorted(Ordered(T, score), score)
<1> DEFINE n == Cardinality(T)
           ahead(t) == {u \in T : Precedes(u, t, score)}
           rank == [t \in T |-> Cardinality(ahead(t))]
           s == Ordered(T, score)
<1>0. n \in Nat /\ IsFiniteSet(T) BY FS_CardinalityType DEF Rows
<1>1. \A t \in T : /\ IsFiniteSet(ahead(t)) /\ t \notin ahead(t)
                   /\ Cardinality(ahead(t)) \in 0..(n - 1)
  <2> SUFFICES ASSUME NEW t \in T
               PROVE  /\ IsFiniteSet(ahead(t)) /\ t \notin ahead(t)
                      /\ Cardinality(ahead(t)) \in 0..(n - 1)
    OBVIOUS
  <2>1. t \notin ahead(t) BY DEF Precedes, Rows
  <2>2. ahead(t) \in SUBSET (T \ {t}) BY <2>1
  <2>3. IsFiniteSet(T \ {t}) /\ Cardinality(T \ {t}) = n - 1 BY <1>0, FS_RemoveElement
  <2>4. IsFiniteSet(ahead(t)) /\ Cardinality(ahead(t)) <= n - 1
    BY <2>2, <2>3, FS_Subset
  <2> HIDE DEF ahead, n
  <2>5. Cardinality(ahead(t)) \in Nat BY <2>4, FS_CardinalityType
  <2> QED BY <2>1, <2>4, <2>5, <1>0
<1>2. \A t, u \in T : Precedes(t, u, score) => rank[t] < rank[u]
  <2> SUFFICES ASSUME NEW t \in T, NEW u \in T, Precedes(t, u, score) PROVE rank[t] < rank[u]
    OBVIOUS
  <2>1. ahead(t) \in SUBSET ahead(u) BY DEF Precedes, Rows
  <2>2. t \in ahead(u) /\ t \notin ahead(t) BY <1>1
  <2> HIDE DEF ahead, n
  <2>3. Cardinality(ahead(t)) <= Cardinality(ahead(u)) /\ Cardinality(ahead(t)) # Cardinality(ahead(u))
    BY <1>1, <2>1, <2>2, FS_Subset
  <2>4. Cardinality(ahead(t)) \in Int /\ Cardinality(ahead(u)) \in Int BY <1>1, <1>0
  <2> QED BY <2>3, <2>4
<1>3. \A t, u \in T : t # u => Precedes(t, u, score) \/ Precedes(u, t, score)
  BY DEF Precedes, Rows
<1>4. rank \in Injection(T, 0..(n - 1))
  <2>1. rank \in [T -> 0..(n - 1)]
    <3> HIDE DEF ahead, n
    <3> QED BY <1>1
  <2>2. \A t, u \in T : rank[t] = rank[u] => t = u
    <3> HIDE DEF rank, n
    <3> QED BY <1>2, <1>3, <2>1, <1>0
  <2> HIDE DEF rank, n
  <2> QED BY <2>1, <2>2, Zenon DEF Injection, IsInjective
<1>5. \A k \in 0..(n - 1) : \E t \in T : rank[t] = k
  <2>1. IsFiniteSet(0..(n - 1)) /\ Cardinality(0..(n - 1)) = n BY <1>0, FS_Interval
  <2> HIDE DEF rank, n
  <2>2. rank \in Surjection(T, 0..(n - 1)) BY <1>4, <2>1, FS_Injection DEF n
  <2> QED BY <2>2 DEF Surjection
<1>6. \A k \in 1..n : s[k] \in T /\ rank[s[k]] = k - 1
  <2> SUFFICES ASSUME NEW k \in 1..n PROVE s[k] \in T /\ rank[s[k]] = k - 1
    OBVIOUS
  <2>1. s[k] = CHOOSE t \in T : Cardinality(ahead(t)) = k - 1 BY DEF Ordered
  <2>2. \E t \in T : rank[t] = k - 1
    <3> HIDE DEF rank, n
    <3> QED BY <1>5, <1>0
  <2> HIDE DEF ahead, s
  <2> QED BY <2>1, <2>2
<1>7. DOMAIN s = 1..n /\ s = [k \in 1..n |-> s[k]] BY DEF Ordered
<1> HIDE DEF s, rank, n
<1>8. s \in [1..n -> T] BY <1>6, <1>7
<1>9. s \in Seq(T) /\ Len(s) = n BY <1>8, <1>0
<1>10. \A t \in T : rank[t] \in 0..(n - 1) BY <1>4 DEF Injection
<1>11. \A t \in T : \E i \in 1..n : s[i] = t
  <2> SUFFICES ASSUME NEW t \in T PROVE \E i \in 1..n : s[i] = t
    OBVIOUS
  <2>1. rank[t] + 1 \in 1..n BY <1>10, <1>0
  <2>2. rank[s[rank[t] + 1]] = rank[t] /\ s[rank[t] + 1] \in T BY <2>1, <1>6, <1>10, <1>0
  <2>3. s[rank[t] + 1] = t BY <2>2, <1>4 DEF Injection, IsInjective
  <2> QED BY <2>1, <2>3
<1>12. \A i, j \in 1..n : s[i] = s[j] => i = j BY <1>6, <1>0
<1>13. Lists(s, T) BY <1>0, <1>9, <1>11, <1>12 DEF Lists, n
<1>14. Sorted(s, score)
  <2> SUFFICES ASSUME NEW i \in 1..n, NEW j \in 1..n, i < j PROVE Precedes(s[i], s[j], score)
    BY <1>9 DEF Sorted
  <2>1. s[i] \in T /\ s[j] \in T /\ rank[s[i]] < rank[s[j]] BY <1>6, <1>0
  <2>2. rank[s[i]] \in Int /\ rank[s[j]] \in Int BY <2>1, <1>10, <1>0
  <2> QED BY <1>2, <1>3, <2>1, <2>2
<1> QED BY <1>13, <1>14 DEF s

LEMMA ListFacts ==
    ASSUME NEW T, NEW s, Lists(s, T)
    PROVE  /\ IsFiniteSet(T) /\ ToSet(s) = T /\ Distinct(s)
           /\ Len(s) \in Nat /\ Len(s) = Cardinality(T) /\ DOMAIN s = 1..Len(s)
<1>1. s \in Seq(T) /\ IsFiniteSet(T) /\ Len(s) = Cardinality(T) BY DEF Lists
<1>2. Len(s) \in Nat /\ DOMAIN s = 1..Len(s) BY <1>1
<1>3. ToSet(s) = T BY <1>2 DEF Lists, ToSet
<1>4. Distinct(s) BY <1>2 DEF Lists, Distinct
<1> QED BY <1>1, <1>2, <1>3, <1>4

(* A sequence without repetition lists its members.                         *)
LEMMA OwnList ==
    ASSUME NEW T, NEW s \in Seq(T), \A i, j \in 1..Len(s) : s[i] = s[j] => i = j
    PROVE  Lists(s, ToSet(s))
<1>1. Len(s) \in Nat /\ DOMAIN s = 1..Len(s) OBVIOUS
<1>2. s \in Bijection(1..Len(s), ToSet(s))
  BY <1>1 DEF Bijection, Injection, Surjection, IsInjective, ToSet
<1>3. ExistsBijection(1..Len(s), ToSet(s)) BY <1>2 DEF ExistsBijection
<1>4. IsFiniteSet(ToSet(s)) /\ Cardinality(ToSet(s)) = Len(s)
  BY <1>1, <1>3, FS_NatBijection, FS_CountingElements
<1>5. \A i \in 1..Len(s) : s[i] \in ToSet(s) BY <1>1 DEF ToSet
<1>6. s \in Seq(ToSet(s)) BY <1>1, <1>5
<1> QED BY <1>1, <1>4, <1>6 DEF Lists, ToSet

LEMMA Truncation ==
    ASSUME NEW T, NEW s, Lists(s, T), NEW n \in Nat, NEW f, f = FirstOf(s, n)
    PROVE  /\ Lists(f, ToSet(f)) /\ ToSet(f) \subseteq T
           /\ Len(f) = Fewer(n, Len(s)) /\ DOMAIN f = 1..Len(f)
           /\ \A i \in 1..Len(f) : f[i] = s[i]
           /\ Len(s) <= n => ToSet(f) = T
<1> DEFINE m == IF n < Len(s) THEN n ELSE Len(s)
<1>1. s \in Seq(T) /\ Len(s) \in Nat BY DEF Lists
<1>2. f = SubSeq(s, 1, m) /\ m \in 0..Len(s) BY <1>1 DEF FirstOf
<1>3. f \in Seq(T) /\ Len(f) = m /\ \A i \in 1..m : f[i] = s[i] BY <1>1, <1>2
<1>4. \A i, j \in 1..Len(f) : f[i] = f[j] => i = j BY <1>1, <1>3 DEF Lists
<1>5. Lists(f, ToSet(f)) BY <1>3, <1>4, OwnList
<1>6. DOMAIN f = 1..Len(f) BY <1>3
<1>7. ToSet(f) \subseteq T BY <1>3, <1>6 DEF ToSet
<1>8. Len(f) = Fewer(n, Len(s)) BY <1>1, <1>3 DEF Fewer
<1>9. ASSUME Len(s) <= n PROVE ToSet(f) = T
  <2>1. \A t \in T : \E i \in 1..m : f[i] = t BY <1>1, <1>3, <1>9 DEF Lists
  <2> QED BY <1>3, <1>6, <1>7, <2>1 DEF ToSet
<1>10. \A i \in 1..Len(f) : f[i] = s[i] BY <1>3
<1> QED BY <1>5, <1>6, <1>7, <1>8, <1>9, <1>10

LEMMA Backwards ==
    ASSUME NEW T, NEW s, Lists(s, T)
    PROVE  /\ Lists(Reverse(s), T) /\ Len(Reverse(s)) = Len(s)
           /\ \A i \in 1..Len(s) : Reverse(s)[i] = s[Len(s) - i + 1]
<1> DEFINE r == Reverse(s)
<1>1. s \in Seq(T) /\ Len(s) \in Nat BY DEF Lists
<1>2. r = [i \in 1..Len(s) |-> s[Len(s) - i + 1]] BY DEF Reverse
<1> HIDE DEF r
<1>3. \A i \in 1..Len(s) : Len(s) - i + 1 \in 1..Len(s) /\ r[i] = s[Len(s) - i + 1]
  BY <1>1, <1>2
<1>4. r \in Seq(T) /\ Len(r) = Len(s)
  <2>1. r \in [1..Len(s) -> T] BY <1>1, <1>2, <1>3
  <2> QED BY <1>1, <2>1
<1>5. \A i, j \in 1..Len(r) : r[i] = r[j] => i = j
  <2> SUFFICES ASSUME NEW i \in 1..Len(r), NEW j \in 1..Len(r), r[i] = r[j] PROVE i = j
    OBVIOUS
  <2>1. Len(s) - i + 1 = Len(s) - j + 1 BY <1>3, <1>4 DEF Lists
  <2> QED BY <1>1, <1>4, <2>1
<1>6. \A t \in T : \E i \in 1..Len(r) : r[i] = t
  <2> SUFFICES ASSUME NEW t \in T PROVE \E i \in 1..Len(r) : r[i] = t
    OBVIOUS
  <2>1. PICK k \in 1..Len(s) : s[k] = t BY DEF Lists
  <2>2. Len(s) - k + 1 \in 1..Len(r) /\ Len(s) - (Len(s) - k + 1) + 1 = k BY <1>1, <1>4
  <2> QED BY <1>3, <1>4, <2>1, <2>2
<1> QED BY <1>3, <1>4, <1>5, <1>6 DEF Lists, r

Joined(a, b) == a \o b

LEMMA Joining ==
    ASSUME NEW A, NEW B, NEW a, NEW b, Lists(a, A), Lists(b, B), A \cap B = {}
    PROVE  /\ Lists(Joined(a, b), A \cup B) /\ Len(Joined(a, b)) = Len(a) + Len(b)
           /\ \A i \in 1..Len(a) : Joined(a, b)[i] = a[i]
           /\ \A i \in 1..Len(b) : Joined(a, b)[Len(a) + i] = b[i]
<1> DEFINE c == a \o b
<1>1. a \in Seq(A) /\ b \in Seq(B) /\ Len(a) \in Nat /\ Len(b) \in Nat BY DEF Lists
<1>2. c \in Seq(A \cup B) /\ Len(c) = Len(a) + Len(b)
  <2>1. a \in Seq(A \cup B) /\ b \in Seq(A \cup B) BY <1>1
  <2> QED BY <2>1
<1>3. \A i \in 1..Len(a) : c[i] = a[i] /\ a[i] \in A BY <1>1
<1>4. \A i \in 1..Len(b) : c[Len(a) + i] = b[i] /\ b[i] \in B BY <1>1
<1> HIDE DEF c
<1>5. \A i \in 1..Len(c) : i \in 1..Len(a) \/ (i - Len(a) \in 1..Len(b) /\ i = Len(a) + (i - Len(a)))
  BY <1>1, <1>2
<1>6. \A i, j \in 1..Len(c) : c[i] = c[j] => i = j
  <2> SUFFICES ASSUME NEW i \in 1..Len(c), NEW j \in 1..Len(c), c[i] = c[j] PROVE i = j
    OBVIOUS
  <2>1. CASE i \in 1..Len(a) /\ j \in 1..Len(a) BY <2>1, <1>3 DEF Lists
  <2>2. CASE i \notin 1..Len(a) /\ j \notin 1..Len(a)
    <3>1. b[i - Len(a)] = b[j - Len(a)] BY <2>2, <1>4, <1>5
    <3>2. i - Len(a) = j - Len(a) BY <3>1, <2>2, <1>5 DEF Lists
    <3> QED BY <3>2, <1>1, <1>2
  <2>3. CASE i \in 1..Len(a) /\ j \notin 1..Len(a) BY <2>3, <1>3, <1>4, <1>5
  <2>4. CASE i \notin 1..Len(a) /\ j \in 1..Len(a) BY <2>4, <1>3, <1>4, <1>5
  <2> QED BY <2>1, <2>2, <2>3, <2>4
<1>7. Lists(c, ToSet(c)) BY <1>2, <1>6, OwnList
<1>8. ToSet(c) = A \cup B
  <2>1. DOMAIN c = 1..Len(c) BY <1>2
  <2>2. \A t \in A : \E i \in 1..Len(c) : c[i] = t BY <1>1, <1>2, <1>3 DEF Lists
  <2>3. \A t \in B : \E i \in 1..Len(c) : c[i] = t
    <3> SUFFICES ASSUME NEW t \in B PROVE \E i \in 1..Len(c) : c[i] = t
      OBVIOUS
    <3>1. PICK k \in 1..Len(b) : b[k] = t BY DEF Lists
    <3>2. Len(a) + k \in 1..Len(c) BY <1>1, <1>2
    <3> QED BY <3>1, <3>2, <1>4
  <2>4. \A i \in 1..Len(c) : c[i] \in A \cup B BY <1>2
  <2> QED BY <2>1, <2>2, <2>3, <2>4 DEF ToSet
<1> QED BY <1>2, <1>3, <1>4, <1>7, <1>8 DEF c, Joined

LEMMA JoinedLength ==
    ASSUME NEW A, NEW B, NEW a, NEW b, Lists(a, A), Lists(b, B)
    PROVE  Len(Joined(a, b)) = Len(a) + Len(b)
BY DEF Lists, Joined
-----------------------------------------------------------------------------
(*                     Positions of an even sample                          *)

LEMMA Division ==
    ASSUME NEW a \in Nat, NEW d \in Nat \ {0}
    PROVE  /\ a \div d \in Nat /\ a % d \in 0..(d - 1)
           /\ a = d * (a \div d) + (a % d)
<1>1. a \div d \in Int /\ a % d \in 0..(d - 1) OBVIOUS
<1>2. a = d * (a \div d) + (a % d) OBVIOUS
<1>3. a \div d >= 0
  <2>1. a \div d < 0 => d * (a \div d) <= -d BY <1>1
  <2> QED BY <1>1, <1>2, <2>1
<1> QED BY <1>1, <1>2, <1>3

LEMMA Monotony ==
    ASSUME NEW k \in Int, NEW l \in Int, k <= l, NEW d \in Nat
    PROVE  d * k <= d * l
OBVIOUS

(* Numbers more than a step apart are rounded to different places.          *)
LEMMA RoundingGrows ==
    ASSUME NEW a \in Nat, NEW b \in Nat, NEW d \in Nat \ {0}, b - a > d
    PROVE  Round(a, d) < Round(b, d)
<1> DEFINE q(x) == x \div d
           r(x) == x % d
<1>1. q(a) \in Nat /\ q(b) \in Nat /\ r(a) \in 0..(d - 1) /\ r(b) \in 0..(d - 1)
      /\ a = d * q(a) + r(a) /\ b = d * q(b) + r(b)
  BY Division
<1>2. \A n \in Nat : Round(n, d) = IF 2 * r(n) > d \/ (2 * r(n) = d /\ q(n) % 2 = 1)
                                   THEN q(n) + 1 ELSE q(n)
  BY DEF Round
<1> HIDE DEF q, r
<1>3. ~ (q(b) <= q(a))
  <2> DEFINE u == d * q(a)
             v == d * q(b)
  <2>1. q(b) <= q(a) => v <= u BY <1>1, Monotony
  <2>2. u \in Int /\ v \in Int BY <1>1
  <2>3. a = u + r(a) /\ b = v + r(b) BY <1>1
  <2> HIDE DEF u, v
  <2> QED BY <1>1, <2>1, <2>2, <2>3
<1>4. CASE q(b) >= q(a) + 2
  BY <1>1, <1>2, <1>4
<1>5. CASE q(b) = q(a) + 1
  <2>1. d * q(b) = d * q(a) + d BY <1>1, <1>5
  <2>2. r(b) > r(a) BY <1>1, <2>1
  <2> QED BY <1>1, <1>2, <1>5, <2>2
<1> QED BY <1>1, <1>3, <1>4, <1>5

LEMMA RoundingExact ==
    ASSUME NEW k \in Nat, NEW d \in Nat \ {0}
    PROVE  Round(k * d, d) = k
<1>1. (k * d) \div d = k /\ (k * d) % d = 0 OBVIOUS
<1> QED BY <1>1 DEF Round

(* n places among more than n: the first, the last, and no place twice.     *)
LEMMA EvenSample ==
    ASSUME NEW n \in Nat, n > 1, NEW size \in Nat, size > n
    PROVE  LET place(i) == Round(i * (size - 1), n - 1) + 1 IN
           /\ place(0) = 1 /\ place(n - 1) = size
           /\ \A i \in 0..(n - 1) : place(i) \in 1..size
           /\ \A i, j \in 0..(n - 1) : place(i) = place(j) => i = j
<1> DEFINE last == size - 1
           d == n - 1
           f(i) == Round(i * last, d)
<1>1. last \in Nat /\ d \in Nat \ {0} /\ last > d OBVIOUS
<1> HIDE DEF last, d
<1>2. \A i \in 0..d : i * last \in Nat
  BY <1>1
<1>3. ASSUME NEW i \in 0..d, NEW j \in 0..d, i < j PROVE f(i) < f(j)
  <2>1. last * (i + 1) <= last * j BY <1>1, <1>3, Monotony
  <2>2. last * (i + 1) = i * last + last /\ last * j = j * last BY <1>1
  <2> DEFINE u == i * last
             v == j * last
  <2>3. u \in Nat /\ v \in Nat BY <1>2
  <2> HIDE DEF u, v
  <2>4. v - u >= last BY <2>1, <2>2, <2>3, <1>1 DEF u, v
  <2> QED BY <1>1, <2>3, <2>4, RoundingGrows DEF u, v
<1>4. \A i \in 0..d : f(i) \in Nat
  <2> SUFFICES ASSUME NEW i \in 0..d PROVE f(i) \in Nat
    OBVIOUS
  <2>1. (i * last) \div d \in Nat BY <1>1, <1>2, Division
  <2> QED BY <2>1 DEF Round
<1>5. f(0) = 0
  <2>1. 0 * last = 0 * d BY <1>1
  <2>2. Round(0 * d, d) = 0 BY <1>1, RoundingExact
  <2> QED BY <2>1, <2>2
<1>6. f(d) = last
  <2>1. d * last = last * d BY <1>1
  <2> QED BY <2>1, <1>1, RoundingExact
<1> HIDE DEF f
<1>7. \A i \in 0..d : f(i) \in 0..last
  <2> SUFFICES ASSUME NEW i \in 0..d PROVE f(i) \in 0..last
    OBVIOUS
  <2>1. i < d => f(i) < f(d) BY <1>1, <1>3
  <2> QED BY <1>1, <1>4, <1>6, <2>1
<1>8. \A i, j \in 0..d : f(i) = f(j) => i = j
  <2> SUFFICES ASSUME NEW i \in 0..d, NEW j \in 0..d, f(i) = f(j) PROVE i = j
    OBVIOUS
  <2>1. i < j => f(i) < f(j) BY <1>3
  <2>2. j < i => f(j) < f(i) BY <1>3
  <2> QED BY <1>1, <1>4, <2>1, <2>2
<1>9. /\ f(0) + 1 = 1 /\ f(d) + 1 = size
      /\ \A i \in 0..d : f(i) + 1 \in 1..size
      /\ \A i, j \in 0..d : f(i) + 1 = f(j) + 1 => i = j
  <2>1. size = last + 1 BY DEF last
  <2>2. \A i, j \in 0..d : f(i) + 1 = f(j) + 1 => f(i) = f(j) BY <1>4
  <2>3. \A i \in 0..d : f(i) + 1 \in 1..size BY <1>1, <1>7, <2>1
  <2> QED BY <1>1, <1>5, <1>6, <1>8, <2>1, <2>2, <2>3
<1> QED BY <1>9 DEF f, last, d
-----------------------------------------------------------------------------
(*                   What a selection takes its rows from                   *)

LEMMA SomeRows ==
    ASSUME NEW T, Rows(T), NEW S \in SUBSET T
    PROVE  Rows(S)
BY FS_Subset DEF Rows

LEMMA ByAge ==
    ASSUME NEW T, Rows(T)
    PROVE  /\ Lists(NewestFirst(T), T)
           /\ \A i, j \in 1..Cardinality(T) :
                  i < j => Newer(NewestFirst(T)[i], NewestFirst(T)[j])
<1> DEFINE age == [t \in T |-> t.day]
<1>1. age \in [T -> Int] BY DEF Rows
<1>2. Lists(NewestFirst(T), T) /\ Sorted(NewestFirst(T), age) BY <1>1, Ordering DEF NewestFirst
<1>3. \A i \in 1..Cardinality(T) : NewestFirst(T)[i] \in T BY <1>2 DEF Lists
<1> QED BY <1>2, <1>3 DEF Sorted, Lists, Precedes, Newer

(* At most n rows of P, none of them twice.                                 *)
Chosen(s, n, P) == Lists(s, ToSet(s)) /\ ToSet(s) \subseteq P /\ Len(s) <= n

LEMMA FewerFacts ==
    ASSUME NEW m \in Nat, NEW n \in Nat
    PROVE  Fewer(m, n) \in Nat /\ Fewer(m, n) <= m /\ Fewer(m, n) <= n
BY DEF Fewer

LEMMA FirstChosen ==
    ASSUME NEW T, NEW s, Lists(s, T), NEW n \in Nat, NEW P, T \subseteq P
    PROVE  Chosen(FirstOf(s, n), n, P)
<1> DEFINE f == FirstOf(s, n)
<1>1. Lists(f, ToSet(f)) /\ ToSet(f) \subseteq T /\ Len(f) = Fewer(n, Len(s))
  BY Truncation
<1>2. Len(s) \in Nat BY ListFacts
<1>3. Len(f) <= n BY <1>1, <1>2, FewerFacts
<1> QED BY <1>1, <1>3 DEF Chosen

LEMMA LexicalChosen ==
    ASSUME Rows(turns), NEW topic, NEW n \in Nat, NEW excluded, NEW period
    PROVE  Chosen(Lexical(topic, n, excluded, period), n, Within(Others(excluded), period))
<1> DEFINE P == Within(Others(excluded), period)
           M == {t \in P : t.topic = topic}
<1>1. P \in SUBSET turns BY DEF Within, Others
<1>2. M \in SUBSET turns /\ M \subseteq P BY <1>1
<1> HIDE DEF P, M
<1>3. Lists(NewestFirst(M), M) BY <1>2, SomeRows, ByAge
<1>4. Chosen(FirstOf(NewestFirst(M), n), n, P) BY <1>2, <1>3, FirstChosen
<1> QED BY <1>4 DEF Lexical, P, M

LEMMA SemanticChosen ==
    ASSUME Rows(turns), Candidates \in Nat, ScanCap \in Nat, NEW topic, NEW excluded, NEW period
    PROVE  Chosen(Semantic(topic, excluded, period), Candidates, Within(Others(excluded), period))
<1> DEFINE P == Within(Others(excluded), period)
           M == {t \in P : t.id \in vectors}
           swept == FirstOf(NewestFirst(M), ScanCap)
           near == [t \in ToSet(swept) |-> IF t.topic = topic THEN 1 ELSE 0]
<1>1. P \in SUBSET turns BY DEF Within, Others
<1>2. M \in SUBSET turns /\ M \subseteq P BY <1>1
<1> HIDE DEF P, M
<1>3. Lists(NewestFirst(M), M) BY <1>2, SomeRows, ByAge
<1>4. ToSet(swept) \subseteq M BY <1>3, Truncation
<1>5. near \in [ToSet(swept) -> Int] OBVIOUS
<1>6. Rows(ToSet(swept)) BY <1>2, <1>4, SomeRows
<1> HIDE DEF swept, near
<1>7. Lists(Ordered(ToSet(swept), near), ToSet(swept)) BY <1>5, <1>6, Ordering
<1>8. Chosen(FirstOf(Ordered(ToSet(swept), near), Candidates), Candidates, P)
  BY <1>2, <1>4, <1>7, FirstChosen
<1> QED BY <1>8 DEF Semantic, P, M, swept, near

LEMMA ScoreIsANumber ==
    ASSUME NEW s, NEW T, Lists(s, T), NEW t
    PROVE  Score(t, s) \in Int
<1>1. DOMAIN s = 1..Len(s) /\ Len(s) \in Nat BY ListFacts
<1>2. ASSUME t \in ToSet(s) PROVE Score(t, s) \in Int
  <2> DEFINE i == CHOOSE i \in DOMAIN s : s[i] = t
  <2>1. i \in 1..Len(s) BY <1>1, <1>2 DEF ToSet
  <2> HIDE DEF i
  <2>2. 1000000 \div (RrfK + i) \in Int BY <1>1, <2>1 DEF RrfK
  <2> QED BY <1>2, <2>2 DEF Score, i
<1> QED BY <1>2 DEF Score

LEMMA FuseChosen ==
    ASSUME NEW P, Rows(P), NEW a, NEW b, NEW n \in Nat, NEW k, NEW l,
           Chosen(a, k, P), Chosen(b, l, P)
    PROVE  Chosen(Fuse(a, b, n), n, P)
<1> DEFINE found == ToSet(a) \cup ToSet(b)
           score == [t \in found |-> Score(t, a) + Score(t, b)]
<1>1. found \in SUBSET P BY DEF Chosen
<1>2. \A t : Score(t, a) \in Int /\ Score(t, b) \in Int BY ScoreIsANumber DEF Chosen
<1>3. score \in [found -> Int] BY <1>2
<1> HIDE DEF found, score
<1>4. Lists(Ordered(found, score), found) BY <1>1, <1>3, SomeRows, Ordering
<1>5. Chosen(FirstOf(Ordered(found, score), n), n, P) BY <1>1, <1>4, FirstChosen
<1> QED BY <1>5 DEF Fuse, found, score

LEMMA NoneChosen == ASSUME NEW n \in Nat, NEW P PROVE Chosen(<<>>, n, P)
<1>1. ToSet(<<>>) = {} BY DEF ToSet
<1>2. Lists(<<>>, {}) BY FS_EmptySet DEF Lists
<1> QED BY <1>1, <1>2 DEF Chosen

LEMMA RankedChosen ==
    ASSUME Rows(turns), TranscriptAssumption, NEW topic, NEW n \in Nat, NEW excluded, NEW period,
           NEW embedded \in BOOLEAN
    PROVE  Chosen(Ranked(topic, n, excluded, period, embedded), n, Within(Others(excluded), period))
<1> DEFINE P == Within(Others(excluded), period)
           near == Semantic(topic, excluded, period)
           words == Lexical(topic, IF embedded THEN Candidates ELSE n, excluded, period)
           k == IF embedded THEN Candidates ELSE n
<1>0. Candidates \in Nat /\ ScanCap \in Nat BY DEF TranscriptAssumption
<1>1. k \in Nat BY <1>0
<1>2. Chosen(near, Candidates, P) BY <1>0, SemanticChosen
<1>3. Chosen(words, k, P) BY <1>1, LexicalChosen
<1>4. Rows(P) BY SomeRows DEF Within, Others
<1> HIDE DEF P, near, words, k
<1>5. Chosen(Fuse(words, near, n), n, P) BY <1>2, <1>3, <1>4, FuseChosen
<1>6. Chosen(FirstOf(words, n), n, P) BY <1>3, FirstChosen DEF Chosen
<1>7. Chosen(<<>>, n, P) BY NoneChosen
<1> QED BY <1>5, <1>6, <1>7 DEF Ranked, P, near, words, k
-----------------------------------------------------------------------------
(*                        A spread of a period                              *)

(* The rows at n places that are spread evenly over a list of more.         *)
Sample(s, n) == {s[Round(i * (Len(s) - 1), n - 1) + 1] : i \in 0..(n - 1)}

LEMMA EvenRows ==
    ASSUME NEW T, NEW s, Lists(s, T), NEW n \in Nat, n > 1, Len(s) > n
    PROVE  /\ Sample(s, n) \in SUBSET T
           /\ IsFiniteSet(Sample(s, n)) /\ Cardinality(Sample(s, n)) = n
           /\ s[1] \in Sample(s, n) /\ s[Len(s)] \in Sample(s, n)
<1> DEFINE picks == Sample(s, n)
           place(i) == Round(i * (Len(s) - 1), n - 1) + 1
           q == [k \in 1..n |-> s[place(k - 1)]]
<1>1. s \in Seq(T) /\ Len(s) \in Nat BY DEF Lists
<1>2. /\ place(0) = 1 /\ place(n - 1) = Len(s)
      /\ \A i \in 0..(n - 1) : place(i) \in 1..Len(s)
      /\ \A i, j \in 0..(n - 1) : place(i) = place(j) => i = j
  BY <1>1, EvenSample
<1>p. picks = {s[place(i)] : i \in 0..(n - 1)} BY DEF Sample
<1> HIDE DEF place, picks
<1>3. \A k \in 1..n : k - 1 \in 0..(n - 1) /\ q[k] = s[place(k - 1)] /\ q[k] \in T
  BY <1>1, <1>2
<1>4. q \in Seq(T) /\ Len(q) = n /\ DOMAIN q = 1..n
  <2>1. q \in [1..n -> T] BY <1>3
  <2> QED BY <2>1
<1>5. \A i, j \in 1..n : q[i] = q[j] => i = j
  <2> SUFFICES ASSUME NEW i \in 1..n, NEW j \in 1..n, q[i] = q[j] PROVE i = j
    OBVIOUS
  <2>1. place(i - 1) = place(j - 1) BY <1>2, <1>3 DEF Lists
  <2>2. i - 1 = j - 1 BY <1>2, <1>3, <2>1
  <2> QED BY <2>2
<1>6. Lists(q, ToSet(q)) BY <1>4, <1>5, OwnList
<1>7. ToSet(q) = picks
  <2>1. \A i \in 0..(n - 1) : i + 1 \in 1..n /\ q[i + 1] = s[place(i)] OBVIOUS
  <2>2. \A k \in 1..n : q[k] \in picks BY <1>3, <1>p
  <2>3. \A i \in 0..(n - 1) : s[place(i)] \in ToSet(q) BY <1>4, <2>1 DEF ToSet
  <2> HIDE DEF q
  <2>4. ToSet(q) \subseteq picks BY <1>4, <2>2 DEF ToSet
  <2> QED BY <2>3, <2>4, <1>p
<1>8. picks \in SUBSET T
  <2>1. \A i \in 0..(n - 1) : s[place(i)] \in T BY <1>1, <1>2
  <2> QED BY <2>1, <1>p
<1>9. s[1] \in picks /\ s[Len(s)] \in picks
  <2>1. 0 \in 0..(n - 1) /\ n - 1 \in 0..(n - 1) OBVIOUS
  <2>2. s[place(0)] \in picks /\ s[place(n - 1)] \in picks BY <2>1, <1>p
  <2> QED BY <1>2, <2>2
<1>10. IsFiniteSet(picks) /\ Cardinality(picks) = n BY <1>4, <1>6, <1>7 DEF Lists
<1> QED BY <1>8, <1>9, <1>10 DEF picks

LEMMA SpreadChosen ==
    ASSUME Rows(turns), WindowCap \in Nat \ {0}, NEW n \in Nat, NEW excluded, NEW period
    PROVE  LET P == Within(Others(excluded), period)
               reach == Fewer(WindowCap, Cardinality(P))
               s == Spread(n, excluded, period)
           IN  /\ Chosen(s, n, P) /\ Len(s) = Fewer(n, reach)
               /\ P # {} /\ n > 1 =>
                      NewestFirst(P)[1] \in ToSet(s) /\ NewestFirst(P)[reach] \in ToSet(s)
<1> DEFINE P == Within(Others(excluded), period)
           reach == Fewer(WindowCap, Cardinality(P))
           s == Spread(n, excluded, period)
           all == NewestFirst(P)
           newest == FirstOf(all, WindowCap)
           found == Reverse(newest)
           F == ToSet(newest)
           picks == Sample(found, n)
<1>1. P \in SUBSET turns BY DEF Within, Others
<1> HIDE DEF P
<1>2. Rows(P) /\ Lists(all, P) BY <1>1, SomeRows, ByAge
<1>3. /\ IsFiniteSet(P) /\ Cardinality(P) \in Nat /\ Len(all) = Cardinality(P)
  BY <1>2, ListFacts
<1>4. reach \in Nat /\ reach <= WindowCap /\ reach <= Cardinality(P)
      /\ (P # {} => reach >= 1)
  <2>1. P # {} => Cardinality(P) # 0 BY <1>3, FS_EmptySet
  <2> QED BY <1>3, <2>1 DEF Fewer
<1>5. /\ Lists(newest, F) /\ F \subseteq P /\ Len(newest) = reach
      /\ \A i \in 1..reach : newest[i] = all[i]
  <2> HIDE DEF all, newest, reach
  <2>1. newest = FirstOf(all, WindowCap) BY DEF newest
  <2>2. /\ Lists(newest, ToSet(newest)) /\ ToSet(newest) \subseteq P
        /\ Len(newest) = Fewer(WindowCap, Len(all))
        /\ \A i \in 1..Len(newest) : newest[i] = all[i]
    BY <1>2, <2>1, Truncation
  <2> QED BY <1>3, <2>2 DEF reach
<1>6. /\ Lists(found, F) /\ Len(found) = reach
      /\ \A i \in 1..reach : found[i] = newest[reach - i + 1]
  <2> HIDE DEF newest, F, all, reach
  <2> QED BY <1>5, Backwards
<1>7. P # {} => found[reach] = all[1] /\ found[1] = all[reach]
  <2> HIDE DEF found, newest, F, all, reach
  <2>1. P # {} => 1 \in 1..reach /\ reach \in 1..reach /\ reach - reach + 1 = 1
                  /\ reach - 1 + 1 = reach
    BY <1>4
  <2> QED BY <1>5, <1>6, <2>1
<1>8. s = IF n <= 0 THEN <<>> ELSE IF Len(found) <= n THEN found
          ELSE IF n = 1 THEN <<found[Len(found)]>> ELSE Reverse(NewestFirst(picks))
  BY DEF Spread, P, Sample
<1> DEFINE Goal == /\ Chosen(s, n, P) /\ Len(s) = Fewer(n, reach)
                   /\ P # {} /\ n > 1 => all[1] \in ToSet(s) /\ all[reach] \in ToSet(s)
<1> HIDE DEF s, found, newest, F, all, reach
<1>9. ASSUME n = 0 PROVE Goal
  <2>1. s = <<>> BY <1>8, <1>9
  <2>2. Fewer(n, reach) = 0 BY <1>4, <1>9 DEF Fewer
  <2>3. Chosen(s, n, P) /\ Len(s) = 0 BY <2>1, NoneChosen
  <2> QED BY <1>9, <2>2, <2>3
<1>10. ASSUME n # 0 /\ reach <= n PROVE Goal
  <2>1. s = found BY <1>6, <1>8, <1>10
  <2>2. Lists(s, ToSet(s)) /\ ToSet(s) = F BY <1>6, <2>1, ListFacts
  <2>3. Len(s) = Fewer(n, reach) BY <1>4, <1>6, <1>10, <2>1 DEF Fewer
  <2>4. Chosen(s, n, P) BY <1>5, <1>6, <1>10, <2>1, <2>2 DEF Chosen
  <2>5. \A i \in 1..reach : found[i] \in ToSet(s)
    <3>1. DOMAIN found = 1..reach BY <1>6, ListFacts
    <3> QED BY <2>1, <3>1 DEF ToSet
  <2>6. P # {} => all[1] \in ToSet(s) /\ all[reach] \in ToSet(s)
    BY <1>4, <1>7, <2>5
  <2> QED BY <2>3, <2>4, <2>6
<1>11. ASSUME n = 1 /\ reach > n PROVE Goal
  <2> DEFINE x == found[reach]
  <2>1. s = <<x>> BY <1>4, <1>6, <1>8, <1>11
  <2>2. x \in F BY <1>4, <1>6, <1>11 DEF Lists
  <2> HIDE DEF x
  <2>3. s \in Seq(F) /\ Len(s) = 1 /\ ToSet(s) = {x} BY <2>1, <2>2 DEF ToSet
  <2>4. \A i, j \in 1..Len(s) : s[i] = s[j] => i = j BY <2>3
  <2>5. Lists(s, ToSet(s)) BY <2>3, <2>4, OwnList
  <2>6. Chosen(s, n, P) BY <1>5, <1>11, <2>2, <2>3, <2>5 DEF Chosen
  <2> QED BY <1>4, <1>11, <2>3, <2>6 DEF Fewer
<1>12. ASSUME n > 1 /\ reach > n PROVE Goal
  <2>1. s = Reverse(NewestFirst(picks)) BY <1>6, <1>8, <1>12
  <2> HIDE DEF picks
  <2>2. /\ picks \in SUBSET F /\ Cardinality(picks) = n
        /\ found[1] \in picks /\ found[reach] \in picks
    <3>1. Len(found) > n /\ Len(found) = reach BY <1>6, <1>12
    <3>2. /\ picks \in SUBSET F /\ Cardinality(picks) = n
          /\ found[1] \in picks /\ found[Len(found)] \in picks
      BY <1>6, <1>12, <3>1, EvenRows DEF picks
    <3> QED BY <3>1, <3>2
  <2>3. Rows(picks) BY <1>2, <1>5, <2>2, SomeRows
  <2>4. Lists(s, picks) BY <2>1, <2>3, ByAge, Backwards
  <2>5. ToSet(s) = picks /\ Len(s) = n BY <2>2, <2>4, ListFacts
  <2>6. Chosen(s, n, P) BY <1>5, <2>2, <2>4, <2>5 DEF Chosen
  <2>7. Fewer(n, reach) = n BY <1>4, <1>12 DEF Fewer
  <2>8. P # {} => all[1] \in ToSet(s) /\ all[reach] \in ToSet(s) BY <1>7, <2>2, <2>5
  <2> QED BY <2>5, <2>6, <2>7, <2>8
<1>13. Goal BY <1>4, <1>9, <1>10, <1>11, <1>12
<1> QED BY <1>13 DEF P, s, all, reach
-----------------------------------------------------------------------------
(*                            What is retrieved                             *)

LEMMA IdsFacts ==
    ASSUME NEW T, NEW s, Lists(s, T)
    PROVE  Ids(s) = {t.id : t \in T}
BY ListFacts DEF Ids, ToSet

(* What is left of a period when some of its rows are taken.                *)
LEMMA TheRest ==
    ASSUME Rows(turns), NEW excluded, NEW period, NEW s,
           Lists(s, ToSet(s)), ToSet(s) \subseteq Within(Others(excluded), period)
    PROVE  Within(Others(excluded \cup Ids(s)), period) = Within(Others(excluded), period) \ ToSet(s)
<1>1. Ids(s) = {t.id : t \in ToSet(s)} BY IdsFacts
<1>2. ToSet(s) \subseteq turns BY DEF Within, Others
<1> QED BY <1>1, <1>2 DEF Within, Others, Rows

(* A period is answered from its own rows, filling the slots.               *)
LEMMA TemporalChosen ==
    ASSUME Rows(turns), TranscriptAssumption, NEW topic, NEW excluded, NEW period,
           NEW embedded \in BOOLEAN,
           NEW there, there = Within(Others(excluded), period),
           NEW s, s = Temporal(topic, excluded, period, embedded)
    PROVE  /\ Chosen(s, RetrievedTurns, there)
           /\ RetrievedTurns <= WindowCap =>
                  Len(s) = Fewer(RetrievedTurns, Cardinality(there))
           /\ RetrievedTurns > 0 /\ there # {} => s # <<>>
           /\ topic = NoTopic /\ RetrievedTurns > 1 /\ there # {} =>
                  \A end \in {1, Fewer(WindowCap, Cardinality(there))} :
                      NewestFirst(there)[end] \in ToSet(s)
<1> DEFINE topical == Ranked(topic, RetrievedTurns, excluded, period, embedded)
           A == ToSet(topical)
           n == RetrievedTurns - Len(topical)
           rest == Spread(n, excluded \cup Ids(topical), period)
           P == Within(Others(excluded \cup Ids(topical)), period)
           B == ToSet(rest)
           reach == Fewer(WindowCap, Cardinality(P))
<1>0. /\ RetrievedTurns \in Nat /\ WindowCap \in Nat \ {0}
  BY DEF TranscriptAssumption
<1>1. Chosen(topical, RetrievedTurns, there) BY <1>0, RankedChosen
<1> HIDE DEF topical
<1>2. Lists(topical, A) /\ A \subseteq there BY <1>1 DEF Chosen
<1>3. Len(topical) \in Nat /\ Len(topical) = Cardinality(A) /\ IsFiniteSet(A)
      /\ Len(topical) <= RetrievedTurns
  BY <1>1, <1>2, ListFacts DEF Chosen
<1>4. n \in Nat BY <1>0, <1>3
<1>5. P = there \ A BY <1>2, TheRest
<1> HIDE DEF n
<1>6. /\ Chosen(rest, n, P) /\ Len(rest) = Fewer(n, reach)
      /\ P # {} /\ n > 1 => NewestFirst(P)[1] \in ToSet(rest) /\ NewestFirst(P)[reach] \in ToSet(rest)
  BY <1>0, <1>4, SpreadChosen
<1>7. s = Joined(topical, rest) BY DEF Temporal, topical, n, Joined
<1> HIDE DEF rest, P, A, B, reach
<1>8. Lists(rest, B) /\ B \subseteq P /\ Len(rest) <= n /\ Len(rest) \in Nat
  BY <1>6, ListFacts DEF Chosen, B
<1>9. Lists(s, A \cup B) /\ Len(s) = Len(topical) + Len(rest)
  <2>1. Lists(rest, B) /\ A \cap B = {} BY <1>5, <1>8
  <2>2. Lists(Joined(topical, rest), A \cup B) BY <1>2, <2>1, Joining
  <2>3. Len(Joined(topical, rest)) = Len(topical) + Len(rest)
    BY <1>2, <2>1, JoinedLength
  <2> QED BY <1>7, <2>2, <2>3
<1>10. ToSet(s) = A \cup B BY <1>9, ListFacts
<1>11. Chosen(s, RetrievedTurns, there)
  BY <1>0, <1>2, <1>3, <1>5, <1>8, <1>9, <1>10 DEF Chosen, n
<1>12. /\ IsFiniteSet(there) /\ Cardinality(there) \in Nat /\ Cardinality(P) \in Nat
       /\ Cardinality(P) = Cardinality(there) - Cardinality(A)
  <2>1. IsFiniteSet(there) BY FS_Subset DEF Within, Others, Rows
  <2>2. there \cap A = A BY <1>2
  <2>3. IsFiniteSet(P) /\ Cardinality(P) = Cardinality(there) - Cardinality(A)
    BY <1>5, <2>1, <2>2, FS_Difference
  <2> QED BY <2>1, <2>3, FS_CardinalityType
<1>13. Len(rest) = Fewer(n, Fewer(WindowCap, Cardinality(P))) BY <1>6 DEF reach
<1>14. ASSUME RetrievedTurns <= WindowCap
       PROVE  Len(s) = Fewer(RetrievedTurns, Cardinality(there))
  BY <1>0, <1>3, <1>4, <1>9, <1>12, <1>13, <1>14 DEF Fewer, n
<1>15. ASSUME RetrievedTurns > 0, there # {} PROVE s # <<>>
  <2>1. Cardinality(there) > 0 BY <1>12, <1>15, FS_EmptySet
  <2>2. Len(s) > 0 BY <1>0, <1>3, <1>4, <1>9, <1>12, <1>13, <1>15, <2>1 DEF Fewer, n
  <2> QED BY <2>2
<1>16. ASSUME topic = NoTopic, RetrievedTurns > 1, there # {}
       PROVE  \A end \in {1, Fewer(WindowCap, Cardinality(there))} :
                  NewestFirst(there)[end] \in ToSet(s)
  <2>1. topical = <<>> BY <1>16 DEF Ranked, topical
  <2>2. A = {} /\ Len(topical) = 0 BY <2>1 DEF A, ToSet
  <2>3. P = there /\ n = RetrievedTurns BY <1>0, <1>5, <2>2 DEF n
  <2>4. NewestFirst(there)[1] \in ToSet(rest) /\ NewestFirst(there)[reach] \in ToSet(rest)
    BY <1>6, <1>16, <2>3
  <2> QED BY <1>10, <2>3, <2>4 DEF B, reach
<1> QED BY <1>11, <1>14, <1>15, <1>16

LEMMA RetrievalIsSound ==
    ASSUME Rows(turns), TranscriptAssumption, NEW periods
    PROVE  RetrievalSound(periods)
<1> SUFFICES ASSUME NEW topic \in Topics \cup {NoTopic}, NEW period \in periods,
                    NEW embedded \in BOOLEAN
             PROVE  LET s     == Retrieved(topic, period, embedded)
                        there == Within(Others(Ids(Recent)), period)
                    IN  /\ Distinct(s) /\ Len(s) <= RetrievedTurns
                        /\ Ids(s) \cap Ids(Recent) = {}
                        /\ period # Always /\ there # {} /\ RetrievedTurns > 0 =>
                             /\ ToSet(s) \subseteq there
                             /\ RetrievedTurns <= WindowCap =>
                                    Len(s) = Fewer(RetrievedTurns, Cardinality(there))
                             /\ topic = NoTopic /\ RetrievedTurns > 1 =>
                                    \A end \in {1, Fewer(WindowCap, Cardinality(there))} :
                                        NewestFirst(there)[end] \in ToSet(s)
  BY DEF RetrievalSound
<1> DEFINE s == Retrieved(topic, period, embedded)
           there == Within(Others(Ids(Recent)), period)
<1> DEFINE shown == Ids(Recent)
           temporal == Temporal(topic, shown, period, embedded)
           inside == IF period = Always \/ RetrievedTurns = 0 THEN <<>> ELSE temporal
           ranked == Ranked(topic, RetrievedTurns, shown, Always, embedded)
<1>0. RetrievedTurns \in Nat BY DEF TranscriptAssumption
<1> HIDE DEF shown
<1>1. s = IF inside # <<>> THEN inside ELSE ranked BY DEF Retrieved, shown
<1>2. there = Within(Others(shown), period) BY DEF shown
<1> HIDE DEF s, there
<1>3. /\ Chosen(temporal, RetrievedTurns, there)
      /\ RetrievedTurns <= WindowCap =>
             Len(temporal) = Fewer(RetrievedTurns, Cardinality(there))
      /\ RetrievedTurns > 0 /\ there # {} => temporal # <<>>
      /\ topic = NoTopic /\ RetrievedTurns > 1 /\ there # {} =>
             \A end \in {1, Fewer(WindowCap, Cardinality(there))} :
                 NewestFirst(there)[end] \in ToSet(temporal)
  BY <1>2, TemporalChosen
<1>4. Chosen(ranked, RetrievedTurns, Within(Others(shown), Always))
  BY <1>0, RankedChosen
<1> HIDE DEF temporal, ranked
<1>5. there \subseteq Others(shown) /\ Within(Others(shown), Always) = Others(shown)
  BY <1>2 DEF Within
<1>6. Chosen(s, RetrievedTurns, Others(shown))
  BY <1>1, <1>3, <1>4, <1>5 DEF Chosen
<1>7. Distinct(s) /\ Len(s) <= RetrievedTurns BY <1>6, ListFacts DEF Chosen
<1>8. Ids(s) \cap shown = {}
  <2>1. Ids(s) = {t.id : t \in ToSet(s)} BY <1>6, IdsFacts DEF Chosen
  <2>2. \A t \in ToSet(s) : t.id \notin shown BY <1>6 DEF Chosen, Others
  <2> QED BY <2>1, <2>2
<1>9. ASSUME period # Always, there # {}, RetrievedTurns > 0
      PROVE  s = temporal
  BY <1>0, <1>1, <1>3, <1>9
<1>10. ASSUME period # Always, there # {}, RetrievedTurns > 0
       PROVE  /\ ToSet(s) \subseteq there
              /\ RetrievedTurns <= WindowCap =>
                     Len(s) = Fewer(RetrievedTurns, Cardinality(there))
              /\ topic = NoTopic /\ RetrievedTurns > 1 =>
                     \A end \in {1, Fewer(WindowCap, Cardinality(there))} :
                         NewestFirst(there)[end] \in ToSet(s)
  BY <1>3, <1>9, <1>10 DEF Chosen
<1> QED BY <1>7, <1>8, <1>10 DEF s, there, shown
-----------------------------------------------------------------------------
(*                          The recent window                               *)

Shown(s, S) == {s[i] : i \in S}
Refused(s) == {i \in DOMAIN s : s[i].deflects}
Kept(s) == {i \in DOMAIN s : s[i].deflects => \A j \in 1..(i - 1) : ~s[j].deflects}

LEMMA Least ==
    ASSUME NEW S \in SUBSET Nat, S # {}
    PROVE  \E m \in S : \A k \in S : m <= k
<1>1. PICK m \in S : \A k \in S : ~ (<<k, m>> \in OpToRel(<, Nat))
  BY NatLessThanWellFounded, WFMin
<1>2. ASSUME NEW k \in S PROVE m <= k
  <2>1. m \in Nat /\ k \in Nat OBVIOUS
  <2>2. k < m => <<k, m>> \in OpToRel(<, Nat) BY <2>1 DEF OpToRel
  <2>3. ~ (<<k, m>> \in OpToRel(<, Nat)) BY <1>1, Zenon
  <2>4. ~ (k < m) BY <2>2, <2>3, Zenon
  <2> QED BY <2>1, <2>4
<1> QED BY <1>2

LEMMA ShownSize ==
    ASSUME NEW T, NEW s, Lists(s, T), NEW S \in SUBSET (DOMAIN s)
    PROVE  /\ IsFiniteSet(S) /\ Shown(s, S) \in SUBSET T
           /\ Cardinality(Shown(s, S)) = Cardinality(S)
<1>1. DOMAIN s = 1..Len(s) /\ Len(s) \in Nat /\ s \in Seq(T) BY ListFacts DEF Lists
<1>2. IsFiniteSet(DOMAIN s) BY <1>1, FS_Interval
<1>3. IsFiniteSet(S) BY <1>2, FS_Subset
<1> DEFINE f == [i \in S |-> s[i]]
<1>4. f \in Bijection(S, Shown(s, S))
  <2>1. \A i, j \in S : s[i] = s[j] => i = j BY <1>1 DEF Lists
  <2> QED BY <2>1 DEF Bijection, Injection, Surjection, IsInjective, Shown
<1>5. ExistsBijection(S, Shown(s, S)) BY <1>4 DEF ExistsBijection
<1>6. Cardinality(Shown(s, S)) = Cardinality(S) BY <1>3, <1>5, FS_Bijection
<1>7. Shown(s, S) \in SUBSET T BY <1>1 DEF Shown
<1> QED BY <1>3, <1>6, <1>7

(* Of the refusals only the first is kept.                                  *)
LEMMA KeptSize ==
    ASSUME NEW T, NEW s, Lists(s, T)
    PROVE  /\ IsFiniteSet(Kept(s))
           /\ Cardinality(Kept(s)) =
                  Len(s) - (IF Refused(s) = {} THEN 0 ELSE Cardinality(Refused(s)) - 1)
<1> DEFINE D == DOMAIN s
           R == Refused(s)
<1>1. D = 1..Len(s) /\ Len(s) \in Nat BY ListFacts
<1>2. IsFiniteSet(D) /\ Cardinality(D) = Len(s)
  <2> DEFINE n == Len(s)
  <2>1. n \in Int /\ n >= 0 BY <1>1
  <2> HIDE DEF n
  <2>2. IsFiniteSet(1..n) /\ Cardinality(1..n) = n BY <2>1, FS_Interval
  <2> QED BY <1>1, <2>2 DEF n
<1>3. R \in SUBSET D BY DEF Refused
<1>4. IsFiniteSet(R) /\ Cardinality(R) \in Nat BY <1>2, <1>3, FS_Subset, FS_CardinalityType
<1>5. ASSUME R = {}
      PROVE  Kept(s) = D
  BY <1>5 DEF Kept, Refused
<1>6. ASSUME R # {}
      PROVE  \E m \in R : Kept(s) = D \ (R \ {m})
  <2>1. R \in SUBSET Nat BY <1>1, <1>3
  <2>2. PICK m \in R : \A k \in R : m <= k BY <1>6, <2>1, Least
  <2>3. ASSUME NEW i \in D PROVE i \in Kept(s) <=> i \notin R \/ i = m
    <3>1. CASE i \notin R BY <3>1 DEF Kept, Refused
    <3>2. CASE i = m
      <4>1. \A j \in 1..(m - 1) : j \notin R /\ j \in D BY <1>1, <1>3, <2>2
      <4> QED BY <3>2, <4>1 DEF Kept, Refused
    <3>3. CASE i \in R /\ i # m
      <4>1. m \in 1..(i - 1) BY <1>1, <1>3, <2>2, <3>3
      <4>2. s[m].deflects /\ s[i].deflects BY <2>2, <3>3 DEF Refused
      <4> QED BY <3>3, <4>1, <4>2 DEF Kept
    <3> QED BY <3>1, <3>2, <3>3
  <2>4. Kept(s) \in SUBSET D BY DEF Kept
  <2>5. Kept(s) = D \ (R \ {m}) BY <2>3, <2>4
  <2> QED BY <2>5
<1> HIDE DEF D, R
<1>7. ASSUME R # {}
      PROVE  IsFiniteSet(Kept(s)) /\ Cardinality(Kept(s)) = Len(s) - (Cardinality(R) - 1)
  <2>1. PICK m \in R : Kept(s) = D \ (R \ {m}) BY <1>6, <1>7
  <2>2. Cardinality(R \ {m}) = Cardinality(R) - 1 BY <1>4, FS_RemoveElement
  <2>3. D \cap (R \ {m}) = R \ {m} BY <1>3
  <2> DEFINE Q == R \ {m}
  <2> HIDE DEF Q
  <2>4. IsFiniteSet(D \ Q) /\ Cardinality(D \ Q) = Cardinality(D) - Cardinality(D \cap Q)
    BY <1>2, FS_Difference
  <2>5. D \cap Q = Q BY <2>3 DEF Q
  <2> QED BY <1>1, <1>2, <1>4, <2>1, <2>2, <2>4, <2>5 DEF Q
<1>8. ASSUME R = {}
      PROVE  IsFiniteSet(Kept(s)) /\ Cardinality(Kept(s)) = Len(s)
  BY <1>2, <1>5, <1>8
<1> QED BY <1>1, <1>4, <1>7, <1>8 DEF R

LEMMA AtMostOne ==
    ASSUME NEW S, \A i, j \in S : i = j
    PROVE  IsFiniteSet(S) /\ Cardinality(S) <= 1
<1>1. IsFiniteSet({}) /\ Cardinality({}) <= 1 BY FS_EmptySet
<1>2. \A x \in S : S = {x} OBVIOUS
<1>3. \A x : IsFiniteSet({x}) /\ Cardinality({x}) = 1 BY FS_Singleton, Zenon
<1>4. S = {} \/ \E x \in S : TRUE OBVIOUS
<1>5. CASE S = {} BY <1>1, <1>5
<1>6. CASE \E x \in S : TRUE
  <2>1. PICK x \in S : TRUE BY <1>6
  <2>2. S = {x} BY <1>2
  <2>3. IsFiniteSet(S) /\ Cardinality(S) = 1 BY <1>3, <2>2, Zenon
  <2> QED BY <2>3
<1> QED BY <1>4, <1>5, <1>6

LEMMA RecentIsThin ==
    ASSUME Rows(turns), TranscriptAssumption
    PROVE  RecentIsThinned
<1> DEFINE depth == RecentTurns * Overfetch
           all == NewestFirst(turns)
           deep == FirstOf(all, depth)
           K == Shown(deep, Kept(deep))
           order == NewestFirst(K)
           r == Recent
<1>0. RecentTurns \in Nat \ {0} /\ depth \in Nat \ {0}
  BY DEF TranscriptAssumption
<1>1. r = FirstOf(order, RecentTurns)
  BY DEF Recent, ThinDeflections, Shown, Kept
<1>2. Lists(all, turns) /\ \A i, j \in 1..Cardinality(turns) : i < j => Newer(all[i], all[j])
  BY ByAge
<1> HIDE DEF depth, all
<1>3. /\ Lists(deep, ToSet(deep)) /\ ToSet(deep) \subseteq turns
      /\ Len(deep) = Fewer(depth, Len(all)) /\ DOMAIN deep = 1..Len(deep)
      /\ \A i \in 1..Len(deep) : deep[i] = all[i]
  BY <1>0, <1>2, Truncation
<1>4. /\ Len(all) \in Nat /\ Len(all) = Cardinality(turns) /\ Len(deep) \in Nat
      /\ Len(deep) <= Len(all)
  <2>1. Len(all) \in Nat /\ Len(all) = Cardinality(turns) BY <1>2, ListFacts
  <2> QED BY <1>0, <1>3, <2>1, FewerFacts
<1> HIDE DEF deep
<1>5. Kept(deep) \in SUBSET (DOMAIN deep) BY DEF Kept
<1>6. /\ K \in SUBSET ToSet(deep) /\ Cardinality(K) = Cardinality(Kept(deep))
  BY <1>3, <1>5, ShownSize
<1>7. Rows(K) BY <1>3, <1>6, SomeRows
<1>8. Lists(order, K) /\ \A i, j \in 1..Cardinality(K) : i < j => Newer(order[i], order[j])
  BY <1>7, ByAge
<1> HIDE DEF K, order, r
<1>9. /\ Lists(r, ToSet(r)) /\ ToSet(r) \subseteq K /\ Len(r) = Fewer(RecentTurns, Len(order))
      /\ DOMAIN r = 1..Len(r) /\ \A i \in 1..Len(r) : r[i] = order[i]
  BY <1>0, <1>1, <1>8, Truncation
<1>10. Len(order) \in Nat /\ Len(order) = Cardinality(K) BY <1>8, ListFacts
<1>11. Distinct(r) BY <1>9, ListFacts
<1>12. Len(r) = Fewer(RecentTurns,
               Len(deep) - (IF Refused(deep) = {} THEN 0 ELSE Cardinality(Refused(deep)) - 1))
  BY <1>3, <1>6, <1>9, <1>10, KeptSize
<1>13. \A t, u \in K : t.deflects /\ u.deflects => t = u
  <2> SUFFICES ASSUME NEW i \in Kept(deep), NEW j \in Kept(deep),
                      deep[i].deflects, deep[j].deflects
               PROVE  i = j
    BY DEF K, Shown
  <2>1. i \in 1..Len(deep) /\ j \in 1..Len(deep) BY <1>3, <1>5
  <2>2. ~ (i \in 1..(j - 1)) /\ ~ (j \in 1..(i - 1)) BY DEF Kept
  <2> QED BY <1>4, <2>1, <2>2
<1>14. Quantify(DOMAIN r, LAMBDA i : r[i].deflects) <= 1
  <2> DEFINE S == {i \in DOMAIN r : r[i].deflects}
  <2>1. \A i \in DOMAIN r : r[i] \in K BY <1>9 DEF ToSet
  <2>2. \A i, j \in S : i = j BY <1>9, <1>13, <2>1 DEF Lists
  <2>3. Cardinality(S) <= 1
    <3> HIDE DEF S
    <3> QED BY <2>2, AtMostOne
  <2> QED BY <2>3 DEF Quantify
<1>15. ASSUME turns # {} PROVE r[1] = deep[1]
  <2>1. IsFiniteSet(turns) /\ Cardinality(turns) > 0
    BY <1>4, <1>15, FS_EmptySet DEF Rows
  <2>2. 1 \in 1..Len(deep) BY <1>0, <1>3, <1>4, <2>1 DEF Fewer
  <2>3. 1 \in Kept(deep) BY <1>3, <2>2 DEF Kept
  <2>4. deep[1] \in K BY <2>3 DEF K, Shown
  <2>5. PICK k \in 1..Len(order) : order[k] = deep[1] BY <1>8, <2>4 DEF Lists
  <2>6. 1 \in 1..Len(order) /\ order[1] \in K BY <1>8, <1>10, <2>5 DEF Lists
  <2>7. PICK i \in Kept(deep) : order[1] = deep[i] BY <2>6 DEF K, Shown
  <2>8. i \in 1..Len(deep) /\ deep[i] = all[i] /\ deep[1] = all[1] BY <1>3, <1>5, <2>2
  <2>9. i > 1 => Newer(deep[1], order[1]) BY <1>2, <1>4, <2>2, <2>7, <2>8
  <2>10. k > 1 => Newer(order[1], deep[1]) BY <1>8, <1>10, <2>5, <2>6
  <2>11. deep[1] \in turns /\ order[1] \in turns BY <1>3, <1>6, <2>4, <2>6
  <2>12. ~ (Newer(deep[1], order[1]) /\ Newer(order[1], deep[1]))
    BY <2>11 DEF Newer, Rows
  <2>13. i = 1 \/ k = 1 BY <1>4, <1>10, <2>5, <2>8, <2>9, <2>10, <2>12
  <2>14. order[1] = deep[1] BY <2>5, <2>7, <2>13
  <2>15. 1 \in 1..Len(r) BY <1>0, <1>9, <1>10, <2>6 DEF Fewer
  <2> QED BY <1>9, <2>14, <2>15
<1> QED BY <1>11, <1>12, <1>14, <1>15 DEF RecentIsThinned, Refused, deep, r, all, depth
-----------------------------------------------------------------------------
(*                                 Recall                                   *)

(* A list cut short in its second part.                                     *)
LEMMA CutJoined ==
    ASSUME NEW n \in Nat, NEW A, NEW B, NEW d, NEW e, Lists(d, A), Lists(e, B), A \cap B = {}
    PROVE  LET s == FirstOf(Joined(d, e), n) IN
           /\ Len(d) + Len(e) = Cardinality(A \cup B) /\ IsFiniteSet(A \cup B)
           /\ Lists(s, ToSet(s)) /\ Len(s) = Fewer(n, Len(d) + Len(e))
           /\ Len(d) <= n => A \subseteq ToSet(s)
<1> DEFINE c == Joined(d, e)
           s == FirstOf(c, n)
<1>1. Lists(c, A \cup B) BY Joining
<1>2. Len(c) = Len(d) + Len(e) BY JoinedLength
<1>3. \A i \in 1..Len(d) : c[i] = d[i]
  <2>1. c = d \o e BY DEF Joined
  <2>2. d \in Seq(A) /\ e \in Seq(B) BY DEF Lists
  <2> QED BY <2>1, <2>2
<1>4. IsFiniteSet(A \cup B) /\ Cardinality(A \cup B) = Len(c) BY <1>1, ListFacts
<1>5. Len(d) \in Nat /\ Len(e) \in Nat /\ DOMAIN d = 1..Len(d) BY ListFacts
<1> HIDE DEF c
<1>6. /\ Lists(s, ToSet(s)) /\ Len(s) = Fewer(n, Len(c))
      /\ \A i \in 1..Len(s) : s[i] = c[i]
  BY <1>1, Truncation
<1>7. DOMAIN s = 1..Len(s) BY <1>6, ListFacts
<1> HIDE DEF s
<1>8. ASSUME Len(d) <= n PROVE A \subseteq ToSet(s)
  <2>1. Len(d) <= Len(s) BY <1>2, <1>5, <1>6, <1>8 DEF Fewer
  <2>2. \A i \in 1..Len(d) : i \in 1..Len(s) /\ s[i] = d[i]
    <3>1. Len(s) \in Nat BY <1>6, ListFacts
    <3> QED BY <1>3, <1>5, <1>6, <2>1, <3>1
  <2>3. \A t \in A : \E i \in 1..Len(d) : d[i] = t BY DEF Lists
  <2> QED BY <1>7, <2>2, <2>3 DEF ToSet
<1> QED BY <1>2, <1>4, <1>6, <1>8 DEF s, c

(* l is as many rows of T as there are up to n.                             *)
Cut(l, n, T) ==
    Lists(l, ToSet(l)) /\ ToSet(l) \subseteq T /\ Len(l) = Fewer(n, Cardinality(T))

(* s is n of D, and as many of W as there is room for.                      *)
Fills(s, n, D, W) ==
    /\ Distinct(s) /\ Len(s) = Fewer(n, Cardinality(D \cup W))
    /\ Cardinality(ToSet(s) \cap D) = Fewer(n, Cardinality(D))

LEMMA Filled ==
    ASSUME NEW n \in Nat, NEW D, NEW W, Rows(D \cup W),
           NEW d, Cut(d, n, D), NEW w, Cut(w, n, W),
           NEW s, s = FirstOf(Joined(d, NewestFirst(ToSet(w) \ ToSet(d))), n)
    PROVE  Fills(s, n, D, W)
<1>0. /\ Lists(d, ToSet(d)) /\ ToSet(d) \subseteq D /\ Len(d) = Fewer(n, Cardinality(D))
      /\ Lists(w, ToSet(w)) /\ ToSet(w) \subseteq W /\ Len(w) = Fewer(n, Cardinality(W))
  BY DEF Cut
<1> USE <1>0
<1> DEFINE A == ToSet(d)
           B == ToSet(w) \ ToSet(d)
           added == NewestFirst(B)
           c == Joined(d, added)
<1>1. /\ IsFiniteSet(D) /\ IsFiniteSet(W) /\ IsFiniteSet(D \cup W)
      /\ Cardinality(D) \in Nat /\ Cardinality(W) \in Nat /\ Cardinality(D \cup W) \in Nat
      /\ Cardinality(D) <= Cardinality(D \cup W) /\ Cardinality(W) <= Cardinality(D \cup W)
  <2>1. IsFiniteSet(D \cup W) BY DEF Rows
  <2>2. D \in SUBSET (D \cup W) /\ W \in SUBSET (D \cup W) OBVIOUS
  <2> QED BY <2>1, <2>2, FS_Subset, FS_CardinalityType
<1>2. Rows(B)
  <2>1. B \in SUBSET (D \cup W) OBVIOUS
  <2> QED BY <2>1, SomeRows
<1>3. Lists(added, B) BY <1>2, ByAge
<1>4. Lists(d, A) /\ A \subseteq D /\ A \cap B = {} /\ B \subseteq W /\ A \cup B = A \cup ToSet(w)
  OBVIOUS
<1>5. /\ IsFiniteSet(A) /\ Len(d) \in Nat /\ Len(d) = Cardinality(A)
      /\ IsFiniteSet(ToSet(w)) /\ Len(w) = Cardinality(ToSet(w)) /\ Len(w) \in Nat
  BY <1>4, ListFacts
<1>6. IsFiniteSet(B) /\ Cardinality(B) = Len(added) /\ Len(added) \in Nat BY <1>3, ListFacts
<1> HIDE DEF A, B, added
<1>7. s = FirstOf(Joined(d, added), n) BY DEF added, B
<1>8. /\ Len(d) + Len(added) = Cardinality(A \cup B) /\ IsFiniteSet(A \cup B)
      /\ Lists(s, ToSet(s)) /\ Len(s) = Fewer(n, Len(d) + Len(added))
      /\ Len(d) <= n => A \subseteq ToSet(s)
  <2>1. LET u == FirstOf(Joined(d, added), n) IN
        /\ Len(d) + Len(added) = Cardinality(A \cup B) /\ IsFiniteSet(A \cup B)
        /\ Lists(u, ToSet(u)) /\ Len(u) = Fewer(n, Len(d) + Len(added))
        /\ Len(d) <= n => A \subseteq ToSet(u)
    BY <1>3, <1>4, CutJoined
  <2> QED BY <1>7, <2>1
<1> DEFINE size == Len(d) + Len(added)
<1>11. IsFiniteSet(A \cup B) /\ Cardinality(A \cup B) = size /\ size \in Nat
  BY <1>5, <1>6, <1>8
<1>13. /\ IsFiniteSet(ToSet(s)) /\ Len(s) = Cardinality(ToSet(s)) /\ Len(s) \in Nat
       /\ Distinct(s)
  BY <1>8, ListFacts
<1>14. ASSUME Cardinality(D) <= n PROVE A = D
  <2>1. Cardinality(A) = Cardinality(D) BY <1>1, <1>5, <1>14 DEF Fewer
  <2> QED BY <1>1, <1>4, <2>1, FS_Subset
<1>15. ASSUME Cardinality(W) <= n PROVE ToSet(w) = W
  <2>1. Cardinality(ToSet(w)) = Cardinality(W) BY <1>1, <1>5, <1>15 DEF Fewer
  <2>2. ToSet(w) \in SUBSET W OBVIOUS
  <2> QED BY <1>1, <2>1, <2>2, FS_Subset
<1>16. size <= Cardinality(D \cup W)
  <2>1. A \cup B \in SUBSET (D \cup W) BY <1>4
  <2>2. Cardinality(A \cup B) <= Cardinality(D \cup W) BY <1>1, <2>1, FS_Subset
  <2> QED BY <1>11, <2>2
<1>17. size >= n \/ size = Cardinality(D \cup W)
  <2>1. CASE Cardinality(D) >= n BY <1>1, <1>5, <1>6, <1>8, <2>1 DEF Fewer
  <2>2. CASE Cardinality(W) >= n
    <3>1. Len(w) = n BY <1>1, <2>2 DEF Fewer
    <3>2. ToSet(w) \in SUBSET (A \cup B) BY <1>4
    <3>3. Cardinality(ToSet(w)) <= Cardinality(A \cup B) BY <1>11, <3>2, FS_Subset
    <3> QED BY <1>5, <1>11, <3>1, <3>3
  <2>3. CASE Cardinality(D) <= n /\ Cardinality(W) <= n
    <3>1. A \cup B = D \cup W BY <1>4, <1>14, <1>15, <2>3
    <3> QED BY <1>11, <3>1
  <2> QED BY <1>1, <2>1, <2>2, <2>3
<1>18. Len(s) = Fewer(n, Cardinality(D \cup W))
  BY <1>1, <1>8, <1>11, <1>16, <1>17 DEF Fewer
<1>19. A \subseteq ToSet(s)
  <2>1. Len(d) <= n BY <1>1 DEF Fewer
  <2> QED BY <1>8, <2>1
<1> DEFINE both == ToSet(s) \cap D
<1>20. /\ A \in SUBSET both /\ both \in SUBSET D /\ both \in SUBSET ToSet(s)
  BY <1>4, <1>19
<1>21. /\ IsFiniteSet(both) /\ Cardinality(both) \in Nat
       /\ Cardinality(A) <= Cardinality(both) /\ Cardinality(both) <= Cardinality(D)
       /\ Cardinality(both) <= Cardinality(ToSet(s))
  <2> HIDE DEF both
  <2>1. IsFiniteSet(both) /\ Cardinality(both) <= Cardinality(D)
    BY <1>1, <1>20, FS_Subset
  <2>2. Cardinality(both) <= Cardinality(ToSet(s)) BY <1>13, <1>20, FS_Subset
  <2>3. Cardinality(A) <= Cardinality(both) BY <1>20, <2>1, FS_Subset
  <2> QED BY <2>1, <2>2, <2>3, FS_CardinalityType
<1>22. Cardinality(both) = Fewer(n, Cardinality(D))
  <2> HIDE DEF both
  <2>1. Len(s) <= n BY <1>8, <1>11 DEF Fewer
  <2> QED BY <1>1, <1>5, <1>13, <1>21, <2>1 DEF Fewer
<1> QED BY <1>13, <1>18, <1>22 DEF Fills

LEMMA RecallIsSound ==
    ASSUME Rows(events), MemoriesAssumption, NEW periods
    PROVE  RecallSound(periods)
<1> SUFFICES ASSUME NEW topic \in Topics \cup {NoTopic}, NEW period \in periods
             PROVE  LET s     == Recall(topic, period)
                        dated == IF period = Always THEN {} ELSE Within(events, period)
                        found == dated \cup {e \in events : e.topic = topic}
                    IN  /\ Distinct(s)
                        /\ Len(s) = Fewer(Recalled, Cardinality(found))
                        /\ Cardinality(ToSet(s) \cap dated) = Fewer(Recalled, Cardinality(dated))
  BY DEF RecallSound
<1> DEFINE D == IF period = Always THEN {} ELSE Within(events, period)
           W == {e \in events : e.topic = topic}
           dated == IF period = Always THEN <<>>
                    ELSE FirstOf(NewestFirst(Within(events, period)), Recalled)
           words == FirstOf(NewestFirst(W), Recalled)
           s == Recall(topic, period)
<1>0. Recalled \in Nat BY DEF MemoriesAssumption
<1>1. D \in SUBSET events /\ W \in SUBSET events BY DEF Within
<1>2. Rows(D) /\ Rows(W) /\ Rows(D \cup W)
  <2>1. D \cup W \in SUBSET events BY <1>1
  <2> HIDE DEF D, W
  <2> QED BY <1>1, <2>1, SomeRows
<1>3. s = FirstOf(Joined(dated, NewestFirst(ToSet(words) \ ToSet(dated))), Recalled)
  BY DEF Recall, Joined
<1> HIDE DEF s
<1>4. /\ Lists(words, ToSet(words)) /\ ToSet(words) \subseteq W
      /\ Len(words) = Fewer(Recalled, Cardinality(W))
  <2> HIDE DEF W
  <2>1. Lists(NewestFirst(W), W) BY <1>2, ByAge
  <2>2. Len(NewestFirst(W)) = Cardinality(W) BY <2>1, ListFacts
  <2> QED BY <1>0, <2>1, <2>2, Truncation
<1>5. /\ Lists(dated, ToSet(dated)) /\ ToSet(dated) \subseteq D
      /\ Len(dated) = Fewer(Recalled, Cardinality(D))
  <2>1. ASSUME period # Always
        PROVE  /\ Lists(dated, ToSet(dated)) /\ ToSet(dated) \subseteq D
               /\ Len(dated) = Fewer(Recalled, Cardinality(D))
    <3>1. dated = FirstOf(NewestFirst(D), Recalled) BY <2>1
    <3> HIDE DEF D, dated
    <3>2. Lists(NewestFirst(D), D) BY <1>2, ByAge
    <3>3. Len(NewestFirst(D)) = Cardinality(D) BY <3>2, ListFacts
    <3> QED BY <1>0, <3>1, <3>2, <3>3, Truncation
  <2>2. ASSUME period = Always
        PROVE  /\ Lists(dated, ToSet(dated)) /\ ToSet(dated) \subseteq D
               /\ Len(dated) = Fewer(Recalled, Cardinality(D))
    <3>1. dated = <<>> /\ D = {} BY <2>2
    <3> HIDE DEF D, dated
    <3>2. Cardinality(D) = 0 /\ Fewer(Recalled, 0) = 0 BY <1>0, <3>1, FS_EmptySet DEF Fewer
    <3>3. Chosen(dated, 0, {}) BY <3>1, NoneChosen
    <3> QED BY <3>1, <3>2, <3>3 DEF Chosen
  <2> QED BY <2>1, <2>2
<1> HIDE DEF D, W, dated, words
<1>6. /\ Distinct(s) /\ Len(s) = Fewer(Recalled, Cardinality(D \cup W))
      /\ Cardinality(ToSet(s) \cap D) = Fewer(Recalled, Cardinality(D))
  <2>1. Rows(D \cup W) BY <1>2
  <2>2. Cut(dated, Recalled, D) /\ Cut(words, Recalled, W) BY <1>4, <1>5 DEF Cut
  <2>3. Fills(s, Recalled, D, W) BY <1>0, <1>3, <2>1, <2>2, Filled
  <2> QED BY <2>3 DEF Fills
<1> QED BY <1>6 DEF s, D, W
-----------------------------------------------------------------------------
(*                     The rows of turns and of events                      *)

(* Both tables are told apart by their ids, and no id of a turn is reused.  *)
TablesOfRows ==
    /\ Rows(turns) /\ lastId \in Nat /\ \A t \in turns : t.id <= lastId
    /\ Rows(events)

LEMMA AddRow ==
    ASSUME NEW T, Rows(T), NEW row, row.id \in Int, row.day \in Int,
           \A t \in T : t.id # row.id, NEW S \in SUBSET (T \cup {row})
    PROVE  Rows(S)
<1>1. IsFiniteSet(T \cup {row}) BY FS_AddElement DEF Rows
<1>2. Rows(T \cup {row}) BY <1>1 DEF Rows
<1> QED BY <1>2, SomeRows

(* The id that SQLite gives next is above all of a table.                   *)
LEMMA NextId ==
    ASSUME NEW T, Rows(T)
    PROVE  /\ Max({0} \cup {t.id : t \in T}) \in Int
           /\ \A u \in T : u.id <= Max({0} \cup {t.id : t \in T})
<1> DEFINE S == {0} \cup {t.id : t \in T}
           key == [t \in T |-> t.id]
           s == Ordered(T, key)
<1>1. S \subseteq Int BY DEF Rows
<1>2. key \in [T -> Int] BY DEF Rows
<1>3. \A t \in T : key[t] = t.id OBVIOUS
<1> HIDE DEF key
<1>4. Lists(s, T) /\ Sorted(s, key) BY <1>2, Ordering
<1> HIDE DEF s
<1>5. \E x \in S : \A y \in S : x >= y
  <2>1. CASE T = {}
    <3>1. S = {0} BY <2>1
    <3> HIDE DEF S
    <3> QED BY <3>1
  <2>2. CASE T # {}
    <3>1. Len(s) \in Nat BY <1>4, ListFacts
    <3>2. \A t \in T : \E i \in 1..Len(s) : s[i] = t BY <1>4 DEF Lists
    <3>3. 1 \in 1..Len(s) /\ s[1] \in T BY <1>4, <2>2, <3>1, <3>2 DEF Lists
    <3>4. ASSUME NEW t \in T PROVE t.id <= s[1].id
      <4>1. PICK i \in 1..Len(s) : s[i] = t BY <3>2
      <4>2. i = 1 \/ Precedes(s[1], s[i], key) BY <1>4, <3>1, <3>3 DEF Sorted
      <4> QED BY <1>3, <3>3, <4>1, <4>2 DEF Precedes, Rows
    <3>5. s[1].id \in Int BY <3>3 DEF Rows
    <3>6. s[1].id \in S /\ 0 \in S BY <3>3
    <3>7. \A y \in S : y = 0 \/ y <= s[1].id BY <3>4
    <3> HIDE DEF S
    <3> QED BY <1>1, <3>5, <3>6, <3>7
  <2> QED BY <2>1, <2>2
<1>6. \A t \in T : t.id \in S OBVIOUS
<1> DEFINE m == Max(S)
<1>7. m = CHOOSE x \in S : \A y \in S : x >= y BY DEF Max
<1> HIDE DEF m, S
<1>8. m \in S /\ \A y \in S : m >= y BY <1>5, <1>7
<1>9. m \in Int /\ \A t \in T : t.id <= m BY <1>1, <1>6, <1>8
<1> QED BY <1>9 DEF m, S

LEMMA RowsInit == MemoryInit => TablesOfRows
<1> SUFFICES ASSUME MemoryInit PROVE TablesOfRows
  OBVIOUS
<1> DEFINE T == household.before
           ids == {t.id : t \in T}
<1>1. /\ Rows(T) /\ Rows(household.noted) /\ \A t \in T : t.id \in 1..Cardinality(T)
  BY MemoriesAssumption DEF MemoriesAssumption, MemoryInit
<1>2. turns = T /\ lastId = Cardinality(ids) /\ events = household.noted
  BY DEF MemoryInit, TranscriptHolds
<1> HIDE DEF T
<1>3. IsFiniteSet(ids) /\ Cardinality(ids) = Cardinality(T)
  <2> DEFINE f == [t \in T |-> t.id]
  <2>1. f \in Bijection(T, ids) BY <1>1 DEF Rows, Bijection, Injection, Surjection, IsInjective
  <2>2. ExistsBijection(T, ids) BY <2>1 DEF ExistsBijection
  <2> QED BY <1>1, <2>2, FS_Bijection DEF Rows
<1>4. Cardinality(T) \in Nat BY <1>1, FS_CardinalityType DEF Rows
<1> HIDE DEF ids
<1> QED BY <1>1, <1>2, <1>3, <1>4 DEF TablesOfRows

LEMMA RowsStep ==
    ASSUME TablesOfRows, Extracted, [MemoryNext]_memoryVars
    PROVE  TablesOfRows'
<1>1. day \in Int /\ extractor.found \in Int
  BY DEF Extracted, ExtractionTypes, Extractors
<1>2. UNCHANGED <<turns, lastId, events>> => TablesOfRows' BY DEF TablesOfRows
<1>3. CASE RecordTurn
  <2> DEFINE row == Turn(turn, day, Topic(turn), deflected)
  <2>1. row.id = lastId + 1 /\ row.day = day BY DEF Turn
  <2>2. Insert(row) /\ events' = events BY <1>3 DEF RecordTurn
  <2> HIDE DEF row
  <2>3. turns' \in SUBSET (turns \cup {row}) /\ lastId' = row.id
    BY <2>2 DEF Insert, Retained
  <2>4. lastId + 1 \in Int /\ \A t \in turns : t.id # lastId + 1 /\ t.id \in Int
    BY DEF TablesOfRows, Rows
  <2>5. Rows(turns') BY <1>1, <2>1, <2>3, <2>4, AddRow DEF TablesOfRows
  <2>6. lastId' \in Nat /\ \A t \in turns' : t.id <= lastId'
    BY <2>1, <2>3, <2>4 DEF TablesOfRows
  <2> QED BY <2>2, <2>5, <2>6 DEF TablesOfRows
<1>4. CASE StoreEvent
  <2> DEFINE next == Max({0} \cup {e.id : e \in events})
             row == [id |-> 1 + next, source |-> extractor.job,
                     topic |-> Topic(extractor.job), day |-> extractor.found]
  <2>1. UNCHANGED <<turns, lastId>> BY <1>4 DEF StoreEvent, Elsewhere, transcriptVars
  <2>2. events' = events \/ events' = RetainedEvents(events \cup {row})
    BY <1>4 DEF StoreEvent
  <2>3. next \in Int /\ \A e \in events : e.id <= next /\ e.id \in Int
    BY NextId DEF TablesOfRows, Rows
  <2>4. row.id = 1 + next /\ row.day = extractor.found OBVIOUS
  <2> HIDE DEF row, next
  <2>5. events' \in SUBSET (events \cup {row}) BY <2>2 DEF RetainedEvents
  <2>6. row.id \in Int /\ \A e \in events : e.id # row.id BY <2>3, <2>4
  <2>7. Rows(events') BY <1>1, <2>4, <2>5, <2>6, AddRow DEF TablesOfRows
  <2> QED BY <2>1, <2>7 DEF TablesOfRows
<1>5. CASE ForgetEvents
  <2>1. UNCHANGED <<turns, lastId>> /\ events' \in SUBSET events
    BY <1>5 DEF ForgetEvents, transcriptVars
  <2>2. Rows(events') BY <2>1, SomeRows DEF TablesOfRows
  <2> QED BY <2>1, <2>2 DEF TablesOfRows
<1> USE DEF transcriptVars
<1>6. CASE Compose \/ Speak \/ RecordFails \/ QueueExtraction \/ QueueFails \/ SpeakAgain
  BY <1>2, <1>6 DEF Compose, Speak, RecordFails, QueueExtraction, QueueFails, SpeakAgain
<1>7. ASSUME NEW id \in tasks, Embed(id) PROVE TablesOfRows' BY <1>2, <1>7 DEF Embed
<1>8. ASSUME NEW id \in batch, Backfill(id) PROVE TablesOfRows' BY <1>2, <1>8 DEF Backfill
<1>9. CASE ReadBatch \/ Remember \/ ForgetFacts \/ ForgetEventsFails \/ Confirm
  BY <1>2, <1>9 DEF ReadBatch, Remember, ForgetFacts, ForgetEventsFails, Confirm
<1>10. ASSUME NEW m \in All, DelayElapses(m) \/ ClaimExtraction(m) PROVE TablesOfRows'
  BY <1>2, <1>10 DEF DelayElapses, ClaimExtraction, Elsewhere
<1>11. CASE RecoverExtractions \/ Preempted \/ ExtractionFails
  BY <1>2, <1>11 DEF RecoverExtractions, Preempted, ExtractionFails, Elsewhere
<1>12. CASE FindsNothing \/ FindsEvent \/ StoreFails
  BY <1>2, <1>12 DEF FindsNothing, FindsEvent, StoreFails, Elsewhere
<1>13. CASE MidnightPasses \/ SetBack BY <1>2, <1>13 DEF MidnightPasses, SetBack
<1>14. CASE Restart BY <1>2, <1>14 DEF Restart
<1>15. CASE UNCHANGED memoryVars BY <1>2, <1>15 DEF memoryVars
<1> QED
  BY <1>3, <1>4, <1>5, <1>6, <1>7, <1>8, <1>9, <1>10, <1>11, <1>12, <1>13, <1>14, <1>15
     DEF MemoryNext, Crash, Shutdown

(* Whatever has been recorded, deleted, embedded, extracted and forgotten,  *)
(* what is put before the model is sound: the recent window shows one       *)
(* refusal at most and is filled from further back, the retrieved turns are *)
(* others than those and answer a period from that period, filling the      *)
(* slots, and recall never gives up an event of the period for another.     *)
THEOREM ContextSoundAlways == MemorySpec => []ContextSound
<1>1. MemoryInit => Course /\ Extracted /\ TablesOfRows
  BY CourseInit, ExtractedInit, RowsInit
<1>2. Course /\ Extracted /\ TablesOfRows /\ [MemoryNext]_memoryVars
      => Course' /\ Extracted' /\ TablesOfRows'
  BY CourseStep, ExtractedStep, RowsStep
<1>3. TablesOfRows => ContextSound
  BY TranscriptAssumption, MemoriesAssumption, RecentIsThin, RetrievalIsSound, RecallIsSound
     DEF TablesOfRows, ContextSound
<1> QED BY <1>1, <1>2, <1>3, PTL DEF MemorySpec
=============================================================================
