-------------------------- MODULE BackgroundProofs --------------------------
(***************************************************************************)
(* Proofs about the background work: the gate by which the generators      *)
(* share the model server with the conversation, for any number of turns   *)
(* and of generators; and the bank of reflex lines, for any commands,      *)
(* keys, restarts and builds.                                              *)
(*                                                                         *)
(* Of the gate, Books says who holds it and Awake that no wake-up is lost. *)
(* Beside the types the invariant of the bank says what the generator      *)
(* holds of its row (Held), that the rows only skip what is stored         *)
(* (ResumesWhereItStopped), which triggers have been used (Triggered), and *)
(* that a command that asked before and was not overtaken since finds its  *)
(* persona in force and its bank covered (Commanded), which carries        *)
(* PersonaCovered through a second attempt.                                *)
(***************************************************************************)
EXTENDS ModelGate, ReactionBank, TLAPS

(*                                 The gate                                *)


(* _active names the holder, and a background call belongs to the holder.  *)
Books ==
    /\ \A t \in Turns : Holds(t) => active = "foreground"
    /\ \A t, u \in Turns : Holds(t) /\ Holds(u) => t = u
    /\ \A g \in Generators :
        /\ at[g] # "abandoned"
        /\ at[g] = "inside" => active = "background" /\ owner = g
        /\ call[g] # "none" => at[g] = "inside"

(* While the gate is free no turn is asleep, and a generator sleeps only   *)
(* because a turn is about to take the gate.                               *)
Awake ==
    active = "none" =>
        /\ \A t \in Turns : at[t] # "asleep"
        /\ (\E g \in Generators : at[g] = "asleep") => waiters # {}

GateInv == GateTypeOK /\ Books /\ Yields /\ Awake

LEMMA GateInitial == GateInit => GateInv
BY ModelGateAssumption
   DEF ModelGateAssumption, GateInit, GateInv, GateTypeOK, Books, Yields, Awake, Callers, Places, Calls, Holds, Waits

(* Every step keeps the types.                                             *)
LEMMA GateTypeStep ==
    ASSUME GateTypeOK, [GateNext]_gateVars
    PROVE  GateTypeOK'
<1>0. Turns \cap Generators = {}
  BY ModelGateAssumption DEF ModelGateAssumption
<1> USE <1>0 DEF GateTypeOK, Callers, Places, Calls, Waits, Interrupted, CancelCall, Notified
<1>1. CASE UNCHANGED gateVars
  BY <1>1 DEF gateVars
<1>2. ASSUME NEW t \in Turns, EnterForeground(t)
      PROVE  GateTypeOK'
  BY <1>2 DEF EnterForeground, TakeForeground, Sleep
<1>3. ASSUME NEW t \in Turns, RecheckForeground(t)
      PROVE  GateTypeOK'
  BY <1>3 DEF RecheckForeground, TakeForeground, Sleep
<1>4. ASSUME NEW t \in Turns, AbandonStream(t)
      PROVE  GateTypeOK'
  BY <1>4 DEF AbandonStream
<1>5. ASSUME NEW t \in Turns, LeaveForeground(t)
      PROVE  GateTypeOK'
  BY <1>5 DEF LeaveForeground, Holds
<1>6. ASSUME NEW g \in Generators, EnterBackground(g)
      PROVE  GateTypeOK'
  BY <1>6 DEF EnterBackground, TakeBackground, Sleep
<1>7. ASSUME NEW g \in Generators, CallEnds(g)
      PROVE  GateTypeOK'
  BY <1>7 DEF CallEnds
<1>8. ASSUME NEW g \in Generators, LeaveBackground(g)
      PROVE  GateTypeOK'
  BY <1>8 DEF LeaveBackground
<1>9. ASSUME NEW g \in Generators, StopGenerator(g)
      PROVE  GateTypeOK'
  BY <1>9 DEF StopGenerator
<1>10. CASE WebhookInterrupts
  BY <1>10 DEF WebhookInterrupts
<1>11. CASE CancelTasks
  BY <1>11 DEF CancelTasks
<1> QED
  BY <1>1, <1>2, <1>3, <1>4, <1>5, <1>6, <1>7, <1>8, <1>9, <1>10, <1>11
     DEF GateNext, TurnStep, GeneratorStep

(* An interrupt leaves no background call running, and starts none.        *)
LEMMA Interrupts ==
    ASSUME GateTypeOK, Books
    PROVE  /\ \A g \in Generators : Interrupted[g] # "running"
           /\ \A g \in Generators : Interrupted[g] # "none" <=> call[g] # "none"
BY DEF GateTypeOK, Books, Interrupted, CancelCall, Calls

(* Every step keeps the bookkeeping, the yielding and the wake-ups.        *)
LEMMA GateStep ==
    ASSUME GateInv, [GateNext]_gateVars
    PROVE  GateInv'
<1>1. GateTypeOK'
  BY GateTypeStep DEF GateInv
<1>2. GateTypeOK /\ Books /\ Yields /\ Awake
  BY DEF GateInv
<1>3. Turns \cap Generators = {}
  BY ModelGateAssumption DEF ModelGateAssumption
<1> USE <1>1, <1>2, <1>3 DEF GateTypeOK, Callers, Waits, Holds
<1>4. CASE UNCHANGED gateVars
  BY <1>4 DEF gateVars, GateInv, Books, Yields, Awake
<1>5. ASSUME NEW t \in Turns, EnterForeground(t)
      PROVE  GateInv'
  <2>1. Books'
    BY <1>5, Interrupts DEF EnterForeground, TakeForeground, Sleep, Books, Free
  <2>2. Yields'
    BY <1>5, Interrupts DEF EnterForeground, TakeForeground, Sleep, Books, Free, Yields
  <2>3. Awake'
    BY <1>5, Interrupts DEF EnterForeground, TakeForeground, Sleep, Books, Free, Awake
  <2> QED
    BY <2>1, <2>2, <2>3 DEF GateInv
<1>6. ASSUME NEW t \in Turns, RecheckForeground(t)
      PROVE  GateInv'
  <2>1. Books'
    BY <1>6 DEF RecheckForeground, TakeForeground, Sleep, Books, Free
  <2>2. Yields'
    BY <1>6 DEF RecheckForeground, TakeForeground, Sleep, Books, Free, Yields
  <2>3. Awake'
    BY <1>6 DEF RecheckForeground, TakeForeground, Sleep, Books, Free, Awake
  <2> QED
    BY <2>1, <2>2, <2>3 DEF GateInv
<1>7. ASSUME NEW t \in Turns, AbandonStream(t)
      PROVE  GateInv'
  <2>1. Books'
    BY <1>7 DEF AbandonStream, Books, Free
  <2>2. Yields'
    BY <1>7 DEF AbandonStream, Books, Free, Yields
  <2>3. Awake'
    BY <1>7 DEF AbandonStream, Books, Free, Awake
  <2> QED
    BY <2>1, <2>2, <2>3 DEF GateInv
<1>8. ASSUME NEW t \in Turns, LeaveForeground(t)
      PROVE  GateInv'
  <2>1. Books'
    BY <1>8 DEF LeaveForeground, Notified, Books, Free
  <2>2. Yields'
    BY <1>8 DEF LeaveForeground, Notified, Books, Free, Yields
  <2>3. Awake'
    BY <1>8 DEF LeaveForeground, Notified, Books, Free, Awake
  <2> QED
    BY <2>1, <2>2, <2>3 DEF GateInv
<1>9. ASSUME NEW g \in Generators, EnterBackground(g)
      PROVE  GateInv'
  <2>1. Books'
    BY <1>9 DEF EnterBackground, TakeBackground, Sleep, Books, Free
  <2>2. Yields'
    BY <1>9 DEF EnterBackground, TakeBackground, Sleep, Books, Free, Yields
  <2>3. Awake'
    BY <1>9 DEF EnterBackground, TakeBackground, Sleep, Books, Free, Awake
  <2> QED
    BY <2>1, <2>2, <2>3 DEF GateInv
<1>10. ASSUME NEW g \in Generators, CallEnds(g)
      PROVE  GateInv'
  <2>1. Books'
    BY <1>10 DEF CallEnds, InBackend, Books, Free
  <2>2. Yields'
    BY <1>10 DEF CallEnds, InBackend, Books, Free, Yields
  <2>3. Awake'
    BY <1>10 DEF CallEnds, InBackend, Books, Free, Awake
  <2> QED
    BY <2>1, <2>2, <2>3 DEF GateInv
<1>11. ASSUME NEW g \in Generators, LeaveBackground(g)
      PROVE  GateInv'
  <2>1. Books'
    BY <1>11 DEF LeaveBackground, Notified, Books, Free
  <2>2. Yields'
    BY <1>11 DEF LeaveBackground, Notified, Books, Free, Yields
  <2>3. Awake'
    BY <1>11 DEF LeaveBackground, Notified, Books, Free, Awake
  <2> QED
    BY <2>1, <2>2, <2>3 DEF GateInv
<1>12. ASSUME NEW g \in Generators, StopGenerator(g)
      PROVE  GateInv'
  <2>1. Books'
    BY <1>12, Interrupts DEF StopGenerator, Books, Free
  <2>2. Yields'
    BY <1>12, Interrupts DEF StopGenerator, Books, Free, Yields
  <2>3. Awake'
    BY <1>12, Interrupts DEF StopGenerator, Books, Free, Awake
  <2> QED
    BY <2>1, <2>2, <2>3 DEF GateInv
<1>13. ASSUME WebhookInterrupts
      PROVE  GateInv'
  <2>1. Books'
    BY <1>13, Interrupts DEF WebhookInterrupts, Books, Free
  <2>2. Yields'
    BY <1>13, Interrupts DEF WebhookInterrupts, Books, Free, Yields
  <2>3. Awake'
    BY <1>13, Interrupts DEF WebhookInterrupts, Books, Free, Awake
  <2> QED
    BY <2>1, <2>2, <2>3 DEF GateInv
<1>14. ASSUME CancelTasks
      PROVE  GateInv'
  <2>1. Books'
    BY <1>14, Interrupts DEF CancelTasks, Books, Free
  <2>2. Yields'
    BY <1>14, Interrupts DEF CancelTasks, Books, Free, Yields
  <2>3. Awake'
    BY <1>14, Interrupts DEF CancelTasks, Books, Free, Awake
  <2> QED
    BY <2>1, <2>2, <2>3 DEF GateInv
<1> QED
  BY <1>4, <1>5, <1>6, <1>7, <1>8, <1>9, <1>10, <1>11, <1>12, <1>13, <1>14
     DEF GateNext, TurnStep, GeneratorStep

THEOREM GateInvariant == GateSpec => []GateInv
BY GateInitial, GateStep, PTL DEF GateSpec

(* The gate's state has its types.                                         *)
THEOREM GateTyping == GateSpec => []GateTypeOK
<1>1. GateInv => GateTypeOK
  BY DEF GateInv
<1> QED
  BY <1>1, GateInvariant, PTL

(* At most one request is open at the model server.                        *)
THEOREM OneCallAtATime == GateSpec => []OneCall
<1>1. GateInv => OneCall
  BY ModelGateAssumption
     DEF ModelGateAssumption, GateInv, GateTypeOK, Books, OneCall, Busy, InBackend
<1> QED
  BY <1>1, GateInvariant, PTL

(* The worker never waits for a generator's answer.                        *)
THEOREM Yielding == GateSpec => []Yields
<1>1. GateInv => Yields
  BY DEF GateInv
<1> QED
  BY <1>1, GateInvariant, PTL

(* No wake-up of a caller of the gate is lost.                             *)
THEOREM WakeupsKept == GateSpec => []NoLostWakeup
<1>1. GateInv => NoLostWakeup
  BY DEF GateInv, GateTypeOK, Books, Awake, NoLostWakeup, Callers, Waits
<1> QED
  BY <1>1, GateInvariant, PTL
-----------------------------------------------------------------------------
(*                                 The bank                                *)


Hashes == Personas \X (0..MaxRecipe)

BankTypeOK ==
    /\ persona \in Personas /\ recipe \in 0..MaxRecipe
    /\ jobs \in Seq(Jobs)
    /\ up \in {"down", "starting", "running"}
    /\ commands \in [Dates -> {"absent", "pending", "settled"}]
    /\ tries \in [Dates -> Nat]
    /\ turn \in Dates \cup {0}
    /\ stage \in {"waiting", "set", "asked"}
    /\ stage # "waiting" => up = "running" /\ turn \in Dates /\ commands[turn] = "pending"
    /\ overtaken \subseteq Dates
    /\ restarts \in Starts
    /\ generator \in [at: {"off", "idle", "keys", "publish"}, job: Nat,
                      done: SUBSET Keys, key: Keys \cup {"none"}]

(* The generator works on a row of the table; while nobody superseded it,   *)
(* its memory and the row agree on the keys that are done.                  *)
Held ==
    generator.at \in {"keys", "publish"} =>
        /\ generator.job \in DOMAIN jobs
        /\ jobs[generator.job].status = "processing" =>
               jobs[generator.job].done = generator.done
        /\ generator.at = "publish" => generator.key \in Keys

(* Only commands that came, and starts so far, have asked for a refresh.    *)
Triggered ==
    /\ \A c \in Dates : Asked(<<"command", c>>) => commands[c] # "absent"
    /\ \A t \in Starts : Asked(<<"startup", t>>) =>
           t < restarts \/ (t = restarts /\ up = "running")

Covered ==
    \/ Complete(Hash)
    \/ \E i \in DOMAIN jobs : IsActive(i) /\ jobs[i].hash = Hash

(* A command under way has set its persona.  One that asked in an earlier   *)
(* attempt, and that no other command overtook, is still the last that was  *)
(* attempted: its persona is in force, and the bank was covered before it   *)
(* began anew.                                                              *)
Commanded ==
    /\ stage = "set" => persona = Commands[turn]
    /\ \A c \in Dates \ overtaken :
           commands[c] = "pending" /\ Asked(<<"command", c>>) =>
               /\ persona = Commands[c] /\ turn \in {0, c}
               /\ stage = "set" => Covered

IInv ==
    /\ BankTypeOK /\ Held /\ Triggered /\ Commanded
    /\ ResumesWhereItStopped /\ PersonaCovered

-----------------------------------------------------------------------------
(*                       What the rows may become                           *)

LEMMA InitIInv == BankInit => IInv
<1> SUFFICES ASSUME BankInit PROVE IInv
    OBVIOUS
<1> USE ReactionBankAssumption DEF BankInit, Resting
<1>1. BankTypeOK
    <2>1. Len(Commands) \in Nat OBVIOUS
    <2> QED BY <2>1 DEF BankTypeOK, Starts, Dates
<1>2. Held BY DEF Held
<1>3. DOMAIN jobs = {} OBVIOUS
<1> QED BY <1>1, <1>2, <1>3 DEF IInv, Triggered, Commanded, Asked,
           ResumesWhereItStopped, PersonaCovered

(* A refresh either finds its hash or its trigger already, and leaves the   *)
(* rows alone, or appends a row of its own and supersedes the active ones.  *)
LEMMA AskLeaves ==
    ASSUME BankTypeOK, NEW trigger \in Triggers, AskRefresh(trigger)
    PROVE  /\ jobs' \in Seq(Jobs)
           /\ \/ /\ jobs' = jobs
                 /\ \E i \in DOMAIN jobs : SameWanted(i) \/ jobs[i].trigger = trigger
              \/ /\ Len(jobs') = Len(jobs) + 1
                 /\ \A i \in DOMAIN jobs :
                       /\ i \in DOMAIN jobs'
                       /\ jobs'[i].trigger = jobs[i].trigger
                       /\ jobs'[i].hash = jobs[i].hash
                       /\ jobs'[i].done = jobs[i].done
                       /\ jobs'[i].status =
                             IF IsActive(i) THEN "superseded" ELSE jobs[i].status
                 /\ jobs'[Len(jobs) + 1] =
                       [trigger |-> trigger, hash |-> Hash, done |-> {},
                        status |-> "pending", delayed |-> FALSE]
<1> DEFINE new == [trigger |-> trigger, hash |-> Hash, done |-> {},
                   status |-> "pending", delayed |-> FALSE]
           old == [i \in DOMAIN jobs |->
                     IF IsActive(i) THEN [jobs[i] EXCEPT !.status = "superseded"]
                                    ELSE jobs[i]]
<1>1. new \in Jobs
    BY DEF BankTypeOK, Jobs, Hash, Active
<1>2. \A i \in DOMAIN jobs : jobs[i] \in Jobs
    BY DEF BankTypeOK
<1>3. \A i \in DOMAIN jobs : [jobs[i] EXCEPT !.status = "superseded"] \in Jobs
    BY <1>2 DEF Jobs
<1>4. old \in Seq(Jobs) /\ Len(old) = Len(jobs) /\ DOMAIN old = DOMAIN jobs
    <2>1. \A i \in DOMAIN jobs : old[i] \in Jobs BY <1>2, <1>3
    <2>2. DOMAIN jobs = 1..Len(jobs) /\ Len(jobs) \in Nat BY DEF BankTypeOK
    <2> HIDE DEF old
    <2>3. DOMAIN old = DOMAIN jobs BY DEF old
    <2> QED BY <2>1, <2>2, <2>3 DEF old
<1>5. CASE \E i \in DOMAIN jobs : SameWanted(i) \/ jobs[i].trigger = trigger
    BY <1>5 DEF AskRefresh, BankTypeOK
<1>6. CASE ~ \E i \in DOMAIN jobs : SameWanted(i) \/ jobs[i].trigger = trigger
    <2>1. jobs' = Append(old, new) BY <1>6 DEF AskRefresh
    <2>2. \A i \in DOMAIN jobs :
             /\ old[i].trigger = jobs[i].trigger
             /\ old[i].hash = jobs[i].hash
             /\ old[i].done = jobs[i].done
             /\ old[i].status = IF IsActive(i) THEN "superseded" ELSE jobs[i].status
        BY <1>2 DEF Jobs
    <2> HIDE DEF old, new
    <2>3. /\ jobs' \in Seq(Jobs) /\ Len(jobs') = Len(jobs) + 1
          /\ jobs'[Len(jobs) + 1] = new
          /\ \A i \in DOMAIN jobs : i \in DOMAIN jobs' /\ jobs'[i] = old[i]
        BY <1>1, <1>4, <2>1 DEF BankTypeOK
    <2> QED BY <2>2, <2>3 DEF new
<1> QED BY <1>5, <1>6

(* A change of one row that is a row again leaves a table.                  *)
LEMMA RowType ==
    ASSUME BankTypeOK, NEW i \in DOMAIN jobs, NEW row \in Jobs,
           jobs' = [jobs EXCEPT ![i] = row]
    PROVE  /\ jobs' \in Seq(Jobs)
           /\ DOMAIN jobs' = DOMAIN jobs
           /\ jobs'[i] = row
           /\ \A j \in DOMAIN jobs : j # i => jobs'[j] = jobs[j]
BY DEF BankTypeOK

BankStep ==
    \/ Recover
    \/ \E i \in DOMAIN jobs : DelayElapses(i) \/ Claim(i)
    \/ \E k \in Keys : Generate(k)
    \/ HandBack \/ Publish \/ CompleteJob

(* The generator keeps every row under its trigger and its hash.  It ends a *)
(* row only when every key is done, and marks a key with its phrases.       *)
RowsKept ==
    /\ jobs' \in Seq(Jobs) /\ DOMAIN jobs' = DOMAIN jobs
    /\ bank \subseteq bank'
    /\ \A i \in DOMAIN jobs :
          /\ jobs'[i].trigger = jobs[i].trigger
          /\ jobs'[i].hash = jobs[i].hash
          /\ \/ jobs'[i].done = jobs[i].done
             \/ \E k \in Keys : /\ jobs'[i].done = jobs[i].done \cup {k}
                               /\ <<jobs[i].hash, k>> \in bank'
          /\ \/ jobs'[i].status = jobs[i].status
             \/ {jobs[i].status, jobs'[i].status} \subseteq Active
             \/ jobs'[i].status = "completed" /\ jobs[i].done = Keys

LEMMA GeneratorKeepsRows ==
    ASSUME BankTypeOK, Held, BankStep \/ Shutdown
    PROVE  RowsKept
<1>0. \A i \in DOMAIN jobs : jobs[i] \in Jobs
    BY DEF BankTypeOK
<1>1. CASE Recover
    <2> DEFINE row(i) == IF jobs[i].status = "processing"
                         THEN [jobs[i] EXCEPT !.status = "pending", !.delayed = FALSE]
                         ELSE jobs[i]
    <2>1. jobs' = [i \in DOMAIN jobs |-> row(i)] BY <1>1 DEF Recover
    <2>2. \A i \in DOMAIN jobs :
             /\ row(i) \in Jobs
             /\ row(i).trigger = jobs[i].trigger /\ row(i).hash = jobs[i].hash
             /\ row(i).done = jobs[i].done
             /\ \/ row(i).status = jobs[i].status
                \/ {jobs[i].status, row(i).status} \subseteq Active
        BY <1>0 DEF Jobs, Active
    <2> HIDE DEF row
    <2>3. jobs' \in Seq(Jobs) /\ DOMAIN jobs' = DOMAIN jobs
        <3>1. DOMAIN jobs = 1..Len(jobs) /\ Len(jobs) \in Nat BY DEF BankTypeOK
        <3> QED BY <2>1, <2>2, <3>1
    <2>4. \A i \in DOMAIN jobs : jobs'[i] = row(i) BY <2>1
    <2> QED BY <1>1, <2>2, <2>3, <2>4 DEF RowsKept, Recover
<1>2. ASSUME NEW i \in DOMAIN jobs, DelayElapses(i) PROVE RowsKept
    <2> DEFINE row == [jobs[i] EXCEPT !.delayed = FALSE]
    <2>1. row \in Jobs /\ row.trigger = jobs[i].trigger /\ row.hash = jobs[i].hash
          /\ row.done = jobs[i].done /\ row.status = jobs[i].status
        BY <1>0 DEF Jobs
    <2>2. jobs' = [jobs EXCEPT ![i] = row] /\ bank' = bank
        BY <1>2 DEF DelayElapses, Write
    <2> HIDE DEF row
    <2> QED BY <2>1, <2>2, RowType DEF RowsKept
<1>3. ASSUME NEW i \in DOMAIN jobs, Claim(i) PROVE RowsKept
    <2> DEFINE row == [jobs[i] EXCEPT !.status = "processing"]
    <2>1. row \in Jobs /\ row.trigger = jobs[i].trigger /\ row.hash = jobs[i].hash
          /\ row.done = jobs[i].done /\ {jobs[i].status, row.status} \subseteq Active
        BY <1>0, <1>3 DEF Jobs, Active, Claim
    <2>2. jobs' = [jobs EXCEPT ![i] = row] /\ bank' = bank
        BY <1>3 DEF Claim, Write
    <2> HIDE DEF row
    <2> QED BY <2>1, <2>2, RowType DEF RowsKept
<1>4. ASSUME NEW k \in Keys, Generate(k) PROVE RowsKept
    BY <1>4 DEF Generate, RowsKept, BankTypeOK
<1>5. CASE HandBack
    <2> DEFINE i == generator.job
               row == [jobs[i] EXCEPT !.status = "pending", !.delayed = TRUE]
    <2>0. i \in DOMAIN jobs BY <1>5 DEF HandBack, Held
    <2>1. CASE jobs[i].status = "processing"
        <3>1. row \in Jobs /\ row.trigger = jobs[i].trigger /\ row.hash = jobs[i].hash
              /\ row.done = jobs[i].done /\ {jobs[i].status, row.status} \subseteq Active
            BY <1>0, <2>0, <2>1 DEF Jobs, Active
        <3>2. jobs' = [jobs EXCEPT ![i] = row] /\ bank' = bank
            BY <1>5, <2>1, Zenon DEF HandBack
        <3> HIDE DEF row, i
        <3> QED BY <2>0, <3>1, <3>2, RowType DEF RowsKept
    <2>2. CASE jobs[i].status # "processing"
        BY <1>5, <2>2 DEF HandBack, RowsKept, BankTypeOK
    <2> QED BY <2>1, <2>2
<1>6. CASE Publish
    <2> DEFINE i == generator.job
               row == [jobs[i] EXCEPT !.done = @ \cup {generator.key}]
    <2>0. i \in DOMAIN jobs /\ generator.key \in Keys BY <1>6 DEF Publish, Held
    <2>1. CASE jobs[i].status = "processing"
        <3>1. row \in Jobs /\ row.trigger = jobs[i].trigger /\ row.hash = jobs[i].hash
              /\ row.done = jobs[i].done \cup {generator.key}
              /\ row.status = jobs[i].status
            BY <1>0, <2>0, <2>1 DEF Jobs
        <3>2. /\ jobs' = [jobs EXCEPT ![i] = row]
              /\ bank' = bank \cup {<<jobs[i].hash, generator.key>>}
            BY <1>6, <2>1 DEF Publish, Write
        <3> HIDE DEF row, i
        <3> QED BY <2>0, <3>1, <3>2, RowType DEF RowsKept
    <2>2. CASE jobs[i].status # "processing"
        BY <1>6, <2>2 DEF Publish, RowsKept, BankTypeOK
    <2> QED BY <2>1, <2>2
<1>7. CASE CompleteJob
    <2> DEFINE i == generator.job
               row == [jobs[i] EXCEPT !.status = "completed"]
    <2>0. i \in DOMAIN jobs BY <1>7 DEF CompleteJob, Held
    <2>1. CASE jobs[i].status = "processing"
        <3>1. row \in Jobs /\ row.trigger = jobs[i].trigger /\ row.hash = jobs[i].hash
              /\ row.done = jobs[i].done /\ row.status = "completed"
            BY <1>0, <2>0 DEF Jobs
        <3>2. jobs' = [jobs EXCEPT ![i] = row] /\ bank' = bank
            BY <1>7, <2>1, Zenon DEF CompleteJob
        <3>3. jobs[i].done = Keys
            BY <1>7, <2>1 DEF CompleteJob, Held
        <3> HIDE DEF row, i
        <3> QED BY <2>0, <3>1, <3>2, <3>3, RowType DEF RowsKept
    <2>2. CASE jobs[i].status # "processing"
        BY <1>7, <2>2 DEF CompleteJob, RowsKept, BankTypeOK
    <2> QED BY <2>1, <2>2
<1>8. CASE Shutdown
    <2> DEFINE i == generator.job
               row == [jobs[i] EXCEPT !.status = "pending", !.delayed = FALSE]
    <2>0. i \in DOMAIN jobs /\ jobs[i].status = "processing"
        BY <1>8 DEF Shutdown, Held
    <2>1. row \in Jobs /\ row.trigger = jobs[i].trigger /\ row.hash = jobs[i].hash
          /\ row.done = jobs[i].done /\ {jobs[i].status, row.status} \subseteq Active
        BY <1>0, <2>0 DEF Jobs, Active
    <2>2. jobs' = [jobs EXCEPT ![i] = row] BY <1>8, Zenon DEF Shutdown, Write
    <2>3. bank' = bank BY <1>8 DEF Shutdown, Halt
    <2> HIDE DEF row, i
    <2>4. /\ jobs' \in Seq(Jobs) /\ DOMAIN jobs' = DOMAIN jobs /\ jobs'[i] = row
          /\ \A j \in DOMAIN jobs : j # i => jobs'[j] = jobs[j]
        BY <2>0, <2>1, <2>2, RowType
    <2> QED BY <2>0, <2>1, <2>3, <2>4 DEF RowsKept
<1> QED BY <1>1, <1>2, <1>3, <1>4, <1>5, <1>6, <1>7, <1>8 DEF BankStep

-----------------------------------------------------------------------------
(*                              The types                                   *)

LEMMA TriggersOfUse ==
    ASSUME BankTypeOK
    PROVE  /\ stage = "set" => <<"command", turn>> \in Triggers
           /\ <<"startup", restarts>> \in Triggers
<1>1. stage = "set" => turn \in Dates
    BY DEF BankTypeOK
<1>2. restarts \in Starts BY DEF BankTypeOK
<1> QED BY <1>1, <1>2 DEF Triggers

LEMMA TypeStep ==
    ASSUME BankTypeOK, Held, [BankNext]_bankVars
    PROVE  BankTypeOK'
<1> USE DEF BankTypeOK, worker, bounds
<1>0. \A c \in Dates : Commands[c] \in Personas
    BY ReactionBankAssumption DEF Dates
<1>1. ASSUME NEW c \in Dates, Arrive(c) PROVE BankTypeOK'
    BY <1>1 DEF Arrive
<1>2. ASSUME NEW c \in Dates, SetPersona(c) PROVE BankTypeOK'
    BY <1>0, <1>2 DEF SetPersona
<1>3. CASE CommandAsks \/ Reply
    <2>1. CASE CommandAsks
        BY <2>1, AskLeaves, TriggersOfUse DEF CommandAsks
    <2>2. CASE Reply BY <2>2 DEF Reply
    <2> QED BY <1>3, <2>1, <2>2
<1>4. CASE BankStep
    <2>1. jobs' \in Seq(Jobs) BY <1>4, GeneratorKeepsRows DEF RowsKept
    <2>2. UNCHANGED <<persona, recipe, up, worker, restarts>>
        BY <1>4 DEF BankStep, Recover, DelayElapses, Claim, Generate, HandBack,
                    Publish, CompleteJob
    <2>3. generator' \in [at: {"off", "idle", "keys", "publish"}, job: Nat,
                          done: SUBSET Keys, key: Keys \cup {"none"}]
        <3>1. CASE Recover BY <3>1 DEF Recover, Resting
        <3>2. ASSUME NEW i \in DOMAIN jobs, DelayElapses(i) \/ Claim(i)
              PROVE  generator' \in [at: {"off", "idle", "keys", "publish"}, job: Nat,
                                     done: SUBSET Keys, key: Keys \cup {"none"}]
            <4>1. jobs[i] \in Jobs /\ i \in Nat OBVIOUS
            <4>2. jobs[i].done \in SUBSET Keys BY <4>1 DEF Jobs
            <4> QED BY <3>2, <4>1, <4>2 DEF DelayElapses, Claim
        <3>3. ASSUME NEW k \in Keys, Generate(k)
              PROVE  generator' \in [at: {"off", "idle", "keys", "publish"}, job: Nat,
                                     done: SUBSET Keys, key: Keys \cup {"none"}]
            BY <3>3 DEF Generate
        <3>4. CASE HandBack \/ CompleteJob
            BY <3>4 DEF HandBack, CompleteJob, Idle, Resting
        <3>5. CASE Publish
            <4>1. generator.key \in Keys BY <3>5 DEF Publish, Held
            <4>2. CASE Idle BY <4>2 DEF Idle, Resting
            <4>3. CASE generator' = [generator EXCEPT !.at = "keys", !.key = "none",
                                        !.done = @ \cup {generator.key}]
                BY <4>1, <4>3
            <4> QED BY <3>5, <4>2, <4>3 DEF Publish
        <3> QED BY <1>4, <3>1, <3>2, <3>3, <3>4, <3>5 DEF BankStep
    <2> QED BY <2>1, <2>2, <2>3
<1>5. CASE Start BY <1>5 DEF Start
<1>6. CASE StartupAsks
    BY <1>6, AskLeaves, TriggersOfUse DEF StartupAsks
<1>7. CASE Crash
    BY <1>7, ReactionBankAssumption DEF Crash, Halt, Starts, Resting
<1>8. CASE Shutdown
    <2>1. jobs' \in Seq(Jobs) BY <1>8, GeneratorKeepsRows DEF RowsKept
    <2> QED BY <1>8, <2>1, ReactionBankAssumption DEF Shutdown, Halt, Starts, Resting
<1>9. CASE UNCHANGED bankVars BY <1>9 DEF bankVars
<1> QED BY <1>1, <1>2, <1>3, <1>4, <1>5, <1>6, <1>7, <1>8, <1>9
        DEF BankNext, BankStep

-----------------------------------------------------------------------------
(*                    What the rows and the generator say                   *)

(* A refresh supersedes a row but never alters what it says is done.        *)
LEMMA ResumesStep ==
    ASSUME BankTypeOK, Held, ResumesWhereItStopped, [BankNext]_bankVars
    PROVE  ResumesWhereItStopped'
<1> USE DEF ResumesWhereItStopped, Complete
<1>1. ASSUME RowsKept PROVE ResumesWhereItStopped'
    <2> SUFFICES ASSUME NEW i \in DOMAIN jobs
                 PROVE  /\ \A k \in jobs'[i].done : <<jobs'[i].hash, k>> \in bank'
                        /\ jobs'[i].status = "completed" =>
                               \A k \in Keys : <<jobs'[i].hash, k>> \in bank'
        BY <1>1 DEF RowsKept
    <2>1. \A k \in jobs[i].done : <<jobs[i].hash, k>> \in bank'
        BY <1>1 DEF RowsKept
    <2>2. \A k \in jobs'[i].done : <<jobs'[i].hash, k>> \in bank'
        BY <1>1, <2>1 DEF RowsKept
    <2>3. ASSUME jobs'[i].status = "completed", NEW k \in Keys
          PROVE  <<jobs'[i].hash, k>> \in bank'
        <3>1. jobs[i].status = "completed" \/ jobs[i].done = Keys
            BY <1>1, <2>3 DEF RowsKept, Active
        <3> QED BY <1>1, <2>1, <3>1 DEF RowsKept
    <2> QED BY <2>2, <2>3
<1>2. ASSUME NEW t \in Triggers, AskRefresh(t), bank' = bank
      PROVE  ResumesWhereItStopped'
    <2>1. CASE jobs' = jobs BY <1>2, <2>1
    <2>2. CASE jobs' # jobs
        <3>1. /\ Len(jobs') = Len(jobs) + 1 /\ jobs' \in Seq(Jobs)
              /\ \A i \in DOMAIN jobs :
                    /\ jobs'[i].hash = jobs[i].hash
                    /\ jobs'[i].done = jobs[i].done
                    /\ jobs'[i].status \in {"superseded", jobs[i].status}
              /\ jobs'[Len(jobs) + 1] =
                    [trigger |-> t, hash |-> Hash, done |-> {},
                     status |-> "pending", delayed |-> FALSE]
            BY <1>2, <2>2, AskLeaves
        <3>2. \A i \in DOMAIN jobs' : i \in DOMAIN jobs \/ i = Len(jobs) + 1
            BY <3>1 DEF BankTypeOK
        <3> QED BY <1>2, <3>1, <3>2
    <2> QED BY <2>1, <2>2
<1>3. ASSUME NEW c \in Dates, Arrive(c) \/ SetPersona(c) PROVE ResumesWhereItStopped'
    BY <1>3 DEF Arrive, SetPersona
<1>4. CASE CommandAsks BY <1>2, <1>4, TriggersOfUse DEF CommandAsks
<1>5. CASE Reply BY <1>5 DEF Reply
<1>6. CASE BankStep \/ Shutdown BY <1>1, <1>6, GeneratorKeepsRows
<1>7. CASE Start BY <1>7 DEF Start
<1>8. CASE StartupAsks BY <1>2, <1>8, TriggersOfUse DEF StartupAsks
<1>9. CASE Crash BY <1>9 DEF Crash, Halt
<1>10. CASE UNCHANGED bankVars BY <1>10 DEF bankVars
<1> QED BY <1>3, <1>4, <1>5, <1>6, <1>7, <1>8, <1>9, <1>10
        DEF BankNext, BankStep

LEMMA HeldStep ==
    ASSUME BankTypeOK, Held, [BankNext]_bankVars
    PROVE  Held'
<1>1. ASSUME NEW t \in Triggers, AskRefresh(t), generator' = generator
      PROVE  Held'
    <2>1. CASE jobs' = jobs BY <1>1, <2>1 DEF Held
    <2>2. CASE jobs' # jobs
        <3>1. \A i \in DOMAIN jobs :
                /\ i \in DOMAIN jobs'
                /\ jobs'[i].status # "processing"
            BY <1>1, <2>2, AskLeaves DEF IsActive, Active
        <3> QED BY <1>1, <3>1 DEF Held
    <2> QED BY <2>1, <2>2
<1>2. ASSUME NEW c \in Dates, Arrive(c) \/ SetPersona(c) PROVE Held'
    BY <1>2 DEF Arrive, SetPersona, Held
<1>3. CASE CommandAsks BY <1>1, <1>3, TriggersOfUse DEF CommandAsks
<1>4. CASE StartupAsks BY <1>1, <1>4, TriggersOfUse DEF StartupAsks
<1>5. CASE Recover \/ HandBack \/ CompleteJob
    BY <1>5 DEF Recover, HandBack, CompleteJob, Idle, Resting, Held
<1>6. ASSUME NEW i \in DOMAIN jobs, DelayElapses(i) PROVE Held'
    <2>1. jobs[i] \in Jobs BY DEF BankTypeOK
    <2>2. [jobs[i] EXCEPT !.delayed = FALSE].status = jobs[i].status
          /\ [jobs[i] EXCEPT !.delayed = FALSE].done = jobs[i].done
        BY <2>1 DEF Jobs
    <2> QED BY <1>6, <2>2 DEF DelayElapses, Write, Held, BankTypeOK
<1>7. ASSUME NEW i \in DOMAIN jobs, Claim(i) PROVE Held'
    <2>1. jobs[i] \in Jobs BY DEF BankTypeOK
    <2>2. [jobs[i] EXCEPT !.status = "processing"].done = jobs[i].done
        BY <2>1 DEF Jobs
    <2> QED BY <1>7, <2>2 DEF Claim, Write, Held, BankTypeOK
<1>8. ASSUME NEW k \in Keys, Generate(k) PROVE Held'
    BY <1>8 DEF Generate, Held, BankTypeOK
<1>9. CASE Publish
    <2> DEFINE i == generator.job
    <2>1. i \in DOMAIN jobs /\ jobs[i] \in Jobs
        BY <1>9 DEF Publish, Held, BankTypeOK
    <2>2. CASE Idle BY <2>2 DEF Idle, Resting, Held
    <2>3. CASE jobs[i].status = "processing"
        <3> DEFINE row == [jobs[i] EXCEPT !.done = @ \cup {generator.key}]
        <3>0. generator.key \in Keys BY <1>9 DEF Publish, Held
        <3>1. row \in Jobs /\ row.done = jobs[i].done \cup {generator.key}
            BY <2>1, <3>0 DEF Jobs
        <3>2. /\ jobs' = [jobs EXCEPT ![i] = row]
              /\ generator' = [generator EXCEPT !.at = "keys", !.key = "none",
                                                !.done = @ \cup {generator.key}]
            BY <1>9, <2>3 DEF Publish, Write
        <3>3. /\ generator'.at = "keys" /\ generator'.job = i
              /\ generator'.done = generator.done \cup {generator.key}
            BY <3>2 DEF BankTypeOK
        <3>4. i \in DOMAIN jobs' /\ jobs'[i].done = jobs[i].done \cup {generator.key}
            <4> HIDE DEF row, i
            <4> QED BY <2>1, <3>1, <3>2, RowType
        <3>5. jobs[i].done = generator.done
            BY <1>9, <2>3 DEF Publish, Held
        <3> QED BY <3>3, <3>4, <3>5 DEF Held
    <2> QED BY <1>9, <2>2, <2>3 DEF Publish
<1>10. CASE Crash \/ Shutdown BY <1>10 DEF Crash, Shutdown, Halt, Resting, Held
<1>11. CASE Reply \/ Start
    <2>1. UNCHANGED <<jobs, generator>>
        BY <1>11 DEF Reply, Start
    <2> QED BY <2>1 DEF Held
<1>12. CASE UNCHANGED bankVars BY <1>12 DEF bankVars, Held
<1> QED BY <1>2, <1>3, <1>4, <1>5, <1>6, <1>7, <1>8, <1>9, <1>10, <1>11, <1>12
        DEF BankNext

-----------------------------------------------------------------------------
(*                     What a refresh and a job cover                       *)

(* A job only ends with its whole bank stored.                              *)
LEMMA CoveredStays ==
    ASSUME ResumesWhereItStopped, RowsKept, UNCHANGED <<persona, recipe>>, Covered
    PROVE  Covered'
<1>1. CASE Complete(Hash)
    BY <1>1 DEF RowsKept, Covered, Complete, Hash
<1>2. ASSUME NEW i \in DOMAIN jobs, IsActive(i), jobs[i].hash = Hash
      PROVE  Covered'
    <2>1. i \in DOMAIN jobs' /\ jobs'[i].hash = Hash' BY <1>2 DEF RowsKept, Hash
    <2>2. CASE jobs'[i].status \in Active
        BY <2>1, <2>2 DEF Covered, IsActive
    <2>3. CASE jobs[i].done = Keys
        <3>1. \A k \in Keys : <<jobs[i].hash, k>> \in bank
            BY <2>3 DEF ResumesWhereItStopped
        <3> QED BY <1>2, <3>1 DEF RowsKept, Covered, Complete, Hash
    <2> QED BY <1>2, <2>2, <2>3 DEF RowsKept, IsActive
<1> QED BY <1>1, <1>2 DEF Covered

(* A refresh covers its hash, unless its trigger was used for another.      *)
LEMMA AskCovers ==
    ASSUME BankTypeOK, NEW t \in Triggers, AskRefresh(t),
           Asked(t) => Covered, UNCHANGED <<persona, recipe, bank>>
    PROVE  Covered'
<1>1. CASE jobs' = jobs /\ \E i \in DOMAIN jobs : SameWanted(i) \/ jobs[i].trigger = t
    <2>1. Covered BY <1>1 DEF SameWanted, Asked, Covered
    <2> QED BY <1>1, <2>1 DEF Covered, Complete, Hash, IsActive
<1>2. CASE /\ Len(jobs') = Len(jobs) + 1
           /\ jobs'[Len(jobs) + 1] =
                    [trigger |-> t, hash |-> Hash, done |-> {},
                     status |-> "pending", delayed |-> FALSE]
    <2>1. Len(jobs) + 1 \in DOMAIN jobs'
        <3>1. jobs' \in Seq(Jobs) BY AskLeaves
        <3> QED BY <1>2, <3>1 DEF BankTypeOK
    <2>2. jobs'[Len(jobs) + 1].status \in Active /\ jobs'[Len(jobs) + 1].hash = Hash'
        BY <1>2 DEF Active, Hash
    <2> QED BY <2>1, <2>2 DEF Covered, IsActive
<1> QED BY <1>1, <1>2, AskLeaves

LEMMA AskAsks ==
    ASSUME BankTypeOK, NEW t \in Triggers, AskRefresh(t), NEW u, Asked(u)'
    PROVE  Asked(u) \/ u = t
<1>1. CASE jobs' = jobs BY <1>1 DEF Asked
<1>2. CASE jobs' # jobs
    <2>1. /\ Len(jobs') = Len(jobs) + 1 /\ jobs' \in Seq(Jobs)
          /\ \A i \in DOMAIN jobs : jobs'[i].trigger = jobs[i].trigger
          /\ jobs'[Len(jobs) + 1] =
                [trigger |-> t, hash |-> Hash, done |-> {},
                 status |-> "pending", delayed |-> FALSE]
        BY <1>2, AskLeaves
    <2>2. PICK i \in DOMAIN jobs' : jobs'[i].trigger = u BY DEF Asked
    <2>3. i \in DOMAIN jobs \/ i = Len(jobs) + 1 BY <2>1, <2>2 DEF BankTypeOK
    <2> QED BY <2>1, <2>2, <2>3 DEF Asked
<1> QED BY <1>1, <1>2

LEMMA RowsAsk ==
    ASSUME RowsKept, NEW u
    PROVE  Asked(u)' <=> Asked(u)
BY DEF RowsKept, Asked

LEMMA GeneratorStays ==
    ASSUME BankStep
    PROVE  UNCHANGED <<persona, recipe, up, worker, restarts>>
BY DEF BankStep, Recover, DelayElapses, Claim, Generate, HandBack, Publish,
       CompleteJob, worker, bounds

-----------------------------------------------------------------------------
(*                     Triggers, commands and coverage                      *)

LEMMA TriggeredStep ==
    ASSUME BankTypeOK, Held, Triggered, [BankNext]_bankVars
    PROVE  Triggered'
<1> USE DEF Triggered
<1>0. restarts \in Nat BY DEF BankTypeOK, Starts
<1>1. ASSUME NEW c \in Dates, Arrive(c) PROVE Triggered'
    <2>1. \A d \in Dates : commands'[d] = "absent" => commands[d] = "absent"
        BY <1>1 DEF Arrive, BankTypeOK
    <2>2. UNCHANGED <<jobs, up, restarts>> BY <1>1 DEF Arrive, bounds
    <2> QED BY <2>1, <2>2 DEF Asked
<1>2. ASSUME NEW c \in Dates, SetPersona(c) PROVE Triggered'
    BY <1>2 DEF SetPersona, Asked, bounds
<1>3. CASE CommandAsks
    <2>1. ASSUME NEW u, Asked(u)' PROVE Asked(u) \/ u = <<"command", turn>>
        BY <1>3, <2>1, AskAsks, TriggersOfUse DEF CommandAsks
    <2>2. UNCHANGED <<commands, restarts, up>> /\ commands[turn] = "pending"
        BY <1>3 DEF CommandAsks, bounds, BankTypeOK
    <2> QED BY <1>0, <2>1, <2>2
<1>4. CASE Reply
    BY <1>4 DEF Reply, Asked, bounds, BankTypeOK
<1>5. CASE BankStep
    BY <1>5, GeneratorKeepsRows, RowsAsk, GeneratorStays DEF worker
<1>6. CASE Start BY <1>6 DEF Start, Asked, worker, bounds
<1>7. CASE StartupAsks
    <2>1. ASSUME NEW u, Asked(u)' PROVE Asked(u) \/ u = <<"startup", restarts>>
        BY <1>7, <2>1, AskAsks, TriggersOfUse DEF StartupAsks
    <2>2. UNCHANGED <<commands, restarts>> /\ up' = "running" /\ up # "running"
        BY <1>7 DEF StartupAsks, worker, bounds
    <2> QED BY <1>0, <2>1, <2>2
<1>8. CASE Crash BY <1>0, <1>8 DEF Crash, Halt, Asked, Starts
<1>9. CASE Shutdown
    <2>1. \A u : Asked(u)' <=> Asked(u) BY <1>9, GeneratorKeepsRows, RowsAsk
    <2> QED BY <1>0, <1>9, <2>1 DEF Shutdown, Halt, Starts
<1>10. CASE UNCHANGED bankVars BY <1>10 DEF bankVars, worker, bounds, Asked
<1> QED BY <1>1, <1>2, <1>3, <1>4, <1>5, <1>6, <1>7, <1>8, <1>9, <1>10
        DEF BankNext, BankStep

(* A first attempt asks for the persona it has set.  A later one, if no      *)
(* other command came between, finds the persona as it left it, and so the   *)
(* bank as the bridge was to keep it.                                        *)
LEMMA CommandedStep ==
    ASSUME IInv, [BankNext]_bankVars
    PROVE  Commanded'
<1> USE DEF IInv
<1>1. ASSUME NEW c \in Dates, Arrive(c) PROVE Commanded'
    <2>1. ~Asked(<<"command", c>>) BY <1>1 DEF Arrive, Triggered
    <2>2. \A d \in Dates \ {c} : commands'[d] = commands[d]
        BY <1>1 DEF Arrive, BankTypeOK
    <2>3. UNCHANGED <<persona, recipe, bank, jobs, turn, stage, overtaken>>
        BY <1>1 DEF Arrive
    <2> QED BY <2>1, <2>2, <2>3 DEF Commanded, Asked, Covered, Complete, Hash, IsActive
<1>2. ASSUME NEW c \in Dates, SetPersona(c) PROVE Commanded'
    <2>1. /\ UNCHANGED <<jobs, bank, recipe, commands>>
          /\ persona' = Commands[c] /\ turn' = c
          /\ c \notin overtaken' => c \notin overtaken
        BY <1>2 DEF SetPersona
    <2>2. ASSUME NEW d \in Dates \ overtaken', commands[d] = "pending",
                 Asked(<<"command", d>>)
          PROVE  d = c
        BY <1>2, <2>2 DEF SetPersona
    <2>3. ASSUME c \notin overtaken, commands[c] = "pending", Asked(<<"command", c>>)
          PROVE  Covered /\ UNCHANGED persona
        <3>1. persona = Commands[c] /\ turn \in {0, c} BY <2>3 DEF Commanded
        <3>2. 0 \notin overtaken BY DEF BankTypeOK, Dates
        <3>3. Covered
            BY <1>2, <2>3, <3>1, <3>2 DEF SetPersona, PersonaCovered, Covered
        <3> QED BY <2>1, <3>1, <3>3
    <2> QED BY <2>1, <2>2, <2>3 DEF Commanded, Covered, Complete, Hash, IsActive, Asked
<1>3. CASE CommandAsks
    <2>1. ASSUME NEW u, Asked(u)' PROVE Asked(u) \/ u = <<"command", turn>>
        BY <1>3, <2>1, AskAsks, TriggersOfUse DEF CommandAsks
    <2>2. UNCHANGED <<persona, commands, turn, overtaken>> /\ stage = "set" /\ stage' = "asked"
        BY <1>3 DEF CommandAsks
    <2> QED BY <2>1, <2>2 DEF Commanded
<1>4. CASE Reply
    <2>1. \A c \in Dates : commands'[c] = "pending" => commands[c] = "pending"
        BY <1>4 DEF Reply, BankTypeOK
    <2>2. UNCHANGED <<jobs, persona, turn, overtaken>> /\ stage' = "waiting"
        BY <1>4 DEF Reply
    <2> QED BY <2>1, <2>2 DEF Commanded, Asked
<1>5. CASE BankStep
    <2>1. RowsKept BY <1>5, GeneratorKeepsRows
    <2>2. UNCHANGED <<persona, recipe, commands, turn, stage, overtaken>>
        BY <1>5, GeneratorStays DEF worker
    <2>3. Covered => Covered' BY <2>1, <2>2, CoveredStays
    <2> QED BY <2>1, <2>2, <2>3, RowsAsk DEF Commanded
<1>6. CASE Start
    <2>1. stage = "waiting" BY <1>6 DEF Start, BankTypeOK
    <2> QED BY <1>6, <2>1 DEF Start, Commanded, Asked, worker
<1>7. CASE StartupAsks
    <2>1. stage = "waiting" BY <1>7 DEF StartupAsks, BankTypeOK
    <2>2. ASSUME NEW u, Asked(u)' PROVE Asked(u) \/ u = <<"startup", restarts>>
        BY <1>7, <2>2, AskAsks, TriggersOfUse DEF StartupAsks
    <2>3. UNCHANGED <<persona, worker>> BY <1>7 DEF StartupAsks
    <2> QED BY <2>1, <2>2, <2>3 DEF Commanded, worker
<1>8. CASE Crash BY <1>8 DEF Crash, Halt, Commanded, Asked
<1>9. CASE Shutdown
    <2>1. \A u : Asked(u)' <=> Asked(u) BY <1>9, GeneratorKeepsRows, RowsAsk
    <2> QED BY <1>9, <2>1 DEF Shutdown, Halt, Commanded
<1>10. CASE UNCHANGED bankVars
    BY <1>10 DEF bankVars, worker, Commanded, Asked, Covered, Complete, Hash, IsActive
<1> QED BY <1>1, <1>2, <1>3, <1>4, <1>5, <1>6, <1>7, <1>8, <1>9, <1>10
        DEF BankNext, BankStep

LEMMA CoveredStep ==
    ASSUME IInv, [BankNext]_bankVars
    PROVE  PersonaCovered'
<1> USE DEF IInv
<1>0. PersonaCovered <=>
          (up = "running" /\ stage # "set" => Covered \/ turn \in overtaken)
    BY DEF PersonaCovered, Covered
<1>1. ASSUME NEW c \in Dates, Arrive(c) \/ SetPersona(c) PROVE PersonaCovered'
    BY <1>1 DEF Arrive, SetPersona, PersonaCovered, Complete, Hash, IsActive
<1>2. CASE CommandAsks
    <2>1. CASE turn \in overtaken
        BY <1>2, <2>1 DEF CommandAsks, PersonaCovered
    <2>2. CASE turn \notin overtaken
        <3>1. Asked(<<"command", turn>>) => Covered
            BY <1>2, <2>2 DEF CommandAsks, BankTypeOK, Commanded
        <3>2. Covered'
            BY <1>2, <3>1, AskCovers, TriggersOfUse DEF CommandAsks
        <3> QED BY <3>2 DEF PersonaCovered, Covered
    <2> QED BY <2>1, <2>2
<1>3. CASE Reply
    BY <1>3 DEF Reply, PersonaCovered, Complete, Hash, IsActive
<1>4. CASE BankStep
    <2>1. RowsKept BY <1>4, GeneratorKeepsRows
    <2>2. UNCHANGED <<persona, recipe, up, turn, stage, overtaken>>
        BY <1>4, GeneratorStays DEF worker
    <2>3. Covered => Covered' BY <2>1, <2>2, CoveredStays
    <2> QED BY <1>0, <2>2, <2>3 DEF PersonaCovered, Covered
<1>5. CASE Start BY <1>5 DEF Start, PersonaCovered
<1>6. CASE StartupAsks
    <2>1. restarts \in Starts /\ ~(restarts < restarts) BY DEF BankTypeOK, Starts
    <2>2. ~Asked(<<"startup", restarts>>)
        BY <1>6, <2>1 DEF StartupAsks, Triggered
    <2>3. Covered' BY <1>6, <2>2, AskCovers, TriggersOfUse DEF StartupAsks
    <2> QED BY <2>3 DEF PersonaCovered, Covered
<1>7. CASE Crash \/ Shutdown
    BY <1>7 DEF Crash, Shutdown, Halt, PersonaCovered
<1>8. CASE UNCHANGED bankVars
    BY <1>8 DEF bankVars, worker, PersonaCovered, Complete, Hash, IsActive
<1> QED BY <1>1, <1>2, <1>3, <1>4, <1>5, <1>6, <1>7, <1>8
        DEF BankNext, BankStep

-----------------------------------------------------------------------------
(*                            The theorems                                  *)

(* The invariant of the bank: what a job has done is stored, what the       *)
(* generator holds is what the rows say of it, and a command that is tried  *)
(* again finds what it left, unless another came between.                   *)
THEOREM BankInvariant == BankSpec => []IInv
<1>1. BankInit => IInv BY InitIInv
<1>2. IInv /\ [BankNext]_bankVars => IInv'
    BY TypeStep, HeldStep, TriggeredStep, CommandedStep, ResumesStep, CoveredStep
    DEF IInv
<1> QED BY <1>1, <1>2, PTL DEF BankSpec

(* Whatever late commands, attempts, restarts, new builds and supersessions *)
(* come in between, the hash in force has its bank or a job that completes  *)
(* it, until a command is tried again that was overtaken after it asked.    *)
THEOREM PersonaStaysCovered == BankSpec => []PersonaCovered
<1>1. IInv => PersonaCovered BY DEF IInv
<1> QED BY <1>1, BankInvariant, PTL

(* What a row says is done is in the table, so a job that goes on where it  *)
(* stopped leaves no gap.                                                   *)
THEOREM JobsResumeWhereTheyStopped == BankSpec => []ResumesWhereItStopped
<1>1. IInv => ResumesWhereItStopped BY DEF IInv
<1> QED BY <1>1, BankInvariant, PTL

(* Phrases only appear for a hash with an active job: a generator that was  *)
(* superseded while the model answered publishes nothing.                   *)
THEOREM SupersededJobsAreSilent == BankSpec => SupersededIsSilent
<1>1. ASSUME IInv, [BankNext]_bankVars
      PROVE  [\A entry \in bank' \ bank :
                 \E i \in DOMAIN jobs : IsActive(i) /\ jobs[i].hash = entry[1]]_bankVars
    <2> SUFFICES ASSUME NEW entry \in bank' \ bank
                 PROVE  \E i \in DOMAIN jobs :
                            IsActive(i) /\ jobs[i].hash = entry[1]
        OBVIOUS
    <2>1. CASE Publish
        BY <1>1, <2>1 DEF Publish, IInv, Held, IsActive, Active
    <2>2. CASE ~Publish
        <3>1. bank' = bank
            BY <1>1, <2>2
            DEF BankNext, bankVars, Arrive, SetPersona, CommandAsks, Reply, Recover,
                DelayElapses, Claim, Generate, HandBack, CompleteJob, Start,
                StartupAsks, Crash, Shutdown, Halt
        <3> QED BY <3>1
    <2> QED BY <2>1, <2>2
<1> QED BY <1>1, BankInvariant, PTL DEF BankSpec, SupersededIsSilent
=============================================================================
