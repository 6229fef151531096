------------------------ MODULE MotionInventionProofs -----------------------
(***************************************************************************)
(* Proofs about invented motions, for any commands, texts, clock, renderer *)
(* and faults.  The invariant has three parts beside the types, one for    *)
(* each property: Lined and Placed, where a job is that has no outcome     *)
(* yet; Spoken, which jobs have had their line; and Recallable, that a     *)
(* motion the worker or the generator holds is only found as it was.       *)
(*                                                                         *)
(* The second half is about the designs themselves (Choreography), for any *)
(* text, budget and curve: what a text is read as (RoundTrip), what a      *)
(* design is planned as within a budget (Sound, Playable), that the        *)
(* document of every plan passes the checks at the end of the renderer     *)
(* (PlayableSent), and the three properties of what is kept and played.    *)
(***************************************************************************)
EXTENDS MotionInvention, Choreography, FiniteSetTheorems, WellFoundedInduction, TLAPS

Statuses == {"none", "pending", "delayed", "processing", "completed"}
Stages == {"off", "idle", "generating", "remembering", "completing", "ready",
           "failing", "performing"}

InventionTypeOK ==
    /\ turn \in Nat \ {0}
    /\ worker \in [at : {"idle", "enqueueing", "answering", "delivering", "performing"},
                   says : {worker.says}, motion : {worker.motion}]
    /\ worker.at # "idle" => turn \in Commands
    /\ jobs \in [Commands -> [status : Statuses, attempts : Nat]]
    /\ due \in Seq(Commands)
    /\ generator \in [at : Stages, job : {0} \cup Commands,
                      spec : {generator.spec}, motion : {generator.motion}]
    /\ IF generator.at \in {"off", "idle"} THEN generator.job = 0
                                           ELSE generator.job \in Commands
    /\ said \in [Commands -> Seq({"ready", "failing"})]
    /\ lastId \in Nat
    /\ IsFiniteSet(repertoire)
    /\ \A row \in repertoire : row.id \in 1..lastId /\ row.at \in Nat

(* A job waits in the queue, at one place, exactly while it is pending      *)
(* (Lined); what the generator is at says how far its job has come (Placed).*)
Lined ==
    /\ \A r \in Commands : jobs[r].status = "pending" <=> \E i \in 1..Len(due) : due[i] = r
    /\ \A i, j \in 1..Len(due) : due[i] = due[j] => i = j
Placed ==
    /\ \A r \in Commands :
          jobs[r].status = "processing" => generator.job = r \/ generator.at = "off"
    /\ generator.at \in {"generating", "remembering", "completing"} =>
          jobs[generator.job].status = "processing"
    /\ generator.at \in {"ready", "failing", "performing"} =>
          jobs[generator.job].status = "completed"

(* A line is only spoken for a job that is completed, and that the          *)
(* generator is not still to speak for.                                     *)
Spoken ==
    /\ OneOutcome
    /\ \A r \in Commands : said[r] # <<>> => jobs[r].status = "completed"
    /\ generator.at \in {"ready", "failing"} => said[generator.job] = <<>>
    /\ generator.at = "performing" =>
          generator.job \in excused \/ said[generator.job] # <<>>

(* An id is never given out again, and a row is never rewritten.            *)
Recallable(motion) ==
    /\ motion.id \in 0..lastId
    /\ \A row \in Known(motion.id) : row = motion
OneRowAnId == \A a, b \in repertoire : a.id = b.id => a = b
HeldRecallable == Recallable(worker.motion) /\ Recallable(generator.motion)

IInv ==
    /\ InventionTypeOK /\ Lined /\ Placed /\ Spoken /\ HeldRecallable
    /\ OneRowAnId
    /\ PlaysWhatItNamed

-----------------------------------------------------------------------------
(*                     Finite sets of rows and of jobs                      *)

Best(a, rows) == a \in rows /\ \A b \in rows \ {a} : Newer(a, b)

(* What SQLite orders by is a linear order of the rows, so that any that    *)
(* there are have a newest one.                                             *)
LEMMA NewestIsARow ==
    ASSUME NEW rows, rows # {}, IsFiniteSet(rows),
           \A a \in rows : a.at \in Nat /\ a.id \in Nat,
           \A a, b \in rows : a.id = b.id => a = b
    PROVE  Newest(rows) \in rows
<1> DEFINE without == {U \in SUBSET rows : U # {} /\ \A a \in U : ~Best(a, U)}
<1>1. without = {}
    <2> SUFFICES ASSUME without # {} PROVE FALSE
        OBVIOUS
    <2>1. IsWellFoundedOn(StrictSubsetOrdering(rows), SUBSET rows)
        BY FS_StrictSubsetOrderingWellFounded, FS_FiniteSubsetsOfFinite
    <2>2. PICK U \in without :
             \A V \in without : <<V, U>> \notin StrictSubsetOrdering(rows)
        <3>1. without \subseteq SUBSET rows OBVIOUS
        <3> HIDE DEF without
        <3> QED BY <2>1, <3>1, WFMin
    <2>3. PICK x \in U : TRUE OBVIOUS
    <2>4. CASE U = {x}
        BY <2>2, <2>4 DEF Best
    <2>5. CASE U # {x}
        <3> DEFINE V == U \ {x}
        <3>1. V # {} /\ V \in SUBSET rows /\ V \subseteq U /\ V # U
            BY <2>3, <2>5
        <3>2. <<V, U>> \in StrictSubsetOrdering(rows)
            BY <3>1 DEF StrictSubsetOrdering
        <3>3. PICK a \in V : Best(a, V)
            BY <2>2, <3>1, <3>2
        <3>4. CASE Newer(a, x)
            <4>1. Best(a, U) BY <3>3, <3>4 DEF Best
            <4> QED BY <2>2, <3>3, <4>1
        <3>5. CASE ~Newer(a, x)
            <4>1. x \in rows /\ a \in rows /\ a.id # x.id BY <2>3, <3>3
            <4>2. Newer(x, a) BY <3>5, <4>1 DEF Newer
            <4>3. ASSUME NEW b \in U \ {x} PROVE Newer(x, b)
                <5>1. CASE b = a BY <4>2, <5>1
                <5>2. CASE b # a
                    <6>1. Newer(a, b) /\ b \in rows BY <3>3, <5>2 DEF Best
                    <6> QED BY <4>1, <4>2, <6>1 DEF Newer
                <5> QED BY <5>1, <5>2
            <4>4. Best(x, U) BY <2>3, <4>3 DEF Best
            <4> QED BY <2>2, <2>3, <4>4
        <3> QED BY <3>4, <3>5
    <2> QED BY <2>4, <2>5
<1>2. \E a \in rows : \A b \in rows \ {a} : Newer(a, b)
    BY <1>1 DEF Best
<1> QED BY <1>2 DEF Newest

(* The rows taken up at a start are put into the queue once each.           *)
LEMMA SeqOfASet ==
    ASSUME NEW S, IsFiniteSet(S)
    PROVE  /\ SetToSeq(S) \in Seq(S)
           /\ \A i, j \in 1..Len(SetToSeq(S)) :
                 SetToSeq(S)[i] = SetToSeq(S)[j] => i = j
           /\ \A x \in S : \E i \in 1..Len(SetToSeq(S)) : SetToSeq(S)[i] = x
<1> DEFINE n == Cardinality(S)
           f == SetToSeq(S)
<1>1. n \in Nat /\ ExistsBijection(1..n, S) BY FS_CardinalityType
<1>2. \E g \in [1..n -> S] : IsInjective(g)
    BY <1>1 DEF ExistsBijection, Bijection, Injection, Surjection
<1>3. f \in [1..n -> S] /\ IsInjective(f) BY <1>2 DEF SetToSeq
<1>4. IsFiniteSet(1..n) /\ Cardinality(1..n) = n
    BY <1>1, FS_Interval
<1>5. f \in Surjection(1..n, S)
    BY <1>3, <1>4, FS_Injection DEF Injection
<1> HIDE DEF f
<1>6. f \in Seq(S) /\ Len(f) = n BY <1>1, <1>3
<1>7. \A x \in S : \E i \in 1..n : f[i] = x BY <1>5 DEF Surjection
<1>8. \A i, j \in 1..n : f[i] = f[j] => i = j BY <1>3 DEF IsInjective
<1> QED BY <1>6, <1>7, <1>8 DEF f

-----------------------------------------------------------------------------
(*                           The queue of jobs                              *)

LEMMA LinedSame ==
    ASSUME Lined, due' = due,
           \A r \in Commands : jobs'[r].status = "pending" <=> jobs[r].status = "pending"
    PROVE  Lined'
BY DEF Lined

LEMMA LinedAppend ==
    ASSUME InventionTypeOK, Lined, NEW r \in Commands,
           jobs[r].status # "pending", jobs'[r].status = "pending",
           \A q \in Commands \ {r} : jobs'[q] = jobs[q],
           due' = Append(due, r)
    PROVE  due' \in Seq(Commands) /\ Lined'
<1>1. due \in Seq(Commands) BY DEF InventionTypeOK
<1>2. /\ due' \in Seq(Commands) /\ Len(due') = Len(due) + 1
      /\ due'[Len(due) + 1] = r
      /\ \A i \in 1..Len(due) : due'[i] = due[i]
    BY <1>1
<1>3. \A i \in 1..Len(due) : due[i] # r /\ due[i] \in Commands
    BY <1>1 DEF Lined
<1>4. \A i \in 1..Len(due') : i \in 1..Len(due) \/ i = Len(due) + 1
    BY <1>1, <1>2
<1>5. ASSUME NEW q \in Commands
      PROVE  jobs'[q].status = "pending" <=> \E i \in 1..Len(due') : due'[i] = q
    <2>1. CASE q = r
        <3>1. Len(due) + 1 \in 1..Len(due') BY <1>1, <1>2
        <3> QED BY <1>2, <2>1, <3>1
    <2>2. CASE q # r
        <3>1. (\E i \in 1..Len(due') : due'[i] = q) <=> \E i \in 1..Len(due) : due[i] = q
            <4>1. 1..Len(due) \subseteq 1..Len(due') BY <1>1, <1>2
            <4> QED BY <1>2, <1>4, <2>2, <4>1
        <3> QED BY <2>2, <3>1 DEF Lined
    <2> QED BY <2>1, <2>2
<1>6. ASSUME NEW i \in 1..Len(due'), NEW j \in 1..Len(due'), due'[i] = due'[j]
      PROVE  i = j
    BY <1>2, <1>3, <1>4, <1>6 DEF Lined
<1> QED BY <1>2, <1>5, <1>6 DEF Lined

LEMMA LinedTail ==
    ASSUME InventionTypeOK, Lined, due # <<>>, due' = Tail(due),
           jobs'[Head(due)].status # "pending",
           \A q \in Commands \ {Head(due)} : jobs'[q] = jobs[q]
    PROVE  due' \in Seq(Commands) /\ Lined'
<1>1. due \in Seq(Commands) /\ Head(due) = due[1] /\ Len(due) \in Nat \ {0}
    BY DEF InventionTypeOK
<1>2. /\ due' \in Seq(Commands) /\ Len(due') = Len(due) - 1
      /\ \A i \in 1..Len(due') : i + 1 \in 1..Len(due) /\ due'[i] = due[i + 1]
    BY <1>1
<1>3. ASSUME NEW q \in Commands
      PROVE  jobs'[q].status = "pending" <=> \E i \in 1..Len(due') : due'[i] = q
    <2>1. CASE q = Head(due)
        <3>1. \A i \in 1..Len(due') : due[i + 1] # due[1]
            BY <1>1, <1>2 DEF Lined
        <3> QED BY <1>1, <1>2, <2>1, <3>1
    <2>2. CASE q # Head(due)
        <3>1. ASSUME NEW i \in 1..Len(due), due[i] = q
              PROVE  \E k \in 1..Len(due') : due'[k] = q
            <4>1. i # 1 BY <1>1, <2>2, <3>1
            <4>2. i - 1 \in 1..Len(due') BY <1>1, <1>2, <4>1
            <4>3. due'[i - 1] = due[(i - 1) + 1] /\ (i - 1) + 1 = i
                BY <1>2, <4>2
            <4> QED BY <3>1, <4>2, <4>3
        <3>2. (\E i \in 1..Len(due') : due'[i] = q) <=> \E i \in 1..Len(due) : due[i] = q
            BY <1>2, <3>1
        <3>3. jobs'[q] = jobs[q] BY <2>2
        <3> QED BY <3>2, <3>3 DEF Lined
    <2> QED BY <2>1, <2>2
<1>4. ASSUME NEW i \in 1..Len(due'), NEW j \in 1..Len(due'), due'[i] = due'[j]
      PROVE  i = j
    <2>1. i + 1 = j + 1 BY <1>2, <1>4 DEF Lined
    <2> QED BY <2>1
<1> QED BY <1>2, <1>3, <1>4 DEF Lined

LEMMA LinedRecover ==
    ASSUME InventionTypeOK, Lined, Recover
    PROVE  due' \in Seq(Commands) /\ Lined'
<1> DEFINE more == SetToSeq(TakenUp)
<1>1. due \in Seq(Commands) BY DEF InventionTypeOK
<1>2. TakenUp \in SUBSET Commands /\ IsFiniteSet(TakenUp)
    <2>1. IsFiniteSet(1..Len(Asks)) BY InventionAssumption, FS_Interval
    <2> QED BY <2>1, FS_Subset DEF TakenUp, Commands
<1>3. more \in Seq(TakenUp) /\ (\A x \in TakenUp : \E i \in 1..Len(more) : more[i] = x)
      /\ (\A i, j \in 1..Len(more) : more[i] = more[j] => i = j)
    BY <1>2, SeqOfASet
<1>4. due' = due \o more BY DEF Recover
<1> HIDE DEF more
<1>5. more \in Seq(Commands) BY <1>2, <1>3
<1>6. /\ due' \in Seq(Commands) /\ Len(due') = Len(due) + Len(more)
      /\ \A i \in 1..Len(due) : due'[i] = due[i]
      /\ \A i \in 1..Len(more) : due'[Len(due) + i] = more[i]
    BY <1>1, <1>4, <1>5
<1>7. Len(due) \in Nat /\ Len(more) \in Nat BY <1>1, <1>5
<1>8. \A i \in 1..Len(due') :
         i \in 1..Len(due) \/ (i - Len(due) \in 1..Len(more) /\ due'[i] = more[i - Len(due)])
    <2> SUFFICES ASSUME NEW i \in 1..Len(due'), i \notin 1..Len(due)
                 PROVE  i - Len(due) \in 1..Len(more) /\ due'[i] = more[i - Len(due)]
        OBVIOUS
    <2>1. i - Len(due) \in 1..Len(more) /\ Len(due) + (i - Len(due)) = i
        BY <1>6, <1>7
    <2> QED BY <1>6, <2>1
<1>9. \A r \in Commands :
         jobs'[r].status = "pending" <=> jobs[r].status = "pending" \/ r \in TakenUp
    <2> SUFFICES ASSUME NEW r \in Commands
                 PROVE  jobs'[r].status = "pending"
                            <=> jobs[r].status = "pending" \/ r \in TakenUp
        OBVIOUS
    <2>1. jobs'[r] = IF r \in TakenUp THEN [jobs[r] EXCEPT !.status = "pending"]
                                      ELSE jobs[r]
        BY DEF Recover
    <2>2. jobs[r] \in [status : Statuses, attempts : Nat] BY DEF InventionTypeOK
    <2> QED BY <2>1, <2>2
<1>10. ASSUME NEW r \in Commands
       PROVE  jobs'[r].status = "pending" <=> \E i \in 1..Len(due') : due'[i] = r
    <2>1. ASSUME jobs[r].status = "pending" PROVE \E i \in 1..Len(due') : due'[i] = r
        <3>1. PICK i \in 1..Len(due) : due[i] = r BY <2>1 DEF Lined
        <3>2. i \in 1..Len(due') BY <1>6, <1>7
        <3> QED BY <1>6, <3>1, <3>2
    <2>2. ASSUME r \in TakenUp PROVE \E i \in 1..Len(due') : due'[i] = r
        <3>1. PICK i \in 1..Len(more) : more[i] = r BY <1>3, <2>2
        <3>2. Len(due) + i \in 1..Len(due') BY <1>6, <1>7
        <3> QED BY <1>6, <3>1, <3>2
    <2>3. ASSUME NEW i \in 1..Len(due'), due'[i] = r
          PROVE  jobs[r].status = "pending" \/ r \in TakenUp
        <3>1. CASE i \in 1..Len(due) BY <1>6, <2>3, <3>1 DEF Lined
        <3>2. CASE i \notin 1..Len(due)
            <4>1. \A k \in 1..Len(more) : more[k] \in TakenUp BY <1>3
            <4> QED BY <1>8, <2>3, <3>2, <4>1
        <3> QED BY <3>1, <3>2
    <2> QED BY <1>9, <2>1, <2>2, <2>3
<1>11. ASSUME NEW i \in 1..Len(due'), NEW j \in 1..Len(due'), due'[i] = due'[j]
       PROVE  i = j
    <2>1. ASSUME NEW k \in 1..Len(due), NEW l \in 1..Len(more) PROVE due[k] # more[l]
        <3>1. jobs[due[k]].status = "pending" /\ due[k] \in Commands BY <1>1 DEF Lined
        <3>2. jobs[more[l]].status = "processing" BY <1>3 DEF TakenUp
        <3> QED BY <3>1, <3>2
    <2>2. CASE i \in 1..Len(due) /\ j \in 1..Len(due)
        BY <1>6, <1>11, <2>2 DEF Lined
    <2>3. CASE i \notin 1..Len(due) /\ j \notin 1..Len(due)
        <3>1. i - Len(due) = j - Len(due) BY <1>3, <1>8, <1>11, <2>3
        <3> QED BY <1>7, <3>1
    <2> QED BY <1>6, <1>8, <1>11, <2>1, <2>2, <2>3
<1> QED BY <1>6, <1>10, <1>11 DEF Lined

-----------------------------------------------------------------------------
(*                 The repertoire, and records in memory                    *)

(* What is recalled is a row, or nothing.                                   *)
LEMMA RecalledIsARow ==
    ASSUME InventionTypeOK, OneRowAnId, NEW theme
    PROVE  Recalled(theme) = NoMotion \/ Recalled(theme) \in repertoire
<1> DEFINE rows == IF theme = "" THEN repertoire
                   ELSE IF Named(theme) # {} THEN Named(theme) ELSE Close(theme)
<1>1. rows \in SUBSET repertoire BY DEF Named, Close
<1>2. Recalled(theme) = IF rows = {} THEN NoMotion ELSE Newest(rows)
    BY DEF Recalled
<1> HIDE DEF rows
<1>3. CASE rows # {}
    <2>1. IsFiniteSet(rows) BY <1>1, FS_Subset DEF InventionTypeOK
    <2>2. /\ \A a \in rows : a.at \in Nat /\ a.id \in Nat
          /\ \A a, b \in rows : a.id = b.id => a = b
        BY <1>1 DEF InventionTypeOK, OneRowAnId
    <2>3. Newest(rows) \in rows
        BY <1>3, <2>1, <2>2, NewestIsARow
    <2> QED BY <1>1, <1>2, <1>3, <2>3
<1> QED BY <1>2, <1>3

(* A motion is only added under the next id, and nothing else is.           *)
LEMMA RememberedRows ==
    ASSUME InventionTypeOK, OneRowAnId, NEW job, NEW spec, NEW now \in Times
    PROVE  /\ IsFiniteSet(Remembered(job, spec, now))
           /\ \A row \in Remembered(job, spec, now) :
                 /\ row.id \in 1..(lastId + 1) /\ row.at \in Nat
                 /\ row.id # lastId + 1 => row \in repertoire
           /\ \A a, b \in Remembered(job, spec, now) : a.id = b.id => a = b
<1> DEFINE others == {row \in repertoire : row.name # spec.name}
           new == [id |-> NewId(others), name |-> spec.name, text |-> ToText(spec),
                   source |-> job, at |-> now]
           all == others \cup {new}
<1>1. Remembered(job, spec, now) \in SUBSET all BY DEF Remembered
<1>2. IsFiniteSet(all)
    <2>1. IsFiniteSet(others) BY FS_Subset DEF InventionTypeOK
    <2> QED BY <2>1, FS_AddElement
<1>3. new.id = lastId + 1 /\ new.at = now /\ now \in Nat
    BY InventionAssumption DEF NewId
<1>4. \A row \in others : row \in repertoire OBVIOUS
<1> HIDE DEF new, others
<1>5. IsFiniteSet(Remembered(job, spec, now)) BY <1>1, <1>2, FS_Subset
<1>6. \A row \in all :
         /\ row.id \in 1..(lastId + 1) /\ row.at \in Nat
         /\ row.id # lastId + 1 => row \in repertoire
    BY <1>3, <1>4 DEF InventionTypeOK
<1>7. \A a, b \in all : a.id = b.id => a = b
    BY <1>3, <1>4 DEF InventionTypeOK, OneRowAnId
<1> QED BY <1>1, <1>5, <1>6, <1>7

(* What the generator remembers after a move that keeps its job.            *)
Remembers(stage, motion) ==
    /\ generator'.at = stage /\ generator'.job = generator.job
    /\ generator'.motion = motion
    /\ generator' \in [at : Stages, job : {0} \cup Commands,
                       spec : {generator'.spec}, motion : {generator'.motion}]

LEMMA GeneratorMoves ==
    ASSUME InventionTypeOK, NEW stage \in Stages, NEW spec, NEW motion
    PROVE  /\ generator' = [generator EXCEPT !.at = stage] =>
                 Remembers(stage, generator.motion)
           /\ generator' = [generator EXCEPT !.at = stage, !.spec = spec] =>
                 Remembers(stage, generator.motion)
           /\ generator' = [generator EXCEPT !.at = stage, !.spec = spec,
                                            !.motion = motion] =>
                 Remembers(stage, motion)
<1>1. ASSUME generator' = [generator EXCEPT !.at = stage]
      PROVE  Remembers(stage, generator.motion)
    BY <1>1 DEF Remembers, InventionTypeOK
<1>2. ASSUME generator' = [generator EXCEPT !.at = stage, !.spec = spec]
      PROVE  Remembers(stage, generator.motion)
    BY <1>2 DEF Remembers, InventionTypeOK
<1>3. ASSUME generator' = [generator EXCEPT !.at = stage, !.spec = spec,
                                            !.motion = motion]
      PROVE  Remembers(stage, motion)
    BY <1>3 DEF Remembers, InventionTypeOK
<1> QED BY <1>1, <1>2, <1>3

LEMMA RestingMemory ==
    /\ Off.at = "off" /\ Off.job = 0 /\ Off.motion = NoMotion
    /\ Idle.at = "idle" /\ Idle.job = 0 /\ Idle.motion = NoMotion
    /\ Off \in [at : Stages, job : {0} \cup Commands, spec : {Off.spec},
                motion : {Off.motion}]
    /\ Idle \in [at : Stages, job : {0} \cup Commands, spec : {Idle.spec},
                 motion : {Idle.motion}]
BY DEF Off, Idle, Stages

-----------------------------------------------------------------------------
(*                        How a job moves                                   *)

LEMMA InitIInv == Init => IInv
<1> SUFFICES ASSUME Init PROVE IInv
    OBVIOUS
<1>0. Len(Asks) \in Nat BY InventionAssumption
<1> USE DEF Init
<1>1. InventionTypeOK
    <2>1. IsFiniteSet({}) BY FS_EmptySet
    <2> QED BY <2>1, RestingMemory DEF InventionTypeOK, Statuses, Waiting
<1>2. Lined /\ Placed
    BY RestingMemory DEF Lined, Placed
<1>3. Spoken
    BY RestingMemory DEF Spoken, OneOutcome
<1>4. HeldRecallable
    BY RestingMemory DEF HeldRecallable, Recallable, Known, NoMotion, Waiting
<1>5. OneRowAnId /\ PlaysWhatItNamed
    BY DEF OneRowAnId, PlaysWhatItNamed
<1> QED BY <1>1, <1>2, <1>3, <1>4, <1>5 DEF IInv

(* The status of one job is changed, and no other job.                      *)
Becomes(job, status) ==
    /\ jobs' \in [Commands -> [status : Statuses, attempts : Nat]]
    /\ jobs'[job].status = status
    /\ \A q \in Commands \ {job} : jobs'[q] = jobs[q]

LEMMA StatusSet ==
    ASSUME InventionTypeOK, NEW job \in Commands, NEW status \in Statuses,
           jobs' = [jobs EXCEPT ![job].status = status]
    PROVE  Becomes(job, status)
BY DEF InventionTypeOK, Becomes

LEMMA HandedBack ==
    ASSUME InventionTypeOK, Lined, NEW job \in Commands,
           jobs[job].status # "pending", NEW delayed \in BOOLEAN,
           HandBack(job, delayed)
    PROVE  /\ Becomes(job, IF delayed THEN "delayed" ELSE "pending")
           /\ due' \in Seq(Commands) /\ Lined'
<1>1. Becomes(job, IF delayed THEN "delayed" ELSE "pending")
    BY StatusSet DEF HandBack, Statuses
<1>2. CASE delayed
    BY <1>1, <1>2, LinedSame DEF HandBack, Becomes, InventionTypeOK
<1>3. CASE ~delayed
    BY <1>1, <1>3, LinedAppend DEF HandBack, Becomes
<1> QED BY <1>1, <1>2, <1>3

LEMMA CompletedOne ==
    ASSUME InventionTypeOK, Lined, NEW job \in Commands,
           jobs[job].status # "pending", jobs' = Completed(job), due' = due
    PROVE  /\ Becomes(job, "completed")
           /\ due' \in Seq(Commands) /\ Lined'
<1>1. Becomes(job, "completed") BY StatusSet DEF Completed, Statuses
<1> QED BY <1>1, LinedSame DEF Becomes, InventionTypeOK

(* The generator gives its job back and rests, or it ends it and has a line *)
(* to say.                                                                  *)
LEMMA GivenUp ==
    ASSUME InventionTypeOK, Lined, NEW hopeless \in BOOLEAN, GiveUp(hopeless),
           generator.job \in Commands, jobs[generator.job].status = "processing"
    PROVE  /\ due' \in Seq(Commands) /\ Lined'
           /\ \/ Becomes(generator.job, "delayed") /\ generator' = Idle
              \/ /\ Becomes(generator.job, "completed")
                 /\ Remembers("failing", generator.motion)
<1>1. CASE HandBack(generator.job, TRUE) /\ generator' = Idle
    BY <1>1, HandedBack
<1>2. CASE jobs' = Completed(generator.job) /\ UNCHANGED due /\ Ahead("failing")
    <2>1. Remembers("failing", generator.motion)
        BY <1>2, GeneratorMoves DEF Ahead, Stages
    <2> QED BY <1>2, <2>1, CompletedOne
<1> QED BY <1>1, <1>2 DEF GiveUp

JobsOK == InventionTypeOK /\ Lined /\ Placed /\ Spoken

(* The worker leaves the jobs alone, but for the one it asks for.           *)
LEMMA WorkerStep ==
    ASSUME JobsOK,
           Resume \/ Look \/ LookFails \/ SaveReply \/ Deliver \/ DeliverFails
               \/ Perform
    PROVE  /\ JobsOK'
           /\ UNCHANGED <<repertoire, lastId, generator>>
<1> USE DEF JobsOK, store, work, queue, robot, Working
<1>1. UNCHANGED <<repertoire, lastId, jobs, due, generator, said, excused>>
    BY DEF Resume, Look, LookFails, SaveReply, Deliver, DeliverFails, Perform
<1>2. /\ turn' \in Nat \ {0}
      /\ worker' \in [at : {"idle", "enqueueing", "answering", "delivering",
                            "performing"},
                      says : {worker'.says}, motion : {worker'.motion}]
      /\ worker'.at # "idle" => turn' \in Commands
    <2>1. CASE Resume BY <2>1 DEF Resume, Waiting, InventionTypeOK
    <2>2. CASE Look BY <2>2 DEF Look, Answering, Waiting, InventionTypeOK
    <2>3. CASE LookFails BY <2>3 DEF LookFails, Answering, InventionTypeOK
    <2>4. CASE SaveReply BY <2>4 DEF SaveReply, InventionTypeOK
    <2>5. CASE Deliver BY <2>5 DEF Deliver, InventionTypeOK
    <2>6. CASE DeliverFails BY <2>6 DEF DeliverFails, Waiting, InventionTypeOK
    <2>7. CASE Perform BY <2>7 DEF Perform, Waiting, InventionTypeOK
    <2> QED BY <2>1, <2>2, <2>3, <2>4, <2>5, <2>6, <2>7
<1> QED BY <1>1, <1>2 DEF InventionTypeOK, Lined, Placed, Spoken, OneOutcome

LEMMA EnqueueStep ==
    ASSUME JobsOK, Enqueue
    PROVE  /\ JobsOK'
           /\ UNCHANGED <<repertoire, lastId, generator>>
<1> USE DEF JobsOK, store, work, queue, robot, Working
<1>1. /\ UNCHANGED <<repertoire, lastId, generator, said, excused, turn>>
      /\ turn \in Commands
      /\ worker' = [at |-> "answering", says |-> "ack", motion |-> NoMotion]
    BY DEF Enqueue, Answering, InventionTypeOK
<1>2. CASE UNCHANGED <<jobs, due>>
    BY <1>1, <1>2 DEF InventionTypeOK, Lined, Placed, Spoken, OneOutcome
<1>3. CASE /\ jobs[turn].status = "none"
           /\ jobs' = [jobs EXCEPT ![turn].status = "pending"]
           /\ due' = Append(due, turn)
    <2>1. Becomes(turn, "pending") BY <1>1, <1>3, StatusSet DEF Statuses
    <2>2. due' \in Seq(Commands) /\ Lined'
        BY <1>1, <1>3, <2>1, LinedAppend DEF Becomes
    <2>3. InventionTypeOK' BY <1>1, <2>1, <2>2 DEF InventionTypeOK, Becomes
    <2>4. Placed' BY <1>1, <1>3, <2>1 DEF Placed, Becomes, InventionTypeOK
    <2>5. Spoken'
        BY <1>1, <1>3, <2>1 DEF Spoken, OneOutcome, Becomes, InventionTypeOK
    <2> QED BY <1>1, <2>2, <2>3, <2>4, <2>5
<1> QED BY <1>1, <1>2, <1>3 DEF Enqueue

(* The rows, as far as the types say.                                       *)
RowsTyped ==
    /\ lastId \in Nat
    /\ IsFiniteSet(repertoire)
    /\ \A row \in repertoire : row.id \in 1..lastId /\ row.at \in Nat

(* A job that is given back was not spoken of, and waits again.             *)
LEMMA GivenBackOK ==
    ASSUME JobsOK, RowsTyped', UNCHANGED <<turn, said, excused>>,
           worker' \in {worker, Waiting},
           generator.job \in Commands, jobs[generator.job].status = "processing",
           NEW status \in {"pending", "delayed"}, Becomes(generator.job, status),
           due' \in Seq(Commands), Lined', generator' \in {Idle, Off}
    PROVE  JobsOK'
<1> USE DEF JobsOK
<1>0. 0 \notin Commands BY InventionAssumption DEF Commands
<1>1. generator'.at \in {"off", "idle"} /\ generator'.job = 0
      /\ generator' \in [at : Stages, job : {0} \cup Commands,
                         spec : {generator'.spec}, motion : {generator'.motion}]
    BY RestingMemory
<1>2. InventionTypeOK'
    <2>1. worker' \in [at : {"idle", "enqueueing", "answering", "delivering",
                             "performing"},
                       says : {worker'.says}, motion : {worker'.motion}]
          /\ (worker'.at # "idle" => turn' \in Commands)
        BY DEF Waiting, InventionTypeOK
    <2> QED BY <1>1, <2>1 DEF InventionTypeOK, RowsTyped, Becomes
<1>3. Placed'
    <2>1. \A r \in Commands : jobs'[r].status # "processing"
                                \/ generator'.at = "off"
        <3> SUFFICES ASSUME NEW r \in Commands, jobs'[r].status = "processing",
                            generator'.at # "off"
                     PROVE  FALSE
            OBVIOUS
        <3>1. r # generator.job BY DEF Becomes
        <3>2. jobs[r].status = "processing" BY <3>1 DEF Becomes
        <3>3. generator.at = "off" /\ generator.job \in Commands
            BY <3>1, <3>2 DEF Placed
        <3> QED BY <1>0, <3>3 DEF InventionTypeOK
    <2> QED BY <1>1, <2>1 DEF Placed
<1>4. Spoken'
    <2>1. said[generator.job] = <<>> BY DEF Spoken
    <2>2. ASSUME NEW r \in Commands, r # generator.job
          PROVE  jobs'[r] = jobs[r]
        BY <2>2 DEF Becomes
    <2>3. jobs'[generator.job].status # "completed" BY DEF Becomes
    <2>4. OneOutcome' BY <1>1, <2>2, <2>3 DEF Spoken, OneOutcome
    <2>5. \A r \in Commands : said'[r] # <<>> => jobs'[r].status = "completed"
        BY <2>1, <2>2 DEF Spoken
    <2> QED BY <1>1, <2>4, <2>5 DEF Spoken
<1> QED BY <1>2, <1>3, <1>4

(* A job that is over has had no line yet, and the generator holds it until *)
(* it has.                                                                  *)
LEMMA EndedOK ==
    ASSUME JobsOK, RowsTyped', UNCHANGED <<turn, said, excused, worker>>,
           generator.job \in Commands, jobs[generator.job].status = "processing",
           Becomes(generator.job, "completed"), due' \in Seq(Commands), Lined',
           NEW stage \in {"ready", "failing"}, NEW motion, Remembers(stage, motion)
    PROVE  JobsOK'
<1> USE DEF JobsOK
<1>0. 0 \notin Commands BY InventionAssumption DEF Commands
<1>1. InventionTypeOK'
    BY <1>0 DEF InventionTypeOK, RowsTyped, Becomes, Remembers, Stages
<1>2. Placed'
    <2>1. \A r \in Commands : jobs'[r].status # "processing"
        BY <1>0 DEF Placed, Becomes, InventionTypeOK
    <2> QED BY <2>1 DEF Placed, Becomes, Remembers
<1>3. said[generator.job] = <<>> BY DEF Spoken
<1>4. Spoken'
    <2>1. OneOutcome' BY <1>3 DEF Spoken, OneOutcome, Becomes, Remembers
    <2>2. \A r \in Commands : said'[r] # <<>> => jobs'[r].status = "completed"
        BY DEF Spoken, Becomes
    <2> QED BY <1>3, <2>1, <2>2 DEF Spoken, Remembers
<1> QED BY <1>1, <1>2, <1>4

LEMMA GivenUpOK ==
    ASSUME JobsOK, RowsTyped', UNCHANGED <<turn, said, excused, worker>>,
           NEW hopeless \in BOOLEAN, GiveUp(hopeless),
           generator.at \in {"generating", "remembering"}
    PROVE  JobsOK'
<1>1. generator.job \in Commands /\ jobs[generator.job].status = "processing"
    BY DEF JobsOK, InventionTypeOK, Placed
<1>2. JobsOK /\ InventionTypeOK /\ Lined BY DEF JobsOK
<1>3. /\ due' \in Seq(Commands) /\ Lined'
      /\ \/ Becomes(generator.job, "delayed") /\ generator' = Idle
         \/ /\ Becomes(generator.job, "completed")
            /\ Remembers("failing", generator.motion)
    BY <1>1, <1>2, GivenUp
<1>4. CASE Becomes(generator.job, "delayed") /\ generator' = Idle
    <2>1. UNCHANGED <<turn, said, excused>> /\ worker' \in {worker, Waiting} OBVIOUS
    <2> QED BY <1>1, <1>2, <1>3, <1>4, <2>1, GivenBackOK
<1>5. CASE Becomes(generator.job, "completed")
           /\ Remembers("failing", generator.motion)
    BY <1>1, <1>2, <1>3, <1>5, EndedOK
<1> QED BY <1>3, <1>4, <1>5

(* The generator goes on with the same job, which is still to be completed. *)
LEMMA GoesOnOK ==
    ASSUME JobsOK, RowsTyped', UNCHANGED <<turn, said, excused, worker, jobs, due>>,
           generator.at \in {"generating", "remembering"},
           NEW stage \in {"remembering", "completing"}, NEW motion,
           Remembers(stage, motion)
    PROVE  JobsOK'
<1> USE DEF JobsOK
<1>1. InventionTypeOK'
    BY DEF InventionTypeOK, RowsTyped, Remembers, Stages
<1>2. Lined' /\ Placed' BY DEF Lined, Placed, Remembers
<1>3. Spoken' BY DEF Spoken, OneOutcome, Remembers
<1> QED BY <1>1, <1>2, <1>3

-----------------------------------------------------------------------------
(*                        The steps of a job                                *)

LEMMA RowsKept ==
    ASSUME JobsOK, UNCHANGED <<repertoire, lastId>>
    PROVE  RowsTyped'
BY DEF JobsOK, InventionTypeOK, RowsTyped

LEMMA RecoverStep == JobsOK /\ Recover => JobsOK'
<1> SUFFICES ASSUME JobsOK, Recover PROVE JobsOK'
    OBVIOUS
<1> USE DEF JobsOK
<1>0. 0 \notin Commands BY InventionAssumption DEF Commands
<1>1. UNCHANGED <<repertoire, lastId, turn, worker, said, excused>>
      /\ generator' = Idle /\ generator.at = "off"
    BY DEF Recover, Generating, store, work, robot
<1>2. due' \in Seq(Commands) /\ Lined' BY LinedRecover
<1>3. jobs' \in [Commands -> [status : Statuses, attempts : Nat]]
      /\ \A r \in Commands :
            /\ jobs'[r].status = IF jobs[r].status = "processing" THEN "pending"
                                 ELSE jobs[r].status
    <2>1. \A r \in Commands :
             jobs'[r] = IF jobs[r].status = "processing"
                        THEN [jobs[r] EXCEPT !.status = "pending"] ELSE jobs[r]
        BY DEF Recover, TakenUp
    <2>2. \A r \in Commands :
             /\ jobs'[r] \in [status : Statuses, attempts : Nat]
             /\ jobs'[r].status = IF jobs[r].status = "processing" THEN "pending"
                                  ELSE jobs[r].status
        BY <2>1 DEF InventionTypeOK, Statuses
    <2>3. jobs' = [r \in Commands |-> jobs'[r]] BY DEF Recover
    <2> QED BY <2>2, <2>3
<1>4. InventionTypeOK' BY <1>1, <1>2, <1>3, RestingMemory DEF InventionTypeOK
<1>5. Placed' BY <1>1, <1>3, RestingMemory DEF Placed
<1>6. Spoken'
    <2>1. \A r \in Commands : jobs'[r].status = "completed"
                                   <=> jobs[r].status = "completed"
        BY <1>3
    <2>2. \A r \in Commands : generator.job # r
        BY <1>0, <1>1 DEF InventionTypeOK
    <2>3. OneOutcome' BY <1>1, <2>1, <2>2 DEF Spoken, OneOutcome
    <2> QED BY <1>1, <2>1, <2>3, RestingMemory DEF Spoken
<1> QED BY <1>2, <1>4, <1>5, <1>6

LEMMA ClaimStep == JobsOK /\ Claim => JobsOK'
<1> SUFFICES ASSUME JobsOK, Claim PROVE JobsOK'
    OBVIOUS
<1> USE DEF JobsOK
<1> DEFINE job == Head(due)
<1>0. 0 \notin Commands BY InventionAssumption DEF Commands
<1>1. UNCHANGED <<repertoire, lastId, turn, worker, said, excused>>
      /\ generator.at = "idle" /\ due # <<>> /\ due' = Tail(due)
    BY DEF Claim, Generating, store, work, robot
<1>2. job \in Commands /\ jobs[job].status = "pending"
    <2>1. due \in Seq(Commands) /\ job = due[1] /\ 1 \in 1..Len(due)
        BY <1>1 DEF InventionTypeOK
    <2> QED BY <2>1 DEF Lined
<1>3. Becomes(job, "processing")
    <2> DEFINE begun == [status |-> "processing", attempts |-> jobs[job].attempts + 1]
    <2>1. jobs' = [jobs EXCEPT ![job] = begun]
        BY <1>2 DEF Claim, InventionTypeOK
    <2>2. begun \in [status : Statuses, attempts : Nat] /\ begun.status = "processing"
        BY <1>2 DEF Statuses, InventionTypeOK
    <2> HIDE DEF begun, job
    <2> QED BY <1>2, <2>1, <2>2 DEF InventionTypeOK, Becomes
<1>4. due' \in Seq(Commands) /\ Lined'
    <2>1. jobs'[Head(due)].status # "pending"
          /\ \A q \in Commands \ {Head(due)} : jobs'[q] = jobs[q]
        BY <1>3 DEF Becomes
    <2> QED BY <1>1, <2>1, LinedTail
<1>5. /\ generator'.at = "generating" /\ generator'.job = job
      /\ generator' \in [at : Stages, job : {0} \cup Commands,
                         spec : {generator'.spec}, motion : {generator'.motion}]
    <2>1. generator' = [Idle EXCEPT !.at = "generating", !.job = job] BY DEF Claim
    <2> HIDE DEF job
    <2> QED BY <1>2, <2>1, RestingMemory DEF Stages
<1> HIDE DEF job
<1>6. InventionTypeOK'
    BY <1>1, <1>2, <1>3, <1>4, <1>5 DEF InventionTypeOK, Becomes
<1>7. Placed'
    <2>1. \A r \in Commands : jobs[r].status # "processing"
        BY <1>0, <1>1 DEF Placed, InventionTypeOK
    <2> QED BY <1>2, <1>3, <1>5, <2>1 DEF Placed, Becomes
<1>8. Spoken'
    <2>1. \A r \in Commands : generator.job # r
        BY <1>0, <1>1 DEF InventionTypeOK
    <2>2. \A r \in Commands : jobs'[r].status = "completed"
                                   <=> jobs[r].status = "completed"
        BY <1>2, <1>3 DEF Becomes
    <2>3. OneOutcome' BY <1>1, <2>1, <2>2 DEF Spoken, OneOutcome
    <2> QED BY <1>1, <1>5, <2>2, <2>3 DEF Spoken
<1> QED BY <1>4, <1>6, <1>7, <1>8

LEMMA GenerateStep ==
    ASSUME JobsOK, GenerateFails \/ \E text \in Texts : Generate(text)
    PROVE  JobsOK' /\ UNCHANGED <<repertoire, lastId, worker>>
           /\ generator'.motion \in {generator.motion, NoMotion}
<1>1. UNCHANGED <<repertoire, lastId, turn, worker, said, excused>>
      /\ generator.at = "generating"
    BY DEF Generate, GenerateFails, Generating, store, work, robot
<1>2. RowsTyped' BY <1>1, RowsKept
<1>3. CASE \E hopeless \in BOOLEAN : GiveUp(hopeless)
    <2>1. PICK hopeless \in BOOLEAN : GiveUp(hopeless) BY <1>3
    <2>2. JobsOK' BY <1>1, <1>2, <2>1, GivenUpOK
    <2>3. generator'.motion \in {generator.motion, NoMotion}
        <3>1. generator.job \in Commands
              /\ jobs[generator.job].status = "processing"
              /\ InventionTypeOK /\ Lined
            BY <1>1 DEF JobsOK, InventionTypeOK, Placed
        <3>2. generator' = Idle \/ Remembers("failing", generator.motion)
            BY <2>1, <3>1, GivenUp
        <3> QED BY <3>2, RestingMemory DEF Remembers
    <2> QED BY <1>1, <2>2, <2>3
<1>4. CASE \E spec : /\ generator' = [generator EXCEPT !.at = "remembering",
                                                       !.spec = spec]
                     /\ UNCHANGED queue
    <2>1. Remembers("remembering", generator.motion)
        BY <1>4, GeneratorMoves DEF JobsOK, Stages
    <2>2. JobsOK' BY <1>1, <1>2, <1>4, <2>1, GoesOnOK DEF queue
    <2> QED BY <1>1, <2>1, <2>2 DEF Remembers
<1> QED BY <1>3, <1>4 DEF Generate, GenerateFails

LEMMA HandedOverStep ==
    ASSUME JobsOK, Preempted \/ Shutdown
    PROVE  JobsOK' /\ UNCHANGED <<repertoire, lastId>>
           /\ generator'.motion = NoMotion /\ worker' \in {worker, Waiting}
<1>1. /\ UNCHANGED <<repertoire, lastId, turn, said, excused>>
      /\ worker' \in {worker, Waiting}
      /\ generator.at = "generating" /\ generator' \in {Idle, Off}
    BY DEF Preempted, Shutdown, Stops, Generating, store, work, robot
<1>2. generator.job \in Commands /\ jobs[generator.job].status = "processing"
      /\ InventionTypeOK /\ Lined
    BY <1>1 DEF JobsOK, InventionTypeOK, Placed
<1>3. PICK delayed \in BOOLEAN : HandBack(generator.job, delayed)
    BY DEF Preempted, Shutdown
<1> DEFINE status == IF delayed THEN "delayed" ELSE "pending"
<1>4. Becomes(generator.job, status) /\ due' \in Seq(Commands) /\ Lined'
    BY <1>2, <1>3, HandedBack
<1>5. status \in {"pending", "delayed"} OBVIOUS
<1>6. RowsTyped' BY <1>1, RowsKept
<1> HIDE DEF status
<1>7. JobsOK'
    <2>1. UNCHANGED <<turn, said, excused>> BY <1>1
    <2> QED BY <1>1, <1>2, <1>4, <1>5, <1>6, <2>1, GivenBackOK
<1> QED BY <1>1, <1>7, RestingMemory

LEMMA DelayElapsesStep ==
    ASSUME JobsOK, NEW r \in Commands, DelayElapses(r)
    PROVE  JobsOK' /\ UNCHANGED <<repertoire, lastId, worker, generator>>
<1> USE DEF JobsOK
<1>1. /\ UNCHANGED <<repertoire, lastId, turn, worker, generator, said, excused>>
      /\ jobs[r].status = "delayed" /\ HandBack(r, FALSE)
    BY DEF DelayElapses, store, work, robot
<1>2. Becomes(r, "pending") /\ due' \in Seq(Commands) /\ Lined'
    <2>1. jobs[r].status # "pending" BY <1>1
    <2> QED BY <1>1, <2>1, HandedBack
<1>3. InventionTypeOK' BY <1>1, <1>2 DEF InventionTypeOK, Becomes
<1>4. Placed' BY <1>1, <1>2 DEF Placed, Becomes, InventionTypeOK
<1>5. Spoken' BY <1>1, <1>2 DEF Spoken, OneOutcome, Becomes, InventionTypeOK
<1> QED BY <1>1, <1>2, <1>3, <1>4, <1>5

LEMMA RememberStep ==
    ASSUME JobsOK, OneRowAnId, RememberFails \/ \E now \in Times : Remember(now)
    PROVE  JobsOK'
<1>1. UNCHANGED <<turn, worker, said, excused>> /\ generator.at = "remembering"
    BY DEF Remember, RememberFails, Generating, work, robot
<1>2. RowsTyped'
    <2>1. CASE UNCHANGED <<repertoire, lastId>> BY <2>1, RowsKept
    <2>2. CASE \E now \in Times :
                 /\ repertoire' = Remembered(generator.job, generator.spec, now)
                 /\ lastId' = lastId + 1
        BY <2>2, RememberedRows DEF JobsOK, InventionTypeOK, RowsTyped
    <2> QED BY <2>1, <2>2 DEF Remember, RememberFails, store
<1>3. CASE \E hopeless \in BOOLEAN : GiveUp(hopeless)
    BY <1>1, <1>2, <1>3, GivenUpOK
<1>4. CASE \E motion : Holds(motion) /\ UNCHANGED queue
    <2>1. PICK motion : Holds(motion) /\ UNCHANGED queue BY <1>4
    <2>2. Remembers("completing", motion)
        BY <2>1, GeneratorMoves DEF Holds, JobsOK, Stages
    <2> QED BY <1>1, <1>2, <2>1, <2>2, GoesOnOK DEF queue
<1> QED BY <1>3, <1>4 DEF Remember, RememberFails

LEMMA CompleteStep ==
    ASSUME JobsOK, Complete
    PROVE  JobsOK' /\ UNCHANGED <<repertoire, lastId, worker>>
           /\ generator'.motion = generator.motion
<1>1. /\ UNCHANGED <<repertoire, lastId, turn, worker, said, excused>>
      /\ generator.at = "completing" /\ jobs' = Completed(generator.job)
      /\ due' = due
    BY DEF Complete, Generating, store, work, robot
<1>2. generator.job \in Commands /\ jobs[generator.job].status = "processing"
      /\ InventionTypeOK /\ Lined
    BY <1>1 DEF JobsOK, InventionTypeOK, Placed
<1>3. Becomes(generator.job, "completed") /\ due' \in Seq(Commands) /\ Lined'
    BY <1>1, <1>2, CompletedOne
<1>4. Remembers("ready", generator.motion)
    BY <1>2, GeneratorMoves DEF Complete, Ahead, Stages
<1>5. RowsTyped' BY <1>1, RowsKept
<1>6. JobsOK'
    <2>1. UNCHANGED <<turn, said, excused, worker>> BY <1>1
    <2> QED BY <1>2, <1>3, <1>4, <1>5, <2>1, EndedOK
<1> QED BY <1>1, <1>4, <1>6 DEF Remembers

LEMMA OneLine ==
    ASSUME JobsOK, NEW r \in Commands, said[r] # <<>>
    PROVE  Len(said[r]) = 1
<1> DEFINE Line == {"ready", "failing"}
<1>1. ASSUME NEW S, NEW lines \in Seq(S), lines # <<>>, Len(lines) <= 1
      PROVE  Len(lines) = 1
    <2> DEFINE n == Len(lines)
    <2>1. n \in Nat /\ n # 0 /\ n <= 1 BY <1>1
    <2> HIDE DEF n
    <2>2. n = 1 BY <2>1
    <2> QED BY <2>2 DEF n
<1>2. said[r] \in Seq(Line) /\ Len(said[r]) <= 1
    BY DEF JobsOK, InventionTypeOK, Spoken, OneOutcome
<1> HIDE DEF Line
<1> QED BY <1>1, <1>2

(* The one line of a job that is over: it is spoken, or a fault swallows it.*)
LEMMA SpeakOutcomeStep ==
    ASSUME JobsOK, SpeakOutcome
    PROVE  JobsOK' /\ UNCHANGED <<repertoire, lastId, worker>>
           /\ generator'.motion \in {generator.motion, NoMotion}
<1> USE DEF JobsOK
<1> DEFINE job == generator.job
<1>0. 0 \notin Commands BY InventionAssumption DEF Commands
<1>1. /\ UNCHANGED <<repertoire, lastId, turn, worker, jobs, due>>
      /\ generator.at \in {"ready", "failing"}
    BY DEF SpeakOutcome, Generating, store, work, queue
<1>2. job \in Commands /\ jobs[job].status = "completed" /\ said[job] = <<>>
    BY <1>1 DEF InventionTypeOK, Placed, Spoken
<1>3. /\ generator'.at \in {"performing", "idle"}
      /\ generator'.at = "performing" => generator'.job = job
      /\ generator'.at = "idle" => generator'.job = 0
      /\ generator'.motion \in {generator.motion, NoMotion}
      /\ generator' \in [at : Stages, job : {0} \cup Commands,
                         spec : {generator'.spec}, motion : {generator'.motion}]
    <2>1. CASE generator' = [generator EXCEPT !.at = "performing"]
        BY <1>2, <2>1, GeneratorMoves DEF Remembers, Stages
    <2>2. CASE generator' = Idle BY <2>2, RestingMemory
    <2> QED BY <2>1, <2>2 DEF SpeakOutcome
<1>4. /\ said' \in [Commands -> Seq({"ready", "failing"})]
      /\ excused \subseteq excused'
      /\ \A q \in Commands \ {job} : said'[q] = said[q]
      /\ Len(said'[job]) = 1 \/ (said'[job] = <<>> /\ job \in excused')
    <2>1. CASE said' = [said EXCEPT ![job] = Append(@, generator.at)]
               /\ UNCHANGED <<excused, mishaps>>
        <3>1. said' = [said EXCEPT ![job] = <<generator.at>>]
            BY <1>2, <2>1 DEF InventionTypeOK
        <3>2. <<generator.at>> \in Seq({"ready", "failing"}) BY <1>1
        <3> HIDE DEF job
        <3> QED BY <1>2, <2>1, <3>1, <3>2 DEF InventionTypeOK
    <2>2. CASE excused' = excused \cup {job} /\ UNCHANGED said
        BY <1>2, <2>2 DEF InventionTypeOK
    <2> QED BY <2>1, <2>2 DEF SpeakOutcome
<1> HIDE DEF job
<1>5. InventionTypeOK'
    BY <1>1, <1>2, <1>3, <1>4 DEF InventionTypeOK
<1>6. Lined' BY <1>1 DEF Lined
<1>7. Placed'
    <2>1. \A r \in Commands : jobs[r].status # "processing"
        BY <1>1, <1>2 DEF Placed, job
    <2> QED BY <1>1, <1>2, <1>3, <2>1 DEF Placed
<1>8. Spoken'
    <2>0. Len(<<>>) = 0 /\ Len(<<>>) # 1 OBVIOUS
    <2>1. Len(said'[job]) <= 1 /\ (job \in excused' \/ Len(said'[job]) = 1)
        <3>1. CASE Len(said'[job]) = 1 BY <3>1
        <3>2. CASE said'[job] = <<>> /\ job \in excused' BY <2>0, <3>2
        <3> QED BY <1>4, <3>1, <3>2
    <2>2. OneOutcome'
        <3> SUFFICES ASSUME NEW r \in Commands
                     PROVE  /\ Len(said'[r]) <= 1
                            /\ jobs'[r].status = "completed" /\ generator'.job # r
                               /\ r \notin excused' => Len(said'[r]) = 1
            BY DEF OneOutcome
        <3>1. CASE r = job BY <2>1, <3>1
        <3>2. CASE r # job
            BY <1>1, <1>4, <3>2 DEF Spoken, OneOutcome, job
        <3> QED BY <3>1, <3>2
    <2>3. \A r \in Commands : said'[r] # <<>> => jobs'[r].status = "completed"
        <3> SUFFICES ASSUME NEW r \in Commands, said'[r] # <<>>
                     PROVE  jobs[r].status = "completed"
            BY <1>1
        <3>1. CASE r = job BY <1>2, <3>1
        <3>2. CASE r # job
            <4>1. said'[r] = said[r] BY <1>4, <3>2
            <4> QED BY <4>1 DEF Spoken
        <3> QED BY <3>1, <3>2
    <2>4. generator'.at = "performing" => job \in excused' \/ said'[job] # <<>>
        BY <1>4, <2>0, Zenon
    <2> QED BY <1>3, <2>2, <2>3, <2>4 DEF Spoken
<1> QED BY <1>1, <1>3, <1>5, <1>6, <1>7, <1>8

LEMMA PerformInventionStep ==
    ASSUME JobsOK, PerformInvention
    PROVE  JobsOK' /\ UNCHANGED <<repertoire, lastId, worker>>
           /\ generator'.motion = NoMotion
<1> USE DEF JobsOK
<1>0. 0 \notin Commands BY InventionAssumption DEF Commands
<1>1. /\ UNCHANGED <<repertoire, lastId, turn, worker, jobs, due, said, excused>>
      /\ generator.at = "performing" /\ generator' = Idle
    BY DEF PerformInvention, Generating, store, work, queue
<1>2. InventionTypeOK' /\ Lined'
    BY <1>1, RestingMemory DEF InventionTypeOK, Lined
<1>3. Placed'
    <2>1. jobs[generator.job].status = "completed" BY <1>1 DEF Placed
    <2> QED BY <1>1, <2>1, RestingMemory DEF Placed
<1>4. Spoken'
    <2>1. OneOutcome'
        <3> SUFFICES ASSUME NEW r \in Commands
                     PROVE  /\ Len(said[r]) <= 1
                            /\ jobs[r].status = "completed" /\ r \notin excused
                                  => Len(said[r]) = 1
            BY <1>1 DEF OneOutcome
        <3>1. CASE r # generator.job BY <3>1 DEF Spoken, OneOutcome
        <3>2. CASE r = generator.job
            <4>1. Len(said[r]) <= 1 BY DEF Spoken, OneOutcome
            <4>2. r \in excused \/ said[r] # <<>> BY <1>1, <3>2 DEF Spoken
            <4> QED BY <4>1, <4>2, OneLine
        <3> QED BY <3>1, <3>2
    <2> QED BY <1>1, <2>1, RestingMemory DEF Spoken
<1> QED BY <1>1, <1>2, <1>3, <1>4, RestingMemory

LEMMA CrashStep ==
    ASSUME JobsOK, Crash
    PROVE  JobsOK' /\ UNCHANGED <<repertoire, lastId>>
           /\ generator'.motion = NoMotion /\ worker' = Waiting
<1> USE DEF JobsOK
<1>0. 0 \notin Commands BY InventionAssumption DEF Commands
<1>1. /\ UNCHANGED <<repertoire, lastId, turn, jobs, due, said>>
      /\ generator' = Off /\ worker' = Waiting
      /\ excused' = IF generator.at \in {"ready", "failing"}
                    THEN excused \cup {generator.job} ELSE excused
    BY DEF Crash, Stops, store, robot, queue
<1>2. InventionTypeOK' /\ Lined'
    BY <1>1, RestingMemory DEF InventionTypeOK, Lined, Waiting
<1>3. Placed' BY <1>1, RestingMemory DEF Placed
<1>4. Spoken'
    <2>1. OneOutcome'
        <3> SUFFICES ASSUME NEW r \in Commands
                     PROVE  /\ Len(said[r]) <= 1
                            /\ jobs[r].status = "completed" /\ r \notin excused'
                                  => Len(said[r]) = 1
            BY <1>1 DEF OneOutcome
        <3>1. CASE r # generator.job BY <1>1, <3>1 DEF Spoken, OneOutcome
        <3>2. CASE r = generator.job
            <4>1. Len(said[r]) <= 1 /\ said[r] \in Seq({"ready", "failing"})
                BY DEF Spoken, OneOutcome, InventionTypeOK
            <4>2. CASE generator.at \in {"ready", "failing"} BY <1>1, <3>2, <4>1, <4>2
            <4>3. CASE generator.at \in {"generating", "remembering", "completing"}
                BY <1>1, <3>2, <4>1, <4>3 DEF Placed
            <4>4. CASE generator.at = "performing"
                <5>1. r \in excused \/ said[r] # <<>> BY <3>2, <4>4 DEF Spoken
                <5> QED BY <1>1, <4>1, <5>1, OneLine
            <4>5. generator.at \in Stages /\ generator.at \notin {"off", "idle"}
                BY <1>0, <3>2 DEF InventionTypeOK
            <4> QED BY <4>2, <4>3, <4>4, <4>5 DEF Stages
        <3> QED BY <3>1, <3>2
    <2> QED BY <1>1, <2>1, RestingMemory DEF Spoken
<1> QED BY <1>1, <1>2, <1>3, <1>4, RestingMemory

-----------------------------------------------------------------------------
(*                    What is held is what is recalled                      *)

(* Rows are only ever dropped, or added under an id that is new.            *)
RowsMove ==
    \/ UNCHANGED <<repertoire, lastId>>
    \/ /\ lastId' = lastId + 1
       /\ \A row \in repertoire' : row.id # lastId + 1 => row \in repertoire
StillRecallable(motion) ==
    motion.id \in 0..lastId' /\ \A row \in repertoire' : row.id = motion.id => row = motion

(* Whatever happens to the rows, a motion that was held is found as it was, *)
(* or not at all.                                                           *)
LEMMA HeldStaysRecallable ==
    ASSUME InventionTypeOK, RowsMove, NEW motion, Recallable(motion)
    PROVE  StillRecallable(motion)
<1>1. lastId \in Nat /\ motion.id \in 0..lastId
      /\ \A row \in repertoire : row.id = motion.id => row = motion
    BY DEF InventionTypeOK, Recallable, Known
<1>2. CASE UNCHANGED <<repertoire, lastId>>
    BY <1>1, <1>2 DEF StillRecallable
<1>3. CASE /\ lastId' = lastId + 1
           /\ \A row \in repertoire' : row.id # lastId + 1 => row \in repertoire
    BY <1>1, <1>3 DEF StillRecallable
<1> QED BY <1>2, <1>3 DEF RowsMove

LEMMA RowIsRecallable ==
    ASSUME InventionTypeOK, OneRowAnId, NEW row \in repertoire
    PROVE  Recallable(row)
BY DEF InventionTypeOK, OneRowAnId, Recallable, Known

LEMMA NothingIsRecallable ==
    ASSUME InventionTypeOK PROVE Recallable(NoMotion)
<1>1. NoMotion.id = 0 BY DEF NoMotion
<1>2. lastId \in Nat /\ \A row \in repertoire : row.id # 0
    BY DEF InventionTypeOK
<1> QED BY <1>1, <1>2 DEF Recallable, Known

LEMMA RememberedMotion ==
    ASSUME InventionTypeOK, OneRowAnId, NEW now \in Times, Remember(now)
    PROVE  /\ OneRowAnId' /\ RowsMove
           /\ generator'.at = "completing" =>
                 Recallable(generator'.motion) \/ generator'.motion \in repertoire'
           /\ generator'.at # "completing" =>
                 generator'.motion \in {generator.motion, NoMotion}
<1> DEFINE job == generator.job
           rows == Remembered(job, generator.spec, now)
<1>0. generator \in [at : Stages, job : {0} \cup Commands,
                     spec : {generator.spec}, motion : {generator.motion}]
    BY DEF InventionTypeOK
<1>1. CASE /\ Stored(job) # {} /\ Holds(Newest(Stored(job)))
           /\ UNCHANGED <<store, queue>>
    <2>1. Stored(job) \subseteq repertoire BY DEF Stored
    <2>2. IsFiniteSet(Stored(job)) BY <2>1, FS_Subset DEF InventionTypeOK
    <2>3. /\ \A a \in Stored(job) : a.at \in Nat /\ a.id \in Nat
          /\ \A a, b \in Stored(job) : a.id = b.id => a = b
        BY <2>1 DEF InventionTypeOK, OneRowAnId
    <2>4. Newest(Stored(job)) \in repertoire
        BY <1>1, <2>1, <2>2, <2>3, NewestIsARow
    <2>5. Remembers("completing", Newest(Stored(job)))
        BY <1>1, GeneratorMoves DEF Holds, Stages
    <2>6. OneRowAnId' /\ RowsMove BY <1>1 DEF store, OneRowAnId, RowsMove
    <2> QED BY <2>4, <2>5, <2>6, RowIsRecallable DEF Remembers
<1>2. CASE /\ repertoire' = rows /\ lastId' = lastId + 1
           /\ IF \E row \in rows : row.source = job
              THEN /\ Holds(CHOOSE row \in rows : row.source = job)
                   /\ UNCHANGED queue
              ELSE GiveUp(TRUE)
    <2>1. OneRowAnId' /\ RowsMove
        BY <1>2, RememberedRows DEF OneRowAnId, RowsMove
    <2>2. CASE /\ \E row \in rows : row.source = job
               /\ Holds(CHOOSE row \in rows : row.source = job)
        <3> HIDE DEF rows
        <3>1. (CHOOSE row \in rows : row.source = job) \in rows BY <2>2
        <3>2. Remembers("completing", CHOOSE row \in rows : row.source = job)
            BY <2>2, GeneratorMoves DEF Holds, Stages
        <3> QED BY <1>2, <2>1, <3>1, <3>2 DEF Remembers
    <2>3. CASE GiveUp(TRUE)
        <3>1. generator' = Idle \/ Remembers("failing", generator.motion)
            BY <2>3, GeneratorMoves DEF GiveUp, Ahead, Stages
        <3> QED BY <2>1, <3>1, RestingMemory DEF Remembers
    <2> QED BY <1>2, <2>2, <2>3
<1> QED BY <1>1, <1>2 DEF Remember

(* A row that is found under the id of what was named is what was named.    *)
LEMMA PerformedAsNamed ==
    ASSUME NEW command, NEW motion, Recallable(motion)
    PROVE  \A p \in Performance(command, motion) :
              p.played.name = p.named.name /\ p.played.text = p.named.text
BY DEF Performance, Recallable

(* What the worker and the generator come to hold was held, or is recalled. *)
LEMMA HeldRecallableKept ==
    ASSUME InventionTypeOK, InventionTypeOK', OneRowAnId, OneRowAnId', RowsMove,
           HeldRecallable,
           \/ worker'.motion \in {worker.motion, NoMotion}
           \/ worker'.motion \in repertoire',
           \/ generator'.motion \in {generator.motion, NoMotion}
           \/ generator'.motion \in repertoire'
    PROVE  HeldRecallable'
<1>1. /\ StillRecallable(worker.motion) /\ StillRecallable(generator.motion)
      /\ StillRecallable(NoMotion)
    BY HeldStaysRecallable, NothingIsRecallable DEF HeldRecallable
<1>2. \A row \in repertoire' : StillRecallable(row)
    BY DEF InventionTypeOK, OneRowAnId, StillRecallable
<1>3. StillRecallable(worker'.motion) /\ StillRecallable(generator'.motion)
    BY <1>1, <1>2
<1> QED BY <1>3 DEF HeldRecallable, Recallable, Known, StillRecallable

LEMMA WorkerHolds ==
    ASSUME InventionTypeOK, OneRowAnId,
           Resume \/ Look \/ LookFails \/ Enqueue \/ SaveReply \/ Deliver
               \/ DeliverFails \/ Perform
    PROVE  worker'.motion \in {worker.motion, NoMotion} \cup repertoire
<1>0. Waiting.motion = NoMotion BY DEF Waiting
<1>1. CASE Look
    <2>1. Recalled(Asks[turn]) \in {NoMotion} \cup repertoire BY RecalledIsARow
    <2>2. worker'.motion \in {NoMotion, Recalled(Asks[turn])}
        BY <1>1, <1>0 DEF Look, Answering, Waiting
    <2> QED BY <2>1, <2>2
<1>2. CASE SaveReply BY <1>2 DEF SaveReply, InventionTypeOK
<1>3. CASE Deliver BY <1>3 DEF Deliver, InventionTypeOK
<1>4. CASE Resume \/ LookFails \/ Enqueue \/ DeliverFails \/ Perform
    BY <1>0, <1>4 DEF Resume, LookFails, Enqueue, DeliverFails, Perform, Answering,
                      Waiting
<1> QED BY <1>1, <1>2, <1>3, <1>4

(* What is shown was named before, and found as it was named.               *)
LEMMA ShownAsNamed ==
    ASSUME HeldRecallable, PlaysWhatItNamed,
           \/ UNCHANGED shown
           \/ shown' = shown \cup Performance(turn, worker.motion)
           \/ shown' = shown \cup Performance(generator.job, generator.motion)
    PROVE  PlaysWhatItNamed'
BY PerformedAsNamed DEF HeldRecallable, PlaysWhatItNamed

(* A step of the worker, of the generator, of a delay or a restart.         *)
LEMMA NextIInv == IInv /\ [InventionNext]_inventionVars => IInv'
<1> SUFFICES ASSUME IInv, [InventionNext]_inventionVars PROVE IInv'
    OBVIOUS
<1>0. JobsOK /\ InventionTypeOK /\ HeldRecallable /\ OneRowAnId /\ PlaysWhatItNamed
    BY DEF IInv, JobsOK
<1> DEFINE Kept == UNCHANGED <<repertoire, lastId>>
           WorkerHeld == worker'.motion \in {worker.motion, NoMotion} \cup repertoire'
           GeneratorHeld == generator'.motion \in {generator.motion, NoMotion}
                                                   \cup repertoire'
           Shows == \/ UNCHANGED shown
                    \/ shown' = shown \cup Performance(turn, worker.motion)
                    \/ shown' = shown \cup Performance(generator.job, generator.motion)
<1>1. ASSUME JobsOK', OneRowAnId', RowsMove, WorkerHeld, GeneratorHeld, Shows
      PROVE  IInv'
    <2>1. HeldRecallable' BY <1>0, <1>1, HeldRecallableKept DEF JobsOK
    <2>2. PlaysWhatItNamed' BY <1>0, <1>1, ShownAsNamed
    <2> QED BY <1>1, <2>1, <2>2 DEF IInv, JobsOK
<1>2. Kept => OneRowAnId' /\ RowsMove BY <1>0 DEF OneRowAnId, RowsMove
<1>3. UNCHANGED worker => WorkerHeld OBVIOUS
<1>4. worker' = Waiting => WorkerHeld BY DEF Waiting
<1>5. UNCHANGED generator => GeneratorHeld OBVIOUS
<1>6. CASE \/ Resume \/ Look \/ LookFails \/ Enqueue \/ SaveReply \/ Deliver
           \/ DeliverFails \/ Perform
    <2>1. JobsOK' /\ Kept /\ UNCHANGED generator
        BY <1>0, <1>6, WorkerStep, EnqueueStep
    <2>2. WorkerHeld BY <1>0, <1>6, <2>1, WorkerHolds
    <2>3. Shows
        BY <1>6 DEF Resume, Look, LookFails, Enqueue, SaveReply, Deliver,
                    DeliverFails, Perform, robot
    <2> QED BY <1>1, <1>2, <1>5, <2>1, <2>2, <2>3
<1>7. CASE Recover
    <2>1. JobsOK' BY <1>0, <1>7, RecoverStep
    <2>2. Kept /\ UNCHANGED worker /\ generator' = Idle /\ UNCHANGED shown
        BY <1>7 DEF Recover, Generating, store, work, robot
    <2>3. GeneratorHeld BY <2>2, RestingMemory
    <2> QED BY <1>1, <1>2, <1>3, <2>1, <2>2, <2>3
<1>8. CASE Claim
    <2>1. JobsOK' BY <1>0, <1>8, ClaimStep
    <2>2. Kept /\ UNCHANGED worker /\ UNCHANGED shown
        BY <1>8 DEF Claim, Generating, store, work, robot
    <2>3. generator'.motion = NoMotion
        <3>1. generator' = [Idle EXCEPT !.at = "generating", !.job = Head(due)]
            BY <1>8 DEF Claim
        <3> QED BY <3>1 DEF Idle, Off
    <2> QED BY <1>1, <1>2, <1>3, <2>1, <2>2, <2>3
<1>9. CASE GenerateFails \/ \E text \in Texts : Generate(text)
    <2>1. JobsOK' /\ Kept /\ UNCHANGED worker /\ GeneratorHeld
        BY <1>0, <1>9, GenerateStep
    <2>2. UNCHANGED shown BY <1>9 DEF Generate, GenerateFails, robot
    <2> QED BY <1>1, <1>2, <1>3, <2>1, <2>2
<1>10. CASE Preempted \/ Shutdown
    <2>1. JobsOK' /\ Kept /\ GeneratorHeld /\ worker' \in {worker, Waiting}
        BY <1>0, <1>10, HandedOverStep
    <2>2. UNCHANGED shown BY <1>10 DEF Preempted, Shutdown, Stops, robot
    <2> QED BY <1>1, <1>2, <1>3, <1>4, <2>1, <2>2
<1>11. CASE \E now \in Times : Remember(now)
    <2>1. PICK now \in Times : Remember(now) BY <1>11
    <2>2. JobsOK' BY <1>0, <1>11, RememberStep
    <2>3. /\ OneRowAnId' /\ RowsMove
          /\ generator'.at = "completing" =>
                Recallable(generator'.motion) \/ generator'.motion \in repertoire'
          /\ generator'.at # "completing" => GeneratorHeld
        BY <1>0, <2>1, RememberedMotion
    <2>4. UNCHANGED <<worker, shown>> BY <2>1 DEF Remember, Generating, work, robot
    <2>5. HeldRecallable'
        <3>1. CASE GeneratorHeld
            BY <1>0, <1>3, <2>2, <2>3, <2>4, <3>1, HeldRecallableKept DEF JobsOK
        <3>2. CASE Recallable(generator'.motion)
            <4>1. /\ StillRecallable(generator'.motion)
                  /\ StillRecallable(worker.motion)
                BY <1>0, <2>3, <3>2, HeldStaysRecallable DEF HeldRecallable
            <4> QED BY <2>4, <4>1 DEF HeldRecallable, Recallable, Known,
                                      StillRecallable
        <3> QED BY <2>3, <3>1, <3>2
    <2>6. PlaysWhatItNamed' BY <1>0, <2>4, ShownAsNamed
    <2> QED BY <2>2, <2>3, <2>5, <2>6 DEF IInv, JobsOK
<1>12. CASE RememberFails
    <2>1. JobsOK' BY <1>0, <1>12, RememberStep
    <2>2. Kept /\ UNCHANGED worker /\ UNCHANGED shown
        BY <1>12 DEF RememberFails, Generating, store, work, robot
    <2>3. GeneratorHeld
        <3>1. generator' = Idle \/ Remembers("failing", generator.motion)
            BY <1>0, <1>12, GeneratorMoves DEF RememberFails, GiveUp, Ahead, Stages
        <3> QED BY <3>1, RestingMemory DEF Remembers
    <2> QED BY <1>1, <1>2, <1>3, <2>1, <2>2, <2>3
<1>13. CASE Complete \/ SpeakOutcome
    <2>1. JobsOK' /\ Kept /\ UNCHANGED worker /\ GeneratorHeld
        BY <1>0, <1>13, CompleteStep, SpeakOutcomeStep
    <2>2. UNCHANGED shown BY <1>13 DEF Complete, SpeakOutcome, robot
    <2> QED BY <1>1, <1>2, <1>3, <2>1, <2>2
<1>14. CASE PerformInvention
    <2>1. JobsOK' /\ Kept /\ UNCHANGED worker /\ GeneratorHeld
        BY <1>0, <1>14, PerformInventionStep
    <2>2. Shows BY <1>14 DEF PerformInvention
    <2> QED BY <1>1, <1>2, <1>3, <2>1, <2>2
<1>15. CASE \E r \in Commands : DelayElapses(r)
    <2>1. JobsOK' /\ Kept /\ UNCHANGED <<worker, generator>>
        BY <1>0, <1>15, DelayElapsesStep
    <2>2. UNCHANGED shown BY <1>15 DEF DelayElapses, robot
    <2> QED BY <1>1, <1>2, <1>3, <1>5, <2>1, <2>2
<1>16. CASE Crash
    <2>1. JobsOK' /\ Kept /\ GeneratorHeld /\ worker' = Waiting
        BY <1>0, <1>16, CrashStep
    <2>2. UNCHANGED shown BY <1>16 DEF Crash, Stops, robot
    <2> QED BY <1>1, <1>2, <1>4, <2>1, <2>2
<1>17. CASE UNCHANGED inventionVars
    <2>1. UNCHANGED <<repertoire, lastId, turn, worker, jobs, due, generator, said,
                      shown, excused>>
        BY <1>17 DEF inventionVars, store, work, queue, robot
    <2>2. JobsOK'
        BY <1>0, <2>1 DEF JobsOK, InventionTypeOK, Lined, Placed, Spoken, OneOutcome
    <2> QED BY <1>1, <1>2, <1>3, <1>5, <2>1, <2>2
<1> QED
    BY <1>6, <1>7, <1>8, <1>9, <1>10, <1>11, <1>12, <1>13, <1>14, <1>15, <1>16, <1>17
    DEF InventionNext

-----------------------------------------------------------------------------
(*                              Theorems                                    *)

(* The worker, the generator, the jobs, the lines and the repertoire agree  *)
(* on every job and on every motion that is held, however commands,         *)
(* generations, failures, preemptions, shutdowns and crashes interleave.    *)
THEOREM InventionInvariant == InventionSpec => []IInv
<1>1. Init => IInv BY InitIInv
<1>2. IInv /\ [InventionNext]_inventionVars => IInv' BY NextIInv
<1> QED BY <1>1, <1>2, PTL DEF InventionSpec

(* What is played is what was named, although motions are replaced, pruned  *)
(* and added in between: their ids are not used twice.                      *)
THEOREM PlayedIsNamed == InventionSpec => []PlaysWhatItNamed
<1>1. IInv => PlaysWhatItNamed BY DEF IInv
<1> QED BY <1>1, InventionInvariant, PTL

(* No job has two outcomes, and one that is over has had its line, but for  *)
(* a line that a fault swallowed.                                           *)
THEOREM JobsHaveOneOutcome == InventionSpec => []OneOutcome
<1>1. IInv => OneOutcome BY DEF IInv, Spoken
<1> QED BY <1>1, InventionInvariant, PTL

(* No job is stranded: one that is being processed is what the generator is *)
(* at or will recover, and the queue holds what is pending, once each.      *)
THEOREM JobsAreNotStranded == InventionSpec => []NoJobStranded
<1>1. IInv => NoJobStranded
    <2> SUFFICES ASSUME IInv, NEW r \in Commands
                 PROVE  /\ jobs[r].status = "processing" =>
                               generator.job = r \/ generator.at = "off"
                        /\ Cardinality({i \in 1..Len(due) : due[i] = r}) =
                               (IF jobs[r].status = "pending" THEN 1 ELSE 0)
        BY DEF NoJobStranded
    <2> DEFINE places == {i \in 1..Len(due) : due[i] = r}
    <2>1. CASE jobs[r].status = "pending"
        <3>1. PICK i \in 1..Len(due) : due[i] = r BY <2>1 DEF IInv, Lined
        <3>2. places = {i} BY <3>1 DEF IInv, Lined
        <3>3. Cardinality(places) = 1 BY <3>2, FS_Singleton
        <3> QED BY <2>1, <3>3 DEF IInv, Placed
    <2>2. CASE jobs[r].status # "pending"
        <3>1. places = {} BY <2>2 DEF IInv, Lined
        <3>2. Cardinality(places) = 0 BY <3>1, FS_EmptySet
        <3> QED BY <2>2, <3>2 DEF IInv, Placed
    <2> QED BY <2>1, <2>2
<1> QED BY <1>1, InventionInvariant, PTL
-----------------------------------------------------------------------------
(*            Recursion, one step at a time, and the extremes               *)

LEMMA LeastOne ==
    ASSUME NEW S \in SUBSET Nat, S # {}
    PROVE  \E m \in S : \A k \in S : m <= k
<1>1. PICK m \in S : \A k \in S : ~ (<<k, m>> \in OpToRel(<, Nat))
  BY NatLessThanWellFounded, WFMin
<1>2. ASSUME NEW k \in S PROVE m <= k
  <2>1. m \in Nat /\ k \in Nat OBVIOUS
  <2>2. k < m => <<k, m>> \in OpToRel(<, Nat) BY <2>1 DEF OpToRel
  <2>3. ~ (<<k, m>> \in OpToRel(<, Nat)) BY <1>1, Zenon
  <2>4. ~ (k < m) BY <2>2, <2>3, Zenon
  <2> QED BY <2>1, <2>4
<1> QED BY <1>2

LEMMA Climb ==
    ASSUME NEW n \in Nat, NEW I, 0 \in I, \A k \in 1..n : k - 1 \in I => k \in I
    PROVE  0..n \subseteq I
<1> DEFINE out == (0..n) \ I
<1>1. ASSUME out # {} PROVE FALSE
  <2>1. out \in SUBSET Nat OBVIOUS
  <2> HIDE DEF out
  <2>2. PICK m \in out : \A k \in out : m <= k BY <1>1, <2>1, LeastOne
  <2> USE DEF out
  <2>3. m \in 1..n /\ m - 1 \notin out BY <2>2
  <2> QED BY <2>2, <2>3
<1> QED BY <1>1

(* f is what the first m steps of a recursion make of the start.            *)
Follows(f, m, S, start, step) ==
    /\ f \in [0..m -> S] /\ f[0] = start
    /\ \A k \in 1..m : f[k] = step[<<k, f[k - 1]>>]

LEMMA OneStepFurther ==
    ASSUME NEW n \in Nat, NEW S, NEW start \in S, NEW step \in [(1..n) \X S -> S],
           NEW k \in 1..n, NEW f, Follows(f, k - 1, S, start, step)
    PROVE  \E g : Follows(g, k, S, start, step)
<1> DEFINE g == [j \in 0..k |-> IF j = k THEN step[<<k, f[k - 1]>>] ELSE f[j]]
<1>2. f \in [0..(k - 1) -> S] /\ k - 1 \in 0..(k - 1) BY DEF Follows
<1>3. step[<<k, f[k - 1]>>] \in S BY <1>2
<1>4. g \in [0..k -> S] BY <1>2, <1>3
<1>5. g[0] = start BY DEF Follows
<1>6. ASSUME NEW j \in 1..k PROVE g[j] = step[<<j, g[j - 1]>>]
  <2>1. g[j - 1] = f[j - 1] OBVIOUS
  <2>2. CASE j = k
    <3>1. g[j] = step[<<k, f[k - 1]>>] BY <2>2
    <3> QED BY <2>1, <2>2, <3>1
  <2>3. CASE j # k
    <3>1. j \in 1..(k - 1) /\ g[j] = f[j] BY <2>3
    <3>2. f[j] = step[<<j, f[j - 1]>>] BY <3>1 DEF Follows
    <3> QED BY <2>1, <3>1, <3>2
  <2> QED BY <2>2, <2>3
<1> HIDE DEF g
<1>7. Follows(g, k, S, start, step) BY <1>4, <1>5, <1>6 DEF Follows
<1> QED BY <1>7

(* A recursion whose steps stay in S has a value for every number.          *)
LEMMA Unfolding ==
    ASSUME NEW n \in Nat, NEW S, NEW start \in S, NEW step \in [(1..n) \X S -> S]
    PROVE  \E f : Follows(f, n, S, start, step)
<1> DEFINE I == {m \in 0..n : \E f : Follows(f, m, S, start, step)}
<1>1. 0 \in I
  <2>1. Follows([k \in 0..0 |-> start], 0, S, start, step) BY DEF Follows
  <2> QED BY <2>1
<1>2. ASSUME NEW k \in 1..n, k - 1 \in I PROVE k \in I
  <2>1. \E f : Follows(f, k - 1, S, start, step) BY <1>2
  <2>2. \E f : Follows(f, k, S, start, step) BY <2>1, OneStepFurther
  <2> QED BY <2>2
<1>3. n \in I
  <2> HIDE DEF I
  <2>1. 0..n \subseteq I BY <1>1, <1>2, Climb
  <2> QED BY <2>1
<1> QED BY <1>3

LEMMA MaxOf ==
    ASSUME NEW n \in Nat, NEW S \in SUBSET (0..n), S # {}
    PROVE  Max(S) \in S /\ \A x \in S : x <= Max(S)
<1> DEFINE T == {n - x : x \in S}
<1>1. T \in SUBSET Nat /\ T # {}
  <2>1. \A x \in S : x \in 0..n BY Zenon
  <2>2. \A x \in S : n - x \in Nat BY <2>1
  <2> QED BY <2>2
<1>2. PICK m \in T : \A k \in T : m <= k
  <2> HIDE DEF T
  <2> QED BY <1>1, LeastOne
<1>3. PICK a \in S : m = n - a OBVIOUS
<1>4. ASSUME NEW x \in S PROVE a >= x
  <2>1. n - x \in T OBVIOUS
  <2>2. m <= n - x BY <1>2, <2>1
  <2> QED BY <1>3, <2>2
<1>5. \E a1 \in S : \A x \in S : a1 >= x BY <1>4
<1> QED BY <1>5 DEF Max

LEMMA MinOf ==
    ASSUME NEW S \in SUBSET Nat, S # {}
    PROVE  Min(S) \in S /\ \A x \in S : Min(S) <= x
<1>1. \E m \in S : \A k \in S : m <= k BY LeastOne
<1> QED BY <1>1 DEF Min

LEMMA Pairs ==
    ASSUME NEW a \in Int, NEW b \in Int
    PROVE  /\ Max({a, b}) = IF a >= b THEN a ELSE b
           /\ Min({a, b}) = IF a <= b THEN a ELSE b
<1>1. CASE a <= b BY <1>1 DEF Max, Min
<1>2. CASE b <= a BY <1>2 DEF Max, Min
<1> QED BY <1>1, <1>2

LEMMA RunningFacts ==
    ASSUME NEW s \in Seq(Int)
    PROVE  /\ Len(s) \in Nat
           /\ Running(s) \in [0..Len(s) -> Int]
           /\ Running(s)[0] = 0
           /\ \A k \in 1..Len(s) : Running(s)[k] = Running(s)[k - 1] + s[k]
           /\ Total(s) = Running(s)[Len(s)] /\ Total(s) \in Int
<1> DEFINE n == Len(s)
           step == [p \in (1..n) \X Int |-> p[2] + s[p[1]]]
           Body(f) == [k \in 0..n |-> IF k = 0 THEN 0 ELSE f[k - 1] + s[k]]
           sum == CHOOSE f : f = Body(f)
<1>1. n \in Nat /\ s \in [1..n -> Int] OBVIOUS
<1>2. step \in [(1..n) \X Int -> Int] BY <1>1
<1>3. PICK f : Follows(f, n, Int, 0, step)
  <2> HIDE DEF step, n
  <2>1. 0 \in Int OBVIOUS
  <2>2. n \in Nat BY <1>1
  <2> QED BY <1>2, <2>1, <2>2, Unfolding
<1>3a. f \in [0..n -> Int] /\ f[0] = 0 /\ \A k \in 1..n : f[k] = step[<<k, f[k - 1]>>]
  BY <1>3 DEF Follows
<1>4. f = Body(f)
  <2>1. ASSUME NEW k \in 0..n PROVE f[k] = IF k = 0 THEN 0 ELSE f[k - 1] + s[k]
    <3>1. CASE k = 0 BY <1>3a, <3>1
    <3>2. CASE k # 0
      <4>1. k \in 1..n /\ k - 1 \in 0..n BY <1>1, <3>2
      <4>2. f[k] = step[<<k, f[k - 1]>>] BY <1>3a, <4>1
      <4>3. <<k, f[k - 1]>> \in (1..n) \X Int BY <1>3a, <4>1
      <4>4. step[<<k, f[k - 1]>>] = f[k - 1] + s[k] BY <4>3
      <4> QED BY <3>2, <4>2, <4>4
    <3> QED BY <3>1, <3>2
  <2> QED BY <1>3a, <2>1
<1>5. sum = Body(sum) BY <1>4, Zenon
<1>6. Running(s) = sum BY DEF Running
<1> HIDE DEF sum
<1>7. DOMAIN sum = 0..n BY <1>5
<1>8. sum[0] = 0 BY <1>1, <1>5
<1>9. ASSUME NEW k \in 1..n PROVE sum[k] = sum[k - 1] + s[k]
  <2>1. k \in 0..n /\ k # 0 BY <1>1
  <2> QED BY <1>5, <2>1
<1> DEFINE I == {k \in 0..n : sum[k] \in Int}
<1>10. 0..n \subseteq I
  <2>1. 0 \in I BY <1>1, <1>8
  <2>2. ASSUME NEW k \in 1..n, k - 1 \in I PROVE k \in I
    <3>1. sum[k] = sum[k - 1] + s[k] /\ s[k] \in Int BY <1>1, <1>9
    <3> QED BY <2>2, <3>1
  <2> HIDE DEF I
  <2> QED BY <1>1, <2>1, <2>2, Climb
<1>11. sum \in [0..n -> Int]
  <2>1. \A k \in 0..n : sum[k] \in Int BY <1>10
  <2>2. sum = [k \in 0..n |-> sum[k]] BY <1>5, <1>7
  <2> QED BY <2>1, <2>2
<1> QED BY <1>1, <1>6, <1>8, <1>9, <1>11 DEF Total

(* A function that grows by the terms of a sequence ends at their sum.      *)
LEMMA Telescope ==
    ASSUME NEW s \in Seq(Int), NEW f \in [0..Len(s) -> Int],
           \A k \in 1..Len(s) : f[k] = f[k - 1] + s[k]
    PROVE  Total(s) = f[Len(s)] - f[0]
<1> DEFINE n == Len(s)
           I == {k \in 0..n : Running(s)[k] = f[k] - f[0]}
<1>1. n \in Nat OBVIOUS
<1>2. Running(s) \in [0..n -> Int] /\ Running(s)[0] = 0 /\ Total(s) = Running(s)[n]
      /\ \A k \in 1..n : Running(s)[k] = Running(s)[k - 1] + s[k]
  BY RunningFacts
<1>3. 0 \in I BY <1>1, <1>2
<1>4. ASSUME NEW k \in 1..n, k - 1 \in I PROVE k \in I
  <2>1. k - 1 \in 0..n /\ k \in 0..n /\ s[k] \in Int BY <1>1
  <2>2. Running(s)[k] = Running(s)[k - 1] + s[k] /\ f[k] = f[k - 1] + s[k] BY <1>2
  <2>3. 0 \in 0..n BY <1>1
  <2>5. f[k] \in Int /\ f[k - 1] \in Int /\ f[0] \in Int BY <2>1, <2>3
  <2>4. Running(s)[k - 1] = f[k - 1] - f[0] BY <1>4
  <2> QED BY <2>1, <2>2, <2>4, <2>5
<1>5. n \in I
  <2> HIDE DEF I
  <2>1. 0..n \subseteq I BY <1>1, <1>3, <1>4, Climb
  <2> QED BY <1>1, <2>1
<1> QED BY <1>2, <1>5

-----------------------------------------------------------------------------
(*                        What a text is read as                            *)

Energies == {"low", "mid", "high"}
Founds == [direction : {""} \cup DOMAIN Directions, energy : {""} \cup Energies,
           colour : {""} \cup Colours, kinds : SUBSET {"accent", "hold"}]
Beats == [direction : DOMAIN Directions, energy : Energies, colour : Colours,
          kind : {"accent", "hold", "travel"}]

LEMMA Vocabulary ==
    /\ DOMAIN Directions = {"center", "left", "right", "up", "down",
                            "upleft", "upright", "downleft", "downright"}
    /\ DOMAIN Reach = Energies
BY DEF Directions, Reach, Energies

LEMMA HearFacts ==
    ASSUME NEW f \in Founds, NEW w
    PROVE  Hear(f, w) \in Founds
<1>1. CASE AsDirection(w) \in DOMAIN Directions /\ f.direction = ""
  BY <1>1 DEF Hear, Founds
<1>2. CASE /\ ~ (AsDirection(w) \in DOMAIN Directions /\ f.direction = "")
           /\ AsEnergy(w) \in DOMAIN Reach /\ f.energy = ""
  BY <1>2, Vocabulary DEF Hear, Founds
<1>3. CASE /\ ~ (AsDirection(w) \in DOMAIN Directions /\ f.direction = "")
           /\ ~ (AsEnergy(w) \in DOMAIN Reach /\ f.energy = "")
  BY <1>3 DEF Hear, Founds
<1> QED BY <1>1, <1>2, <1>3

Heard(words, h) ==
    h = [n \in 0..Len(words) |-> IF n = 0 THEN Nothing ELSE Hear(h[n - 1], words[n])]

LEMMA KnownWordsFacts ==
    ASSUME NEW words, Len(words) \in Nat
    PROVE  \E h : /\ h \in [0..Len(words) -> Founds] /\ h[0] = Nothing
                  /\ \A k \in 1..Len(words) : h[k] = Hear(h[k - 1], words[k])
                  /\ KnownWords(words) = h[Len(words)]
<1> DEFINE n == Len(words)
           step == [p \in (1..n) \X Founds |-> Hear(p[2], words[p[1]])]
           h == CHOOSE f : Heard(words, f)
<1>1. n \in Nat OBVIOUS
<1>2. step \in [(1..n) \X Founds -> Founds] BY HearFacts
<1>3. Nothing \in Founds BY DEF Nothing, Founds
<1>4. PICK f : Follows(f, n, Founds, Nothing, step)
  <2> HIDE DEF step, n
  <2> QED BY <1>1, <1>2, <1>3, Unfolding
<1>5. f \in [0..n -> Founds] /\ f[0] = Nothing
      /\ \A k \in 1..n : f[k] = step[<<k, f[k - 1]>>]
  BY <1>4 DEF Follows
<1>6. Heard(words, f)
  <2>1. ASSUME NEW k \in 0..n
        PROVE  f[k] = IF k = 0 THEN Nothing ELSE Hear(f[k - 1], words[k])
    <3>1. CASE k = 0 BY <1>5, <3>1
    <3>2. CASE k # 0
      <4>1. k \in 1..n /\ k - 1 \in 0..n BY <1>1, <3>2
      <4>2. <<k, f[k - 1]>> \in (1..n) \X Founds BY <1>5, <4>1
      <4>3. step[<<k, f[k - 1]>>] = Hear(f[k - 1], words[k]) BY <4>2
      <4> QED BY <1>5, <3>2, <4>1, <4>3
    <3> QED BY <3>1, <3>2
  <2> QED BY <1>5, <2>1 DEF Heard
<1>7. Heard(words, h) BY <1>6, Zenon
<1>8. KnownWords(words) = h[n] BY DEF KnownWords, Heard
<1> HIDE DEF h
<1>9. h[0] = Nothing BY <1>1, <1>7 DEF Heard
<1>10. ASSUME NEW k \in 1..n PROVE h[k] = Hear(h[k - 1], words[k])
  <2>1. k \in 0..n /\ k # 0 BY <1>1
  <2> QED BY <1>7, <2>1 DEF Heard
<1> DEFINE I == {k \in 0..n : h[k] \in Founds}
<1>11. 0..n \subseteq I
  <2>1. 0 \in I BY <1>1, <1>3, <1>9
  <2>2. ASSUME NEW k \in 1..n, k - 1 \in I PROVE k \in I
    <3>1. h[k - 1] \in Founds BY <2>2
    <3>2. h[k] \in Founds BY <1>10, <3>1, HearFacts
    <3> QED BY <3>2
  <2> HIDE DEF I
  <2> QED BY <1>1, <2>1, <2>2, Climb
<1>12. h \in [0..n -> Founds]
  <2>1. \A k \in 0..n : h[k] \in Founds BY <1>11
  <2>2. h = [k \in 0..n |-> h[k]] BY <1>7 DEF Heard
  <2> QED BY <2>1, <2>2
<1> QED BY <1>8, <1>9, <1>10, <1>12

LEMMA BeatOfFacts == ASSUME NEW f \in Founds PROVE BeatOf(f) \in Beats
BY Vocabulary DEF BeatOf, Beats, Founds, Or, Energies, Colours

LEMMA ReadBeat ==
    ASSUME NEW words, Len(words) \in Nat
    PROVE  BeatOf(KnownWords(words)) \in Beats
<1>2. KnownWords(words) \in Founds BY KnownWordsFacts
<1> QED BY <1>2, BeatOfFacts

(* What a beat is written as.                                               *)
Words(b) == <<b.direction, b.energy, b.colour>> \o (IF b.kind = "travel" THEN <<>> ELSE <<b.kind>>)

LEMMA WordsFacts ==
    ASSUME NEW b \in Beats
    PROVE  /\ Len(Words(b)) \in Nat
           /\ Words(b)[1] = b.direction /\ Words(b)[2] = b.energy /\ Words(b)[3] = b.colour
           /\ b.kind = "travel" => Len(Words(b)) = 3
           /\ b.kind # "travel" => Len(Words(b)) = 4 /\ Words(b)[4] = b.kind
<1> DEFINE V == DOMAIN Directions \cup Energies \cup Colours \cup {"accent", "hold", "travel"}
<1>1. b.direction \in V /\ b.energy \in V /\ b.colour \in V /\ b.kind \in V BY DEF Beats
<1> HIDE DEF V
<1>2. CASE b.kind = "travel" BY <1>1, <1>2 DEF Words
<1>3. CASE b.kind # "travel" BY <1>1, <1>3 DEF Words
<1> QED BY <1>2, <1>3

LEMMA ReadBack ==
    ASSUME NEW b \in Beats
    PROVE  BeatOf(KnownWords(Words(b))) = b
<1> DEFINE w == Words(b)
           f1 == [Nothing EXCEPT !.direction = b.direction]
           f2 == [f1 EXCEPT !.energy = b.energy]
           f3 == [f2 EXCEPT !.colour = b.colour]
           f4 == [f3 EXCEPT !.kinds = @ \cup {b.kind}]
<1>1. PICK h : /\ h[0] = Nothing /\ \A k \in 1..Len(w) : h[k] = Hear(h[k - 1], w[k])
               /\ KnownWords(w) = h[Len(w)]
  BY WordsFacts, KnownWordsFacts
<1>2. Len(w) \in {3, 4} /\ Len(w) \in Nat BY WordsFacts DEF Beats
<1> USE Vocabulary
<1>3. h[1] = f1
  <2>1. h[1] = Hear(Nothing, b.direction) BY <1>1, <1>2, WordsFacts
  <2>2. Hear(Nothing, b.direction) = f1
    BY DEF Hear, Nothing, Beats, AsDirection
  <2> QED BY <2>1, <2>2
<1>4. h[2] = f2
  <2>1. h[2] = Hear(f1, b.energy) BY <1>1, <1>2, <1>3, WordsFacts
  <2>2. Hear(f1, b.energy) = f2
    BY DEF Hear, Nothing, Beats, AsDirection, AsEnergy, Energies
  <2> QED BY <2>1, <2>2
<1>5. h[3] = f3
  <2>3. 3 \in 1..Len(w) /\ w[3] = b.colour BY <1>2, WordsFacts
  <2>4. h[3] = Hear(h[2], w[3]) BY <1>1, <2>3
  <2>1. h[3] = Hear(f2, b.colour) BY <1>4, <2>3, <2>4
  <2>2. Hear(f2, b.colour) = f3
    BY DEF Hear, Nothing, Beats, AsDirection, AsEnergy, Energies, Colours
  <2> QED BY <2>1, <2>2
<1>6. CASE b.kind = "travel"
  <2>1. KnownWords(w) = f3 BY <1>1, <1>5, <1>6, WordsFacts
  <2>2. BeatOf(f3) = b BY <1>6 DEF BeatOf, Or, Nothing, Beats, Colours, Energies
  <2> QED BY <2>1, <2>2
<1>7. CASE b.kind # "travel"
  <2>6. 4 \in 1..Len(w) /\ w[4] = b.kind BY <1>7, WordsFacts
  <2>7. h[4] = Hear(h[3], w[4]) BY <1>1, <2>6
  <2>1. h[4] = Hear(f3, b.kind) BY <1>5, <2>6, <2>7
  <2>2. b.kind \in {"accent", "hold"} BY <1>7 DEF Beats
  <2>3. Hear(f3, b.kind) = f4
    BY <2>2 DEF Hear, Nothing, Beats, AsDirection, AsEnergy, Energies, Colours
  <2>4. KnownWords(w) = f4 BY <1>1, <1>7, <2>1, <2>3, WordsFacts
  <2>5. BeatOf(f4) = b
    <3>1. f4.direction = b.direction /\ f4.energy = b.energy /\ f4.colour = b.colour
          /\ f4.kinds = {b.kind}
      BY DEF Nothing
    <3>2. b.direction # "" /\ b.energy # "" /\ b.colour # "" BY DEF Beats, Colours, Energies
    <3>3. b = [direction |-> b.direction, energy |-> b.energy, colour |-> b.colour,
               kind |-> b.kind] BY DEF Beats
    <3> HIDE DEF f4
    <3>4. CASE b.kind = "accent" BY <3>1, <3>2, <3>3, <3>4 DEF BeatOf, Or
    <3>5. CASE b.kind = "hold" BY <3>1, <3>2, <3>3, <3>5 DEF BeatOf, Or
    <3> QED BY <2>2, <3>4, <3>5
  <2> QED BY <2>4, <2>5
<1> QED BY <1>6, <1>7


(* A design: a name, and one beat at least and MaxBeats at most.            *)
Designed(spec) ==
    /\ spec = [name |-> spec.name, beats |-> spec.beats]
    /\ spec.name # ""
    /\ spec.beats \in Seq(Beats) /\ Len(spec.beats) \in 1..MaxBeats

Concluded(found, fallback) ==
    IF found.beats = <<>> THEN None
    ELSE [name |-> Or(Or(found.name, Clean(fallback)), DefaultName),
          beats |-> SubSeq(found.beats, 1, Min({Len(found.beats), MaxBeats}))]

ReadUpTo(text, r) ==
    r = [n \in 0..Len(text) |-> IF n = 0 THEN None ELSE Read(r[n - 1], text[n])]

LEMMA Beginning ==
    ASSUME NEW S, NEW s \in Seq(S), NEW m \in 0..Len(s)
    PROVE  SubSeq(s, 1, m) \in Seq(S) /\ Len(SubSeq(s, 1, m)) = m
OBVIOUS

LEMMA Prefixed ==
    ASSUME NEW S, NEW a \in S, NEW s \in Seq(S)
    PROVE  /\ <<a>> \o s \in Seq(S) /\ Len(<<a>> \o s) = Len(s) + 1
           /\ (<<a>> \o s)[1] = a
           /\ \A k \in 1..Len(s) : (<<a>> \o s)[k + 1] = s[k]
OBVIOUS

LEMMA ReadFacts ==
    ASSUME NEW N, NEW found \in [name : N, beats : Seq(Beats)], NEW line,
           Clean(line.words[1]) \in N, Len(line.words) \in Nat
    PROVE  Read(found, line) \in [name : N, beats : Seq(Beats)]
<1> DEFINE beat == BeatOf(KnownWords(line.words))
<1>1. CASE line.label = "name"
  <2>1. Or(found.name, Clean(line.words[1])) \in N BY DEF Or
  <2> QED BY <1>1, <2>1 DEF Read
<1>2. CASE line.label # "name" /\ IsBeat(line)
  <2>1. beat \in Beats BY ReadBeat
  <2> HIDE DEF beat
  <2>2. Append(found.beats, beat) \in Seq(Beats) BY <2>1
  <2>3. Read(found, line) = [found EXCEPT !.beats = Append(@, beat)] BY <1>2 DEF Read, beat
  <2> QED BY <2>2, <2>3
<1>3. CASE line.label # "name" /\ ~ IsBeat(line) BY <1>3 DEF Read
<1> QED BY <1>1, <1>2, <1>3

LEMMA ParseFacts ==
    ASSUME NEW text, Len(text) \in Nat, \A k \in 1..Len(text) : Len(text[k].words) \in Nat
    PROVE  \E r : /\ \A k \in 0..Len(text) : r[k].beats \in Seq(Beats)
                  /\ r[0] = None
                  /\ \A k \in 1..Len(text) : r[k] = Read(r[k - 1], text[k])
                  /\ \A fallback : Parse(text, fallback) = Concluded(r[Len(text)], fallback)
<1> DEFINE n == Len(text)
           N == {""} \cup {Clean(text[k].words[1]) : k \in 1..n}
           S == [name : N, beats : Seq(Beats)]
           step == [p \in (1..n) \X S |-> Read(p[2], text[p[1]])]
           r == CHOOSE f : ReadUpTo(text, f)
<1>1. n \in Nat OBVIOUS
<1>2. ASSUME NEW f \in S, NEW k \in 1..n PROVE Read(f, text[k]) \in S
  <2>1. Clean(text[k].words[1]) \in N /\ Len(text[k].words) \in Nat OBVIOUS
  <2> HIDE DEF N
  <2> QED BY <2>1, ReadFacts
<1>3. None \in S BY DEF None
<1> HIDE DEF S
<1>4. step \in [(1..n) \X S -> S] BY <1>2
<1>5. PICK f : Follows(f, n, S, None, step)
  <2> HIDE DEF step, n
  <2> QED BY <1>1, <1>3, <1>4, Unfolding
<1>6. f \in [0..n -> S] /\ f[0] = None
      /\ \A k \in 1..n : f[k] = step[<<k, f[k - 1]>>]
  BY <1>5 DEF Follows
<1>7. ReadUpTo(text, f)
  <2>1. ASSUME NEW k \in 0..n
        PROVE  f[k] = IF k = 0 THEN None ELSE Read(f[k - 1], text[k])
    <3>1. CASE k = 0 BY <1>6, <3>1
    <3>2. CASE k # 0
      <4>1. k \in 1..n /\ k - 1 \in 0..n BY <1>1, <3>2
      <4>2. <<k, f[k - 1]>> \in (1..n) \X S BY <1>6, <4>1
      <4>3. step[<<k, f[k - 1]>>] = Read(f[k - 1], text[k]) BY <4>2
      <4> QED BY <1>6, <3>2, <4>1, <4>3
    <3> QED BY <3>1, <3>2
  <2> QED BY <1>6, <2>1 DEF ReadUpTo
<1>8. ReadUpTo(text, r) BY <1>7, Zenon
<1>9. \A fallback : Parse(text, fallback) = Concluded(r[n], fallback)
  BY DEF Parse, Concluded, ReadUpTo
<1> HIDE DEF r
<1>10. r[0] = None BY <1>1, <1>8 DEF ReadUpTo
<1>11. ASSUME NEW k \in 1..n PROVE r[k] = Read(r[k - 1], text[k])
  <2>1. k \in 0..n /\ k # 0 BY <1>1
  <2> QED BY <1>8, <2>1 DEF ReadUpTo
<1> DEFINE I == {k \in 0..n : r[k] \in S}
<1>12. 0..n \subseteq I
  <2>1. 0 \in I BY <1>1, <1>3, <1>10
  <2>2. ASSUME NEW k \in 1..n, k - 1 \in I PROVE k \in I
    <3>1. r[k - 1] \in S BY <2>2
    <3>2. r[k] \in S BY <1>2, <1>11, <3>1
    <3> QED BY <3>2
  <2> HIDE DEF I
  <2> QED BY <1>1, <2>1, <2>2, Climb
<1>13. \A k \in 0..n : r[k].beats \in Seq(Beats) BY <1>12 DEF S
<1> QED BY <1>9, <1>10, <1>11, <1>13

LEMMA Conclusion ==
    ASSUME NEW found, found.beats \in Seq(Beats), NEW fallback,
           Concluded(found, fallback) # None
    PROVE  Designed(Concluded(found, fallback))
<1> DEFINE n == Len(found.beats)
           m == Min({n, MaxBeats})
           beats == SubSeq(found.beats, 1, m)
           name == Or(Or(found.name, Clean(fallback)), DefaultName)
           spec == [name |-> name, beats |-> beats]
<1>1. found.beats # <<>> /\ Concluded(found, fallback) = spec BY DEF Concluded
<1>2. n \in Nat /\ n >= 1 BY <1>1
<1>3. m = IF n <= 6 THEN n ELSE 6
  <2> HIDE DEF n
  <2>1. n \in Int /\ 6 \in Int BY <1>2
  <2> QED BY <2>1, Pairs DEF MaxBeats
<1>4. beats \in Seq(Beats) /\ Len(beats) = m
  <2>1. m \in 0..n
    <3> HIDE DEF n, m
    <3> QED BY <1>2, <1>3
  <2> HIDE DEF m
  <2> QED BY <2>1, Beginning
<1>5. name # "" BY DEF Or, DefaultName
<1> HIDE DEF name, beats
<1>6. spec.name = name /\ spec.beats = beats OBVIOUS
<1>7. Len(beats) \in 1..MaxBeats
  <2> HIDE DEF m, n
  <2> QED BY <1>2, <1>3, <1>4 DEF MaxBeats
<1> QED BY <1>1, <1>4, <1>5, <1>6, <1>7 DEF Designed

LEMMA ParsedIsDesigned ==
    ASSUME NEW text, Len(text) \in Nat, \A k \in 1..Len(text) : Len(text[k].words) \in Nat,
           NEW fallback, Parse(text, fallback) # None
    PROVE  Designed(Parse(text, fallback))
<1>1. PICK r : /\ \A k \in 0..Len(text) : r[k].beats \in Seq(Beats)
               /\ \A fb : Parse(text, fb) = Concluded(r[Len(text)], fb)
  BY ParseFacts
<1> QED BY <1>1, Conclusion

(* The text of a design is read back with its beats; the name is cleaned    *)
(* once more.                                                               *)
LEMMA RoundTrip ==
    ASSUME NEW spec, Designed(spec), NEW fallback
    PROVE  /\ Designed(Parse(ToText(spec), fallback))
           /\ Parse(ToText(spec), fallback).beats = spec.beats
           /\ Clean(spec.name) = spec.name => Parse(ToText(spec), fallback) = spec
<1> DEFINE text == ToText(spec)
           m == Len(spec.beats)
           head == [label |-> "name", words |-> <<spec.name>>]
           line(b) == [label |-> "beat", words |-> Words(b)]
           T == {head} \cup {line(b) : b \in Beats}
           lines == [i \in 1..m |-> line(spec.beats[i])]
<1>1. m \in 1..6 /\ m \in Nat /\ spec.beats \in [1..m -> Beats] /\ spec.beats \in Seq(Beats)
  <2>1. spec.beats \in Seq(Beats) /\ m \in 1..6 BY DEF Designed, MaxBeats
  <2>2. spec.beats \in [1..m -> Beats] BY <2>1
  <2> QED BY <2>1, <2>2
<1>2. text = <<head>> \o lines
  BY DEF ToText, Words
<1>3. lines \in Seq(T) /\ Len(lines) = m /\ <<head>> \in Seq(T) /\ Len(<<head>>) = 1
  <2>1. \A i \in 1..m : line(spec.beats[i]) \in T BY <1>1
  <2>2. head \in T OBVIOUS
  <2> HIDE DEF T, line, head, m
  <2>3. lines \in [1..m -> T] BY <2>1
  <2>4. \A f \in [1..m -> T] : f \in Seq(T) /\ Len(f) = m BY <1>1
  <2>5. <<head>> \in Seq(T) /\ Len(<<head>>) = 1 BY <2>2
  <2> QED BY <2>3, <2>4, <2>5
<1>4. text \in Seq(T) /\ Len(text) = m + 1 /\ text[1] = head
      /\ \A k \in 2..(m + 1) : text[k] = line(spec.beats[k - 1])
  <2>1. lines \in [1..m -> T] BY <1>3
  <2> HIDE DEF T, head, text
  <2>5. head \in T BY <1>3 DEF T
  <2>6. /\ text \in Seq(T) /\ Len(text) = m + 1 /\ text[1] = head
        /\ \A k \in 1..m : text[k + 1] = lines[k]
    <3> HIDE DEF lines, m
    <3> QED BY <1>2, <1>3, <2>5, Prefixed
  <2>3. \A k \in 2..(m + 1) : k - 1 \in 1..m /\ (k - 1) + 1 = k BY <1>1
  <2>4. \A k \in 2..(m + 1) : text[k] = line(spec.beats[k - 1]) BY <2>3, <2>6
  <2> HIDE DEF lines
  <2> QED BY <2>4, <2>6
<1> HIDE DEF text
<1>5. \A k \in 1..Len(text) : Len(text[k].words) \in Nat
  <2>1. \A k \in 2..(m + 1) : k - 1 \in 1..m /\ spec.beats[k - 1] \in Beats BY <1>1
  <2>2. \A k \in 2..(m + 1) : Len(text[k].words) \in Nat BY <1>4, <2>1, WordsFacts
  <2>3. Len(text[1].words) \in Nat BY <1>4
  <2>4. \A k \in 1..(m + 1) : k = 1 \/ k \in 2..(m + 1) BY <1>1
  <2> QED BY <1>4, <2>2, <2>3, <2>4
<1>6. Len(text) \in Nat BY <1>1, <1>4
<1>7. PICK r : /\ r[0] = None
               /\ \A k \in 1..Len(text) : r[k] = Read(r[k - 1], text[k])
               /\ \A fb : Parse(text, fb) = Concluded(r[Len(text)], fb)
  BY <1>5, <1>6, ParseFacts
<1> DEFINE name == Clean(spec.name)
           after(k) == [name |-> name, beats |-> SubSeq(spec.beats, 1, k)]
<1>8. r[1] = after(0)
  <2>1. r[1] = Read(None, head)
    <3>1. 1 \in 1..Len(text) BY <1>1, <1>4
    <3> QED BY <1>4, <1>7, <3>1
  <2>2. head.label = "name" /\ head.words[1] = spec.name OBVIOUS
  <2>3. Read(None, head) = [None EXCEPT !.name = Or(@, name)] BY <2>2 DEF Read
  <2>4. Read(None, head) = [name |-> name, beats |-> <<>>] BY <2>3 DEF None, Or
  <2>5. SubSeq(spec.beats, 1, 0) = <<>> BY <1>1
  <2> QED BY <2>1, <2>4, <2>5
<1>9. ASSUME NEW k \in 1..m, r[k] = after(k - 1) PROVE r[k + 1] = after(k)
  <2> DEFINE b == spec.beats[k]
  <2>1. k + 1 \in 1..Len(text) /\ text[k + 1] = line(b) /\ b \in Beats
    <3>1. k + 1 \in 2..(m + 1) /\ (k + 1) - 1 = k /\ k + 1 \in 1..(m + 1) BY <1>1
    <3> HIDE DEF m, line
    <3> QED BY <1>1, <1>4, <3>1
  <2>2. r[k + 1] = Read(after(k - 1), line(b)) BY <1>7, <1>9, <2>1
  <2>3. line(b).label = "beat" /\ line(b).words = Words(b) OBVIOUS
  <2>4. BeatOf(KnownWords(Words(b))) = b BY <2>1, ReadBack
  <2>5. Read(after(k - 1), line(b)) = [after(k - 1) EXCEPT !.beats = Append(@, b)]
    <3> HIDE DEF after, line, b
    <3> QED BY <2>3, <2>4 DEF Read, IsBeat
  <2>6. Append(SubSeq(spec.beats, 1, k - 1), b) = SubSeq(spec.beats, 1, k) BY <1>1
  <2> HIDE DEF name, b
  <2> QED BY <2>2, <2>5, <2>6
<1> DEFINE I == {k \in 0..m : r[k + 1] = after(k)}
<1>10. 0..m \subseteq I
  <2>1. 0 \in I BY <1>1, <1>8
  <2>2. ASSUME NEW k \in 1..m, k - 1 \in I PROVE k \in I
    <3>1. r[k] = after(k - 1) BY <1>1, <2>2
    <3>2. r[k + 1] = after(k) BY <1>9, <3>1
    <3> HIDE DEF after
    <3> QED BY <1>1, <3>2
  <2> HIDE DEF I
  <2> QED BY <1>1, <2>1, <2>2, Climb
<1>11. r[Len(text)] = [name |-> name, beats |-> spec.beats]
  <2>1. r[m + 1] = after(m)
    <3> HIDE DEF after, m
    <3> QED BY <1>1, <1>10
  <2>2. SubSeq(spec.beats, 1, m) = spec.beats BY <1>1
  <2> QED BY <1>4, <2>1, <2>2
<1> DEFINE found == [name |-> name, beats |-> spec.beats]
           full == Or(Or(name, Clean(fallback)), DefaultName)
<1>12. Parse(text, fallback) = Concluded(found, fallback) BY <1>7, <1>11
<1> HIDE DEF name
<1>13. Concluded(found, fallback) = [name |-> full, beats |-> spec.beats]
  <2>1. spec.beats # <<>>
    <3>1. spec.beats = <<>> => m = 0 OBVIOUS
    <3> HIDE DEF m
    <3> QED BY <1>1, <3>1
  <2>2. Min({m, MaxBeats}) = m
    <3> HIDE DEF m
    <3>1. m \in Int /\ 6 \in Int /\ m <= 6 BY <1>1
    <3> QED BY <3>1, Pairs DEF MaxBeats
  <2>3. SubSeq(spec.beats, 1, m) = spec.beats BY <1>1
  <2> HIDE DEF full
  <2>4. found.beats = spec.beats /\ Or(Or(found.name, Clean(fallback)), DefaultName) = full
    BY DEF full
  <2> HIDE DEF found
  <2> QED BY <2>1, <2>2, <2>3, <2>4 DEF Concluded
<1>14. full # "" BY DEF Or, DefaultName
<1>15. Clean(spec.name) = spec.name => full = spec.name BY DEF Designed, Or, name
<1> HIDE DEF full, found
<1> DEFINE back == [name |-> full, beats |-> spec.beats]
<1>16. Parse(text, fallback) = back BY <1>12, <1>13
<1>17. back.beats = spec.beats /\ back.name = full /\ back = [name |-> back.name, beats |-> back.beats]
  OBVIOUS
<1> HIDE DEF back
<1>18. Designed(back) BY <1>14, <1>17 DEF Designed
<1>19. Clean(spec.name) = spec.name => back = spec BY <1>15, <1>17 DEF Designed
<1> QED BY <1>16, <1>17, <1>18, <1>19 DEF text

-----------------------------------------------------------------------------
(*                       Poses and the moves of a beat                      *)

Poses == (-45..45) \X (-20..20)

LEMMA WithinFacts ==
    ASSUME NEW v \in Int, NEW b \in Nat
    PROVE  Within(v, b) \in -b..b /\ (v \in -b..b => Within(v, b) = v)
<1> DEFINE m == Min({b, v})
<1>1. b \in Int /\ -b \in Int OBVIOUS
<1>2. m = (IF b <= v THEN b ELSE v) /\ m \in Int BY <1>1, Pairs
<1> HIDE DEF m
<1>3. Max({-b, m}) = IF -b >= m THEN -b ELSE m BY <1>1, <1>2, Pairs
<1>4. Within(v, b) = Max({-b, m}) BY DEF Within, m
<1> QED BY <1>2, <1>3, <1>4

LEMMA PoseFacts ==
    ASSUME NEW x \in Int, NEW y \in Int
    PROVE  Pose(x, y) \in Poses
<1>1. Within(x, 45) \in -45..45 /\ Within(y, 20) \in -20..20 BY WithinFacts
<1> QED BY <1>1 DEF Pose, Poses

LEMMA PosedAlready == ASSUME NEW p \in Poses PROVE p = Pose(p[1], p[2])
<1>1. p[1] \in -45..45 /\ p[2] \in -20..20 /\ p = <<p[1], p[2]>> BY DEF Poses
<1>2. p[1] \in Int /\ p[2] \in Int BY <1>1
<1>3. Within(p[1], 45) = p[1] /\ Within(p[2], 20) = p[2] BY <1>1, <1>2, WithinFacts
<1> QED BY <1>1, <1>3 DEF Pose

LEMMA RoundFacts == ASSUME NEW n \in Int, NEW d \in Nat \ {0} PROVE Round(n, d) \in Int
<1>1. n \div d \in Int OBVIOUS
<1> HIDE DEF Round
<1> QED BY <1>1 DEF Round

LEMMA BeatFacts ==
    ASSUME NEW b \in Beats
    PROVE  /\ Directions[b.direction][1] \in -10..10 /\ Directions[b.direction][2] \in -10..10
           /\ Reach[b.energy] \in {40, 70, 100}
<1>1. b.direction \in DOMAIN Directions /\ b.energy \in Energies BY DEF Beats
<1>2. \A d \in DOMAIN Directions : Directions[d][1] \in -10..10 /\ Directions[d][2] \in -10..10
  BY DEF Directions
<1>3. \A e \in Energies : Reach[e] \in {40, 70, 100} BY DEF Reach, Energies
<1> QED BY <1>1, <1>2, <1>3

LEMMA BeatTargetFacts ==
    ASSUME NEW b \in Beats, NEW i \in Nat, NEW scale \in {50, 64, 80, 100}
    PROVE  BeatTarget(b, i, scale) \in Poses
<1> DEFINE h == Directions[b.direction][1]
           side == IF i % 2 = 1 THEN 1 ELSE -1
           v == IF Directions[b.direction][2] # 0 THEN Directions[b.direction][2] ELSE side * 4
           strength == IF b.kind = "accent" THEN 55 ELSE 100
           reach == Reach[b.energy] * scale * strength
           a1 == side * reach * 6
           a2 == h * reach * 3
           a3 == v * reach * 13
<1>1. h \in Int /\ side \in {1, -1} /\ v \in Int BY BeatFacts
<1>2. reach \in Int
  <2>1. strength \in {55, 100} OBVIOUS
  <2>2. Reach[b.energy] * scale \in Int BY BeatFacts
  <2> HIDE DEF strength
  <2> QED BY <2>1, <2>2
<1> HIDE DEF h, side, v, reach
<1>3. a1 \in Int /\ a2 \in Int /\ a3 \in Int
  <2>1. side * reach \in Int /\ h * reach \in Int /\ v * reach \in Int BY <1>1, <1>2
  <2> QED BY <2>1
<1> HIDE DEF a1, a2, a3
<1>4. /\ Round(a1, 1000000) \in Int /\ Round(a2, 1000000) \in Int
      /\ Round(a3, 10000000) \in Int
  BY <1>3, RoundFacts, SMT
<1>5. Pose(0, Round(a1, 1000000)) \in Poses /\ Pose(Round(a2, 1000000), Round(a3, 10000000)) \in Poses
  BY <1>4, PoseFacts, SMT
<1> QED BY <1>5, SMT DEF BeatTarget, a1, a2, a3, h, side, v, reach, strength

(* A move keeps the measured floor; what is drawn for it can lower it by 60. *)
Travels == [to : Poses, rate : {20, 50, 68, 88}, floor : {600}, draws : {FALSE}]
Drifts == [to : Poses, rate : {20, 50, 68, 88}, floor : {760, 900}, draws : {TRUE}]
Moves == Travels \cup Drifts

LEMMA MoveFacts ==
    ASSUME NEW m \in Moves
    PROVE  /\ m.to \in Poses /\ m.rate \in {20, 50, 68, 88} /\ m.floor \in {600, 760, 900}
           /\ m.floor = 600 => ~ m.draws
<1>1. CASE m \in Travels
  <2>1. m.to \in Poses /\ m.rate \in {20, 50, 68, 88} /\ m.floor \in {600} BY <1>1, SMT DEF Travels
  <2>2. m.draws \in {FALSE} BY <1>1, Zenon DEF Travels
  <2>3. ~ m.draws BY <2>2, Zenon
  <2> QED BY <2>1, <2>3
<1>2. CASE m \in Drifts
  <2>1. m.to \in Poses /\ m.rate \in {20, 50, 68, 88} /\ m.floor \in {760, 900} BY <1>2, SMT DEF Drifts
  <2>2. m.floor # 600 BY <2>1
  <2> QED BY <2>1, <2>2
<1> QED BY <1>1, <1>2 DEF Moves

Few(moves) == moves \in Seq(Moves) /\ Len(moves) \in 1..3

LEMMA BeatMovesFacts ==
    ASSUME NEW b \in Beats, NEW i \in Nat, NEW drifts \in {1, 2}, NEW scale \in {50, 64, 80, 100}
    PROVE  Few(BeatMoves(b, i, drifts, scale))
<1> DEFINE target == BeatTarget(b, i, scale)
           x == target[1]
           y == target[2]
           far == IF i % 2 = 0 THEN <<2, -3>> ELSE <<-3, 2>>
           rate == [low |-> 50, mid |-> 68, high |-> 88][b.energy]
           one == [to |-> Pose(x + far[1], y + 2), rate |-> 20, floor |-> 760, draws |-> TRUE]
           two == [to |-> Pose(x + far[2], y - 3), rate |-> 20, floor |-> 900, draws |-> TRUE]
           go == [to |-> target, rate |-> rate, floor |-> ShortestMove, draws |-> FALSE]
           held == IF b.kind = "hold" THEN SubSeq(<<one, two>>, 1, drifts) ELSE <<>>
<1>1. target \in Poses /\ x \in Int /\ y \in Int
  <2>1. target \in Poses BY BeatTargetFacts
  <2> HIDE DEF target
  <2> QED BY <2>1 DEF Poses
<1>2. rate \in {50, 68, 88} BY DEF Beats, Energies
<1>3. far[1] \in Int /\ far[2] \in Int OBVIOUS
<1> HIDE DEF target, rate, far
<1>4. one \in Moves /\ two \in Moves
  <2>1. Pose(x + far[1], y + 2) \in Poses /\ Pose(x + far[2], y - 3) \in Poses
    <3>1. x + far[1] \in Int /\ y + 2 \in Int /\ x + far[2] \in Int /\ y - 3 \in Int
      BY <1>1, <1>3
    <3> QED BY <3>1, PoseFacts
  <2> QED BY <2>1 DEF Moves, Drifts
<1>5. go \in Moves BY <1>1, <1>2 DEF Moves, Travels, ShortestMove
<1> HIDE DEF one, two, go, Moves
<1>6. held \in Seq(Moves) /\ Len(held) \in 0..2
  <2>1. <<one, two>> \in Seq(Moves) /\ Len(<<one, two>>) = 2 BY <1>4
  <2>2. drifts \in 0..Len(<<one, two>>) OBVIOUS
  <2>3. SubSeq(<<one, two>>, 1, drifts) \in Seq(Moves) /\ Len(SubSeq(<<one, two>>, 1, drifts)) = drifts
    BY <2>1, <2>2, Beginning
  <2> QED BY <2>3
<1>7. BeatMoves(b, i, drifts, scale) = <<go>> \o held
  BY DEF BeatMoves, go, held, one, two, target, rate, far
<1> HIDE DEF held
<1>8. <<go>> \o held \in Seq(Moves) /\ Len(<<go>> \o held) = Len(held) + 1
  BY <1>5, <1>6, Prefixed
<1> QED BY <1>6, <1>7, <1>8 DEF Few

LEMMA HomeMoveFacts == HomeMove \in Moves
<1>1. <<0, 0>> \in Poses BY DEF Poses
<1> QED BY <1>1 DEF HomeMove, Moves, Travels, ShortestMove

-----------------------------------------------------------------------------
(*                      The moves of a plan, one after another              *)

Flatten(seqs, f) ==
    f = [i \in 1..Len(seqs) |-> IF i = 1 THEN seqs[i] ELSE f[i - 1] \o seqs[i]]
Lengths(seqs) == [g \in 1..Len(seqs) |-> Len(seqs[g])]

LEMMA Joined ==
    ASSUME NEW T, NEW a \in Seq(T), NEW b \in Seq(T)
    PROVE  a \o b \in Seq(T) /\ Len(a \o b) = Len(a) + Len(b)
OBVIOUS

LEMMA Flattened ==
    ASSUME NEW T, NEW seqs \in Seq(Seq(T)), Len(seqs) >= 1
    PROVE  /\ FlattenSeq(seqs) \in Seq(T)
           /\ Lengths(seqs) \in Seq(Int) /\ Len(Lengths(seqs)) = Len(seqs)
           /\ Len(FlattenSeq(seqs)) = Running(Lengths(seqs))[Len(seqs)]
<1> DEFINE n == Len(seqs)
           S == Seq(T)
           step == [p \in (1..n) \X S |-> p[2] \o seqs[p[1]]]
           fl == CHOOSE f : Flatten(seqs, f)
           sum == Running(Lengths(seqs))
<1>1. n \in Nat /\ n >= 1 /\ seqs \in [1..n -> S] OBVIOUS
<1>2. step \in [(1..n) \X S -> S]
  <2>1. ASSUME NEW p \in (1..n) \X S PROVE p[2] \o seqs[p[1]] \in S
    <3>1. p[2] \in Seq(T) /\ seqs[p[1]] \in Seq(T) BY <1>1
    <3> QED BY <3>1, Joined
  <2> HIDE DEF n, S
  <2> QED BY <2>1
<1>3. <<>> \in S OBVIOUS
<1>4. PICK g : Follows(g, n, S, <<>>, step)
  <2> HIDE DEF step, n, S
  <2> QED BY <1>1, <1>2, <1>3, Unfolding
<1>5. g \in [0..n -> S] /\ g[0] = <<>> /\ \A k \in 1..n : g[k] = step[<<k, g[k - 1]>>]
  BY <1>4 DEF Follows
<1> DEFINE f == [i \in 1..n |-> g[i]]
<1>6. Flatten(seqs, f)
  <2>1. ASSUME NEW k \in 1..n PROVE g[k] = IF k = 1 THEN seqs[k] ELSE f[k - 1] \o seqs[k]
    <3>1. g[k] = g[k - 1] \o seqs[k]
      <4>1. <<k, g[k - 1]>> \in (1..n) \X S
        <5>1. k - 1 \in 0..n BY <1>1
        <5> HIDE DEF S, n
        <5> QED BY <1>5, <5>1
      <4> HIDE DEF S, n
      <4> QED BY <1>5, <4>1
    <3>2. CASE k = 1
      <4>1. g[k - 1] = <<>> BY <1>5, <3>2
      <4>2. seqs[k] \in Seq(T) BY <1>1
      <4>3. <<>> \o seqs[k] = seqs[k] BY <4>2
      <4> QED BY <3>1, <3>2, <4>1, <4>3
    <3>3. CASE k # 1
      <4>1. k - 1 \in 1..n BY <1>1, <3>3
      <4> HIDE DEF n
      <4> QED BY <3>1, <3>3, <4>1
    <3> QED BY <3>2, <3>3
  <2> HIDE DEF f
  <2>2. f = [i \in 1..n |-> g[i]] BY DEF f
  <2> QED BY <2>1, <2>2 DEF Flatten
<1>7. Flatten(seqs, fl)
  <2> HIDE DEF f
  <2> QED BY <1>6, Zenon
<1>8. FlattenSeq(seqs) = fl[n]
  <2>1. n # 0 BY <1>1
  <2> QED BY <2>1 DEF FlattenSeq, Flatten
<1> HIDE DEF fl
<1>9. Lengths(seqs) \in Seq(Int) /\ Len(Lengths(seqs)) = n /\ \A k \in 1..n : Lengths(seqs)[k] = Len(seqs[k])
  <2>1. \A k \in 1..n : Len(seqs[k]) \in Int BY <1>1
  <2>2. Lengths(seqs) \in [1..n -> Int] BY <2>1 DEF Lengths
  <2> HIDE DEF n
  <2> QED BY <1>1, <2>2 DEF Lengths, n
<1>10. sum[0] = 0 /\ \A k \in 1..n : sum[k] = sum[k - 1] + Lengths(seqs)[k]
  BY <1>9, RunningFacts
<1> DEFINE I == {k \in 0..n : k = 0 \/ (fl[k] \in S /\ Len(fl[k]) = sum[k])}
<1>11. 0..n \subseteq I
  <2>1. 0 \in I BY <1>1
  <2>2. ASSUME NEW k \in 1..n, k - 1 \in I PROVE k \in I
    <3>1. sum[k] = sum[k - 1] + Len(seqs[k]) /\ seqs[k] \in S /\ Len(seqs[k]) \in Nat
      BY <1>1, <1>9, <1>10
    <3>2. CASE k = 1
      <4>1. fl[k] = seqs[k] BY <1>7, <3>2 DEF Flatten
      <4>2. sum[k] = Len(seqs[k]) BY <1>10, <3>1, <3>2
      <4> HIDE DEF sum, n
      <4> QED BY <1>1, <3>1, <4>1, <4>2
    <3>3. CASE k # 1
      <4>1. fl[k] = fl[k - 1] \o seqs[k] BY <1>7, <3>3 DEF Flatten
      <4>2. fl[k - 1] \in S /\ Len(fl[k - 1]) = sum[k - 1]
        <5>1. k - 1 # 0 BY <1>1, <3>3
        <5> HIDE DEF sum, n, S
        <5> QED BY <2>2, <3>3, <5>1
      <4>3. fl[k] \in S /\ Len(fl[k]) = Len(fl[k - 1]) + Len(seqs[k])
        BY <3>1, <4>1, <4>2, Joined
      <4> HIDE DEF sum, n, S
      <4> QED BY <1>1, <3>1, <4>2, <4>3
    <3> QED BY <3>2, <3>3
  <2> HIDE DEF I
  <2> QED BY <1>1, <2>1, <2>2, Climb
<1>12. n \in 0..n /\ n # 0 BY <1>1
<1>13. fl[n] \in S /\ Len(fl[n]) = sum[n]
  <2> HIDE DEF n, S, sum
  <2> QED BY <1>11, <1>12
<1> QED BY <1>8, <1>9, <1>13

(* A sum of numbers that are not negative only grows.                       *)
LEMMA Growing ==
    ASSUME NEW s \in Seq(Int), \A k \in 1..Len(s) : s[k] >= 0
    PROVE  /\ \A k \in 0..Len(s) : Running(s)[k] \in 0..Total(s)
           /\ \A k \in 1..Len(s) : Running(s)[k - 1] <= Running(s)[k]
           /\ \A j \in 0..Len(s) : \A k \in j..Len(s) : Running(s)[j] <= Running(s)[k]
<1> DEFINE n == Len(s)
           sum == Running(s)
<1>1. n \in Nat /\ \A k \in 1..n : s[k] \in Int OBVIOUS
<1>2. /\ \A k \in 0..n : sum[k] \in Int
      /\ sum[0] = 0 /\ Total(s) = sum[n]
      /\ \A k \in 1..n : sum[k] = sum[k - 1] + s[k]
  BY RunningFacts
<1> HIDE DEF n, sum
<1>3. ASSUME NEW j \in 0..n PROVE \A k \in j..n : sum[j] <= sum[k]
  <2> DEFINE I == {k \in 0..n : k < j \/ sum[j] <= sum[k]}
  <2>1. 0 \in I BY <1>1, <1>2
  <2>2. ASSUME NEW k \in 1..n, k - 1 \in I PROVE k \in I
    <3>1. k \in 0..n /\ k - 1 \in 0..n BY <1>1
    <3>2. sum[k] = sum[k - 1] + s[k] /\ s[k] >= 0 /\ s[k] \in Int BY <1>1, <1>2 DEF n
    <3>3. sum[k] \in Int /\ sum[k - 1] \in Int /\ sum[j] \in Int BY <1>2, <3>1
    <3>4. k - 1 < j \/ sum[j] <= sum[k - 1] BY <2>2
    <3>5. CASE k - 1 < j
      <4>1. k < j \/ k = j BY <1>1, <3>5
      <4> QED BY <3>1, <3>3, <4>1
    <3>6. CASE sum[j] <= sum[k - 1]
      <4>1. sum[j] <= sum[k] BY <3>2, <3>3, <3>6
      <4> QED BY <3>1, <4>1
    <3> QED BY <3>4, <3>5, <3>6
  <2> HIDE DEF I
  <2>3. 0..n \subseteq I BY <1>1, <2>1, <2>2, Climb
  <2> USE DEF I
  <2>4. ASSUME NEW k \in j..n PROVE sum[j] <= sum[k]
    <3>1. k \in 0..n /\ ~ (k < j) BY <1>1
    <3> QED BY <2>3, <3>1
  <2> QED BY <2>4
<1>4. ASSUME NEW k \in 0..n PROVE sum[k] \in 0..sum[n]
  <2>1. 0 \in 0..n /\ n \in 0..n /\ k \in 0..n /\ n \in k..n BY <1>1
  <2>2. sum[0] <= sum[k] /\ sum[k] <= sum[n] BY <1>3, <2>1
  <2>3. sum[k] \in Int /\ sum[n] \in Int BY <1>2, <2>1
  <2> QED BY <1>2, <2>2, <2>3
<1>5. ASSUME NEW k \in 1..n PROVE sum[k - 1] <= sum[k]
  <2>1. k - 1 \in 0..n /\ k \in (k - 1)..n BY <1>1
  <2> QED BY <1>3, <2>1
<1> QED BY <1>2, <1>3, <1>4, <1>5 DEF n, sum

-----------------------------------------------------------------------------
(*                         The time of every move                           *)

(* What is taken of the parameters: a speed is a number that is not         *)
(* negative, and what is drawn is within the bounds it is drawn from.       *)
Measured ==
    \A poses \in Seq(Poses) : \A i \in 1..(Len(poses) - 1) : PathSpeed(poses, i) \in Nat
DrawnInRange == \A name : \A k \in Nat : Jitter(name, k) \in -60..60

(* A move with its time: never below the floor, nor faster than its rate.   *)
HeadMoves ==
    {m \in [to : Poses, rate : {20, 50, 68, 88}, speed : Nat, time : Nat] :
        m.time >= ShortestMove /\ AtMost(m, m.rate)}

LEMMA CeilFacts ==
    ASSUME NEW a \in Nat, NEW r \in {20, 50, 68, 88}
    PROVE  CeilDiv(a, r) \in Nat /\ a <= r * CeilDiv(a, r)
<1>1. CASE r = 20 BY <1>1, SMT DEF CeilDiv
<1>2. CASE r = 50 BY <1>2, SMT DEF CeilDiv
<1>3. CASE r = 68 BY <1>3, SMT DEF CeilDiv
<1>4. CASE r = 88 BY <1>4, SMT DEF CeilDiv
<1> QED BY <1>1, <1>2, <1>3, <1>4

LEMMA SlowEnough ==
    ASSUME NEW s \in Nat, NEW t \in Int, NEW c \in Nat, NEW r \in {20, 50, 68, 88},
           s * 1000 <= r * c, c <= t
    PROVE  s * 1000 <= r * t
<1>1. CASE r = 20 BY <1>1, SMT
<1>2. CASE r = 50 BY <1>2, SMT
<1>3. CASE r = 68 BY <1>3, SMT
<1>4. CASE r = 88 BY <1>4, SMT
<1> QED BY <1>1, <1>2, <1>3, <1>4

Unhurried(rate, speed, time) ==
    time \in Nat /\ time >= ShortestMove /\ speed * 1000 <= rate * time

LEMMA DurationFacts ==
    ASSUME NEW move \in Moves, NEW speed \in Nat, NEW jitter \in -60..60,
           move.floor = 600 => jitter = 0
    PROVE  Unhurried(move.rate, speed, Duration(move, speed, jitter))
<1> DEFINE a == speed * 1000
           c == CeilDiv(a, move.rate)
           least == move.floor + jitter
           d == Duration(move, speed, jitter)
<1>1. move.rate \in {20, 50, 68, 88} BY MoveFacts
<1>2. least \in Int /\ least >= 600
  <2>1. move.floor \in {600, 760, 900} BY MoveFacts
  <2> QED BY <2>1
<1>3. a \in Nat BY SMT
<1> HIDE DEF a
<1>4. c \in Nat /\ a <= move.rate * c BY <1>1, <1>3, CeilFacts
<1>5. d = Max({least, c}) BY DEF Duration, a
<1> HIDE DEF c, least, d
<1>6. c \in Int BY <1>4
<1>7. d = IF least >= c THEN least ELSE c BY <1>2, <1>5, <1>6, Pairs
<1>8. d \in Int /\ c <= d /\ d >= 600 BY <1>2, <1>4, <1>7
<1>9. speed * 1000 <= move.rate * c BY <1>4 DEF a
<1>10. speed * 1000 <= move.rate * d BY <1>1, <1>4, <1>8, <1>9, SlowEnough
<1>11. d \in Nat BY <1>8
<1> QED BY <1>8, <1>10, <1>11 DEF d, ShortestMove, Unhurried

LEMMA TimedFacts ==
    ASSUME Measured, DrawnInRange, NEW name, NEW moves \in Seq(Moves)
    PROVE  /\ Timed(name, moves) \in Seq(HeadMoves)
           /\ Len(Timed(name, moves)) = Len(moves)
           /\ \A i \in 1..Len(moves) : Timed(name, moves)[i].to = moves[i].to
<1> DEFINE n == Len(moves)
           tos == [i \in 1..n |-> moves[i].to]
           poses == <<<<0, 0>>>> \o tos
           drawn(i) == Cardinality({j \in 1..i : moves[j].draws})
           jitter(i) == IF moves[i].draws THEN Jitter(name, drawn(i)) ELSE 0
           timed(i) == [to |-> moves[i].to, rate |-> moves[i].rate, speed |-> PathSpeed(poses, i),
                        time |-> Duration(moves[i], PathSpeed(poses, i), jitter(i))]
<1>1. n \in Nat /\ \A i \in 1..n : moves[i] \in Moves OBVIOUS
<1>2. tos \in Seq(Poses) /\ Len(tos) = n
  <2>1. \A i \in 1..n : moves[i].to \in Poses BY <1>1, MoveFacts
  <2>2. tos \in [1..n -> Poses] BY <2>1
  <2> HIDE DEF n
  <2> QED BY <1>1, <2>2
<1>3. poses \in Seq(Poses) /\ Len(poses) = n + 1
  <2>1. <<0, 0>> \in Poses BY DEF Poses
  <2> HIDE DEF tos, n
  <2> QED BY <1>2, <2>1, Prefixed
<1> HIDE DEF tos, poses
<1>4. ASSUME NEW i \in 1..n PROVE timed(i) \in HeadMoves
  <2> DEFINE speed == PathSpeed(poses, i)
             j == jitter(i)
             d == Duration(moves[i], speed, j)
  <2>1. moves[i] \in Moves BY <1>1
  <2>2. speed \in Nat
    <3>1. i \in 1..(Len(poses) - 1)
      <4> HIDE DEF n
      <4> QED BY <1>1, <1>3
    <3> QED BY <1>3, <3>1 DEF Measured
  <2>3. j \in -60..60 /\ (moves[i].floor = 600 => j = 0)
    <3>1. drawn(i) \in Nat
      <4> DEFINE S == {k \in 1..i : moves[k].draws}
      <4>1. i \in Int /\ 1 \in Int BY <1>1
      <4>2. IsFiniteSet(1..i) BY <4>1, FS_Interval
      <4>3. S \subseteq 1..i OBVIOUS
      <4> HIDE DEF S
      <4>4. IsFiniteSet(S) BY <4>2, <4>3, FS_Subset
      <4>5. Cardinality(S) \in Nat BY <4>4, FS_CardinalityType
      <4> QED BY <4>5 DEF S
    <3> HIDE DEF drawn
    <3>2. Jitter(name, drawn(i)) \in -60..60 BY <3>1 DEF DrawnInRange
    <3>3. moves[i].floor = 600 => ~ moves[i].draws BY <2>1, MoveFacts
    <3>4. j = IF moves[i].draws THEN Jitter(name, drawn(i)) ELSE 0 OBVIOUS
    <3> HIDE DEF j
    <3>5. CASE moves[i].draws BY <3>2, <3>3, <3>4, <3>5, Zenon
    <3>6. CASE ~ moves[i].draws
      <4>1. j = 0 BY <3>4, <3>6, Zenon
      <4> QED BY <4>1
    <3> QED BY <3>5, <3>6
  <2> HIDE DEF jitter, speed, j
  <2>4. d \in Nat /\ d >= ShortestMove /\ speed * 1000 <= moves[i].rate * d
    <3> DEFINE move == moves[i]
    <3>1. move \in Moves /\ (move.floor = 600 => j = 0) BY <2>1, <2>3
    <3> HIDE DEF move, d
    <3>2. Unhurried(move.rate, speed, Duration(move, speed, j))
      BY <2>2, <2>3, <3>1, DurationFacts
    <3> QED BY <3>2 DEF d, move, Unhurried
  <2> HIDE DEF d
  <2> DEFINE m == [to |-> moves[i].to, rate |-> moves[i].rate, speed |-> speed, time |-> d]
  <2>5. m.to = moves[i].to /\ m.rate = moves[i].rate /\ m.speed = speed /\ m.time = d
    OBVIOUS
  <2>6. moves[i].to \in Poses /\ moves[i].rate \in {20, 50, 68, 88} BY <2>1, MoveFacts
  <2>7. m \in [to : Poses, rate : {20, 50, 68, 88}, speed : Nat, time : Nat]
    BY <2>2, <2>4, <2>6
  <2> HIDE DEF m
  <2>8. m \in HeadMoves BY <2>4, <2>5, <2>7 DEF HeadMoves, AtMost
  <2> QED BY <2>8 DEF m, d, speed, j
<1>5. Timed(name, moves) = [i \in 1..n |-> timed(i)] BY DEF Timed, poses, tos
<1>6. \A i \in 1..n : timed(i).to = moves[i].to OBVIOUS
<1> HIDE DEF timed, n
<1>7. [i \in 1..n |-> timed(i)] \in [1..n -> HeadMoves] BY <1>4
<1>8. \A f \in [1..n -> HeadMoves] : f \in Seq(HeadMoves) /\ Len(f) = n BY <1>1
<1> QED BY <1>5, <1>6, <1>7, <1>8 DEF n

-----------------------------------------------------------------------------
(*                           The head of a plan                             *)

Steps ==
    {m \in [to : Poses \cup {<<>>}, rate : {20, 50, 68, 88}, speed : Nat, time : Nat] :
        AtMost(m, m.rate)}
TimesOf(head) == [i \in 1..Len(head) |-> head[i].time]

(* What every plan is, whatever the budget: a head of few moves that ends   *)
(* neutral, and groups that take as long as it does.                        *)
Sound(plan) ==
    /\ plan.beats \in Seq(Beats) /\ Len(plan.beats) \in 1..MaxBeats
    /\ plan.head \in Seq(Steps) /\ Len(plan.head) \in 1..20
    /\ plan.head[Len(plan.head)].to = <<0, 0>>
    /\ plan.figure = "full" =>
           \A i \in 1..Len(plan.head) :
               plan.head[i].to # <<>> => plan.head[i].time >= ShortestMove
    /\ plan.durations \in Seq(Nat) /\ Len(plan.durations) \in 1..(Len(plan.beats) + 2)
    /\ Total(TimesOf(plan.head)) = Total(plan.durations)

LEMMA Listed ==
    ASSUME NEW T, NEW n \in Nat, NEW f \in [1..n -> T]
    PROVE  f \in Seq(T) /\ Len(f) = n
OBVIOUS

LEMMA Framed ==
    ASSUME NEW T, NEW a \in T, NEW s \in Seq(T), NEW b \in T
    PROVE  /\ <<a>> \o s \o <<b>> \in Seq(T) /\ Len(<<a>> \o s \o <<b>>) = Len(s) + 2
           /\ (<<a>> \o s \o <<b>>)[1] = a
           /\ (<<a>> \o s \o <<b>>)[Len(s) + 2] = b
           /\ \A k \in 1..Len(s) : (<<a>> \o s \o <<b>>)[k + 1] = s[k]
OBVIOUS

LEMMA LeadInStep == [to |-> <<>>, speed |-> 0, rate |-> 50, time |-> LeadIn] \in Steps
BY DEF Steps, AtMost, LeadIn

LEMMA HeadMoveFacts ==
    ASSUME NEW m \in HeadMoves
    PROVE  m \in Steps /\ m.time \in Nat /\ m.time >= ShortestMove
BY DEF HeadMoves, Steps

(* The groups of a plan are cut from the times of its moves.                *)
Cut(groups, moves) ==
    LET last == Running(Lengths(groups))
        at == Running(TimesOf(moves))
    IN <<LeadIn>>
       \o [g \in 1..Len(groups) |-> at[last[g]] - at[last[g - 1]]]
       \o <<at[Len(moves)] - at[last[Len(groups)]]>>

LEMMA TimesFacts ==
    ASSUME NEW moves, Len(moves) \in Nat, \A i \in 1..Len(moves) : moves[i].time \in Nat
    PROVE  /\ TimesOf(moves) \in Seq(Int) /\ Len(TimesOf(moves)) = Len(moves)
           /\ \A i \in 1..Len(moves) : TimesOf(moves)[i] = moves[i].time /\ TimesOf(moves)[i] >= 0
<1> DEFINE n == Len(moves)
<1>1. n \in Nat /\ \A i \in 1..n : moves[i].time \in Int OBVIOUS
<1>2. TimesOf(moves) = [i \in 1..n |-> moves[i].time] BY DEF TimesOf
<1> HIDE DEF n
<1>3. TimesOf(moves) \in [1..n -> Int] BY <1>1, <1>2
<1>4. \A f \in [1..n -> Int] : f \in Seq(Int) /\ Len(f) = n BY <1>1
<1>5. \A i \in 1..n : moves[i].time \in Nat BY DEF n
<1> QED BY <1>2, <1>3, <1>4, <1>5 DEF n

LEMMA CutFacts ==
    ASSUME NEW groups \in Seq(Seq(Moves)), Len(groups) >= 1,
           NEW moves, Len(moves) \in Nat, \A i \in 1..Len(moves) : moves[i].time \in Nat,
           Len(moves) = Running(Lengths(groups))[Len(groups)] + 1
    PROVE  /\ Cut(groups, moves) \in Seq(Nat)
           /\ Len(Cut(groups, moves)) = Len(groups) + 2
           /\ Total(Cut(groups, moves)) = LeadIn + Total(TimesOf(moves))
<1> DEFINE c == Len(groups)
           n == Len(moves)
           last == Running(Lengths(groups))
           at == Running(TimesOf(moves))
           mids == [g \in 1..c |-> at[last[g]] - at[last[g - 1]]]
           back == at[n] - at[last[c]]
           cut == <<LeadIn>> \o mids \o <<back>>
<1>1. c \in Nat /\ c >= 1 /\ n \in Nat /\ n = last[c] + 1 OBVIOUS
<1>2. /\ \A g \in 0..c : last[g] \in 0..n
      /\ \A g \in 1..c : last[g - 1] <= last[g]
      /\ last[0] = 0
  <2> DEFINE lens == Lengths(groups)
  <2>1. lens \in Seq(Int) /\ Len(lens) = c BY Flattened
  <2>2. \A g \in 1..c : lens[g] >= 0
    <3>1. \A g \in 1..c : Len(groups[g]) \in Nat OBVIOUS
    <3> QED BY <3>1 DEF Lengths
  <2> HIDE DEF lens
  <2>3. /\ \A k \in 0..c : Running(lens)[k] \in 0..Total(lens)
        /\ \A k \in 1..c : Running(lens)[k - 1] <= Running(lens)[k]
    BY <2>1, <2>2, Growing
  <2>4. Total(lens) = Running(lens)[c] /\ Running(lens)[0] = 0 BY <2>1, RunningFacts
  <2>5. last = Running(lens) BY DEF lens
  <2> HIDE DEF last, c, n
  <2>6. Total(lens) = last[c] /\ c \in 0..c BY <1>1, <2>4, <2>5
  <2>7. last[c] \in Int BY <2>3, <2>5, <2>6
  <2>8. \A g \in 0..c : last[g] \in 0..last[c] BY <2>3, <2>5, <2>6
  <2>9. \A x \in 0..last[c] : x \in 0..n BY <1>1, <2>7
  <2> QED BY <2>3, <2>4, <2>5, <2>8, <2>9
<1>3. /\ \A k \in 0..n : at[k] \in Nat
      /\ \A j \in 0..n : \A k \in j..n : at[j] <= at[k]
      /\ at[0] = 0 /\ at[n] = Total(TimesOf(moves))
  <2> DEFINE times == TimesOf(moves)
  <2>1. times \in Seq(Int) /\ Len(times) = n /\ \A i \in 1..n : times[i] >= 0
    BY TimesFacts
  <2> HIDE DEF times
  <2>2. /\ \A k \in 0..n : Running(times)[k] \in 0..Total(times)
        /\ \A j \in 0..n : \A k \in j..n : Running(times)[j] <= Running(times)[k]
    BY <2>1, Growing
  <2>3. Running(times)[0] = 0 /\ Running(times)[n] = Total(times) BY <2>1, RunningFacts
  <2>4. \A x \in 0..Total(times) : x \in Nat OBVIOUS
  <2> HIDE DEF n
  <2> QED BY <2>2, <2>3, <2>4 DEF times
<1> HIDE DEF last, at, c, n
<1>4. mids \in Seq(Nat) /\ Len(mids) = c /\ \A g \in 1..c : mids[g] = at[last[g]] - at[last[g - 1]]
  <2>1. ASSUME NEW g \in 1..c PROVE at[last[g]] - at[last[g - 1]] \in Nat
    <3>1. g \in 0..c /\ g - 1 \in 0..c BY <1>1
    <3>2. last[g] \in 0..n /\ last[g - 1] \in 0..n /\ last[g - 1] <= last[g] BY <1>2, <3>1
    <3>3. last[g] \in last[g - 1]..n BY <3>2
    <3>4. at[last[g - 1]] <= at[last[g]] BY <1>3, <3>2, <3>3
    <3>5. at[last[g]] \in Nat /\ at[last[g - 1]] \in Nat BY <1>3, <3>2
    <3> QED BY <3>4, <3>5
  <2>2. mids \in [1..c -> Nat] BY <2>1
  <2>3. mids \in Seq(Nat) /\ Len(mids) = c
    <3> HIDE DEF mids
    <3> QED BY <1>1, <2>2, Listed
  <2> QED BY <2>3
<1>5. back \in Nat
  <2>1. c \in 0..c /\ n \in 0..n BY <1>1
  <2>2. last[c] \in 0..n /\ n \in last[c]..n BY <1>2, <2>1
  <2>3. at[last[c]] <= at[n] /\ at[n] \in Nat /\ at[last[c]] \in Nat BY <1>3, <2>1, <2>2
  <2> QED BY <2>3
<1>6. LeadIn \in Nat BY DEF LeadIn
<1> HIDE DEF mids, back
<1>7. /\ cut \in Seq(Nat) /\ Len(cut) = c + 2 /\ cut[1] = LeadIn /\ cut[c + 2] = back
      /\ \A g \in 1..c : cut[g + 1] = mids[g]
  BY <1>4, <1>5, <1>6, Framed
<1>8. Cut(groups, moves) = cut BY DEF Cut, cut, mids, back, last, at, c, n
<1> HIDE DEF cut
<1> DEFINE f == [k \in 0..(c + 2) |-> IF k = 0 THEN 0 ELSE IF k = c + 2 THEN LeadIn + at[n]
                                      ELSE LeadIn + at[last[k - 1]]]
<1>9. f \in [0..(c + 2) -> Int]
  <2>1. ASSUME NEW k \in 1..(c + 1) PROVE at[last[k - 1]] \in Int
    <3>1. k - 1 \in 0..c BY <1>1
    <3>2. last[k - 1] \in 0..n BY <1>2, <3>1
    <3>3. at[last[k - 1]] \in Nat BY <1>3, <3>2
    <3> QED BY <3>3
  <2>2. \A k \in 0..(c + 2) : k = 0 \/ k = c + 2 \/ k \in 1..(c + 1) BY <1>1
  <2>3. n \in 0..n BY <1>1
  <2>4. at[n] \in Int BY <1>3, <2>3
  <2>5. \A k \in 1..(c + 1) : LeadIn + at[last[k - 1]] \in Int BY <1>6, <2>1
  <2>6. LeadIn + at[n] \in Int BY <1>6, <2>4
  <2> QED BY <2>2, <2>5, <2>6
<1>10. ASSUME NEW k \in 1..(c + 2) PROVE f[k] = f[k - 1] + cut[k]
  <2>1. CASE k = 1
    <3>1. f[k] = LeadIn + at[last[0]]
      <4>1. k # 0 /\ k # c + 2 /\ k \in 0..(c + 2) /\ k - 1 = 0 BY <1>1, <2>1
      <4> QED BY <4>1
    <3>2. f[k - 1] = 0
      <4>1. k - 1 = 0 /\ 0 \in 0..(c + 2) BY <1>1, <2>1
      <4> QED BY <4>1
    <3>3. cut[k] = LeadIn /\ last[0] = 0 /\ at[0] = 0 BY <1>2, <1>3, <1>7, <2>1
    <3> HIDE DEF f
    <3> QED BY <1>6, <3>1, <3>2, <3>3
  <2>2. CASE k = c + 2
    <3>1. f[k] = LeadIn + at[n] BY <1>1, <2>2
    <3>2. f[k - 1] = LeadIn + at[last[c]]
      <4>1. k - 1 # 0 /\ k - 1 # c + 2 /\ k - 1 \in 0..(c + 2) /\ (k - 1) - 1 = c BY <1>1, <2>2
      <4> QED BY <4>1
    <3>3. cut[k] = back BY <1>7, <2>2
    <3>4. c \in 0..c /\ n \in 0..n BY <1>1
    <3>5. last[c] \in 0..n BY <1>2, <3>4
    <3>6. at[last[c]] \in Nat /\ at[n] \in Nat BY <1>3, <3>4, <3>5
    <3> HIDE DEF f
    <3> QED BY <1>6, <3>1, <3>2, <3>3, <3>6 DEF back
  <2>3. CASE k # 1 /\ k # c + 2
    <3> DEFINE g == k - 1
    <3>0. g \in 1..c /\ g \in 0..c /\ g - 1 \in 0..c /\ g + 1 = k BY <1>1, <2>3
    <3>1. f[k] = LeadIn + at[last[g]] BY <2>3
    <3>2. f[k - 1] = LeadIn + at[last[g - 1]]
      <4>1. k - 1 # 0 /\ k - 1 # c + 2 /\ k - 1 \in 0..(c + 2) BY <1>1, <2>3
      <4> QED BY <4>1
    <3> HIDE DEF f, g
    <3>3. cut[k] = at[last[g]] - at[last[g - 1]] BY <1>4, <1>7, <3>0
    <3>5. last[g] \in 0..n /\ last[g - 1] \in 0..n BY <1>2, <3>0
    <3>6. at[last[g]] \in Nat /\ at[last[g - 1]] \in Nat BY <1>3, <3>5
    <3> QED BY <1>6, <3>1, <3>2, <3>3, <3>6
  <2> QED BY <2>1, <2>2, <2>3
<1>11. f[0] = 0 /\ f[c + 2] = LeadIn + at[n]
  <2>1. 0 \in 0..(c + 2) /\ c + 2 \in 0..(c + 2) /\ c + 2 # 0 BY <1>1
  <2> QED BY <2>1
<1> HIDE DEF f
<1>12. cut \in Seq(Int)
  <2>1. Nat \subseteq Int OBVIOUS
  <2> QED BY <1>7, <2>1
<1>13. Total(cut) = f[c + 2] - f[0] BY <1>7, <1>9, <1>10, <1>12, Telescope
<1>14. n \in 0..n /\ at[n] \in Nat
  <2>1. n \in 0..n BY <1>1
  <2> QED BY <1>3, <2>1
<1>15. Total(cut) = LeadIn + at[n] BY <1>6, <1>11, <1>13, <1>14
<1> QED BY <1>3, <1>7, <1>8, <1>15 DEF c


LEMMA LedFacts ==
    ASSUME NEW T, NEW lead \in T, NEW moves \in Seq(T),
           lead.time \in Nat, \A i \in 1..Len(moves) : moves[i].time \in Nat
    PROVE  Total(TimesOf(<<lead>> \o moves)) = lead.time + Total(TimesOf(moves))
<1> DEFINE n == Len(moves)
           head == <<lead>> \o moves
           at == Running(TimesOf(moves))
           times == TimesOf(head)
<1>1. n \in Nat OBVIOUS
<1>2. Len(head) = n + 1 /\ head[1] = lead /\ \A k \in 1..n : head[k + 1] = moves[k]
  BY Prefixed
<1>3. /\ at[0] = 0 /\ at[n] = Total(TimesOf(moves)) /\ \A k \in 0..n : at[k] \in Int
      /\ \A k \in 1..n : at[k] = at[k - 1] + moves[k].time
  <2> DEFINE own == TimesOf(moves)
  <2>1. own \in Seq(Int) /\ Len(own) = n /\ \A k \in 1..n : own[k] = moves[k].time
    BY <1>1, TimesFacts
  <2> HIDE DEF own, n
  <2>2. /\ Running(own)[0] = 0 /\ Running(own)[n] = Total(own)
        /\ Running(own) \in [0..n -> Int]
        /\ \A k \in 1..n : Running(own)[k] = Running(own)[k - 1] + own[k]
    BY <2>1, RunningFacts
  <2> QED BY <2>1, <2>2 DEF own
<1> HIDE DEF head, at, n
<1>4. times \in Seq(Int) /\ Len(times) = n + 1
      /\ times[1] = lead.time /\ \A k \in 1..n : times[k + 1] = moves[k].time
  <2>1. \A i \in 1..(n + 1) : head[i].time \in Nat
    <3>1. \A i \in 2..(n + 1) : i - 1 \in 1..n /\ (i - 1) + 1 = i BY <1>1
    <3>2. \A i \in 2..(n + 1) : head[i] = moves[i - 1] BY <1>2, <3>1
    <3>3. \A i \in 2..(n + 1) : head[i].time \in Nat BY <3>1, <3>2 DEF n
    <3>4. \A i \in 1..(n + 1) : i = 1 \/ i \in 2..(n + 1) BY <1>1
    <3> QED BY <1>2, <3>3, <3>4
  <2>2. n + 1 \in Nat BY <1>1
  <2>3. /\ times \in Seq(Int) /\ Len(times) = Len(head)
        /\ \A i \in 1..Len(head) : times[i] = head[i].time
    BY <1>2, <2>1, <2>2, TimesFacts
  <2>4. 1 \in 1..(n + 1) /\ \A k \in 1..n : k + 1 \in 1..(n + 1) BY <1>1
  <2> HIDE DEF times
  <2> QED BY <1>2, <2>3, <2>4
<1> DEFINE f == [k \in 0..(n + 1) |-> IF k = 0 THEN 0 ELSE lead.time + at[k - 1]]
<1>5. f \in [0..(n + 1) -> Int]
  <2>1. ASSUME NEW k \in 1..(n + 1) PROVE lead.time + at[k - 1] \in Int
    <3>1. k - 1 \in 0..n BY <1>1
    <3>2. at[k - 1] \in Int BY <1>3, <3>1
    <3> QED BY <3>2
  <2>2. \A k \in 0..(n + 1) : k = 0 \/ k \in 1..(n + 1) BY <1>1
  <2> QED BY <2>1, <2>2
<1>6. ASSUME NEW k \in 1..(n + 1) PROVE f[k] = f[k - 1] + times[k]
  <2>1. k \in 0..(n + 1) /\ k # 0 /\ k - 1 \in 0..(n + 1) BY <1>1
  <2>2. f[k] = lead.time + at[k - 1] BY <2>1
  <2>3. CASE k = 1
    <3>1. f[k - 1] = 0 BY <2>1, <2>3
    <3>2. k - 1 = 0 /\ at[k - 1] = 0 BY <1>3, <2>3
    <3> HIDE DEF f, times
    <3> QED BY <1>4, <2>2, <2>3, <3>1, <3>2
  <2>4. CASE k # 1
    <3> DEFINE j == k - 1
    <3>1. j \in 1..n /\ j \in 0..n /\ j - 1 \in 0..n /\ j + 1 = k BY <1>1, <2>4
    <3>2. f[k - 1] = lead.time + at[j - 1] BY <2>1, <2>4
    <3> HIDE DEF f, times, j
    <3>3. at[j] = at[j - 1] + moves[j].time /\ times[k] = moves[j].time BY <1>3, <1>4, <3>1
    <3>4. at[j] \in Int /\ at[j - 1] \in Int BY <1>3, <3>1
    <3>5. moves[j].time \in Nat BY <3>1 DEF n
    <3>6. f[k] = lead.time + at[j] BY <2>2 DEF j
    <3> QED BY <3>2, <3>3, <3>4, <3>5, <3>6
  <2> QED BY <2>3, <2>4
<1>7. f[0] = 0 /\ f[n + 1] = lead.time + at[n]
  <2>1. 0 \in 0..(n + 1) /\ n + 1 \in 0..(n + 1) /\ n + 1 # 0 /\ (n + 1) - 1 = n BY <1>1
  <2> QED BY <2>1
<1> HIDE DEF f, times
<1>8. Total(times) = f[n + 1] - f[0] BY <1>4, <1>5, <1>6, Telescope
<1>9. n \in 0..n /\ at[n] \in Int
  <2>1. n \in 0..n BY <1>1
  <2> QED BY <1>3, <2>1
<1>10. Total(times) = lead.time + at[n] BY <1>7, <1>8, <1>9
<1> QED BY <1>3, <1>10 DEF times, head

LEMMA AtMostThreeEach ==
    ASSUME NEW s \in Seq(Int), \A k \in 1..Len(s) : s[k] \in 1..3
    PROVE  Running(s)[Len(s)] \in Len(s)..(3 * Len(s))
<1> DEFINE n == Len(s)
           sum == Running(s)
           I == {k \in 0..n : sum[k] \in k..(3 * k)}
<1>1. n \in Nat /\ \A k \in 1..n : s[k] \in 1..3 OBVIOUS
<1>2. sum[0] = 0 /\ (\A k \in 0..n : sum[k] \in Int) /\ \A k \in 1..n : sum[k] = sum[k - 1] + s[k]
  BY RunningFacts
<1> HIDE DEF n, sum
<1>3. 0 \in I BY <1>1, <1>2
<1>4. ASSUME NEW k \in 1..n, k - 1 \in I PROVE k \in I
  <2>1. k \in 0..n /\ k - 1 \in 0..n BY <1>1
  <2>2. sum[k] = sum[k - 1] + s[k] /\ s[k] \in 1..3 /\ sum[k - 1] \in Int BY <1>1, <1>2, <2>1
  <2>3. sum[k - 1] \in (k - 1)..(3 * (k - 1)) BY <1>4
  <2>4. sum[k] \in k..(3 * k) BY <2>2, <2>3
  <2> QED BY <2>1, <2>4
<1> HIDE DEF I
<1>5. 0..n \subseteq I BY <1>1, <1>3, <1>4, Climb
<1>6. n \in I
  <2>1. n \in 0..n BY <1>1
  <2> QED BY <1>5, <2>1
<1> QED BY <1>6 DEF I, n, sum

LEMMA StepsPrefixed ==
    ASSUME NEW a \in Steps, NEW s \in Seq(Steps)
    PROVE  /\ <<a>> \o s \in Seq(Steps) /\ Len(<<a>> \o s) = Len(s) + 1
           /\ (<<a>> \o s)[1] = a
           /\ \A k \in 1..Len(s) : (<<a>> \o s)[k + 1] = s[k]
OBVIOUS

LEMMA GroupedSound ==
    ASSUME NEW beats \in Seq(Beats), Len(beats) \in 1..MaxBeats,
           NEW groups \in Seq(Seq(Moves)), Len(groups) = Len(beats),
           \A g \in 1..Len(groups) : Len(groups[g]) \in 1..3,
           NEW moves \in Seq(HeadMoves),
           Len(moves) = Running(Lengths(groups))[Len(groups)] + 1,
           moves[Len(moves)].to = <<0, 0>>
    PROVE  Sound(Grouped(beats, groups, moves))
<1> DEFINE c == Len(beats)
           n == Len(moves)
           lead == [to |-> <<>>, speed |-> 0, rate |-> 50, time |-> LeadIn]
           head == <<lead>> \o moves
           cut == Cut(groups, moves)
           plan == [beats |-> beats, head |-> head, durations |-> cut, figure |-> "full"]
<1>1. c \in 1..6 /\ Len(groups) = c /\ n \in Nat
  <2>1. n \in Nat OBVIOUS
  <2> HIDE DEF c, n
  <2>2. c \in 1..MaxBeats /\ Len(groups) = c BY DEF c
  <2> QED BY <2>1, <2>2 DEF MaxBeats
<1>2. n \in 2..19
  <2>1. Lengths(groups) \in Seq(Int) /\ Len(Lengths(groups)) = c BY <1>1, Flattened
  <2>2. \A k \in 1..c : Lengths(groups)[k] \in 1..3 BY <1>1 DEF Lengths
  <2>3. Running(Lengths(groups))[c] \in c..(3 * c) BY <2>1, <2>2, AtMostThreeEach
  <2>4. n = Running(Lengths(groups))[c] + 1 BY <1>1
  <2> DEFINE x == Running(Lengths(groups))[c]
  <2> HIDE DEF c, n, x
  <2>5. x \in c..(3 * c) /\ n = x + 1 BY <2>3, <2>4 DEF x
  <2>6. x \in Int /\ x <= 3 * c /\ c <= x /\ c \in Int BY <1>1, <2>5
  <2> QED BY <1>1, <2>5, <2>6
<1>3. \A i \in 1..n : moves[i] \in Steps /\ moves[i].time \in Nat /\ moves[i].time >= ShortestMove
  <2>1. \A i \in 1..n : moves[i] \in HeadMoves OBVIOUS
  <2> QED BY <2>1, HeadMoveFacts
<1>4. moves \in Seq(Steps)
  <2>1. moves = [i \in 1..n |-> moves[i]] OBVIOUS
  <2>2. moves \in [1..n -> Steps]
    <3> HIDE DEF n
    <3> QED BY <1>3, <2>1
  <2> HIDE DEF n
  <2> QED BY <1>1, <2>2, Listed
<1>5. lead \in Steps BY LeadInStep
<1> HIDE DEF lead
<1>6. /\ head \in Seq(Steps) /\ Len(head) = n + 1 /\ head[1] = lead
      /\ \A k \in 1..n : head[k + 1] = moves[k]
  <2> HIDE DEF n
  <2>1. /\ <<lead>> \o moves \in Seq(Steps) /\ Len(<<lead>> \o moves) = Len(moves) + 1
        /\ (<<lead>> \o moves)[1] = lead
        /\ \A k \in 1..Len(moves) : (<<lead>> \o moves)[k + 1] = moves[k]
    BY <1>4, <1>5, StepsPrefixed
  <2> QED BY <2>1 DEF n
<1>7. lead.to = <<>> /\ lead.time = LeadIn /\ LeadIn \in Nat BY DEF lead, LeadIn
<1>8. Total(TimesOf(head)) = LeadIn + Total(TimesOf(moves))
  BY <1>3, <1>4, <1>5, <1>7, LedFacts
<1>9. cut \in Seq(Nat) /\ Len(cut) = c + 2 /\ Total(cut) = LeadIn + Total(TimesOf(moves))
  <2>1. Len(groups) >= 1 BY <1>1
  <2> QED BY <1>1, <1>3, <2>1, CutFacts
<1>10. Grouped(beats, groups, moves) = plan
  BY DEF Grouped, Cut, Lengths, TimesOf, lead
<1> HIDE DEF head, cut
<1>11. plan.beats = beats /\ plan.head = head /\ plan.durations = cut OBVIOUS
<1> HIDE DEF plan
<1>12. head[Len(head)].to = <<0, 0>>
  <2>1. n \in 1..n
    <3> HIDE DEF n
    <3> QED BY <1>2
  <2>2. head[n + 1] = moves[n] BY <1>6, <2>1
  <2> QED BY <1>6, <2>2
<1>13. ASSUME NEW i \in 1..Len(head), head[i].to # <<>> PROVE head[i].time >= ShortestMove
  <2>1. i # 1 BY <1>6, <1>7, <1>13
  <2> HIDE DEF n
  <2>2. i - 1 \in 1..n /\ (i - 1) + 1 = i BY <1>1, <1>6, <2>1
  <2>3. head[i] = moves[i - 1] BY <1>6, <2>2
  <2> QED BY <1>3, <2>2, <2>3
<1>14. Len(head) \in 1..20 /\ Len(cut) \in 1..(c + 2)
  <2> HIDE DEF c, n
  <2> QED BY <1>1, <1>2, <1>6, <1>9
<1>15. Sound(plan)
  BY <1>6, <1>8, <1>9, <1>11, <1>12, <1>13, <1>14 DEF Sound
<1> QED BY <1>10, <1>15

LEMMA BuildSound ==
    ASSUME Measured, DrawnInRange, NEW spec, Designed(spec), NEW count \in 1..Len(spec.beats),
           NEW drifts \in {1, 2}, NEW scale \in {50, 64, 80, 100}
    PROVE  Sound(Build(spec, count, drifts, scale))
<1> DEFINE groups == [i \in 1..count |-> BeatMoves(spec.beats[i], i, drifts, scale)]
           flat == FlattenSeq(groups)
           moves == Append(flat, HomeMove)
           timed == Timed(spec.name, moves)
           beats == SubSeq(spec.beats, 1, count)
<1>1. spec.beats \in Seq(Beats) /\ Len(spec.beats) \in 1..MaxBeats BY DEF Designed
<1>2. count \in Nat /\ count \in 1..MaxBeats /\ count >= 1 /\ count \in 0..Len(spec.beats)
  <2> DEFINE all == Len(spec.beats)
  <2>1. all \in 1..6 /\ count \in 1..all BY <1>1 DEF MaxBeats
  <2> HIDE DEF all
  <2>2. count \in Nat /\ count \in 1..6 /\ count >= 1 /\ count \in 0..all BY <2>1
  <2> QED BY <2>2 DEF all, MaxBeats
<1>3. beats \in Seq(Beats) /\ Len(beats) = count BY <1>1, <1>2, Beginning
<1>4. \A i \in 1..count : groups[i] \in Seq(Moves) /\ Len(groups[i]) \in 1..3
  <2>1. ASSUME NEW i \in 1..count
        PROVE  /\ BeatMoves(spec.beats[i], i, drifts, scale) \in Seq(Moves)
               /\ Len(BeatMoves(spec.beats[i], i, drifts, scale)) \in 1..3
    <3>1. i \in Nat /\ i \in 1..Len(spec.beats) BY <1>1
    <3>2. spec.beats[i] \in Beats BY <1>1, <3>1
    <3> DEFINE b == spec.beats[i]
    <3> HIDE DEF b
    <3>3. b \in Beats BY <3>2 DEF b
    <3>4. Few(BeatMoves(b, i, drifts, scale))
      BY <3>1, <3>3, BeatMovesFacts
    <3> QED BY <3>4 DEF b, Few
  <2> QED BY <2>1
<1>5. groups \in Seq(Seq(Moves)) /\ Len(groups) = count
  <2>1. groups \in [1..count -> Seq(Moves)] BY <1>4
  <2> HIDE DEF groups
  <2> QED BY <1>2, <2>1, Listed
<1> HIDE DEF groups, beats
<1>6. flat \in Seq(Moves) /\ Len(flat) = Running(Lengths(groups))[count]
  BY <1>2, <1>5, Flattened
<1> HIDE DEF flat
<1>7. /\ moves \in Seq(Moves) /\ Len(moves) = Len(flat) + 1 /\ Len(moves) \in 1..Len(moves)
      /\ moves[Len(moves)] = HomeMove
  BY <1>6, HomeMoveFacts
<1> HIDE DEF moves
<1>8. /\ timed \in Seq(HeadMoves) /\ Len(timed) = Len(moves)
      /\ \A i \in 1..Len(moves) : timed[i].to = moves[i].to
  BY <1>7, TimedFacts
<1> HIDE DEF timed
<1>9. timed[Len(timed)].to = <<0, 0>> BY <1>7, <1>8 DEF HomeMove
<1>10. Sound(Grouped(beats, groups, timed))
  BY <1>2, <1>3, <1>4, <1>5, <1>6, <1>7, <1>8, <1>9, GroupedSound
<1> QED BY <1>10 DEF Build, timed, moves, flat, groups, beats

-----------------------------------------------------------------------------
(*                     What is planned for a budget                         *)

LEMMA DesignedFacts ==
    ASSUME NEW spec, Designed(spec)
    PROVE  /\ spec.beats \in Seq(Beats) /\ Len(spec.beats) \in Nat
           /\ Len(spec.beats) \in 1..MaxBeats /\ 1 \in 0..Len(spec.beats)
<1> DEFINE n == Len(spec.beats)
<1>1. spec.beats \in Seq(Beats) /\ n \in 1..MaxBeats BY DEF Designed
<1> HIDE DEF n
<1>2. n \in Nat /\ 1 \in 0..n BY <1>1 DEF MaxBeats
<1> QED BY <1>1, <1>2 DEF n

LEMMA ScaledSound ==
    ASSUME Measured, DrawnInRange, NEW spec, Designed(spec), NEW count \in 1..Len(spec.beats),
           NEW drifts \in {1, 2}, Scaled(spec, count, drifts) # Unbuilt
    PROVE  Sound(Scaled(spec, count, drifts))
<1> DEFINE plans == [s \in 1..4 |-> Build(spec, count, drifts, Scales[s])]
           runs(s) == Runs(plans[s]) /\ \A t \in 1..(s - 1) : ~ Runs(plans[t])
           s == CHOOSE s \in 1..4 : runs(s)
<1>0. Scaled(spec, count, drifts) = Largest(plans) BY Zenon DEF Scaled
<1> HIDE DEF plans
<1>1. (\E k \in 1..4 : runs(k)) /\ Scaled(spec, count, drifts) = plans[s]
  BY <1>0, Zenon DEF Largest
<1> HIDE DEF runs
<1>2. s \in 1..4 BY <1>1, Zenon
<1> HIDE DEF s
<1>3. Scales[s] \in {50, 64, 80, 100} BY <1>2 DEF Scales
<1> DEFINE scale == Scales[s]
<1> HIDE DEF scale
<1>4. scale \in {50, 64, 80, 100} BY <1>3 DEF scale
<1>5. Sound(Build(spec, count, drifts, scale)) BY <1>4, BuildSound
<1>6. plans[s] = Build(spec, count, drifts, scale) BY <1>2, Zenon DEF plans, scale
<1> QED BY <1>1, <1>5, <1>6

LEMMA Summed ==
    ASSUME NEW a \in Int, NEW b \in Int
    PROVE  Total(<<a>>) = a /\ Total(<<a, b>>) = a + b
<1>1. <<a>> \in Seq(Int) /\ Len(<<a>>) = 1 /\ <<a>>[1] = a OBVIOUS
<1>2. <<a, b>> \in Seq(Int) /\ Len(<<a, b>>) = 2 /\ <<a, b>>[1] = a /\ <<a, b>>[2] = b OBVIOUS
<1> DEFINE s == <<a>>
           t == <<a, b>>
<1> HIDE DEF s, t
<1>3. s \in Seq(Int) /\ Len(s) = 1 /\ s[1] = a BY <1>1 DEF s
<1>4. t \in Seq(Int) /\ Len(t) = 2 /\ t[1] = a /\ t[2] = b BY <1>2 DEF t
<1>5. Total(s) = a
  <2>1. /\ Running(s)[0] = 0 /\ Total(s) = Running(s)[1]
        /\ \A k \in 1..1 : Running(s)[k] = Running(s)[k - 1] + s[k]
    BY <1>3, RunningFacts
  <2>2. Running(s)[1] = Running(s)[0] + s[1] BY <2>1
  <2> QED BY <1>3, <2>1, <2>2
<1>6. Total(t) = a + b
  <2>1. /\ Running(t)[0] = 0 /\ Total(t) = Running(t)[2]
        /\ \A k \in 1..2 : Running(t)[k] = Running(t)[k - 1] + t[k]
    BY <1>4, RunningFacts
  <2>2. Running(t)[1] = Running(t)[0] + t[1] /\ Running(t)[2] = Running(t)[1] + t[2] BY <2>1
  <2> QED BY <1>4, <2>1, <2>2
<1> QED BY <1>5, <1>6 DEF s, t

LEMMA Square == ASSUME NEW x \in Int PROVE x * x \in Nat
<1>1. CASE x >= 0 BY <1>1
<1>2. CASE x < 0
  <2>1. x * x = (-x) * (-x) BY SMT
  <2>2. (-x) \in Nat BY <1>2
  <2>3. (-x) * (-x) \in Nat BY <2>2
  <2> QED BY <2>1, <2>3
<1> QED BY <1>1, <1>2

LEMMA SquareOrder ==
    ASSUME NEW a \in Nat, NEW b \in Nat, a * a <= b * b
    PROVE  a <= b
<1>1. ASSUME b < a PROVE FALSE
  <2>1. b * b <= b * a BY <1>1, SMT
  <2>2. b * a < a * a BY <1>1, SMT
  <2> QED BY <2>1, <2>2
<1> QED BY <1>1

(* The fastest point of a loop of these handles, against the time it has.   *)
Quickest(q) == Max({t \in 0..60 : t * t <= 9 * q})

LEMMA LoopSpeed ==
    ASSUME NEW q \in Nat, NEW span \in Nat, 3600 * q <= span * span
    PROVE  Quickest(q) \in Nat /\ Quickest(q) * 1000 <= 50 * span
<1> DEFINE S == {t \in 0..60 : t * t <= 9 * q}
           s == Max(S)
<1>1. S \in SUBSET (0..60) /\ S # {}
  <2>1. 0 \in S OBVIOUS
  <2> QED BY <2>1
<1>2. s \in S
  <2> HIDE DEF S
  <2>1. 60 \in Nat OBVIOUS
  <2> QED BY <1>1, <2>1, MaxOf
<1>3. s \in 0..60 /\ s * s <= 9 * q
  <2> HIDE DEF s
  <2> QED BY <1>2
<1> HIDE DEF s
<1>4. (20 * s) * (20 * s) <= span * span
  <2>1. (20 * s) * (20 * s) = 400 * (s * s) BY <1>3, SMT
  <2> DEFINE x == s * s
             y == span * span
  <2>2. x \in Int /\ y \in Int /\ x <= 9 * q /\ 3600 * q <= y BY <1>3
  <2> HIDE DEF x, y
  <2>3. 400 * x <= y BY <2>2
  <2> QED BY <2>1, <2>3 DEF x, y
<1>5. 20 * s <= span
  <2>1. 20 * s \in Nat BY <1>3
  <2> DEFINE a == 20 * s
  <2> HIDE DEF a
  <2>2. a \in Nat /\ a * a <= span * span BY <1>4, <2>1 DEF a
  <2>3. a <= span BY <2>2, SquareOrder
  <2> QED BY <2>3 DEF a
<1>6. s \in Nat /\ s * 1000 <= 50 * span BY <1>3, <1>5
<1> QED BY <1>6 DEF s, Quickest

LEMMA MinimalSound ==
    ASSUME NEW spec, Designed(spec), NEW budget \in Int
    PROVE  /\ Sound(MinimalHead(spec, budget))
           /\ Total(MinimalHead(spec, budget).durations) = Max({1, budget})
<1> DEFINE B == Max({1, budget})
           leadIn == Max({1, Min({LeadIn, B \div 4})})
           span == B - leadIn
           first == Min({900, span})
           slow == {k \in 0..29 : first - 30 * k >= 30 /\ LoopFits(first - 30 * k, span)}
           reach == IF slow = {} THEN 0 ELSE first - 30 * Min(slow)
           x == Round(reach, 60)
           y == Round(45 * reach, 6000)
           q == x * x + y * y
           speed == Quickest(q)
           home(time) == [to |-> <<0, 0>>, rate |-> 50, time |-> time, speed |-> speed]
           lead == [to |-> <<>>, speed |-> 0, rate |-> 50, time |-> leadIn]
           plan == [beats |-> SubSeq(spec.beats, 1, 1),
                    head |-> IF span < 1 THEN <<home(B)>> ELSE <<lead, home(span)>>,
                    durations |-> IF span < 1 THEN <<B>> ELSE <<leadIn, span>>,
                    figure |-> "minimal"]
<1>1. MinimalHead(spec, budget) = plan BY DEF MinimalHead, Quickest
<1>2. B \in Nat /\ B >= 1 BY Pairs
<1> HIDE DEF B
<1>3. leadIn \in Nat /\ leadIn >= 1 /\ leadIn <= B
  <2> DEFINE quarter == B \div 4
             least == Min({LeadIn, quarter})
  <2>1. quarter \in Nat /\ quarter <= B /\ LeadIn \in Int /\ 1 \in Int BY <1>2 DEF LeadIn
  <2> HIDE DEF quarter
  <2>2. least = (IF LeadIn <= quarter THEN LeadIn ELSE quarter) /\ quarter \in Int BY <2>1, Pairs
  <2> HIDE DEF least
  <2>3. least \in Int /\ least <= B BY <1>2, <2>1, <2>2 DEF LeadIn
  <2>4. leadIn = Max({1, least}) BY DEF least, quarter
  <2> HIDE DEF leadIn
  <2>5. leadIn = IF 1 >= least THEN 1 ELSE least BY <2>1, <2>3, <2>4, Pairs
  <2> QED BY <1>2, <2>3, <2>5
<1> HIDE DEF leadIn
<1>4. span \in Nat /\ leadIn + span = B BY <1>2, <1>3
<1> HIDE DEF span
<1>5. first \in Int /\ first <= span /\ first <= 900
  <2>1. span \in Int /\ 900 \in Int BY <1>4
  <2> HIDE DEF first
  <2>2. first = IF 900 <= span THEN 900 ELSE span BY <2>1, Pairs DEF first
  <2> QED BY <2>1, <2>2
<1> HIDE DEF first
<1>6. slow = {} \/ (reach \in Int /\ reach >= 30 /\ LoopFits(reach, span))
  <2>1. ASSUME slow # {} PROVE reach \in Int /\ reach >= 30 /\ LoopFits(reach, span)
    <3> DEFINE k == Min(slow)
    <3>1. slow \in SUBSET Nat OBVIOUS
    <3>2. k \in slow
      <4> HIDE DEF slow
      <4> QED BY <2>1, <3>1, MinOf
    <3> HIDE DEF k
    <3>3. k \in 0..29 /\ first - 30 * k >= 30 /\ LoopFits(first - 30 * k, span) BY <3>2
    <3>4. reach = first - 30 * k BY <2>1 DEF k
    <3> HIDE DEF reach
    <3> QED BY <1>5, <3>3, <3>4
  <2> QED BY <2>1
<1>7. span < 1 => slow = {}
  <2>1. ASSUME span < 1, NEW k \in slow PROVE FALSE
    <3>1. k \in 0..29 /\ first - 30 * k >= 30 BY <2>1
    <3> QED BY <1>4, <1>5, <2>1, <3>1
  <2> QED BY <2>1
<1> HIDE DEF slow
<1>8. slow = {} => reach = 0 OBVIOUS
<1> HIDE DEF reach
<1>9. x \in Int /\ y \in Int
  <2>1. reach \in Int /\ 45 * reach \in Int BY <1>6, <1>8
  <2>2. 60 \in Nat \ {0} /\ 6000 \in Nat \ {0} BY SMT
  <2> QED BY <2>1, <2>2, RoundFacts, SMT
<1>10. reach = 0 => x = 0 /\ y = 0
  <2>1. Round(0, 60) = 0 BY SMT DEF Round
  <2>2. Round(45 * 0, 6000) = 0 BY SMT DEF Round
  <2> QED BY <2>1, <2>2, SMT
<1>11. LoopFits(reach, span) => 9 * 400 * q <= span * span BY SMT DEF LoopFits
<1> HIDE DEF x, y
<1>12. q \in Nat
  <2>1. x * x \in Nat /\ y * y \in Nat BY <1>9, Square
  <2> QED BY <2>1
<1>13. reach = 0 => q = 0 BY <1>10, SMT
<1> HIDE DEF q
<1>14. 3600 * q <= span * span
  <2>1. CASE reach = 0
    <3>1. span * span \in Nat BY <1>4
    <3> QED BY <1>13, <2>1, <3>1
  <2>2. CASE reach # 0 BY <1>6, <1>8, <1>11, <1>12, <2>2
  <2> QED BY <2>1, <2>2
<1>15. speed \in Nat /\ speed * 1000 <= 50 * span BY <1>4, <1>12, <1>14, LoopSpeed
<1> HIDE DEF speed
<1>16. lead \in Steps BY <1>3, SMT DEF Steps, AtMost
<1>17. ASSUME NEW time \in Nat, span <= time PROVE home(time) \in Steps
  <2>1. speed * 1000 <= 50 * time BY <1>4, <1>15, <1>17
  <2>2. <<0, 0>> \in Poses BY DEF Poses
  <2>3. home(time).speed = speed /\ home(time).rate = 50 /\ home(time).time = time OBVIOUS
  <2>4. home(time) \in [to : Poses \cup {<<>>}, rate : {20, 50, 68, 88}, speed : Nat, time : Nat]
    BY <1>15, <2>2
  <2> HIDE DEF home
  <2> QED BY <2>1, <2>3, <2>4 DEF Steps, AtMost
<1> DEFINE hB == home(B)
           hS == home(span)
<1>18. hB \in Steps /\ hS \in Steps
  <2>1. span <= B /\ span <= span BY <1>2, <1>3, <1>4
  <2> HIDE DEF home
  <2> QED BY <1>2, <1>4, <1>17, <2>1
<1>19. hB.to = <<0, 0>> /\ hB.time = B /\ hS.to = <<0, 0>> /\ hS.time = span /\ lead.time = leadIn
  OBVIOUS
<1> DEFINE beats == SubSeq(spec.beats, 1, 1)
<1>20. beats \in Seq(Beats) /\ Len(beats) = 1 /\ Len(beats) \in 1..MaxBeats
  <2>1. spec.beats \in Seq(Beats) /\ 1 \in 0..Len(spec.beats) BY DesignedFacts
  <2>2. beats \in Seq(Beats) /\ Len(beats) = 1 BY <2>1, Beginning
  <2> QED BY <2>2 DEF MaxBeats
<1> HIDE DEF beats, home, lead
<1>21. CASE span < 1
  <2>1. plan.beats = beats /\ plan.head = <<hB>> /\ plan.durations = <<B>> /\ plan.figure = "minimal"
    BY <1>21 DEF beats, hB
  <2> HIDE DEF plan, hB
  <2>2. <<hB>> \in Seq(Steps) /\ Len(<<hB>>) = 1 /\ <<hB>>[1] = hB BY <1>18
  <2>3. <<B>> \in Seq(Nat) /\ Len(<<B>>) = 1 BY <1>2
  <2>4. TimesOf(<<hB>>) = <<B>>
    <3>1. TimesOf(<<hB>>) = [i \in 1..1 |-> <<hB>>[i].time] BY DEF TimesOf
    <3>2. \A i \in 1..1 : <<hB>>[i].time = B BY <1>19
    <3>3. TimesOf(<<hB>>) = [i \in 1..1 |-> B] BY <3>1, <3>2
    <3> QED BY <3>3
  <2>5. Total(<<B>>) = B
    <3>1. B \in Int BY <1>2
    <3> QED BY <3>1, Summed
  <2>6. Sound(plan)
    <3>1. 1 \in 1..20 /\ 1 \in 1..(1 + 2) /\ "minimal" # "full" OBVIOUS
    <3>2. plan.beats \in Seq(Beats) /\ Len(plan.beats) \in 1..MaxBeats BY <1>20, <2>1
    <3>3. plan.head \in Seq(Steps) /\ Len(plan.head) \in 1..20 BY <2>1, <2>2, <3>1
    <3>4. plan.head[Len(plan.head)].to = <<0, 0>> BY <1>19, <2>1, <2>2
    <3>5. plan.durations \in Seq(Nat) /\ Len(plan.durations) \in 1..(Len(plan.beats) + 2)
      BY <1>20, <2>1, <2>3, <3>1
    <3> QED BY <2>1, <2>4, <3>1, <3>2, <3>3, <3>4, <3>5 DEF Sound
  <2> QED BY <1>1, <2>1, <2>5, <2>6 DEF B
<1>22. CASE ~ (span < 1)
  <2>1. /\ plan.beats = beats /\ plan.head = <<lead, hS>> /\ plan.durations = <<leadIn, span>>
        /\ plan.figure = "minimal"
    BY <1>22 DEF beats, hS
  <2> HIDE DEF plan, hS
  <2>2. /\ <<lead, hS>> \in Seq(Steps) /\ Len(<<lead, hS>>) = 2
        /\ <<lead, hS>>[1] = lead /\ <<lead, hS>>[2] = hS
    BY <1>16, <1>18
  <2>3. <<leadIn, span>> \in Seq(Nat) /\ Len(<<leadIn, span>>) = 2 BY <1>3, <1>4
  <2>4. TimesOf(<<lead, hS>>) = <<leadIn, span>>
    <3>1. TimesOf(<<lead, hS>>) = [i \in 1..2 |-> <<lead, hS>>[i].time] BY DEF TimesOf
    <3>2. \A i \in 1..2 : <<lead, hS>>[i].time = IF i = 1 THEN leadIn ELSE span BY <1>19
    <3>3. TimesOf(<<lead, hS>>) = [i \in 1..2 |-> IF i = 1 THEN leadIn ELSE span] BY <3>1, <3>2
    <3> QED BY <3>3
  <2>5. Total(<<leadIn, span>>) = B
    <3>1. leadIn \in Int /\ span \in Int BY <1>3, <1>4
    <3> QED BY <1>4, <3>1, Summed
  <2>6. Sound(plan)
    <3>1. 2 \in 1..20 /\ 2 \in 1..(1 + 2) /\ "minimal" # "full" OBVIOUS
    <3>2. plan.beats \in Seq(Beats) /\ Len(plan.beats) \in 1..MaxBeats BY <1>20, <2>1
    <3>3. plan.head \in Seq(Steps) /\ Len(plan.head) \in 1..20 BY <2>1, <2>2, <3>1
    <3>4. plan.head[Len(plan.head)].to = <<0, 0>> BY <1>19, <2>1, <2>2
    <3>5. plan.durations \in Seq(Nat) /\ Len(plan.durations) \in 1..(Len(plan.beats) + 2)
      BY <1>20, <2>1, <2>3, <3>1
    <3> QED BY <2>1, <2>4, <3>1, <3>2, <3>3, <3>4, <3>5 DEF Sound
  <2> QED BY <1>1, <2>1, <2>5, <2>6 DEF B
<1> QED BY <1>21, <1>22

(* Every plan is sound and within its budget.                               *)
Playable(plan, budget) == Sound(plan) /\ Total(plan.durations) <= Max({1, budget})

LEMMA PlanPlayable ==
    ASSUME Measured, DrawnInRange, NEW spec, Designed(spec), NEW budget \in Int
    PROVE  Playable(Plan(spec, budget), budget)
<1> DEFINE all == Len(spec.beats)
           fitting == {c \in (1..all) \X {1, 2} : Fits(spec, c[1], c[2], budget)}
           counts == {c[1] : c \in fitting}
           most == Max(counts)
           drifts == IF <<most, 2>> \in fitting THEN 2 ELSE 1
           B == Max({1, budget})
<1>1. all \in Nat BY DesignedFacts
<1>2. B \in Int /\ budget <= B BY Pairs
<1>3. Plan(spec, budget) = IF fitting = {} THEN MinimalHead(spec, budget)
                           ELSE Scaled(spec, most, drifts)
  BY Zenon DEF Plan, Richest
<1>4. \A c \in fitting : /\ c \in (1..all) \X {1, 2}
                         /\ Fits(spec, c[1], c[2], budget)
  BY Zenon
<1> HIDE DEF B, all, fitting
<1>5. CASE fitting = {}
  <2>1. Sound(MinimalHead(spec, budget)) /\ Total(MinimalHead(spec, budget).durations) = B
    BY MinimalSound DEF B
  <2>2. Plan(spec, budget) = MinimalHead(spec, budget) BY <1>3, <1>5
  <2> QED BY <1>2, <2>1, <2>2 DEF Playable, B
<1>6. CASE fitting # {}
  <2>1. most \in counts
    <3>1. counts \in SUBSET (0..all) /\ counts # {} BY <1>1, <1>4, <1>6
    <3> HIDE DEF counts
    <3> QED BY <1>1, <3>1, MaxOf
  <2>2. PICK c \in fitting : most = c[1]
    <3> HIDE DEF most
    <3> QED BY <2>1
  <2> HIDE DEF most, counts
  <2>3. most \in 1..all /\ drifts \in {1, 2} /\ <<most, drifts>> \in fitting
    <3>1. c = <<most, 1>> \/ c = <<most, 2>> BY <1>4, <2>2
    <3>2. c \in (1..all) \X {1, 2} BY <1>4, <2>2
    <3> QED BY <2>2, <3>1, <3>2
  <2>4. Plan(spec, budget) = Scaled(spec, most, drifts) BY <1>3, <1>6, Zenon
  <2> HIDE DEF drifts
  <2> DEFINE plan == Scaled(spec, most, drifts)
  <2>5. plan # Unbuilt /\ Total(plan.durations) <= budget
    <3>1. Fits(spec, <<most, drifts>>[1], <<most, drifts>>[2], budget) BY <1>4, <2>3, Zenon
    <3>2. <<most, drifts>>[1] = most /\ <<most, drifts>>[2] = drifts OBVIOUS
    <3>3. Fits(spec, most, drifts, budget) BY <3>1, <3>2, Zenon
    <3> QED BY <3>3, Zenon DEF Fits, InTime
  <2>6. Sound(plan) BY <2>3, <2>5, ScaledSound DEF all
  <2> HIDE DEF plan
  <2>7. Total(plan.durations) \in Int
    <3>1. plan.durations \in Seq(Nat) BY <2>6 DEF Sound
    <3>2. plan.durations \in Seq(Int)
      <4>1. Nat \subseteq Int OBVIOUS
      <4> QED BY <3>1, <4>1
    <3> QED BY <3>2, RunningFacts
  <2>8. Total(plan.durations) <= B BY <1>2, <2>5, <2>7
  <2> QED BY <2>4, <2>6, <2>8 DEF Playable, plan, B
<1> QED BY <1>5, <1>6

-----------------------------------------------------------------------------
(*                   The document of a plan, and its checks                 *)

EndOk(end) == IF Len(end) = 2 THEN end[1] \in 0..100 /\ end[2] \in 0..20
              ELSE end[1] \in -100..100

LEMMA ShakeFacts ==
    ASSUME NEW b \in Beats
    PROVE  Len(Shake(b)) = 2 /\ EndOk(Shake(b))
<1>1. CASE b.kind = "accent" BY <1>1 DEF Shake, EndOk
<1>2. CASE b.kind # "accent" /\ b.energy = "low" BY <1>2 DEF Shake, EndOk
<1>3. CASE b.kind # "accent" /\ b.energy = "mid" BY <1>3 DEF Shake, EndOk
<1>4. CASE b.kind # "accent" /\ b.energy = "high" BY <1>4 DEF Shake, EndOk
<1> QED BY <1>1, <1>2, <1>3, <1>4 DEF Beats, Energies

LEMMA SwayFacts ==
    ASSUME NEW b \in Beats, NEW i
    PROVE  Len(Sway(b, i)) = 1 /\ EndOk(Sway(b, i))
<1> DEFINE v == IF Directions[b.direction][2] # 0 THEN Directions[b.direction][2]
                ELSE IF i % 2 = 1 THEN 5 ELSE -5
           a == (v * Reach[b.energy]) \div 10
<1>1. v \in Int BY BeatFacts
<1> HIDE DEF v
<1>2. v * Reach[b.energy] \in Int BY <1>1, BeatFacts
<1>3. a \in Int BY <1>2
<1> HIDE DEF a
<1>4. Within(a, 100) \in -100..100 BY <1>3, WithinFacts
<1>5. Sway(b, i) = <<Within(a, 100)>> BY DEF Sway, a, v
<1> QED BY <1>4, <1>5 DEF EndOk

LEMMA RestFacts ==
    ASSUME NEW beats
    PROVE  /\ Rest(beats) \in {<<0>>, <<0, 0>>} /\ EndOk(Rest(beats))
           /\ Energetic(beats) => Len(Rest(beats)) = 2
           /\ ~ Energetic(beats) => Len(Rest(beats)) = 1
BY DEF Rest, EndOk

LEMMA AntennaFacts ==
    ASSUME NEW beats \in Seq(Beats), NEW groups \in 1..(Len(beats) + 2)
    PROVE  /\ \E length : \A g \in 1..groups : Len(Antenna(beats, groups)[g]) = length
           /\ \A g \in 1..groups : EndOk(Antenna(beats, groups)[g])
           /\ Last(Antenna(beats, groups)) \in {<<0>>, <<0, 0>>}
<1> DEFINE length == IF Energetic(beats) THEN 2 ELSE 1
           antenna == Antenna(beats, groups)
           n == Len(beats)
<1>1. n \in Nat /\ \A b \in 1..n : beats[b] \in Beats OBVIOUS
<1> HIDE DEF n
<1>2. groups \in 1..(n + 2) BY DEF n
<1>3. ASSUME NEW g \in 1..groups
      PROVE  Len(antenna[g]) = length /\ EndOk(antenna[g])
  <2>1. antenna[g] = IF g = 1 \/ g = groups THEN Rest(beats)
                     ELSE IF Energetic(beats) THEN Shake(beats[g - 1])
                     ELSE Sway(beats[g - 1], g - 1)
    BY DEF Antenna
  <2> HIDE DEF antenna
  <2>2. CASE g = 1 \/ g = groups BY <2>1, <2>2, RestFacts
  <2>3. CASE ~ (g = 1 \/ g = groups)
    <3>1. g - 1 \in 1..n BY <1>1, <1>2, <2>3
    <3> DEFINE b == beats[g - 1]
    <3>2. b \in Beats BY <1>1, <3>1
    <3>3. antenna[g] = IF Energetic(beats) THEN Shake(b) ELSE Sway(b, g - 1) BY <2>1, <2>3
    <3> HIDE DEF b
    <3>4. Len(Shake(b)) = 2 /\ EndOk(Shake(b)) BY <3>2, ShakeFacts
    <3>5. Len(Sway(b, g - 1)) = 1 /\ EndOk(Sway(b, g - 1)) BY <3>2, SwayFacts
    <3> QED BY <3>3, <3>4, <3>5
  <2> QED BY <2>2, <2>3
<1>4. Last(antenna) = Rest(beats)
  <2>1. groups \in Nat /\ groups \in 1..groups BY <1>1, <1>2
  <2>2. Len(antenna) = groups
    <3>1. DOMAIN antenna = 1..groups BY DEF Antenna
    <3> DEFINE V == {antenna[g] : g \in 1..groups}
    <3>2. antenna \in [1..groups -> V] BY DEF Antenna
    <3> HIDE DEF antenna, V
    <3> QED BY <2>1, <3>2, Listed
  <2>3. antenna[groups] = Rest(beats) BY <2>1 DEF Antenna
  <2> QED BY <2>2, <2>3 DEF Last
<1> HIDE DEF antenna, length
<1>5. \E k : \A g \in 1..groups : Len(antenna[g]) = k BY <1>3
<1> QED BY <1>3, <1>4, <1>5, RestFacts DEF antenna

LEMMA GlowFacts ==
    ASSUME NEW b \in Beats, NEW shift \in {0, -45, -70}
    PROVE  Glow(b, shift)[2] \in 0..255
<1> DEFINE alpha == IF b.kind = "accent" THEN 255
                    ELSE [low |-> 120, mid |-> 180, high |-> 240][b.energy]
<1>1. alpha \in {120, 180, 240, 255} BY DEF Beats, Energies
<1>2. Glow(b, shift) = IF b.colour = "off" THEN <<"off", 0>> ELSE <<b.colour, alpha + shift>>
  BY DEF Glow
<1> HIDE DEF alpha
<1> QED BY <1>1, <1>2

LEMMA LedsFacts ==
    ASSUME NEW beats \in Seq(Beats), NEW groups \in Nat
    PROVE  \A led \in DOMAIN Leds(beats, groups) : \A g \in 1..groups :
               Leds(beats, groups)[led][g][2] \in 0..255
<1> DEFINE n == Len(beats)
           leds == Leds(beats, groups)
           has(b) == 1 <= b /\ b <= n
           glow(b, shift) == IF has(b) THEN Glow(beats[b], shift) ELSE Dark
           body(rest) == [g \in 1..groups |->
                             IF (g - 1) % 3 = rest THEN glow(g - 1, -70) ELSE Dark]
           left == [g \in 1..groups |-> glow(g - 1, 0)]
           right == [g \in 1..groups |->
                        IF g >= 3 /\ has(g - 1) THEN Glow(beats[g - 2], -45)
                        ELSE glow(g - 1, -45)]
<1>1. n \in Nat /\ \A b \in 1..n : beats[b] \in Beats OBVIOUS
<1> HIDE DEF n
<1>2. Dark[2] \in 0..255 BY DEF Dark
<1>3. ASSUME NEW b \in Int, NEW shift \in {0, -45, -70} PROVE glow(b, shift)[2] \in 0..255
  <2>1. CASE has(b)
    <3>1. b \in 1..n BY <1>1, <2>1
    <3>2. beats[b] \in Beats BY <1>1, <3>1
    <3>3. Glow(beats[b], shift)[2] \in 0..255 BY <3>2, GlowFacts
    <3> QED BY <2>1, <3>3
  <2>2. CASE ~ has(b)
    <3>1. glow(b, shift) = Dark BY <2>2
    <3> QED BY <1>2, <3>1
  <2> QED BY <2>1, <2>2
<1> HIDE DEF glow
<1>4. ASSUME NEW g \in 1..groups
      PROVE  /\ left[g][2] \in 0..255 /\ right[g][2] \in 0..255
             /\ \A rest : body(rest)[g][2] \in 0..255
  <2>1. g - 1 \in Int OBVIOUS
  <2>2. glow(g - 1, 0)[2] \in 0..255 /\ glow(g - 1, -45)[2] \in 0..255 /\ glow(g - 1, -70)[2] \in 0..255
    BY <1>3, <2>1
  <2>3. left[g] = glow(g - 1, 0) OBVIOUS
  <2>4. right[g][2] \in 0..255
    <3>1. CASE g >= 3 /\ has(g - 1)
      <4>1. g - 2 \in 1..n BY <1>1, <3>1
      <4>2. beats[g - 2] \in Beats BY <1>1, <4>1
      <4>3. Glow(beats[g - 2], -45)[2] \in 0..255 BY <4>2, GlowFacts
      <4>4. right[g] = Glow(beats[g - 2], -45) BY <3>1
      <4> QED BY <4>3, <4>4
    <3>2. CASE ~ (g >= 3 /\ has(g - 1))
      <4>1. right[g] = glow(g - 1, -45) BY <3>2
      <4> QED BY <2>2, <4>1
    <3> QED BY <3>1, <3>2
  <2>5. ASSUME NEW rest PROVE body(rest)[g][2] \in 0..255
    <3>1. body(rest)[g] = IF (g - 1) % 3 = rest THEN glow(g - 1, -70) ELSE Dark OBVIOUS
    <3> HIDE DEF body
    <3> QED BY <1>2, <2>2, <3>1
  <2> HIDE DEF left, right, body
  <2> QED BY <2>2, <2>3, <2>4, <2>5
<1>5. leds = [led_cheek_l |-> left, led_cheek_r |-> right,
              led_rec |-> body(1), led_play |-> body(2), led_func |-> body(0)]
  BY Zenon DEF Leds, glow, n
<1> HIDE DEF left, right, body, leds
<1>6. ASSUME NEW led \in DOMAIN leds, NEW g \in 1..groups PROVE leds[led][g][2] \in 0..255
  <2>1. led \in {"led_cheek_l", "led_cheek_r", "led_rec", "led_play", "led_func"} BY <1>5
  <2>2. leds[led] \in {left, right, body(0), body(1), body(2)} BY <1>5, <2>1
  <2> QED BY <1>4, <2>2
<1> QED BY <1>6 DEF leds

LEMMA OneMode ==
    ASSUME NEW n \in Nat, NEW f, NEW length, \A g \in 1..n : f[g] = length
    PROVE  Cardinality({f[g] : g \in 1..n}) <= 1
<1> DEFINE modes == {f[g] : g \in 1..n}
<1>1. modes \subseteq {length} OBVIOUS
<1>2. IsFiniteSet({length}) /\ Cardinality({length}) = 1 BY FS_Singleton
<1> HIDE DEF modes
<1>3. Cardinality(modes) <= Cardinality({length}) BY <1>1, <1>2, FS_Subset
<1> QED BY <1>2, <1>3 DEF modes

(* No part of a sum of numbers that are not negative exceeds it.            *)
LEMMA PartOfTotal ==
    ASSUME NEW s \in Seq(Int), \A k \in 1..Len(s) : s[k] >= 0,
           NEW most \in Int, Total(s) <= most
    PROVE  \A k \in 1..Len(s) : s[k] \in 0..most
<1> DEFINE n == Len(s)
           sum == Running(s)
<1>1. n \in Nat /\ \A k \in 1..n : s[k] \in Int OBVIOUS
<1>2. /\ \A k \in 0..n : sum[k] \in 0..Total(s)
      /\ \A k \in 1..n : sum[k] = sum[k - 1] + s[k]
      /\ Total(s) \in Int
  BY RunningFacts, Growing
<1> HIDE DEF n, sum
<1>3. ASSUME NEW k \in 1..n PROVE s[k] \in 0..most
  <2>1. k \in 0..n /\ k - 1 \in 0..n BY <1>1
  <2>2. sum[k] \in 0..Total(s) /\ sum[k - 1] \in 0..Total(s) /\ sum[k] = sum[k - 1] + s[k]
    BY <1>2, <2>1
  <2>3. s[k] \in Int /\ s[k] >= 0 BY <1>1 DEF n
  <2> QED BY <1>2, <2>2, <2>3
<1> QED BY <1>3 DEF n

LEMMA StepFacts ==
    ASSUME NEW m \in Steps
    PROVE  /\ m.time \in Nat /\ AtMost(m, m.rate) /\ AtMost(m, SafeRate)
           /\ m.to # <<>> => m.to = Pose(m.to[1], m.to[2])
<1>1. m.to \in Poses \cup {<<>>} /\ m.rate \in {20, 50, 68, 88} /\ m.speed \in Nat /\ m.time \in Nat
      /\ AtMost(m, m.rate)
  BY DEF Steps
<1>2. AtMost(m, SafeRate)
  <2>1. m.speed * 1000 <= m.rate * m.time BY <1>1 DEF AtMost
  <2>2. m.rate * m.time <= 120 * m.time
    <3>1. CASE m.rate = 20 BY <1>1, <3>1, SMT
    <3>2. CASE m.rate = 50 BY <1>1, <3>2, SMT
    <3>3. CASE m.rate = 68 BY <1>1, <3>3, SMT
    <3>4. CASE m.rate = 88 BY <1>1, <3>4, SMT
    <3> QED BY <1>1, <3>1, <3>2, <3>3, <3>4
  <2>3. m.rate * m.time \in Int /\ m.speed * 1000 \in Int /\ 120 * m.time \in Int BY <1>1, SMT
  <2> QED BY <2>1, <2>2, <2>3 DEF AtMost, SafeRate
<1>3. m.to # <<>> => m.to = Pose(m.to[1], m.to[2]) BY <1>1, PosedAlready
<1> QED BY <1>1, <1>2, <1>3

LEMMA PlayableSent ==
    ASSUME NEW plan, NEW budget \in Int, budget <= MaxMotion, Playable(plan, budget)
    PROVE  /\ Sendable(Document(plan))
           /\ Last(Document(plan).antenna) \in {<<0>>, <<0, 0>>}
<1> DEFINE document == Document(plan)
           head == plan.head
           groups == Len(plan.durations)
           n == Len(head)
           antenna == Antenna(plan.beats, groups)
           leds == Leds(plan.beats, groups)
           B == Max({1, budget})
<1>1. /\ document.head = head /\ document.durations = plan.durations
      /\ document.antenna = antenna /\ document.leds = leds
  BY DEF Document
<1> HIDE DEF document
<1>2. /\ plan.beats \in Seq(Beats) /\ Len(plan.beats) \in 1..6
      /\ head \in Seq(Steps) /\ n \in 1..20 /\ head[n].to = <<0, 0>>
      /\ plan.durations \in Seq(Nat) /\ groups \in 1..(Len(plan.beats) + 2)
      /\ Total(TimesOf(head)) = Total(plan.durations)
      /\ Total(plan.durations) <= B
  BY DEF Playable, Sound, MaxBeats
<1>3. B \in Int /\ B <= MaxMotion
  <2>1. 1 \in Int OBVIOUS
  <2>2. B = IF 1 >= budget THEN 1 ELSE budget BY <2>1, Pairs
  <2> QED BY <2>2 DEF MaxMotion
<1> HIDE DEF B
<1>4. \A i \in 1..n : /\ head[i].time \in Nat /\ AtMost(head[i], SafeRate)
                      /\ head[i].to # <<>> => head[i].to = Pose(head[i].to[1], head[i].to[2])
  <2>1. \A i \in 1..n : head[i] \in Steps BY <1>2
  <2> QED BY <2>1, StepFacts
<1>5. groups \in Nat /\ groups <= 15 /\ n \in Nat /\ n <= 35
  <2> DEFINE b == Len(plan.beats)
  <2>1. b \in 1..6 /\ groups \in 1..(b + 2) /\ n \in 1..20 BY <1>2
  <2> HIDE DEF b, groups, n
  <2> QED BY <2>1
<1>6. /\ TimesOf(head) \in Seq(Int) /\ Len(TimesOf(head)) = n
      /\ \A i \in 1..n : TimesOf(head)[i] >= 0
  BY <1>4, <1>5, TimesFacts
<1>7. plan.durations \in Seq(Int) /\ \A g \in 1..groups : plan.durations[g] >= 0
  <2>1. Nat \subseteq Int OBVIOUS
  <2>2. \A g \in 1..groups : plan.durations[g] \in Nat BY <1>2
  <2> QED BY <1>2, <2>1, <2>2
<1>8. Total(plan.durations) \in Int /\ Total(plan.durations) <= MaxMotion /\ MaxMotion \in Int
  <2>1. Total(plan.durations) \in Int BY <1>7, RunningFacts
  <2> QED BY <1>2, <1>3, <2>1 DEF MaxMotion
<1> HIDE DEF head, groups, n
<1>9. \A i \in 1..n : TimesOf(head)[i] \in 0..MaxMotion
  <2>1. Total(TimesOf(head)) <= MaxMotion BY <1>2, <1>8
  <2> DEFINE times == TimesOf(head)
  <2> HIDE DEF times
  <2>2. times \in Seq(Int) /\ Len(times) = n /\ (\A i \in 1..n : times[i] >= 0) /\ Total(times) <= MaxMotion
    BY <1>6, <2>1 DEF times
  <2>3. \A k \in 1..n : times[k] \in 0..MaxMotion BY <1>8, <2>2, PartOfTotal
  <2> QED BY <2>3 DEF times
<1>10. \A g \in 1..groups : plan.durations[g] \in 0..MaxMotion
  BY <1>7, <1>8, PartOfTotal DEF groups
<1>11. /\ \E length : \A g \in 1..groups : Len(antenna[g]) = length
       /\ \A g \in 1..groups : EndOk(antenna[g])
       /\ Last(antenna) \in {<<0>>, <<0, 0>>}
  BY <1>2, AntennaFacts
<1>12. \A led \in DOMAIN leds : \A g \in 1..groups : leds[led][g][2] \in 0..255
  BY <1>2, <1>5, LedsFacts
<1> HIDE DEF antenna, leds
<1>13. Cardinality({Len(antenna[g]) : g \in 1..groups}) <= 1
  <2>1. PICK length : \A g \in 1..groups : Len(antenna[g]) = length BY <1>11
  <2> DEFINE f == [g \in 1..groups |-> Len(antenna[g])]
  <2>2. \A g \in 1..groups : f[g] = length BY <2>1
  <2>3. {Len(antenna[g]) : g \in 1..groups} = {f[g] : g \in 1..groups} OBVIOUS
  <2> HIDE DEF f
  <2>4. Cardinality({f[g] : g \in 1..groups}) <= 1 BY <1>5, <2>2, OneMode
  <2> QED BY <2>3, <2>4
<1>14. TimesOf(head) = [i \in 1..n |-> head[i].time] BY DEF TimesOf, n
<1>15. n = Len(head) /\ groups = Len(plan.durations) BY DEF n, groups
<1>16. Valid(document)
  <2>1. Len(document.head) <= 35 /\ Len(document.durations) <= 15 BY <1>1, <1>5, <1>15
  <2>2. /\ \A i \in 1..n : TimesOf(head)[i] \in 0..MaxMotion
        /\ Total(TimesOf(head)) <= MaxMotion /\ Total(document.durations) <= MaxMotion
        /\ \A g \in 1..groups : document.durations[g] \in 0..MaxMotion
    BY <1>1, <1>2, <1>8, <1>9, <1>10
  <2>3. \A g \in 1..groups :
            LET end == document.antenna[g]
            IN IF Len(end) = 2 THEN end[1] \in 0..100 /\ end[2] \in 0..20
               ELSE end[1] \in -100..100
    BY <1>1, <1>11 DEF EndOk
  <2>4. [i \in 1..Len(document.head) |-> document.head[i].time] = TimesOf(head)
    BY <1>1, <1>14, <1>15
  <2>5. \A i \in 1..Len(TimesOf(head)) : TimesOf(head)[i] \in 0..MaxMotion BY <1>6, <2>2
  <2>6. \A i \in 1..Len(document.head) :
            LET to == document.head[i].to
            IN to # <<>> => to = Pose(to[1], to[2])
    BY <1>1, <1>4, <1>15
  <2>7. Cardinality({Len(document.antenna[g]) : g \in 1..Len(document.durations)}) <= 1
    BY <1>1, <1>13, <1>15
  <2>8. \A led \in DOMAIN document.leds : \A g \in 1..Len(document.durations) :
            document.leds[led][g][2] \in 0..255
    BY <1>1, <1>12, <1>15
  <2>9. groups = Len(document.durations) BY <1>1, <1>15
  <2> QED BY <2>1, <2>2, <2>3, <2>4, <2>5, <2>6, <2>7, <2>8, <2>9, Zenon DEF Valid
<1>17. Sendable(document)
  <2>1. \A i \in 1..n : AtMost(head[i], SafeRate) BY <1>4
  <2>2. Total(TimesOf(head)) = Total(document.durations) BY <1>1, <1>2
  <2> QED BY <1>1, <1>2, <1>14, <1>15, <1>16, <2>1, <2>2 DEF Sendable
<1> QED BY <1>1, <1>11, <1>17 DEF document

(* What a design is rendered to.                                            *)
LEMMA RenderFacts ==
    ASSUME Measured, DrawnInRange, NEW spec, Designed(spec), NEW budget \in Int
    PROVE  \E plan : /\ Playable(plan, budget)
                     /\ Render(spec, budget) = Document(plan)
                     /\ Last(Document(plan).antenna) \in {<<0>>, <<0, 0>>}
<1> DEFINE most == Min({budget, MaxMotion})
           plan == Plan(spec, most)
<1>1. most \in Int /\ most <= MaxMotion /\ most <= budget
  <2>1. MaxMotion \in Int BY DEF MaxMotion
  <2>2. most = IF budget <= MaxMotion THEN budget ELSE MaxMotion BY <2>1, Pairs
  <2> HIDE DEF most
  <2> QED BY <2>1, <2>2
<1> HIDE DEF most
<1>2. Playable(plan, most) BY <1>1, PlanPlayable
<1>3. Sendable(Document(plan)) /\ Last(Document(plan).antenna) \in {<<0>>, <<0, 0>>}
  <2> HIDE DEF plan
  <2> QED BY <1>1, <1>2, PlayableSent
<1>4. spec # None
  <2>1. None.name = "" BY DEF None
  <2>2. spec.name # "" BY DEF Designed
  <2> QED BY <2>1, <2>2
<1>5. Render(spec, budget) = Document(plan) BY <1>3, <1>4, Zenon DEF Render, Checked, most
<1>6. Playable(plan, budget)
  <2>1. 1 \in Int OBVIOUS
  <2>2. Max({1, most}) <= Max({1, budget}) /\ Max({1, most}) \in Int /\ Max({1, budget}) \in Int
    BY <1>1, <2>1, Pairs
  <2>3. Total(plan.durations) \in Int
    <3>1. plan.durations \in Seq(Nat) BY <1>2 DEF Playable, Sound
    <3> HIDE DEF plan
    <3>2. plan.durations \in Seq(Int)
      <4>1. Nat \subseteq Int OBVIOUS
      <4> QED BY <3>1, <4>1
    <3> QED BY <3>2, RunningFacts
  <2> HIDE DEF plan
  <2> QED BY <1>2, <2>2, <2>3 DEF Playable
<1> HIDE DEF plan
<1> QED BY <1>3, <1>5, <1>6

-----------------------------------------------------------------------------
(*                     Designs as they are kept and played                  *)

(* What is kept of a design is the text of what was invented, and what is   *)
(* played is that text read again, and rendered.                            *)
SketchInv ==
    sketch # Blank =>
        /\ Designed(sketch.invented) /\ sketch.text = ToText(sketch.invented)
        /\ Designed(sketch.spec) /\ sketch.spec.beats = sketch.invented.beats
        /\ Clean(sketch.invented.name) = sketch.invented.name => sketch.spec = sketch.invented
        /\ sketch.budget \in Int
        /\ sketch.document = Render(sketch.spec, sketch.budget)

LEMMA DraftFacts ==
    ASSUME NEW draft \in Drafts, NEW fallback, Parse(draft, fallback) # None
    PROVE  Designed(Parse(draft, fallback))
<1> DEFINE L == [label : {"beat", "name", "none"}, words : Seq(STRING)]
<1>1. draft \in Seq(L) BY ChoreographyAssumption
<1>2. \A k \in 1..Len(draft) : draft[k] \in L
  <2> HIDE DEF L
  <2> QED BY <1>1
<1>3. \A line \in L : line.words \in Seq(STRING) OBVIOUS
<1>4. \A k \in 1..Len(draft) : Len(draft[k].words) \in Nat
  <2>1. \A k \in 1..Len(draft) : draft[k].words \in Seq(STRING) BY <1>2, <1>3
  <2> QED BY <2>1
<1>5. Len(draft) \in Nat BY <1>1
<1> QED BY <1>4, <1>5, ParsedIsDesigned

LEMMA SketchInvAlways == SketchSpec => []SketchInv
<1>1. SketchInit => SketchInv BY DEF SketchInit, SketchInv
<1>2. ASSUME SketchInv, [SketchNext]_sketch PROVE SketchInv'
  <2>1. ASSUME NEW budget \in Budgets, NEW draft \in Drafts, NEW theme \in Wished,
               Invent(draft, theme, budget)
        PROVE  SketchInv'
    <3> DEFINE spec == Parse(draft, theme)
    <3>1. spec # None /\ sketch' = Drawn(spec, ToText(spec), spec, budget) BY <2>1 DEF Invent
    <3>2. Designed(spec) BY <3>1, DraftFacts
    <3>3. budget \in Int BY ChoreographyAssumption
    <3> HIDE DEF spec
    <3>4. /\ sketch'.invented = spec /\ sketch'.text = ToText(spec) /\ sketch'.spec = spec
          /\ sketch'.budget = budget /\ sketch'.document = Render(spec, budget)
      BY <3>1 DEF Drawn
    <3> QED BY <3>2, <3>3, <3>4 DEF SketchInv
  <2>2. ASSUME NEW budget \in Budgets, Replay(budget) PROVE SketchInv'
    <3> DEFINE old == sketch.invented
               spec == Parse(sketch.text, old.name)
    <3>1. sketch # Blank /\ sketch' = Drawn(old, sketch.text, spec, budget) BY <2>2 DEF Replay
    <3>2. Designed(old) /\ sketch.text = ToText(old) BY <1>2, <3>1 DEF SketchInv
    <3> HIDE DEF old
    <3>3. Designed(spec) /\ spec.beats = old.beats /\ (Clean(old.name) = old.name => spec = old)
      BY <3>2, RoundTrip
    <3>4. budget \in Int BY ChoreographyAssumption
    <3> HIDE DEF spec
    <3>5. /\ sketch'.invented = old /\ sketch'.text = sketch.text /\ sketch'.spec = spec
          /\ sketch'.budget = budget /\ sketch'.document = Render(spec, budget)
      BY <3>1 DEF Drawn
    <3> QED BY <3>2, <3>3, <3>4, <3>5 DEF SketchInv
  <2>3. CASE UNCHANGED sketch BY <1>2, <2>3 DEF SketchInv
  <2> QED BY <1>2, <2>1, <2>2, <2>3 DEF SketchNext
<1> QED BY <1>1, <1>2, PTL DEF SketchSpec

(* What is stored plays as what was invented did: read back, the text of a  *)
(* design has the beats it was written for, and is the same design unless   *)
(* the cut of its name has bared an end that the next reading strips.       *)
THEOREM PlaysTheSameAlways == SketchSpec => []PlaysTheSame
<1>1. SketchInv => PlaysTheSame BY DEF SketchInv, PlaysTheSame
<1> QED BY <1>1, SketchInvAlways, PTL

LEMMA Played ==
    ASSUME Measured, DrawnInRange, SketchInv, sketch # Blank
    PROVE  \E plan : /\ Playable(plan, sketch.budget)
                     /\ sketch.document = Document(plan)
                     /\ Last(Document(plan).antenna) \in {<<0>>, <<0, 0>>}
<1>1. Designed(sketch.spec) /\ sketch.budget \in Int
      /\ sketch.document = Render(sketch.spec, sketch.budget)
  BY DEF SketchInv
<1> QED BY <1>1, RenderFacts

(* Whatever a model writes and however small the budget, no move is faster  *)
(* than the rate it aims at, and a move of a beat that is kept never takes  *)
(* less than the measured floor.                                            *)
THEOREM NeverHurriedAlways ==
    ASSUME Measured, DrawnInRange
    PROVE  SketchSpec => []NeverHurried
<1>1. ASSUME SketchInv PROVE NeverHurried
  <2> DEFINE Kept(move, figure) ==
                 /\ AtMost(move, move.rate)
                 /\ figure = "full" /\ move.to # <<>> => move.time >= ShortestMove
  <2>1. ASSUME Rendered, NEW i \in 1..Len(sketch.document.head)
        PROVE  Kept(sketch.document.head[i], sketch.document.figure)
    <3>1. PICK plan : Playable(plan, sketch.budget) /\ sketch.document = Document(plan)
      BY <1>1, <2>1, Played DEF Rendered
    <3>2. sketch.document.head = plan.head /\ sketch.document.figure = plan.figure
      BY <3>1 DEF Document
    <3>3. /\ plan.head \in Seq(Steps)
          /\ plan.figure = "full" =>
                 \A k \in 1..Len(plan.head) :
                     plan.head[k].to # <<>> => plan.head[k].time >= ShortestMove
      BY <3>1 DEF Playable, Sound
    <3>4. i \in 1..Len(plan.head) /\ plan.head[i] \in Steps BY <2>1, <3>2, <3>3
    <3>5. AtMost(plan.head[i], plan.head[i].rate) BY <3>4, StepFacts
    <3> QED BY <3>2, <3>3, <3>4, <3>5
  <2> QED BY <2>1, Zenon DEF NeverHurried
<1> QED BY <1>1, SketchInvAlways, PTL

(* Every text with a beat in it becomes a motion, within the budget; the    *)
(* checks at the end of the renderer never decide, the head ends neutral    *)
(* and the antenna at rest.                                                 *)
THEOREM ComesHomeAlways ==
    ASSUME Measured, DrawnInRange
    PROVE  SketchSpec => []ComesHome
<1>1. ASSUME SketchInv PROVE ComesHome
  <2>1. ASSUME sketch # Blank
        PROVE  /\ Rendered
               /\ Total(sketch.document.durations) <= Max({1, sketch.budget})
               /\ Last(sketch.document.head).to = <<0, 0>>
               /\ Last(sketch.document.antenna) \in {<<0>>, <<0, 0>>}
    <3>1. PICK plan : /\ Playable(plan, sketch.budget) /\ sketch.document = Document(plan)
                      /\ Last(Document(plan).antenna) \in {<<0>>, <<0, 0>>}
      BY <1>1, <2>1, Played
    <3>2. sketch.document.head = plan.head /\ sketch.document.durations = plan.durations
      BY <3>1 DEF Document
    <3>3. /\ plan.head[Len(plan.head)].to = <<0, 0>>
          /\ Total(plan.durations) <= Max({1, sketch.budget})
      BY <3>1 DEF Playable, Sound
    <3>4. "head" \in DOMAIN sketch.document BY <3>1 DEF Document
    <3>5. ~ ("head" \in DOMAIN Refused) BY DEF Refused
    <3>6. Rendered BY <2>1, <3>4, <3>5 DEF Rendered
    <3> QED BY <3>1, <3>2, <3>3, <3>6 DEF Last
  <2> QED BY <2>1 DEF ComesHome
<1> QED BY <1>1, SketchInvAlways, PTL
=============================================================================
