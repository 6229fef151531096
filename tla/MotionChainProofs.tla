-------------------------- MODULE MotionChainProofs --------------------------
(***************************************************************************)
(* Proofs about the motions of the replies, for every set of chains, every *)
(* lag of the webhooks and every budget.                                   *)
(*                                                                         *)
(* Counters says that a chain has sent at most one motion more than it has *)
(* finished, and Posting that the motion the worker is posting is the last *)
(* one its chain has claimed.  Each release is guarded by the former, and  *)
(* the report of a document, which nobody sends, by the latter.  One       *)
(* motion in flight and none too early follow without a condition.         *)
(*                                                                         *)
(* Three promises hold under a condition, which is named in the theorem:   *)
(* one motion on the robot at a time if reports tell the motions apart     *)
(* (DistinctKinds; Played says what the robot has and has reported), no    *)
(* chain left behind if webhooks are prompt (Prompt; RowsLeft and Kept say *)
(* which row will send the next motion), and the budget if no call is      *)
(* unbooked or booked late (Honest; Paid says that rows stand for calls).  *)
(***************************************************************************)
EXTENDS MotionChain, FiniteSetTheorems, TLAPS

Counters ==
    /\ sent \in [Chains -> Nat]
    /\ finished \in [Chains -> Nat]
    /\ \A c \in Chains : /\ finished[c] <= sent[c]
                         /\ sent[c] <= finished[c] + 1
                         /\ sent[c] <= Motions(c)

Posting == sending # Nothing => \E c \in Chains : sending = <<c, sent[c]>>

(* What the robot may report and when anything is due.                     *)
Clocks ==
    /\ DOMAIN due = Chains
    /\ \A c \in Chains : due[c] \in [1..Motions(c) -> Int]
    /\ playing \subseteq Places
    /\ signals \subseteq Webhooks

CInv == Counters /\ Posting /\ Clocks

LEMMA Lengths ==
    \A c \in Chains : Motions(c) \in 1..3 /\ DOMAIN Offset[c] = 1..Motions(c)
                      /\ \A i \in 1..Motions(c) : /\ Offset[c][i] \in Nat
                                                  /\ Kind[c][i] \in Kinds
BY MotionChainAssumption DEF MotionChainAssumption, Motions

LEMMA Naturals ==
    /\ ColdLag \in Nat /\ MaxLag \in Nat
    /\ Nothing \notin Chains \X Nat
BY MotionChainAssumption DEF MotionChainAssumption

LEMMA InitCInv == ChainInit => CInv
<1> SUFFICES ASSUME ChainInit PROVE CInv
    OBVIOUS
<1>1. Counters BY Lengths DEF ChainInit, Counters
<1>2. Posting BY DEF ChainInit, Posting
<1>3. Clocks
  <2>1. DOMAIN due = Chains
    BY MotionChainAssumption DEF ChainInit, MotionChainAssumption
  <2>2. \A c \in Chains : Offset[c] \in [1..Motions(c) -> Int]
    BY MotionChainAssumption DEF MotionChainAssumption, Motions
  <2> QED BY <2>1, <2>2 DEF ChainInit, Clocks
<1> QED BY <1>1, <1>2, <1>3 DEF CInv
-----------------------------------------------------------------------------
(* A chain that has finished what it sent claims its next motion or none.  *)
LEMMA ClaimKeeps ==
    ASSUME Counters, NEW c \in Chains, NEW t, NEW st,
           finished' = finished \/ finished' = [finished EXCEPT ![c] = sent[c]],
           finished'[c] = sent[c], sent[c] # Motions(c),
           ClaimMotion(c, t, st)
    PROVE  Counters' /\ Posting'
<1>1. CASE /\ sending' = <<c, sent[c] + 1>>
           /\ sent' = [sent EXCEPT ![c] = @ + 1]
  <2>1. Motions(c) \in Nat BY Lengths
  <2>2. Counters' BY <1>1, <2>1, Lengths DEF Counters
  <2>3. sending' = <<c, sent'[c]>> BY <1>1 DEF Counters
  <2> QED BY <2>2, <2>3 DEF Posting
<1>2. CASE sending' = Nothing /\ sent' = sent
  <2>1. Counters' BY <1>2, Lengths DEF Counters
  <2> QED BY <1>2, <2>1 DEF Posting
<1> QED BY <1>1, <1>2 DEF ClaimMotion

(* Nothing is claimed, and the worker is free.                             *)
LEMMA FreeKeeps ==
    ASSUME Counters, sending' = Nothing, sent' = sent,
           \/ finished' = finished
           \/ \E c \in Chains : /\ finished[c] + 1 <= sent[c]
                                /\ finished' = [finished EXCEPT ![c] = @ + 1]
    PROVE  Counters' /\ Posting'
<1>1. Counters' BY Lengths DEF Counters
<1> QED BY <1>1 DEF Posting

LEMMA IdleKeeps ==
    ASSUME CInv, sending' = sending, sent' = sent, finished' = finished
    PROVE  Counters' /\ Posting'
BY DEF CInv, Counters, Posting
-----------------------------------------------------------------------------
LEMMA DueKeeps ==
    ASSUME CInv, NEW c \in Chains, NEW i \in Nat, i <= Motions(c), ProcessDue(c, i)
    PROVE  Counters' /\ Posting'
<1>1. Counters BY DEF CInv
<1>2. CASE MayStart(c, i)
  <2>1. ClaimMotion(c, 0, status) /\ finished' = finished
    BY <1>2 DEF ProcessDue
  <2>2. finished[c] = sent[c] /\ sent[c] # Motions(c)
    BY <1>1, <1>2, Lengths DEF MayStart, Counters
  <2> QED BY <1>1, <2>1, <2>2, ClaimKeeps
<1>3. CASE ~MayStart(c, i)
  BY <1>3, IdleKeeps DEF ProcessDue, callVars
<1> QED BY <1>2, <1>3

LEMMA PostKeeps ==
    ASSUME CInv, NEW c \in Chains, NEW i \in Nat, PostMotion(c, i)
    PROVE  Counters' /\ Posting'
<1>1. Counters BY DEF CInv
<1>2. i = sent[c] /\ sending # Nothing
  <2>1. sending = <<c, i>> /\ sending # Nothing BY Naturals DEF PostMotion
  <2> QED BY <2>1 DEF CInv, Posting
<1>3. CASE ~IsDocument(c, i)
  BY <1>1, <1>3, FreeKeeps DEF PostMotion, chainVars
<1>4. CASE IsDocument(c, i) /\ sent[c] = finished[c] + 1
  <2>1. CASE finished' = finished
    <3>1. sending' = Nothing /\ sent' = sent
      BY <1>1, <1>4, <2>1 DEF PostMotion, Counters
    <3> QED BY <1>1, <2>1, <3>1, FreeKeeps
  <2>2. CASE finished' = [finished EXCEPT ![c] = @ + 1] /\ sending' = Nothing
             /\ sent' = sent
    BY <1>1, <1>4, <2>2, FreeKeeps DEF Counters
  <2>3. CASE finished' = [finished EXCEPT ![c] = @ + 1] /\ ClaimMotion(c, 0, status)
             /\ ~IsLast(c, i)
    <3>1. finished' = [finished EXCEPT ![c] = sent[c]] /\ finished'[c] = sent[c]
      BY <1>1, <1>4, <2>3 DEF Counters
    <3>2. sent[c] # Motions(c) BY <1>2, <2>3 DEF IsLast
    <3> QED BY <1>1, <2>3, <3>1, <3>2, ClaimKeeps
  <2> QED BY <1>4, <2>1, <2>2, <2>3 DEF PostMotion
<1>5. CASE IsDocument(c, i) /\ sent[c] # finished[c] + 1
  BY <1>1, <1>5, FreeKeeps DEF PostMotion
<1> QED BY <1>3, <1>4, <1>5

LEMMA FinishedKeeps ==
    ASSUME CInv, NEW s, ProcessFinished(s)
    PROVE  Counters' /\ Posting'
<1>1. Counters /\ sending = Nothing BY DEF CInv, ProcessFinished, Handles
<1>2. ASSUME NEW st, NoClaim(st), finished' = finished
      PROVE  Counters' /\ Posting'
  BY <1>1, <1>2, FreeKeeps DEF NoClaim, callVars
<1>3. ASSUME NEW c \in Newest({x \in Live(s.at) : Awaits(x, s.about)}),
             finished' = [finished EXCEPT ![c] = finished[c] + 1],
             \/ \E st : NoClaim(st)
             \/ /\ finished[c] + 1 = sent[c] /\ ~IsLast(c, finished[c] + 1)
                /\ ClaimMotion(c, s.at, Swept(s.at))
      PROVE  Counters' /\ Posting'
  <2>1. c \in Chains /\ sent[c] > finished[c]
    BY DEF Newest, Live, Active, Awaits
  <2>2. ASSUME NEW st, NoClaim(st) PROVE Counters' /\ Posting'
    <3>1. sending' = Nothing /\ sent' = sent BY <1>1, <2>2 DEF NoClaim, callVars
    <3>2. finished[c] + 1 <= sent[c] BY <1>1, <2>1 DEF Counters
    <3>3. finished' = [finished EXCEPT ![c] = @ + 1] BY <1>3
    <3>4. c \in Chains BY <2>1
    <3>5. \E x \in Chains : /\ finished[x] + 1 <= sent[x]
                            /\ finished' = [finished EXCEPT ![x] = @ + 1]
      BY <3>2, <3>3, <3>4
    <3> HIDE <2>1, <1>3
    <3> QED BY <1>1, <3>1, <3>5, FreeKeeps
  <2>3. CASE /\ finished[c] + 1 = sent[c] /\ ~IsLast(c, finished[c] + 1)
             /\ ClaimMotion(c, s.at, Swept(s.at))
    <3>1. finished' = [finished EXCEPT ![c] = sent[c]] /\ finished'[c] = sent[c]
      BY <1>1, <1>3, <2>1, <2>3 DEF Counters
    <3>2. sent[c] # Motions(c) BY <2>3 DEF IsLast
    <3> QED BY <1>1, <2>1, <2>3, <3>1, <3>2, ClaimKeeps
  <2> QED BY <1>3, <2>2, <2>3
<1>4. CASE \E c \in Newest({x \in Live(s.at) : Awaits(x, s.about)}) :
             LET done == finished[c] + 1 IN
             /\ finished' = [finished EXCEPT ![c] = done]
             /\ IF IsLast(c, done)
                THEN NoClaim([Swept(s.at) EXCEPT ![c] = "completed"])
                ELSE IF done = sent[c] /\ Released(c, done + 1, s.at)
                THEN ClaimMotion(c, s.at, Swept(s.at))
                ELSE NoClaim(Swept(s.at))
  <2>1. PICK c \in Newest({x \in Live(s.at) : Awaits(x, s.about)}) :
             /\ finished' = [finished EXCEPT ![c] = finished[c] + 1]
             /\ IF IsLast(c, finished[c] + 1)
                THEN NoClaim([Swept(s.at) EXCEPT ![c] = "completed"])
                ELSE IF finished[c] + 1 = sent[c] /\ Released(c, finished[c] + 1 + 1, s.at)
                THEN ClaimMotion(c, s.at, Swept(s.at))
                ELSE NoClaim(Swept(s.at))
    BY <1>4
  <2>2. CASE IsLast(c, finished[c] + 1)
    <3>1. \E st : NoClaim(st) BY <2>1, <2>2
    <3> QED BY <1>3, <2>1, <3>1
  <2>3. CASE /\ ~IsLast(c, finished[c] + 1)
             /\ finished[c] + 1 = sent[c] /\ Released(c, finished[c] + 1 + 1, s.at)
    BY <1>3, <2>1, <2>3
  <2>4. CASE /\ ~IsLast(c, finished[c] + 1)
             /\ ~(finished[c] + 1 = sent[c] /\ Released(c, finished[c] + 1 + 1, s.at))
    <3>1. \E st : NoClaim(st) BY <2>1, <2>4
    <3> QED BY <1>3, <2>1, <3>1
  <2> QED BY <2>2, <2>3, <2>4
<1>5. CASE NoClaim(Swept(s.at)) /\ finished' = finished
  BY <1>2, <1>5
<1> QED BY <1>4, <1>5 DEF ProcessFinished

LEMMA TalkKeeps ==
    ASSUME CInv, NEW s, ProcessTalk(s)
    PROVE  Counters' /\ Posting'
<1>1. Counters /\ sending = Nothing /\ finished' = finished
  BY DEF CInv, ProcessTalk, Handles
<1>2. ASSUME NEW st, NoClaim(st) PROVE Counters' /\ Posting'
  BY <1>1, <1>2, FreeKeeps DEF NoClaim, callVars
<1>3. ASSUME NEW c \in Chains, finished[c] = sent[c], sent[c] # Motions(c),
             ClaimMotion(c, s.at, Swept(s.at))
      PROVE  Counters' /\ Posting'
  BY <1>1, <1>3, ClaimKeeps
<1> DEFINE open == Live(s.at) \ talked
           named == open \cap Observed \cap {s.about}
<1>4. \A c \in Newest(IF named # {} THEN named ELSE open) : c \in Chains
  BY DEF Newest, Live, Active
<1> QED BY <1>2, <1>3, <1>4 DEF ProcessTalk
-----------------------------------------------------------------------------
(* What is handled is a webhook the robot sent, and the robot plays what   *)
(* was posted.                                                             *)
LEMMA StepCounters ==
    ASSUME CInv, [ChainNext]_vars
    PROVE  Counters' /\ Posting'
<1>1. ASSUME NEW c \in Chains, DeliverReply(c) PROVE Counters' /\ Posting'
  BY <1>1, IdleKeeps DEF DeliverReply, callVars
<1>2. ASSUME NEW p \in Places, ProcessDue(p[1], p[2]) PROVE Counters' /\ Posting'
  BY <1>2, DueKeeps DEF Places
<1>3. ASSUME NEW p \in Places, PostMotion(p[1], p[2]) PROVE Counters' /\ Posting'
  BY <1>3, PostKeeps DEF Places
<1>4. ASSUME NEW p \in Places, PostFails(p[1], p[2]) PROVE Counters' /\ Posting'
  BY <1>4, FreeKeeps DEF PostFails, CInv
<1>5. ASSUME NEW p \in Places, RobotFinishes(p[1], p[2]) PROVE Counters' /\ Posting'
  BY <1>5, IdleKeeps DEF RobotFinishes, chainVars, callVars
<1>6. ASSUME NEW s \in signals, ProcessSignal(s) PROVE Counters' /\ Posting'
  <2>1. CASE ProcessFinished(s) BY <2>1, FinishedKeeps
  <2>2. CASE ProcessTalk(s) BY <2>2, TalkKeeps
  <2>3. CASE ProcessAnchor(s) BY <2>3, IdleKeeps DEF ProcessAnchor, callVars
  <2> QED BY <1>6, <2>1, <2>2, <2>3 DEF ProcessSignal
<1>7. CASE AnswerJolt BY <1>7, IdleKeeps DEF AnswerJolt, chainVars
<1>8. CASE Nod BY <1>8, IdleKeeps DEF Nod, chainVars
<1>9. CASE Sweep BY <1>9, IdleKeeps DEF Sweep, callVars
<1>10. CASE Restart BY <1>10, FreeKeeps DEF Restart, CInv
<1>11. CASE RobotNodded BY <1>11, IdleKeeps DEF RobotNodded, chainVars, callVars
<1>12. CASE RobotSpeaks BY <1>12, IdleKeeps DEF RobotSpeaks, chainVars, callVars
<1>13. CASE Tick BY <1>13, IdleKeeps DEF Tick
<1>14. CASE UNCHANGED vars BY <1>14, IdleKeeps DEF vars, chainVars, callVars
<1> QED BY <1>1, <1>2, <1>3, <1>4, <1>5, <1>6, <1>7, <1>8, <1>9, <1>10, <1>11,
           <1>12, <1>13, <1>14 DEF ChainNext
-----------------------------------------------------------------------------
(* The due times of one chain are replaced by those of a new anchor.       *)
LEMMA Anchors ==
    ASSUME Clocks, NEW c \in Chains, NEW t \in Int,
           due' = [due EXCEPT ![c] = [i \in DOMAIN Offset[c] |-> t + Offset[c][i]]],
           playing' = playing, signals' \subseteq signals
    PROVE  Clocks'
<1>1. [i \in DOMAIN Offset[c] |-> t + Offset[c][i]] \in [1..Motions(c) -> Int]
  BY Lengths
<1> QED BY <1>1 DEF Clocks, Motions

LEMMA StillClocks ==
    ASSUME Clocks, due' = due, playing' \subseteq playing, signals' \subseteq signals
    PROVE  Clocks'
BY DEF Clocks, Motions

LEMMA Sends ==
    ASSUME Clocks, NEW type, NEW about \in Chains \cup Kinds \cup {Nothing},
           Send(type, about), due' = due, playing' \subseteq playing
    PROVE  Clocks'
<1>1. 0 \in -MaxLag..0 BY Naturals
<1>2. [type |-> type, about |-> about, at |-> 0] \in Webhooks
  BY <1>1 DEF Send, Webhooks
<1> QED BY <1>2 DEF Clocks, Send, Motions

LEMMA TickClocks ==
    ASSUME Clocks, Tick
    PROVE  Clocks'
<1>1. \A c \in Chains : due'[c] \in [1..Motions(c) -> Int]
  <2> TAKE c \in Chains
  <2>1. CASE c \in Active
    <3>1. due'[c] = [i \in DOMAIN due[c] |-> Aged(due[c][i], -MaxLag)]
      BY <2>1 DEF Tick
    <3>2. DOMAIN due[c] = 1..Motions(c) /\ \A i \in 1..Motions(c) : due[c][i] \in Int
      BY DEF Clocks
    <3>3. \A x \in Int : Aged(x, -MaxLag) \in Int BY Naturals DEF Aged
    <3> QED BY <3>1, <3>2, <3>3
  <2>2. CASE c \notin Active BY <2>2 DEF Tick, Clocks
  <2> QED BY <2>1, <2>2
<1>2. DOMAIN due' = Chains BY DEF Tick
<1>3. signals' \subseteq Webhooks
  <2>1. SUFFICES ASSUME NEW s \in signals PROVE [s EXCEPT !.at = @ - 1] \in Webhooks
    BY DEF Tick
  <2>2. s \in Webhooks /\ s.at > -MaxLag BY DEF Clocks, Tick
  <2>3. s.at - 1 \in -MaxLag..0 BY <2>2, Naturals DEF Webhooks
  <2> QED BY <2>2, <2>3 DEF Webhooks
<1> QED BY <1>1, <1>2, <1>3 DEF Clocks, Tick, Motions

LEMMA StepClocks ==
    ASSUME CInv, [ChainNext]_vars
    PROVE  Clocks'
<1> USE DEF CInv
<1>1. ASSUME NEW c \in Chains, DeliverReply(c) PROVE Clocks'
  <2>1. ColdLag \in Int BY Naturals
  <2> QED BY <1>1, <2>1, Anchors DEF DeliverReply, robotVars
<1>2. ASSUME NEW p \in Places, ProcessDue(p[1], p[2]) PROVE Clocks'
  BY <1>2, StillClocks DEF ProcessDue, robotVars
<1>3. ASSUME NEW p \in Places, PostMotion(p[1], p[2]) PROVE Clocks'
  <2>1. due' = due /\ signals' = signals BY <1>3 DEF PostMotion, chainVars
  <2>2. playing' = playing \/ playing' = playing \cup {<<p[1], p[2]>>}
    BY <1>3 DEF PostMotion
  <2>3. <<p[1], p[2]>> \in Places BY DEF Places
  <2> QED BY <2>1, <2>2, <2>3 DEF Clocks, Motions
<1>4. ASSUME NEW p \in Places, PostFails(p[1], p[2]) PROVE Clocks'
  BY <1>4, StillClocks DEF PostFails, robotVars
<1>5. ASSUME NEW p \in Places, RobotFinishes(p[1], p[2]) PROVE Clocks'
  <2>1. Kind[p[1]][p[2]] \in Kinds BY Lengths DEF Places
  <2> QED BY <1>5, <2>1, Sends DEF RobotFinishes, chainVars
<1>6. ASSUME NEW s \in signals, ProcessSignal(s) PROVE Clocks'
  <2>1. CASE ProcessFinished(s) BY <2>1, StillClocks DEF ProcessFinished, Handles
  <2>2. CASE ProcessTalk(s) BY <2>2, StillClocks DEF ProcessTalk, Handles
  <2>3. CASE ProcessAnchor(s)
    <3>1. s.at \in Int BY DEF Clocks, Webhooks
    <3>2. signals' \subseteq signals /\ playing' = playing
      BY <2>3 DEF ProcessAnchor, Handles
    <3>3. CASE due' = due BY <3>2, <3>3, StillClocks
    <3>4. CASE \E c \in Active :
                 due' = [due EXCEPT ![c] = [i \in DOMAIN Offset[c] |-> s.at + Offset[c][i]]]
      BY <3>1, <3>2, <3>4, Anchors DEF Active
    <3> QED BY <2>3, <3>3, <3>4 DEF ProcessAnchor
  <2> QED BY <1>6, <2>1, <2>2, <2>3 DEF ProcessSignal
<1>7. CASE AnswerJolt BY <1>7, StillClocks DEF AnswerJolt, chainVars
<1>8. CASE Nod BY <1>8, StillClocks DEF Nod, chainVars
<1>9. CASE Sweep BY <1>9, StillClocks DEF Sweep, robotVars
<1>10. CASE Restart BY <1>10, StillClocks DEF Restart, robotVars
<1>11. CASE RobotNodded
  BY <1>11, Sends, MotionChainAssumption DEF RobotNodded, chainVars, MotionChainAssumption
<1>12. CASE RobotSpeaks BY <1>12, Sends DEF RobotSpeaks, chainVars
<1>13. CASE Tick BY <1>13, TickClocks
<1>14. CASE UNCHANGED vars BY <1>14, StillClocks DEF vars, chainVars, robotVars
<1> QED BY <1>1, <1>2, <1>3, <1>4, <1>5, <1>6, <1>7, <1>8, <1>9, <1>10, <1>11,
           <1>12, <1>13, <1>14 DEF ChainNext

(* The invariant the other two rest on: counters, what is being posted,    *)
(* and the clocks.                                                         *)
THEOREM CInvAlways == ChainSpec => []CInv
<1>1. CInv /\ [ChainNext]_vars => CInv'
  BY StepCounters, StepClocks DEF CInv
<1> QED BY InitCInv, <1>1, PTL DEF ChainSpec
-----------------------------------------------------------------------------
(* One motion of a chain is in flight at a time, whatever releases the     *)
(* next one: its due time, the end of the speech, a document or a report.  *)
THEOREM OneInFlightAlways == ChainSpec => []OneInFlight
<1>1. CInv => OneInFlight
  BY DEF CInv, Counters, Posting, OneInFlight
<1> QED BY <1>1, CInvAlways, PTL
-----------------------------------------------------------------------------
Timely == \A c \in Chains : sent'[c] # sent[c] =>
              due[c][sent'[c]] <= 0 \/ c \in talked'

LEMMA TimelyClaim ==
    ASSUME Counters, NEW c \in Chains, NEW t, NEW st, ClaimMotion(c, t, st),
           due[c][sent[c] + 1] <= 0 \/ c \in talked'
    PROVE  Timely
<1>1. CASE sent' = [sent EXCEPT ![c] = @ + 1] BY <1>1 DEF Counters, Timely
<1>2. CASE sent' = sent BY <1>2 DEF Timely
<1> QED BY <1>1, <1>2 DEF ClaimMotion

LEMMA TimelyPost ==
    ASSUME CInv, NEW c \in Chains, NEW i \in Nat, PostMotion(c, i)
    PROVE  Timely
<1>1. Counters BY DEF CInv
<1>2. i = sent[c]
  <2>1. sending = <<c, i>> /\ sending # Nothing BY Naturals DEF PostMotion
  <2> QED BY <2>1 DEF CInv, Posting
<1>3. CASE sent' = sent BY <1>3 DEF Timely
<1>4. CASE /\ ClaimMotion(c, 0, status) /\ Released(c, i + 1, 0)
           /\ talked' = talked
  BY <1>1, <1>2, <1>4, TimelyClaim DEF Released
<1>5. sent' = sent \/ (ClaimMotion(c, 0, status) /\ Released(c, i + 1, 0) /\ talked' = talked)
  BY DEF PostMotion, chainVars
<1> QED BY <1>3, <1>4, <1>5

LEMMA TimelyFinished ==
    ASSUME CInv, NEW s \in signals, ProcessFinished(s)
    PROVE  Timely
<1>1. Counters /\ talked' = talked BY DEF CInv, ProcessFinished
<1>2. s.at \in Int /\ s.at <= 0 BY Naturals DEF CInv, Clocks, Webhooks
<1>3. CASE sent' = sent BY <1>3 DEF Timely
<1>4. ASSUME NEW c \in Chains, ~IsLast(c, sent[c]), Released(c, sent[c] + 1, s.at),
             ClaimMotion(c, s.at, Swept(s.at))
      PROVE  Timely
  <2>1. sent[c] + 1 \in 1..Motions(c) BY <1>1, <1>4, Lengths DEF Counters, IsLast
  <2>2. due[c][sent[c] + 1] \in Int BY <2>1 DEF CInv, Clocks
  <2>3. due[c][sent[c] + 1] <= 0 \/ c \in talked'
    BY <1>1, <1>2, <1>4, <2>2 DEF Released
  <2> QED BY <1>1, <1>4, <2>3, TimelyClaim
<1>5. ASSUME NEW st, NoClaim(st) PROVE sent' = sent BY <1>5 DEF NoClaim
<1>6. ASSUME NEW c \in Newest({x \in Live(s.at) : Awaits(x, s.about)}),
             ~IsLast(c, finished[c] + 1),
             finished[c] + 1 = sent[c], Released(c, finished[c] + 1 + 1, s.at),
             ClaimMotion(c, s.at, Swept(s.at))
      PROVE  Timely
  <2>1. c \in Chains BY DEF Newest, Live, Active
  <2>2. ~IsLast(c, sent[c]) /\ Released(c, sent[c] + 1, s.at) BY <1>6
  <2> QED BY <1>4, <1>6, <2>1, <2>2
<1>7. ASSUME NEW c \in Newest({x \in Live(s.at) : Awaits(x, s.about)}),
             IF IsLast(c, finished[c] + 1)
             THEN NoClaim([Swept(s.at) EXCEPT ![c] = "completed"])
             ELSE IF finished[c] + 1 = sent[c] /\ Released(c, finished[c] + 1 + 1, s.at)
             THEN ClaimMotion(c, s.at, Swept(s.at))
             ELSE NoClaim(Swept(s.at))
      PROVE  Timely
  BY <1>3, <1>5, <1>6, <1>7
<1>8. CASE NoClaim(Swept(s.at)) BY <1>3, <1>5, <1>8
<1> QED BY <1>7, <1>8 DEF ProcessFinished

LEMMA TimelyTalk ==
    ASSUME CInv, NEW s, ProcessTalk(s)
    PROVE  Timely
<1>1. Counters BY DEF CInv
<1> DEFINE open == Live(s.at) \ talked
           named == open \cap Observed \cap {s.about}
<1>2. \A c \in Newest(IF named # {} THEN named ELSE open) : c \in Chains
  BY DEF Newest, Live, Active
<1>3. ASSUME NEW st, NoClaim(st) PROVE Timely BY <1>3 DEF NoClaim, Timely
<1>4. ASSUME NEW c \in Chains, c \in talked', ClaimMotion(c, s.at, Swept(s.at))
      PROVE  Timely
  BY <1>1, <1>4, TimelyClaim
<1> QED BY <1>2, <1>3, <1>4 DEF ProcessTalk

LEMMA TimelyStep ==
    ASSUME CInv, [ChainNext]_vars
    PROVE  Timely
<1>1. ASSUME NEW p \in Places, ProcessDue(p[1], p[2]) PROVE Timely
  <2>1. CASE MayStart(p[1], p[2])
    <3>1. p[1] \in Chains /\ ClaimMotion(p[1], 0, status) /\ due[p[1]][p[2]] <= 0
      BY <1>1, <2>1 DEF ProcessDue, Places
    <3>2. p[2] = sent[p[1]] + 1 BY <2>1 DEF MayStart
    <3> QED BY <3>1, <3>2, TimelyClaim DEF CInv
  <2>2. CASE ~MayStart(p[1], p[2]) BY <1>1, <2>2 DEF ProcessDue, Timely
  <2> QED BY <2>1, <2>2
<1>2. ASSUME NEW p \in Places, PostMotion(p[1], p[2]) PROVE Timely
  BY <1>2, TimelyPost DEF Places
<1>3. ASSUME NEW s \in signals, ProcessSignal(s) PROVE Timely
  BY <1>3, TimelyFinished, TimelyTalk DEF ProcessSignal, ProcessAnchor, Timely
<1>4. CASE sent' = sent BY <1>4 DEF Timely
<1>5. ASSUME NEW c \in Chains, DeliverReply(c) PROVE Timely
  BY <1>5 DEF DeliverReply, Timely
<1>6. ASSUME NEW p \in Places, PostFails(p[1], p[2]) \/ RobotFinishes(p[1], p[2]) PROVE Timely
  BY <1>6 DEF PostFails, RobotFinishes, chainVars, Timely
<1>7. AnswerJolt \/ Nod \/ Sweep \/ Restart \/ RobotNodded \/ RobotSpeaks \/ Tick
         \/ UNCHANGED vars => sent' = sent
  BY DEF AnswerJolt, Nod, Sweep, Restart, RobotNodded, RobotSpeaks, Tick, vars, chainVars
<1> QED BY <1>1, <1>2, <1>3, <1>4, <1>5, <1>6, <1>7 DEF ChainNext

(* No motion of a reply is sent before its moment of the speech, as the    *)
(* last anchor has it, unless the speech is over: however late the report  *)
(* that releases it is handled.                                            *)
THEOREM NotEarlyAlways == ChainSpec => NotEarly
<1>1. CInv /\ [ChainNext]_vars =>
        [\A c \in Chains : sent'[c] # sent[c] =>
            due[c][sent'[c]] <= 0 \/ c \in talked']_vars
  BY TimelyStep DEF Timely
<1> QED BY <1>1, CInvAlways, PTL DEF ChainSpec, NotEarly
-----------------------------------------------------------------------------
(*                     The robot and one chain at a time                     *)

(* A report names the kind of a motion only: that it is taken for the right *)
(* one is what distinct kinds give.                                         *)
DistinctKinds ==
    /\ \A p, q \in Places : ~IsDocument(p[1], p[2])
                               /\ Kind[p[1]][p[2]] = Kind[q[1]][q[2]] => p = q
    /\ \A p \in Places : Kind[p[1]][p[2]] # NodKind

ReportOf(p) == \E s \in signals : s.type = "motion.finished" /\ s.about = Kind[p[1]][p[2]]

(* What the robot has of a chain is its last motion, unfinished, a preset,  *)
(* and posted; and what it has reported it does not have, and was sent.     *)
Played ==
    /\ \A p \in playing : /\ ~IsDocument(p[1], p[2]) /\ p[2] = sent[p[1]]
                           /\ finished[p[1]] < p[2] /\ sending # p
    /\ \A c \in Chains : sending = <<c, sent[c]>> => finished[c] < sent[c]
    /\ \A p \in Places : ~IsDocument(p[1], p[2]) /\ ReportOf(p) =>
          p \notin playing /\ p # sending /\ p[2] <= sent[p[1]]

(* The steps, as the robot sees them.                                       *)
Tells == \A s \in signals' : s.type = "motion.finished" =>
            \/ s.about = NodKind
            \/ \E r \in signals : r.type = "motion.finished" /\ r.about = s.about
Quiet ==
    UNCHANGED <<sent, finished, playing>> /\ sending' \in {sending, Nothing} /\ Tells
Finishes(c) ==
    /\ finished[c] < sent[c] /\ finished' = [finished EXCEPT ![c] = @ + 1]
    /\ IsDocument(c, finished[c] + 1) \/ ReportOf(<<c, finished[c] + 1>>)
ClaimsNext(c) ==
    /\ finished'[c] = sent[c] /\ sent[c] < Motions(c)
    /\ sent' = [sent EXCEPT ![c] = @ + 1] /\ sending' = <<c, sent[c] + 1>>
Moves(c) ==
    /\ finished' = finished \/ Finishes(c)
    /\ (sent' = sent /\ sending' = Nothing) \/ ClaimsNext(c)
    /\ UNCHANGED playing /\ Tells
Plays(p) ==
    /\ sending = p /\ sending' = Nothing /\ ~IsDocument(p[1], p[2])
    /\ playing' = playing \cup {p} /\ UNCHANGED <<sent, finished, signals>>
Reported(p) ==
    /\ p \in playing /\ playing' = playing \ {p}
    /\ \E at : signals' = signals \cup
                  {[type |-> "motion.finished", about |-> Kind[p[1]][p[2]], at |-> at]}
    /\ UNCHANGED <<sent, finished, sending>>

LEMMA Claiming ==
    ASSUME Counters, NEW c \in Chains, NEW t, NEW st, ClaimMotion(c, t, st),
           finished'[c] = sent[c], sent[c] # Motions(c)
    PROVE  (sent' = sent /\ sending' = Nothing) \/ ClaimsNext(c)
<1>1. sent[c] < Motions(c) BY Lengths DEF Counters
<1> QED BY <1>1 DEF ClaimMotion, ClaimsNext

LEMMA Telling == signals' \subseteq signals => Tells
BY DEF Tells

LEMMA FinishedMoves ==
    ASSUME CInv, NEW s \in signals, ProcessFinished(s)
    PROVE  Quiet \/ \E c \in Chains : Moves(c)
<1>1. Counters /\ sending = Nothing /\ playing' = playing /\ Tells
  BY Telling DEF CInv, ProcessFinished, Handles
<1>2. ASSUME NEW st, NoClaim(st) PROVE sent' = sent /\ sending' = Nothing
  BY <1>1, <1>2 DEF NoClaim, callVars
<1>3. CASE NoClaim(Swept(s.at)) /\ finished' = finished
  BY <1>1, <1>2, <1>3 DEF Quiet
<1>4. ASSUME NEW c \in Newest({x \in Live(s.at) : Awaits(x, s.about)}),
             finished' = [finished EXCEPT ![c] = finished[c] + 1],
             IF IsLast(c, finished[c] + 1)
             THEN NoClaim([Swept(s.at) EXCEPT ![c] = "completed"])
             ELSE IF finished[c] + 1 = sent[c] /\ Released(c, finished[c] + 1 + 1, s.at)
             THEN ClaimMotion(c, s.at, Swept(s.at))
             ELSE NoClaim(Swept(s.at))
      PROVE  \E d \in Chains : Moves(d)
  <2>1. c \in Chains /\ sent[c] > finished[c] /\ Kind[c][finished[c] + 1] = s.about
    BY DEF Newest, Live, Active, Awaits
  <2>2. s.type = "motion.finished" BY DEF ProcessFinished
  <2>3. ReportOf(<<c, finished[c] + 1>>) BY <2>1, <2>2 DEF ReportOf
  <2>4. finished[c] \in Nat /\ sent[c] \in Nat BY <1>1, <2>1 DEF Counters
  <2>5. Finishes(c) BY <1>4, <2>1, <2>3, <2>4 DEF Finishes
  <2>6. CASE \E st : NoClaim(st) BY <1>1, <1>2, <2>1, <2>5, <2>6 DEF Moves
  <2>7. CASE /\ finished[c] + 1 = sent[c] /\ ~IsLast(c, finished[c] + 1)
             /\ ClaimMotion(c, s.at, Swept(s.at))
    <3>1. finished'[c] = sent[c] /\ sent[c] # Motions(c)
      BY <1>1, <1>4, <2>1, <2>7 DEF Counters, IsLast
    <3>2. (sent' = sent /\ sending' = Nothing) \/ ClaimsNext(c)
      BY <1>1, <2>1, <2>7, <3>1, Claiming
    <3> QED BY <1>1, <2>1, <2>5, <3>2 DEF Moves
  <2> QED BY <1>4, <2>6, <2>7
<1> QED BY <1>3, <1>4 DEF ProcessFinished

LEMMA TalkMoves ==
    ASSUME CInv, NEW s \in signals, ProcessTalk(s)
    PROVE  Quiet \/ \E c \in Chains : Moves(c)
<1>1. Counters /\ sending = Nothing /\ playing' = playing /\ finished' = finished /\ Tells
  BY Telling DEF CInv, ProcessTalk, Handles
<1>2. ASSUME NEW st, NoClaim(st) PROVE Quiet
  BY <1>1, <1>2 DEF NoClaim, callVars, Quiet
<1>3. ASSUME NEW c \in Chains, finished[c] = sent[c], sent[c] # Motions(c),
             ClaimMotion(c, s.at, Swept(s.at))
      PROVE  \E d \in Chains : Moves(d)
  <2>1. (sent' = sent /\ sending' = Nothing) \/ ClaimsNext(c) BY <1>1, <1>3, Claiming
  <2> QED BY <1>1, <2>1 DEF Moves
<1> DEFINE open == Live(s.at) \ talked
           named == open \cap Observed \cap {s.about}
<1>4. \A c \in Newest(IF named # {} THEN named ELSE open) : c \in Chains
  BY DEF Newest, Live, Active
<1> QED BY <1>2, <1>3, <1>4 DEF ProcessTalk

LEMMA PostMoves ==
    ASSUME CInv, NEW p \in Places, PostMotion(p[1], p[2])
    PROVE  Plays(p) \/ \E c \in Chains : Moves(c)
<1> DEFINE c == p[1]
           i == p[2]
<1>1. p = <<c, i>> /\ c \in Chains BY DEF Places
<1>2. Counters BY DEF CInv
<1>3. sending = p /\ i = sent[c]
  <2>1. sending = <<c, i>> /\ sending # Nothing BY <1>1, Naturals DEF PostMotion, Places
  <2> QED BY <1>1, <2>1 DEF CInv, Posting
<1>4. CASE ~IsDocument(c, i) BY <1>1, <1>3, <1>4 DEF PostMotion, Plays, chainVars
<1>5. CASE IsDocument(c, i)
  <2>1. Tells /\ playing' = playing BY <1>5, Telling DEF PostMotion
  <2>2. CASE finished' = finished
    <3>1. sending' = Nothing /\ sent' = sent BY <1>1, <1>2, <1>5, <2>2 DEF PostMotion, Counters
    <3> QED BY <1>1, <2>1, <2>2, <3>1 DEF Moves
  <2>3. CASE finished' # finished
    <3>1. /\ sent[c] = finished[c] + 1 /\ IsDocument(c, finished[c] + 1)
          /\ finished' = [finished EXCEPT ![c] = @ + 1]
      BY <1>5, <2>3 DEF PostMotion
    <3>2. Finishes(c) BY <1>1, <1>2, <3>1 DEF Finishes, Counters
    <3>3. CASE sent' = sent /\ sending' = Nothing BY <1>1, <2>1, <3>2, <3>3 DEF Moves
    <3>4. CASE ClaimMotion(c, 0, status) /\ ~IsLast(c, i)
      <4>1. finished'[c] = sent[c] /\ sent[c] # Motions(c)
        BY <1>1, <1>2, <1>3, <3>1, <3>4 DEF Counters, IsLast
      <4>2. (sent' = sent /\ sending' = Nothing) \/ ClaimsNext(c)
        BY <1>1, <1>2, <3>4, <4>1, Claiming
      <4> QED BY <1>1, <2>1, <3>2, <4>2 DEF Moves
    <3> QED BY <1>5, <2>3, <3>3, <3>4 DEF PostMotion
  <2> QED BY <2>2, <2>3
<1> QED BY <1>4, <1>5

LEMMA DueMoves ==
    ASSUME CInv, NEW p \in Places, ProcessDue(p[1], p[2])
    PROVE  Quiet \/ \E c \in Chains : Moves(c)
<1>1. p[1] \in Chains /\ Counters BY DEF Places, CInv
<1>2. playing' = playing /\ finished' = finished /\ Tells
  BY Telling DEF ProcessDue, robotVars
<1>3. CASE MayStart(p[1], p[2])
  <2>1. ClaimMotion(p[1], 0, status) BY <1>3 DEF ProcessDue
  <2>2. finished'[p[1]] = sent[p[1]] /\ sent[p[1]] # Motions(p[1])
    BY <1>1, <1>2, <1>3, Lengths DEF MayStart, Counters, Places
  <2>3. (sent' = sent /\ sending' = Nothing) \/ ClaimsNext(p[1])
    BY <1>1, <2>1, <2>2, Claiming
  <2> QED BY <1>1, <1>2, <2>3 DEF Moves
<1>4. CASE ~MayStart(p[1], p[2])
  BY <1>2, <1>4 DEF ProcessDue, callVars, Quiet
<1> QED BY <1>3, <1>4

(* Every step is one of the five.                                          *)
LEMMA RobotSteps ==
    ASSUME CInv, [ChainNext]_vars
    PROVE  \/ Quiet
           \/ \E c \in Chains : Moves(c)
           \/ \E p \in Places : Plays(p) \/ Reported(p)
<1>1. ASSUME NEW c \in Chains, DeliverReply(c) PROVE Quiet
  BY <1>1, Telling DEF DeliverReply, Quiet, callVars, robotVars
<1>2. ASSUME NEW p \in Places, PostFails(p[1], p[2]) PROVE Quiet
  BY <1>2, Telling DEF PostFails, Quiet, robotVars
<1>3. ASSUME NEW p \in Places, RobotFinishes(p[1], p[2]) PROVE Reported(p)
  <2>1. p = <<p[1], p[2]>> BY DEF Places
  <2> QED BY <1>3, <2>1 DEF RobotFinishes, Send, Reported, chainVars, callVars
<1>4. ASSUME NEW s \in signals, ProcessAnchor(s) PROVE Quiet
  BY <1>4, Telling DEF ProcessAnchor, Handles, Quiet, callVars
<1>5. CASE AnswerJolt BY <1>5, Telling DEF AnswerJolt, Quiet, chainVars
<1>6. CASE Nod BY <1>6, Telling DEF Nod, Quiet, chainVars
<1>7. CASE Sweep BY <1>7, Telling DEF Sweep, Quiet, callVars, robotVars
<1>8. CASE Restart BY <1>8, Telling DEF Restart, Quiet, robotVars
<1>9. CASE RobotNodded
  <2>1. Tells BY <1>9 DEF RobotNodded, Send, Tells
  <2> QED BY <1>9, <2>1 DEF RobotNodded, Quiet, chainVars, callVars
<1>10. CASE RobotSpeaks
  <2>1. Tells BY <1>10 DEF RobotSpeaks, Send, Tells
  <2> QED BY <1>10, <2>1 DEF RobotSpeaks, Quiet, chainVars, callVars
<1>11. CASE Tick
  <2>1. Tells
    <3>1. SUFFICES ASSUME NEW s \in signals, [s EXCEPT !.at = @ - 1].type = "motion.finished"
          PROVE  \E r \in signals : /\ r.type = "motion.finished"
                                    /\ r.about = [s EXCEPT !.at = @ - 1].about
      BY <1>11 DEF Tick, Tells
    <3>2. s \in Webhooks BY DEF CInv, Clocks
    <3>3. s.type = "motion.finished" /\ s.about = [s EXCEPT !.at = @ - 1].about
      BY <3>1, <3>2 DEF Webhooks
    <3> QED BY <3>3
  <2> QED BY <1>11, <2>1 DEF Tick, Quiet
<1>12. CASE UNCHANGED vars
  BY <1>12, Telling DEF vars, Quiet, chainVars, callVars, robotVars
<1> QED BY <1>1, <1>2, <1>3, <1>4, <1>5, <1>6, <1>7, <1>8, <1>9, <1>10, <1>11, <1>12,
           DueMoves, PostMoves, FinishedMoves, TalkMoves DEF ChainNext, ProcessSignal
-----------------------------------------------------------------------------
(* No step but the end of a motion makes the robot report it.              *)
LEMMA NoNewReport ==
    ASSUME DistinctKinds, Tells, NEW p \in Places, ReportOf(p)'
    PROVE  ReportOf(p)
BY DEF DistinctKinds, Tells, ReportOf

LEMMA MovesKeepPlayed ==
    ASSUME DistinctKinds, CInv, Played, NEW c \in Chains, Moves(c)
    PROVE  Played'
<1> USE DEF Played
<1>1. Counters /\ playing \subseteq Places /\ playing' = playing BY DEF CInv, Clocks, Moves
<1>2. Nothing \notin Places BY Naturals DEF Places
<1>3. \A p \in Places : p[1] \in Chains /\ p = <<p[1], p[2]>> /\ p[2] \in 1..3
  BY DEF Places
<1>4. ASSUME NEW p \in playing, p[1] = c, Finishes(c) PROVE FALSE
  <2>1. p[2] = finished[c] + 1 BY <1>1, <1>4 DEF Counters
  <2>2. ReportOf(p) BY <1>1, <1>3, <1>4, <2>1 DEF Finishes
  <2> QED BY <1>1, <2>2
<1>5. ASSUME NEW p \in playing
      PROVE  /\ ~IsDocument(p[1], p[2]) /\ p[2] = sent'[p[1]]
             /\ finished'[p[1]] < p[2] /\ sending' # p
  <2>1. p[1] \in Chains /\ p[2] = sent[p[1]] /\ finished[p[1]] < p[2] BY <1>1, <1>3
  <2>2. finished'[p[1]] = finished[p[1]] BY <1>1, <1>4, <2>1 DEF Moves, Finishes, Counters
  <2>3. ~(ClaimsNext(c) /\ p[1] = c) BY <1>1, <2>1, <2>2 DEF ClaimsNext, Counters
  <2>4. sent'[p[1]] = sent[p[1]] BY <1>1, <2>1, <2>3 DEF Moves, ClaimsNext, Counters
  <2>5. sending' # p BY <1>1, <1>2, <1>3, <2>3 DEF Moves, ClaimsNext
  <2> QED BY <2>1, <2>2, <2>4, <2>5
<1>6. ASSUME NEW p \in Places, ~IsDocument(p[1], p[2]), ReportOf(p)'
      PROVE  p \notin playing' /\ p # sending' /\ p[2] <= sent'[p[1]]
  <2>1. ReportOf(p) BY <1>6, NoNewReport DEF Moves
  <2>2. p \notin playing /\ p # sending /\ p[2] <= sent[p[1]] BY <1>6, <2>1
  <2>3. p[2] <= sent'[p[1]] BY <1>1, <1>3, <2>2 DEF Moves, ClaimsNext, Counters
  <2>4. p # sending'
    <3>1. CASE sending' = Nothing BY <1>2, <3>1
    <3>2. CASE ClaimsNext(c)
      <4>1. sending' = <<c, sent[c] + 1>> /\ sent[c] \in Nat BY <1>1, <3>2 DEF ClaimsNext, Counters
      <4> QED BY <1>3, <2>2, <4>1
    <3> QED BY <3>1, <3>2 DEF Moves
  <2> QED BY <1>1, <2>2, <2>3, <2>4
<1>7. ASSUME NEW d \in Chains, sending' = <<d, sent'[d]>> PROVE finished'[d] < sent'[d]
  <2>1. sending' # Nothing BY <1>7, Naturals, <1>1 DEF Moves, ClaimsNext, Counters
  <2>2. ClaimsNext(c) /\ d = c BY <1>7, <2>1 DEF Moves, ClaimsNext
  <2> QED BY <1>1, <2>2 DEF ClaimsNext, Counters
<1> QED BY <1>1, <1>5, <1>6, <1>7 DEF IsDocument

LEMMA QuietKeepsPlayed ==
    ASSUME DistinctKinds, CInv, Played, Quiet
    PROVE  Played'
<1> USE DEF Played
<1>1. playing \subseteq Places /\ Nothing \notin Places /\ Counters
  BY Naturals DEF CInv, Clocks, Places
<1>2. UNCHANGED <<sent, finished, playing>> /\ sending' \in {sending, Nothing}
  BY DEF Quiet
<1>3. \A p \in Places : ReportOf(p)' => ReportOf(p) BY NoNewReport DEF Quiet
<1>4. \A c \in Chains : <<c, sent[c]>> # Nothing BY <1>1, Naturals DEF Counters
<1> QED BY <1>1, <1>2, <1>3, <1>4 DEF IsDocument

LEMMA PlaysKeepsPlayed ==
    ASSUME DistinctKinds, CInv, Played, NEW p \in Places, Plays(p)
    PROVE  Played'
<1> USE DEF Played
<1>1. playing \subseteq Places /\ Nothing \notin Places /\ Counters
  BY Naturals DEF CInv, Clocks, Places
<1>2. /\ sending = p /\ sending' = Nothing /\ ~IsDocument(p[1], p[2])
      /\ playing' = playing \cup {p} /\ UNCHANGED <<sent, finished, signals>>
  BY DEF Plays
<1>3. p[1] \in Chains /\ p = <<p[1], sent[p[1]]>> BY <1>1, <1>2 DEF CInv, Posting, Places
<1>4. finished[p[1]] < p[2] /\ p[2] = sent[p[1]] BY <1>2, <1>3
<1>5. \A q \in Places : ReportOf(q)' <=> ReportOf(q) BY <1>2 DEF ReportOf
<1>6. \A c \in Chains : <<c, sent[c]>> # Nothing BY <1>1, Naturals DEF Counters
<1> QED BY <1>1, <1>2, <1>3, <1>4, <1>5, <1>6 DEF IsDocument

LEMMA ReportedKeepsPlayed ==
    ASSUME DistinctKinds, CInv, Played, NEW p \in Places, Reported(p)
    PROVE  Played'
<1> USE DEF Played
<1>1. playing \subseteq Places BY DEF CInv, Clocks
<1>2. /\ p \in playing /\ playing' = playing \ {p}
      /\ UNCHANGED <<sent, finished, sending>>
  BY DEF Reported
<1>3. ASSUME NEW q \in Places, ~IsDocument(q[1], q[2]), ReportOf(q)'
      PROVE  ReportOf(q) \/ q = p
  BY <1>3 DEF ReportOf, Reported, DistinctKinds
<1>4. ~IsDocument(p[1], p[2]) /\ p[2] = sent[p[1]] /\ sending # p BY <1>2
<1>5. sent[p[1]] <= sent[p[1]] BY DEF CInv, Counters, Places
<1> QED BY <1>1, <1>2, <1>3, <1>4, <1>5 DEF IsDocument

(* The robot never has two presets of one chain to play, as long as no two *)
(* motions of the replies are reported in the same words: each report is   *)
(* then taken for the motion that ended, and only that lets the next one   *)
(* of its chain be posted.                                                 *)
THEOREM SerialOnRobotAlways == DistinctKinds => (ChainSpec => []SerialOnRobot)
<1> SUFFICES ASSUME DistinctKinds PROVE ChainSpec => []SerialOnRobot
    OBVIOUS
<1>1. ChainInit => Played
  BY Naturals DEF ChainInit, Played, ReportOf, Counters
<1>2. CInv /\ Played /\ [ChainNext]_vars => Played'
  BY RobotSteps, MovesKeepPlayed, QuietKeepsPlayed, PlaysKeepsPlayed, ReportedKeepsPlayed
<1>3. CInv /\ Played => SerialOnRobot
  BY DEF CInv, Clocks, Played, SerialOnRobot, Places
<1> QED BY <1>1, <1>2, <1>3, CInvAlways, PTL DEF ChainSpec
-----------------------------------------------------------------------------
(*                         Chains that are not stranded                      *)

(* Webhooks are handled in the unit they are sent, and no speech is          *)
(* observed, so that no anchor moves a due time.                             *)
Prompt == MaxLag = 0 /\ Observed = {}

(* A row is there, or its motion's moment has come; and the row of the next  *)
(* motion is there when nothing of the chain is in flight.                   *)
RowsLeft(c) ==
    /\ \A i \in 1..Motions(c) : i > sent[c] => <<c, i>> \in cues \/ due[c][i] <= 0
    /\ sent[c] = finished[c] => sent[c] # Motions(c) /\ <<c, sent[c] + 1>> \in cues

Waits(c) == c \in Live(0) \ talked

Statuses == {"none", "active", "completed", "abandoned"}

Kept ==
    /\ status \in [Chains -> Statuses]
    /\ expires \in [Chains -> Int]
    /\ unheard = {}
    /\ \A c \in Chains : status[c] = "none" => sent[c] = 0 /\ finished[c] = 0
    /\ \A c \in Chains : Waits(c) => RowsLeft(c)

(* The steps, as one chain sees them.                                        *)
Gone(c) == ~Waits(c)'
RowsKept(c) == \A i \in 1..Motions(c) : <<c, i>> \in cues =>
                    <<c, i>> \in cues' \/ due[c][i] <= 0
Passed(c) == \A i \in 1..Motions(c) : due[c][i] <= 0 => due'[c][i] <= 0
Calm(c) ==
    /\ Waits(c)
    /\ sent'[c] = sent[c] /\ finished'[c] = finished[c]
    /\ RowsKept(c) /\ Passed(c)
    /\ sent[c] = finished[c] /\ sent[c] # Motions(c) /\ <<c, sent[c] + 1>> \in cues
          => <<c, sent[c] + 1>> \in cues'
Started(c) ==
    /\ Waits(c)
    /\ sent'[c] = sent[c] + 1 /\ finished'[c] = sent[c]
    /\ RowsKept(c) /\ Passed(c)
Ended(c) ==
    /\ Waits(c)
    /\ sent'[c] = sent[c] /\ finished'[c] = sent[c] /\ sent[c] # Motions(c)
    /\ ~(due[c][sent[c] + 1] <= 0) /\ cues' = cues /\ due' = due
    /\ finished[c] < sent[c]
Born(c) ==
    /\ sent'[c] = 0
    /\ \A i \in 1..Motions(c) : <<c, i>> \in cues'
Step(c) == Gone(c) \/ Calm(c) \/ Started(c) \/ Ended(c) \/ Born(c)

LEMMA StepKeepsRows ==
    ASSUME CInv, NEW c \in Chains, Waits(c) => RowsLeft(c), Step(c)
    PROVE  Waits(c)' => RowsLeft(c)'
<1> USE DEF RowsLeft, Motions
<1>1. /\ sent[c] \in Nat /\ finished[c] \in Nat /\ sent[c] <= Motions(c)
      /\ Motions(c) \in 1..3
  BY Lengths DEF CInv, Counters
<1>2. CASE Gone(c) BY <1>2 DEF Gone
<1>3. CASE Calm(c)
  <2>1. RowsLeft(c) BY <1>3 DEF Calm
  <2>2. sent'[c] = sent[c] /\ finished'[c] = finished[c] BY <1>3 DEF Calm
  <2>3. \A i \in 1..Motions(c) : i > sent[c] => <<c, i>> \in cues' \/ due'[c][i] <= 0
    BY <1>3, <2>1 DEF Calm, RowsKept, Passed
  <2>4. sent[c] = finished[c] => sent[c] # Motions(c) /\ <<c, sent[c] + 1>> \in cues'
    BY <1>3, <2>1 DEF Calm
  <2> QED BY <2>2, <2>3, <2>4
<1>4. CASE Started(c)
  <2>1. RowsLeft(c) BY <1>4 DEF Started
  <2>2. /\ sent'[c] = sent[c] + 1 /\ finished'[c] = sent[c]
        /\ sent'[c] # finished'[c]
    BY <1>1, <1>4 DEF Started
  <2>3. \A i \in 1..Motions(c) : i > sent'[c] => <<c, i>> \in cues' \/ due'[c][i] <= 0
    <3> SUFFICES ASSUME NEW i \in 1..Motions(c), i > sent'[c]
                 PROVE  <<c, i>> \in cues' \/ due'[c][i] <= 0
        OBVIOUS
    <3>1. i > sent[c] BY <1>1, <2>2
    <3>2. <<c, i>> \in cues \/ due[c][i] <= 0 BY <2>1, <3>1
    <3>3. (<<c, i>> \in cues => <<c, i>> \in cues' \/ due[c][i] <= 0)
          /\ (due[c][i] <= 0 => due'[c][i] <= 0)
      BY <1>4 DEF Started, RowsKept, Passed
    <3> QED BY <3>2, <3>3
  <2> QED BY <2>2, <2>3
<1>5. CASE Ended(c)
  <2>1. RowsLeft(c) BY <1>5 DEF Ended
  <2>2. sent[c] + 1 \in 1..Motions(c) /\ sent[c] + 1 > sent[c] BY <1>1, <1>5 DEF Ended
  <2>3. <<c, sent[c] + 1>> \in cues BY <1>5, <2>1, <2>2 DEF Ended
  <2>4. sent'[c] = sent[c] /\ finished'[c] = sent[c] /\ sent[c] # Motions(c)
        /\ cues' = cues /\ due' = due
    BY <1>5 DEF Ended
  <2>5. \A i \in 1..Motions(c) : i > sent'[c] => <<c, i>> \in cues' \/ due'[c][i] <= 0
    BY <2>1, <2>4
  <2> QED BY <2>3, <2>4, <2>5
<1>6. CASE Born(c)
  <2>1. sent'[c] = 0 /\ \A i \in 1..Motions(c) : <<c, i>> \in cues' BY <1>6 DEF Born
  <2>2. 0 # Motions(c) /\ 1 \in 1..Motions(c)
    <3> HIDE DEF Motions, RowsLeft
    <3> QED BY <1>1
  <2>3. sent'[c] + 1 = 1 BY <2>1
  <2>4. sent'[c] # Motions(c) /\ <<c, sent'[c] + 1>> \in cues' BY <2>1, <2>2, <2>3
  <2> QED BY <2>1, <2>4
<1> QED BY <1>2, <1>3, <1>4, <1>5, <1>6 DEF Step

(* A step that leaves the counters and the due times of a chain alone.       *)
LEMMA CalmStep ==
    ASSUME NEW c \in Chains, Waits(c)' => Waits(c),
           sent'[c] = sent[c], finished'[c] = finished[c], due' = due,
           \A i \in 1..Motions(c) : <<c, i>> \in cues => <<c, i>> \in cues',
           CInv
    PROVE  Step(c)
<1>1. sent[c] \in Nat /\ Motions(c) \in 1..3 /\ sent[c] <= Motions(c)
  BY Lengths DEF CInv, Counters
<1>2. sent[c] # Motions(c) => sent[c] + 1 \in 1..Motions(c) BY <1>1
<1>3. RowsKept(c) /\ Passed(c) BY DEF RowsKept, Passed
<1>4. Waits(c) => Calm(c) BY <1>2, <1>3 DEF Calm
<1> QED BY <1>4 DEF Step, Gone

(* A chain that has finished what it sent sends its next motion, or is      *)
(* given up; the other chains go on, but for those given up with it.        *)
LEMMA ClaimStep ==
    ASSUME CInv, Kept, NEW c \in Chains, NEW t, NEW st,
           ClaimMotion(c, t, st), c \in Live(0),
           st \in [Chains -> Statuses], \A d \in Chains : st[d] = "active" => d \in Active,
           finished' \in [Chains -> Nat], finished'[c] = sent[c],
           \A d \in Chains \ {c} : finished'[d] = finished[d],
           due' = due, talked \subseteq talked',
           \A d \in Chains \ {c} : \A i \in 1..Motions(d) :
               <<d, i>> \in cues => <<d, i>> \in cues',
           RowsKept(c)
    PROVE  \A d \in Chains : Step(d)
<1>1. ASSUME NEW d \in Chains \ {c} PROVE Step(d)
  <2>1. expires'[d] = expires[d] /\ sent'[d] = sent[d]
    BY DEF ClaimMotion, Kept, CInv, Counters
  <2>2. status'[d] = st[d] BY DEF ClaimMotion
  <2>3. Waits(d)' => Waits(d) BY <2>1, <2>2 DEF Waits, Live, Active
  <2> QED BY <2>1, <2>3, CalmStep
<1>2. Step(c)
  <2>1. CASE sent' = [sent EXCEPT ![c] = @ + 1]
    <3>1. sent'[c] = sent[c] + 1 BY <2>1 DEF CInv, Counters
    <3>2. Passed(c) BY DEF Passed
    <3>3. Waits(c)' => Waits(c) BY DEF Waits
    <3> QED BY <3>1, <3>2, <3>3 DEF Step, Started, Gone
  <2>2. CASE status' = [st EXCEPT ![c] = "abandoned"]
    <3>1. status'[c] = "abandoned" BY <2>2
    <3> QED BY <3>1 DEF Step, Gone, Waits, Live, Active
  <2> QED BY <2>1, <2>2 DEF ClaimMotion
<1> QED BY <1>1, <1>2

(* Nothing is claimed and no motion ends: chains are given up at most.      *)
LEMMA IdleStep ==
    ASSUME CInv, UNCHANGED <<sent, finished, due, cues>>,
           \A c \in Chains : Waits(c)' => Waits(c)
    PROVE  \A c \in Chains : Step(c)
BY CalmStep

LEMMA SweptFewer ==
    ASSUME Kept, NEW t \in Int
    PROVE  /\ Swept(t) \in [Chains -> Statuses]
           /\ \A c \in Chains : Swept(t)[c] = "active" => c \in Active
           /\ \A c \in Chains : Swept(t)[c] = "none" => status[c] = "none"
<1>1. \A c \in Chains : Swept(t)[c] = IF c \in Active \ Live(t) THEN "abandoned" ELSE status[c]
  BY DEF Swept
<1>2. Swept(t) \in [Chains -> Statuses]
  <2>1. \A c \in Chains : status[c] \in Statuses BY DEF Kept
  <2>2. \A c \in Chains : (IF c \in Active \ Live(t) THEN "abandoned" ELSE status[c]) \in Statuses
    BY <2>1 DEF Statuses
  <2> QED BY <2>2 DEF Swept
<1> QED BY <1>1, <1>2 DEF Active

LEMMA NoClaimStep ==
    ASSUME CInv, Kept, NEW st, NoClaim(st), finished' = finished, due' = due, cues' = cues,
           talked \subseteq talked', \A d \in Chains : st[d] = "active" => d \in Active
    PROVE  \A c \in Chains : Step(c)
<1>1. \A c \in Chains : Waits(c)' => Waits(c) BY DEF NoClaim, Waits, Live, Active
<1> QED BY <1>1, IdleStep DEF NoClaim

LEMMA FinishedStep ==
    ASSUME Prompt, CInv, Kept, NEW s \in signals, ProcessFinished(s)
    PROVE  \A c \in Chains : Step(c)
<1>1. s.at = 0 BY Naturals DEF Prompt, CInv, Clocks, Webhooks
<1>2. Counters /\ UNCHANGED <<talked, due, cues>> BY DEF CInv, ProcessFinished
<1>3. /\ Swept(0) \in [Chains -> Statuses]
      /\ \A d \in Chains : Swept(0)[d] = "active" => d \in Active
  BY SweptFewer
<1>4. CASE NoClaim(Swept(0)) /\ finished' = finished
  BY <1>2, <1>3, <1>4, NoClaimStep
<1>5. ASSUME NEW c \in Newest({x \in Live(0) : Awaits(x, s.about)}),
             finished' = [finished EXCEPT ![c] = finished[c] + 1],
             IF IsLast(c, finished[c] + 1)
             THEN NoClaim([Swept(0) EXCEPT ![c] = "completed"])
             ELSE IF finished[c] + 1 = sent[c] /\ Released(c, finished[c] + 1 + 1, 0)
             THEN ClaimMotion(c, 0, Swept(0))
             ELSE NoClaim(Swept(0))
      PROVE  \A d \in Chains : Step(d)
  <2>1. c \in Chains /\ c \in Live(0) /\ sent[c] > finished[c]
    BY DEF Newest, Live, Active, Awaits
  <2>2. /\ finished[c] + 1 = sent[c] /\ finished' \in [Chains -> Nat] /\ finished'[c] = sent[c]
        /\ \A d \in Chains \ {c} : finished'[d] = finished[d]
    BY <1>2, <1>5, <2>1 DEF Counters
  <2>3. ASSUME NEW st, NoClaim(st), \A d \in Chains : st[d] = "active" => d \in Active,
               NEW d \in Chains \ {c}
        PROVE  Step(d)
    <3>1. Waits(d)' => Waits(d) BY <1>2, <2>3 DEF NoClaim, Waits, Live, Active
    <3>2. sent'[d] = sent[d] BY <2>3 DEF NoClaim
    <3> QED BY <1>2, <2>2, <3>1, <3>2, CalmStep
  <2>4. CASE IsLast(c, finished[c] + 1)
    <3> DEFINE st == [Swept(0) EXCEPT ![c] = "completed"]
    <3>1. NoClaim(st) BY <1>5, <2>4
    <3>2. \A d \in Chains : st[d] = "active" => d \in Active BY <1>3
    <3>3. status'[c] = "completed" BY <1>3, <2>1, <3>1 DEF NoClaim
    <3>4. Step(c) BY <3>3 DEF Step, Gone, Waits, Live, Active
    <3> QED BY <2>3, <3>1, <3>2, <3>4
  <2>5. CASE ~IsLast(c, finished[c] + 1) /\ Released(c, finished[c] + 1 + 1, 0)
    <3>1. ClaimMotion(c, 0, Swept(0)) BY <1>5, <2>2, <2>5
    <3>2. RowsKept(c) BY <1>2 DEF RowsKept
    <3> QED BY <1>2, <1>3, <2>1, <2>2, <3>1, <3>2, ClaimStep
  <2>6. CASE ~IsLast(c, finished[c] + 1) /\ ~Released(c, finished[c] + 1 + 1, 0)
    <3>1. NoClaim(Swept(0)) BY <1>5, <2>6
    <3>2. Waits(c) /\ sent[c] # Motions(c) /\ ~(due[c][sent[c] + 1] <= 0)
      BY <2>1, <2>2, <2>6 DEF Released, IsLast, Waits
    <3>3. Step(c) BY <1>2, <2>1, <2>2, <3>1, <3>2 DEF Step, Ended, NoClaim
    <3> QED BY <1>3, <2>3, <3>1, <3>3
  <2> QED BY <2>4, <2>5, <2>6
<1> QED BY <1>1, <1>4, <1>5 DEF ProcessFinished

LEMMA TalkStep ==
    ASSUME Prompt, CInv, Kept, NEW s \in signals, ProcessTalk(s)
    PROVE  \A c \in Chains : Step(c)
<1>1. s.at = 0 BY Naturals DEF Prompt, CInv, Clocks, Webhooks
<1>2. Counters /\ UNCHANGED <<finished, due, cues>> /\ talked \subseteq talked'
  BY DEF CInv, ProcessTalk
<1>3. /\ Swept(0) \in [Chains -> Statuses]
      /\ \A d \in Chains : Swept(0)[d] = "active" => d \in Active
  BY SweptFewer
<1>4. ASSUME NEW st, NoClaim(st), \A d \in Chains : st[d] = "active" => d \in Active
      PROVE  \A d \in Chains : Step(d)
  BY <1>2, <1>4, NoClaimStep
<1>5. \A c \in Chains : \A d \in Chains :
         [Swept(0) EXCEPT ![c] = "completed"][d] = "active" => d \in Active
  BY <1>3
<1>6. ASSUME NEW c \in Live(0), finished[c] = sent[c], ClaimMotion(c, 0, Swept(0))
      PROVE  \A d \in Chains : Step(d)
  <2>1. c \in Chains /\ RowsKept(c) BY <1>2 DEF Live, Active, RowsKept
  <2>2. finished' \in [Chains -> Nat] /\ finished'[c] = sent[c] BY <1>2, <1>6 DEF Counters
  <2> QED BY <1>2, <1>3, <1>6, <2>1, <2>2, ClaimStep
<1> DEFINE open == Live(0) \ talked
           named == open \cap Observed \cap {s.about}
<1>7. \A c \in Newest(IF named # {} THEN named ELSE open) : c \in Live(0) /\ c \in Chains
  BY DEF Newest, Live, Active
<1>8. CASE NoClaim(Swept(0)) BY <1>3, <1>4, <1>8
<1>9. CASE \E c \in Newest(IF named # {} THEN named ELSE open) :
              IF finished[c] # sent[c]
              THEN NoClaim(Swept(0))
              ELSE IF sent[c] = Motions(c)
              THEN NoClaim([Swept(0) EXCEPT ![c] = "completed"])
              ELSE ClaimMotion(c, 0, Swept(0))
  BY <1>3, <1>4, <1>5, <1>6, <1>7, <1>9
<1> QED BY <1>1, <1>8, <1>9 DEF ProcessTalk

LEMMA DueStep ==
    ASSUME CInv, Kept, NEW p \in Places, ProcessDue(p[1], p[2])
    PROVE  \A c \in Chains : Step(c)
<1> DEFINE c == p[1]
           i == p[2]
<1>1. c \in Chains /\ i \in 1..3 BY DEF Places
<1>2. /\ Counters /\ UNCHANGED <<finished, due, talked>> /\ due[c][i] <= 0
      /\ cues' = cues \ {<<c, i>>}
  BY DEF CInv, ProcessDue
<1>3. \A d \in Chains \ {c} : \A j \in 1..Motions(d) : <<d, j>> \in cues => <<d, j>> \in cues'
  BY <1>2
<1>4. RowsKept(c) BY <1>2 DEF RowsKept
<1>5. CASE MayStart(c, i)
  <2>1. ClaimMotion(c, 0, status) /\ c \in Live(0) /\ finished'[c] = sent[c]
    BY <1>2, <1>5 DEF ProcessDue, MayStart, Live
  <2>2. finished' \in [Chains -> Nat] BY <1>2 DEF Counters
  <2>3. status \in [Chains -> Statuses] /\ \A d \in Chains : status[d] = "active" => d \in Active
    BY DEF Kept, Active
  <2>4. \A d \in Chains \ {c} : finished'[d] = finished[d] BY <1>2
  <2> QED BY <1>1, <1>2, <1>3, <1>4, <2>1, <2>2, <2>3, <2>4, ClaimStep
<1>6. CASE ~MayStart(c, i)
  <2>1. UNCHANGED <<status, sent, expires>> BY <1>6 DEF ProcessDue
  <2>2. \A d \in Chains : Waits(d)' => Waits(d)
    BY <1>2, <2>1 DEF Waits, Live, Active
  <2>3. ASSUME NEW d \in Chains \ {c} PROVE Step(d) BY <1>2, <1>3, <2>1, <2>2, CalmStep
  <2>4. Step(c)
    <3>1. Passed(c) BY <1>2 DEF Passed
    <3>2. Waits(c) /\ sent[c] = finished[c] => i # sent[c] + 1
      BY <1>1, <1>6 DEF MayStart, Waits, Live, Active
    <3>3. Waits(c) => Calm(c) BY <1>1, <1>2, <1>4, <2>1, <3>1, <3>2 DEF Calm
    <3> QED BY <1>1, <2>2, <3>3 DEF Step, Gone
  <2> QED BY <2>3, <2>4
<1> QED BY <1>5, <1>6

LEMMA PostStep ==
    ASSUME CInv, Kept, NEW p \in Places, PostMotion(p[1], p[2])
    PROVE  \A c \in Chains : Step(c)
<1> DEFINE c == p[1]
           i == p[2]
<1>1. p = <<c, i>> /\ c \in Chains /\ Counters BY DEF Places, CInv
<1>2. UNCHANGED <<due, talked, cues>> BY DEF PostMotion, chainVars
<1>3. i = sent[c]
  <2>1. sending = <<c, i>> /\ sending # Nothing BY <1>1, Naturals DEF PostMotion, Places
  <2> QED BY <1>1, <2>1 DEF CInv, Posting
<1>4. CASE UNCHANGED <<status, sent, finished, expires>>
  <2>1. \A d \in Chains : Waits(d)' => Waits(d) BY <1>2, <1>4 DEF Waits, Live, Active
  <2> QED BY <1>2, <1>4, <2>1, IdleStep
<1>5. CASE finished' = [finished EXCEPT ![c] = @ + 1]
           /\ c \in Active /\ expires[c] > 0 /\ sent[c] = finished[c] + 1
  <2>1. /\ finished' \in [Chains -> Nat] /\ finished'[c] = sent[c] /\ c \in Live(0)
        /\ \A d \in Chains \ {c} : finished'[d] = finished[d]
        /\ RowsKept(c)
    BY <1>1, <1>2, <1>5 DEF Counters, Live, RowsKept
  <2>2. CASE ClaimMotion(c, 0, status)
    <3>1. status \in [Chains -> Statuses] /\ \A d \in Chains : status[d] = "active" => d \in Active
      BY DEF Kept, Active
    <3> QED BY <1>1, <1>2, <2>1, <2>2, <3>1, ClaimStep
  <2>3. ASSUME sent' = sent, expires' = [expires EXCEPT ![c] = Timeout],
               \A d \in Chains \ {c} : status'[d] = status[d], NEW d \in Chains \ {c}
        PROVE  Step(d)
    <3>1. expires'[d] = expires[d] BY <2>3 DEF Kept
    <3>2. Waits(d)' => Waits(d) BY <1>2, <2>3, <3>1 DEF Waits, Live, Active
    <3> QED BY <1>2, <2>1, <2>3, <3>2, CalmStep
  <2>4. CASE /\ status' = [status EXCEPT ![c] = "completed"] /\ sent' = sent
             /\ expires' = [expires EXCEPT ![c] = Timeout]
    <3>1. status'[c] = "completed" /\ \A d \in Chains \ {c} : status'[d] = status[d]
      BY <1>1, <2>4 DEF Kept
    <3>2. Step(c) BY <3>1 DEF Step, Gone, Waits, Live, Active
    <3> QED BY <2>3, <2>4, <3>1, <3>2
  <2>5. CASE /\ UNCHANGED <<status, sent>> /\ expires' = [expires EXCEPT ![c] = Timeout]
             /\ ~IsLast(c, i) /\ ~Released(c, i + 1, 0)
    <3>1. Waits(c) /\ sent[c] # Motions(c) /\ ~(due[c][sent[c] + 1] <= 0)
      BY <1>3, <2>1, <2>5 DEF Released, IsLast, Waits
    <3>2. finished[c] < sent[c] BY <1>1, <1>5 DEF Counters
    <3>3. Step(c) BY <1>2, <2>1, <2>5, <3>1, <3>2 DEF Step, Ended
    <3> QED BY <2>3, <2>5, <3>3
  <2>6. \/ ClaimMotion(c, 0, status)
        \/ /\ status' = [status EXCEPT ![c] = "completed"] /\ sent' = sent
           /\ expires' = [expires EXCEPT ![c] = Timeout]
        \/ /\ UNCHANGED <<status, sent>> /\ expires' = [expires EXCEPT ![c] = Timeout]
           /\ ~IsLast(c, i) /\ ~Released(c, i + 1, 0)
    <3>1. finished'[c] # finished[c] BY <1>1, <1>5 DEF Counters
    <3> QED BY <3>1 DEF PostMotion, chainVars
  <2> QED BY <2>2, <2>4, <2>5, <2>6
<1> QED BY <1>4, <1>5 DEF PostMotion, chainVars

LEMMA DeliverStep ==
    ASSUME CInv, Kept, NEW c \in Chains, DeliverReply(c)
    PROVE  \A d \in Chains : Step(d)
<1>1. UNCHANGED <<sent, finished, talked>> /\ cues \subseteq cues' BY DEF DeliverReply
<1>2. Step(c) BY <1>1 DEF DeliverReply, Kept, Step, Born
<1>3. ASSUME NEW d \in Chains \ {c} PROVE Step(d)
  <2>1. status'[d] = status[d] /\ expires'[d] = expires[d] /\ due'[d] = due[d]
    BY DEF DeliverReply, Kept, CInv, Clocks
  <2>2. Waits(d)' => Waits(d) BY <1>1, <2>1 DEF Waits, Live, Active
  <2>3. RowsKept(d) /\ Passed(d) BY <1>1, <2>1 DEF RowsKept, Passed
  <2>4. Waits(d) => Calm(d) BY <1>1, <2>3 DEF Calm
  <2> QED BY <2>2, <2>4 DEF Step, Gone
<1> QED BY <1>2, <1>3

LEMMA TickStep ==
    ASSUME CInv, Kept, Tick
    PROVE  \A c \in Chains : Step(c)
<1> SUFFICES ASSUME NEW c \in Chains PROVE Step(c)
    OBVIOUS
<1>1. UNCHANGED <<status, sent, finished, talked, cues>> BY DEF Tick
<1>2. \A t \in Int : /\ Aged(t, -MaxLag) > 0 => t > 0
                     /\ t <= 0 => Aged(t, -MaxLag) <= 0
  BY Naturals DEF Aged
<1>3. Waits(c)' => Waits(c)
  <2>1. expires[c] \in Int BY DEF Kept
  <2>2. expires'[c] = IF c \in Active THEN Aged(expires[c], -MaxLag) ELSE 0
    BY DEF Tick
  <2>3. expires'[c] > 0 => expires[c] > 0 BY <1>2, <2>1, <2>2
  <2> QED BY <1>1, <2>3 DEF Waits, Live, Active
<1>4. Passed(c)
  <2> SUFFICES ASSUME NEW i \in 1..Motions(c), due[c][i] <= 0 PROVE due'[c][i] <= 0
      BY DEF Passed
  <2>1. due[c][i] \in Int /\ DOMAIN due[c] = 1..Motions(c) BY DEF CInv, Clocks
  <2>2. CASE c \in Active
    <3>1. due'[c] = [j \in DOMAIN due[c] |-> Aged(due[c][j], -MaxLag)] BY <2>2 DEF Tick
    <3>2. due'[c][i] = Aged(due[c][i], -MaxLag) BY <2>1, <3>1
    <3> QED BY <1>2, <2>1, <3>2
  <2>3. CASE c \notin Active BY <2>3 DEF Tick
  <2> QED BY <2>2, <2>3
<1>5. RowsKept(c) BY <1>1 DEF RowsKept
<1>6. Waits(c) => Calm(c) BY <1>1, <1>4, <1>5 DEF Calm
<1> QED BY <1>3, <1>6 DEF Step, Gone

LEMMA ChainSteps ==
    ASSUME Prompt, CInv, Kept, [ChainNext]_vars
    PROVE  \A c \in Chains : Step(c)
<1>1. ASSUME UNCHANGED <<status, sent, finished, talked, due, expires, cues>>
      PROVE  \A c \in Chains : Step(c)
  <2>1. \A c \in Chains : Waits(c)' => Waits(c) BY <1>1 DEF Waits, Live, Active
  <2> QED BY <1>1, <2>1, IdleStep
<1>2. ASSUME NEW p \in Places, PostFails(p[1], p[2]) PROVE \A c \in Chains : Step(c)
  <2>1. \A c \in Chains : status'[c] = "active" => status[c] = "active"
    BY <1>2 DEF PostFails, Kept
  <2>2. \A c \in Chains : Waits(c)' => Waits(c)
    BY <1>2, <2>1 DEF PostFails, Waits, Live, Active
  <2> QED BY <1>2, <2>2, IdleStep DEF PostFails
<1>3. ASSUME NEW p \in Places, RobotFinishes(p[1], p[2]) PROVE \A c \in Chains : Step(c)
  BY <1>1, <1>3 DEF RobotFinishes, chainVars
<1>4. ASSUME NEW s \in signals, ProcessAnchor(s) PROVE \A c \in Chains : Step(c)
  <2>1. unheard = {} BY DEF Kept
  <2>2. UNCHANGED <<status, sent, finished, talked, due, expires, cues>>
    BY <1>4, <2>1 DEF ProcessAnchor, Newest
  <2> QED BY <1>1, <2>2
<1>5. CASE Sweep
  <2>1. \A c \in Chains : Waits(c)' => Waits(c)
    BY <1>5, SweptFewer DEF Sweep, Waits, Live, Active
  <2> QED BY <1>5, <2>1, IdleStep DEF Sweep
<1>6. CASE Restart
  <2>1. \A c \in Chains : Gone(c) BY <1>6 DEF Restart, Gone, Waits, Live, Active
  <2> QED BY <2>1 DEF Step
<1>7. AnswerJolt \/ Nod \/ RobotNodded \/ RobotSpeaks \/ UNCHANGED vars
        => UNCHANGED <<status, sent, finished, talked, due, expires, cues>>
  BY DEF AnswerJolt, Nod, RobotNodded, RobotSpeaks, vars, chainVars
<1> QED BY <1>1, <1>2, <1>3, <1>4, <1>5, <1>6, <1>7, DeliverStep, DueStep, PostStep,
           FinishedStep, TalkStep, TickStep
        DEF ChainNext, ProcessSignal
-----------------------------------------------------------------------------
(* The rest of what is kept: types, and a reply without a chain.             *)
Rest ==
    /\ status \in [Chains -> Statuses]
    /\ expires \in [Chains -> Int]
    /\ unheard = {}
    /\ \A c \in Chains : status[c] = "none" => sent[c] = 0 /\ finished[c] = 0

LEMMA RestClaim ==
    ASSUME CInv, Kept, NEW c \in Active, NEW t \in Int, NEW st \in [Chains -> Statuses],
           ClaimMotion(c, t, st), unheard' = {},
           \A d \in Chains : st[d] = "none" => status[d] = "none",
           \A d \in Chains \ {c} : finished'[d] = finished[d]
    PROVE  Rest'
<1>1. c \in Chains /\ status[c] = "active" /\ Timeout \in Nat
  BY MotionChainAssumption DEF Active, MotionChainAssumption
<1>2. status' \in [Chains -> Statuses]
  <2>1. [st EXCEPT ![c] = "abandoned"] \in [Chains -> Statuses] BY DEF Statuses
  <2>2. status' = st \/ status' = [st EXCEPT ![c] = "abandoned"] BY DEF ClaimMotion
  <2> QED BY <2>1, <2>2
<1>3. expires' \in [Chains -> Int] BY <1>1 DEF ClaimMotion, Kept
<1>4. ASSUME NEW d \in Chains, status'[d] = "none" PROVE sent'[d] = 0 /\ finished'[d] = 0
  <2>1. status[d] = "none" BY <1>4 DEF ClaimMotion
  <2>2. d # c /\ sent[d] = 0 /\ finished[d] = 0 BY <1>1, <2>1 DEF Kept
  <2> QED BY <2>2 DEF ClaimMotion, CInv, Counters
<1> QED BY <1>2, <1>3, <1>4 DEF Rest

LEMMA RestQuiet ==
    ASSUME Kept, unheard' = {}, sent' = sent,
           status' \in [Chains -> Statuses], expires' \in [Chains -> Int],
           \A d \in Chains : status'[d] = "none" => status[d] = "none" /\ finished'[d] = finished[d]
    PROVE  Rest'
BY DEF Rest, Kept

LEMMA Settled ==
    ASSUME Kept, NEW st \in [Chains -> Statuses],
           \A d \in Chains : st[d] = "none" => status[d] = "none",
           NEW c \in Chains, NEW x \in {"completed", "abandoned"}
    PROVE  /\ [st EXCEPT ![c] = x] \in [Chains -> Statuses]
           /\ \A d \in Chains : [st EXCEPT ![c] = x][d] = "none" => status[d] = "none"
BY DEF Statuses

LEMMA RestFinished ==
    ASSUME Prompt, CInv, Kept, NEW s \in signals, ProcessFinished(s)
    PROVE  Rest'
<1>1. s.at = 0 BY Naturals DEF Prompt, CInv, Clocks, Webhooks
<1>2. /\ Swept(0) \in [Chains -> Statuses]
      /\ \A d \in Chains : Swept(0)[d] = "none" => status[d] = "none"
  BY SweptFewer
<1>3. unheard' = {} BY DEF ProcessFinished, speechVars, Kept
<1>4. ASSUME NEW st \in [Chains -> Statuses], NoClaim(st),
             \A d \in Chains : st[d] = "none" => status[d] = "none" /\ finished'[d] = finished[d]
      PROVE  Rest'
  BY <1>3, <1>4, RestQuiet DEF NoClaim, Kept
<1>5. CASE NoClaim(Swept(0)) /\ finished' = finished BY <1>2, <1>4, <1>5
<1>6. ASSUME NEW c \in Newest({x \in Live(0) : Awaits(x, s.about)}),
             finished' = [finished EXCEPT ![c] = finished[c] + 1],
             \/ NoClaim([Swept(0) EXCEPT ![c] = "completed"])
             \/ ClaimMotion(c, 0, Swept(0))
             \/ NoClaim(Swept(0))
      PROVE  Rest'
  <2>1. c \in Active /\ c \in Chains /\ status[c] = "active" BY DEF Newest, Live, Active
  <2>2. \A d \in Chains \ {c} : finished'[d] = finished[d] BY <1>6 DEF CInv, Counters
  <2>3. \A d \in Chains : status[d] = "none" => finished'[d] = finished[d]
    BY <2>1, <2>2
  <2>4. CASE ClaimMotion(c, 0, Swept(0)) BY <1>2, <1>3, <2>1, <2>2, <2>4, RestClaim
  <2>5. CASE NoClaim(Swept(0)) BY <1>2, <1>4, <2>3, <2>5
  <2>6. CASE NoClaim([Swept(0) EXCEPT ![c] = "completed"])
    BY <1>2, <1>4, <2>1, <2>3, <2>6, Settled
  <2> QED BY <1>6, <2>4, <2>5, <2>6
<1>7. CASE \E c \in Newest({x \in Live(0) : Awaits(x, s.about)}) :
             LET done == finished[c] + 1 IN
             /\ finished' = [finished EXCEPT ![c] = done]
             /\ IF IsLast(c, done)
                THEN NoClaim([Swept(0) EXCEPT ![c] = "completed"])
                ELSE IF done = sent[c] /\ Released(c, done + 1, 0)
                THEN ClaimMotion(c, 0, Swept(0))
                ELSE NoClaim(Swept(0))
  BY <1>6, <1>7
<1> QED BY <1>1, <1>5, <1>7 DEF ProcessFinished

LEMMA RestTalk ==
    ASSUME Prompt, CInv, Kept, NEW s \in signals, ProcessTalk(s)
    PROVE  Rest'
<1>1. s.at = 0 BY Naturals DEF Prompt, CInv, Clocks, Webhooks
<1>2. /\ Swept(0) \in [Chains -> Statuses]
      /\ \A d \in Chains : Swept(0)[d] = "none" => status[d] = "none"
  BY SweptFewer
<1>3. unheard' = {} /\ finished' = finished BY DEF ProcessTalk, speechVars, Kept
<1>4. ASSUME NEW st \in [Chains -> Statuses], NoClaim(st),
             \A d \in Chains : st[d] = "none" => status[d] = "none"
      PROVE  Rest'
  BY <1>3, <1>4, RestQuiet DEF NoClaim, Kept
<1> DEFINE open == Live(0) \ talked
           named == open \cap Observed \cap {s.about}
<1>5. \A c \in Newest(IF named # {} THEN named ELSE open) : c \in Active /\ c \in Chains
  BY DEF Newest, Live, Active
<1>6. CASE NoClaim(Swept(0)) BY <1>2, <1>4, <1>6
<1>7. ASSUME NEW c \in Active, ClaimMotion(c, 0, Swept(0)) PROVE Rest'
  <2>1. \A d \in Chains \ {c} : finished'[d] = finished[d] BY <1>3
  <2> QED BY <1>2, <1>3, <1>7, <2>1, RestClaim
<1>8. ASSUME NEW c \in Chains, NoClaim([Swept(0) EXCEPT ![c] = "completed"]) PROVE Rest'
  BY <1>2, <1>4, <1>8, Settled
<1>9. CASE \E c \in Newest(IF named # {} THEN named ELSE open) :
              IF finished[c] # sent[c]
              THEN NoClaim(Swept(0))
              ELSE IF sent[c] = Motions(c)
              THEN NoClaim([Swept(0) EXCEPT ![c] = "completed"])
              ELSE ClaimMotion(c, 0, Swept(0))
  BY <1>5, <1>6, <1>7, <1>8, <1>9
<1> QED BY <1>1, <1>6, <1>9 DEF ProcessTalk

LEMMA RestPost ==
    ASSUME CInv, Kept, NEW p \in Places, PostMotion(p[1], p[2])
    PROVE  Rest'
<1> DEFINE c == p[1]
           i == p[2]
<1>1. c \in Chains /\ Timeout \in Int
  BY MotionChainAssumption DEF Places, MotionChainAssumption
<1>2. unheard' = {} BY DEF PostMotion, speechVars, Kept
<1>3. status \in [Chains -> Statuses] /\ expires \in [Chains -> Int] BY DEF Kept
<1>4. [expires EXCEPT ![c] = Timeout] \in [Chains -> Int] BY <1>1, <1>3
<1>5. CASE UNCHANGED <<status, sent, finished, expires>>
  BY <1>2, <1>3, <1>5, RestQuiet
<1>6. CASE finished' = [finished EXCEPT ![c] = @ + 1] /\ c \in Active
  <2>1. \A d \in Chains \ {c} : finished'[d] = finished[d] BY <1>6 DEF CInv, Counters
  <2>2. \A d \in Chains : status[d] = "none" => finished'[d] = finished[d]
    BY <1>6, <2>1 DEF Active
  <2>3. CASE ClaimMotion(c, 0, status)
    BY <1>2, <1>3, <1>6, <2>1, <2>3, RestClaim
  <2>4. CASE UNCHANGED <<status, sent>> /\ expires' = [expires EXCEPT ![c] = Timeout]
    BY <1>2, <1>3, <1>4, <2>2, <2>4, RestQuiet
  <2>5. CASE /\ status' = [status EXCEPT ![c] = "completed"] /\ sent' = sent
             /\ expires' = [expires EXCEPT ![c] = Timeout]
    <3>1. status' \in [Chains -> Statuses] /\ \A d \in Chains : status'[d] = "none" => status[d] = "none"
      BY <1>1, <1>3, <2>5, Settled
    <3> QED BY <1>2, <1>4, <2>2, <2>5, <3>1, RestQuiet
  <2>6. finished'[c] # finished[c] BY <1>1, <1>6 DEF CInv, Counters
  <2>7. \/ ClaimMotion(c, 0, status)
        \/ /\ status' = [status EXCEPT ![c] = "completed"] /\ sent' = sent
           /\ expires' = [expires EXCEPT ![c] = Timeout]
        \/ UNCHANGED <<status, sent>> /\ expires' = [expires EXCEPT ![c] = Timeout]
    BY <2>6 DEF PostMotion, chainVars
  <2> QED BY <2>3, <2>4, <2>5, <2>7
<1> QED BY <1>5, <1>6 DEF PostMotion, chainVars

LEMMA RestStep ==
    ASSUME Prompt, CInv, Kept, [ChainNext]_vars
    PROVE  Rest'
<1>1. ASSUME UNCHANGED <<status, sent, finished, expires, unheard>> PROVE Rest'
  BY <1>1 DEF Kept, Rest
<1>2. /\ status \in [Chains -> Statuses] /\ expires \in [Chains -> Int] /\ unheard = {}
  BY DEF Kept
<1>3. ASSUME NEW c \in Chains, DeliverReply(c) PROVE Rest'
  <2>1. unheard' = {} BY <1>2, <1>3 DEF DeliverReply, Prompt
  <2>2. Timeout \in Int BY MotionChainAssumption DEF MotionChainAssumption
  <2>3. expires' \in [Chains -> Int] BY <1>2, <1>3, <2>2 DEF DeliverReply
  <2>4. [status EXCEPT ![c] = "active"] \in [Chains -> Statuses] BY <1>2 DEF Statuses
  <2>5. \A d \in Chains : status'[d] = "none" => status[d] = "none"
    BY <1>2, <1>3 DEF DeliverReply
  <2> QED BY <1>3, <2>1, <2>3, <2>4, <2>5, RestQuiet DEF DeliverReply
<1>4. ASSUME NEW p \in Places, ProcessDue(p[1], p[2]) PROVE Rest'
  <2>1. unheard' = {} /\ finished' = finished BY <1>2, <1>4 DEF ProcessDue, speechVars
  <2>2. CASE MayStart(p[1], p[2])
    <3>1. PICK c \in Active : ClaimMotion(c, 0, status)
      BY <1>4, <2>2 DEF ProcessDue, MayStart
    <3>2. \A d \in Chains \ {c} : finished'[d] = finished[d] BY <2>1
    <3>3. \A d \in Chains : status[d] = "none" => status[d] = "none" OBVIOUS
    <3> QED BY <1>2, <2>1, <3>1, <3>2, <3>3, RestClaim
  <2>3. CASE ~MayStart(p[1], p[2]) BY <1>1, <1>2, <1>4, <2>1, <2>3 DEF ProcessDue
  <2> QED BY <2>2, <2>3
<1>5. ASSUME NEW p \in Places, PostFails(p[1], p[2]) PROVE Rest'
  <2>1. p[1] \in Chains BY DEF Places
  <2>2. status' = status \/ status' = [status EXCEPT ![p[1]] = "abandoned"]
    BY <1>2, <1>5 DEF PostFails
  <2>3. /\ status' \in [Chains -> Statuses]
        /\ \A d \in Chains : status'[d] = "none" => status[d] = "none"
    BY <1>2, <2>1, <2>2, Settled
  <2> QED BY <1>2, <1>5, <2>3, RestQuiet DEF PostFails, speechVars
<1>6. ASSUME NEW p \in Places, RobotFinishes(p[1], p[2]) PROVE Rest'
  BY <1>1, <1>6 DEF RobotFinishes, chainVars, speechVars
<1>7. ASSUME NEW s \in signals, ProcessAnchor(s) PROVE Rest'
  <2>1. UNCHANGED <<status, sent, finished, expires, unheard>>
    BY <1>2, <1>7 DEF ProcessAnchor, Newest
  <2> QED BY <1>1, <2>1
<1>8. CASE Sweep
  <2>1. /\ status' \in [Chains -> Statuses]
        /\ \A d \in Chains : status'[d] = "none" => status[d] = "none"
    BY <1>8, SweptFewer DEF Sweep
  <2> QED BY <1>2, <1>8, <2>1, RestQuiet DEF Sweep, speechVars
<1>9. CASE Restart
  <2>1. \A d \in Chains : "abandoned" \in Statuses /\ status[d] \in Statuses
    BY <1>2 DEF Statuses
  <2>2. status' \in [Chains -> Statuses] BY <1>9, <2>1 DEF Restart
  <2>3. \A d \in Chains : status'[d] = "none" => status[d] = "none" BY <1>9 DEF Restart
  <2> QED BY <1>2, <1>9, <2>2, <2>3, RestQuiet DEF Restart, speechVars
<1>10. CASE Tick
  <2>1. \A c \in Chains : (IF c \in Active THEN Aged(expires[c], -MaxLag) ELSE 0) \in Int
    BY <1>2, Naturals DEF Aged
  <2>2. expires' \in [Chains -> Int] BY <1>10, <2>1 DEF Tick
  <2> QED BY <1>2, <1>10, <2>2, RestQuiet DEF Tick
<1>11. AnswerJolt \/ Nod \/ RobotNodded \/ RobotSpeaks \/ UNCHANGED vars
        => UNCHANGED <<status, sent, finished, expires, unheard>>
  BY DEF AnswerJolt, Nod, RobotNodded, RobotSpeaks, vars, chainVars, speechVars
<1> QED BY <1>1, <1>3, <1>4, <1>5, <1>6, <1>7, <1>8, <1>9, <1>10, <1>11,
           RestPost, RestFinished, RestTalk
        DEF ChainNext, ProcessSignal

(* A chain whose next motion is due, with nothing of it in flight, has a    *)
(* row left that will send it, when webhooks are handled at once and no     *)
(* anchor moves the due times: then the row is not consumed before its      *)
(* moment, and a report that finds the moment not come leaves the row.      *)
THEOREM NoneStrandedAlways == Prompt => (ChainSpec => []NoneStranded)
<1> SUFFICES ASSUME Prompt PROVE ChainSpec => []NoneStranded
    OBVIOUS
<1>1. ChainInit => Kept
  BY DEF ChainInit, Kept, Statuses, Waits, Live, Active
<1>2. CInv /\ Kept /\ [ChainNext]_vars => Kept'
  <2> SUFFICES ASSUME CInv, Kept, [ChainNext]_vars PROVE Kept'
      OBVIOUS
  <2>1. Rest' BY RestStep
  <2>2. ASSUME NEW c \in Chains PROVE Waits(c)' => RowsLeft(c)'
    <3>1. Waits(c) => RowsLeft(c) BY DEF Kept
    <3>2. Step(c) BY ChainSteps
    <3> QED BY <3>1, <3>2, StepKeepsRows
  <2> QED BY <2>1, <2>2 DEF Rest, Kept
<1>3. Kept => NoneStranded
  BY DEF Kept, Waits, RowsLeft, NoneStranded, Stranded, Live, Active
<1> QED BY <1>1, <1>2, <1>3, CInvAlways, PTL DEF ChainSpec
-----------------------------------------------------------------------------
(*                               The budget                                *)

(* Every report is booked in the unit it is handled in, and no call goes    *)
(* unbooked.                                                                *)
Honest == MaxLag = 0 /\ MaxJolts = 0

Recent == Later(booked, -Window)

(* The calls of the window are its rows, and they are within the budget.    *)
Paid ==
    /\ booked \subseteq Int \X Nat
    /\ calls = Recent
    /\ IsFiniteSet(calls) /\ Cardinality(calls) <= Budget
    /\ jolts = 0

Books == Book(0) \/ TurnAway(0)

LEMMA Windows ==
    /\ Window \in Nat \ {0} /\ Budget \in Nat \ {0} /\ MaxLag \in Nat
    /\ -Window \in Int /\ 0 - Window = -Window /\ 0 > -Window
<1>1. Window \in Nat \ {0} /\ Budget \in Nat \ {0} /\ MaxLag \in Nat
  BY MotionChainAssumption DEF MotionChainAssumption
<1> QED BY <1>1

LEMMA Enlarged ==
    ASSUME NEW rows, IsFiniteSet(rows), rows \subseteq Int \X Nat
    PROVE  /\ IsFiniteSet(Another(rows, 0))
           /\ Cardinality(Another(rows, 0)) <= Cardinality(rows) + 1
           /\ Another(rows, 0) \subseteq Int \X Nat
           /\ \A r \in Another(rows, 0) : r \in rows \/ r[1] = 0
<1> DEFINE n == Cardinality({r \in rows : r[1] = 0})
<1>1. IsFiniteSet({r \in rows : r[1] = 0}) BY FS_Subset
<1>2. n \in Nat BY <1>1, FS_CardinalityType
<1>3. <<0, 1 + n>> \in Int \X Nat BY <1>2
<1>4. Another(rows, 0) = rows \cup {<<0, 1 + n>>} BY DEF Another
<1>5. Cardinality(rows) \in Nat BY FS_CardinalityType
<1> HIDE DEF n
<1>6. /\ IsFiniteSet(rows \cup {<<0, 1 + n>>})
      /\ Cardinality(rows \cup {<<0, 1 + n>>}) <= Cardinality(rows) + 1
  <2>1. ASSUME NEW x
        PROVE  /\ IsFiniteSet(rows \cup {x})
               /\ \/ Cardinality(rows \cup {x}) = Cardinality(rows)
                  \/ Cardinality(rows \cup {x}) = Cardinality(rows) + 1
    BY FS_AddElement
  <2>2. \/ Cardinality(rows \cup {<<0, 1 + n>>}) = Cardinality(rows)
        \/ Cardinality(rows \cup {<<0, 1 + n>>}) = Cardinality(rows) + 1
    BY <2>1
  <2> QED BY <1>5, <2>1, <2>2
<1> QED BY <1>3, <1>4, <1>6

LEMMA BooksKeepPaid ==
    ASSUME Paid, Books, jolts' = jolts
    PROVE  Paid'
<1> USE Windows
<1>1. Recent \subseteq Int \X Nat /\ \A r \in Recent : r[1] > -Window
  BY DEF Paid, Recent, Later
<1>2. Cardinality(calls) \in Nat BY FS_CardinalityType DEF Paid
<1>3. Later(booked, 0 - Window) = Recent BY DEF Recent
<1>4. ASSUME booked' = calls', \A r \in calls' : r[1] > -Window
      PROVE  calls' = Recent'
  BY <1>4 DEF Recent, Later
<1>5. CASE Book(0)
  <2>1. booked' = Another(calls, 0) /\ calls' = Another(calls, 0)
    BY <1>3, <1>5 DEF Book, Paid
  <2>2. Cardinality(calls) < Budget BY <1>3, <1>5 DEF Book, HasRoom, Paid
  <2>3. calls \subseteq Int \X Nat /\ IsFiniteSet(calls) BY <1>1 DEF Paid
  <2>4. /\ IsFiniteSet(calls') /\ Cardinality(calls') <= Cardinality(calls) + 1
        /\ calls' \subseteq Int \X Nat /\ \A r \in calls' : r \in calls \/ r[1] = 0
    BY <2>1, <2>3, Enlarged
  <2>5. \A r \in calls' : r[1] > -Window BY <1>1, <2>4 DEF Paid
  <2>6. Cardinality(calls') \in Nat BY <2>4, FS_CardinalityType
  <2>7. Cardinality(calls') <= Budget BY <1>2, <2>2, <2>4, <2>6
  <2>8. calls' = Recent' BY <1>4, <2>1, <2>5
  <2> QED BY <2>1, <2>4, <2>7, <2>8 DEF Paid
<1>6. CASE TurnAway(0)
  <2>1. booked' = calls /\ calls' = calls BY <1>3, <1>6 DEF TurnAway, Paid
  <2>2. calls' = Recent' BY <1>1, <1>4, <2>1 DEF Paid
  <2> QED BY <1>1, <2>1, <2>2 DEF Paid
<1> QED BY <1>5, <1>6 DEF Books

LEMMA TickKeepsPaid ==
    ASSUME Honest, Paid, Tick
    PROVE  Paid'
<1> USE Windows
<1>1. jolts' = jolts /\ calls' = Older(calls, -Window) BY DEF Tick
<1>2. booked' = Older(booked, -Window)
  <2>1. -(MaxLag + Window) = -Window
    <3>1. MaxLag + Window = Window BY DEF Honest
    <3> QED BY <3>1
  <2> QED BY <2>1 DEF Tick
<1> DEFINE gone == -Window + 1
           kept == Later(calls, gone)
<1>3. gone \in Int /\ gone > -Window OBVIOUS
<1>4. kept = Later(booked, gone)
  BY <1>3 DEF Paid, Recent, Later
<1>5. calls' = {<<r[1] - 1, r[2]>> : r \in kept} /\ booked' = calls'
  BY <1>1, <1>2, <1>4 DEF Older
<1>6. kept \subseteq calls /\ kept \subseteq Int \X Nat /\ \A r \in kept : r[1] > gone
  BY DEF Paid, Recent, Later
<1>7. calls' \subseteq Int \X Nat /\ \A r \in calls' : r[1] > -Window
  <2> SUFFICES ASSUME NEW r \in kept
               PROVE  <<r[1] - 1, r[2]>> \in Int \X Nat /\ r[1] - 1 > -Window
      BY <1>5
  <2>1. r[1] \in Int /\ r[2] \in Nat /\ r[1] > gone BY <1>6
  <2> QED BY <2>1
<1>8. calls' = Recent' BY <1>5, <1>7 DEF Recent, Later
<1>9. IsFiniteSet(kept) /\ Cardinality(kept) <= Cardinality(calls)
  BY <1>6, FS_Subset DEF Paid
<1>10. IsFiniteSet(calls') /\ Cardinality(calls') <= Cardinality(kept)
  <2> HIDE DEF kept
  <2> DEFINE younger == [r \in kept |-> <<r[1] - 1, r[2]>>]
  <2>1. younger \in Surjection(kept, calls') BY <1>5 DEF Surjection
  <2> HIDE DEF younger
  <2> QED BY <1>9, <2>1, FS_Surjection
<1>11. /\ Cardinality(calls) \in Nat /\ Cardinality(kept) \in Nat
       /\ Cardinality(calls') \in Nat
  BY <1>9, <1>10, FS_CardinalityType DEF Paid
<1> HIDE DEF kept
<1>12. Cardinality(calls') <= Budget BY <1>9, <1>10, <1>11 DEF Paid
<1> QED BY <1>1, <1>5, <1>7, <1>8, <1>10, <1>12 DEF Paid

(* Every step books a call now, lets time pass or leaves the calls alone.   *)
LEMMA BudgetSteps ==
    ASSUME Honest, CInv, jolts = 0, [ChainNext]_vars
    PROVE  jolts' = 0 /\ (Books \/ Tick \/ UNCHANGED <<booked, calls>>)
<1>1. \A c, st : ClaimMotion(c, 0, st) => Books BY DEF ClaimMotion, Books
<1>2. \A st : NoClaim(st) => UNCHANGED <<booked, calls>> BY DEF NoClaim, callVars
<1>3. ASSUME NEW s \in signals, ProcessSignal(s)
      PROVE  jolts' = jolts /\ (Books \/ UNCHANGED <<booked, calls>>)
  <2>1. s.at = 0 BY Naturals DEF Honest, CInv, Clocks, Webhooks
  <2>2. CASE ProcessFinished(s)
    BY <1>1, <1>2, <2>1, <2>2 DEF ProcessFinished
  <2>3. CASE ProcessTalk(s)
    BY <1>1, <1>2, <2>1, <2>3 DEF ProcessTalk
  <2>4. CASE ProcessAnchor(s) BY <2>4 DEF ProcessAnchor, callVars
  <2> QED BY <1>3, <2>2, <2>3, <2>4 DEF ProcessSignal
<1>4. ASSUME NEW p \in Places, ProcessDue(p[1], p[2])
      PROVE  jolts' = jolts /\ (Books \/ UNCHANGED <<booked, calls>>)
  BY <1>1, <1>4 DEF ProcessDue, callVars, robotVars
<1>5. ASSUME NEW p \in Places, PostMotion(p[1], p[2])
      PROVE  jolts' = jolts /\ (Books \/ UNCHANGED <<booked, calls>>)
  BY <1>1, <1>5 DEF PostMotion
<1>6. ~AnswerJolt BY DEF AnswerJolt, Honest
<1>7. Nod => jolts' = jolts /\ Books BY DEF Nod, Books
<1>8. ASSUME NEW c \in Chains, DeliverReply(c) PROVE UNCHANGED <<booked, calls, jolts>>
  BY <1>8 DEF DeliverReply, callVars, robotVars
<1>9. ASSUME NEW p \in Places, PostFails(p[1], p[2]) \/ RobotFinishes(p[1], p[2])
      PROVE  UNCHANGED <<booked, calls, jolts>>
  BY <1>9 DEF PostFails, RobotFinishes, callVars, robotVars
<1>10. Sweep \/ Restart \/ RobotNodded \/ RobotSpeaks \/ UNCHANGED vars
         => UNCHANGED <<booked, calls, jolts>>
  BY DEF Sweep, Restart, RobotNodded, RobotSpeaks, vars, callVars, robotVars
<1>11. Tick => jolts' = jolts BY DEF Tick
<1> QED BY <1>3, <1>4, <1>5, <1>6, <1>7, <1>8, <1>9, <1>10, <1>11 DEF ChainNext

(* No more motion calls than the budget in any window, for every budget and *)
(* every window, when reports are handled at once and no jolt is answered.  *)
THEOREM RollingBudgetAlways == Honest => (ChainSpec => []RollingBudget)
<1> SUFFICES ASSUME Honest PROVE ChainSpec => []RollingBudget
    OBVIOUS
<1>1. ChainInit => Paid
  BY Windows, FS_EmptySet DEF ChainInit, Paid, Recent, Later
<1>2. CInv /\ Paid /\ [ChainNext]_vars => Paid'
  <2> SUFFICES ASSUME CInv, Paid, [ChainNext]_vars PROVE Paid'
      OBVIOUS
  <2>1. jolts = 0 BY DEF Paid
  <2>2. jolts' = 0 /\ (Books \/ Tick \/ UNCHANGED <<booked, calls>>) BY <2>1, BudgetSteps
  <2>3. CASE UNCHANGED <<booked, calls>> BY <2>2, <2>3 DEF Paid, Recent, Later
  <2> QED BY <2>1, <2>2, <2>3, BooksKeepPaid, TickKeepsPaid
<1>3. Paid => RollingBudget BY DEF Paid, RollingBudget
<1> QED BY <1>1, <1>2, <1>3, CInvAlways, PTL DEF ChainSpec
=============================================================================
