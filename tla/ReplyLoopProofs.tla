--------------------------- MODULE ReplyLoopProofs --------------------------
(***************************************************************************)
(* Proofs about the conversation, for any messages, asides, setups and     *)
(* faults.  The queue's own theorems hold of the composition, which takes  *)
(* only steps of the queue; the invariant adds what the worker knows at    *)
(* each place of its code about the room and the delivery records.         *)
(***************************************************************************)
EXTENDS ReplyLoop, EventQueueProofs, FiniteSetTheorems

Said == (Nat \ {0}) \X (Nat \ {0})
Answers == {Apology, NotHeard} \cup Said
Stages == {"idle", "received", "replying", "generating", "delivering", "posted",
           "remembering", "streaming", "chunk posted", "stream over", "done",
           "failed"}
Streaming == {"streaming", "chunk posted", "stream over"}
Answering == Stages \ {"idle", "received", "done"}
Placed == {"posted", "chunk posted"}

(* A reply is spoken for an event, and the aside line for an aside.         *)
Spoken == [source : Events, piece : Answers]
             \cup [source : Asides, piece : {AsideLine}]
Records ==
    [source : Events, chunk : Nat, piece : Answers, post : Nat, id : Nat,
     consumed : BOOLEAN]
      \cup [source : Asides, chunk : {0}, piece : {AsideLine}, post : Nat, id : Nat,
            consumed : BOOLEAN]

ReplyTypeOK ==
    /\ setup \in Setups
    /\ pc \in Stages /\ (pc = "idle" <=> job = NoEvent)
    /\ said \in Seq(Said) /\ inflight \in Nat /\ fresh \in BOOLEAN
    /\ response \in [Events -> Seq(Answers)]
    /\ bocco_sent \in [Events -> BOOLEAN]
    /\ outbound \subseteq Records /\ IsFiniteSet(outbound)
    /\ turns \in [Events -> Seq(Answers)]
    /\ posts \in Seq(Spoken) /\ Len(posts) <= MaxPosts
    /\ generations \in Nat /\ faults \in Nat
    /\ aside \in [Asides -> Int]

(* What the worker, and an aside, is about to record was posted.            *)
InFlight ==
    /\ pc \in {"posted", "chunk posted"} =>
          inflight \in DOMAIN posts /\ posts[inflight].source = job
    /\ pc = "chunk posted" => posts[inflight].piece[1] = generations
    /\ \A a \in Asides : aside[a] > NoPost =>
          aside[a] \in DOMAIN posts /\ posts[aside[a]].source = a

(* What is taken for heard was heard.                                       *)
Sources == {posts[p].source : p \in DOMAIN posts}
Utterances == {<<posts[p].source, posts[p].piece>> : p \in DOMAIN posts}
Audible ==
    /\ pc # "idle" => \A i \in DOMAIN said : <<job, said[i]>> \in Utterances
    /\ pc = "stream over" => said # Nothing
    /\ pc = "remembering" => job \in Sources
    /\ pc = "done" /\ job \in Humans => job \in Sources \/ setup.form[job] # "unheard"
    /\ \A e \in Events : bocco_sent[e] => e \in Sources

(* A reply is at hand where it is delivered, or the attempt was not the last*)
Replied ==
    /\ pc \in {"delivering", "posted"} => response[job] # Nothing
    /\ pc = "failed" => response[job] # Nothing \/ attempts[job] < MaxAttempts

(* The stages of a stream, what is filed of any reply, and what was posted  *)
(* and filed of the one under way.                                          *)
StreamStages ==
    /\ pc \in {"received", "replying", "generating", "delivering", "posted"} =>
          said = Nothing
    /\ pc \in Streaming \cup {"generating"} => response[job] = Nothing
    /\ pc = "posted" => ~bocco_sent[job]
    /\ pc = "stream over" => bocco_sent[job]
    /\ pc = "streaming" => (bocco_sent[job] <=> said # Nothing)
    /\ pc = "chunk posted" => said # Nothing
    /\ pc \in {"received", "replying"} => fresh = FALSE
Filed == \A r \in outbound : r.source \in Events => bocco_sent[r.source]
StreamedSoFar ==
    pc \in {"streaming", "chunk posted"} =>
        /\ generations > 0
        /\ \A p \in DOMAIN posts :
              posts[p].source = job /\ posts[p].piece[1] = generations =>
                 posts[p].piece[2] <= Len(said) + 1
        /\ \A r \in outbound : r.source = job =>
              /\ r.piece[1] = generations
              /\ r.chunk <= Len(said)
              /\ pc = "chunk posted" => r.chunk # Len(said)
Streams == StreamStages /\ Filed /\ StreamedSoFar

(* Every generation is new, and a reply that was not heard is one piece of  *)
(* one of them.                                                             *)
PostedSoFar == \A p \in DOMAIN posts : posts[p].piece[1] <= generations
Sole(e) ==
    /\ Len(response[e]) = 1
    /\ \A p \in DOMAIN posts :
          posts[p].source = e /\ posts[p].piece[1] = response[e][1][1] =>
             posts[p].piece = response[e][1]
SavedSoFar ==
    \A e \in Events : response[e] # Nothing =>
        /\ response[e][1][1] <= generations
        /\ ~bocco_sent[e] => Sole(e)
Generated == PostedSoFar /\ SavedSoFar

(* As long as nothing was interrupted, what is remembered was spoken.       *)
Uninterrupted ==
    interruptions = 0 =>
        /\ \A e \in Events : bocco_sent[e] =>
              response[e] # Nothing \/ (e = job /\ pc \in Streaming)
        /\ pc = "delivering" /\ fresh => ~bocco_sent[job]
        /\ pc \in {"posted", "remembering"} /\ fresh =>
              \A i \in DOMAIN response[job] : <<job, response[job][i]>> \in Utterances
        /\ \A e \in Events : \A i \in DOMAIN turns[e] : <<e, turns[e][i]>> \in Utterances

(* What was settled was answered, or its answer is at hand; what is filed   *)
(* for a message is of one generation, and heard in order.                  *)
Answered ==
    \A e \in Humans :
        /\ status[e] = "completed" => e \in Sources \/ setup.form[e] # "unheard"
        /\ status[e] = "dead_letter" => response[e] # Nothing
OneGeneration ==
    \A r, s \in outbound : r.source = s.source => r.piece[1] = s.piece[1]
SentencesInOrder ==
    \A p, q \in DOMAIN posts :
        /\ posts[p].source \in Events /\ posts[q].source = posts[p].source
        /\ p < q /\ posts[p].piece[1] = posts[q].piece[1]
        => posts[p].piece[2] <= posts[q].piece[2]

(* A reply that is not streamed is the one that is saved.                   *)
Of(heard, e) == {p \in DOMAIN heard : heard[p].source = e}
Heard == [e \in Events |-> Cardinality(Of(posts, e))]
Known == {e \in Events : bocco_sent[e] \/ (pc = "posted" /\ job = e)}
OneAnswer ==
    \A p \in DOMAIN posts : posts[p].source \in Events =>
        /\ response[posts[p].source] # Nothing
        /\ posts[p].piece = response[posts[p].source][1]
FewPosts ==
    \A e \in Events :
        /\ Heard[e] <= faults + interruptions + 1
        /\ e \notin Known => Heard[e] <= faults + interruptions
SavedFirst == ~setup.streams => pc \notin Streaming /\ OneAnswer /\ FewPosts

(* An echo comes after its post.                                            *)
Echoed ==
    /\ \A p \in 1..MaxPosts : status[EchoOf[p]] # "absent" => p \in DOMAIN posts
    /\ \A p \in DOMAIN posts : posts[p].source \in Events =>
          status[posts[p].source] # "absent"
    /\ pc \in {"posted", "chunk posted"} =>
          EchoOf[inflight] # job /\ EchoOf[inflight] \notin Sources

(* The records are of posts.                                                *)
RecordsOfPosts ==
    \A r \in outbound :
        /\ r.post \in DOMAIN posts /\ posts[r.post].source = r.source
        /\ posts[r.post].piece = r.piece
        /\ r.id = IF setup.ids THEN r.post ELSE NoPost

(* An echo that is answered is of a post that was not recorded.             *)
AnsweredEcho(p) ==
    EchoOf[p] \in Sources \/ (job = EchoOf[p] /\ pc \in Answering)
OfAReply(p) == posts[p].source \in Events
Unrecorded ==
    setup.ids => \A p \in DOMAIN posts : OfAReply(p) /\ AnsweredEcho(p) =>
                    \A r \in outbound : r.post # p

(* A message is over, and was ignored, where the worker is done with it     *)
(* without an answer.  A record is its source's and chunk's only one, and   *)
(* each ignored speech of a human used one up.                              *)
Over(e) == status[e] = "completed" \/ (job = e /\ pc = "done")
Ignored(e) == Over(e) /\ e \notin Sources
HumansIgnored(w) ==
    {e \in Humans : setup.form[e] = "speech" /\ setup.words[e] = w /\ Ignored(e)}
Keyed == \A r, s \in outbound : r.source = s.source /\ r.chunk = s.chunk => r = s
Mistaken ==
    \A w \in Pieces : /\ IsFiniteSet(HumansIgnored(w))
                      /\ Cardinality(HumansIgnored(w)) <= Cardinality(Spent(w))

(* Without interruption what was sent is settled, or its worker goes on to  *)
(* settle it.                                                               *)
Spoke == {"streaming", "chunk posted", "stream over", "remembering", "done"}
Heeded ==
    interruptions = 0 => \A e \in Events : bocco_sent[e] =>
        status[e] = "completed" \/ (job = e /\ pc \in Spoke)

(* Without faults every post of a reply is recorded at once, every record   *)
(* that was used up was so by an echo or a human that was ignored, and an   *)
(* echo is answered only where a human took its record.                     *)
Faultless == faults = 0 /\ interruptions = 0
AtHand(p) == (\E r \in outbound : r.post = p) \/ (pc \in Placed /\ p = inflight)
EveryPostAtHand == \A p \in DOMAIN posts : OfAReply(p) => AtHand(p)
PostsOf(w) == {p \in DOMAIN posts : OfAReply(p) /\ posts[p].piece = w}
EchoesIgnored(w) == {p \in PostsOf(w) : Ignored(EchoOf[p])}
EchoesAnswered(w) == {p \in PostsOf(w) : AnsweredEcho(p)}
Tallied ==
    ~setup.ids => \A w \in Answers :
        Cardinality(Spent(w)) <= Cardinality(EchoesIgnored(w)) + Cardinality(HumansIgnored(w))
FewAnswered ==
    \A w \in Answers :
        /\ setup.ids => EchoesAnswered(w) = {}
        /\ Cardinality(EchoesAnswered(w)) <= Cardinality(Misheard(w))
NothingLost == Faultless => EveryPostAtHand /\ Tallied /\ FewAnswered

RInv ==
    /\ IInv
    /\ ReplyTypeOK /\ InFlight /\ Audible /\ Replied /\ Streams /\ Generated
    /\ Uninterrupted /\ SavedFirst /\ Answered /\ OneGeneration /\ SentencesInOrder
    /\ Heeded
-----------------------------------------------------------------------------
(*                    The conversation and the queue                        *)

LEMMA QueueStep == [Next]_vars => [QueueNext]_queueVars
<1> SUFFICES ASSUME [Next]_vars PROVE [QueueNext]_queueVars
  OBVIOUS
<1>0. Events = Humans \cup Echoes /\ EchoOf \in Seq(Events)
  BY ReplyLoopAssumption DEF ReplyLoopAssumption
<1>1. ASSUME NEW e \in Events, HumanSpeaks(e) PROVE QueueNext
  BY <1>1 DEF HumanSpeaks, QueueNext
<1>2. ASSUME NEW p \in 1..MaxPosts, EchoArrives(p) PROVE QueueNext
  <2>1. EchoOf[p] \in Events BY <1>0 DEF MaxPosts
  <2> QED BY <1>2, <2>1 DEF EchoArrives, QueueNext
<1>3. ASSUME NEW e \in Events, Claim(e) PROVE QueueNext
  BY <1>3 DEF Claim, QueueNext, WorkerStep
<1>4. CASE Receive \/ Reply \/ Generate \/ Deliver \/ RecordDelivery \/ RecordTurn
           \/ StreamChunk \/ RecordChunk \/ EndStream \/ SaveStreamed
  BY <1>4 DEF Receive, Reply, Generate, Deliver, RecordDelivery, RecordTurn,
              StreamChunk, RecordChunk, EndStream, SaveStreamed
<1>5. CASE Settle BY <1>5 DEF Settle, QueueNext, WorkerStep
<1>6. ASSUME NEW a \in Asides, SpeakAside(a) \/ RecordAside(a) PROVE UNCHANGED queueVars
  BY <1>6 DEF SpeakAside, RecordAside
<1>7. CASE Interrupt BY <1>7 DEF Interrupt, QueueNext
<1>8. CASE Environment
  BY <1>8 DEF Environment, QueueNext, Loops
<1>9. CASE UNCHANGED vars BY <1>9 DEF vars
<1> QED BY <1>1, <1>2, <1>3, <1>4, <1>5, <1>6, <1>7, <1>8, <1>9 DEF Next, Process

(* The conversation is a queue with a worker that goes through the stages   *)
(* of a reply: all that is proved of the queue holds of it.                 *)
THEOREM ConversationIsAQueue == Spec => QueueSpec
<1>1. Init => QueueInit BY DEF Init
<1> QED BY <1>1, QueueStep, PTL DEF Spec, QueueSpec

LEMMA SetupKept == [Next]_vars => setup' = setup
BY DEF Next, Process, HumanSpeaks, EchoArrives, Claim, Receive, Reply, Generate,
       Deliver, RecordDelivery, RecordTurn, StreamChunk, RecordChunk, EndStream,
       SaveStreamed, Settle, SpeakAside, RecordAside, Interrupt, LoseMemory, Environment,
       vars, replyVars, worldVars

LEMMA SetupTyped ==
    ASSUME ReplyTypeOK
    PROVE  /\ setup.streams \in BOOLEAN /\ setup.ids \in BOOLEAN
           /\ setup.posts \in 1..MaxPosts /\ setup.humans \subseteq Humans
           /\ setup.words \in [Humans -> Pieces] /\ setup.form \in [Humans -> Forms]
<1>1. setup \in [streams : BOOLEAN, ids : BOOLEAN, asides : SUBSET Asides,
                 posts : 1..MaxPosts, faults : Nat, humans : SUBSET Humans,
                 words : [Humans -> Pieces], form : [Humans -> Forms]]
  BY ReplyLoopAssumption DEF ReplyTypeOK, ReplyLoopAssumption
<1> HIDE DEF Pieces, Forms
<1> QED BY <1>1

(* What people and the platform do, the start, the recovery of the worker   *)
(* and the end of a delay touch the rows of the queue only.                 *)
Outside ==
    \/ \E e \in Events : HumanSpeaks(e)
    \/ \E p \in 1..MaxPosts : EchoArrives(p)
    \/ Environment

LEMMA OutsideStep ==
    ASSUME IInv, ReplyTypeOK, Outside
    PROVE  /\ UNCHANGED <<replyVars, job, attempts, interruptions>>
           /\ \A x \in Events :
                 \/ status'[x] = status[x]
                 \/ /\ status[x] = "absent" /\ status'[x] = "pending"
                    /\ x \in Humans \/ \E p \in DOMAIN posts : x = EchoOf[p]
                 \/ status[x] = "processing" /\ status'[x] = "pending" /\ job = NoEvent
<1> USE DEF loopVars
<1>0. Cues = {}
  BY ReplyLoopAssumption DEF ReplyLoopAssumption, Cues, OfKind
<1>s. status \in [Events -> Statuses] BY DEF IInv, TypeOK
<1>1. ASSUME NEW e \in Events, HumanSpeaks(e)
      PROVE  UNCHANGED <<replyVars, job, attempts, interruptions>>
             /\ \A x \in Events : status'[x] = status[x]
                   \/ (status[x] = "absent" /\ status'[x] = "pending" /\ x \in Humans)
  <2>1. e \in Humans BY <1>1, SetupTyped DEF HumanSpeaks
  <2> QED BY <1>1, <1>s, <2>1 DEF HumanSpeaks, Enqueue, Insert, New
<1>2. ASSUME NEW p \in 1..MaxPosts, EchoArrives(p)
      PROVE  UNCHANGED <<replyVars, job, attempts, interruptions>>
             /\ \A x \in Events : status'[x] = status[x]
                   \/ (status[x] = "absent" /\ status'[x] = "pending"
                        /\ \E q \in DOMAIN posts : x = EchoOf[q])
  BY <1>2, <1>s DEF EchoArrives, Enqueue, Insert, New
<1>3. CASE Environment
  <2>1. UNCHANGED replyVars BY <1>3 DEF Environment
  <2>2. CASE Start
    <3>1. \A x \in Events : status'[x] = status[x] BY <1>0, <2>2 DEF Start
    <3> QED BY <2>1, <2>2, <3>1 DEF Start
  <2>3. CASE Recover("worker")
    <3>1. job = NoEvent BY <2>3 DEF Recover, IInv, Held
    <3>2. \A x \in Events : status'[x] = status[x]
             \/ (status[x] = "processing" /\ status'[x] = "pending")
      BY <2>3 DEF Recover, Stranded
    <3> QED BY <2>1, <2>3, <3>1, <3>2 DEF Recover
  <2>4. CASE \E e \in Events : BackoffElapses(e)
    BY <2>1, <2>4 DEF BackoffElapses
  <2> QED BY <1>3, <2>2, <2>3, <2>4 DEF Environment
<1> QED BY <1>1, <1>2, <1>3 DEF Outside

-----------------------------------------------------------------------------
(*                               Posting                                    *)

(* What the room hears is kept and, n times, added to.                      *)
Grows(source, piece, n) ==
    /\ posts' \in Seq(Spoken) /\ Len(posts') = Len(posts) + n /\ Len(posts') <= MaxPosts
    /\ DOMAIN posts = 1..Len(posts) /\ DOMAIN posts' = 1..(Len(posts) + n)
    /\ \A p \in DOMAIN posts : p \in DOMAIN posts' /\ posts'[p] = posts[p]
    /\ \A p \in DOMAIN posts' \ DOMAIN posts :
          posts'[p].source = source /\ posts'[p].piece = piece

LEMMA Posting ==
    ASSUME ReplyTypeOK, NEW source, NEW piece, NEW n, NEW answered \in BOOLEAN,
           Post(source, piece, n, answered),
           [source |-> source, piece |-> piece] \in Spoken
    PROVE  /\ Grows(source, piece, n) /\ n \in 0..2
           /\ faults' = faults + IF answered THEN n - 1 ELSE n
           /\ faults' \in Nat /\ faults' >= faults
           /\ answered => n > 0 /\ Len(posts) + n \in DOMAIN posts' \ DOMAIN posts
<1> DEFINE new == [i \in 1..n |-> [source |-> source, piece |-> piece]]
<1>1. n \in 0..2 /\ (answered => n > 0) BY DEF Post
<1>2. posts \in Seq(Spoken) /\ Len(posts) \in Nat BY DEF ReplyTypeOK
<1>3. new \in Seq(Spoken) /\ Len(new) = n
  <2>1. new \in [1..n -> Spoken] /\ n \in Nat BY <1>1
  <2> QED BY <2>1
<1>4. posts' = posts \o new BY DEF Post
<1>5. \A p \in 1..n : new[p].source = source /\ new[p].piece = piece
  OBVIOUS
<1> HIDE DEF new
<1>6. /\ posts' \in Seq(Spoken) /\ Len(posts') = Len(posts) + n
      /\ \A p \in 1..Len(posts) : posts'[p] = posts[p]
      /\ \A p \in (Len(posts) + 1)..(Len(posts) + n) : posts'[p] = new[p - Len(posts)]
  BY <1>1, <1>2, <1>3, <1>4
<1>7. DOMAIN posts = 1..Len(posts) /\ DOMAIN posts' = 1..(Len(posts) + n)
  BY <1>2, <1>6
<1>8. ASSUME NEW p \in DOMAIN posts' \ DOMAIN posts
      PROVE  posts'[p].source = source /\ posts'[p].piece = piece
  <2>1. p \in (Len(posts) + 1)..(Len(posts) + n) /\ p - Len(posts) \in 1..n
    BY <1>1, <1>2, <1>7
  <2> QED BY <1>5, <1>6, <2>1
<1>9. setup.posts \in 1..MaxPosts /\ MaxPosts \in Nat
  <2>1. MaxPosts \in Nat
    BY ReplyLoopAssumption DEF ReplyLoopAssumption, MaxPosts
  <2> QED BY <2>1, SetupTyped
<1>10. Len(posts') <= MaxPosts
  BY <1>1, <1>2, <1>6, <1>9 DEF Post
<1>11. Grows(source, piece, n)
  <2>1. \A p \in DOMAIN posts : p \in DOMAIN posts' /\ posts'[p] = posts[p]
    BY <1>1, <1>2, <1>6, <1>7
  <2> QED BY <1>6, <1>7, <1>8, <1>10, <2>1 DEF Grows
<1>12. faults' = faults + IF answered THEN n - 1 ELSE n BY DEF Post
<1>13. faults' \in Nat /\ faults' >= faults
  BY <1>1, <1>12 DEF ReplyTypeOK
<1>14. answered => Len(posts) + n \in DOMAIN posts' \ DOMAIN posts
  BY <1>1, <1>2, <1>7
<1> QED BY <1>1, <1>11, <1>12, <1>13, <1>14
-----------------------------------------------------------------------------
(*                               Types                                      *)

LEMMA Parties == Asides \cap Events = {} /\ Humans \subseteq Events
                 /\ Echoes \subseteq Events /\ NoEvent \notin Events
BY ReplyLoopAssumption, EventQueueAssumption
   DEF ReplyLoopAssumption, EventQueueAssumption

LEMMA DeliveryIsARecord ==
    ASSUME ReplyTypeOK, NEW p \in DOMAIN posts, NEW chunk \in Nat,
           posts[p].source \in Asides => chunk = 0
    PROVE  /\ Delivery(posts[p].source, chunk, p) \in Records
           /\ Delivery(posts[p].source, chunk, p).source = posts[p].source
           /\ Delivery(posts[p].source, chunk, p).chunk = chunk
           /\ Delivery(posts[p].source, chunk, p).post = p
           /\ Delivery(posts[p].source, chunk, p).piece = posts[p].piece
           /\ Delivery(posts[p].source, chunk, p).consumed = FALSE
           /\ Delivery(posts[p].source, chunk, p).id = IF setup.ids THEN p ELSE NoPost
<1>1. posts[p] \in Spoken /\ p \in Nat
  BY DEF ReplyTypeOK
<1>2. p \in Nat /\ (IF setup.ids THEN p ELSE NoPost) \in Nat BY <1>1 DEF NoPost
<1>3. CASE posts[p] \in [source : Events, piece : Answers]
  BY <1>2, <1>3 DEF Delivery, Records
<1>4. CASE posts[p] \in [source : Asides, piece : {AsideLine}]
  BY <1>2, <1>4 DEF Delivery, Records
<1> QED BY <1>1, <1>3, <1>4 DEF Spoken

LEMMA RecordedIsASet ==
    ASSUME ReplyTypeOK, NEW d \in Records, outbound' = Recorded(d)
    PROVE  /\ outbound' \subseteq Records /\ IsFiniteSet(outbound')
           /\ outbound' = outbound \/ outbound' = outbound \cup {d}
           /\ (\A r \in outbound : r.source = d.source => r.chunk # d.chunk)
                 => outbound' = outbound \cup {d}
           /\ outbound' # outbound =>
                 \A r \in outbound : r.source = d.source => r.chunk # d.chunk
<1>1. IsFiniteSet(outbound \cup {d}) BY FS_AddElement DEF ReplyTypeOK
<1> QED BY <1>1 DEF Recorded, ReplyTypeOK

LEMMA InitReplyType == Init => ReplyTypeOK
<1> SUFFICES ASSUME Init PROVE ReplyTypeOK
  OBVIOUS
<1>1. IsFiniteSet({}) BY FS_EmptySet
<1>2. MaxPosts \in Nat BY ReplyLoopAssumption DEF ReplyLoopAssumption, MaxPosts
<1>3. \A S : Nothing \in Seq(S) BY DEF Nothing
<1>4. /\ setup \in Setups /\ pc = "idle" /\ job = NoEvent /\ said = Nothing
      /\ inflight = 0 /\ fresh = FALSE /\ outbound = {}
      /\ posts = <<>> /\ generations = 0 /\ faults = 0
      /\ response = [e \in Events |-> Nothing] /\ turns = [e \in Events |-> Nothing]
      /\ bocco_sent = [e \in Events |-> FALSE] /\ aside = [a \in Asides |-> 0]
  BY DEF Init, QueueInit, NoPost
<1>5. posts \in Seq(Spoken) /\ Len(posts) = 0 BY <1>4
<1>6. said \in Seq(Said) BY <1>3, <1>4
<1>7. response \in [Events -> Seq(Answers)] /\ turns \in [Events -> Seq(Answers)]
  BY <1>3, <1>4
<1>8. bocco_sent \in [Events -> BOOLEAN] /\ aside \in [Asides -> Int]
  BY <1>4
<1>9. inflight \in Nat /\ fresh \in BOOLEAN /\ generations \in Nat /\ faults \in Nat
  BY <1>4
<1>10. outbound \subseteq Records /\ IsFiniteSet(outbound)
  BY <1>1, <1>4
<1>11. Len(posts) <= MaxPosts BY <1>2, <1>5
<1>12. pc \in Stages /\ (pc = "idle" <=> job = NoEvent) BY <1>4 DEF Stages
<1> QED BY <1>4, <1>5, <1>6, <1>7, <1>8, <1>9, <1>10, <1>11, <1>12, Zenon DEF ReplyTypeOK

LEMMA AtWork ==
    ASSUME IInv, ReplyTypeOK, pc # "idle"
    PROVE  job \in Events /\ job # NoEvent /\ status[job] = "processing"
BY DEF IInv, TypeOK, ReplyTypeOK, Held, WorkerEvents

LEMMA FixedLines ==
    /\ <<Apology>> \in Seq(Answers) /\ Len(<<Apology>>) = 1 /\ <<Apology>>[1] = Apology
    /\ <<NotHeard>> \in Seq(Answers) /\ Len(<<NotHeard>>) = 1 /\ <<NotHeard>>[1] = NotHeard
    /\ \A g \in Nat \ {0} :
          /\ <<<<g, 1>>>> \in Seq(Said) /\ <<<<g, 1>>>> \in Seq(Answers)
          /\ Len(<<<<g, 1>>>>) = 1 /\ <<<<g, 1>>>>[1] = <<g, 1>> /\ <<g, 1>>[1] = g
BY DEF Answers, Said

LEMMA SaidIsAnswers ==
    ASSUME NEW text \in Seq(Said) PROVE text \in Seq(Answers)
<1>1. Said \subseteq Answers BY DEF Answers
<1> HIDE DEF Said, Answers
<1> QED BY <1>1

(* A reply that is saved stays.                                             *)
LEMMA Saved ==
    ASSUME ReplyTypeOK, job \in Events, NEW text \in Seq(Answers),
           SaveResponseIfAbsent(text)
    PROVE  /\ response' \in [Events -> Seq(Answers)]
           /\ response'[job] = IF response[job] = Nothing THEN text ELSE response[job]
           /\ \A e \in Events \ {job} : response'[e] = response[e]
BY DEF ReplyTypeOK, SaveResponseIfAbsent

LEMMA ReplyTypeStep ==
    IInv /\ ReplyTypeOK /\ InFlight /\ Replied /\ Streams /\ [Next]_vars => ReplyTypeOK'
<1> SUFFICES ASSUME IInv, ReplyTypeOK, InFlight, Replied, Streams, [Next]_vars
             PROVE  ReplyTypeOK'
  OBVIOUS
<1> USE DEF Goto, NoPost, durableVars, worldVars, workerVars, queueVars, rowVars, loopVars
<1>g. \A l \in {"idle", "received", "replying", "generating", "delivering", "posted",
               "remembering", "streaming", "chunk posted", "stream over", "done",
               "failed"} : l \in Stages
  BY DEF Stages
<1>n. Nothing \in Seq(Said) /\ Nothing \in Seq(Answers) BY DEF Nothing
<1>w. pc # "idle" => job \in Events BY AtWork
<1>1. CASE Outside
  BY <1>g, <1>1, OutsideStep DEF ReplyTypeOK, replyVars
<1>2. ASSUME NEW e \in Events, Claim(e) PROVE ReplyTypeOK'
  <2>1. job' = e /\ e # NoEvent BY <1>g, <1>2, Parties DEF Claim, ClaimNext
  <2> QED BY <1>g, <1>2, <1>n, <2>1 DEF ReplyTypeOK, Claim
<1>3. CASE Receive
  <2>1. outbound' \subseteq Records /\ IsFiniteSet(outbound')
    <3>1. ASSUME NEW r \in outbound,
                 outbound' = (outbound \ {r}) \cup {[r EXCEPT !.consumed = TRUE]}
          PROVE  outbound' \subseteq Records /\ IsFiniteSet(outbound')
      <4>1. r \in Records BY DEF ReplyTypeOK
      <4>2. [r EXCEPT !.consumed = TRUE] \in Records BY <4>1 DEF Records
      <4>3. IsFiniteSet(outbound \ {r}) BY FS_RemoveElement DEF ReplyTypeOK
      <4>4. IsFiniteSet(outbound') BY <3>1, <4>3, FS_AddElement
      <4> QED BY <3>1, <4>2, <4>4 DEF ReplyTypeOK
    <3> QED BY <1>g, <1>3, <3>1 DEF Receive, MatchesText, ReplyTypeOK
  <2>2. pc' \in Stages /\ pc' # "idle" /\ pc # "idle" BY <1>g, <1>3 DEF Receive
  <2>3. UNCHANGED <<job, said, inflight, fresh, response, bocco_sent, turns, setup, posts,
                    generations, faults, aside>>
    BY <1>g, <1>3 DEF Receive
  <2> QED BY <2>1, <2>2, <2>3 DEF ReplyTypeOK
<1>4. CASE Reply
  <2>1. pc' \in Stages /\ pc' # "idle" /\ pc # "idle" BY <1>g, <1>4 DEF Reply
  <2>2. generations' = generations \/ generations' = generations + 1 BY <1>4 DEF Reply
  <2>3. response' \in [Events -> Seq(Answers)]
    <3>1. job \in Events BY <1>g, <1>4, <1>w DEF Reply
    <3>2. SaveResponseIfAbsent(<<NotHeard>>) => response' \in [Events -> Seq(Answers)]
      BY <3>1, Saved, FixedLines
    <3> QED BY <1>4, <3>2 DEF Reply, ReplyTypeOK
  <2>4. UNCHANGED <<job, said, inflight, fresh, bocco_sent, outbound, turns,
                    setup, posts, faults, aside>>
    BY <1>4 DEF Reply
  <2> QED BY <2>1, <2>2, <2>3, <2>4 DEF ReplyTypeOK
<1>5. CASE Generate
  <2>1. response' \in [Events -> Seq(Answers)]
    <3>1. job \in Events BY <1>g, <1>5, <1>w DEF Generate
    <3>2. \A text : SaveResponseIfAbsent(text) /\ text \in Seq(Answers) =>
             response' \in [Events -> Seq(Answers)]
      BY <3>1, Saved
    <3>3. <<<<generations + 1, 1>>>> \in Seq(Answers) /\ <<Apology>> \in Seq(Answers)
      BY FixedLines DEF ReplyTypeOK
    <3> QED BY <1>g, <1>5, <3>2, <3>3 DEF Generate, ReplyTypeOK
  <2>2. pc' \in Stages /\ pc' # "idle" /\ pc # "idle" BY <1>g, <1>5 DEF Generate
  <2>3. generations' \in Nat /\ fresh' \in BOOLEAN
    <3>1. generations' = generations \/ generations' = generations + 1
      BY <1>5 DEF Generate
    <3>2. fresh' = TRUE \/ fresh' = fresh BY <1>5 DEF Generate
    <3>3. generations' \in Nat BY <3>1 DEF ReplyTypeOK
    <3>4. fresh' \in BOOLEAN BY <3>2, Zenon DEF ReplyTypeOK
    <3> QED BY <3>3, <3>4
  <2>4. UNCHANGED <<job, said, inflight, bocco_sent, outbound, turns, setup, posts,
                    faults, aside>>
    BY <1>g, <1>5 DEF Generate
  <2> QED BY <2>1, <2>2, <2>3, <2>4 DEF ReplyTypeOK
<1>6. CASE Deliver
  <2>1. CASE bocco_sent[job]
    BY <1>g, <1>6, <2>1 DEF Deliver, ReplyTypeOK
  <2>2. CASE ~bocco_sent[job]
    <3>1. PICK n \in 0..2, answered \in BOOLEAN :
             /\ Post(job, Head(response[job]), n, answered)
             /\ inflight' = IF answered THEN Len(posts) + n ELSE NoPost
             /\ Goto(AfterPost(answered))
      BY <1>g, <1>6, <2>2 DEF Deliver
    <3>2. [source |-> job, piece |-> Head(response[job])] \in Spoken
      <4>1. pc = "delivering" /\ job \in Events BY <1>6, <1>w DEF Deliver
      <4>2. response[job] \in Seq(Answers) /\ response[job] # <<>>
        BY <4>1 DEF Replied, ReplyTypeOK, Nothing
      <4>3. Head(response[job]) \in Answers BY <4>2
      <4> QED BY <4>1, <4>3 DEF Spoken
    <3>3. posts' \in Seq(Spoken) /\ Len(posts') <= MaxPosts /\ faults' \in Nat
      BY <3>1, <3>2, Posting DEF Grows
    <3>4. inflight' \in Nat BY <3>1 DEF ReplyTypeOK
    <3>5. pc' \in Stages /\ pc' # "idle" /\ pc # "idle"
      BY <1>g, <1>6, <3>1 DEF Deliver, AfterPost
    <3>6. UNCHANGED <<job, said, fresh, response, bocco_sent, outbound, turns, setup,
                      generations, aside>>
      BY <1>6 DEF Deliver
    <3> QED BY <3>3, <3>4, <3>5, <3>6 DEF ReplyTypeOK
  <2> QED BY <2>1, <2>2
<1>7. CASE RecordDelivery
  <2>1. outbound' \subseteq Records /\ IsFiniteSet(outbound')
    BY <1>g, <1>7, <1>w, Parties, DeliveryIsARecord, RecordedIsASet DEF RecordDelivery, InFlight
  <2> QED BY <1>g, <1>7, <2>1 DEF RecordDelivery, ReplyTypeOK
<1>8. CASE RecordTurn
  <2>1. turns' \in [Events -> Seq(Answers)]
    BY <1>g, <1>8, <1>w DEF RecordTurn, ReplyTypeOK
  <2> QED BY <1>g, <1>8, <2>1 DEF RecordTurn, ReplyTypeOK
<1>9. CASE StreamChunk
  <2> DEFINE piece == <<generations, Len(said) + 1>>
  <2>1. PICK n \in 0..2, answered \in BOOLEAN :
           /\ Post(job, piece, n, answered)
           /\ inflight' = IF answered THEN Len(posts) + n ELSE NoPost
           /\ said' = IF answered THEN Append(said, piece) ELSE said
    BY <1>g, <1>9 DEF StreamChunk
  <2>2. piece \in Said
    <3>1. generations > 0 BY <1>9 DEF StreamChunk, Streams, StreamedSoFar
    <3>2. generations \in Nat /\ Len(said) \in Nat BY DEF ReplyTypeOK
    <3> QED BY <3>1, <3>2 DEF Said
  <2>3. [source |-> job, piece |-> piece] \in Spoken
    BY <1>g, <1>9, <1>w, <2>2 DEF StreamChunk, Spoken, Answers
  <2>4. posts' \in Seq(Spoken) /\ Len(posts') <= MaxPosts /\ faults' \in Nat
    BY <2>1, <2>3, Posting DEF Grows
  <2>5. inflight' \in Nat BY <2>1 DEF ReplyTypeOK
  <2>6. said' \in Seq(Said) BY <2>1, <2>2 DEF ReplyTypeOK
  <2>7. pc' \in Stages /\ pc' # "idle" /\ pc # "idle" BY <1>g, <1>9 DEF StreamChunk
  <2>8. UNCHANGED <<job, fresh, response, bocco_sent, outbound, turns, setup, generations, aside>>
    BY <1>g, <1>9 DEF StreamChunk
  <2> QED BY <2>4, <2>5, <2>6, <2>7, <2>8 DEF ReplyTypeOK
<1>10. CASE RecordChunk
  <2>1. outbound' \subseteq Records /\ IsFiniteSet(outbound')
    <3>1. Len(said) \in Nat BY DEF ReplyTypeOK
    <3>2. inflight \in DOMAIN posts /\ posts[inflight].source = job /\ job \notin Asides
      BY <1>10, <1>w, Parties DEF RecordChunk, InFlight
    <3>3. Delivery(job, Len(said), inflight) \in Records
      BY <3>1, <3>2, DeliveryIsARecord
    <3>4. outbound' = Recorded(Delivery(job, Len(said), inflight)) BY <1>10 DEF RecordChunk
    <3> QED BY <3>3, <3>4, RecordedIsASet
  <2> QED BY <1>g, <1>10, <2>1 DEF RecordChunk, ReplyTypeOK
<1>11. CASE EndStream
  BY <1>g, <1>11 DEF EndStream, ReplyTypeOK
<1>12. CASE SaveStreamed
  <2>1. response' \in [Events -> Seq(Answers)]
    BY <1>g, <1>12, <1>w, SaidIsAnswers, Saved DEF SaveStreamed, ReplyTypeOK
  <2> QED BY <1>g, <1>12, <2>1 DEF SaveStreamed, ReplyTypeOK
<1>13. CASE Settle
  BY <1>g, <1>13 DEF Settle, Complete, Retry, DeadLetter, ReplyTypeOK
<1>14. ASSUME NEW a \in Asides, SpeakAside(a) PROVE ReplyTypeOK'
  <2>1. PICK n \in 0..2, answered \in BOOLEAN :
           /\ Post(a, AsideLine, n, answered)
           /\ aside' = [aside EXCEPT ![a] = IF answered THEN Len(posts) + n ELSE -1]
    BY <1>14 DEF SpeakAside
  <2>2. [source |-> a, piece |-> AsideLine] \in Spoken BY DEF Spoken
  <2>3. posts' \in Seq(Spoken) /\ Len(posts') <= MaxPosts /\ faults' \in Nat
    BY <2>1, <2>2, Posting DEF Grows
  <2>4. aside' \in [Asides -> Int] BY <2>1 DEF ReplyTypeOK
  <2> QED BY <1>14, <2>3, <2>4 DEF SpeakAside, ReplyTypeOK
<1>15. ASSUME NEW a \in Asides, RecordAside(a) PROVE ReplyTypeOK'
  <2>1. outbound' \subseteq Records /\ IsFiniteSet(outbound')
    BY <1>15, DeliveryIsARecord, RecordedIsASet DEF RecordAside, InFlight, NoPost
  <2>2. aside' \in [Asides -> Int] BY <1>15 DEF RecordAside, ReplyTypeOK
  <2> QED BY <1>15, <2>1, <2>2 DEF RecordAside, ReplyTypeOK
<1>16. CASE Interrupt
  <2>1. job' = NoEvent /\ pc' = "idle"
    BY <1>16 DEF Interrupt, Crash, Shutdown, Halt, LoseMemory
  <2>2. aside' \in [Asides -> Int] BY <1>16 DEF Interrupt, LoseMemory, ReplyTypeOK
  <2>3. said' = Nothing /\ inflight' = 0 /\ fresh' = FALSE
        /\ UNCHANGED <<response, bocco_sent, outbound, turns, setup, posts, generations, faults>>
    BY <1>16 DEF Interrupt, LoseMemory
  <2> QED BY <1>g, <1>n, <2>1, <2>2, <2>3 DEF ReplyTypeOK
<1>17. CASE UNCHANGED vars
  BY <1>17 DEF vars, replyVars, ReplyTypeOK
<1> QED BY <1>1, <1>2, <1>3, <1>4, <1>5, <1>6, <1>7, <1>8, <1>9, <1>10, <1>11, <1>12,
           <1>13, <1>14, <1>15, <1>16, <1>17 DEF Next, Process, Outside
-----------------------------------------------------------------------------
(*                      What a step does to the room                        *)

(* Who hears what when a piece was posted n times.                          *)
LEMMA Hearing ==
    ASSUME NEW source, NEW piece, NEW n, Grows(source, piece, n)
    PROVE  /\ Sources \subseteq Sources' /\ Sources' \subseteq Sources \cup {source}
           /\ Utterances \subseteq Utterances'
<1>1. Sources \subseteq Sources'
  <2> SUFFICES ASSUME NEW p \in DOMAIN posts PROVE posts[p].source \in Sources'
    BY DEF Sources
  <2>1. p \in DOMAIN posts' /\ posts'[p] = posts[p] BY DEF Grows
  <2> QED BY <2>1 DEF Sources
<1>2. Sources' \subseteq Sources \cup {source}
  <2> SUFFICES ASSUME NEW p \in DOMAIN posts' PROVE posts'[p].source \in Sources \cup {source}
    BY DEF Sources
  <2>1. CASE p \in DOMAIN posts BY <2>1 DEF Grows, Sources
  <2>2. CASE p \notin DOMAIN posts BY <2>2 DEF Grows
  <2> QED BY <2>1, <2>2
<1>3. Utterances \subseteq Utterances'
  <2> SUFFICES ASSUME NEW p \in DOMAIN posts
               PROVE  <<posts[p].source, posts[p].piece>> \in Utterances'
    BY DEF Utterances
  <2>1. p \in DOMAIN posts' /\ posts'[p] = posts[p] BY DEF Grows
  <2> QED BY <2>1 DEF Utterances
<1> QED BY <1>1, <1>2, <1>3

LEMMA Silence ==
    ASSUME posts' = posts
    PROVE  Sources' = Sources /\ Utterances' = Utterances
BY DEF Sources, Utterances

(* The worker posted a piece of its answer, and knows it if it was answered.*)
Posted(piece, n, answered) ==
    /\ n \in 0..2 /\ Grows(job, piece, n)
    /\ faults' = faults + IF answered THEN n - 1 ELSE n
    /\ faults' >= faults
    /\ answered => n > 0 /\ inflight' \in DOMAIN posts' /\ inflight' \notin DOMAIN posts
    /\ ~answered => inflight' = NoPost

LEMMA ReplySpoken ==
    ASSUME IInv, ReplyTypeOK, Replied, Deliver, ~bocco_sent[job]
    PROVE  /\ response[job] \in Seq(Answers) /\ response[job] # Nothing
           /\ Head(response[job]) = response[job][1]
           /\ response[job][1] \in Answers
           /\ \E n \in 0..2, answered \in BOOLEAN :
                 Posted(response[job][1], n, answered) /\ pc' = AfterPost(answered)
<1>1. pc = "delivering" /\ job \in Events BY AtWork DEF Deliver
<1>2. response[job] \in Seq(Answers) /\ response[job] # <<>>
  BY <1>1 DEF Replied, ReplyTypeOK, Nothing
<1>3. Head(response[job]) = response[job][1] /\ response[job][1] \in Answers BY <1>2
<1>4. PICK n \in 0..2, answered \in BOOLEAN :
         /\ Post(job, Head(response[job]), n, answered)
         /\ inflight' = IF answered THEN Len(posts) + n ELSE NoPost
         /\ Goto(AfterPost(answered))
  BY DEF Deliver
<1>5. [source |-> job, piece |-> response[job][1]] \in Spoken BY <1>1, <1>3 DEF Spoken
<1>6. Post(job, response[job][1], n, answered) BY <1>3, <1>4
<1>7. Posted(response[job][1], n, answered)
  BY <1>4, <1>5, <1>6, Posting DEF Posted
<1> QED BY <1>2, <1>3, <1>4, <1>7 DEF Goto, Nothing

LEMMA ChunkSpoken ==
    ASSUME IInv, ReplyTypeOK, Streams, StreamChunk
    PROVE  /\ <<generations, Len(said) + 1>> \in Said /\ generations > 0 /\ Len(said) \in Nat
           /\ \E n \in 0..2, answered \in BOOLEAN :
                 /\ Posted(<<generations, Len(said) + 1>>, n, answered)
                 /\ answered => /\ pc' = "chunk posted"
                                /\ said' = Append(said, <<generations, Len(said) + 1>>)
                                /\ Len(said') = Len(said) + 1 /\ said' # Nothing
                 /\ ~answered => /\ said' = said
                                 /\ \/ said = Nothing /\ pc' = "generating"
                                    \/ said # Nothing /\ pc' \in {"streaming", "stream over"}
<1> DEFINE piece == <<generations, Len(said) + 1>>
<1>1. pc = "streaming" /\ job \in Events BY AtWork DEF StreamChunk
<1>2. generations > 0 BY <1>1 DEF Streams, StreamedSoFar
<1>3. generations \in Nat /\ Len(said) \in Nat /\ said \in Seq(Said) BY DEF ReplyTypeOK
<1>4. piece \in Said BY <1>2, <1>3 DEF Said
<1>5. PICK n \in 0..2, answered \in BOOLEAN :
         /\ Post(job, piece, n, answered)
         /\ inflight' = IF answered THEN Len(posts) + n ELSE NoPost
         /\ said' = IF answered THEN Append(said, piece) ELSE said
         /\ \/ answered /\ Goto("chunk posted")
            \/ ~answered /\ said # Nothing /\ pc' \in {"streaming", "stream over"}
            \/ ~answered /\ said = Nothing /\ Goto("generating")
  BY DEF StreamChunk
<1>6. [source |-> job, piece |-> piece] \in Spoken BY <1>1, <1>4 DEF Spoken, Answers
<1> HIDE DEF piece
<1>7. Posted(piece, n, answered)
  BY <1>5, <1>6, Posting DEF Posted
<1>8. answered => Len(said') = Len(said) + 1 /\ said' # Nothing
  <2>1. Len(Append(said, piece)) = Len(said) + 1 /\ Append(said, piece) # <<>>
    BY <1>3, <1>4
  <2> QED BY <1>5, <2>1 DEF Nothing
<1>9. answered => /\ pc' = "chunk posted" /\ said' = Append(said, piece)
                  /\ Len(said') = Len(said) + 1 /\ said' # Nothing
  BY <1>5, <1>8 DEF Goto
<1>10. ~answered => /\ said' = said
                    /\ \/ said = Nothing /\ pc' = "generating"
                       \/ said # Nothing /\ pc' \in {"streaming", "stream over"}
  BY <1>5 DEF Goto
<1> USE DEF piece
<1> QED BY <1>2, <1>3, <1>4, <1>7, <1>9, <1>10

LEMMA AsideSpoken ==
    ASSUME ReplyTypeOK, NEW a \in Asides, SpeakAside(a)
    PROVE  \E n \in 0..2, answered \in BOOLEAN :
              /\ Grows(a, AsideLine, n)
              /\ faults' = faults + IF answered THEN n - 1 ELSE n
              /\ faults' >= faults
              /\ aside' = [aside EXCEPT ![a] = IF answered THEN Len(posts) + n ELSE -1]
              /\ answered => Len(posts) + n \in DOMAIN posts' /\ Len(posts) + n \notin DOMAIN posts
<1>1. PICK n \in 0..2, answered \in BOOLEAN :
         /\ Post(a, AsideLine, n, answered)
         /\ aside' = [aside EXCEPT ![a] = IF answered THEN Len(posts) + n ELSE -1]
  BY DEF SpeakAside
<1>2. [source |-> a, piece |-> AsideLine] \in Spoken BY DEF Spoken
<1> QED BY <1>1, <1>2, Posting
-----------------------------------------------------------------------------
(*                What a step does to the records and the rows              *)

(* A delivery is filed, unless one of the same source and chunk was before. *)
Files(source, chunk, p) ==
    /\ outbound \subseteq outbound'
    /\ \A s \in outbound' \ outbound :
          /\ s.source = source /\ s.chunk = chunk /\ s.post = p
          /\ s.piece = posts[p].piece /\ s.consumed = FALSE
          /\ s.id = IF setup.ids THEN p ELSE NoPost
    /\ (\A r \in outbound : r.source = source => r.chunk # chunk) =>
          \E s \in outbound' : s.post = p
    /\ \A s, t \in outbound' \ outbound : s = t
    /\ outbound' # outbound =>
          \A r \in outbound : r.source = source => r.chunk # chunk

LEMMA Filing ==
    ASSUME ReplyTypeOK, NEW p \in DOMAIN posts, NEW chunk \in Nat,
           posts[p].source \in Asides => chunk = 0,
           outbound' = Recorded(Delivery(posts[p].source, chunk, p))
    PROVE  Files(posts[p].source, chunk, p)
<1> DEFINE d == Delivery(posts[p].source, chunk, p)
<1>1. d \in Records BY DeliveryIsARecord
<1>2. /\ d.source = posts[p].source /\ d.chunk = chunk /\ d.post = p
      /\ d.piece = posts[p].piece /\ d.consumed = FALSE
      /\ d.id = IF setup.ids THEN p ELSE NoPost
  BY DeliveryIsARecord
<1> HIDE DEF d
<1>3. /\ outbound' = outbound \/ outbound' = outbound \cup {d}
      /\ (\A r \in outbound : r.source = d.source => r.chunk # d.chunk)
            => outbound' = outbound \cup {d}
      /\ outbound' # outbound =>
            \A r \in outbound : r.source = d.source => r.chunk # d.chunk
  BY <1>1, RecordedIsASet DEF d
<1> QED BY <1>2, <1>3 DEF Files

LEMMA ReplyFiled ==
    ASSUME IInv, ReplyTypeOK, InFlight, RecordDelivery
    PROVE  Files(job, 0, inflight)
<1>1. inflight \in DOMAIN posts /\ posts[inflight].source = job
  BY DEF RecordDelivery, InFlight
<1> QED BY <1>1, Filing DEF RecordDelivery

LEMMA ChunkFiled ==
    ASSUME IInv, ReplyTypeOK, InFlight, RecordChunk
    PROVE  Files(job, Len(said), inflight)
<1>1. inflight \in DOMAIN posts /\ posts[inflight].source = job
  BY DEF RecordChunk, InFlight
<1>2. Len(said) \in Nat BY DEF ReplyTypeOK
<1>3. job \notin Asides BY AtWork, Parties DEF RecordChunk
<1> QED BY <1>1, <1>2, <1>3, Filing DEF RecordChunk

LEMMA AsideFiled ==
    ASSUME IInv, ReplyTypeOK, InFlight, NEW a \in Asides, RecordAside(a)
    PROVE  Files(a, 0, aside[a])
<1>1. aside[a] \in DOMAIN posts /\ posts[aside[a]].source = a
  BY DEF RecordAside, InFlight
<1> QED BY <1>1, Filing DEF RecordAside

(* An echo marks one record at most, and changes nothing else of it.        *)
Alike(r, s) ==
    /\ r.source = s.source /\ r.chunk = s.chunk /\ r.piece = s.piece
    /\ r.post = s.post /\ r.id = s.id

LEMMA Received ==
    ASSUME IInv, ReplyTypeOK, Receive
    PROVE  /\ \/ outbound' = outbound /\ pc' = "replying" /\ ~MatchesId(job)
                 /\ MatchesText(job) = {}
              \/ outbound' = outbound /\ pc' = "done" /\ MatchesId(job)
              \/ outbound' = outbound /\ pc' = "done" /\ job \in Humans
                 /\ setup.form[job] = "homeless"
              \/ pc' = "done" /\ \E r \in MatchesText(job) :
                    /\ r \in outbound /\ r.consumed = FALSE
                    /\ outbound' = (outbound \ {r}) \cup {[r EXCEPT !.consumed = TRUE]}
                    /\ Alike(r, [r EXCEPT !.consumed = TRUE])
                    /\ [r EXCEPT !.consumed = TRUE].consumed = TRUE
           /\ \A s \in outbound' : \E r \in outbound : Alike(r, s)
           /\ \A r \in outbound : \E s \in outbound' : Alike(r, s)
           /\ job \in Humans /\ setup.form[job] = "unheard" => pc' = "replying"
<1>1. ASSUME NEW r \in MatchesText(job)
      PROVE  /\ r \in outbound /\ r.consumed = FALSE
             /\ Alike(r, [r EXCEPT !.consumed = TRUE])
             /\ [r EXCEPT !.consumed = TRUE].consumed = TRUE
  <2>1. r \in outbound /\ ~r.consumed BY <1>1 DEF MatchesText
  <2>2. r \in Records BY <2>1 DEF ReplyTypeOK
  <2>3. r.consumed \in BOOLEAN BY <2>2 DEF Records
  <2>4. Alike(r, [r EXCEPT !.consumed = TRUE]) /\ [r EXCEPT !.consumed = TRUE].consumed = TRUE
    BY <2>2 DEF Records, Alike
  <2> QED BY <2>1, <2>3, <2>4
<1>2. \/ outbound' = outbound /\ pc' = "replying" /\ ~MatchesId(job)
         /\ MatchesText(job) = {}
      \/ outbound' = outbound /\ pc' = "done" /\ MatchesId(job)
      \/ outbound' = outbound /\ pc' = "done" /\ job \in Humans
         /\ setup.form[job] = "homeless"
      \/ pc' = "done" /\ \E r \in MatchesText(job) :
            outbound' = (outbound \ {r}) \cup {[r EXCEPT !.consumed = TRUE]}
  BY DEF Receive, Goto, Form
<1>3. \A r : Alike(r, r) BY DEF Alike
<1>4. /\ \A s \in outbound' : \E r \in outbound : Alike(r, s)
      /\ \A r \in outbound : \E s \in outbound' : Alike(r, s)
  BY <1>1, <1>2, <1>3
<1>5. ASSUME job \in Humans, setup.form[job] = "unheard" PROVE pc' = "replying"
  <2>1. job \notin Echoes BY <1>5, ReplyLoopAssumption DEF ReplyLoopAssumption
  <2>2. ~MatchesId(job) BY <2>1 DEF MatchesId, PostOf
  <2>3. MatchesText(job) = {} BY <1>5 DEF MatchesText, Form
  <2> QED BY <1>2, <1>5, <2>2, <2>3
<1> QED BY <1>1, <1>2, <1>4, <1>5

(* A message that is claimed was pending.                                   *)
LEMMA MessageClaimed ==
    ASSUME IInv, ReplyTypeOK, NEW e \in Events, Claim(e)
    PROVE  /\ job = NoEvent /\ job' = e /\ pc = "idle" /\ status[e] = "pending"
           /\ status'[e] = "processing"
           /\ \A x \in Events \ {e} : status'[x] = status[x] /\ attempts'[x] = attempts[x]
<1>1. status[e] = "pending" /\ ClaimNext(e) BY WorkerClaim DEF Claim
<1>2. status \in [Events -> Statuses] /\ attempts \in [Events -> Nat] BY DEF IInv, TypeOK
<1> QED BY <1>1, <1>2 DEF ClaimNext, MarkProcessing, ReplyTypeOK

(* How an attempt ends.                                                     *)
LEMMA Settled ==
    ASSUME IInv, ReplyTypeOK, Settle
    PROVE  /\ job \in Events /\ job' = NoEvent /\ status[job] = "processing"
           /\ \/ pc = "done" /\ status'[job] = "completed"
              \/ pc = "failed" /\ status'[job] = "pending" /\ attempts[job] < MaxAttempts
              \/ pc = "failed" /\ status'[job] = "dead_letter"
                 /\ ~(attempts[job] < MaxAttempts)
           /\ \A x \in Events \ {job} : status'[x] = status[x]
           /\ UNCHANGED <<attempts, interruptions>>
<1>1. pc \in {"done", "failed"} BY DEF Settle
<1>2. job \in Events /\ status[job] = "processing" BY <1>1, AtWork
<1>3. status \in [Events -> Statuses] BY DEF IInv, TypeOK
<1>4. CASE pc = "done" /\ Complete BY <1>2, <1>3, <1>4 DEF Complete, Finish
<1>5. CASE pc = "failed" /\ Retry
  BY <1>2, <1>3, <1>5 DEF Retry, MayRetry, Requeue, Finish
<1>6. CASE pc = "failed" /\ DeadLetter
  BY <1>2, <1>3, <1>6 DEF DeadLetter, MayRetry, Finish
<1> QED BY <1>2, <1>4, <1>5, <1>6 DEF Settle

LEMMA Interrupted ==
    ASSUME IInv, Interrupt
    PROVE  /\ interruptions' = interruptions + 1 /\ interruptions \in Nat
           /\ job' = NoEvent /\ pc' = "idle"
           /\ \A x \in Events : \/ status'[x] = status[x]
                                \/ status[x] = "processing" /\ status'[x] = "pending"
<1>1. Halt BY DEF Interrupt, Crash, Shutdown
<1>2. \A x \in Events : \/ status'[x] = status[x]
                        \/ status[x] = "processing" /\ status'[x] = "pending"
  BY DEF Interrupt, Crash, Shutdown, rowVars
<1> QED BY <1>1, <1>2 DEF Halt, Interrupt, LoseMemory, IInv, TypeOK
-----------------------------------------------------------------------------
(*                 What was posted, heard and is at hand                    *)

LEMMA InFlightStep ==
    IInv /\ ReplyTypeOK /\ InFlight /\ Replied /\ Streams /\ [Next]_vars => InFlight'
<1> SUFFICES ASSUME IInv, ReplyTypeOK, InFlight, Replied, Streams, [Next]_vars
             PROVE  InFlight'
  OBVIOUS
<1> USE DEF Goto, NoPost, durableVars, worldVars, workerVars, queueVars, rowVars, loopVars
<1>q. ASSUME UNCHANGED <<posts, aside>>, pc' \notin {"posted", "chunk posted"}
      PROVE  InFlight'
  BY <1>q DEF InFlight
<1>a. ASSUME posts' = posts, UNCHANGED <<pc, inflight, generations, job>>,
             \A a \in Asides : aside'[a] = aside[a] \/ ~(aside'[a] > NoPost)
      PROVE  InFlight'
  <2>1. \A a \in Asides : aside'[a] > NoPost =>
           aside'[a] \in DOMAIN posts' /\ posts'[aside'[a]].source = a
    BY <1>a DEF InFlight
  <2> QED BY <1>a, <2>1 DEF InFlight
<1>1. CASE Outside BY <1>1, OutsideStep DEF InFlight, replyVars
<1>2. ASSUME NEW e \in Events, Claim(e) PROVE InFlight' BY <1>2, <1>q DEF Claim
<1>3. CASE Receive
  <2>1. pc' \in {"replying", "done"} BY <1>3, Received
  <2> QED BY <1>3, <1>q, <2>1 DEF Receive
<1>4. CASE Reply BY <1>4, <1>q DEF Reply
<1>5. CASE Generate BY <1>5, <1>q DEF Generate
<1>6. CASE Deliver
  <2>1. CASE bocco_sent[job] BY <1>6, <1>q, <2>1 DEF Deliver
  <2>2. CASE ~bocco_sent[job]
    <3>1. PICK n \in 0..2, answered \in BOOLEAN :
             Posted(response[job][1], n, answered) /\ pc' = AfterPost(answered)
      BY <1>6, <2>2, ReplySpoken
    <3>2. UNCHANGED <<aside, job>> BY <1>6 DEF Deliver
    <3> QED BY <3>1, <3>2 DEF Posted, Grows, AfterPost, InFlight
  <2> QED BY <2>1, <2>2
<1>7. CASE RecordDelivery BY <1>7, <1>q DEF RecordDelivery
<1>8. CASE RecordTurn BY <1>8, <1>q DEF RecordTurn
<1>9. CASE StreamChunk
  <2>1. PICK n \in 0..2, answered \in BOOLEAN :
           /\ Posted(<<generations, Len(said) + 1>>, n, answered)
           /\ ~answered => pc' \in {"generating", "streaming", "stream over"}
    BY <1>9, ChunkSpoken
  <2>2. UNCHANGED <<aside, job, generations>> BY <1>9 DEF StreamChunk
  <2>3. \A a \in Asides : aside'[a] > NoPost =>
           aside'[a] \in DOMAIN posts' /\ posts'[aside'[a]].source = a
    BY <2>1, <2>2 DEF Posted, Grows, InFlight
  <2>4. answered => /\ inflight' \in DOMAIN posts' /\ posts'[inflight'].source = job
                    /\ posts'[inflight'].piece = <<generations, Len(said) + 1>>
    BY <2>1 DEF Posted, Grows
  <2>5. answered => posts'[inflight'].piece[1] = generations BY <2>4
  <2> QED BY <2>1, <2>2, <2>3, <2>4, <2>5 DEF InFlight
<1>10. CASE RecordChunk BY <1>10, <1>q DEF RecordChunk
<1>11. CASE EndStream BY <1>11, <1>q DEF EndStream
<1>12. CASE SaveStreamed BY <1>12, <1>q DEF SaveStreamed
<1>13. CASE Settle BY <1>13, <1>q DEF Settle
<1>14. ASSUME NEW a \in Asides, SpeakAside(a) PROVE InFlight'
  <2>1. PICK n \in 0..2, answered \in BOOLEAN :
           /\ Grows(a, AsideLine, n)
           /\ aside' = [aside EXCEPT ![a] = IF answered THEN Len(posts) + n ELSE -1]
           /\ answered => Len(posts) + n \in DOMAIN posts' /\ Len(posts) + n \notin DOMAIN posts
    BY <1>14, AsideSpoken
  <2>2. UNCHANGED <<pc, inflight, generations, job>> BY <1>14 DEF SpeakAside
  <2>3. ASSUME NEW b \in Asides, aside'[b] > NoPost
        PROVE  aside'[b] \in DOMAIN posts' /\ posts'[aside'[b]].source = b
    <3>1. CASE b = a BY <2>1, <2>3, <3>1 DEF ReplyTypeOK, Grows
    <3>2. CASE b # a BY <2>1, <2>3, <3>2 DEF ReplyTypeOK, Grows, InFlight
    <3> QED BY <3>1, <3>2
  <2>4. pc' \in {"posted", "chunk posted"} =>
           inflight' \in DOMAIN posts' /\ posts'[inflight'].source = job'
           /\ posts'[inflight'] = posts[inflight]
    BY <2>1, <2>2 DEF Grows, InFlight
  <2> QED BY <2>2, <2>3, <2>4 DEF InFlight
<1>15. ASSUME NEW a \in Asides, RecordAside(a) PROVE InFlight'
  <2>1. \A b \in Asides : aside'[b] = aside[b] \/ aside'[b] = -1
    BY <1>15 DEF RecordAside, ReplyTypeOK
  <2>2. \A b \in Asides : aside'[b] = aside[b] \/ ~(aside'[b] > NoPost)
    BY <2>1
  <2> QED BY <1>15, <1>a, <2>2 DEF RecordAside
<1>16. CASE Interrupt
  <2>1. pc' = "idle" /\ posts' = posts BY <1>16 DEF Interrupt, LoseMemory
  <2>2. \A a \in Asides : aside'[a] = aside[a] \/ aside'[a] = -1
    BY <1>16 DEF Interrupt, LoseMemory
  <2>3. \A a \in Asides : aside'[a] = aside[a] \/ ~(aside'[a] > NoPost)
    BY <2>2
  <2> QED BY <2>1, <2>3 DEF InFlight
<1>17. CASE UNCHANGED vars BY <1>17 DEF vars, replyVars, InFlight
<1> QED BY <1>1, <1>2, <1>3, <1>4, <1>5, <1>6, <1>7, <1>8, <1>9, <1>10, <1>11, <1>12,
           <1>13, <1>14, <1>15, <1>16, <1>17 DEF Next, Process, Outside

LEMMA RepliedStep ==
    IInv /\ ReplyTypeOK /\ Replied /\ [Next]_vars => Replied'
<1> SUFFICES ASSUME IInv, ReplyTypeOK, Replied, [Next]_vars
             PROVE  Replied'
  OBVIOUS
<1> USE DEF Goto, durableVars, worldVars, workerVars, queueVars, rowVars, loopVars
<1>q. ASSUME pc' \notin {"delivering", "posted", "failed"} PROVE Replied'
  BY <1>q DEF Replied
<1>u. ASSUME UNCHANGED <<pc, job, response, attempts>> PROVE Replied'
  BY <1>u DEF Replied
<1>1. CASE Outside BY <1>1, <1>u, OutsideStep DEF replyVars
<1>2. ASSUME NEW e \in Events, Claim(e) PROVE Replied' BY <1>2, <1>q DEF Claim
<1>3. CASE Receive
  <2>1. pc' \in {"replying", "done"} BY <1>3, Received
  <2> QED BY <1>q, <2>1
<1>4. CASE Reply
  <2>1. pc' \notin {"posted", "failed"} /\ job' = job BY <1>4 DEF Reply
  <2>2. SaveResponseIfAbsent(<<NotHeard>>) => response'[job] # Nothing
    <3>1. job \in Events BY <1>4, AtWork DEF Reply
    <3>2. <<NotHeard>> \in Seq(Answers) /\ <<NotHeard>> # Nothing BY FixedLines DEF Nothing
    <3> QED BY <3>1, <3>2, Saved
  <2>3. pc' = "delivering" => response'[job] # Nothing BY <1>4, <2>2 DEF Reply
  <2> QED BY <2>1, <2>3 DEF Replied
<1>5. CASE Generate
  <2>1. job \in Events /\ job' = job /\ attempts' = attempts BY <1>5, AtWork DEF Generate
  <2>2. CASE pc' = "failed" /\ ~LastAttempt /\ response' = response
    <3>1. attempts[job] \in Nat /\ MaxAttempts \in Nat
      BY <2>1, EventQueueAssumption DEF IInv, TypeOK, EventQueueAssumption
    <3> QED BY <2>1, <2>2, <3>1 DEF LastAttempt, Replied
  <2>3. ASSUME NEW text \in Seq(Answers), text # Nothing, SaveResponseIfAbsent(text),
               pc' = "delivering"
        PROVE  Replied'
    BY <2>1, <2>3, Saved DEF Replied
  <2>4. /\ <<<<generations + 1, 1>>>> \in Seq(Answers) /\ <<<<generations + 1, 1>>>> # Nothing
        /\ <<Apology>> \in Seq(Answers) /\ <<Apology>> # Nothing
    BY FixedLines DEF ReplyTypeOK, Nothing
  <2> QED BY <1>5, <2>2, <2>3, <2>4 DEF Generate
<1>6. CASE Deliver
  <2>1. CASE bocco_sent[job] BY <1>6, <1>q, <2>1 DEF Deliver
  <2>2. CASE ~bocco_sent[job]
    <3>1. response[job] # Nothing /\ UNCHANGED <<response, job>>
      BY <1>6 DEF Deliver, Replied
    <3> QED BY <1>6, <2>2, <3>1 DEF Deliver, AfterPost, Replied
  <2> QED BY <2>1, <2>2
<1>7. CASE RecordDelivery BY <1>7, <1>q DEF RecordDelivery
<1>8. CASE RecordTurn BY <1>8, <1>q DEF RecordTurn
<1>9. CASE StreamChunk BY <1>9, <1>q DEF StreamChunk
<1>10. CASE RecordChunk BY <1>10, <1>q DEF RecordChunk
<1>11. CASE EndStream BY <1>11, <1>q DEF EndStream
<1>12. CASE SaveStreamed BY <1>12, <1>q DEF SaveStreamed
<1>13. CASE Settle BY <1>13, <1>q DEF Settle
<1>14. ASSUME NEW a \in Asides, SpeakAside(a) PROVE Replied' BY <1>14, <1>u DEF SpeakAside
<1>15. ASSUME NEW a \in Asides, RecordAside(a) PROVE Replied' BY <1>15, <1>u DEF RecordAside
<1>16. CASE Interrupt BY <1>16, <1>q, Interrupted
<1>17. CASE UNCHANGED vars BY <1>17, <1>u DEF vars, replyVars
<1> QED BY <1>1, <1>2, <1>3, <1>4, <1>5, <1>6, <1>7, <1>8, <1>9, <1>10, <1>11, <1>12,
           <1>13, <1>14, <1>15, <1>16, <1>17 DEF Next, Process, Outside

LEMMA AudibleStep ==
    IInv /\ ReplyTypeOK /\ InFlight /\ Audible /\ Replied /\ Streams /\ [Next]_vars
       => Audible'
<1> SUFFICES ASSUME IInv, ReplyTypeOK, InFlight, Audible, Replied, Streams, [Next]_vars
             PROVE  Audible'
  OBVIOUS
<1> USE DEF Goto, NoPost, durableVars, worldVars, workerVars, queueVars, rowVars, loopVars
<1> DEFINE Louder == Sources \subseteq Sources' /\ Utterances \subseteq Utterances'
<1>s. posts' = posts => Louder BY Silence
<1>h. \A source, piece, n : Grows(source, piece, n) => Louder BY Hearing
<1>w. pc # "idle" => job \in Events BY AtWork
<1>k. ASSUME Louder, pc # "idle", UNCHANGED <<job, said, bocco_sent>>,
             pc' = "stream over" => said # Nothing,
             pc' = "remembering" => job \in Sources,
             pc' = "done" /\ job \in Humans => job \in Sources \/ setup.form[job] # "unheard"
      PROVE  Audible'
  BY <1>k, SetupKept DEF Audible
<1>i. ASSUME Louder, pc' = "idle", bocco_sent' = bocco_sent PROVE Audible'
  BY <1>i DEF Audible
<1>u. ASSUME Louder, UNCHANGED <<pc, job, said, bocco_sent>> PROVE Audible'
  BY <1>u, SetupKept DEF Audible
<1> HIDE DEF Louder
<1>1. CASE Outside BY <1>1, <1>s, <1>u, OutsideStep DEF replyVars
<1>2. ASSUME NEW e \in Events, Claim(e) PROVE Audible'
  <2>1. posts' = posts /\ said' = Nothing /\ bocco_sent' = bocco_sent /\ pc' = "received"
    BY <1>2 DEF Claim
  <2>2. DOMAIN said' = {} BY <2>1 DEF Nothing
  <2>3. Louder BY <1>s, <2>1
  <2> QED BY <2>1, <2>2, <2>3 DEF Audible, Louder
<1>3. CASE Receive
  <2>1. /\ pc' \in {"replying", "done"}
        /\ job \in Humans /\ setup.form[job] = "unheard" => pc' = "replying"
    BY <1>3, Received
  <2> QED BY <1>3, <1>s, <1>k, <2>1 DEF Receive
<1>4. CASE Reply
  <2>1. pc' = "done" /\ job \in Humans => setup.form[job] # "unheard" BY <1>4 DEF Reply, Form
  <2> QED BY <1>4, <1>s, <1>k, <2>1 DEF Reply
<1>5. CASE Generate BY <1>5, <1>s, <1>k DEF Generate
<1>6. CASE Deliver
  <2>1. CASE bocco_sent[job]
    <3>1. job \in Sources BY <1>6, <1>w, <2>1 DEF Deliver, Audible
    <3> QED BY <1>6, <1>s, <1>k, <2>1, <3>1 DEF Deliver
  <2>2. CASE ~bocco_sent[job]
    <3>1. PICK n \in 0..2, answered \in BOOLEAN :
             Posted(response[job][1], n, answered) /\ pc' = AfterPost(answered)
      BY <1>6, <2>2, ReplySpoken
    <3>2. Louder BY <1>h, <3>1 DEF Posted
    <3>3. pc' \in {"posted", "failed"} BY <3>1 DEF AfterPost
    <3> QED BY <1>6, <1>k, <3>2, <3>3 DEF Deliver
  <2> QED BY <2>1, <2>2
<1>r. ASSUME pc' \in {"remembering", "streaming"}, posts' = posts,
             pc \in {"posted", "chunk posted"},
             bocco_sent' = [bocco_sent EXCEPT ![job] = TRUE], UNCHANGED <<job, said>>
      PROVE  Audible'
  <2>1. job \in Sources BY <1>r DEF InFlight, Sources
  <2>2. \A e \in Events : bocco_sent'[e] => e \in Sources
    BY <1>w, <1>r, <2>1 DEF Audible, ReplyTypeOK
  <2> QED BY <1>r, <1>s, <2>1, <2>2 DEF Audible, Louder
<1>7. CASE RecordDelivery BY <1>7, <1>r DEF RecordDelivery
<1>8. CASE RecordTurn BY <1>8, <1>s, <1>k DEF RecordTurn, Audible
<1>9. CASE StreamChunk
  <2> DEFINE piece == <<generations, Len(said) + 1>>
  <2>1. PICK n \in 0..2, answered \in BOOLEAN :
           /\ Posted(piece, n, answered)
           /\ answered => pc' = "chunk posted" /\ said' = Append(said, piece)
           /\ ~answered => /\ said' = said
                           /\ \/ said = Nothing /\ pc' = "generating"
                              \/ said # Nothing /\ pc' \in {"streaming", "stream over"}
    BY <1>9, ChunkSpoken
  <2>p. piece \in Said BY <1>9, ChunkSpoken
  <2> HIDE DEF piece
  <2>2. Louder BY <1>h, <2>1 DEF Posted
  <2>3. UNCHANGED <<job, bocco_sent>> /\ pc # "idle" BY <1>9 DEF StreamChunk
  <2>4. CASE ~answered BY <1>k, <2>1, <2>2, <2>3, <2>4
  <2>5. CASE answered
    <3>1. inflight' \in DOMAIN posts' /\ posts'[inflight'].source = job
          /\ posts'[inflight'].piece = piece
      BY <2>1, <2>5 DEF Posted, Grows
    <3>2. <<job, piece>> \in Utterances' BY <3>1 DEF Utterances
    <3>3. said \in Seq(Said) BY DEF ReplyTypeOK
    <3>a. /\ DOMAIN Append(said, piece) = 1..(Len(said) + 1)
          /\ \A i \in 1..Len(said) : Append(said, piece)[i] = said[i]
          /\ Append(said, piece)[Len(said) + 1] = piece
          /\ DOMAIN said = 1..Len(said) /\ Len(said) \in Nat
      BY <2>p, <3>3
    <3>4. \A i \in DOMAIN said' : said'[i] = piece \/ (i \in DOMAIN said /\ said'[i] = said[i])
      <4>1. said' = Append(said, piece) BY <2>1, <2>5
      <4> HIDE DEF Said
      <4> QED BY <3>a, <4>1
    <3>5. \A i \in DOMAIN said' : <<job, said'[i]>> \in Utterances'
      BY <2>2, <2>3, <3>2, <3>4 DEF Audible, Louder
    <3> QED BY <2>1, <2>2, <2>3, <2>5, <3>5 DEF Audible, Louder
  <2> QED BY <2>4, <2>5
<1>10. CASE RecordChunk BY <1>10, <1>r DEF RecordChunk
<1>11. CASE EndStream BY <1>11, <1>s, <1>k DEF EndStream
<1>12. CASE SaveStreamed
  <2>1. said # Nothing /\ said \in Seq(Said) BY <1>12 DEF SaveStreamed, Audible, ReplyTypeOK
  <2>2. 1 \in DOMAIN said BY <2>1 DEF Nothing
  <2>3. <<job, said[1]>> \in Utterances BY <1>12, <2>2 DEF SaveStreamed, Audible
  <2>4. job \in Sources BY <2>3 DEF Utterances, Sources
  <2> QED BY <1>12, <1>s, <1>k, <2>4 DEF SaveStreamed
<1>13. CASE Settle BY <1>13, <1>s, <1>i DEF Settle
<1>14. ASSUME NEW a \in Asides, SpeakAside(a) PROVE Audible'
  BY <1>14, <1>h, <1>u, AsideSpoken DEF SpeakAside
<1>15. ASSUME NEW a \in Asides, RecordAside(a) PROVE Audible'
  BY <1>15, <1>s, <1>u DEF RecordAside
<1>16. CASE Interrupt BY <1>16, <1>s, <1>i DEF Interrupt, LoseMemory
<1>17. CASE UNCHANGED vars BY <1>17, <1>s, <1>u DEF vars, replyVars
<1> QED BY <1>1, <1>2, <1>3, <1>4, <1>5, <1>6, <1>7, <1>8, <1>9, <1>10, <1>11, <1>12,
           <1>13, <1>14, <1>15, <1>16, <1>17 DEF Next, Process, Outside

LEMMA StreamStagesStep ==
    IInv /\ ReplyTypeOK /\ Streams /\ [Next]_vars => StreamStages'
<1> SUFFICES ASSUME IInv, ReplyTypeOK, Streams, [Next]_vars
             PROVE  StreamStages'
  OBVIOUS
<1> USE DEF Goto, NoPost, durableVars, worldVars, workerVars, queueVars, rowVars, loopVars,
            Streaming
<1>w. pc # "idle" => job \in Events BY AtWork
<1>q. ASSUME pc' \in {"idle", "done", "remembering", "failed"} PROVE StreamStages'
  BY <1>q DEF StreamStages
<1>u. ASSUME UNCHANGED <<pc, job, said, fresh, response, bocco_sent>> PROVE StreamStages'
  BY <1>u DEF Streams, StreamStages
<1>1. CASE Outside BY <1>1, <1>u, OutsideStep DEF replyVars
<1>2. ASSUME NEW e \in Events, Claim(e) PROVE StreamStages'
  BY <1>2 DEF Claim, StreamStages
<1>3. CASE Receive
  <2>1. pc' \in {"replying", "done"} BY <1>3, Received
  <2>2. pc = "received" /\ said' = said /\ fresh' = fresh BY <1>3 DEF Receive
  <2> QED BY <2>1, <2>2 DEF Streams, StreamStages
<1>4. CASE Reply
  <2>1. pc = "replying" /\ said = Nothing /\ UNCHANGED <<job, said, bocco_sent>>
    BY <1>4 DEF Reply, Streams, StreamStages
  <2>2. \/ pc' \in {"delivering", "done"}
        \/ pc' = "streaming" /\ response'[job] = Nothing /\ ~bocco_sent[job]
        \/ pc' = "generating" /\ response'[job] = Nothing
    BY <1>4 DEF Reply, MayStream
  <2> QED BY <2>1, <2>2 DEF StreamStages
<1>5. CASE Generate
  <2>1. pc' \in {"delivering", "failed"} /\ said' = said /\ pc = "generating"
    BY <1>5 DEF Generate
  <2> QED BY <2>1 DEF Streams, StreamStages
<1>6. CASE Deliver
  <2>1. CASE bocco_sent[job] BY <1>6, <1>q, <2>1 DEF Deliver
  <2>2. CASE ~bocco_sent[job]
    <3>1. PICK answered \in BOOLEAN : pc' = AfterPost(answered) BY <1>6, <2>2 DEF Deliver
    <3>2. pc' \in {"posted", "failed"} BY <3>1 DEF AfterPost
    <3>3. pc = "delivering" /\ UNCHANGED <<said, job, bocco_sent>> BY <1>6 DEF Deliver
    <3> QED BY <2>2, <3>2, <3>3 DEF Streams, StreamStages
  <2> QED BY <2>1, <2>2
<1>7. CASE RecordDelivery BY <1>7, <1>q DEF RecordDelivery
<1>8. CASE RecordTurn BY <1>8, <1>q DEF RecordTurn
<1>9. CASE StreamChunk
  <2>1. /\ \/ pc' = "chunk posted" /\ said' # Nothing
           \/ pc' = "generating" /\ said = Nothing /\ said' = said
           \/ pc' \in {"streaming", "stream over"} /\ said # Nothing /\ said' = said
    BY <1>9, ChunkSpoken
  <2>2. pc = "streaming" /\ UNCHANGED <<job, response, bocco_sent>> BY <1>9 DEF StreamChunk
  <2> QED BY <2>1, <2>2 DEF Streams, StreamStages
<1>10. CASE RecordChunk
  <2>1. pc = "chunk posted" /\ pc' = "streaming" /\ UNCHANGED <<said, job, response>>
    BY <1>10 DEF RecordChunk
  <2>2. bocco_sent'[job] BY <1>10, <1>w DEF RecordChunk, ReplyTypeOK
  <2> QED BY <2>1, <2>2 DEF Streams, StreamStages
<1>11. CASE EndStream BY <1>11 DEF EndStream, Streams, StreamStages
<1>12. CASE SaveStreamed BY <1>12, <1>q DEF SaveStreamed
<1>13. CASE Settle BY <1>13, <1>q DEF Settle
<1>14. ASSUME NEW a \in Asides, SpeakAside(a) PROVE StreamStages'
  BY <1>14, <1>u DEF SpeakAside
<1>15. ASSUME NEW a \in Asides, RecordAside(a) PROVE StreamStages'
  BY <1>15, <1>u DEF RecordAside
<1>16. CASE Interrupt BY <1>16, <1>q, Interrupted
<1>17. CASE UNCHANGED vars BY <1>17, <1>u DEF vars, replyVars
<1> QED BY <1>1, <1>2, <1>3, <1>4, <1>5, <1>6, <1>7, <1>8, <1>9, <1>10, <1>11, <1>12,
           <1>13, <1>14, <1>15, <1>16, <1>17 DEF Next, Process, Outside

LEMMA FiledStep ==
    IInv /\ ReplyTypeOK /\ InFlight /\ Filed /\ [Next]_vars => Filed'
<1> SUFFICES ASSUME IInv, ReplyTypeOK, InFlight, Filed, [Next]_vars
             PROVE  Filed'
  OBVIOUS
<1> USE DEF durableVars, queueVars, rowVars, loopVars
<1>w. pc # "idle" => job \in Events BY AtWork
<1>u. ASSUME UNCHANGED <<outbound, bocco_sent>> PROVE Filed' BY <1>u DEF Filed
<1>r. ASSUME NEW chunk, Files(job, chunk, inflight), pc # "idle",
             bocco_sent' = [bocco_sent EXCEPT ![job] = TRUE]
      PROVE  Filed'
  <2>1. bocco_sent'[job] /\ \A e \in Events : bocco_sent[e] => bocco_sent'[e]
    BY <1>w, <1>r DEF ReplyTypeOK
  <2> QED BY <1>r, <2>1 DEF Files, Filed
<1>1. CASE Outside BY <1>1, <1>u, OutsideStep DEF replyVars
<1>2. ASSUME NEW e \in Events, Claim(e) PROVE Filed' BY <1>2, <1>u DEF Claim
<1>3. CASE Receive
  <2>1. \A s \in outbound' : \E r \in outbound : Alike(r, s) BY <1>3, Received
  <2>2. bocco_sent' = bocco_sent BY <1>3 DEF Receive
  <2> QED BY <2>1, <2>2 DEF Alike, Filed
<1>4. CASE Reply BY <1>4, <1>u DEF Reply
<1>5. CASE Generate BY <1>5, <1>u DEF Generate
<1>6. CASE Deliver BY <1>6, <1>u DEF Deliver
<1>7. CASE RecordDelivery BY <1>7, <1>r, ReplyFiled DEF RecordDelivery
<1>8. CASE RecordTurn BY <1>8, <1>u DEF RecordTurn
<1>9. CASE StreamChunk BY <1>9, <1>u DEF StreamChunk
<1>10. CASE RecordChunk BY <1>10, <1>r, ChunkFiled DEF RecordChunk
<1>11. CASE EndStream BY <1>11, <1>u DEF EndStream
<1>12. CASE SaveStreamed BY <1>12, <1>u DEF SaveStreamed
<1>13. CASE Settle BY <1>13, <1>u DEF Settle
<1>14. ASSUME NEW a \in Asides, SpeakAside(a) PROVE Filed' BY <1>14, <1>u DEF SpeakAside
<1>15. ASSUME NEW a \in Asides, RecordAside(a) PROVE Filed'
  <2>1. Files(a, 0, aside[a]) /\ bocco_sent' = bocco_sent
    BY <1>15, AsideFiled DEF RecordAside
  <2>2. a \notin Events BY Parties
  <2> QED BY <2>1, <2>2 DEF Files, Filed
<1>16. CASE Interrupt BY <1>16, <1>u DEF Interrupt, LoseMemory
<1>17. CASE UNCHANGED vars BY <1>17, <1>u DEF vars, replyVars
<1> QED BY <1>1, <1>2, <1>3, <1>4, <1>5, <1>6, <1>7, <1>8, <1>9, <1>10, <1>11, <1>12,
           <1>13, <1>14, <1>15, <1>16, <1>17 DEF Next, Process, Outside

LEMMA PiecesTyped ==
    /\ \A w \in Answers : /\ w \in Pieces /\ w[1] \in Int /\ w[2] \in Nat
                           /\ \A line \in {Apology, NotHeard} : w[1] = line[1] => w = line
    /\ Apology[1] = 0 /\ NotHeard[1] = -1
    /\ AsideLine[1] = 0 /\ AsideLine[2] = 1 /\ AsideLine \notin Answers
BY DEF Answers, Said, Apology, NotHeard, AsideLine, Pieces

LEMMA PostsTyped ==
    ASSUME ReplyTypeOK, NEW p \in DOMAIN posts
    PROVE  /\ \/ posts[p].source \in Events /\ posts[p].piece \in Answers
              \/ posts[p].source \in Asides /\ posts[p].source \notin Events
                 /\ posts[p].piece = AsideLine
           /\ posts[p].piece[1] \in Int /\ posts[p].piece[2] \in Nat
<1>1. posts[p] \in Spoken BY DEF ReplyTypeOK
<1>2. \/ posts[p].source \in Events /\ posts[p].piece \in Answers
      \/ posts[p].source \in Asides /\ posts[p].source \notin Events
         /\ posts[p].piece = AsideLine
  BY <1>1, Parties DEF Spoken
<1> QED BY <1>2, PiecesTyped

LEMMA StreamedSoFarStep ==
    IInv /\ ReplyTypeOK /\ InFlight /\ Replied /\ Streams /\ Generated /\ [Next]_vars
       => StreamedSoFar'
<1> SUFFICES ASSUME IInv, ReplyTypeOK, InFlight, Replied, Streams, Generated, [Next]_vars
             PROVE  StreamedSoFar'
  OBVIOUS
<1> USE DEF Goto, durableVars, worldVars, workerVars, queueVars, rowVars, loopVars
<1>w. pc # "idle" => job \in Events BY AtWork
<1>q. ASSUME pc' \notin {"streaming", "chunk posted"} PROVE StreamedSoFar'
  BY <1>q DEF StreamedSoFar
<1>u. ASSUME UNCHANGED <<pc, generations, posts, job, said, outbound>> PROVE StreamedSoFar'
  BY <1>u DEF Streams, StreamedSoFar
<1>n. generations \in Nat /\ Len(said) \in Nat BY DEF ReplyTypeOK
<1>g. pc \in {"streaming", "chunk posted"} =>
        /\ generations > 0
        /\ \A p \in DOMAIN posts :
              posts[p].source = job /\ posts[p].piece[1] = generations =>
                 posts[p].piece[2] <= Len(said) + 1
        /\ \A r \in outbound : r.source = job =>
              /\ r.piece[1] = generations
              /\ r.chunk <= Len(said)
              /\ pc = "chunk posted" => r.chunk # Len(said)
  BY DEF Streams, StreamedSoFar
<1>1. CASE Outside BY <1>1, <1>u, OutsideStep DEF replyVars
<1>2. ASSUME NEW e \in Events, Claim(e) PROVE StreamedSoFar' BY <1>2, <1>q DEF Claim
<1>3. CASE Receive BY <1>3, <1>q, Received
<1>4. CASE Reply
  <2>1. CASE pc' # "streaming" BY <1>4, <1>q, <2>1 DEF Reply
  <2>2. CASE pc' = "streaming"
    <3>1. pc = "replying" /\ generations' = generations + 1 /\ ~bocco_sent[job]
          /\ UNCHANGED <<posts, job, said, outbound>>
      BY <1>4, <2>2 DEF Reply, MayStream
    <3>2. \A p \in DOMAIN posts : posts[p].piece[1] # generations + 1
      <4>1. \A p \in DOMAIN posts : posts[p].piece[1] \in Int BY PostsTyped
      <4> QED BY <1>n, <4>1 DEF Generated, PostedSoFar
    <3>3. \A r \in outbound : r.source # job
      BY <1>w, <3>1 DEF Streams, Filed
    <3>4. generations' > 0 BY <1>n, <3>1
    <3>5. \A p \in DOMAIN posts' : posts'[p].piece[1] # generations' BY <3>1, <3>2
    <3>6. \A r \in outbound' : r.source # job' BY <3>1, <3>3
    <3> QED BY <3>4, <3>5, <3>6 DEF StreamedSoFar
  <2> QED BY <2>1, <2>2
<1>5. CASE Generate BY <1>5, <1>q DEF Generate
<1>6. CASE Deliver
  <2>1. CASE bocco_sent[job] BY <1>6, <1>q, <2>1 DEF Deliver
  <2>2. CASE ~bocco_sent[job]
    <3>1. PICK answered \in BOOLEAN : pc' = AfterPost(answered) BY <1>6, <2>2 DEF Deliver
    <3> QED BY <1>q, <3>1 DEF AfterPost
  <2> QED BY <2>1, <2>2
<1>7. CASE RecordDelivery BY <1>7, <1>q DEF RecordDelivery
<1>8. CASE RecordTurn BY <1>8, <1>q DEF RecordTurn
<1>9. CASE StreamChunk
  <2> DEFINE piece == <<generations, Len(said) + 1>>
  <2>1. PICK n \in 0..2, answered \in BOOLEAN :
           /\ Posted(piece, n, answered)
           /\ answered => pc' = "chunk posted" /\ Len(said') = Len(said) + 1
           /\ ~answered => /\ said' = said
                           /\ \/ said = Nothing /\ pc' = "generating"
                              \/ said # Nothing /\ pc' \in {"streaming", "stream over"}
    BY <1>9, ChunkSpoken
  <2>2. pc = "streaming" /\ UNCHANGED <<generations, job, outbound>> BY <1>9 DEF StreamChunk
  <2>3. piece[2] = Len(said) + 1 OBVIOUS
  <2> HIDE DEF piece
  <2>4. Len(said) <= Len(said') /\ Len(said') \in Nat
    <3> DEFINE before == Len(said)
               after == Len(said')
    <3>1. after = before + 1 \/ after = before BY <2>1
    <3>2. before \in Nat BY <1>n
    <3> HIDE DEF before, after
    <3>3. before <= after /\ after \in Nat BY <3>1, <3>2
    <3> QED BY <3>3 DEF before, after
  <2>5. ASSUME NEW p \in DOMAIN posts', posts'[p].source = job,
               posts'[p].piece[1] = generations
        PROVE  posts'[p].piece[2] <= Len(said) + 1
    <3>1. CASE p \in DOMAIN posts
      <4>1. posts'[p] = posts[p] BY <2>1, <3>1 DEF Posted, Grows
      <4> QED BY <1>g, <2>2, <2>5, <3>1, <4>1
    <3>2. CASE p \notin DOMAIN posts
      <4>1. posts'[p].piece = piece BY <2>1, <2>5, <3>2 DEF Posted, Grows
      <4> QED BY <1>n, <2>3, <4>1
    <3> QED BY <3>1, <3>2
  <2>6. \A p \in DOMAIN posts' :
           posts'[p].source = job /\ posts'[p].piece[1] = generations =>
              posts'[p].piece[2] <= Len(said') + 1
    <3>1. \A p \in DOMAIN posts' : posts'[p].piece[2] \in Nat
      <4>1. piece[2] \in Nat BY <1>n, <2>3
      <4>2. \A p \in DOMAIN posts : posts[p].piece[2] \in Nat BY PostsTyped
      <4> QED BY <2>1, <4>1, <4>2 DEF Posted, Grows
    <3> QED BY <1>n, <2>4, <2>5, <3>1
  <2>7. \A r \in outbound' : r.source = job =>
           r.piece[1] = generations /\ r.chunk <= Len(said) /\ r.chunk \in Nat
    BY <2>2, Parties, <1>w DEF Streams, StreamedSoFar, ReplyTypeOK, Records
  <2>8. \A r \in outbound' : r.source = job =>
           /\ r.piece[1] = generations /\ r.chunk <= Len(said')
           /\ pc' = "chunk posted" => r.chunk # Len(said')
    <3> SUFFICES ASSUME NEW r \in outbound', r.source = job
                 PROVE  /\ r.piece[1] = generations /\ r.chunk <= Len(said')
                        /\ pc' = "chunk posted" => r.chunk # Len(said')
      OBVIOUS
    <3>1. r.piece[1] = generations /\ r.chunk <= Len(said) /\ r.chunk \in Nat BY <2>7
    <3>2. pc' = "chunk posted" => Len(said') = Len(said) + 1 BY <2>1
    <3> DEFINE before == Len(said)
               after == Len(said')
    <3>3. before \in Nat /\ after \in Nat /\ before <= after BY <1>n, <2>4
    <3> DEFINE c == r.chunk
    <3>4. c \in Nat /\ c <= before BY <3>1
    <3> HIDE DEF before, after, c
    <3>5. c <= after BY <3>3, <3>4
    <3>6. after = before + 1 => c # after BY <3>3, <3>4
    <3> QED BY <3>1, <3>2, <3>5, <3>6 DEF before, after, c
  <2>9. generations > 0 BY <1>g, <2>2
  <2> QED BY <2>2, <2>6, <2>8, <2>9 DEF StreamedSoFar
<1>10. CASE RecordChunk
  <2>1. pc = "chunk posted" /\ pc' = "streaming" /\ UNCHANGED <<generations, job, posts, said>>
    BY <1>10 DEF RecordChunk
  <2>2. Files(job, Len(said), inflight) BY <1>10, ChunkFiled
  <2>3. \A r \in outbound' : r.source = job =>
           r.piece[1] = generations /\ r.chunk <= Len(said)
    <3> SUFFICES ASSUME NEW r \in outbound', r.source = job
                 PROVE  r.piece[1] = generations /\ r.chunk <= Len(said)
      OBVIOUS
    <3>1. CASE r \in outbound BY <1>g, <2>1, <3>1
    <3>2. CASE r \notin outbound
      <4>1. r.chunk = Len(said) /\ r.piece = posts[inflight].piece BY <2>2, <3>2 DEF Files
      <4>2. posts[inflight].piece[1] = generations BY <2>1 DEF InFlight
      <4> QED BY <1>n, <4>1, <4>2
    <3> QED BY <3>1, <3>2
  <2>4. generations > 0 /\ \A p \in DOMAIN posts :
           posts[p].source = job /\ posts[p].piece[1] = generations =>
              posts[p].piece[2] <= Len(said) + 1
    BY <1>g, <2>1
  <2> QED BY <2>1, <2>3, <2>4 DEF StreamedSoFar
<1>11. CASE EndStream BY <1>11, <1>q DEF EndStream
<1>12. CASE SaveStreamed BY <1>12, <1>q DEF SaveStreamed
<1>13. CASE Settle BY <1>13, <1>q DEF Settle
<1>14. ASSUME NEW a \in Asides, SpeakAside(a) PROVE StreamedSoFar'
  <2>1. CASE pc \notin {"streaming", "chunk posted"} BY <1>14, <1>q, <2>1 DEF SpeakAside
  <2>2. CASE pc \in {"streaming", "chunk posted"}
    <3>1. UNCHANGED <<pc, generations, job, said, outbound>> BY <1>14 DEF SpeakAside
    <3>2. PICK n \in 0..2 : Grows(a, AsideLine, n) BY <1>14, AsideSpoken
    <3>3. job # a BY <1>w, <2>2, Parties
    <3>4. \A p \in DOMAIN posts' : posts'[p].source = job =>
             p \in DOMAIN posts /\ posts'[p] = posts[p]
      BY <3>2, <3>3 DEF Grows
    <3>5. \A p \in DOMAIN posts' : posts'[p].source = job /\ posts'[p].piece[1] = generations =>
             posts'[p].piece[2] <= Len(said) + 1
      BY <1>g, <2>2, <3>4
    <3> QED BY <1>g, <2>2, <3>1, <3>5 DEF StreamedSoFar
  <2> QED BY <2>1, <2>2
<1>15. ASSUME NEW a \in Asides, RecordAside(a) PROVE StreamedSoFar'
  <2>1. CASE pc \notin {"streaming", "chunk posted"} BY <1>15, <1>q, <2>1 DEF RecordAside
  <2>2. CASE pc \in {"streaming", "chunk posted"}
    <3>1. UNCHANGED <<pc, generations, job, said, posts>> BY <1>15 DEF RecordAside
    <3>2. Files(a, 0, aside[a]) BY <1>15, AsideFiled
    <3>3. job # a BY <1>w, <2>2, Parties
    <3>4. \A r \in outbound' : r.source = job => r \in outbound BY <3>2, <3>3 DEF Files
    <3> QED BY <1>g, <2>2, <3>1, <3>4 DEF StreamedSoFar
  <2> QED BY <2>1, <2>2
<1>16. CASE Interrupt BY <1>16, <1>q, Interrupted
<1>17. CASE UNCHANGED vars BY <1>17, <1>u DEF vars, replyVars
<1> QED BY <1>1, <1>2, <1>3, <1>4, <1>5, <1>6, <1>7, <1>8, <1>9, <1>10, <1>11, <1>12,
           <1>13, <1>14, <1>15, <1>16, <1>17 DEF Next, Process, Outside

LEMMA PostedSoFarStep ==
    IInv /\ ReplyTypeOK /\ Replied /\ Streams /\ Generated /\ [Next]_vars => PostedSoFar'
<1> SUFFICES ASSUME IInv, ReplyTypeOK, Replied, Streams, Generated, [Next]_vars
             PROVE  PostedSoFar'
  OBVIOUS
<1> USE DEF Goto, durableVars, worldVars, workerVars, queueVars, rowVars, loopVars
<1>w. pc # "idle" => job \in Events BY AtWork
<1>n. generations \in Nat BY DEF ReplyTypeOK
<1>t. \A p \in DOMAIN posts : posts[p].piece[1] \in Int /\ posts[p].piece[1] <= generations
  BY PostsTyped DEF Generated, PostedSoFar
<1>u. ASSUME posts' = posts, generations' \in {generations, generations + 1} PROVE PostedSoFar'
  BY <1>t, <1>n, <1>u DEF PostedSoFar
<1>g. ASSUME NEW source, NEW piece, NEW n, Grows(source, piece, n), piece[1] <= generations,
             generations' = generations
      PROVE  PostedSoFar'
  BY <1>t, <1>g DEF Grows, PostedSoFar
<1>1. CASE Outside BY <1>1, <1>u, OutsideStep DEF replyVars
<1>2. ASSUME NEW e \in Events, Claim(e) PROVE PostedSoFar' BY <1>2, <1>u DEF Claim
<1>3. CASE Receive BY <1>3, <1>u DEF Receive
<1>4. CASE Reply BY <1>4, <1>u DEF Reply
<1>5. CASE Generate BY <1>5, <1>u DEF Generate
<1>6. CASE Deliver
  <2>1. CASE bocco_sent[job] BY <1>6, <1>u, <2>1 DEF Deliver
  <2>2. CASE ~bocco_sent[job]
    <3>1. PICK n \in 0..2, answered \in BOOLEAN : Posted(response[job][1], n, answered)
      BY <1>6, <2>2, ReplySpoken
    <3>2. response[job] # Nothing BY <1>6, <2>2, ReplySpoken
    <3>3. response[job][1][1] <= generations
      BY <1>6, <1>w, <3>2 DEF Deliver, Generated, SavedSoFar
    <3>4. Grows(job, response[job][1], n) BY <3>1 DEF Posted
    <3> QED BY <1>6, <1>g, <3>3, <3>4 DEF Deliver
  <2> QED BY <2>1, <2>2
<1>7. CASE RecordDelivery BY <1>7, <1>u DEF RecordDelivery
<1>8. CASE RecordTurn BY <1>8, <1>u DEF RecordTurn
<1>9. CASE StreamChunk
  <2> DEFINE piece == <<generations, Len(said) + 1>>
  <2>1. PICK n \in 0..2, answered \in BOOLEAN : Posted(piece, n, answered)
    BY <1>9, ChunkSpoken
  <2>2. piece[1] <= generations BY <1>n
  <2> HIDE DEF piece
  <2>3. Grows(job, piece, n) BY <2>1 DEF Posted
  <2> QED BY <1>9, <1>g, <2>2, <2>3 DEF StreamChunk
<1>10. CASE RecordChunk BY <1>10, <1>u DEF RecordChunk
<1>11. CASE EndStream BY <1>11, <1>u DEF EndStream
<1>12. CASE SaveStreamed BY <1>12, <1>u DEF SaveStreamed
<1>13. CASE Settle BY <1>13, <1>u DEF Settle
<1>14. ASSUME NEW a \in Asides, SpeakAside(a) PROVE PostedSoFar'
  <2>1. PICK n \in 0..2 : Grows(a, AsideLine, n) BY <1>14, AsideSpoken
  <2>2. AsideLine[1] <= generations BY <1>n, PiecesTyped
  <2> QED BY <1>14, <1>g, <2>1, <2>2 DEF SpeakAside
<1>15. ASSUME NEW a \in Asides, RecordAside(a) PROVE PostedSoFar'
  BY <1>15, <1>u DEF RecordAside
<1>16. CASE Interrupt BY <1>16, <1>u DEF Interrupt, LoseMemory
<1>17. CASE UNCHANGED vars BY <1>17, <1>u DEF vars, replyVars
<1> QED BY <1>1, <1>2, <1>3, <1>4, <1>5, <1>6, <1>7, <1>8, <1>9, <1>10, <1>11, <1>12,
           <1>13, <1>14, <1>15, <1>16, <1>17 DEF Next, Process, Outside

LEMMA SavedSoFarStep ==
    IInv /\ ReplyTypeOK /\ Audible /\ Replied /\ Streams /\ Generated /\ [Next]_vars
       => SavedSoFar'
<1> SUFFICES ASSUME IInv, ReplyTypeOK, Audible, Replied, Streams, Generated, [Next]_vars
             PROVE  SavedSoFar'
  OBVIOUS
<1> USE DEF Goto, durableVars, worldVars, workerVars, queueVars, rowVars, loopVars
<1>w. pc # "idle" => job \in Events BY AtWork
<1>n. generations \in Nat BY DEF ReplyTypeOK
<1>t. \A e \in Events : response[e] # Nothing =>
         response[e][1][1] \in Int /\ response[e][1][1] <= generations
  <2> SUFFICES ASSUME NEW e \in Events, response[e] # Nothing
               PROVE  response[e][1][1] \in Int /\ response[e][1][1] <= generations
    OBVIOUS
  <2>1. response[e] \in Seq(Answers) /\ response[e] # <<>> BY DEF ReplyTypeOK, Nothing
  <2>2. response[e][1] \in Answers BY <2>1
  <2> QED BY <2>2, PiecesTyped DEF Generated, SavedSoFar
<1>p. \A p \in DOMAIN posts : posts[p].piece[1] \in Int /\ posts[p].piece[1] <= generations
  BY PostsTyped DEF Generated, PostedSoFar
<1>u. ASSUME UNCHANGED <<posts, response>>, generations' \in {generations, generations + 1},
             \A e \in Events : bocco_sent[e] => bocco_sent'[e]
      PROVE  SavedSoFar'
  BY <1>t, <1>n, <1>u DEF SavedSoFar, Sole, Generated
<1>r. ASSUME UNCHANGED <<posts, response, generations>>, pc # "idle",
             bocco_sent' = [bocco_sent EXCEPT ![job] = TRUE]
      PROVE  SavedSoFar'
  <2>1. \A e \in Events : bocco_sent[e] => bocco_sent'[e] BY <1>w, <1>r DEF ReplyTypeOK
  <2> QED BY <1>u, <1>r, <2>1
<1>g. ASSUME NEW source, NEW piece, NEW n, Grows(source, piece, n),
             source \in Events /\ response[source] # Nothing /\ ~bocco_sent[source] =>
                piece = response[source][1],
             UNCHANGED <<response, bocco_sent, generations>>
      PROVE  SavedSoFar'
  BY <1>t, <1>g DEF Grows, SavedSoFar, Sole, Generated
<1>s. ASSUME NEW text \in Seq(Answers), SaveResponseIfAbsent(text), text # Nothing,
             pc # "idle", UNCHANGED <<posts, bocco_sent>>,
             generations' \in {generations, generations + 1},
             response[job] = Nothing =>
                /\ text[1][1] <= generations'
                /\ ~bocco_sent[job] =>
                      /\ Len(text) = 1
                      /\ \A p \in DOMAIN posts :
                            posts[p].source = job /\ posts[p].piece[1] = text[1][1] =>
                               posts[p].piece = text[1]
      PROVE  SavedSoFar'
  <2>1. /\ response'[job] = IF response[job] = Nothing THEN text ELSE response[job]
        /\ \A e \in Events \ {job} : response'[e] = response[e]
    BY <1>w, <1>s, Saved
  <2>2. \A e \in Events : response[e] # Nothing =>
           response[e][1][1] <= generations' /\ (~bocco_sent[e] => Sole(e))
    BY <1>t, <1>n, <1>s DEF Generated, SavedSoFar
  <2>3. ASSUME NEW e \in Events, response'[e] # Nothing, response'[e] = response[e]
        PROVE  response'[e][1][1] <= generations' /\ (~bocco_sent'[e] => Sole(e)')
    BY <1>s, <2>2, <2>3 DEF Sole
  <2>4. ASSUME NEW e \in Events, e = job, response[job] = Nothing
        PROVE  response'[e][1][1] <= generations' /\ (~bocco_sent'[e] => Sole(e)')
    BY <1>s, <2>1, <2>4 DEF Sole
  <2> QED BY <2>1, <2>3, <2>4 DEF SavedSoFar
<1>1. CASE Outside BY <1>1, <1>u, OutsideStep DEF replyVars
<1>2. ASSUME NEW e \in Events, Claim(e) PROVE SavedSoFar' BY <1>2, <1>u DEF Claim
<1>3. CASE Receive BY <1>3, <1>u DEF Receive
<1>f. ASSUME NEW line \in {Apology, NotHeard}, SaveResponseIfAbsent(<<line>>), pc # "idle",
             UNCHANGED <<posts, bocco_sent, generations>>
      PROVE  SavedSoFar'
  <2> DEFINE text == <<line>>
  <2>1. text \in Seq(Answers) /\ Len(text) = 1 /\ text # Nothing /\ text[1] = line
    BY FixedLines DEF Nothing
  <2>2. SaveResponseIfAbsent(text) BY <1>f
  <2> HIDE DEF text
  <2>3. \A p \in DOMAIN posts : posts[p].source \in Events /\ posts[p].piece[1] = line[1]
           => posts[p].piece = line
    BY PostsTyped, PiecesTyped, Parties
  <2>4. line[1] <= generations' BY <1>n, <1>f, PiecesTyped
  <2> QED BY <1>s, <1>w, <1>f, <2>1, <2>2, <2>3, <2>4
<1>4. CASE Reply BY <1>4, <1>u, <1>f DEF Reply
<1>5. CASE Generate
  <2>1. pc # "idle" /\ UNCHANGED <<posts, bocco_sent>> BY <1>5 DEF Generate
  <2>2. CASE UNCHANGED <<response, generations>> BY <1>u, <2>1, <2>2
  <2>3. CASE generations' = generations + 1
             /\ SaveResponseIfAbsent(<<<<generations + 1, 1>>>>)
    <3> DEFINE text == <<<<generations + 1, 1>>>>
    <3>1. /\ text \in Seq(Answers) /\ Len(text) = 1 /\ text # Nothing
          /\ text[1][1] = generations + 1
      BY <1>n, FixedLines DEF Nothing
    <3>2. SaveResponseIfAbsent(text) BY <2>3
    <3> HIDE DEF text
    <3>3. \A p \in DOMAIN posts : posts[p].piece[1] # text[1][1] BY <1>n, <1>p, <3>1
    <3>4. text[1][1] <= generations' /\ generations' \in {generations, generations + 1}
      BY <1>n, <2>3, <3>1
    <3> QED BY <1>s, <2>1, <3>1, <3>2, <3>3, <3>4
  <2>4. CASE generations' = generations /\ SaveResponseIfAbsent(<<Apology>>)
    BY <1>f, <2>1, <2>4
  <2> QED BY <1>5, <2>2, <2>3, <2>4 DEF Generate
<1>6. CASE Deliver
  <2>1. CASE bocco_sent[job] BY <1>6, <1>u, <2>1 DEF Deliver
  <2>2. CASE ~bocco_sent[job]
    <3>1. PICK n \in 0..2, answered \in BOOLEAN : Posted(response[job][1], n, answered)
      BY <1>6, <2>2, ReplySpoken
    <3>2. Grows(job, response[job][1], n) BY <3>1 DEF Posted
    <3> QED BY <1>6, <1>g, <3>2 DEF Deliver
  <2> QED BY <2>1, <2>2
<1>7. CASE RecordDelivery BY <1>7, <1>r DEF RecordDelivery
<1>8. CASE RecordTurn BY <1>8, <1>u DEF RecordTurn
<1>9. CASE StreamChunk
  <2> DEFINE piece == <<generations, Len(said) + 1>>
  <2>1. PICK n \in 0..2, answered \in BOOLEAN : Posted(piece, n, answered)
    BY <1>9, ChunkSpoken
  <2>2. response[job] = Nothing BY <1>9 DEF StreamChunk, Streams, StreamStages, Streaming
  <2> HIDE DEF piece
  <2>3. Grows(job, piece, n) BY <2>1 DEF Posted
  <2> QED BY <1>9, <1>g, <2>2, <2>3 DEF StreamChunk
<1>10. CASE RecordChunk BY <1>10, <1>r DEF RecordChunk
<1>11. CASE EndStream BY <1>11, <1>u DEF EndStream
<1>12. CASE SaveStreamed
  <2>1. said # Nothing /\ said \in Seq(Said) BY <1>12 DEF SaveStreamed, Audible, ReplyTypeOK
  <2>2. said \in Seq(Answers) BY <2>1, SaidIsAnswers
  <2>3. 1 \in DOMAIN said BY <2>1 DEF Nothing
  <2>4. PICK p \in DOMAIN posts : posts[p].piece = said[1]
    BY <1>12, <2>3 DEF SaveStreamed, Audible, Utterances
  <2>5. said[1][1] <= generations BY <1>p, <2>4
  <2>6. bocco_sent[job] BY <1>12 DEF SaveStreamed, Streams, StreamStages
  <2> QED BY <1>12, <1>s, <2>1, <2>2, <2>5, <2>6 DEF SaveStreamed
<1>13. CASE Settle BY <1>13, <1>u DEF Settle
<1>14. ASSUME NEW a \in Asides, SpeakAside(a) PROVE SavedSoFar'
  <2>1. PICK n \in 0..2 : Grows(a, AsideLine, n) BY <1>14, AsideSpoken
  <2> QED BY <1>14, <1>g, <2>1, Parties DEF SpeakAside
<1>15. ASSUME NEW a \in Asides, RecordAside(a) PROVE SavedSoFar'
  BY <1>15, <1>u DEF RecordAside
<1>16. CASE Interrupt BY <1>16, <1>u DEF Interrupt, LoseMemory
<1>17. CASE UNCHANGED vars BY <1>17, <1>u DEF vars, replyVars
<1> QED BY <1>1, <1>2, <1>3, <1>4, <1>5, <1>6, <1>7, <1>8, <1>9, <1>10, <1>11, <1>12,
           <1>13, <1>14, <1>15, <1>16, <1>17 DEF Next, Process, Outside

LEMMA UninterruptedStep ==
    IInv /\ ReplyTypeOK /\ InFlight /\ Audible /\ Replied /\ Streams /\ Generated
       /\ Uninterrupted /\ [Next]_vars
       => Uninterrupted'
<1> SUFFICES ASSUME IInv, ReplyTypeOK, InFlight, Audible, Replied, Streams, Generated,
                    Uninterrupted, [Next]_vars
             PROVE  Uninterrupted'
  OBVIOUS
<1> USE DEF Goto, NoPost, durableVars, worldVars, workerVars, queueVars, rowVars, loopVars,
            Streaming
<1> DEFINE Louder == Utterances \subseteq Utterances'
<1>s. posts' = posts => Louder BY Silence
<1>h. \A source, piece, n : Grows(source, piece, n) => Louder BY Hearing
<1>w. pc # "idle" => job \in Events BY AtWork
<1>u. ASSUME UNCHANGED <<pc, job, interruptions, response, bocco_sent, turns, fresh>>, Louder
      PROVE  Uninterrupted'
  BY <1>u DEF Uninterrupted
<1>k. ASSUME Louder, UNCHANGED <<interruptions, response, bocco_sent, turns>>,
             pc \in Streaming => (pc' \in Streaming /\ job' = job) \/ ~bocco_sent[job],
             pc' \notin {"delivering", "posted", "remembering"}
      PROVE  Uninterrupted'
  BY <1>k DEF Uninterrupted
<1> HIDE DEF Louder
<1>1. CASE Outside BY <1>1, <1>s, <1>u, OutsideStep DEF replyVars
<1>2. ASSUME NEW e \in Events, Claim(e) PROVE Uninterrupted'
  <2>1. pc = "idle" BY <1>2, MessageClaimed
  <2>2. interruptions' = interruptions BY <1>2 DEF Claim, ClaimNext
  <2> QED BY <1>2, <1>s, <1>k, <2>1, <2>2 DEF Claim
<1>3. CASE Receive
  <2>1. pc' \in {"replying", "done"} BY <1>3, Received
  <2> QED BY <1>3, <1>s, <1>k, <2>1 DEF Receive
<1>4. CASE Reply
  <2>1. pc = "replying" /\ fresh = FALSE /\ posts' = posts
        /\ UNCHANGED <<interruptions, bocco_sent, turns, fresh, job>>
    BY <1>4 DEF Reply, Streams, StreamStages
  <2>2. CASE pc' # "delivering" BY <1>4, <1>s, <1>k, <2>1, <2>2 DEF Reply
  <2>3. CASE pc' = "delivering"
    <3>1. \A e \in Events : response[e] # Nothing => response'[e] # Nothing
      <4>1. SaveResponseIfAbsent(<<NotHeard>>) =>
               \A e \in Events : response[e] # Nothing => response'[e] # Nothing
        BY <1>w, <2>1, Saved, FixedLines DEF Nothing
      <4> QED BY <1>4, <2>3, <4>1 DEF Reply
    <3> QED BY <1>s, <2>1, <2>3, <3>1 DEF Uninterrupted, Louder
  <2> QED BY <2>2, <2>3
<1>5. CASE Generate
  <2>1. pc = "generating" /\ posts' = posts /\ response[job] = Nothing
        /\ UNCHANGED <<interruptions, bocco_sent, turns, job>>
    BY <1>5 DEF Generate, Streams, StreamStages
  <2>2. CASE pc' = "failed" /\ UNCHANGED response BY <1>s, <1>k, <2>1, <2>2
  <2>3. CASE pc' = "delivering" /\ \E text \in Seq(Answers) : SaveResponseIfAbsent(text)
    <3>1. \A e \in Events \ {job} : response'[e] = response[e] BY <1>w, <2>1, <2>3, Saved
    <3>2. interruptions = 0 => ~bocco_sent[job] BY <1>w, <2>1 DEF Uninterrupted
    <3> QED BY <1>s, <2>1, <2>3, <3>1, <3>2 DEF Uninterrupted, Louder
  <2>4. <<<<generations + 1, 1>>>> \in Seq(Answers) /\ <<Apology>> \in Seq(Answers)
    BY FixedLines DEF ReplyTypeOK
  <2> QED BY <1>5, <2>2, <2>3, <2>4 DEF Generate
<1>6. CASE Deliver
  <2>1. pc = "delivering"
        /\ UNCHANGED <<interruptions, response, bocco_sent, turns, fresh, job>>
    BY <1>6 DEF Deliver
  <2>2. CASE bocco_sent[job]
    <3>1. pc' = "remembering" /\ posts' = posts BY <1>6, <2>2 DEF Deliver
    <3> QED BY <1>s, <2>1, <2>2, <3>1 DEF Uninterrupted, Louder
  <2>3. CASE ~bocco_sent[job]
    <3>1. PICK n \in 0..2, answered \in BOOLEAN :
             Posted(response[job][1], n, answered) /\ pc' = AfterPost(answered)
      BY <1>6, <2>3, ReplySpoken
    <3>2. response[job] # Nothing /\ response[job] \in Seq(Answers) BY <1>6, <2>3, ReplySpoken
    <3>3. Louder BY <1>h, <3>1 DEF Posted
    <3>4. CASE ~answered
      <4>1. pc' = "failed" BY <3>1, <3>4 DEF AfterPost
      <4> QED BY <1>k, <2>1, <3>3, <4>1
    <3>5. CASE answered
      <4>1. inflight' \in DOMAIN posts' /\ posts'[inflight'].source = job
            /\ posts'[inflight'].piece = response[job][1]
        BY <3>1, <3>5 DEF Posted, Grows
      <4>2. <<job, response[job][1]>> \in Utterances' BY <4>1 DEF Utterances
      <4>3. Len(response[job]) = 1
        BY <1>w, <2>1, <2>3, <3>2 DEF Generated, SavedSoFar, Sole
      <4>4. \A i \in DOMAIN response[job] : i = 1 BY <3>2, <4>3
      <4>5. pc' = "posted" BY <3>1, <3>5 DEF AfterPost
      <4> QED BY <2>1, <3>3, <4>2, <4>4, <4>5 DEF Uninterrupted, Louder
    <3> QED BY <3>4, <3>5
  <2> QED BY <2>2, <2>3
<1>7. CASE RecordDelivery
  <2>1. pc = "posted" /\ pc' = "remembering" /\ posts' = posts
        /\ UNCHANGED <<interruptions, response, turns, fresh, job>>
    BY <1>7 DEF RecordDelivery
  <2>2. response[job] # Nothing BY <2>1 DEF Replied
  <2>3. \A e \in Events \ {job} : bocco_sent'[e] = bocco_sent[e]
    BY <1>7 DEF RecordDelivery, ReplyTypeOK
  <2> QED BY <1>s, <2>1, <2>2, <2>3 DEF Uninterrupted, Louder
<1>8. CASE RecordTurn
  <2>1. pc = "remembering" /\ pc' = "done" /\ posts' = posts
        /\ UNCHANGED <<interruptions, response, bocco_sent, fresh, job>>
    BY <1>8 DEF RecordTurn
  <2>2. interruptions = 0 =>
           \A e \in Events : \A i \in DOMAIN turns'[e] : <<e, turns'[e][i]>> \in Utterances
    <3>1. CASE turns' = turns BY <3>1 DEF Uninterrupted
    <3>2. CASE fresh /\ turns' = [turns EXCEPT ![job] = response[job]]
      <4>1. \A e \in Events : \/ turns'[e] = turns[e]
                              \/ e = job /\ turns'[e] = response[job]
        BY <1>w, <2>1, <3>2 DEF ReplyTypeOK
      <4> QED BY <2>1, <3>2, <4>1 DEF Uninterrupted
    <3> QED BY <1>8, <3>1, <3>2 DEF RecordTurn
  <2> QED BY <1>s, <2>1, <2>2 DEF Uninterrupted, Louder
<1>9. CASE StreamChunk
  <2>1. PICK n \in 0..2, answered \in BOOLEAN :
           /\ Posted(<<generations, Len(said) + 1>>, n, answered)
           /\ answered => pc' = "chunk posted"
           /\ ~answered => \/ said = Nothing /\ pc' = "generating"
                           \/ said # Nothing /\ pc' \in {"streaming", "stream over"}
    BY <1>9, ChunkSpoken
  <2>2. Louder BY <1>h, <2>1 DEF Posted
  <2>3. pc = "streaming" /\ UNCHANGED <<interruptions, response, bocco_sent, turns, job>>
    BY <1>9 DEF StreamChunk
  <2>4. said = Nothing => ~bocco_sent[job] BY <2>3 DEF Streams, StreamStages
  <2> QED BY <1>k, <2>1, <2>2, <2>3, <2>4
<1>10. CASE RecordChunk
  <2>1. pc = "chunk posted" /\ pc' = "streaming" /\ posts' = posts
        /\ UNCHANGED <<interruptions, response, turns, fresh, job>>
    BY <1>10 DEF RecordChunk
  <2>2. \A e \in Events \ {job} : bocco_sent'[e] = bocco_sent[e]
    BY <1>10 DEF RecordChunk, ReplyTypeOK
  <2> QED BY <1>s, <2>1, <2>2 DEF Uninterrupted, Louder
<1>11. CASE EndStream
  <2>1. pc = "streaming" /\ posts' = posts
        /\ UNCHANGED <<interruptions, response, bocco_sent, turns, job>>
        /\ pc' = IF said = Nothing THEN "generating" ELSE "stream over"
    BY <1>11 DEF EndStream
  <2>2. said = Nothing => ~bocco_sent[job] BY <2>1 DEF Streams, StreamStages
  <2> QED BY <1>s, <1>k, <2>1, <2>2
<1>12. CASE SaveStreamed
  <2>1. pc = "stream over" /\ pc' = "remembering" /\ posts' = posts
        /\ UNCHANGED <<interruptions, bocco_sent, turns, job>> /\ SaveResponseIfAbsent(said)
    BY <1>12 DEF SaveStreamed
  <2>2. said \in Seq(Answers) BY SaidIsAnswers DEF ReplyTypeOK
  <2>3. /\ response[job] = Nothing
        /\ response'[job] = said
        /\ \A e \in Events \ {job} : response'[e] = response[e]
    BY <1>w, <2>1, <2>2, Saved DEF Streams, StreamStages
  <2>4. said # Nothing /\ \A i \in DOMAIN said : <<job, said[i]>> \in Utterances
    BY <2>1 DEF Audible
  <2> QED BY <1>s, <2>1, <2>3, <2>4 DEF Uninterrupted, Louder
<1>13. CASE Settle
  <2>1. pc \in {"done", "failed"} BY <1>13 DEF Settle
  <2>2. interruptions' = interruptions BY <1>13, Settled
  <2> QED BY <1>13, <1>s, <1>k, <2>1, <2>2 DEF Settle
<1>14. ASSUME NEW a \in Asides, SpeakAside(a) PROVE Uninterrupted'
  BY <1>14, <1>h, <1>u, AsideSpoken DEF SpeakAside
<1>15. ASSUME NEW a \in Asides, RecordAside(a) PROVE Uninterrupted'
  BY <1>15, <1>s, <1>u DEF RecordAside
<1>16. CASE Interrupt
  <2>1. interruptions' # 0 BY <1>16, Interrupted
  <2> QED BY <2>1 DEF Uninterrupted
<1>17. CASE UNCHANGED vars BY <1>17, <1>s, <1>u DEF vars, replyVars
<1> QED BY <1>1, <1>2, <1>3, <1>4, <1>5, <1>6, <1>7, <1>8, <1>9, <1>10, <1>11, <1>12,
           <1>13, <1>14, <1>15, <1>16, <1>17 DEF Next, Process, Outside
-----------------------------------------------------------------------------
(*               What was settled, filed and heard of a message             *)

LEMMA AnsweredStep ==
    IInv /\ ReplyTypeOK /\ Audible /\ Replied /\ Streams /\ Answered /\ [Next]_vars
       => Answered'
<1> SUFFICES ASSUME IInv, ReplyTypeOK, Audible, Replied, Streams, Answered, [Next]_vars
             PROVE  Answered'
  OBVIOUS
<1> USE DEF Goto, durableVars, worldVars, workerVars, queueVars, rowVars, loopVars
<1> DEFINE Louder == Sources \subseteq Sources'
<1>s. posts' = posts => Louder BY Silence
<1>h. \A source, piece, n : Grows(source, piece, n) => Louder BY Hearing
<1>p. Humans \subseteq Events BY Parties
<1>w. pc # "idle" => job \in Events BY AtWork
<1>u. ASSUME Louder,
             \A e \in Events : status'[e] \in Terminal => status'[e] = status[e],
             \A e \in Events : response[e] # Nothing => response'[e] # Nothing
      PROVE  Answered'
  BY <1>p, <1>u, SetupKept DEF Answered, Terminal
<1>r. ASSUME posts' = posts, status' = status, pc # "idle",
             NEW text \in Seq(Answers), SaveResponseIfAbsent(text)
      PROVE  Answered'
  <2>1. \A e \in Events : response[e] # Nothing => response'[e] # Nothing
    BY <1>w, <1>r, Saved
  <2> QED BY <1>s, <1>u, <1>r, <2>1
<1> HIDE DEF Louder
<1>1. CASE Outside BY <1>1, <1>s, <1>u, OutsideStep DEF replyVars, Terminal
<1>2. ASSUME NEW e \in Events, Claim(e) PROVE Answered'
  <2>1. \A x \in Events : status'[x] \in Terminal => status'[x] = status[x]
    BY <1>2, MessageClaimed DEF Terminal
  <2> QED BY <1>2, <1>s, <1>u, <2>1 DEF Claim
<1>3. CASE Receive BY <1>3, <1>s, <1>u DEF Receive
<1>4. CASE Reply
  <2>1. <<NotHeard>> \in Seq(Answers) BY FixedLines
  <2> QED BY <1>4, <1>s, <1>r, <1>u, <2>1 DEF Reply
<1>5. CASE Generate
  <2>1. <<<<generations + 1, 1>>>> \in Seq(Answers) /\ <<Apology>> \in Seq(Answers)
    BY FixedLines DEF ReplyTypeOK
  <2> QED BY <1>5, <1>s, <1>r, <1>u, <2>1 DEF Generate
<1>6. CASE Deliver
  <2>1. CASE bocco_sent[job] BY <1>6, <1>s, <1>u, <2>1 DEF Deliver
  <2>2. CASE ~bocco_sent[job]
    <3>1. PICK n \in 0..2, answered \in BOOLEAN : Posted(response[job][1], n, answered)
      BY <1>6, <2>2, ReplySpoken
    <3>2. Louder BY <1>h, <3>1 DEF Posted
    <3> QED BY <1>6, <1>u, <3>2 DEF Deliver
  <2> QED BY <2>1, <2>2
<1>7. CASE RecordDelivery BY <1>7, <1>s, <1>u DEF RecordDelivery
<1>8. CASE RecordTurn BY <1>8, <1>s, <1>u DEF RecordTurn
<1>9. CASE StreamChunk
  <2>1. PICK n \in 0..2, answered \in BOOLEAN :
           Posted(<<generations, Len(said) + 1>>, n, answered)
    BY <1>9, ChunkSpoken
  <2>2. Louder BY <1>h, <2>1 DEF Posted
  <2> QED BY <1>9, <1>u, <2>2 DEF StreamChunk
<1>10. CASE RecordChunk BY <1>10, <1>s, <1>u DEF RecordChunk
<1>11. CASE EndStream BY <1>11, <1>s, <1>u DEF EndStream
<1>12. CASE SaveStreamed
  <2>1. said \in Seq(Answers) BY SaidIsAnswers DEF ReplyTypeOK
  <2> QED BY <1>12, <1>r, <2>1 DEF SaveStreamed
<1>13. CASE Settle
  <2>1. posts' = posts /\ response' = response BY <1>13 DEF Settle
  <2>2. \A e \in Humans : e # job => status'[e] = status[e] BY <1>13, <1>p, Settled
  <2>3. CASE pc = "done" /\ status'[job] = "completed"
    <3>1. job \in Humans => job \in Sources \/ setup.form[job] # "unheard"
      BY <2>3 DEF Audible
    <3> QED BY <1>s, <2>1, <2>2, <2>3, <3>1, SetupKept DEF Answered, Louder
  <2>4. CASE status'[job] = "pending"
    BY <1>s, <2>1, <2>2, <2>4, SetupKept DEF Answered, Louder
  <2>5. CASE pc = "failed" /\ status'[job] = "dead_letter" /\ ~(attempts[job] < MaxAttempts)
    <3>1. response[job] # Nothing BY <2>5 DEF Replied
    <3> QED BY <1>s, <2>1, <2>2, <2>5, <3>1, SetupKept DEF Answered, Louder
  <2> QED BY <1>13, <2>3, <2>4, <2>5, Settled
<1>14. ASSUME NEW a \in Asides, SpeakAside(a) PROVE Answered'
  <2>1. Louder BY <1>14, <1>h, AsideSpoken
  <2> QED BY <1>14, <1>u, <2>1 DEF SpeakAside
<1>15. ASSUME NEW a \in Asides, RecordAside(a) PROVE Answered'
  BY <1>15, <1>s, <1>u DEF RecordAside
<1>16. CASE Interrupt
  <2>1. \A x \in Events : status'[x] \in Terminal => status'[x] = status[x]
    BY <1>16, Interrupted DEF Terminal
  <2> QED BY <1>16, <1>s, <1>u, <2>1 DEF Interrupt, LoseMemory
<1>17. CASE UNCHANGED vars BY <1>17, <1>s, <1>u DEF vars, replyVars
<1> QED BY <1>1, <1>2, <1>3, <1>4, <1>5, <1>6, <1>7, <1>8, <1>9, <1>10, <1>11, <1>12,
           <1>13, <1>14, <1>15, <1>16, <1>17 DEF Next, Process, Outside

LEMMA OneGenerationStep ==
    IInv /\ ReplyTypeOK /\ InFlight /\ Streams /\ OneGeneration /\ [Next]_vars
       => OneGeneration'
<1> SUFFICES ASSUME IInv, ReplyTypeOK, InFlight, Streams, OneGeneration, [Next]_vars
             PROVE  OneGeneration'
  OBVIOUS
<1> USE DEF durableVars, queueVars
<1>w. pc # "idle" => job \in Events BY AtWork
<1>u. ASSUME outbound' = outbound PROVE OneGeneration' BY <1>u DEF OneGeneration
<1>f. ASSUME NEW source, NEW chunk, NEW p, Files(source, chunk, p),
             \A r \in outbound : r.source = source => r.piece[1] = posts[p].piece[1]
      PROVE  OneGeneration'
  <2>1. \A r \in outbound' \ outbound :
           r.source = source /\ r.piece[1] = posts[p].piece[1]
    BY <1>f DEF Files
  <2>2. \A r \in outbound' : r.source = source => r.piece[1] = posts[p].piece[1]
    BY <1>f, <2>1
  <2> QED BY <2>1, <2>2 DEF OneGeneration
<1>1. CASE Outside BY <1>1, <1>u, OutsideStep DEF replyVars
<1>2. ASSUME NEW e \in Events, Claim(e) PROVE OneGeneration' BY <1>2, <1>u DEF Claim
<1>3. CASE Receive
  <2>1. \A s \in outbound' : \E r \in outbound : Alike(r, s) BY <1>3, Received
  <2> QED BY <2>1 DEF Alike, OneGeneration
<1>4. CASE Reply BY <1>4, <1>u DEF Reply
<1>5. CASE Generate BY <1>5, <1>u DEF Generate
<1>6. CASE Deliver BY <1>6, <1>u DEF Deliver
<1>7. CASE RecordDelivery
  <2>1. pc = "posted" BY <1>7 DEF RecordDelivery
  <2>2. \A r \in outbound : r.source # job
    BY <1>w, <2>1 DEF Streams, StreamStages, Filed
  <2> QED BY <1>7, <1>f, <2>2, ReplyFiled
<1>8. CASE RecordTurn BY <1>8, <1>u DEF RecordTurn
<1>9. CASE StreamChunk BY <1>9, <1>u DEF StreamChunk
<1>10. CASE RecordChunk
  <2>1. pc = "chunk posted" BY <1>10 DEF RecordChunk
  <2>2. \A r \in outbound : r.source = job => r.piece[1] = generations
    BY <2>1 DEF Streams, StreamedSoFar
  <2>3. posts[inflight].piece[1] = generations BY <2>1 DEF InFlight
  <2> QED BY <1>10, <1>f, <2>2, <2>3, ChunkFiled
<1>11. CASE EndStream BY <1>11, <1>u DEF EndStream
<1>12. CASE SaveStreamed BY <1>12, <1>u DEF SaveStreamed
<1>13. CASE Settle BY <1>13, <1>u DEF Settle
<1>14. ASSUME NEW a \in Asides, SpeakAside(a) PROVE OneGeneration'
  BY <1>14, <1>u DEF SpeakAside
<1>15. ASSUME NEW a \in Asides, RecordAside(a) PROVE OneGeneration'
  <2>1. aside[a] \in DOMAIN posts /\ posts[aside[a]].source = a
    BY <1>15 DEF RecordAside, InFlight
  <2>2. posts[aside[a]].piece = AsideLine BY <2>1, PostsTyped, Parties
  <2>3. \A r \in outbound : r.source = a => r.piece = AsideLine
    BY Parties DEF ReplyTypeOK, Records
  <2> QED BY <1>15, <1>f, <2>2, <2>3, AsideFiled
<1>16. CASE Interrupt BY <1>16, <1>u DEF Interrupt, LoseMemory
<1>17. CASE UNCHANGED vars BY <1>17, <1>u DEF vars, replyVars
<1> QED BY <1>1, <1>2, <1>3, <1>4, <1>5, <1>6, <1>7, <1>8, <1>9, <1>10, <1>11, <1>12,
           <1>13, <1>14, <1>15, <1>16, <1>17 DEF Next, Process, Outside

LEMMA SentencesInOrderStep ==
    IInv /\ ReplyTypeOK /\ Replied /\ Streams /\ Generated /\ SentencesInOrder /\ [Next]_vars
       => SentencesInOrder'
<1> SUFFICES ASSUME IInv, ReplyTypeOK, Replied, Streams, Generated, SentencesInOrder,
                    [Next]_vars
             PROVE  SentencesInOrder'
  OBVIOUS
<1> USE DEF worldVars
<1>w. pc # "idle" => job \in Events BY AtWork
<1>u. ASSUME posts' = posts PROVE SentencesInOrder' BY <1>u DEF SentencesInOrder
<1>g. ASSUME NEW source, NEW piece, NEW n \in 0..2, Grows(source, piece, n),
             piece[2] \in Nat,
             source \in Events =>
                \A p \in DOMAIN posts :
                   posts[p].source = source /\ posts[p].piece[1] = piece[1] =>
                      posts[p].piece[2] <= piece[2]
      PROVE  SentencesInOrder'
  <2> SUFFICES ASSUME NEW p \in DOMAIN posts', NEW q \in DOMAIN posts',
                      posts'[p].source \in Events, posts'[q].source = posts'[p].source,
                      p < q, posts'[p].piece[1] = posts'[q].piece[1]
               PROVE  posts'[p].piece[2] <= posts'[q].piece[2]
    BY DEF SentencesInOrder
  <2>1. CASE q \in DOMAIN posts
    <3>1. p \in DOMAIN posts
      <4>1. Len(posts) \in Nat BY DEF ReplyTypeOK
      <4> QED BY <1>g, <2>1, <4>1 DEF Grows
    <3> QED BY <1>g, <2>1, <3>1 DEF Grows, SentencesInOrder
  <2>2. CASE q \notin DOMAIN posts
    <3>1. posts'[q].source = source /\ posts'[q].piece = piece BY <1>g, <2>2 DEF Grows
    <3>2. CASE p \in DOMAIN posts
      <4>1. posts'[p] = posts[p] BY <1>g, <3>2 DEF Grows
      <4> QED BY <1>g, <3>1, <3>2, <4>1
    <3>3. CASE p \notin DOMAIN posts
      <4>1. posts'[p].piece = piece BY <1>g, <3>3 DEF Grows
      <4> QED BY <1>g, <3>1, <4>1
    <3> QED BY <3>2, <3>3
  <2> QED BY <2>1, <2>2
<1>1. CASE Outside BY <1>1, <1>u, OutsideStep DEF replyVars
<1>2. ASSUME NEW e \in Events, Claim(e) PROVE SentencesInOrder' BY <1>2, <1>u DEF Claim
<1>3. CASE Receive BY <1>3, <1>u DEF Receive
<1>4. CASE Reply BY <1>4, <1>u DEF Reply
<1>5. CASE Generate BY <1>5, <1>u DEF Generate
<1>6. CASE Deliver
  <2>1. CASE bocco_sent[job] BY <1>6, <1>u, <2>1 DEF Deliver
  <2>2. CASE ~bocco_sent[job]
    <3>1. PICK n \in 0..2, answered \in BOOLEAN : Posted(response[job][1], n, answered)
      BY <1>6, <2>2, ReplySpoken
    <3>2. Grows(job, response[job][1], n) BY <3>1 DEF Posted
    <3>3. response[job] # Nothing /\ response[job][1][2] \in Nat
      BY <1>6, <2>2, ReplySpoken, PiecesTyped
    <3>4. \A p \in DOMAIN posts :
             posts[p].source = job /\ posts[p].piece[1] = response[job][1][1] =>
                posts[p].piece = response[job][1]
      BY <1>6, <1>w, <2>2, <3>3 DEF Deliver, Generated, SavedSoFar, Sole
    <3>5. \A p \in DOMAIN posts :
             posts[p].source = job /\ posts[p].piece[1] = response[job][1][1] =>
                posts[p].piece[2] <= response[job][1][2]
      BY <3>3, <3>4
    <3> QED BY <1>g, <3>2, <3>3, <3>5
  <2> QED BY <2>1, <2>2
<1>7. CASE RecordDelivery BY <1>7, <1>u DEF RecordDelivery
<1>8. CASE RecordTurn BY <1>8, <1>u DEF RecordTurn
<1>9. CASE StreamChunk
  <2> DEFINE piece == <<generations, Len(said) + 1>>
  <2>1. PICK n \in 0..2, answered \in BOOLEAN : Posted(piece, n, answered)
    BY <1>9, ChunkSpoken
  <2>2. piece[1] = generations /\ piece[2] = Len(said) + 1 OBVIOUS
  <2>3. Len(said) \in Nat BY DEF ReplyTypeOK
  <2> HIDE DEF piece
  <2>4. Grows(job, piece, n) BY <2>1 DEF Posted
  <2>5. \A p \in DOMAIN posts :
           posts[p].source = job /\ posts[p].piece[1] = generations =>
              posts[p].piece[2] <= Len(said) + 1
    BY <1>9 DEF StreamChunk, Streams, StreamedSoFar
  <2>6. piece[2] \in Nat BY <2>2, <2>3
  <2> QED BY <1>g, <2>2, <2>4, <2>5, <2>6
<1>10. CASE RecordChunk BY <1>10, <1>u DEF RecordChunk
<1>11. CASE EndStream BY <1>11, <1>u DEF EndStream
<1>12. CASE SaveStreamed BY <1>12, <1>u DEF SaveStreamed
<1>13. CASE Settle BY <1>13, <1>u DEF Settle
<1>14. ASSUME NEW a \in Asides, SpeakAside(a) PROVE SentencesInOrder'
  <2>1. PICK n \in 0..2 : Grows(a, AsideLine, n) BY <1>14, AsideSpoken
  <2>2. AsideLine[2] \in Nat /\ a \notin Events BY PiecesTyped, Parties
  <2> QED BY <1>g, <2>1, <2>2
<1>15. ASSUME NEW a \in Asides, RecordAside(a) PROVE SentencesInOrder'
  BY <1>15, <1>u DEF RecordAside
<1>16. CASE Interrupt BY <1>16, <1>u DEF Interrupt, LoseMemory
<1>17. CASE UNCHANGED vars BY <1>17, <1>u DEF vars, replyVars
<1> QED BY <1>1, <1>2, <1>3, <1>4, <1>5, <1>6, <1>7, <1>8, <1>9, <1>10, <1>11, <1>12,
           <1>13, <1>14, <1>15, <1>16, <1>17 DEF Next, Process, Outside
-----------------------------------------------------------------------------
(*                    A reply that is not streamed                          *)

(* How often an event was answered, before and after a post.                *)
LEMMA HeardTyped == ASSUME ReplyTypeOK PROVE Heard \in [Events -> Nat]
<1> SUFFICES ASSUME NEW e \in Events PROVE Cardinality(Of(posts, e)) \in Nat
  BY DEF Heard
<1>1. Len(posts) \in Int /\ DOMAIN posts = 1..Len(posts) BY DEF ReplyTypeOK
<1>2. IsFiniteSet(1..Len(posts)) BY <1>1, FS_Interval
<1>3. Of(posts, e) \in SUBSET (1..Len(posts)) BY <1>1 DEF Of
<1>4. IsFiniteSet(Of(posts, e)) BY <1>2, <1>3, FS_Subset
<1> QED BY <1>4, FS_CardinalityType

LEMMA MorePosts ==
    ASSUME ReplyTypeOK, NEW source, NEW piece, NEW n \in 0..2, Grows(source, piece, n)
    PROVE  /\ Heard' \in [Events -> Nat]
           /\ \A e \in Events : e # source => Heard'[e] = Heard[e]
           /\ source \in Events => Heard'[source] <= Heard[source] + n
<1>1. ASSUME NEW e, e # source PROVE Of(posts', e) = Of(posts, e)
  BY <1>1 DEF Grows, Of
<1>2. Len(posts) \in Int /\ n \in Int BY DEF ReplyTypeOK
<1> DEFINE before == Of(posts, source)
           after == Of(posts', source)
           lo == Len(posts) + 1
           hi == Len(posts) + n
           new == lo..hi
<1>3. lo \in Int /\ hi \in Int /\ (IF lo > hi THEN 0 ELSE hi - lo + 1) = n BY <1>2
<1>4. IsFiniteSet(before)
  <2>1. before \in SUBSET (1..Len(posts)) BY DEF Grows, Of
  <2>2. IsFiniteSet(1..Len(posts)) BY <1>2, FS_Interval
  <2> QED BY <2>1, <2>2, FS_Subset
<1>5. after \in SUBSET (before \cup new)
  BY <1>2 DEF Grows, Of
<1> HIDE DEF lo, hi
<1>6. IsFiniteSet(new) /\ Cardinality(new) = n BY <1>3, FS_Interval
<1> HIDE DEF before, new, after
<1>7. /\ IsFiniteSet(before \cup new)
      /\ Cardinality(before \cup new) =
            Cardinality(before) + Cardinality(new) - Cardinality(before \cap new)
  BY <1>4, <1>6, FS_Union
<1>8. before \cap new \in SUBSET new OBVIOUS
<1>9. IsFiniteSet(before \cap new) BY <1>6, <1>8, FS_Subset
<1>10. /\ IsFiniteSet(after)
       /\ Cardinality(after) <= Cardinality(before \cup new)
  BY <1>5, <1>7, FS_Subset
<1>11. /\ Cardinality(before) \in Nat /\ Cardinality(before \cap new) \in Nat
       /\ Cardinality(before \cup new) \in Nat /\ Cardinality(after) \in Nat
  BY <1>4, <1>7, <1>9, <1>10, FS_CardinalityType
<1> DEFINE b == Cardinality(before)
           m == Cardinality(before \cap new)
           u == Cardinality(before \cup new)
           a == Cardinality(after)
<1>12. b \in Nat /\ m \in Nat /\ u \in Nat /\ a \in Nat /\ u = b + n - m /\ a <= u
  BY <1>6, <1>7, <1>10, <1>11
<1> HIDE DEF b, m, u, a
<1>13. a <= b + n BY <1>12
<1>14. source \in Events => Heard[source] = b /\ Heard'[source] = a
  BY DEF Heard, b, a, before, after
<1>15. \A e \in Events : e # source => Heard'[e] = Heard[e] BY <1>1 DEF Heard
<1>16. Heard' \in [Events -> Nat]
  <2> SUFFICES ASSUME NEW e \in Events PROVE Heard'[e] \in Nat BY DEF Heard
  <2>1. CASE e = source BY <1>12, <1>14, <2>1
  <2>2. CASE e # source BY <1>15, <2>2, HeardTyped
  <2> QED BY <2>1, <2>2
<1> QED BY <1>13, <1>14, <1>15, <1>16

LEMMA NotStreaming ==
    ASSUME ReplyTypeOK, ~setup.streams, pc \notin Streaming, IInv, [Next]_vars
    PROVE  pc' \notin Streaming
<1> USE DEF Goto, Streaming, durableVars, worldVars, workerVars, queueVars, rowVars, loopVars
<1>1. CASE Outside BY <1>1, OutsideStep DEF replyVars
<1>2. ASSUME NEW e \in Events, Claim(e) PROVE pc' \notin Streaming BY <1>2 DEF Claim
<1>3. CASE Receive BY <1>3, Received
<1>4. CASE Reply BY <1>4 DEF Reply, MayStream
<1>5. CASE Generate BY <1>5 DEF Generate
<1>6. CASE Deliver
  <2>1. CASE bocco_sent[job] BY <1>6, <2>1 DEF Deliver
  <2>2. CASE ~bocco_sent[job]
    <3>1. PICK answered \in BOOLEAN : pc' = AfterPost(answered) BY <1>6, <2>2 DEF Deliver
    <3> QED BY <3>1 DEF AfterPost
  <2> QED BY <2>1, <2>2
<1>7. CASE RecordDelivery \/ RecordTurn \/ SaveStreamed \/ Settle
  BY <1>7 DEF RecordDelivery, RecordTurn, SaveStreamed, Settle
<1>8. CASE StreamChunk \/ RecordChunk \/ EndStream
  BY <1>8 DEF StreamChunk, RecordChunk, EndStream
<1>9. ASSUME NEW a \in Asides, SpeakAside(a) \/ RecordAside(a) PROVE pc' \notin Streaming
  BY <1>9 DEF SpeakAside, RecordAside
<1>10. CASE Interrupt BY <1>10, Interrupted
<1>11. CASE UNCHANGED vars BY <1>11 DEF vars, replyVars
<1> QED BY <1>1, <1>2, <1>3, <1>4, <1>5, <1>6, <1>7, <1>8, <1>9, <1>10, <1>11
        DEF Next, Process, Outside

LEMMA OneAnswerStep ==
    ASSUME IInv, ReplyTypeOK, Audible, Replied, Streams, pc \notin Streaming, OneAnswer,
           [Next]_vars
    PROVE  OneAnswer'
<1> USE DEF Goto, durableVars, worldVars, workerVars, queueVars, rowVars, loopVars
<1>w. pc # "idle" => job \in Events BY AtWork
<1>u. ASSUME UNCHANGED <<posts, response>> PROVE OneAnswer' BY <1>u DEF OneAnswer
<1>s. ASSUME NEW text \in Seq(Answers), SaveResponseIfAbsent(text), pc # "idle",
             posts' = posts
      PROVE  OneAnswer'
  <2>1. /\ response'[job] = IF response[job] = Nothing THEN text ELSE response[job]
        /\ \A e \in Events \ {job} : response'[e] = response[e]
    BY <1>w, <1>s, Saved
  <2>2. \A p \in DOMAIN posts : posts[p].source \in Events =>
           response'[posts[p].source] = response[posts[p].source]
    BY <2>1 DEF OneAnswer
  <2> QED BY <1>s, <2>2 DEF OneAnswer
<1>g. ASSUME NEW source, NEW piece, NEW n, Grows(source, piece, n), response' = response,
             source \in Events => response[source] # Nothing /\ piece = response[source][1]
      PROVE  OneAnswer'
  BY <1>g DEF Grows, OneAnswer
<1>1. CASE Outside BY <1>1, <1>u, OutsideStep DEF replyVars
<1>2. ASSUME NEW e \in Events, Claim(e) PROVE OneAnswer' BY <1>2, <1>u DEF Claim
<1>3. CASE Receive BY <1>3, <1>u DEF Receive
<1>4. CASE Reply
  <2>1. <<NotHeard>> \in Seq(Answers) BY FixedLines
  <2> QED BY <1>4, <1>u, <1>s, <2>1 DEF Reply
<1>5. CASE Generate
  <2>1. <<<<generations + 1, 1>>>> \in Seq(Answers) /\ <<Apology>> \in Seq(Answers)
    BY FixedLines DEF ReplyTypeOK
  <2> QED BY <1>5, <1>u, <1>s, <2>1 DEF Generate
<1>6. CASE Deliver
  <2>1. CASE bocco_sent[job] BY <1>6, <1>u, <2>1 DEF Deliver
  <2>2. CASE ~bocco_sent[job]
    <3>1. PICK n \in 0..2, answered \in BOOLEAN : Posted(response[job][1], n, answered)
      BY <1>6, <2>2, ReplySpoken
    <3>2. Grows(job, response[job][1], n) BY <3>1 DEF Posted
    <3>3. response[job] # Nothing BY <1>6, <2>2, ReplySpoken
    <3> QED BY <1>6, <1>g, <3>2, <3>3 DEF Deliver
  <2> QED BY <2>1, <2>2
<1>7. CASE RecordDelivery BY <1>7, <1>u DEF RecordDelivery
<1>8. CASE RecordTurn BY <1>8, <1>u DEF RecordTurn
<1>9. CASE StreamChunk \/ RecordChunk \/ EndStream \/ SaveStreamed
  BY <1>9 DEF StreamChunk, RecordChunk, EndStream, SaveStreamed, Streaming
<1>10. CASE Settle BY <1>10, <1>u DEF Settle
<1>11. ASSUME NEW a \in Asides, SpeakAside(a) PROVE OneAnswer'
  <2>1. PICK n \in 0..2 : Grows(a, AsideLine, n) BY <1>11, AsideSpoken
  <2>2. response' = response /\ a \notin Events BY <1>11, Parties DEF SpeakAside
  <2> QED BY <1>g, <2>1, <2>2
<1>12. ASSUME NEW a \in Asides, RecordAside(a) PROVE OneAnswer'
  BY <1>12, <1>u DEF RecordAside
<1>13. CASE Interrupt BY <1>13, <1>u DEF Interrupt, LoseMemory
<1>14. CASE UNCHANGED vars BY <1>14, <1>u DEF vars, replyVars
<1> QED BY <1>1, <1>2, <1>3, <1>4, <1>5, <1>6, <1>7, <1>8, <1>9, <1>10, <1>11, <1>12,
           <1>13, <1>14 DEF Next, Process, Outside

LEMMA FewPostsStep ==
    ASSUME IInv, ReplyTypeOK, Replied, pc \notin Streaming, FewPosts, [Next]_vars
    PROVE  FewPosts'
<1> USE DEF Goto, durableVars, worldVars, workerVars, queueVars, rowVars, loopVars
<1>w. pc # "idle" => job \in Events BY AtWork
<1>n. faults \in Nat /\ interruptions \in Nat BY DEF ReplyTypeOK, IInv, TypeOK
<1>c. Heard \in [Events -> Nat] BY HeardTyped
<1>h. posts' = posts => Heard' = Heard BY DEF Heard
<1>k. ASSUME posts' = posts, UNCHANGED <<faults, interruptions>>, Known \subseteq Known'
      PROVE  FewPosts'
  BY <1>h, <1>k DEF FewPosts
<1>u. ASSUME posts' = posts, UNCHANGED <<faults, interruptions, bocco_sent>>,
             pc # "posted" \/ UNCHANGED <<pc, job>>
      PROVE  FewPosts'
  BY <1>k, <1>u DEF Known
<1>1. CASE Outside BY <1>1, <1>u, OutsideStep DEF replyVars
<1>2. ASSUME NEW e \in Events, Claim(e) PROVE FewPosts'
  <2>1. pc = "idle" /\ interruptions' = interruptions
    BY <1>2, MessageClaimed DEF Claim, ClaimNext
  <2> QED BY <1>2, <1>u, <2>1 DEF Claim
<1>3. CASE Receive BY <1>3, <1>u DEF Receive
<1>4. CASE Reply BY <1>4, <1>u DEF Reply
<1>5. CASE Generate BY <1>5, <1>u DEF Generate
<1>6. CASE Deliver
  <2>1. CASE bocco_sent[job] BY <1>6, <1>u, <2>1 DEF Deliver
  <2>2. CASE ~bocco_sent[job]
    <3>1. PICK n \in 0..2, answered \in BOOLEAN :
             Posted(response[job][1], n, answered) /\ pc' = AfterPost(answered)
      BY <1>6, <2>2, ReplySpoken
    <3>2. Grows(job, response[job][1], n) BY <3>1 DEF Posted
    <3>3. pc = "delivering" /\ UNCHANGED <<job, bocco_sent, interruptions>> /\ job \in Events
      BY <1>6, <1>w DEF Deliver
    <3>p. faults' = faults + (IF answered THEN n - 1 ELSE n) /\ faults' >= faults
          /\ (answered => pc' = "posted")
      BY <3>1 DEF Posted, AfterPost
    <3>4. faults' = faults + (IF answered THEN n - 1 ELSE n) /\ faults' >= faults
          /\ faults' \in Nat /\ (answered => pc' = "posted")
      BY <1>n, <3>p
    <3>5. job \notin Known /\ (answered => job \in Known')
      BY <2>2, <3>3, <3>4 DEF Known
    <3>6. \A e \in Events \ {job} : e \in Known => e \in Known' BY <3>3 DEF Known
    <3>7. /\ Heard' \in [Events -> Nat] /\ Heard'[job] <= Heard[job] + n
          /\ \A e \in Events : e # job => Heard'[e] = Heard[e]
      BY <3>2, <3>3, MorePosts
    <3>8. ASSUME NEW e \in Events \ {job}
          PROVE  /\ Heard'[e] <= faults' + interruptions' + 1
                 /\ e \notin Known' => Heard'[e] <= faults' + interruptions'
      <4>1. Heard[e] <= faults + interruptions + 1
            /\ (e \notin Known' => Heard[e] <= faults + interruptions)
        BY <3>6 DEF FewPosts
      <4>2. Heard'[e] = Heard[e] /\ Heard[e] \in Nat BY <1>c, <3>7
      <4> QED BY <1>n, <3>3, <3>4, <4>1, <4>2
    <3>9. /\ Heard'[job] <= faults' + interruptions' + 1
          /\ job \notin Known' => Heard'[job] <= faults' + interruptions'
      <4>1. Heard[job] <= faults + interruptions /\ Heard[job] \in Nat /\ Heard'[job] \in Nat
        BY <1>c, <3>3, <3>5, <3>7 DEF FewPosts
      <4>2. CASE answered
        <5>1. faults' = faults + n - 1 BY <3>4, <4>2
        <5>2. Heard'[job] <= faults' + interruptions + 1 BY <1>n, <3>7, <4>1, <5>1
        <5> QED BY <3>3, <3>5, <4>2, <5>2
      <4>3. CASE ~answered
        <5>1. faults' = faults + n BY <3>4, <4>3
        <5>2. Heard'[job] <= faults' + interruptions BY <1>n, <3>7, <4>1, <5>1
        <5>3. Heard'[job] <= faults' + interruptions + 1
          BY <1>n, <3>4, <4>1, <5>2
        <5> QED BY <3>3, <5>2, <5>3
      <4> QED BY <4>2, <4>3
    <3> QED BY <3>8, <3>9 DEF FewPosts
  <2> QED BY <2>1, <2>2
<1>7. CASE RecordDelivery
  <2>1. Known \subseteq Known'
    BY <1>7, <1>w DEF RecordDelivery, Known, ReplyTypeOK
  <2> QED BY <1>7, <1>k, <2>1 DEF RecordDelivery
<1>8. CASE RecordTurn BY <1>8, <1>u DEF RecordTurn
<1>9. CASE StreamChunk \/ RecordChunk \/ EndStream \/ SaveStreamed
  BY <1>9 DEF StreamChunk, RecordChunk, EndStream, SaveStreamed, Streaming
<1>10. CASE Settle
  <2>1. pc \in {"done", "failed"} /\ interruptions' = interruptions
    BY <1>10, Settled DEF Settle
  <2> QED BY <1>10, <1>u, <2>1 DEF Settle
<1>m. ASSUME Heard' = Heard, Known' = Known, faults' >= faults, faults' \in Nat,
             interruptions' = interruptions
      PROVE  FewPosts'
  <2> SUFFICES ASSUME NEW e \in Events
               PROVE  /\ Heard[e] <= faults' + interruptions + 1
                      /\ e \notin Known => Heard[e] <= faults' + interruptions
    BY <1>m DEF FewPosts
  <2>1. Heard[e] \in Nat BY <1>c
  <2> QED BY <1>n, <1>m, <2>1 DEF FewPosts
<1>11. ASSUME NEW a \in Asides, SpeakAside(a) PROVE FewPosts'
  <2>p. PICK n \in 0..2, answered \in BOOLEAN :
           /\ Grows(a, AsideLine, n) /\ faults' >= faults
           /\ faults' = faults + IF answered THEN n - 1 ELSE n
    BY <1>11, AsideSpoken
  <2>1. Grows(a, AsideLine, n) /\ faults' >= faults /\ faults' \in Nat BY <1>n, <2>p
  <2>2. UNCHANGED <<pc, job, bocco_sent, interruptions>> BY <1>11 DEF SpeakAside
  <2>3. \A e \in Events : Heard'[e] = Heard[e] BY <2>1, MorePosts, Parties
  <2>4. Heard' = Heard BY <2>3 DEF Heard
  <2>5. Known' = Known BY <2>2 DEF Known
  <2> QED BY <1>m, <2>1, <2>2, <2>4, <2>5
<1>12. ASSUME NEW a \in Asides, RecordAside(a) PROVE FewPosts'
  BY <1>12, <1>u DEF RecordAside
<1>13. CASE Interrupt
  <2>1. posts' = posts /\ UNCHANGED <<faults, bocco_sent>> /\ interruptions' = interruptions + 1
    BY <1>13, Interrupted DEF Interrupt, LoseMemory
  <2> SUFFICES ASSUME NEW e \in Events
               PROVE  /\ Heard[e] <= faults + (interruptions + 1) + 1
                      /\ Heard[e] <= faults + (interruptions + 1)
    BY <1>h, <2>1 DEF FewPosts
  <2>2. Heard[e] \in Nat BY <1>c
  <2> QED BY <1>n, <2>2 DEF FewPosts
<1>14. CASE UNCHANGED vars BY <1>14, <1>u DEF vars, replyVars
<1> QED BY <1>1, <1>2, <1>3, <1>4, <1>5, <1>6, <1>7, <1>8, <1>9, <1>10, <1>11, <1>12,
           <1>13, <1>14 DEF Next, Process, Outside

LEMMA HeededStep ==
    IInv /\ ReplyTypeOK /\ Replied /\ Streams /\ Heeded /\ [Next]_vars => Heeded'
<1> SUFFICES ASSUME IInv, ReplyTypeOK, Replied, Streams, Heeded, [Next]_vars
             PROVE  Heeded'
  OBVIOUS
<1> USE DEF Goto, durableVars, worldVars, workerVars, queueVars, rowVars, loopVars
<1>w. pc # "idle" => job \in Events BY AtWork
<1>u. ASSUME UNCHANGED <<bocco_sent, job, interruptions, status>>,
             pc' = pc \/ pc' \in Spoke \/ pc \notin Spoke \/ ~bocco_sent[job]
      PROVE  Heeded'
  BY <1>u DEF Heeded
<1>r. ASSUME bocco_sent' = [bocco_sent EXCEPT ![job] = TRUE], pc' \in Spoke, pc # "idle",
             UNCHANGED <<job, interruptions, status>>
      PROVE  Heeded'
  <2>1. \A e \in Events \ {job} : bocco_sent'[e] = bocco_sent[e]
    BY <1>w, <1>r DEF ReplyTypeOK
  <2> QED BY <1>r, <2>1 DEF Heeded
<1>1. CASE Outside
  <2>1. UNCHANGED <<bocco_sent, job, pc, interruptions>> BY <1>1, OutsideStep DEF replyVars
  <2>2. \A x \in Events : status[x] = "completed" => status'[x] = "completed"
    BY <1>1, OutsideStep
  <2> QED BY <2>1, <2>2 DEF Heeded
<1>2. ASSUME NEW e \in Events, Claim(e) PROVE Heeded'
  <2>1. UNCHANGED <<bocco_sent, interruptions>> BY <1>2 DEF Claim, ClaimNext
  <2>2. pc \notin Spoke BY <1>2, MessageClaimed DEF Spoke
  <2> QED BY <1>2, <2>1, <2>2, MessageClaimed DEF Heeded
<1>3. CASE Receive BY <1>3, <1>u DEF Receive, Spoke
<1>4. CASE Reply BY <1>4, <1>u DEF Reply, Spoke
<1>5. CASE Generate BY <1>5, <1>u DEF Generate, Spoke
<1>6. CASE Deliver BY <1>6, <1>u DEF Deliver, Spoke
<1>7. CASE RecordDelivery BY <1>7, <1>r DEF RecordDelivery, Spoke
<1>8. CASE RecordTurn BY <1>8, <1>u DEF RecordTurn, Spoke
<1>9. CASE StreamChunk
  <2>1. pc' \in Spoke \/ said = Nothing BY <1>9 DEF StreamChunk, Spoke
  <2>2. said = Nothing => ~bocco_sent[job] BY <1>9 DEF StreamChunk, Streams, StreamStages
  <2> QED BY <1>9, <1>u, <2>1, <2>2 DEF StreamChunk
<1>10. CASE RecordChunk BY <1>10, <1>r DEF RecordChunk, Spoke
<1>11. CASE EndStream
  <2>1. said = Nothing => ~bocco_sent[job] BY <1>11 DEF EndStream, Streams, StreamStages
  <2> QED BY <1>11, <1>u, <2>1 DEF EndStream, Spoke
<1>12. CASE SaveStreamed BY <1>12, <1>u DEF SaveStreamed, Spoke
<1>13. CASE Settle
  <2>1. bocco_sent' = bocco_sent BY <1>13 DEF Settle
  <2>2. \/ status'[job] = "completed"
        \/ status[job] = "processing" /\ pc \notin Spoke
    BY <1>13, Settled DEF Spoke
  <2> QED BY <1>13, <2>1, <2>2, Settled DEF Heeded
<1>14. ASSUME NEW a \in Asides, SpeakAside(a) PROVE Heeded' BY <1>14, <1>u DEF SpeakAside
<1>15. ASSUME NEW a \in Asides, RecordAside(a) PROVE Heeded' BY <1>15, <1>u DEF RecordAside
<1>16. CASE Interrupt
  <2>1. interruptions' # 0 BY <1>16, Interrupted
  <2> QED BY <2>1 DEF Heeded
<1>17. CASE UNCHANGED vars BY <1>17, <1>u DEF vars, replyVars
<1> QED BY <1>1, <1>2, <1>3, <1>4, <1>5, <1>6, <1>7, <1>8, <1>9, <1>10, <1>11, <1>12,
           <1>13, <1>14, <1>15, <1>16, <1>17 DEF Next, Process, Outside
-----------------------------------------------------------------------------
(*                          What always holds                               *)

LEMMA SavedFirstStep ==
    IInv /\ ReplyTypeOK /\ Audible /\ Replied /\ Streams /\ SavedFirst /\ [Next]_vars
       => SavedFirst'
BY SetupKept, NotStreaming, OneAnswerStep, FewPostsStep DEF SavedFirst

LEMMA InitReply == Init => RInv
<1> SUFFICES ASSUME Init PROVE RInv
  OBVIOUS
<1>1. IInv BY InvInit DEF Init
<1>2. ReplyTypeOK BY InitReplyType
<1>3. /\ pc = "idle" /\ job = NoEvent /\ outbound = {} /\ posts = <<>>
      /\ DOMAIN posts = {} /\ faults = 0 /\ interruptions = 0
      /\ \A e \in Events : /\ status[e] = "absent" /\ response[e] = Nothing
                           /\ ~bocco_sent[e] /\ turns[e] = <<>>
      /\ \A a \in Asides : aside[a] = 0
  BY DEF Init, QueueInit, NoPost, Nothing
<1>4. InFlight BY <1>3 DEF InFlight, NoPost
<1>5. Audible BY <1>3 DEF Audible
<1>6. Replied BY <1>3 DEF Replied
<1>7. Streams BY <1>3 DEF Streams, StreamStages, Filed, StreamedSoFar, Streaming
<1>8. Generated BY <1>3 DEF Generated, PostedSoFar, SavedSoFar
<1>9. Uninterrupted BY <1>3 DEF Uninterrupted
<1>10. OneAnswer /\ pc \notin Streaming BY <1>3 DEF OneAnswer, Streaming
<1>11. FewPosts
  <2>1. ASSUME NEW e \in Events PROVE Heard[e] = 0
    <3>1. Of(posts, e) = {} BY <1>3 DEF Of
    <3> QED BY <3>1, FS_EmptySet DEF Heard
  <2>2. faults = 0 /\ interruptions = 0 BY <1>3
  <2>3. 0 <= faults + interruptions + 1 /\ 0 <= faults + interruptions BY <2>2
  <2>4. \A e \in Events : Heard[e] <= faults + interruptions + 1
                          /\ Heard[e] <= faults + interruptions
    BY <2>1, <2>3
  <2> QED BY <2>4 DEF FewPosts
<1>12. Answered BY <1>3, Parties DEF Answered
<1>13. OneGeneration /\ SentencesInOrder BY <1>3 DEF OneGeneration, SentencesInOrder
<1>14. Heeded BY <1>3 DEF Heeded
<1> QED BY <1>1, <1>2, <1>4, <1>5, <1>6, <1>7, <1>8, <1>9, <1>10, <1>11, <1>12, <1>13,
           <1>14
        DEF RInv, SavedFirst

LEMMA ReplyStep == RInv /\ [Next]_vars => RInv'
<1> SUFFICES ASSUME RInv, [Next]_vars PROVE RInv'
  OBVIOUS
<1>1. IInv' BY QueueStep, InvStep DEF RInv
<1>2. ReplyTypeOK' BY ReplyTypeStep DEF RInv
<1>3. InFlight' BY InFlightStep DEF RInv
<1>4. Audible' BY AudibleStep DEF RInv
<1>5. Replied' BY RepliedStep DEF RInv
<1>6. Streams' BY StreamStagesStep, FiledStep, StreamedSoFarStep DEF RInv, Streams
<1>7. Generated' BY PostedSoFarStep, SavedSoFarStep DEF RInv, Generated
<1>8. Uninterrupted' BY UninterruptedStep DEF RInv
<1>9. SavedFirst' BY SavedFirstStep DEF RInv
<1>10. Answered' BY AnsweredStep DEF RInv
<1>11. OneGeneration' BY OneGenerationStep DEF RInv
<1>12. SentencesInOrder' BY SentencesInOrderStep DEF RInv
<1>13. Heeded' BY HeededStep DEF RInv
<1> QED BY <1>1, <1>2, <1>3, <1>4, <1>5, <1>6, <1>7, <1>8, <1>9, <1>10, <1>11, <1>12,
           <1>13
        DEF RInv

(* At every place of the worker's code, what it takes for posted, filed,    *)
(* saved and remembered was posted, filed, saved and remembered.            *)
THEOREM ReplyInvariant == Spec => []RInv
BY InitReply, ReplyStep, PTL DEF Spec

(* What is filed for a message is of one generation, its sentences are      *)
(* heard in order, and without interruption what is remembered was heard.   *)
THEOREM StreamsAreCoherent == Spec => []StreamCoherent
<1>1. RInv => StreamCoherent
  <2> SUFFICES ASSUME RInv PROVE StreamCoherent
    OBVIOUS
  <2>1. \A r, s \in outbound : r.source = s.source => r.piece[1] = s.piece[1]
    BY DEF RInv, OneGeneration
  <2>2. ASSUME NEW e \in Events, NEW p \in PostsFor(e), NEW q \in PostsFor(e),
               p < q, posts[p].piece[1] = posts[q].piece[1]
        PROVE  posts[p].piece[2] <= posts[q].piece[2]
    BY <2>2 DEF RInv, SentencesInOrder, PostsFor
  <2>3. ASSUME interruptions = 0, NEW e \in Events, NEW i \in DOMAIN turns[e]
        PROVE  \E p \in PostsFor(e) : posts[p].piece = turns[e][i]
    <3>1. <<e, turns[e][i]>> \in Utterances BY <2>3 DEF RInv, Uninterrupted
    <3> QED BY <3>1 DEF Utterances, PostsFor
  <2> QED BY <2>1, <2>2, <2>3 DEF StreamCoherent
<1> QED BY <1>1, ReplyInvariant, PTL

(* A reply that is not streamed is said in the same words whenever it is    *)
(* said, and at most once more per lost response and interruption.          *)
THEOREM TheSameWordsAgain == Spec => []SameWordsAgain
<1>1. RInv => SameWordsAgain
  <2> SUFFICES ASSUME RInv, ~setup.streams, NEW e \in Events
               PROVE  /\ \A p, q \in PostsFor(e) : posts[p].piece = posts[q].piece
                      /\ Cardinality(PostsFor(e)) <= 1 + faults + interruptions
    BY DEF SameWordsAgain
  <2>1. \A p \in PostsFor(e) : posts[p].piece = response[e][1]
    BY DEF RInv, SavedFirst, OneAnswer, PostsFor
  <2>2. PostsFor(e) = Of(posts, e) BY DEF PostsFor, Of
  <2>3. Heard[e] = Cardinality(PostsFor(e)) BY <2>2 DEF Heard
  <2>4. Heard[e] <= faults + interruptions + 1 BY DEF RInv, SavedFirst, FewPosts
  <2>5. Heard[e] \in Nat /\ faults \in Nat /\ interruptions \in Nat
    BY HeardTyped DEF RInv, ReplyTypeOK, IInv, TypeOK
  <2>6. Heard[e] <= 1 + faults + interruptions BY <2>4, <2>5
  <2> QED BY <2>1, <2>3, <2>6
<1> QED BY <1>1, ReplyInvariant, PTL
-----------------------------------------------------------------------------
(*                    A step, as the echoes see it                          *)

(* The echo of a post is its own, and a human's message is none.            *)
LEMMA EchoNames ==
    /\ \A p \in 1..MaxPosts : EchoOf[p] \in Events /\ PostOf(EchoOf[p]) = p
    /\ \A p, q \in 1..MaxPosts : EchoOf[p] = EchoOf[q] => p = q
    /\ \A e \in Events \ Humans : \E p \in 1..MaxPosts : e = EchoOf[p]
    /\ \A p \in 1..MaxPosts : EchoOf[p] \notin Humans
<1>1. EchoOf \in Seq(Events) /\ IsInjective(EchoOf)
      /\ Humans \cup Echoes = Events /\ Humans \cap Echoes = {}
  BY ReplyLoopAssumption DEF ReplyLoopAssumption
<1>2. DOMAIN EchoOf = 1..MaxPosts BY <1>1 DEF MaxPosts
<1>3. \A p, q \in 1..MaxPosts : EchoOf[p] = EchoOf[q] => p = q
  BY <1>1, <1>2 DEF IsInjective
<1>4. Echoes = {EchoOf[p] : p \in 1..MaxPosts} BY <1>2 DEF Echoes, Range
<1>5. ASSUME NEW p \in 1..MaxPosts PROVE EchoOf[p] \in Events /\ PostOf(EchoOf[p]) = p
  <2>1. EchoOf[p] \in Echoes BY <1>4
  <2>2. EchoOf[p] \in Events BY <1>1, <2>1
  <2>3. \A q \in 1..MaxPosts : EchoOf[q] = EchoOf[p] => q = p BY <1>3
  <2>4. PostOf(EchoOf[p]) = CHOOSE q \in 1..MaxPosts : EchoOf[q] = EchoOf[p]
    BY <2>1 DEF PostOf
  <2> QED BY <2>2, <2>3, <2>4
<1>6. \A e \in Events \ Humans : \E p \in 1..MaxPosts : e = EchoOf[p]
  BY <1>1, <1>4
<1>7. \A p \in 1..MaxPosts : EchoOf[p] \notin Humans BY <1>1, <1>4
<1> QED BY <1>3, <1>5, <1>6, <1>7

(* A post has a place for its echo.                                         *)
LEMMA Room ==
    ASSUME ReplyTypeOK
    PROVE  /\ DOMAIN posts = 1..Len(posts) /\ DOMAIN posts \subseteq 1..MaxPosts
           /\ IsFiniteSet(DOMAIN posts)
<1>1. /\ Len(posts) \in Int /\ Len(posts) <= MaxPosts /\ DOMAIN posts = 1..Len(posts)
      /\ MaxPosts \in Nat
  BY ReplyLoopAssumption DEF ReplyTypeOK, ReplyLoopAssumption, MaxPosts
<1>2. IsFiniteSet(1..Len(posts)) BY <1>1, FS_Interval
<1>3. 1..Len(posts) \subseteq 1..MaxPosts BY <1>1
<1> QED BY <1>1, <1>2, <1>3

(* A row that is there stays, and an echo comes after its post; a message   *)
(* is completed by the worker that is done with it, and for good.           *)
LEMMA Arrivals ==
    ASSUME IInv, ReplyTypeOK, [Next]_vars, NEW x \in Events
    PROVE  /\ status[x] # "absent" => status'[x] # "absent"
           /\ status[x] = "absent" /\ status'[x] # "absent" =>
                 x \in Humans \/ \E p \in DOMAIN posts : x = EchoOf[p]
           /\ status[x] = "completed" => status'[x] = "completed"
           /\ status[x] # "completed" /\ status'[x] = "completed" =>
                 job = x /\ pc = "done" /\ job' = NoEvent
<1> DEFINE P == /\ status[x] # "absent" => status'[x] # "absent"
                /\ status[x] = "absent" /\ status'[x] # "absent" =>
                      x \in Humans \/ \E p \in DOMAIN posts : x = EchoOf[p]
                /\ status[x] = "completed" => status'[x] = "completed"
                /\ status[x] # "completed" /\ status'[x] = "completed" =>
                      job = x /\ pc = "done" /\ job' = NoEvent
<1> USE DEF queueVars, rowVars
<1>u. ASSUME status' = status PROVE P BY <1>u
<1>1. CASE Outside BY <1>1, OutsideStep
<1>2. ASSUME NEW e \in Events, Claim(e) PROVE P BY <1>2, MessageClaimed
<1> HIDE DEF P
<1>3. CASE Receive \/ Reply \/ Generate \/ Deliver \/ RecordDelivery \/ RecordTurn
  BY <1>3, <1>u DEF Receive, Reply, Generate, Deliver, RecordDelivery, RecordTurn
<1>4. CASE StreamChunk \/ RecordChunk \/ EndStream \/ SaveStreamed
  BY <1>4, <1>u DEF StreamChunk, RecordChunk, EndStream, SaveStreamed
<1>5. CASE Settle BY <1>5, Settled DEF P
<1>6. ASSUME NEW a \in Asides, SpeakAside(a) \/ RecordAside(a) PROVE P
  BY <1>6, <1>u DEF SpeakAside, RecordAside
<1>7. CASE Interrupt BY <1>7, Interrupted DEF P
<1>8. CASE UNCHANGED vars BY <1>8, <1>u DEF vars
<1> QED BY <1>1, <1>2, <1>3, <1>4, <1>5, <1>6, <1>7, <1>8 DEF Next, Process, Outside, P

(* A step leaves the room and the records alone or the worker or an aside   *)
(* speaks; a delivery is filed; a message is received, worked on, claimed,  *)
(* settled or interrupted.                                                  *)
Calm == UNCHANGED <<posts, outbound, faults, interruptions, setup>>
Rests == Calm /\ UNCHANGED <<pc, job, inflight>>
Speaks(piece, n, answered) ==
    /\ Posted(piece, n, answered)
    /\ UNCHANGED <<job, outbound, interruptions, setup>>
    /\ pc \in {"delivering", "streaming"} /\ job \in Events
    /\ answered <=> pc' \in Placed
    /\ pc' \in Answering
AsideHeard(a, n) ==
    /\ Grows(a, AsideLine, n) /\ faults' >= faults
    /\ UNCHANGED <<pc, job, inflight, outbound, interruptions, setup>>
AsideWritten(a, p) ==
    /\ p \in DOMAIN posts /\ posts[p].source = a /\ Files(a, 0, p)
    /\ UNCHANGED <<pc, job, inflight, posts, faults, interruptions, setup>>
ReplyWritten(chunk) ==
    /\ pc \in Placed /\ job \in Events
    /\ inflight \in DOMAIN posts /\ posts[inflight].source = job
    /\ Files(job, chunk, inflight)
    /\ \A r \in outbound : r.source = job => r.chunk # chunk
    /\ pc' \in Answering \ Placed
    /\ UNCHANGED <<job, posts, faults, interruptions, setup>>
EchoOrMessage == Receive /\ UNCHANGED <<job, posts, faults, interruptions, setup>>
Works ==
    /\ Calm /\ job' = job /\ pc \in Answering \ Placed /\ pc' \notin Placed
    /\ pc' = "done" => pc = "remembering" \/ Form(job) = "picture"
Claims == Calm /\ pc = "idle" /\ pc' = "received"
Settles == Calm /\ Settle /\ pc \notin Placed /\ pc' = "idle" /\ job' = NoEvent
Falls == UNCHANGED <<posts, outbound, faults, setup>>
         /\ interruptions' > interruptions /\ pc' = "idle" /\ job' = NoEvent

LEMMA StepKinds ==
    ASSUME IInv, ReplyTypeOK, InFlight, Replied, Streams, [Next]_vars
    PROVE  \/ Rests \/ EchoOrMessage \/ Works \/ Claims \/ Settles \/ Falls
           \/ \E piece : \E n \in 0..2, answered \in BOOLEAN : Speaks(piece, n, answered)
           \/ \E a \in Asides, n \in 0..2 : AsideHeard(a, n)
           \/ \E a \in Asides : \E p : AsideWritten(a, p)
           \/ \E chunk : ReplyWritten(chunk)
<1> DEFINE P ==
       \/ Rests \/ EchoOrMessage \/ Works \/ Claims \/ Settles \/ Falls
       \/ \E piece : \E n \in 0..2, answered \in BOOLEAN : Speaks(piece, n, answered)
       \/ \E a \in Asides, n \in 0..2 : AsideHeard(a, n)
       \/ \E a \in Asides : \E p : AsideWritten(a, p)
       \/ \E chunk : ReplyWritten(chunk)
<1> USE DEF Goto, queueVars, rowVars, loopVars, durableVars, workerVars, worldVars
<1>a. Rests \/ EchoOrMessage \/ Works \/ Claims \/ Settles \/ Falls => P OBVIOUS
<1>b. ASSUME NEW piece, NEW n \in 0..2, NEW answered \in BOOLEAN, Speaks(piece, n, answered)
      PROVE  P
  BY <1>b
<1>c. ASSUME NEW a \in Asides, NEW n \in 0..2, AsideHeard(a, n) PROVE P BY <1>c
<1>d. ASSUME NEW a \in Asides, NEW p, AsideWritten(a, p) PROVE P BY <1>d
<1>e. ASSUME NEW chunk, ReplyWritten(chunk) PROVE P BY <1>e
<1>g. {"replying", "generating", "streaming", "stream over", "posted", "failed",
       "chunk posted", "delivering", "remembering"} \subseteq Answering
  BY DEF Answering, Stages
<1> HIDE DEF P
<1>1. CASE Outside
  <2>1. Rests BY <1>1, OutsideStep DEF replyVars, Rests, Calm
  <2> QED BY <1>a, <2>1
<1>2. ASSUME NEW e \in Events, Claim(e) PROVE P
  <2>1. pc = "idle" BY <1>2, MessageClaimed
  <2>2. interruptions' = interruptions BY <1>2 DEF Claim, ClaimNext
  <2>3. Claims BY <1>2, <2>1, <2>2 DEF Claim, Claims, Calm
  <2> QED BY <1>a, <2>3
<1>3. CASE Receive
  <2>1. EchoOrMessage BY <1>3 DEF Receive, EchoOrMessage
  <2> QED BY <1>a, <2>1
<1>4. CASE Reply
  <2>1. /\ pc = "replying" /\ Calm /\ job' = job
        /\ pc' \in {"delivering", "streaming", "generating", "done"}
        /\ pc' = "done" => Form(job) = "picture"
    BY <1>4 DEF Reply, Calm
  <2>2. Works BY <1>g, <2>1 DEF Works, Placed
  <2> QED BY <1>a, <2>2
<1>5. CASE Generate
  <2>1. pc = "generating" /\ pc' \in {"delivering", "failed"} /\ Calm /\ job' = job
    BY <1>5 DEF Generate, Calm
  <2>2. Works BY <1>g, <2>1 DEF Works, Placed
  <2> QED BY <1>a, <2>2
<1>6. CASE Deliver
  <2>1. CASE bocco_sent[job]
    <3>1. pc = "delivering" /\ pc' = "remembering" /\ Calm /\ job' = job
      BY <1>6, <2>1 DEF Deliver, Calm
    <3>2. Works BY <1>g, <3>1 DEF Works, Placed
    <3> QED BY <1>a, <3>2
  <2>2. CASE ~bocco_sent[job]
    <3>1. PICK n \in 0..2, answered \in BOOLEAN :
             Posted(response[job][1], n, answered) /\ pc' = AfterPost(answered)
      BY <1>6, <2>2, ReplySpoken
    <3>2. pc = "delivering" /\ job \in Events
          /\ UNCHANGED <<job, outbound, interruptions, setup>>
      BY <1>6, AtWork DEF Deliver
    <3>3. (answered <=> pc' \in Placed) /\ pc' \in Answering
      BY <1>g, <3>1 DEF AfterPost, Placed
    <3>4. Speaks(response[job][1], n, answered) BY <3>1, <3>2, <3>3 DEF Speaks
    <3> QED BY <1>b, <3>4
  <2> QED BY <2>1, <2>2
<1>7. CASE RecordDelivery
  <2>1. inflight \in DOMAIN posts /\ posts[inflight].source = job /\ job \in Events
        /\ pc = "posted" /\ pc' = "remembering"
    BY <1>7, AtWork DEF RecordDelivery, InFlight
  <2>2. Files(job, 0, inflight) BY <1>7, ReplyFiled
  <2>3. \A r \in outbound : r.source = job => r.chunk # 0
    BY <2>1 DEF Streams, StreamStages, Filed
  <2>4. ReplyWritten(0)
    BY <1>7, <1>g, <2>1, <2>2, <2>3 DEF RecordDelivery, ReplyWritten, Placed
  <2> QED BY <1>e, <2>4
<1>8. CASE RecordTurn
  <2>1. pc = "remembering" /\ pc' = "done" /\ Calm /\ job' = job
    BY <1>8 DEF RecordTurn, Calm
  <2>2. Works BY <1>g, <2>1 DEF Works, Placed
  <2> QED BY <1>a, <2>2
<1>9. CASE StreamChunk
  <2>1. PICK n \in 0..2, answered \in BOOLEAN :
           /\ Posted(<<generations, Len(said) + 1>>, n, answered)
           /\ answered => pc' = "chunk posted"
           /\ ~answered => pc' \in {"generating", "streaming", "stream over"}
    BY <1>9, ChunkSpoken
  <2>2. pc = "streaming" /\ job \in Events
        /\ UNCHANGED <<job, outbound, interruptions, setup>>
    BY <1>9, AtWork DEF StreamChunk
  <2>3. (answered <=> pc' \in Placed) /\ pc' \in Answering
    BY <1>g, <2>1 DEF Placed
  <2>4. Speaks(<<generations, Len(said) + 1>>, n, answered) BY <2>1, <2>2, <2>3 DEF Speaks
  <2> QED BY <1>b, <2>4
<1>10. CASE RecordChunk
  <2>1. inflight \in DOMAIN posts /\ posts[inflight].source = job /\ job \in Events
        /\ pc = "chunk posted" /\ pc' = "streaming"
    BY <1>10, AtWork DEF RecordChunk, InFlight
  <2>2. Files(job, Len(said), inflight) BY <1>10, ChunkFiled
  <2>3. \A r \in outbound : r.source = job => r.chunk # Len(said)
    BY <2>1 DEF Streams, StreamedSoFar
  <2>4. ReplyWritten(Len(said))
    BY <1>10, <1>g, <2>1, <2>2, <2>3 DEF RecordChunk, ReplyWritten, Placed
  <2> QED BY <1>e, <2>4
<1>11. CASE EndStream
  <2>1. pc = "streaming" /\ pc' \in {"generating", "stream over"} /\ Calm /\ job' = job
    BY <1>11 DEF EndStream, Calm
  <2>2. Works BY <1>g, <2>1 DEF Works, Placed
  <2> QED BY <1>a, <2>2
<1>12. CASE SaveStreamed
  <2>1. pc = "stream over" /\ pc' = "remembering" /\ Calm /\ job' = job
    BY <1>12 DEF SaveStreamed, Calm
  <2>2. Works BY <1>g, <2>1 DEF Works, Placed
  <2> QED BY <1>a, <2>2
<1>13. CASE Settle
  <2>1. pc \in {"done", "failed"} /\ interruptions' = interruptions /\ job' = NoEvent
    BY <1>13, Settled
  <2>2. Settles BY <1>13, <2>1 DEF Settle, Settles, Calm, Placed
  <2> QED BY <1>a, <2>2
<1>14. ASSUME NEW a \in Asides, SpeakAside(a) PROVE P
  <2>1. PICK n \in 0..2 : Grows(a, AsideLine, n) /\ faults' >= faults BY <1>14, AsideSpoken
  <2>2. AsideHeard(a, n) BY <1>14, <2>1 DEF SpeakAside, AsideHeard
  <2> QED BY <1>c, <2>2
<1>15. ASSUME NEW a \in Asides, RecordAside(a) PROVE P
  <2>1. aside[a] \in DOMAIN posts /\ posts[aside[a]].source = a
    BY <1>15 DEF RecordAside, InFlight
  <2>2. Files(a, 0, aside[a]) BY <1>15, AsideFiled
  <2>3. AsideWritten(a, aside[a]) BY <1>15, <2>1, <2>2 DEF RecordAside, AsideWritten
  <2> QED BY <1>d, <2>3
<1>16. CASE Interrupt
  <2>1. interruptions' > interruptions /\ job' = NoEvent /\ pc' = "idle"
    BY <1>16, Interrupted
  <2>2. Falls BY <1>16, <2>1 DEF Interrupt, LoseMemory, Falls
  <2> QED BY <1>a, <2>2
<1>17. CASE UNCHANGED vars
  <2>1. Rests BY <1>17 DEF vars, replyVars, Rests, Calm
  <2> QED BY <1>a, <2>1
<1> QED BY <1>1, <1>2, <1>3, <1>4, <1>5, <1>6, <1>7, <1>8, <1>9, <1>10, <1>11, <1>12,
           <1>13, <1>14, <1>15, <1>16, <1>17 DEF Next, Process, Outside, P

LEMMA EchoedStep ==
    ASSUME IInv, ReplyTypeOK, InFlight, Replied, Streams, Echoed, [Next]_vars
    PROVE  Echoed'
<1>m. DOMAIN posts \subseteq 1..MaxPosts BY Room
<1>1. ASSUME NEW p \in 1..MaxPosts, status'[EchoOf[p]] # "absent" PROVE p \in DOMAIN posts
  <2>1. CASE status[EchoOf[p]] # "absent" BY <2>1 DEF Echoed
  <2>2. CASE status[EchoOf[p]] = "absent"
    <3>1. EchoOf[p] \in Humans \/ \E q \in DOMAIN posts : EchoOf[p] = EchoOf[q]
      BY <1>1, <2>2, Arrivals, EchoNames
    <3> QED BY <1>m, <3>1, EchoNames
  <2> QED BY <2>1, <2>2
<1>2. \A p \in DOMAIN posts : posts[p].source \in Events => status'[posts[p].source] # "absent"
  BY Arrivals DEF Echoed
<1>s. ASSUME DOMAIN posts \subseteq DOMAIN posts',
             \A p \in DOMAIN posts' : posts'[p].source \in Events =>
                status'[posts'[p].source] # "absent",
             pc' \in Placed => EchoOf[inflight'] # job' /\ EchoOf[inflight'] \notin Sources'
      PROVE  Echoed'
  BY <1>1, <1>s DEF Echoed, Placed
<1>q. ASSUME posts' = posts,
             pc' \notin Placed \/ UNCHANGED <<pc, job, inflight>>
      PROVE  Echoed'
  <2>1. Sources' = Sources BY <1>q, Silence
  <2>2. pc' \in Placed => EchoOf[inflight'] # job' /\ EchoOf[inflight'] \notin Sources'
    BY <1>q, <2>1 DEF Echoed, Placed
  <2> QED BY <1>s, <1>q, <1>2, <2>2
<1>3. CASE Rests BY <1>3, <1>q DEF Rests, Calm
<1>4. CASE EchoOrMessage
  <2>1. pc' \notin Placed BY <1>4, Received DEF EchoOrMessage, Placed
  <2> QED BY <1>4, <1>q, <2>1 DEF EchoOrMessage
<1>5. CASE Works BY <1>5, <1>q DEF Works, Calm
<1>6. CASE Claims BY <1>6, <1>q DEF Claims, Calm, Placed
<1>7. CASE Settles BY <1>7, <1>q DEF Settles, Calm, Placed
<1>8. CASE Falls BY <1>8, <1>q DEF Falls, Placed
<1>9. ASSUME NEW piece, NEW n \in 0..2, NEW answered \in BOOLEAN, Speaks(piece, n, answered)
      PROVE  Echoed'
  <2>1. Grows(job, piece, n) /\ job' = job /\ pc # "idle" BY <1>9 DEF Speaks, Posted
  <2>2. job \in Events /\ status[job] = "processing" BY <2>1, AtWork
  <2>3. \A p \in DOMAIN posts' : posts'[p].source \in Events =>
           status'[posts'[p].source] # "absent"
    <3> SUFFICES ASSUME NEW p \in DOMAIN posts', posts'[p].source \in Events
                 PROVE  status'[posts'[p].source] # "absent"
      OBVIOUS
    <3>1. CASE p \in DOMAIN posts BY <1>2, <2>1, <3>1 DEF Grows
    <3>2. CASE p \notin DOMAIN posts
      <4>1. posts'[p].source = job BY <2>1, <3>2 DEF Grows
      <4> QED BY <2>2, <4>1, Arrivals
    <3> QED BY <3>1, <3>2
  <2>4. ASSUME pc' \in Placed PROVE EchoOf[inflight'] # job' /\ EchoOf[inflight'] \notin Sources'
    <3>1. inflight' \in DOMAIN posts' /\ inflight' \notin DOMAIN posts
      BY <1>9, <2>4 DEF Speaks, Posted
    <3>2. inflight' \in 1..MaxPosts
      <4>1. DOMAIN posts' \subseteq 1..MaxPosts
        BY <2>1, ReplyLoopAssumption
           DEF Grows, ReplyTypeOK, ReplyLoopAssumption, MaxPosts
      <4> QED BY <3>1, <4>1
    <3>3. status[EchoOf[inflight']] = "absent" BY <3>1, <3>2 DEF Echoed
    <3>4. EchoOf[inflight'] \in Events BY <3>2, EchoNames
    <3>5. EchoOf[inflight'] \notin Sources BY <3>3, <3>4 DEF Echoed, Sources
    <3>6. EchoOf[inflight'] # job BY <2>2, <3>3
    <3>7. Sources' \subseteq Sources \cup {job} BY <2>1, Hearing
    <3> QED BY <2>1, <3>5, <3>6, <3>7
  <2>5. DOMAIN posts \subseteq DOMAIN posts' BY <2>1 DEF Grows
  <2> QED BY <1>s, <2>3, <2>4, <2>5
<1>10. ASSUME NEW a \in Asides, NEW n \in 0..2, AsideHeard(a, n) PROVE Echoed'
  <2>1. Grows(a, AsideLine, n) /\ UNCHANGED <<pc, job, inflight>> /\ a \notin Events
    BY <1>10, Parties DEF AsideHeard
  <2>2. DOMAIN posts \subseteq DOMAIN posts' BY <2>1 DEF Grows
  <2>3. ASSUME NEW p \in DOMAIN posts', posts'[p].source \in Events
        PROVE  status'[posts'[p].source] # "absent"
    <3>1. p \in DOMAIN posts BY <2>1, <2>3 DEF Grows
    <3> QED BY <1>2, <2>1, <2>3, <3>1 DEF Grows
  <2>4. ASSUME pc' \in Placed PROVE EchoOf[inflight'] # job' /\ EchoOf[inflight'] \notin Sources'
    <3>1. pc \in Placed BY <2>1, <2>4
    <3>2. inflight \in DOMAIN posts BY <3>1 DEF InFlight, Placed
    <3>3. EchoOf[inflight] \in Events BY <1>m, <3>2, EchoNames
    <3>4. EchoOf[inflight] # job /\ EchoOf[inflight] \notin Sources
      BY <3>1 DEF Echoed, Placed
    <3>5. Sources' \subseteq Sources \cup {a} BY <2>1, Hearing
    <3> QED BY <2>1, <3>3, <3>4, <3>5
  <2> QED BY <1>s, <2>2, <2>3, <2>4
<1>11. ASSUME NEW a \in Asides, NEW p, AsideWritten(a, p) PROVE Echoed'
  BY <1>11, <1>q DEF AsideWritten
<1>12. ASSUME NEW chunk, ReplyWritten(chunk) PROVE Echoed'
  BY <1>12, <1>q DEF ReplyWritten
<1> QED BY <1>3, <1>4, <1>5, <1>6, <1>7, <1>8, <1>9, <1>10, <1>11, <1>12, StepKinds

LEMMA RecordsOfPostsStep ==
    ASSUME IInv, ReplyTypeOK, InFlight, Replied, Streams, RecordsOfPosts, [Next]_vars
    PROVE  RecordsOfPosts'
<1> DEFINE Good(r) == /\ r.post \in DOMAIN posts /\ posts[r.post].source = r.source
                      /\ posts[r.post].piece = r.piece
                      /\ r.id = IF setup.ids THEN r.post ELSE NoPost
<1>g. \A r \in outbound : Good(r) BY DEF RecordsOfPosts
<1>u. ASSUME UNCHANGED <<posts, outbound, setup>> PROVE RecordsOfPosts'
  BY <1>u DEF RecordsOfPosts
<1>p. ASSUME NEW source, NEW piece, NEW n, Grows(source, piece, n),
             UNCHANGED <<outbound, setup>>
      PROVE  RecordsOfPosts'
  BY <1>p DEF Grows, RecordsOfPosts
<1>w. ASSUME NEW source, NEW chunk, NEW p \in DOMAIN posts, posts[p].source = source,
             Files(source, chunk, p), UNCHANGED <<posts, setup>>
      PROVE  RecordsOfPosts'
  <2> SUFFICES ASSUME NEW s \in outbound' PROVE Good(s)
    BY <1>w DEF RecordsOfPosts
  <2>1. CASE s \in outbound BY <1>g, <2>1
  <2>2. CASE s \notin outbound BY <1>w, <2>2 DEF Files
  <2> QED BY <2>1, <2>2
<1>1. CASE Rests \/ Works \/ Claims \/ Settles \/ Falls
  BY <1>1, <1>u DEF Rests, Works, Claims, Settles, Falls, Calm
<1>2. CASE EchoOrMessage
  <2>1. \A s \in outbound' : \E r \in outbound : Alike(r, s)
    BY <1>2, Received DEF EchoOrMessage
  <2>2. UNCHANGED <<posts, setup>> BY <1>2 DEF EchoOrMessage
  <2> SUFFICES ASSUME NEW s \in outbound' PROVE Good(s)
    BY <2>2 DEF RecordsOfPosts
  <2>3. PICK r \in outbound : Alike(r, s) BY <2>1
  <2> QED BY <1>g, <2>3 DEF Alike
<1>3. ASSUME NEW piece, NEW n \in 0..2, NEW answered \in BOOLEAN, Speaks(piece, n, answered)
      PROVE  RecordsOfPosts'
  BY <1>3, <1>p DEF Speaks, Posted
<1>4. ASSUME NEW a \in Asides, NEW n \in 0..2, AsideHeard(a, n) PROVE RecordsOfPosts'
  BY <1>4, <1>p DEF AsideHeard
<1>5. ASSUME NEW a \in Asides, NEW p, AsideWritten(a, p) PROVE RecordsOfPosts'
  BY <1>5, <1>w DEF AsideWritten
<1>6. ASSUME NEW chunk, ReplyWritten(chunk) PROVE RecordsOfPosts'
  BY <1>6, <1>w DEF ReplyWritten
<1> QED BY <1>1, <1>2, <1>3, <1>4, <1>5, <1>6, StepKinds

(* A reply answers an echo where the worker took it for a message: when it  *)
(* received it and no record matched.                                       *)
LEMMA NewlyAnswered ==
    ASSUME IInv, ReplyTypeOK, InFlight, Replied, Streams, Echoed, [Next]_vars,
           NEW p \in DOMAIN posts', posts'[p].source \in Events, AnsweredEcho(p)'
    PROVE  \/ p \in DOMAIN posts /\ OfAReply(p) /\ AnsweredEcho(p)
           \/ /\ p \in DOMAIN posts /\ OfAReply(p) /\ EchoOrMessage
              /\ pc = "received" /\ pc' = "replying" /\ job = EchoOf[p]
<1> DEFINE P == \/ p \in DOMAIN posts /\ OfAReply(p) /\ AnsweredEcho(p)
                \/ /\ p \in DOMAIN posts /\ OfAReply(p) /\ EchoOrMessage
                   /\ pc = "received" /\ pc' = "replying" /\ job = EchoOf[p]
<1>e. EchoOf[p] \in Sources' \/ (job' = EchoOf[p] /\ pc' \in Answering)
  BY DEF AnsweredEcho
<1>n. {"idle", "received", "done"} \cap Answering = {} BY DEF Answering
<1>q. ASSUME posts' = posts, pc' \notin Answering \/ (job' = job /\ pc \in Answering)
      PROVE  P
  <2>1. Sources' = Sources BY <1>q, Silence
  <2> QED BY <1>e, <1>q, <2>1 DEF AnsweredEcho, OfAReply
<1>1. CASE Rests BY <1>1, <1>q DEF Rests, Calm
<1>2. CASE EchoOrMessage
  <2>1. posts' = posts /\ job' = job /\ pc = "received" /\ pc' \in {"replying", "done"}
    BY <1>2, Received DEF EchoOrMessage, Receive
  <2>2. Sources' = Sources BY <2>1, Silence
  <2>3. CASE pc' = "done" BY <1>n, <1>q, <2>1, <2>3
  <2>4. CASE pc' = "replying"
    BY <1>2, <1>e, <2>1, <2>2, <2>4 DEF AnsweredEcho, OfAReply
  <2> QED BY <2>1, <2>3, <2>4
<1>3. CASE Works BY <1>3, <1>q DEF Works, Calm
<1>4. CASE Claims \/ Settles \/ Falls
  BY <1>4, <1>n, <1>q DEF Claims, Settles, Falls, Calm
<1>5. ASSUME NEW piece, NEW n \in 0..2, NEW answered \in BOOLEAN, Speaks(piece, n, answered)
      PROVE  P
  <2>1. Grows(job, piece, n) /\ job' = job /\ pc # "idle" /\ pc \in Answering
    BY <1>5 DEF Speaks, Posted, Answering, Stages
  <2>2. job \in Events /\ status[job] = "processing" BY <2>1, AtWork
  <2>3. EchoOf[p] \in Sources \cup {job} BY <1>e, <2>1, Hearing
  <2>4. p \in 1..MaxPosts
    BY <2>1, ReplyLoopAssumption DEF Grows, ReplyTypeOK, ReplyLoopAssumption, MaxPosts
  <2>5. status[EchoOf[p]] # "absent"
    <3>1. EchoOf[p] \in Events BY <2>4, EchoNames
    <3> QED BY <2>2, <2>3, <3>1 DEF Echoed, Sources
  <2>6. p \in DOMAIN posts BY <2>4, <2>5 DEF Echoed
  <2>7. OfAReply(p) BY <2>1, <2>6 DEF Grows, OfAReply
  <2> QED BY <2>1, <2>3, <2>6, <2>7 DEF AnsweredEcho
<1>6. ASSUME NEW a \in Asides, NEW n \in 0..2, AsideHeard(a, n) PROVE P
  <2>1. Grows(a, AsideLine, n) /\ UNCHANGED <<pc, job>> /\ a \notin Events
    BY <1>6, Parties DEF AsideHeard
  <2>2. p \in DOMAIN posts BY <2>1 DEF Grows
  <2>3. OfAReply(p) BY <2>1, <2>2 DEF Grows, OfAReply
  <2>4. EchoOf[p] \in Events BY <2>2, Room, EchoNames
  <2>5. EchoOf[p] \in Sources \/ (job = EchoOf[p] /\ pc \in Answering)
    BY <1>e, <2>1, <2>4, Hearing
  <2> QED BY <2>2, <2>3, <2>5 DEF AnsweredEcho
<1>7. ASSUME NEW a \in Asides, NEW q, AsideWritten(a, q) PROVE P
  BY <1>7, <1>q DEF AsideWritten
<1>8. ASSUME NEW chunk, ReplyWritten(chunk) PROVE P
  <2>1. pc \in Answering BY <1>8 DEF ReplyWritten, Placed, Answering, Stages
  <2> QED BY <1>8, <1>q, <2>1 DEF ReplyWritten
<1> QED BY <1>1, <1>2, <1>3, <1>4, <1>5, <1>6, <1>7, <1>8, StepKinds

(* A message that answers to a record with an id is not answered: what is   *)
(* answered has no record.                                                  *)
LEMMA UnrecordedStep ==
    ASSUME IInv, ReplyTypeOK, InFlight, Replied, Streams, Echoed, RecordsOfPosts,
           Unrecorded, [Next]_vars
    PROVE  Unrecorded'
<1> SUFFICES ASSUME setup'.ids, NEW p \in DOMAIN posts', posts'[p].source \in Events,
                    AnsweredEcho(p)', NEW s \in outbound'
             PROVE  s.post # p
  BY DEF Unrecorded, OfAReply
<1>1. setup.ids BY SetupKept
<1>2. \A r \in outbound : r.post \in DOMAIN posts BY DEF RecordsOfPosts
<1>3. \/ p \in DOMAIN posts /\ OfAReply(p) /\ AnsweredEcho(p)
      \/ /\ p \in DOMAIN posts /\ OfAReply(p) /\ EchoOrMessage
         /\ pc = "received" /\ pc' = "replying" /\ job = EchoOf[p]
  BY NewlyAnswered
<1>4. CASE EchoOrMessage /\ pc = "received" /\ pc' = "replying" /\ job = EchoOf[p]
           /\ p \in DOMAIN posts
  <2>1. outbound' = outbound /\ ~MatchesId(job)
    BY <1>4, Received DEF EchoOrMessage
  <2>2. PostOf(job) = p /\ p # NoPost BY <1>4, Room, EchoNames DEF NoPost
  <2>3. s.id # p BY <2>1, <2>2 DEF MatchesId
  <2> QED BY <1>1, <2>1, <2>3 DEF RecordsOfPosts
<1>5. CASE p \in DOMAIN posts /\ OfAReply(p) /\ AnsweredEcho(p)
  <2>a. \A r \in outbound : r.post # p BY <1>1, <1>5 DEF Unrecorded
  <2>u. ASSUME outbound' = outbound PROVE s.post # p BY <2>a, <2>u
  <2>1. CASE Rests \/ Works \/ Claims \/ Settles \/ Falls
    BY <2>1, <2>u DEF Rests, Works, Claims, Settles, Falls, Calm
  <2>2. CASE EchoOrMessage
    <3>1. \E r \in outbound : Alike(r, s) BY <2>2, Received DEF EchoOrMessage
    <3> QED BY <2>a, <3>1 DEF Alike
  <2>3. ASSUME NEW piece, NEW n \in 0..2, NEW answered \in BOOLEAN, Speaks(piece, n, answered)
        PROVE  s.post # p
    BY <2>3, <2>u DEF Speaks
  <2>4. ASSUME NEW a \in Asides, NEW n \in 0..2, AsideHeard(a, n) PROVE s.post # p
    BY <2>4, <2>u DEF AsideHeard
  <2>5. ASSUME NEW a \in Asides, NEW q, AsideWritten(a, q) PROVE s.post # p
    <3>1. q # p BY <1>5, <2>5, Parties DEF AsideWritten, OfAReply
    <3> QED BY <2>a, <2>5, <3>1 DEF AsideWritten, Files
  <2>6. ASSUME NEW chunk, ReplyWritten(chunk) PROVE s.post # p
    <3>1. EchoOf[inflight] # job /\ EchoOf[inflight] \notin Sources
      BY <2>6 DEF ReplyWritten, Echoed, Placed
    <3>2. inflight # p BY <1>5, <3>1 DEF AnsweredEcho
    <3> QED BY <2>a, <2>6, <3>2 DEF ReplyWritten, Files
  <2> QED BY <2>1, <2>2, <2>3, <2>4, <2>5, <2>6, StepKinds
<1> QED BY <1>3, <1>4, <1>5

-----------------------------------------------------------------------------
(*                    Nothing lost, nothing answered twice                  *)

LEMMA FaultlessBefore ==
    ASSUME IInv, ReplyTypeOK, InFlight, Replied, Streams, [Next]_vars, Faultless'
    PROVE  Faultless /\ UNCHANGED <<faults, interruptions>>
<1>n. faults \in Nat /\ interruptions \in Nat BY DEF ReplyTypeOK, IInv, TypeOK
<1>f. faults' = 0 /\ interruptions' = 0 BY DEF Faultless
<1>q. ASSUME faults' >= faults, interruptions' = interruptions
      PROVE  Faultless /\ UNCHANGED <<faults, interruptions>>
  BY <1>n, <1>f, <1>q DEF Faultless
<1>e. faults >= faults BY <1>n
<1>1. CASE Rests \/ Works \/ Claims \/ Settles
  BY <1>1, <1>e, <1>q DEF Rests, Works, Claims, Settles, Calm
<1>2. CASE EchoOrMessage BY <1>2, <1>e, <1>q DEF EchoOrMessage
<1>3. CASE Falls BY <1>3, <1>n, <1>f DEF Falls
<1>4. ASSUME NEW piece, NEW n \in 0..2, NEW answered \in BOOLEAN, Speaks(piece, n, answered)
      PROVE  faults' >= faults /\ interruptions' = interruptions
  BY <1>4 DEF Speaks, Posted
<1>5. ASSUME NEW a \in Asides, NEW n \in 0..2, AsideHeard(a, n)
      PROVE  faults' >= faults /\ interruptions' = interruptions
  BY <1>5 DEF AsideHeard
<1>6. ASSUME NEW a \in Asides, NEW q, AsideWritten(a, q)
      PROVE  faults' >= faults /\ interruptions' = interruptions
  BY <1>6, <1>e DEF AsideWritten
<1>7. ASSUME NEW chunk, ReplyWritten(chunk)
      PROVE  faults' >= faults /\ interruptions' = interruptions
  BY <1>7, <1>e DEF ReplyWritten
<1> QED BY <1>q, <1>1, <1>2, <1>3, <1>4, <1>5, <1>6, <1>7, StepKinds

LEMMA AtHandStep ==
    ASSUME IInv, ReplyTypeOK, InFlight, Replied, Streams, EveryPostAtHand, [Next]_vars,
           Faultless'
    PROVE  EveryPostAtHand'
<1>f. faults' = faults /\ interruptions' = interruptions BY FaultlessBefore
<1>q. ASSUME posts' = posts, \A r \in outbound : \E s \in outbound' : s.post = r.post,
             pc \notin Placed \/ UNCHANGED <<pc, inflight>>
      PROVE  EveryPostAtHand'
  <2> SUFFICES ASSUME NEW p \in DOMAIN posts, OfAReply(p)
               PROVE  (\E r \in outbound' : r.post = p) \/ (pc' \in Placed /\ p = inflight')
    BY <1>q DEF EveryPostAtHand, OfAReply, AtHand
  <2>1. AtHand(p) BY DEF EveryPostAtHand
  <2> QED BY <1>q, <2>1 DEF AtHand
<1>n. {"idle", "received", "done"} \cap Placed = {} BY DEF Placed
<1>1. CASE Rests BY <1>1, <1>q DEF Rests, Calm
<1>2. CASE EchoOrMessage
  <2>1. \A r \in outbound : \E s \in outbound' : s.post = r.post
    BY <1>2, Received DEF EchoOrMessage, Alike
  <2> QED BY <1>2, <1>n, <1>q, <2>1 DEF EchoOrMessage, Receive
<1>3. CASE Works \/ Claims \/ Settles BY <1>3, <1>n, <1>q DEF Works, Claims, Settles, Calm
<1>4. CASE Falls
  <2>1. interruptions \in Nat BY DEF IInv, TypeOK
  <2> QED BY <1>4, <1>f, <2>1 DEF Falls
<1>5. ASSUME NEW piece, NEW n \in 0..2, NEW answered \in BOOLEAN, Speaks(piece, n, answered)
      PROVE  EveryPostAtHand'
  <2>1. Grows(job, piece, n) /\ pc \notin Placed /\ outbound' = outbound
        /\ (answered <=> pc' \in Placed)
    BY <1>5 DEF Speaks, Posted, Placed
  <2>2. faults' = faults + (IF answered THEN n - 1 ELSE n) /\ faults \in Nat
        /\ (answered => inflight' \in DOMAIN posts' /\ inflight' \notin DOMAIN posts)
    BY <1>5 DEF Speaks, Posted, ReplyTypeOK
  <2>3. n = IF answered THEN 1 ELSE 0 BY <1>f, <2>2
  <2>4. Len(posts) \in Nat BY DEF ReplyTypeOK
  <2>5. \A p \in DOMAIN posts' \ DOMAIN posts : answered /\ p = inflight'
    <3>1. DOMAIN posts' = 1..(Len(posts) + n) /\ DOMAIN posts = 1..Len(posts)
      BY <2>1 DEF Grows
    <3>2. CASE answered
      <4>1. DOMAIN posts' \ DOMAIN posts = {Len(posts) + 1} BY <2>3, <2>4, <3>1, <3>2
      <4> QED BY <2>2, <3>2, <4>1
    <3>3. CASE ~answered
      <4>1. DOMAIN posts' = DOMAIN posts BY <2>3, <2>4, <3>1, <3>3
      <4> QED BY <4>1
    <3> QED BY <3>2, <3>3
  <2> SUFFICES ASSUME NEW p \in DOMAIN posts', posts'[p].source \in Events
               PROVE  (\E r \in outbound' : r.post = p) \/ (pc' \in Placed /\ p = inflight')
    BY DEF EveryPostAtHand, OfAReply, AtHand
  <2>6. CASE p \in DOMAIN posts
    <3>1. OfAReply(p) BY <2>1, <2>6 DEF Grows, OfAReply
    <3> QED BY <2>1, <2>6, <3>1 DEF EveryPostAtHand, AtHand
  <2>7. CASE p \notin DOMAIN posts BY <2>1, <2>5, <2>7
  <2> QED BY <2>6, <2>7
<1>6. ASSUME NEW a \in Asides, NEW n \in 0..2, AsideHeard(a, n) PROVE EveryPostAtHand'
  <2>1. Grows(a, AsideLine, n) /\ UNCHANGED <<pc, inflight, outbound>> /\ a \notin Events
    BY <1>6, Parties DEF AsideHeard
  <2> SUFFICES ASSUME NEW p \in DOMAIN posts', posts'[p].source \in Events
               PROVE  (\E r \in outbound : r.post = p) \/ (pc \in Placed /\ p = inflight)
    BY <2>1 DEF EveryPostAtHand, OfAReply, AtHand
  <2>2. p \in DOMAIN posts BY <2>1 DEF Grows
  <2>3. OfAReply(p) BY <2>1, <2>2 DEF Grows, OfAReply
  <2> QED BY <2>2, <2>3 DEF EveryPostAtHand, AtHand
<1>7. ASSUME NEW a \in Asides, NEW q, AsideWritten(a, q) PROVE EveryPostAtHand'
  BY <1>7, <1>q DEF AsideWritten, Files
<1>8. ASSUME NEW chunk, ReplyWritten(chunk) PROVE EveryPostAtHand'
  <2>1. posts' = posts /\ outbound \subseteq outbound' /\ \E s \in outbound' : s.post = inflight
    BY <1>8 DEF ReplyWritten, Files
  <2> SUFFICES ASSUME NEW p \in DOMAIN posts, OfAReply(p)
               PROVE  \E r \in outbound' : r.post = p
    BY <2>1 DEF EveryPostAtHand, OfAReply, AtHand
  <2>2. AtHand(p) BY DEF EveryPostAtHand
  <2> QED BY <2>1, <2>2 DEF AtHand
<1> QED BY <1>1, <1>2, <1>3, <1>4, <1>5, <1>6, <1>7, <1>8, StepKinds

(* What the room heard stays heard.                                         *)
LEMMA RoomKept ==
    ASSUME IInv, ReplyTypeOK, InFlight, Replied, Streams, [Next]_vars,
           NEW p \in DOMAIN posts
    PROVE  p \in DOMAIN posts' /\ posts'[p] = posts[p]
<1>u. posts' = posts => p \in DOMAIN posts' /\ posts'[p] = posts[p] OBVIOUS
<1>1. CASE Rests \/ Works \/ Claims \/ Settles \/ EchoOrMessage \/ Falls
  BY <1>1, <1>u DEF Rests, Works, Claims, Settles, EchoOrMessage, Falls, Calm
<1>2. ASSUME NEW piece, NEW n \in 0..2, NEW answered \in BOOLEAN, Speaks(piece, n, answered)
      PROVE  p \in DOMAIN posts' /\ posts'[p] = posts[p]
  BY <1>2 DEF Speaks, Posted, Grows
<1>3. ASSUME NEW a \in Asides, NEW n \in 0..2, AsideHeard(a, n)
      PROVE  p \in DOMAIN posts' /\ posts'[p] = posts[p]
  BY <1>3 DEF AsideHeard, Grows
<1>4. ASSUME NEW a \in Asides, NEW q, AsideWritten(a, q) PROVE posts' = posts
  BY <1>4 DEF AsideWritten
<1>5. ASSUME NEW chunk, ReplyWritten(chunk) PROVE posts' = posts BY <1>5 DEF ReplyWritten
<1> QED BY <1>u, <1>1, <1>2, <1>3, <1>4, <1>5, StepKinds

LEMMA SourcesKept ==
    ASSUME IInv, ReplyTypeOK, InFlight, Replied, Streams, [Next]_vars
    PROVE  Sources \subseteq Sources'
<1> SUFFICES ASSUME NEW p \in DOMAIN posts PROVE posts[p].source \in Sources'
  BY DEF Sources
<1>1. p \in DOMAIN posts' /\ posts'[p] = posts[p] BY RoomKept
<1> QED BY <1>1 DEF Sources

LEMMA Sizes ==
    ASSUME ReplyTypeOK, NEW w
    PROVE  /\ IsFiniteSet(Spent(w)) /\ Cardinality(Spent(w)) \in Nat
           /\ IsFiniteSet(PostsOf(w)) /\ Cardinality(PostsOf(w)) \in Nat
           /\ IsFiniteSet(EchoesIgnored(w)) /\ Cardinality(EchoesIgnored(w)) \in Nat
           /\ IsFiniteSet(EchoesAnswered(w)) /\ Cardinality(EchoesAnswered(w)) \in Nat
<1>1. IsFiniteSet(outbound) /\ IsFiniteSet(DOMAIN posts) BY Room DEF ReplyTypeOK
<1>2. /\ Spent(w) \in SUBSET outbound /\ PostsOf(w) \in SUBSET DOMAIN posts
      /\ EchoesIgnored(w) \in SUBSET DOMAIN posts
      /\ EchoesAnswered(w) \in SUBSET DOMAIN posts
  BY DEF Spent, PostsOf, EchoesIgnored, EchoesAnswered
<1>3. /\ IsFiniteSet(Spent(w)) /\ IsFiniteSet(PostsOf(w))
      /\ IsFiniteSet(EchoesIgnored(w)) /\ IsFiniteSet(EchoesAnswered(w))
  BY <1>1, <1>2, FS_Subset
<1> QED BY <1>3, FS_CardinalityType

LEMMA SizesAfter ==
    ASSUME ReplyTypeOK', NEW w
    PROVE  /\ IsFiniteSet(Spent(w)') /\ Cardinality(Spent(w)') \in Nat
           /\ IsFiniteSet(EchoesIgnored(w)') /\ Cardinality(EchoesIgnored(w)') \in Nat
           /\ IsFiniteSet(EchoesAnswered(w)') /\ Cardinality(EchoesAnswered(w)') \in Nat
<1>1. IsFiniteSet(outbound') /\ IsFiniteSet(DOMAIN posts')
  <2>1. Len(posts') \in Int /\ DOMAIN posts' = 1..Len(posts') BY DEF ReplyTypeOK
  <2> QED BY <2>1, FS_Interval DEF ReplyTypeOK
<1>2. /\ Spent(w)' \in SUBSET outbound'
      /\ EchoesIgnored(w)' \in SUBSET DOMAIN posts'
      /\ EchoesAnswered(w)' \in SUBSET DOMAIN posts'
  BY DEF Spent, PostsOf, EchoesIgnored, EchoesAnswered
<1>3. /\ IsFiniteSet(Spent(w)')
      /\ IsFiniteSet(EchoesIgnored(w)') /\ IsFiniteSet(EchoesAnswered(w)')
  BY <1>1, <1>2, FS_Subset
<1> QED BY <1>3, FS_CardinalityType

(* A record stays, and is used up only when a message is received; a new    *)
(* one is the first of its source and chunk.                                *)
LEMMA RecordsKept ==
    ASSUME IInv, ReplyTypeOK, InFlight, Replied, Streams, [Next]_vars, ~EchoOrMessage
    PROVE  /\ outbound \subseteq outbound'
           /\ \A s \in outbound' \ outbound : s.consumed = FALSE
           /\ Keyed => Keyed'
<1> DEFINE P == /\ outbound \subseteq outbound'
                /\ \A s \in outbound' \ outbound : s.consumed = FALSE
                /\ Keyed => Keyed'
<1>u. ASSUME outbound' = outbound PROVE P BY <1>u DEF Keyed
<1>f. ASSUME NEW source, NEW chunk, NEW p, Files(source, chunk, p) PROVE P
  <2>1. ASSUME Keyed PROVE Keyed'
    BY <1>f, <2>1 DEF Files, Keyed
  <2> QED BY <1>f, <2>1 DEF Files
<1> HIDE DEF P
<1>1. ASSUME Rests \/ Works \/ Claims \/ Settles \/ Falls PROVE P
  BY <1>1, <1>u DEF Rests, Works, Claims, Settles, Falls, Calm
<1>2. ASSUME NEW piece, NEW n \in 0..2, NEW answered \in BOOLEAN, Speaks(piece, n, answered)
      PROVE  P
  BY <1>2, <1>u DEF Speaks
<1>3. ASSUME NEW a \in Asides, NEW n \in 0..2, AsideHeard(a, n) PROVE P
  BY <1>3, <1>u DEF AsideHeard
<1>4. ASSUME NEW a \in Asides, NEW q, AsideWritten(a, q) PROVE P
  BY <1>4, <1>f DEF AsideWritten
<1>5. ASSUME NEW chunk, ReplyWritten(chunk) PROVE P
  BY <1>5, <1>f DEF ReplyWritten
<1>6. P BY <1>1, <1>2, <1>3, <1>4, <1>5, StepKinds
<1> QED BY <1>6 DEF P

(* A message that is received uses up one record at most, of its words.     *)
Uses(r, s) ==
    /\ r \in outbound /\ s \notin outbound /\ r \in MatchesText(job)
    /\ outbound' = (outbound \ {r}) \cup {s}
    /\ Alike(r, s) /\ r.consumed = FALSE /\ s.consumed = TRUE

LEMMA RecordUsed ==
    ASSUME IInv, ReplyTypeOK, Keyed, EchoOrMessage
    PROVE  \/ outbound' = outbound
           \/ pc' = "done" /\ \E r, s : Uses(r, s)
<1> SUFFICES ASSUME outbound' # outbound PROVE pc' = "done" /\ \E r, s : Uses(r, s)
  OBVIOUS
<1>1. Receive BY DEF EchoOrMessage
<1>2. PICK r \in MatchesText(job) :
         /\ pc' = "done" /\ r \in outbound /\ r.consumed = FALSE
         /\ outbound' = (outbound \ {r}) \cup {[r EXCEPT !.consumed = TRUE]}
         /\ Alike(r, [r EXCEPT !.consumed = TRUE])
         /\ [r EXCEPT !.consumed = TRUE].consumed = TRUE
  BY <1>1, Received
<1> DEFINE s == [r EXCEPT !.consumed = TRUE]
<1>3. /\ outbound' = (outbound \ {r}) \cup {s}
      /\ Alike(r, s) /\ s.consumed = TRUE
  BY <1>2
<1> HIDE DEF s
<1>4. s \notin outbound BY <1>2, <1>3 DEF Keyed, Alike
<1>5. Uses(r, s) BY <1>2, <1>3, <1>4 DEF Uses
<1> QED BY <1>2, <1>5

LEMMA KeyedStep ==
    ASSUME IInv, ReplyTypeOK, InFlight, Replied, Streams, Keyed, [Next]_vars
    PROVE  Keyed'
<1>1. CASE ~EchoOrMessage BY <1>1, RecordsKept
<1>2. CASE EchoOrMessage
  <2>1. CASE outbound' = outbound BY <2>1 DEF Keyed
  <2>2. ASSUME NEW r, NEW s, Uses(r, s) PROVE Keyed'
    BY <2>2 DEF Uses, Alike, Keyed
  <2> QED BY <1>2, <2>1, <2>2, RecordUsed
<1> QED BY <1>1, <1>2

(* What is used up stays so; and what is new among it was used just now.    *)
LEMMA SpentStep ==
    ASSUME IInv, ReplyTypeOK, InFlight, Replied, Streams, Keyed, [Next]_vars, NEW w
    PROVE  /\ Spent(w) \subseteq Spent(w)'
           /\ \/ Spent(w)' = Spent(w)
              \/ /\ EchoOrMessage /\ pc' = "done"
                 /\ \E r, s : /\ Uses(r, s) /\ r.piece = w
                              /\ s \notin Spent(w) /\ Spent(w)' = Spent(w) \cup {s}
<1>1. CASE ~EchoOrMessage
  <2>1. /\ outbound \subseteq outbound'
        /\ \A s \in outbound' \ outbound : s.consumed = FALSE
    BY <1>1, RecordsKept
  <2> QED BY <2>1 DEF Spent
<1>2. CASE EchoOrMessage
  <2>1. CASE outbound' = outbound BY <2>1 DEF Spent
  <2>2. ASSUME NEW r, NEW s, Uses(r, s), pc' = "done"
        PROVE  /\ Spent(w) \subseteq Spent(w)'
               /\ \/ Spent(w)' = Spent(w)
                  \/ r.piece = w /\ s \notin Spent(w) /\ Spent(w)' = Spent(w) \cup {s}
    <3>1. r.id = NoPost BY <2>2 DEF Uses, MatchesText
    <3>2. s.id = NoPost /\ s.piece = r.piece /\ s.consumed = TRUE /\ r.consumed = FALSE
      BY <2>2, <3>1 DEF Uses, Alike
    <3>3. /\ outbound' = (outbound \ {r}) \cup {s} /\ s \notin outbound
      BY <2>2 DEF Uses
    <3>4. CASE r.piece # w
      <4>1. Spent(w)' = Spent(w) BY <3>2, <3>3, <3>4 DEF Spent
      <4> QED BY <4>1
    <3>5. CASE r.piece = w
      <4>1. Spent(w)' = Spent(w) \cup {s} BY <3>2, <3>3, <3>5 DEF Spent
      <4>2. s \notin Spent(w) BY <3>3 DEF Spent
      <4> QED BY <3>5, <4>1, <4>2
    <3> QED BY <3>4, <3>5
  <2> QED BY <1>2, <2>1, <2>2, RecordUsed
<1> QED BY <1>1, <1>2

-----------------------------------------------------------------------------
(*               What is ignored, and what that used up                     *)

(* A message, other than what is no speech, is newly ignored where it was   *)
(* received and taken for an echo.                                          *)
LEMMA NewlyIgnored ==
    ASSUME IInv, ReplyTypeOK, InFlight, Audible, Replied, Streams, [Next]_vars,
           NEW e \in Events, e \in Humans => setup.form[e] = "speech", Ignored(e)'
    PROVE  \/ Ignored(e)
           \/ EchoOrMessage /\ pc = "received" /\ pc' = "done" /\ job = e
<1> DEFINE P == \/ Ignored(e)
                \/ EchoOrMessage /\ pc = "received" /\ pc' = "done" /\ job = e
<1>1. e \notin Sources BY SourcesKept DEF Ignored
<1>i. Over(e) => P BY <1>1 DEF Ignored
<1>2. CASE status'[e] = "completed"
  <2>1. Over(e) BY <1>2, Arrivals DEF Over
  <2> QED BY <1>i, <2>1
<1>3. ASSUME job' = e, pc' = "done" PROVE P
  <2>1. CASE Rests BY <1>3, <1>i, <2>1 DEF Rests, Over
  <2>2. CASE EchoOrMessage BY <1>3, <2>2 DEF EchoOrMessage, Receive
  <2>3. CASE Works
    <3>1. job = e BY <1>3, <2>3 DEF Works
    <3>2. Form(job) # "picture" BY <3>1 DEF Form
    <3>3. pc = "remembering" BY <1>3, <2>3, <3>2 DEF Works
    <3> QED BY <1>1, <3>1, <3>3 DEF Audible
  <2>4. CASE Claims \/ Settles \/ Falls BY <1>3, <2>4 DEF Claims, Settles, Falls
  <2>5. ASSUME NEW piece, NEW n \in 0..2, NEW answered \in BOOLEAN, Speaks(piece, n, answered)
        PROVE  P
    BY <1>3, <2>5 DEF Speaks, Answering
  <2>6. ASSUME NEW a \in Asides, NEW n \in 0..2, AsideHeard(a, n) PROVE P
    BY <1>3, <1>i, <2>6 DEF AsideHeard, Over
  <2>7. ASSUME NEW a \in Asides, NEW q, AsideWritten(a, q) PROVE P
    BY <1>3, <1>i, <2>7 DEF AsideWritten, Over
  <2>8. ASSUME NEW chunk, ReplyWritten(chunk) PROVE P
    BY <1>3, <2>8 DEF ReplyWritten, Answering
  <2> QED BY <2>1, <2>2, <2>3, <2>4, <2>5, <2>6, <2>7, <2>8, StepKinds
<1> QED BY <1>2, <1>3 DEF Ignored, Over

(* Without faults what is ignored stays so.                                 *)
LEMMA IgnoredStays ==
    ASSUME IInv, ReplyTypeOK, InFlight, Replied, Streams, [Next]_vars, Faultless',
           NEW e \in Events, Ignored(e)
    PROVE  Ignored(e)'
<1>f. interruptions' = interruptions BY FaultlessBefore
<1>o. Over(e) /\ e \notin Sources BY DEF Ignored
<1>1. Over(e)'
  <2>1. CASE status[e] = "completed" BY <2>1, Arrivals DEF Over
  <2>2. CASE job = e /\ pc = "done"
    <3>u. ASSUME UNCHANGED <<pc, job>> PROVE Over(e)' BY <2>2, <3>u DEF Over
    <3>1. CASE Rests BY <3>1, <3>u DEF Rests
    <3>2. CASE EchoOrMessage \/ Claims BY <2>2, <3>2 DEF EchoOrMessage, Receive, Claims
    <3>3. CASE Works BY <2>2, <3>3 DEF Works, Answering
    <3>4. CASE Settles
      <4>1. status'[job] = "completed" BY <2>2, <3>4, Settled DEF Settles
      <4> QED BY <2>2, <4>1 DEF Over
    <3>5. CASE Falls
      <4>1. interruptions \in Nat BY DEF IInv, TypeOK
      <4> QED BY <1>f, <3>5, <4>1 DEF Falls
    <3>6. ASSUME NEW piece, NEW n \in 0..2, NEW answered \in BOOLEAN,
                 Speaks(piece, n, answered)
          PROVE  Over(e)'
      BY <2>2, <3>6 DEF Speaks
    <3>7. ASSUME NEW a \in Asides, NEW n \in 0..2, AsideHeard(a, n) PROVE Over(e)'
      BY <3>7, <3>u DEF AsideHeard
    <3>8. ASSUME NEW a \in Asides, NEW q, AsideWritten(a, q) PROVE Over(e)'
      BY <3>8, <3>u DEF AsideWritten
    <3>9. ASSUME NEW chunk, ReplyWritten(chunk) PROVE Over(e)'
      BY <2>2, <3>9 DEF ReplyWritten, Placed
    <3> QED BY <3>1, <3>2, <3>3, <3>4, <3>5, <3>6, <3>7, <3>8, <3>9, StepKinds
  <2> QED BY <1>o, <2>1, <2>2 DEF Over
<1>2. e \notin Sources'
  <2>u. ASSUME posts' = posts PROVE e \notin Sources' BY <1>o, <2>u, Silence
  <2>1. CASE Rests \/ Works \/ Claims \/ Settles \/ EchoOrMessage \/ Falls
    BY <2>1, <2>u DEF Rests, Works, Claims, Settles, EchoOrMessage, Falls, Calm
  <2>2. ASSUME NEW piece, NEW n \in 0..2, NEW answered \in BOOLEAN, Speaks(piece, n, answered)
        PROVE  e \notin Sources'
    <3>1. Grows(job, piece, n) /\ pc \in {"delivering", "streaming"}
      BY <2>2 DEF Speaks, Posted
    <3>2. status[job] = "processing" BY <3>1, AtWork
    <3>3. job # e BY <1>o, <3>1, <3>2 DEF Over
    <3>4. Sources' \subseteq Sources \cup {job} BY <3>1, Hearing
    <3> QED BY <1>o, <3>3, <3>4
  <2>3. ASSUME NEW a \in Asides, NEW n \in 0..2, AsideHeard(a, n) PROVE e \notin Sources'
    <3>1. Grows(a, AsideLine, n) /\ a # e BY <2>3, Parties DEF AsideHeard
    <3>2. Sources' \subseteq Sources \cup {a} BY <3>1, Hearing
    <3> QED BY <1>o, <3>1, <3>2
  <2>4. ASSUME NEW a \in Asides, NEW q, AsideWritten(a, q) PROVE e \notin Sources'
    BY <2>4, <2>u DEF AsideWritten
  <2>5. ASSUME NEW chunk, ReplyWritten(chunk) PROVE e \notin Sources'
    BY <2>5, <2>u DEF ReplyWritten
  <2> QED BY <2>1, <2>2, <2>3, <2>4, <2>5, StepKinds
<1> QED BY <1>1, <1>2 DEF Ignored

LEMMA IgnoredGrow ==
    ASSUME IInv, ReplyTypeOK, InFlight, Replied, Streams, [Next]_vars, Faultless', NEW w
    PROVE  /\ HumansIgnored(w) \subseteq HumansIgnored(w)'
           /\ EchoesIgnored(w) \subseteq EchoesIgnored(w)'
           /\ Misheard(w) \subseteq Misheard(w)'
<1>1. HumansIgnored(w) \subseteq HumansIgnored(w)'
  BY SetupKept, Parties, IgnoredStays DEF HumansIgnored
<1>2. ASSUME NEW p \in EchoesIgnored(w) PROVE p \in EchoesIgnored(w)'
  <2>1. p \in DOMAIN posts /\ OfAReply(p) /\ posts[p].piece = w /\ Ignored(EchoOf[p])
    BY DEF EchoesIgnored, PostsOf
  <2>2. p \in DOMAIN posts' /\ posts'[p] = posts[p] BY <2>1, RoomKept
  <2>3. EchoOf[p] \in Events BY <2>1, Room, EchoNames
  <2>4. Ignored(EchoOf[p])' BY <2>1, <2>3, IgnoredStays
  <2> QED BY <2>1, <2>2, <2>4 DEF EchoesIgnored, PostsOf, OfAReply
<1>3. ASSUME NEW e \in Misheard(w) PROVE e \in Misheard(w)'
  <2>1. /\ e \in Humans /\ setup.form[e] = "speech" /\ setup.words[e] = w
        /\ status[e] = "completed" /\ e \notin Sources
    BY DEF Misheard, Finished, PostsFor, Sources
  <2>2. e \in Events BY <2>1, Parties
  <2>3. status'[e] = "completed" BY <2>1, <2>2, Arrivals
  <2>4. Ignored(e) BY <2>1 DEF Ignored, Over
  <2>5. Ignored(e)' BY <2>2, <2>4, IgnoredStays
  <2>6. e \notin Sources' BY <2>5 DEF Ignored
  <2>7. Finished(e)' BY <2>3, <2>6 DEF Finished, PostsFor, Sources
  <2> QED BY <2>1, <2>7, SetupKept DEF Misheard
<1> QED BY <1>1, <1>2, <1>3

(* What a message that used up a record said.                               *)
LEMMA WordsUsed ==
    ASSUME ReplyTypeOK, NEW r, NEW s, Uses(r, s)
    PROVE  /\ job \in Humans => setup.form[job] = "speech" /\ setup.words[job] = r.piece
           /\ job \notin Humans => posts[PostOf(job)].piece = r.piece
BY DEF Uses, MatchesText, Form, Words

(* Each speech of a human that was ignored used up a record of its words.   *)
LEMMA MistakenStep ==
    ASSUME IInv, ReplyTypeOK, ReplyTypeOK', InFlight, Audible, Replied, Streams, Keyed,
           Mistaken, [Next]_vars
    PROVE  Mistaken'
<1> SUFFICES ASSUME NEW w \in Pieces
             PROVE  /\ IsFiniteSet(HumansIgnored(w)')
                    /\ Cardinality(HumansIgnored(w)') <= Cardinality(Spent(w)')
  BY DEF Mistaken
<1> DEFINE old == HumansIgnored(w)
           new == HumansIgnored(w)'
           spent == Spent(w)
           spent2 == Spent(w)'
<1>1. /\ IsFiniteSet(old) /\ Cardinality(old) \in Nat
      /\ Cardinality(old) <= Cardinality(spent)
  BY FS_CardinalityType DEF Mistaken
<1>2. /\ IsFiniteSet(spent) /\ Cardinality(spent) \in Nat
      /\ IsFiniteSet(spent2) /\ Cardinality(spent2) \in Nat
  BY Sizes, SizesAfter
<1>3. Cardinality(spent) <= Cardinality(spent2)
  <2>1. spent \in SUBSET spent2 BY SpentStep
  <2> QED BY <1>2, <2>1, FS_Subset
<1>4. \A e \in new \ old : /\ EchoOrMessage /\ pc = "received" /\ pc' = "done" /\ job = e
                           /\ e \in Humans /\ setup.form[e] = "speech"
                           /\ setup.words[e] = w
  <2> SUFFICES ASSUME NEW e \in new \ old
               PROVE  /\ EchoOrMessage /\ pc = "received" /\ pc' = "done" /\ job = e
                      /\ e \in Humans /\ setup.form[e] = "speech"
                      /\ setup.words[e] = w
    OBVIOUS
  <2>1. /\ e \in Humans /\ setup.form[e] = "speech" /\ setup.words[e] = w
        /\ Ignored(e)'
    BY SetupKept DEF HumansIgnored
  <2>2. ~Ignored(e) BY <2>1 DEF HumansIgnored
  <2>3. e \in Events BY <2>1, Parties
  <2>4. EchoOrMessage /\ pc = "received" /\ pc' = "done" /\ job = e
    BY <2>1, <2>2, <2>3, NewlyIgnored
  <2> QED BY <2>1, <2>4
<1> HIDE DEF old, new, spent, spent2
<1>5. CASE new \subseteq old
  <2>1. new \in SUBSET old BY <1>5
  <2>2. IsFiniteSet(new) /\ Cardinality(new) <= Cardinality(old) BY <1>1, <2>1, FS_Subset
  <2>3. Cardinality(new) \in Nat BY <2>2, FS_CardinalityType
  <2>4. Cardinality(new) <= Cardinality(spent2) BY <1>1, <1>2, <1>3, <2>2, <2>3
  <2> QED BY <2>2, <2>4 DEF new, spent2
<1>6. CASE ~(new \subseteq old)
  <2>1. /\ EchoOrMessage /\ pc = "received" /\ pc' = "done"
        /\ job \in Humans /\ setup.form[job] = "speech" /\ setup.words[job] = w
    BY <1>4, <1>6
  <2>2. new \in SUBSET (old \cup {job}) BY <1>4
  <2>3. outbound' # outbound
    <3>1. Receive BY <2>1 DEF EchoOrMessage
    <3>2. job \notin Echoes BY <2>1, ReplyLoopAssumption DEF ReplyLoopAssumption
    <3>3. ~MatchesId(job) BY <3>2 DEF MatchesId, PostOf
    <3>4. PICK r \in MatchesText(job) :
             /\ r \in outbound /\ r.consumed = FALSE
             /\ outbound' = (outbound \ {r}) \cup {[r EXCEPT !.consumed = TRUE]}
             /\ [r EXCEPT !.consumed = TRUE].consumed = TRUE
      BY <2>1, <3>1, <3>3, Received
    <3> DEFINE s == [r EXCEPT !.consumed = TRUE]
    <3>5. s # r /\ outbound' = (outbound \ {r}) \cup {s} BY <3>4
    <3> HIDE DEF s
    <3> QED BY <3>4, <3>5
  <2>4. PICK r, s : Uses(r, s) BY <2>1, <2>3, RecordUsed
  <2>5. r.piece = w BY <2>1, <2>4, WordsUsed
  <2>6. r.id = NoPost BY <2>4 DEF Uses, MatchesText
  <2>7. s \in spent2 /\ s \notin spent
    BY <2>4, <2>5, <2>6 DEF Uses, Alike, Spent, spent, spent2
  <2>8. spent \cup {s} \in SUBSET spent2 BY <2>7, SpentStep DEF spent, spent2
  <2>9. Cardinality(spent \cup {s}) = Cardinality(spent) + 1
    BY <1>2, <2>7, FS_AddElement
  <2>10. Cardinality(spent) + 1 <= Cardinality(spent2) BY <1>2, <2>8, <2>9, FS_Subset
  <2>11. /\ IsFiniteSet(old \cup {job})
         /\ Cardinality(old \cup {job}) \in {Cardinality(old), Cardinality(old) + 1}
    BY <1>1, FS_AddElement
  <2>12. IsFiniteSet(new) /\ Cardinality(new) <= Cardinality(old \cup {job})
    BY <2>2, <2>11, FS_Subset
  <2>13. Cardinality(new) \in Nat BY <2>12, FS_CardinalityType
  <2>14. Cardinality(new) <= Cardinality(old) + 1 BY <1>1, <2>11, <2>12, <2>13
  <2>15. Cardinality(new) <= Cardinality(spent2)
    BY <1>1, <1>2, <2>10, <2>13, <2>14
  <2> QED BY <2>12, <2>15 DEF new, spent2
<1> QED BY <1>5, <1>6

(* Without faults, what is received was not answered before.                *)
LEMMA Unheard ==
    ASSUME IInv, ReplyTypeOK, Streams, Heeded, RecordsOfPosts, Faultless,
           EveryPostAtHand, pc = "received"
    PROVE  job \in Events /\ job \notin Sources /\ ~Ignored(job)
<1>1. job \in Events /\ status[job] = "processing" BY AtWork
<1>2. ASSUME NEW p \in DOMAIN posts, posts[p].source = job PROVE FALSE
  <2>1. PICK r \in outbound : r.post = p
    BY <1>1, <1>2 DEF EveryPostAtHand, OfAReply, AtHand, Placed
  <2>2. r.source = job BY <1>2, <2>1 DEF RecordsOfPosts
  <2>3. bocco_sent[job] BY <1>1, <2>1, <2>2 DEF Streams, Filed
  <2> QED BY <1>1, <2>3 DEF Heeded, Faultless, Spoke
<1>3. ~Over(job) BY <1>1 DEF Over
<1> QED BY <1>1, <1>2, <1>3 DEF Sources, Ignored

(* The tally of what was used up and what was ignored, in every step.       *)
LEMMA TalliedStep ==
    ASSUME IInv, ReplyTypeOK, ReplyTypeOK', InFlight, Replied, Streams, Heeded, Echoed,
           RecordsOfPosts, Keyed, Mistaken, Mistaken', EveryPostAtHand, Tallied,
           [Next]_vars, Faultless'
    PROVE  Tallied'
<1> SUFFICES ASSUME ~setup'.ids, NEW w \in Answers
             PROVE  Cardinality(Spent(w)')
                       <= Cardinality(EchoesIgnored(w)') + Cardinality(HumansIgnored(w)')
  BY DEF Tallied
<1> DEFINE spent == Spent(w)
           spent2 == Spent(w)'
           echoes == EchoesIgnored(w)
           echoes2 == EchoesIgnored(w)'
           humans == HumansIgnored(w)
           humans2 == HumansIgnored(w)'
<1>f. Faultless BY FaultlessBefore
<1>w. w \in Pieces BY PiecesTyped
<1>1. /\ IsFiniteSet(spent) /\ Cardinality(spent) \in Nat
      /\ IsFiniteSet(spent2) /\ Cardinality(spent2) \in Nat
      /\ IsFiniteSet(echoes) /\ Cardinality(echoes) \in Nat
      /\ IsFiniteSet(echoes2) /\ Cardinality(echoes2) \in Nat
  BY Sizes, SizesAfter
<1>2. /\ IsFiniteSet(humans) /\ Cardinality(humans) \in Nat
      /\ IsFiniteSet(humans2) /\ Cardinality(humans2) \in Nat
  BY <1>w, FS_CardinalityType DEF Mistaken
<1>3. Cardinality(spent) <= Cardinality(echoes) + Cardinality(humans)
  BY SetupKept DEF Tallied
<1>4. echoes \in SUBSET echoes2 /\ humans \in SUBSET humans2 BY IgnoredGrow
<1>5. Cardinality(echoes) <= Cardinality(echoes2) /\ Cardinality(humans) <= Cardinality(humans2)
  BY <1>1, <1>2, <1>4, FS_Subset
<1>6. \/ spent2 = spent
      \/ /\ EchoOrMessage /\ pc' = "done"
         /\ \E r, s : /\ Uses(r, s) /\ r.piece = w
                      /\ s \notin spent /\ spent2 = spent \cup {s}
  BY SpentStep
<1>7. ASSUME EchoOrMessage, pc' = "done", NEW r, NEW s, Uses(r, s), r.piece = w
      PROVE  (\E p \in echoes2 : p \notin echoes) \/ (\E e \in humans2 : e \notin humans)
  <2>1. pc = "received" /\ job' = job /\ posts' = posts BY <1>7 DEF EchoOrMessage, Receive
  <2>2. job \in Events /\ job \notin Sources /\ ~Ignored(job) BY <1>f, <2>1, Unheard
  <2>3. Sources' = Sources BY <2>1, Silence
  <2>4. Ignored(job)' BY <1>7, <2>1, <2>2, <2>3 DEF Ignored, Over
  <2>5. CASE job \in Humans
    <3>1. setup.form[job] = "speech" /\ setup.words[job] = w BY <1>7, <2>5, WordsUsed
    <3>2. job \notin humans BY <2>2 DEF HumansIgnored
    <3>3. job \in humans2
      BY <2>1, <2>4, <2>5, <3>1, SetupKept DEF HumansIgnored
    <3> QED BY <3>2, <3>3
  <2>6. CASE job \notin Humans
    <3>1. PICK p \in 1..MaxPosts : job = EchoOf[p] BY <2>2, <2>6, EchoNames
    <3>2. status[job] = "processing" BY <2>1, AtWork
    <3>3. p \in DOMAIN posts BY <3>1, <3>2 DEF Echoed
    <3>4. posts[p].piece = w BY <1>7, <2>6, <3>1, EchoNames, WordsUsed
    <3>5. OfAReply(p) BY <3>3, <3>4, PiecesTyped, PostsTyped DEF OfAReply
    <3>6. p \notin echoes BY <2>2, <3>1 DEF EchoesIgnored
    <3>7. p \in echoes2
      BY <2>1, <2>4, <3>1, <3>3, <3>4, <3>5 DEF EchoesIgnored, PostsOf, OfAReply
    <3> QED BY <3>6, <3>7
  <2> QED BY <2>5, <2>6
<1> HIDE DEF spent, spent2, echoes, echoes2, humans, humans2
<1>8. CASE spent2 = spent
  <2>1. Cardinality(spent2) <= Cardinality(echoes2) + Cardinality(humans2)
    BY <1>1, <1>2, <1>3, <1>5, <1>8
  <2> QED BY <2>1 DEF spent2, echoes2, humans2
<1>9. ASSUME EchoOrMessage, pc' = "done", NEW r, NEW s, Uses(r, s), r.piece = w,
             s \notin spent, spent2 = spent \cup {s}
      PROVE  Cardinality(spent2) <= Cardinality(echoes2) + Cardinality(humans2)
  <2>1. Cardinality(spent2) = Cardinality(spent) + 1 BY <1>1, <1>9, FS_AddElement
  <2>2. Cardinality(echoes) + Cardinality(humans) + 1
           <= Cardinality(echoes2) + Cardinality(humans2)
    <3>1. ASSUME NEW p \in echoes2, p \notin echoes
          PROVE  Cardinality(echoes) + 1 <= Cardinality(echoes2)
      <4>1. echoes \cup {p} \in SUBSET echoes2 BY <1>4, <3>1
      <4>2. Cardinality(echoes \cup {p}) = Cardinality(echoes) + 1
        BY <1>1, <3>1, FS_AddElement
      <4> QED BY <1>1, <4>1, <4>2, FS_Subset
    <3>2. ASSUME NEW e \in humans2, e \notin humans
          PROVE  Cardinality(humans) + 1 <= Cardinality(humans2)
      <4>1. humans \cup {e} \in SUBSET humans2 BY <1>4, <3>2
      <4>2. Cardinality(humans \cup {e}) = Cardinality(humans) + 1
        BY <1>2, <3>2, FS_AddElement
      <4> QED BY <1>2, <4>1, <4>2, FS_Subset
    <3>3. \/ Cardinality(echoes) + 1 <= Cardinality(echoes2)
          \/ Cardinality(humans) + 1 <= Cardinality(humans2)
      BY <1>7, <1>9, <3>1, <3>2
    <3> QED BY <1>1, <1>2, <1>5, <3>3
  <2> QED BY <1>1, <1>2, <1>3, <2>1, <2>2
<1>10. CASE spent2 # spent
  <2>1. Cardinality(spent2) <= Cardinality(echoes2) + Cardinality(humans2)
    BY <1>6, <1>9, <1>10
  <2> QED BY <2>1 DEF spent2, echoes2, humans2
<1> QED BY <1>8, <1>10

(* Were every record of a piece used up, there would be as many ignored     *)
(* echoes and humans as posts of it: the echoes that are answered stand in  *)
(* for the humans.                                                          *)
LEMMA FewAnsweredStep ==
    ASSUME IInv, ReplyTypeOK, ReplyTypeOK', InFlight, Replied, Streams, Echoed,
           RecordsOfPosts, Mistaken, Mistaken', EveryPostAtHand, Tallied, FewAnswered,
           [Next]_vars, Faultless'
    PROVE  FewAnswered'
<1> SUFFICES ASSUME NEW w \in Answers
             PROVE  /\ setup'.ids => EchoesAnswered(w)' = {}
                    /\ Cardinality(EchoesAnswered(w)') <= Cardinality(Misheard(w)')
  BY DEF FewAnswered
<1> DEFINE answered == EchoesAnswered(w)
           answered2 == EchoesAnswered(w)'
           misheard == Misheard(w)
           misheard2 == Misheard(w)'
           humans == HumansIgnored(w)
           echoes == EchoesIgnored(w)
           spent == Spent(w)
           heard == PostsOf(w)
<1>1. /\ IsFiniteSet(answered) /\ Cardinality(answered) \in Nat
      /\ IsFiniteSet(answered2) /\ Cardinality(answered2) \in Nat
      /\ IsFiniteSet(echoes) /\ Cardinality(echoes) \in Nat
      /\ IsFiniteSet(spent) /\ Cardinality(spent) \in Nat
      /\ IsFiniteSet(heard) /\ Cardinality(heard) \in Nat
  BY Sizes, SizesAfter
<1>2. /\ IsFiniteSet(humans) /\ Cardinality(humans) \in Nat
      /\ IsFiniteSet(misheard2) /\ Cardinality(misheard2) \in Nat
      /\ misheard \in SUBSET misheard2 /\ misheard \subseteq humans
  <2>1. w \in Pieces BY PiecesTyped
  <2>2. IsFiniteSet(humans) /\ IsFiniteSet(HumansIgnored(w)') BY <2>1 DEF Mistaken
  <2>3. misheard \subseteq humans
    BY DEF Misheard, Finished, PostsFor, HumansIgnored, Ignored, Over, Sources
  <2>4. misheard2 \in SUBSET HumansIgnored(w)'
    BY DEF Misheard, Finished, PostsFor, HumansIgnored, Ignored, Over, Sources
  <2>5. IsFiniteSet(misheard2) BY <2>2, <2>4, FS_Subset
  <2>6. misheard \in SUBSET misheard2 BY IgnoredGrow
  <2> QED BY <2>2, <2>3, <2>5, <2>6, FS_CardinalityType
<1>3. /\ Cardinality(misheard) \in Nat /\ Cardinality(misheard) <= Cardinality(misheard2)
  <2>1. IsFiniteSet(misheard) /\ Cardinality(misheard) <= Cardinality(misheard2)
    BY <1>2, FS_Subset
  <2> QED BY <2>1, FS_CardinalityType
<1>4. /\ setup.ids => answered = {}
      /\ Cardinality(answered) <= Cardinality(misheard)
  BY DEF FewAnswered
<1>5. \A p \in answered2 \ answered :
         /\ p \in DOMAIN posts /\ OfAReply(p) /\ posts[p].piece = w /\ EchoOrMessage
         /\ pc = "received" /\ pc' = "replying" /\ job = EchoOf[p]
  <2> SUFFICES ASSUME NEW p \in answered2, p \notin answered
               PROVE  /\ p \in DOMAIN posts /\ OfAReply(p) /\ posts[p].piece = w
                      /\ EchoOrMessage /\ pc = "received" /\ pc' = "replying"
                      /\ job = EchoOf[p]
    OBVIOUS
  <2>1. /\ p \in DOMAIN posts' /\ posts'[p].source \in Events /\ posts'[p].piece = w
        /\ AnsweredEcho(p)'
    BY DEF EchoesAnswered, PostsOf, OfAReply
  <2>2. p \in DOMAIN posts /\ OfAReply(p) BY <2>1, NewlyAnswered
  <2>3. posts[p].piece = w BY <2>1, <2>2, RoomKept
  <2>4. ~AnsweredEcho(p) BY <2>2, <2>3 DEF EchoesAnswered, PostsOf
  <2> QED BY <2>1, <2>2, <2>3, <2>4, NewlyAnswered
<1>6. CASE answered2 \subseteq answered
  <2>1. setup'.ids => answered2 = {} BY <1>4, <1>6, SetupKept
  <2>2. answered2 \in SUBSET answered BY <1>6
  <2>3. Cardinality(answered2) <= Cardinality(answered) BY <1>1, <2>2, FS_Subset
  <2> HIDE DEF answered, answered2, misheard, misheard2
  <2>4. Cardinality(answered2) <= Cardinality(misheard2)
    BY <1>1, <1>2, <1>3, <1>4, <2>3
  <2> QED BY <2>1, <2>4 DEF answered2, misheard2
<1>7. CASE ~(answered2 \subseteq answered)
  <2>1. PICK p \in answered2 : p \notin answered BY <1>7
  <2>2. /\ p \in DOMAIN posts /\ OfAReply(p) /\ posts[p].piece = w /\ EchoOrMessage
        /\ pc = "received" /\ pc' = "replying" /\ job = EchoOf[p]
    BY <1>5, <2>1
  <2>3. answered2 \in SUBSET (answered \cup {p})
    <3>1. \A q \in answered2 \ answered : q \in DOMAIN posts /\ EchoOf[q] = EchoOf[p]
      BY <1>5, <2>2
    <3>2. \A q \in answered2 \ answered : q = p BY <2>2, <3>1, Room, EchoNames
    <3> QED BY <3>2
  <2>4. ~MatchesId(job) /\ MatchesText(job) = {} /\ PostOf(job) = p /\ p # NoPost
        /\ job \notin Humans
    BY <2>2, Received, Room, EchoNames DEF EchoOrMessage, NoPost
  <2>5. \A q \in DOMAIN posts : OfAReply(q) => \E r \in outbound : r.post = q
    BY <2>2 DEF EveryPostAtHand, AtHand, Placed
  <2>6. ~setup.ids
    <3> SUFFICES ASSUME setup.ids PROVE FALSE
      OBVIOUS
    <3>1. PICK r \in outbound : r.post = p BY <2>2, <2>5
    <3>2. r.id = p BY <3>1 DEF RecordsOfPosts
    <3> QED BY <2>4, <3>1, <3>2 DEF MatchesId
  <2>7. \A r \in outbound : r.piece = w => r.consumed
    <3> SUFFICES ASSUME NEW r \in outbound, r.piece = w, ~r.consumed PROVE FALSE
      OBVIOUS
    <3>1. r.id = NoPost BY <2>6 DEF RecordsOfPosts
    <3> QED BY <2>2, <2>4, <3>1 DEF MatchesText, Form, Words
  <2>8. \A q \in heard : \E r \in spent : r.post = q
    <3> SUFFICES ASSUME NEW q \in heard PROVE \E r \in spent : r.post = q
      OBVIOUS
    <3>1. q \in DOMAIN posts /\ OfAReply(q) /\ posts[q].piece = w BY DEF PostsOf
    <3>2. PICK r \in outbound : r.post = q BY <2>5, <3>1
    <3>3. r.piece = w /\ r.id = NoPost BY <2>6, <3>1, <3>2 DEF RecordsOfPosts
    <3> QED BY <2>7, <3>2, <3>3 DEF Spent
  <2>9. \A r \in spent : r.post \in heard
    <3> SUFFICES ASSUME NEW r \in spent PROVE r.post \in heard
      OBVIOUS
    <3>1. r \in outbound /\ r.piece = w BY DEF Spent
    <3>2. r.post \in DOMAIN posts /\ posts[r.post].piece = w BY <3>1 DEF RecordsOfPosts
    <3>3. OfAReply(r.post) BY <3>2, PiecesTyped, PostsTyped DEF OfAReply
    <3> QED BY <3>2, <3>3 DEF PostsOf
  <2>10. status[job] = "processing" BY <2>2, AtWork
  <2>11. p \in heard /\ p \notin echoes /\ answered \subseteq heard /\ echoes \subseteq heard
    BY <2>2, <2>10 DEF PostsOf, EchoesIgnored, EchoesAnswered, Ignored, Over
  <2>12. answered \cap echoes = {}
    BY <2>2 DEF EchoesAnswered, EchoesIgnored, AnsweredEcho, Ignored, Answering
  <2>13. humans = misheard
    BY <2>2 DEF Misheard, Finished, PostsFor, HumansIgnored, Ignored, Over, Sources
  <2>14. Cardinality(spent) <= Cardinality(echoes) + Cardinality(humans)
    BY <2>6 DEF Tallied
  <2> HIDE DEF answered, answered2, misheard, misheard2, humans, echoes, spent, heard
  <2>15. Cardinality(heard) <= Cardinality(spent)
    <3> DEFINE f == [r \in spent |-> r.post]
    <3>1. f \in [spent -> heard] BY <2>9
    <3>2. \A q \in heard : \E r \in spent : f[r] = q BY <2>8
    <3> HIDE DEF f
    <3>3. f \in Surjection(spent, heard) BY <3>1, <3>2 DEF Surjection
    <3> QED BY <1>1, <3>3, FS_Surjection
  <2> DEFINE more == answered \cup {p}
  <2>16. IsFiniteSet(more) /\ Cardinality(more) \in Nat
    <3>1. IsFiniteSet(more) BY <1>1, FS_AddElement
    <3> QED BY <3>1, FS_CardinalityType
  <2>17. more \cap echoes = {} /\ more \cup echoes \in SUBSET heard
    BY <2>11, <2>12
  <2>18. Cardinality(answered2) <= Cardinality(more) BY <2>3, <2>16, FS_Subset
  <2> HIDE DEF more
  <2>19. Cardinality(more \cup echoes) = Cardinality(more) + Cardinality(echoes)
    <3>1. Cardinality(more \cap echoes) = 0 BY <2>17, FS_EmptySet
    <3>2. Cardinality(more \cup echoes)
             = Cardinality(more) + Cardinality(echoes) - Cardinality(more \cap echoes)
      BY <1>1, <2>16, FS_Union
    <3> QED BY <1>1, <2>16, <3>1, <3>2
  <2>20. Cardinality(more \cup echoes) <= Cardinality(heard) BY <1>1, <2>17, FS_Subset
  <2>21. Cardinality(answered2) <= Cardinality(misheard2)
    BY <1>1, <1>2, <1>3, <2>13, <2>14, <2>15, <2>16, <2>18, <2>19, <2>20
  <2> QED BY <2>6, <2>21, SetupKept DEF answered2, misheard2
<1> QED BY <1>6, <1>7
-----------------------------------------------------------------------------
(*           Which echoes are answered, which messages are not              *)

EchoInv == Echoed /\ RecordsOfPosts /\ Unrecorded /\ Keyed /\ Mistaken /\ NothingLost

LEMMA InitEchoes == Init => EchoInv
<1> SUFFICES ASSUME Init PROVE EchoInv
  OBVIOUS
<1>1. /\ pc = "idle" /\ outbound = {} /\ DOMAIN posts = {} /\ Sources = {}
      /\ \A e \in Events : status[e] = "absent"
  BY DEF Init, QueueInit, Sources
<1>2. Echoed BY <1>1, EchoNames DEF Echoed
<1>3. RecordsOfPosts /\ Keyed BY <1>1 DEF RecordsOfPosts, Keyed
<1>4. Unrecorded BY <1>1 DEF Unrecorded
<1>5. EveryPostAtHand BY <1>1 DEF EveryPostAtHand
<1>6. ASSUME NEW w
      PROVE  /\ Spent(w) = {} /\ HumansIgnored(w) = {} /\ EchoesIgnored(w) = {}
             /\ EchoesAnswered(w) = {} /\ Misheard(w) = {}
  <2>1. Spent(w) = {} BY <1>1 DEF Spent
  <2>2. EchoesIgnored(w) = {} /\ EchoesAnswered(w) = {}
    BY <1>1 DEF EchoesIgnored, EchoesAnswered, PostsOf
  <2>3. \A e \in Humans : ~Ignored(e) /\ ~Finished(e)
    BY <1>1, Parties DEF Ignored, Over, Finished
  <2> QED BY <2>1, <2>2, <2>3 DEF HumansIgnored, Misheard
<1>7. IsFiniteSet({}) /\ Cardinality({}) = 0 BY FS_EmptySet
<1>8. Mistaken BY <1>6, <1>7 DEF Mistaken
<1>9. Tallied BY <1>6, <1>7 DEF Tallied
<1>10. FewAnswered BY <1>6, <1>7 DEF FewAnswered
<1> QED BY <1>2, <1>3, <1>4, <1>5, <1>8, <1>9, <1>10 DEF EchoInv, NothingLost

LEMMA EchoStep == RInv /\ RInv' /\ EchoInv /\ [Next]_vars => EchoInv'
<1> SUFFICES ASSUME RInv, RInv', EchoInv, [Next]_vars PROVE EchoInv'
  OBVIOUS
<1> USE DEF RInv, EchoInv
<1>1. Echoed' BY EchoedStep
<1>2. RecordsOfPosts' BY RecordsOfPostsStep
<1>3. Unrecorded' BY UnrecordedStep
<1>4. Keyed' BY KeyedStep
<1>5. Mistaken' BY MistakenStep
<1>6. ASSUME Faultless' PROVE EveryPostAtHand' /\ Tallied' /\ FewAnswered'
  <2>1. EveryPostAtHand /\ Tallied /\ FewAnswered
    BY <1>6, FaultlessBefore DEF NothingLost
  <2>2. EveryPostAtHand' BY <1>6, <2>1, AtHandStep
  <2>3. Tallied' BY <1>5, <1>6, <2>1, TalliedStep
  <2>4. FewAnswered' BY <1>5, <1>6, <2>1, FewAnsweredStep
  <2> QED BY <2>2, <2>3, <2>4
<1>7. NothingLost' BY <1>6 DEF NothingLost
<1> QED BY <1>1, <1>2, <1>3, <1>4, <1>5, <1>7

(* An echo comes after its post, a record is of a post, what is answered    *)
(* has no record with an id, each speech of a human that was ignored used a *)
(* record of its words up; and without faults every post of a reply is      *)
(* recorded, what was used up was ignored, and the echoes that are answered *)
(* are no more than the humans who were taken for them.                     *)
THEOREM EchoInvariant == Spec => []EchoInv
BY InitEchoes, EchoStep, ReplyInvariant, PTL DEF Spec

(* A message of a human that has a room and is speech or a recording is     *)
(* completed only after an answer was heard, unless its words used up the   *)
(* record of a post without an id, one each; and it is given up only with   *)
(* an answer at hand.                                                       *)
THEOREM AMessageIsAnswered == Spec => []NeverSilent
<1>1. RInv /\ EchoInv => NeverSilent
  <2> SUFFICES ASSUME RInv, EchoInv PROVE NeverSilent
    OBVIOUS
  <2> USE DEF RInv, EchoInv
  <2>1. ASSUME NEW e \in Humans
        PROVE  /\ Finished(e) => setup.form[e] # "unheard"
               /\ status[e] = "dead_letter" => response[e] # Nothing
    BY DEF Answered, Finished, PostsFor, Sources
  <2>2. ASSUME NEW w \in Range(setup.words)
        PROVE  Cardinality(Misheard(w)) <= Cardinality(Spent(w))
    <3>1. w \in Pieces BY SetupTyped DEF Range
    <3>2. Misheard(w) \in SUBSET HumansIgnored(w)
      BY DEF Misheard, Finished, PostsFor, HumansIgnored, Ignored, Over, Sources
    <3>3. IsFiniteSet(HumansIgnored(w))
          /\ Cardinality(HumansIgnored(w)) <= Cardinality(Spent(w))
      BY <3>1 DEF Mistaken
    <3>4. /\ IsFiniteSet(Misheard(w))
          /\ Cardinality(Misheard(w)) <= Cardinality(HumansIgnored(w))
      BY <3>2, <3>3, FS_Subset
    <3>5. /\ Cardinality(Misheard(w)) \in Nat /\ Cardinality(HumansIgnored(w)) \in Nat
          /\ Cardinality(Spent(w)) \in Nat
      BY <3>3, <3>4, Sizes, FS_CardinalityType
    <3> QED BY <3>3, <3>4, <3>5
  <2> QED BY <2>1, <2>2 DEF NeverSilent
<1> QED BY <1>1, ReplyInvariant, EchoInvariant, PTL

(* Where posts have ids an echo of a reply is answered only after a fault,  *)
(* and only if its post never made it into the records; where they have     *)
(* none, and without faults, only in place of a human who said the same and *)
(* was taken for it.                                                        *)
THEOREM EchoesAnsweredOnlyIfLost == Spec => []EchoAnsweredOnlyIfLost
<1>1. RInv /\ EchoInv => EchoAnsweredOnlyIfLost
  <2> SUFFICES ASSUME RInv, EchoInv PROVE EchoAnsweredOnlyIfLost
    OBVIOUS
  <2> USE DEF RInv, EchoInv
  <2> DEFINE answered == {p \in DOMAIN posts : /\ posts[p].source \in Events
                                               /\ PostsFor(EchoOf[p]) # {}}
  <2>1. ASSUME NEW p \in answered
        PROVE  /\ p \in DOMAIN posts /\ OfAReply(p) /\ AnsweredEcho(p)
               /\ posts[p].piece \in Answers /\ p \in EchoesAnswered(posts[p].piece)
    <3>1. p \in DOMAIN posts /\ OfAReply(p) /\ AnsweredEcho(p)
      BY DEF OfAReply, AnsweredEcho, PostsFor, Sources
    <3>2. posts[p].piece \in Answers BY <3>1, PostsTyped DEF OfAReply
    <3> QED BY <3>1, <3>2 DEF EchoesAnswered, PostsOf
  <2>2. faults \in Nat /\ interruptions \in Nat BY DEF ReplyTypeOK, IInv, TypeOK
  <2>3. ASSUME setup.ids, NEW p \in answered
        PROVE  faults + interruptions > 0 /\ \A r \in outbound : r.post # p
    <3>1. ~Faultless BY <2>1, <2>3 DEF NothingLost, FewAnswered
    <3>2. faults + interruptions > 0 BY <2>2, <3>1 DEF Faultless
    <3> QED BY <2>1, <2>3, <3>2 DEF Unrecorded
  <2>4. ASSUME ~setup.ids, faults + interruptions = 0,
               NEW w \in {posts[p].piece : p \in answered}
        PROVE  Cardinality({p \in answered : posts[p].piece = w})
                  <= Cardinality(Misheard(w))
    <3>1. Faultless BY <2>2, <2>4 DEF Faultless
    <3>2. w \in Answers BY <2>1
    <3>3. Cardinality(EchoesAnswered(w)) <= Cardinality(Misheard(w))
      BY <3>1, <3>2 DEF NothingLost, FewAnswered
    <3>4. {p \in answered : posts[p].piece = w} \in SUBSET EchoesAnswered(w)
      BY <2>1
    <3>5. IsFiniteSet(EchoesAnswered(w)) /\ Cardinality(EchoesAnswered(w)) \in Nat
      BY Sizes
    <3>6. /\ IsFiniteSet({p \in answered : posts[p].piece = w})
          /\ Cardinality({p \in answered : posts[p].piece = w})
                <= Cardinality(EchoesAnswered(w))
      BY <3>4, <3>5, FS_Subset
    <3>7. Cardinality({p \in answered : posts[p].piece = w}) \in Nat
      BY <3>6, FS_CardinalityType
    <3>8. Cardinality(Misheard(w)) \in Nat
      <4>1. w \in Pieces BY <3>2, PiecesTyped
      <4>2. Misheard(w) \in SUBSET HumansIgnored(w)
        BY DEF Misheard, Finished, PostsFor, HumansIgnored, Ignored, Over, Sources
      <4>3. IsFiniteSet(Misheard(w)) BY <4>1, <4>2, FS_Subset DEF Mistaken
      <4> QED BY <4>3, FS_CardinalityType
    <3> HIDE DEF answered
    <3> QED BY <3>3, <3>5, <3>6, <3>7, <3>8
  <2> QED BY <2>3, <2>4 DEF EchoAnsweredOnlyIfLost
<1> QED BY <1>1, ReplyInvariant, EchoInvariant, PTL

(* The conversation accepts, orders and settles its messages as the inbox   *)
(* promises.                                                                *)
THEOREM ConversationImplementsInbox == Spec => ImplementsInbox
BY ConversationIsAQueue, Refinement, PTL
=============================================================================
