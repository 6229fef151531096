----------------------------- MODULE ReplyLoop ------------------------------
(***************************************************************************)
(* The conversation: how the worker answers a message, composed with the   *)
(* queue it comes from, the room it speaks into and the echoes that come   *)
(* back.                                                                   *)
(*                                                                         *)
(* Every message the bridge posts returns as a message.received webhook of *)
(* the same account, which nothing but the delivery records can tell from  *)
(* a human's.  An echo that is not recognised is answered; and where posts *)
(* have no ids, a human who says what the robot just said is taken for an  *)
(* echo.                                                                   *)
(*                                                                         *)
(* Speech is abstracted to pieces <<g, i>>: the i-th sentence of the g-th  *)
(* generation; every generation says something new.  A reply is a sequence *)
(* of pieces.  The apology is the same piece whenever it is spoken, and so *)
(* is the line that says that nothing was understood: they count as        *)
(* generations 0 and -1, which never happen.                               *)
(***************************************************************************)
EXTENDS EventQueue, Sequences, SequencesExt, FiniteSets

CONSTANTS
    Humans,        (* the events that are messages of a human              *)
    EchoOf,        (* <<e1, ..., eN>>: the event of the echo of each post  *)
    Asides,        (* lines a generator speaks outside the reply path      *)
    Setups,        (* the setups considered: stream_sentences, whether the *)
                   (* platform answers a POST with a unique_id, the asides *)
                   (* there are, which humans speak, what they say and in  *)
                   (* which form, and bounds on the posts and on the       *)
                   (* responses to a POST that are lost                    *)
    MaxChunks      (* stream_max_chunks                                    *)

Echoes == Range(EchoOf)
MaxPosts == Len(EchoOf)
Pieces == Int \X Nat

(* A message of a human: speech that was understood; a recording of which  *)
(* nothing was; neither speech nor a recording; or one without a room.     *)
Forms == {"speech", "unheard", "picture", "homeless"}

ASSUME ReplyLoopAssumption ==
    /\ EchoOf \in Seq(Events) /\ IsInjective(EchoOf)
    /\ Humans \cup Echoes = Events
    /\ Humans \cap Echoes = {}
    /\ \A e \in Events : Kind[e] = "message.received"
    /\ Asides \cap Events = {}
    /\ Setups \subseteq [streams : BOOLEAN, ids : BOOLEAN,
                         asides : SUBSET Asides,
                         posts : 1..MaxPosts, faults : Nat,
                         humans : SUBSET Humans, words : [Humans -> Pieces],
                         form : [Humans -> Forms]]
    /\ MaxChunks \in Nat \ {0}

VARIABLES
    setup,         (* the setup of this behaviour                           *)
    pc,            (* where the worker is in the event it processes         *)
    said,          (* the pieces of the reply being streamed (chunk_texts)  *)
    inflight,      (* the post whose response the worker got, not recorded  *)
    fresh,         (* was the reply produced in this attempt?               *)
    response,      (* event_effects.response_text, <<>> if NULL             *)
    bocco_sent,    (* event_effects.bocco_sent                              *)
    outbound,      (* outbound_messages and outbound_stream_messages        *)
    posts,         (* what the room heard, in order                         *)
    generations,   (* replies generated so far                              *)
    turns,         (* the transcript: event -> reply remembered, or <<>>    *)
    aside,         (* aside -> the post it made, 0 before, -1 when over     *)
    faults         (* lost responses so far                                 *)

workerVars == <<pc, said, inflight, fresh>>
durableVars == <<response, bocco_sent, outbound, turns>>
worldVars == <<setup, posts, generations, faults>>
replyVars == <<workerVars, durableVars, worldVars, aside>>
vars == <<queueVars, replyVars>>

NoPost == 0
Nothing == <<>>
Apology == <<0, 0>>
AsideLine == <<0, 1>>
NotHeard == <<-1, 0>>

Init ==
    /\ QueueInit
    /\ setup \in Setups
    /\ pc = "idle" /\ said = Nothing /\ inflight = NoPost /\ fresh = FALSE
    /\ response = [e \in Events |-> Nothing]
    /\ bocco_sent = [e \in Events |-> FALSE]
    /\ outbound = {}
    /\ posts = <<>> /\ generations = 0 /\ faults = 0
    /\ turns = [e \in Events |-> Nothing]
    /\ aside = [a \in Asides |-> NoPost]
-----------------------------------------------------------------------------
(*                        The room and its webhooks                        *)

HumanSpeaks(e) ==
    /\ e \in setup.humans
    /\ Enqueue(e)
    /\ UNCHANGED replyVars

(* The echo of a post arrives, possibly before the POST has returned, and  *)
(* possibly never.                                                         *)
EchoArrives(p) ==
    /\ p \in DOMAIN posts
    /\ Enqueue(EchoOf[p])
    /\ UNCHANGED replyVars

MutantPost(source, piece, n, answered) ==
    /\ n \in 0..2
    /\ answered => n > 0
    /\ Len(posts) + n <= setup.posts
    /\ answered \/ faults + n <= setup.faults
    /\ faults' = IF answered THEN faults ELSE faults + n
    /\ posts' = posts \o [i \in 1..n |-> [source |-> source, piece |-> piece]]

(* One POST of a piece for a source, as the client performs it: n is how   *)
(* often the platform accepted it, answered whether a response came back.  *)
(* The transport sends a request once more when its response is lost, so a *)
(* call may post nothing (and fail), once, or twice; each acceptance whose *)
(* response is lost is a fault.                                            *)
Post(source, piece, n, answered) ==
    LET lost == IF answered THEN n - 1 ELSE n IN
    /\ n \in 0..2
    /\ answered => n > 0
    /\ Len(posts) + n <= setup.posts
    /\ faults + lost <= setup.faults
    /\ faults' = faults + lost
    /\ posts' = posts \o [i \in 1..n |-> [source |-> source, piece |-> piece]]

(* The delivery record of a post: with the id the platform gave, or NULL.  *)
(* The post itself is kept for the properties only.                        *)
Delivery(source, chunk, p) ==
    [source |-> source, chunk |-> chunk, piece |-> posts[p].piece, post |-> p,
     id |-> IF setup.ids THEN p ELSE NoPost, consumed |-> FALSE]

(* INSERT OR IGNORE: the first record of a source (and chunk) stays.       *)
Recorded(d) ==
    IF \E r \in outbound : r.source = d.source /\ r.chunk = d.chunk
    THEN outbound ELSE outbound \cup {d}
-----------------------------------------------------------------------------
(*                         Processing one message                          *)

Goto(l) == pc' = l

Claim(e) ==
    /\ ClaimNext(e)
    /\ Goto("received")
    /\ said' = Nothing /\ inflight' = NoPost /\ fresh' = FALSE
    /\ UNCHANGED <<durableVars, worldVars, aside>>

(* What the claimed message is: the post it echoes, or 0 for a human's.    *)
PostOf(e) == IF e \in Echoes THEN CHOOSE p \in 1..MaxPosts : EchoOf[p] = e
                            ELSE NoPost

MatchesId(e) == \E r \in outbound : r.id # NoPost /\ r.id = PostOf(e)

Form(e) == IF e \in Humans THEN setup.form[e] ELSE "speech"
Words(e) == IF e \in Humans THEN setup.words[e] ELSE posts[PostOf(e)].piece

MutantMatchesText(e) == {r \in outbound : FALSE}

(* The records with the same words, whoever spoke them this time.          *)
MatchesText(e) ==
    IF Form(e) # "speech" THEN {}
    ELSE {r \in outbound : r.id = NoPost /\ ~r.consumed /\ r.piece = Words(e)}

(* A message needs a room.  consume_outbound_echo: an exact id matches as  *)
(* often as it comes; a text matches an unconsumed record without an id,   *)
(* and consumes it.                                                        *)
Receive ==
    /\ pc = "received"
    /\ \/ /\ Form(job) = "homeless"
          /\ Goto("done")
          /\ UNCHANGED outbound
       \/ /\ Form(job) # "homeless" /\ MatchesId(job)
          /\ Goto("done")
          /\ UNCHANGED outbound
       \/ /\ Form(job) # "homeless" /\ ~MatchesId(job)
          /\ \E r \in MatchesText(job) :
                outbound' = (outbound \ {r}) \cup {[r EXCEPT !.consumed = TRUE]}
          /\ Goto("done")
       \/ /\ Form(job) # "homeless" /\ ~MatchesId(job) /\ MatchesText(job) = {}
          /\ Goto("replying")
          /\ UNCHANGED outbound
    /\ UNCHANGED <<queueVars, said, inflight, fresh, response, bocco_sent,
                   turns, worldVars, aside>>

SaveResponseIfAbsent(text) ==
    response' = [response EXCEPT ![job] = IF @ = Nothing THEN text ELSE @]

MutantMayStream == setup.streams
MayStream == setup.streams /\ ~bocco_sent[job]

(* A reply saved by an earlier attempt is delivered as it is.  What is no  *)
(* speech is not answered, and a recording that was not understood with a  *)
(* fixed line.  A new reply is streamed unless something was spoken for    *)
(* this message already.                                                   *)
Reply ==
    /\ pc = "replying"
    /\ \/ /\ response[job] # Nothing
          /\ Goto("delivering")
          /\ UNCHANGED <<response, generations>>
       \/ /\ response[job] = Nothing /\ Form(job) = "picture"
          /\ Goto("done")
          /\ UNCHANGED <<response, generations>>
       \/ /\ response[job] = Nothing /\ Form(job) = "unheard"
          /\ SaveResponseIfAbsent(<<NotHeard>>)
          /\ Goto("delivering")
          /\ UNCHANGED generations
       \/ /\ response[job] = Nothing /\ Form(job) = "speech" /\ MayStream
          /\ generations' = generations + 1
          /\ Goto("streaming")
          /\ UNCHANGED response
       \/ /\ response[job] = Nothing /\ Form(job) = "speech" /\ ~MayStream
          /\ Goto("generating")
          /\ UNCHANGED <<response, generations>>
    /\ UNCHANGED <<queueVars, said, inflight, fresh, bocco_sent, outbound, turns,
                   setup, posts, faults, aside>>

MutantLastAttempt == attempts[job] > MaxAttempts
LastAttempt == attempts[job] >= MaxAttempts

(* One call to Hermes and the checkpoint of its answer.  An answer cut off *)
(* before its first sentence is apologised for in any attempt; any other   *)
(* failure fails the attempt, and is apologised for only in the last.      *)
Generate ==
    /\ pc = "generating"
    /\ \/ /\ generations' = generations + 1
          /\ SaveResponseIfAbsent(<<<<generations + 1, 1>>>>)
          /\ fresh' = TRUE
          /\ Goto("delivering")
       \/ /\ ~LastAttempt
          /\ Goto("failed")
          /\ UNCHANGED <<response, fresh, generations>>
       \/ /\ SaveResponseIfAbsent(<<Apology>>)
          /\ Goto("delivering")
          /\ UNCHANGED <<fresh, generations>>
    /\ UNCHANGED <<queueVars, said, inflight, bocco_sent, outbound, turns,
                   setup, posts, faults, aside>>

AfterPost(answered) == IF answered THEN "posted" ELSE "failed"

(* A reply is one message: it is posted unless it was recorded as sent.    *)
Deliver ==
    /\ pc = "delivering"
    /\ \/ /\ bocco_sent[job]
          /\ Goto("remembering")
          /\ UNCHANGED <<posts, faults, inflight>>
       \/ /\ ~bocco_sent[job]
          /\ \E n \in 0..2, answered \in BOOLEAN :
                /\ Post(job, Head(response[job]), n, answered)
                /\ inflight' = IF answered THEN Len(posts) + n ELSE NoPost
                /\ Goto(AfterPost(answered))
    /\ UNCHANGED <<queueVars, said, fresh, durableVars, setup, generations, aside>>

RecordDelivery ==
    /\ pc = "posted"
    /\ outbound' = Recorded(Delivery(job, 0, inflight))
    /\ bocco_sent' = [bocco_sent EXCEPT ![job] = TRUE]
    /\ inflight' = NoPost
    /\ Goto("remembering")
    /\ UNCHANGED <<queueVars, said, fresh, response, turns, worldVars, aside>>

(* The exchange is remembered after it was spoken, if this attempt         *)
(* produced the reply; the first record of a message stays.                *)
RecordTurn ==
    /\ pc = "remembering"
    /\ turns' = IF fresh /\ turns[job] = Nothing
                THEN [turns EXCEPT ![job] = response[job]] ELSE turns
    /\ Goto("done")
    /\ UNCHANGED <<queueVars, said, inflight, fresh, response, bocco_sent,
                   outbound, worldVars, aside>>
-----------------------------------------------------------------------------
(*                           Streaming a reply                             *)

MayChunk == Len(said) < MaxChunks

(* A sentence is complete: it is posted at once.  A call that fails before *)
(* anything was spoken falls back to one call; later it ends the stream or *)
(* only loses that sentence.                                               *)
StreamChunk ==
    /\ pc = "streaming"
    /\ MayChunk
    /\ \E n \in 0..2, answered \in BOOLEAN :
          LET piece == <<generations, Len(said) + 1>> IN
          /\ Post(job, piece, n, answered)
          /\ inflight' = IF answered THEN Len(posts) + n ELSE NoPost
          /\ said' = IF answered THEN Append(said, piece) ELSE said
          /\ \/ answered /\ Goto("chunk posted")
             \/ ~answered /\ said # Nothing /\ pc' \in {"streaming", "stream over"}
             \/ ~answered /\ said = Nothing /\ Goto("generating")
    /\ UNCHANGED <<queueVars, fresh, durableVars, setup, generations, aside>>

RecordChunk ==
    /\ pc = "chunk posted"
    /\ outbound' = Recorded(Delivery(job, Len(said), inflight))
    /\ bocco_sent' = [bocco_sent EXCEPT ![job] = TRUE]
    /\ inflight' = NoPost
    /\ Goto("streaming")
    /\ UNCHANGED <<queueVars, said, fresh, response, turns, worldVars, aside>>

(* The stream ends, well or badly.                                         *)
EndStream ==
    /\ pc = "streaming"
    /\ IF said = Nothing THEN Goto("generating") ELSE Goto("stream over")
    /\ UNCHANGED <<queueVars, said, inflight, fresh, durableVars, worldVars, aside>>

(* What was spoken becomes the reply.                                      *)
SaveStreamed ==
    /\ pc = "stream over"
    /\ SaveResponseIfAbsent(said)
    /\ fresh' = TRUE
    /\ Goto("remembering")
    /\ UNCHANGED <<queueVars, said, inflight, bocco_sent, outbound, turns,
                   worldVars, aside>>
-----------------------------------------------------------------------------
(*                     The end of an attempt; asides                       *)

Settle ==
    /\ \/ pc = "done" /\ Complete
       \/ pc = "failed" /\ (Retry \/ DeadLetter)
    /\ Goto("idle")
    /\ UNCHANGED <<said, inflight, fresh, durableVars, worldVars, aside>>

(* speak_aside runs in a generator's task, next to the worker.             *)
SpeakAside(a) ==
    /\ Up /\ a \in setup.asides /\ aside[a] = NoPost
    /\ \E n \in 0..2, answered \in BOOLEAN :
          /\ Post(a, AsideLine, n, answered)
          /\ aside' = [aside EXCEPT ![a] = IF answered THEN Len(posts) + n ELSE -1]
    /\ UNCHANGED <<queueVars, workerVars, durableVars, setup, generations>>

RecordAside(a) ==
    /\ aside[a] > NoPost
    /\ outbound' = Recorded(Delivery(a, 0, aside[a]))
    /\ aside' = [aside EXCEPT ![a] = -1]
    /\ UNCHANGED <<queueVars, workerVars, response, bocco_sent, turns, worldVars>>
-----------------------------------------------------------------------------
(*                        Crash, shutdown and time                         *)

LoseMemory ==
    /\ pc' = "idle" /\ said' = Nothing /\ inflight' = NoPost /\ fresh' = FALSE
    /\ aside' = [a \in Asides |-> IF aside[a] > NoPost THEN -1 ELSE aside[a]]
    /\ UNCHANGED <<durableVars, worldVars>>

Interrupt == (Crash \/ Shutdown) /\ LoseMemory

Environment ==
    /\ \/ Start
       \/ Recover("worker")
       \/ \E e \in Events : BackoffElapses(e)
    /\ UNCHANGED replyVars

Process ==
    \/ \E e \in Events : Claim(e)
    \/ Receive \/ Reply \/ Generate \/ Deliver \/ RecordDelivery \/ RecordTurn
    \/ StreamChunk \/ RecordChunk \/ EndStream \/ SaveStreamed
    \/ Settle

Next ==
    \/ \E e \in Events : HumanSpeaks(e)
    \/ \E p \in 1..MaxPosts : EchoArrives(p)
    \/ Process
    \/ \E a \in Asides : SpeakAside(a) \/ RecordAside(a)
    \/ Interrupt
    \/ Environment

Spec == Init /\ [][Next]_vars

(* The service manager restarts the process, a loop that was started       *)
(* recovers, the worker goes on (every call it makes has a timeout) and    *)
(* time passes.  Nothing is owed by people, by asides or by crashes.       *)
FairSpec == /\ Spec
            /\ WF_vars(Process)
            /\ WF_vars(Start /\ UNCHANGED replyVars)
            /\ WF_vars(Recover("worker") /\ UNCHANGED replyVars)
            /\ \A e \in Events : WF_vars(BackoffElapses(e) /\ UNCHANGED replyVars)
-----------------------------------------------------------------------------
(*                              Properties                                 *)

PostsFor(e) == {p \in DOMAIN posts : posts[p].source = e}

Finished(e) == status[e] = "completed" /\ PostsFor(e) = {}
Misheard(w) == {e \in Humans : /\ Finished(e)
                               /\ setup.form[e] = "speech" /\ setup.words[e] = w}
Spent(w) == {r \in outbound : r.id = NoPost /\ r.consumed /\ r.piece = w}

(* Where posts have ids, an echo of a reply is answered only after a lost  *)
(* response, a crash or a shutdown, and only if its post never made it     *)
(* into the delivery records.  Where they have none, and nothing was lost  *)
(* or interrupted, an echo is answered only in place of a human who said   *)
(* the same and was taken for the echo: each of them costs one echo.       *)
EchoAnsweredOnlyIfLost ==
    LET answered == {p \in DOMAIN posts : /\ posts[p].source \in Events
                                          /\ PostsFor(EchoOf[p]) # {}} IN
    /\ setup.ids => \A p \in answered : /\ faults + interruptions > 0
                                         /\ \A r \in outbound : r.post # p
    /\ ~setup.ids /\ faults + interruptions = 0 =>
          \A w \in {posts[p].piece : p \in answered} :
              Cardinality({p \in answered : posts[p].piece = w})
                 <= Cardinality(Misheard(w))

(* Whatever is lost or interrupted, a message is always answered in the    *)
(* same words if the answer is not streamed, and heard at most once more   *)
(* per fault.                                                              *)
SameWordsAgain ==
    ~setup.streams => \A e \in Events :
        /\ \A p, q \in PostsFor(e) : posts[p].piece = posts[q].piece
        /\ Cardinality(PostsFor(e)) <= 1 + faults + interruptions

(* A message of a human that has a room and is speech or a recording is    *)
(* completed only after an answer to it was heard, unless its words were   *)
(* taken for the echo of a post: each time that happens a record of those  *)
(* words, of a post without an id, is used up.  And it is given up only    *)
(* with an answer at hand: a failing model is apologised for, a failing    *)
(* platform alone silences the robot.                                      *)
NeverSilent ==
    /\ \A e \in Humans :
          /\ Finished(e) => setup.form[e] # "unheard"
          /\ status[e] = "dead_letter" => response[e] # Nothing
    /\ \A w \in Range(setup.words) : Cardinality(Misheard(w)) <= Cardinality(Spent(w))

(* The chunks recorded for a message come from one generation, and are     *)
(* heard in the order of the sentences; and unless the reply was           *)
(* interrupted, every piece of it that is remembered was heard as an       *)
(* answer to that message, whatever failed or was lost on the way.         *)
StreamCoherent ==
    /\ \A r, s \in outbound : r.source = s.source => r.piece[1] = s.piece[1]
    /\ \A e \in Events : \A p, q \in PostsFor(e) :
          p < q /\ posts[p].piece[1] = posts[q].piece[1]
            => posts[p].piece[2] <= posts[q].piece[2]
    /\ interruptions = 0 =>
          \A e \in Events : \A i \in DOMAIN turns[e] :
              \E p \in PostsFor(e) : posts[p].piece = turns[e][i]
=============================================================================
