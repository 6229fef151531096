----------------------------- MODULE Transcript -----------------------------
(***************************************************************************)
(* The transcript of one room (transcript.py, embeddings.py): the table of *)
(* turns with its retention and its vectors, and what of it is put before  *)
(* the model when a reply is composed.                                     *)
(*                                                                         *)
(* A turn is about a topic and is an answer or a deflection, the robot     *)
(* declining.  A query names a topic or none, and a period or none; words  *)
(* match when the topic is the same.  Time is counted in days, and turns   *)
(* of a day are told apart by their row ids.                               *)
(***************************************************************************)
EXTENDS Integers, Sequences, SequencesExt, FiniteSetsExt

CONSTANTS
    Topics,           (* what is talked about                               *)
    NoTopic,          (* an utterance that is all date, or has no words     *)
    Always,           (* the utterance names no period                      *)
    RetentionTurns,   (* conversation_retention_turns                       *)
    RecentTurns,      (* conversation_recent_turns                          *)
    RetrievedTurns,   (* conversation_retrieved_turns                       *)
    Overfetch,        (* RECENT_WINDOW_OVERFETCH                            *)
    Candidates,       (* conversation_vector_candidates                     *)
    ScanCap,          (* conversation_vector_scan_cap                       *)
    WindowCap         (* TEMPORAL_WINDOW_SCAN_CAP                           *)

ASSUME TranscriptAssumption ==
    /\ NoTopic \notin Topics
    /\ RecentTurns \in Nat \ {0} /\ RetentionTurns \in Nat
    /\ RetentionTurns >= RecentTurns
    /\ RetrievedTurns \in Nat /\ Candidates \in Nat /\ ScanCap \in Nat
    /\ Overfetch \in Nat \ {0} /\ WindowCap \in Nat \ {0}

VARIABLES
    turns,       (* the rows of turns: [id, request, day, topic, deflects]  *)
    lastId,      (* AUTOINCREMENT: the greatest id ever given               *)
    vectors      (* the turn_ids of turn_vectors                            *)

transcriptVars == <<turns, lastId, vectors>>

(* The rows of a table: a primary key, and a time to order them by.         *)
Rows(T) ==
    /\ IsFiniteSet(T)
    /\ \A t \in T : t.id \in Int /\ t.day \in Int
    /\ \A t, u \in T : t.id = u.id => t = u

(* An earlier process has left rows 1..n, from before the vectors or since. *)
TranscriptHolds(rows) ==
    LET ids == {t.id : t \in rows} IN
    turns = rows /\ lastId = Cardinality(ids) /\ vectors \in {{}, ids}

Newer(a, b) == a.day > b.day \/ (a.day = b.day /\ a.id > b.id)

(* ORDER BY score DESC, id DESC: a row stands where as many others precede  *)
(* it.                                                                      *)
Precedes(a, b, score) == score[a] > score[b] \/ (score[a] = score[b] /\ a.id > b.id)
Ordered(T, score) ==
    [k \in 1..Cardinality(T) |->
        CHOOSE t \in T : Cardinality({u \in T : Precedes(u, t, score)}) = k - 1]
NewestFirst(T) == Ordered(T, [t \in T |-> t.day])
FirstOf(s, n) == SubSeq(s, 1, IF n < Len(s) THEN n ELSE Len(s))
Ids(s) == {s[i].id : i \in DOMAIN s}
-----------------------------------------------------------------------------
(*                              The table                                   *)

(* DELETE ... NOT IN (SELECT ... ORDER BY ... LIMIT): the newest ones stay. *)
Retained(T) == {t \in T : Cardinality({u \in T : Newer(u, t)}) < RetentionTurns}

Turn(request, day, topic, deflects) ==
    [id |-> lastId + 1, request |-> request, day |-> day,
     topic |-> topic, deflects |-> deflects]

(* The new row must survive the retention of its own transaction: the code  *)
(* asserts it, and a failed assertion rolls the transaction back.           *)
Survives(turn) == turn \in Retained(turns \cup {turn})

(* turns_ad_vectors takes the vectors of the deleted turns with them.       *)
Insert(turn) ==
    /\ Survives(turn)
    /\ turns' = Retained(turns \cup {turn})
    /\ lastId' = turn.id
    /\ vectors' = vectors \cap {t.id : t \in turns'}

MutantStoreVector(id) == vectors' = vectors \cup {id}

(* INSERT ... SELECT: nothing is stored for a turn that has gone.           *)
StoreVector(id) == vectors' = vectors \cup ({id} \cap {t.id : t \in turns})
-----------------------------------------------------------------------------
(*                       The verbatim recent window                         *)

(* A deflection is dropped if a newer one was read before it.               *)
ThinDeflections(newest) ==
    LET shown(i) == newest[i].deflects => \A j \in 1..(i - 1) : ~newest[j].deflects
        kept     == {i \in DOMAIN newest : shown(i)}
    IN  FirstOf(NewestFirst({newest[i] : i \in kept}), RecentTurns)

(* Newest first; what is shown is in the opposite order.                    *)
Recent == ThinDeflections(FirstOf(NewestFirst(turns), RecentTurns * Overfetch))
-----------------------------------------------------------------------------
(*                        Retrieval of older turns                          *)

Within(T, period) == IF period = Always THEN T ELSE {t \in T : t.day \in period}
Others(excluded) == {t \in turns : t.id \notin excluded}

(* _retrieve: BM25, equal for equal words, then the newest.                 *)
Lexical(topic, n, excluded, period) ==
    FirstOf(NewestFirst({t \in Within(Others(excluded), period) : t.topic = topic}), n)

(* _retrieve_semantic and rank_by_similarity over the newest ScanCap turns  *)
(* with a vector: the closer first, and of equals the greater id.           *)
Semantic(topic, excluded, period) ==
    LET swept == FirstOf(NewestFirst({t \in Within(Others(excluded), period) :
                                        t.id \in vectors}), ScanCap)
        near  == [t \in ToSet(swept) |-> IF t.topic = topic THEN 1 ELSE 0]
    IN  FirstOf(Ordered(ToSet(swept), near), Candidates)

(* reciprocal_rank_fusion: 1 / (60 + rank) summed over the rankings, each   *)
(* of which has a turn once at most, in millionths.                         *)
RrfK == 60
Score(t, ranking) ==
    IF t \in ToSet(ranking)
    THEN 1000000 \div (RrfK + CHOOSE i \in DOMAIN ranking : ranking[i] = t) ELSE 0
Fuse(a, b, n) ==
    LET found == ToSet(a) \cup ToSet(b)
    IN  FirstOf(Ordered(found, [t \in found |-> Score(t, a) + Score(t, b)]), n)

(* _retrieve_ranked and _retrieve_hybrid; embedded says that the query got  *)
(* its vector before the deadline.                                          *)
Ranked(topic, n, excluded, period, embedded) ==
    LET near  == Semantic(topic, excluded, period)
        words == Lexical(topic, IF embedded THEN Candidates ELSE n, excluded, period)
    IN  IF topic = NoTopic THEN <<>>
        ELSE IF embedded /\ near # <<>> THEN Fuse(words, near, n)
        ELSE FirstOf(words, n)

(* round(i * last / (n - 1)), halves to the even neighbour.                 *)
Round(num, den) ==
    LET q == num \div den  r == 2 * (num % den)
    IN  IF r > den \/ (r = den /\ q % 2 = 1) THEN q + 1 ELSE q

MutantSpread(n, excluded, period) ==
    Reverse(FirstOf(NewestFirst(Within(Others(excluded), period)), n))

(* Sampled evenly from the oldest to the newest of the period, as far back  *)
(* as one scan reaches.                                                     *)
Spread(n, excluded, period) ==
    LET found == Reverse(FirstOf(NewestFirst(Within(Others(excluded), period)), WindowCap))
        last  == Len(found) - 1
        picks == {found[Round(i * last, n - 1) + 1] : i \in 0..(n - 1)}
    IN  IF n <= 0 THEN <<>>
        ELSE IF Len(found) <= n THEN found
        ELSE IF n = 1 THEN <<found[Len(found)]>>
        ELSE Reverse(NewestFirst(picks))

(* _retrieve_temporal: the topic within the period, the rest of the slots   *)
(* for a spread of it.                                                      *)
Temporal(topic, excluded, period, embedded) ==
    LET topical == Ranked(topic, RetrievedTurns, excluded, period, embedded)
    IN  topical \o Spread(RetrievedTurns - Len(topical), excluded \cup Ids(topical), period)

(* _context_sync: a period that holds nothing falls back to the words.      *)
Retrieved(topic, period, embedded) ==
    LET shown  == Ids(Recent)
        inside == IF period = Always \/ RetrievedTurns = 0 THEN <<>>
                  ELSE Temporal(topic, shown, period, embedded)
    IN  IF inside # <<>> THEN inside
        ELSE Ranked(topic, RetrievedTurns, shown, Always, embedded)
-----------------------------------------------------------------------------
(*                              Properties                                  *)

Distinct(s) == \A i, j \in DOMAIN s : i # j => s[i] # s[j]
Fewer(m, n) == IF m < n THEN m ELSE n

(* The recent window never shows two refusals, shows the newest one if any, *)
(* and what the others displaced is replaced from further back.             *)
RecentIsThinned ==
    LET deep == FirstOf(NewestFirst(turns), RecentTurns * Overfetch)
        refusals == {i \in DOMAIN deep : deep[i].deflects}
    IN  /\ Distinct(Recent)
        /\ Quantify(DOMAIN Recent, LAMBDA i : Recent[i].deflects) <= 1
        /\ turns # {} => Recent[1] = deep[1]
        /\ Len(Recent) = Fewer(RecentTurns,
               Len(deep) - (IF refusals = {} THEN 0 ELSE Cardinality(refusals) - 1))

(* For every question that may be asked now: the two halves are disjoint,   *)
(* nothing is shown twice, the slots are not exceeded; a period that holds  *)
(* anything is answered from that period alone, filling the slots (if one   *)
(* scan can), and one without a topic from its first turn, or the first     *)
(* that a scan reaches, to its last.                                        *)
RetrievalSound(periods) ==
    \A topic \in Topics \cup {NoTopic}, period \in periods, embedded \in BOOLEAN :
        LET s     == Retrieved(topic, period, embedded)
            there == Within(Others(Ids(Recent)), period)
        IN  /\ Distinct(s) /\ Len(s) <= RetrievedTurns
            /\ Ids(s) \cap Ids(Recent) = {}
            /\ period # Always /\ there # {} /\ RetrievedTurns > 0 =>
                 /\ ToSet(s) \subseteq there
                 /\ RetrievedTurns <= WindowCap =>
                        Len(s) = Fewer(RetrievedTurns, Cardinality(there))
                 /\ topic = NoTopic /\ RetrievedTurns > 1 =>
                        \A end \in {1, Fewer(WindowCap, Cardinality(there))} :
                            NewestFirst(there)[end] \in ToSet(s)
=============================================================================
