---------------------------- MODULE MCReplyLoop -----------------------------
(***************************************************************************)
(* A small instance of ReplyLoop: one or two messages of humans, and room  *)
(* for the echoes of a few posts.                                          *)
(***************************************************************************)
EXTENDS ReplyLoop
CONSTANTS h1, h2, x1, x2, x3, says

TwoHumans == {h1, h2}
ThreeEchoes == <<x1, x2, x3>>
MCEvents == Humans \cup Range(EchoOf)
MCKind == [e \in MCEvents |-> "message.received"]
MCReceivedAt == [e \in MCEvents |-> 1]
MCPersona == [e \in MCEvents |-> NoEvent]
NoGenerators == {}
OneAside == {says}

(* One human, with words of his own.                                       *)
OwnWords == <<0, 3>>
Alone(streams, ids, asides, room, lost) ==
    [streams |-> streams, ids |-> ids, asides |-> asides, posts |-> room, faults |-> lost,
     humans |-> {h1}, words |-> [h \in Humans |-> OwnWords],
     form |-> [h \in Humans |-> "speech"]]

(* A reply that is not streamed, to a platform that gives posts no ids;    *)
(* one that is, to a platform that does; an aside next to a reply; a second*)
(* human who says what the robot says first; and messages without a room,  *)
(* without speech, or with speech that was not understood.                 *)
Plain == Alone(FALSE, FALSE, {}, 3, 1)
Streamed == Alone(TRUE, TRUE, {}, 3, 1)
Aside == Alone(FALSE, FALSE, {says}, 2, 1)
Mimic == [Alone(FALSE, FALSE, {}, 2, 0) EXCEPT !.humans = {h1, h2}, !.words[h2] = <<1, 1>>]
Wordless(f) == [Alone(FALSE, FALSE, {}, 2, 0) EXCEPT
                   !.humans = {h1, h2}, !.form[h1] = f, !.form[h2] = "unheard"]
SixSetups == {Plain, Streamed, Aside, Mimic, Wordless("homeless"), Wordless("picture")}
=============================================================================
