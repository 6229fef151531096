----------------------------- MODULE MCMemories -----------------------------
(***************************************************************************)
(* Memories with a household that talks, dictates, and takes back.         *)
(***************************************************************************)
EXTENDS Memories
CONSTANTS trip, soup

Does(what, topic) == [does |-> what, topic |-> topic]

(* Four turns of the first day, the last one a refusal.                     *)
Yesterday == {[id |-> i, request |-> -i, day |-> 1, topic |-> IF i = 2 THEN soup ELSE trip,
               deflects |-> i = 4] : i \in 1..4}
Event(id, topic, on) == [id |-> id, source |-> -id, topic |-> topic, day |-> on]
Chats == [noted |-> {Event(1, soup, 0), Event(2, trip, 0), Event(3, trip, 1)},
          before |-> Yesterday, extracts |-> FALSE, backfills |-> TRUE, mishaps |-> 1,
          messages |-> <<Does("talk", trip), Does("talk", soup)>>]
TakesBack == [noted |-> {Event(1, soup, 0)},
              before |-> {}, extracts |-> TRUE, backfills |-> FALSE, mishaps |-> 2,
              messages |-> <<Does("remember", trip), Does("talk", trip),
                             Does("remember", trip), Does("forget", trip),
                             Does("talk", trip)>>]
Talks == [noted |-> {}, before |-> {}, extracts |-> FALSE, backfills |-> FALSE, mishaps |-> 0,
          messages |-> [i \in 1..4 |-> Does("talk", trip)]]
Talkers == {Talks}
(* More turns than a scan of a period reaches, kept under a longer          *)
(* retention than today's.                                                  *)
Remembers == [Chats EXCEPT !.noted = {}, !.backfills = FALSE, !.mishaps = 0,
                !.before = {[id |-> i, request |-> -i, day |-> 1, deflects |-> i \in {2, 5, 6},
                             topic |-> IF i > 2 THEN soup ELSE trip] : i \in 1..6}]
TheHouseholds == {Chats, TakesBack, Remembers}
=============================================================================
