---------------------------- MODULE DurableInbox ----------------------------
(***************************************************************************)
(* What the bridge's durable queue promises to whoever hands it an event,  *)
(* with the rows, the lanes, the retries and the crashes left out.         *)
(*                                                                         *)
(*   - an event accepted once is never forgotten: it stays open until it   *)
(*     is settled, and accepting its identifier again has no effect;       *)
(*   - a settled event is never reopened, so it is settled at most once;   *)
(*   - the ordered events (the user's messages) are settled in order: one  *)
(*     that was accepted later, and is not dated earlier, waits;           *)
(*   - an event is settled by itself, but expendable ones (a stale cue, a  *)
(*     peer of a reaction, a superseded refresh) may be settled together;  *)
(*   - every open event that is promised to be is settled in the end.      *)
(***************************************************************************)
EXTENDS Naturals

CONSTANTS Events,        (* identifiers an event may have                  *)
          Ordered,       (* the events that are settled in order           *)
          Expendable,    (* the events that others may settle              *)
          Promised,      (* the events whose settlement is promised        *)
          DatedAt        (* [Events -> Nat], the date an event carries     *)

VARIABLES box,           (* what the inbox knows of every event            *)
          place,         (* the place at which an event was accepted       *)
          accepted       (* how many events were accepted                  *)

inboxVars == <<box, place, accepted>>

InboxInit == /\ box = [e \in Events |-> "absent"]
             /\ place = [e \in Events |-> 0]
             /\ accepted = 0

(* Does u have to be settled before v, both being accepted?                *)
Ahead(u, v) == /\ {u, v} \subseteq Ordered
               /\ place[u] < place[v]
               /\ DatedAt[u] <= DatedAt[v]

Open(S) == {e \in S : box[e] = "open"}

(* An event is accepted, and may settle expendable ones by its arrival.    *)
Accept(e, dropped) ==
    /\ accepted' = accepted + 1
    /\ box[e] = "absent"
    /\ dropped \subseteq Open(Expendable)
    /\ box' = [x \in Events |-> CASE x = e          -> "open"
                                  [] x \in dropped  -> "settled"
                                  [] OTHER          -> box[x]]
    /\ place' = [place EXCEPT ![e] = accepted + 1]

(* Either one event is settled, or some expendable ones are.               *)
Settle(S) ==
    /\ S \subseteq Open(Events)
    /\ \/ S \subseteq Expendable
       \/ \E e \in Events : S = {e}
    /\ \A u \in Open(Events), e \in S : ~Ahead(u, e)
    /\ box' = [x \in Events |-> IF x \in S THEN "settled" ELSE box[x]]
    /\ UNCHANGED <<place, accepted>>

InboxNext ==
    \/ \E e \in Open(Events) : Settle({e})
    \/ \E S \in SUBSET Open(Expendable) : Settle(S)
    \/ \E e \in Events : \E S \in SUBSET Open(Expendable) : Accept(e, S)

InboxSafety == InboxInit /\ [][InboxNext]_inboxVars

(* Nothing that is promised stays open for ever.                           *)
NothingForgotten ==
    \A e \in Promised : (box[e] = "open") ~> (box[e] = "settled")

InboxSpec == InboxSafety /\ NothingForgotten
=============================================================================
