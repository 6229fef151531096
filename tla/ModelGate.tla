----------------------------- MODULE ModelGate -----------------------------
(***************************************************************************)
(* HermesPriorityGate (reaction_generation.py): the asyncio.Condition that *)
(* lets one call at a time through to the Hermes model server, prefers the *)
(* worker's calls to those of the background generators, and cancels a     *)
(* generator's call when the worker or a webhook wants the server.         *)
(*                                                                         *)
(* The condition's lock is never held across an await, so each critical    *)
(* section is one action.  A caller that waits is "asleep" in              *)
(* Condition.wait until a notify_all makes it "woken"; it then evaluates   *)
(* the predicate of wait_for again, at a time of the event loop's choice.  *)
(* A foreground turn whose stream the worker has closed stays in the gate, *)
(* "abandoned", until the loop finalizes the inner generator that holds it.*)
(***************************************************************************)
EXTENDS FiniteSets

CONSTANTS
    Turns,        (* foreground turns the worker may have open at once      *)
    Generators,   (* background callers                                     *)
    NoCall        (* "no background call"                                   *)

ASSUME ModelGateAssumption ==
    /\ Turns \cap Generators = {}
    /\ NoCall \notin Generators

VARIABLES
    active,       (* _active                                                *)
    waiters,      (* the turns counted in _foreground_waiters               *)
    owner,        (* the generator whose task is _background_call           *)
    at,           (* [Callers -> Places], where each caller stands          *)
    call,         (* [Generators -> Calls], the task of its backend call    *)
    stopped       (* generators whose stop() was called; all of Generators  *)
                  (* and Turns once the shutdown cancels every task         *)

gateVars == <<active, waiters, owner, at, call, stopped>>

Callers == Turns \cup Generators
Places == {"idle", "asleep", "woken", "inside", "abandoned"}
Calls == {"none", "running", "cancelling", "over"}

Waits(c) == at[c] \in {"asleep", "woken"}
Holds(c) == at[c] \in {"inside", "abandoned"}
InBackend(g) == call[g] \in {"running", "cancelling"}
Cancelled == Turns \subseteq stopped

GateInit ==
    /\ active = "none"
    /\ waiters = {}
    /\ owner = NoCall
    /\ at = [c \in Callers |-> "idle"]
    /\ call = [g \in Generators |-> "none"]
    /\ stopped = {}
-----------------------------------------------------------------------------
(*                           The condition variable                        *)

(* task.cancel() of a backend call that is not done.                       *)
CancelCall(c) == IF c = "running" THEN "cancelling" ELSE c

Interrupted ==
    [g \in Generators |-> IF g = owner THEN CancelCall(call[g]) ELSE call[g]]

MutantNotified(places) == places
Notified(places) ==
    [c \in Callers |-> IF places[c] = "asleep" THEN "woken" ELSE places[c]]

MutantFree(c) == c \in Turns \/ (active = "none" /\ waiters = {})
Free(c) == active = "none" /\ (c \in Generators => waiters = {})

Sleep(c) ==
    /\ ~Free(c)
    /\ at' = [at EXCEPT ![c] = "asleep"]
-----------------------------------------------------------------------------
(*                        Foreground: the event worker                     *)

(* _foreground_turn up to its yield: count, interrupt, wait for the gate.  *)
TakeForeground(t) ==
    /\ Free(t)
    /\ active' = "foreground"
    /\ at' = [at EXCEPT ![t] = "inside"]
    /\ waiters' = waiters \ {t}

(* The worker has one event in hand, so its turns come one at a time.      *)
EnterForeground(t) ==
    /\ at[t] = "idle"
    /\ t \notin stopped
    /\ \A u \in Turns : at[u] \in {"idle", "abandoned"}
    /\ call' = Interrupted
    /\ \/ TakeForeground(t)
       \/ /\ Sleep(t)
          /\ waiters' = waiters \cup {t}
          /\ UNCHANGED active
    /\ UNCHANGED <<owner, stopped>>

RecheckForeground(t) ==
    /\ at[t] = "woken"
    /\ \/ TakeForeground(t)
       \/ Sleep(t) /\ UNCHANGED <<active, waiters>>
    /\ UNCHANGED <<owner, call, stopped>>

(* _stream_reply closes the client's generator, not the gate's.            *)
AbandonStream(t) ==
    /\ at[t] = "inside"
    /\ at' = [at EXCEPT ![t] = "abandoned"]
    /\ UNCHANGED <<active, waiters, owner, call, stopped>>

MutantLeaveForeground(t) ==
    /\ Holds(t)
    /\ active' = "none"
    /\ at' = [at EXCEPT ![t] = "idle"]
    /\ UNCHANGED <<waiters, owner, call, stopped>>

(* The finally of _foreground_turn.                                        *)
LeaveForeground(t) ==
    /\ Holds(t)
    /\ active' = "none"
    /\ at' = Notified([at EXCEPT ![t] = "idle"])
    /\ UNCHANGED <<waiters, owner, call, stopped>>
-----------------------------------------------------------------------------
(*                         Background: the generators                      *)

TakeBackground(g) ==
    /\ Free(g)
    /\ active' = "background"
    /\ owner' = g
    /\ at' = [at EXCEPT ![g] = "inside"]
    /\ call' = [call EXCEPT ![g] = "running"]

(* background_respond up to the end of its critical section.  The bank     *)
(* goes on to its next entry even after stop(), if stop() came in between  *)
(* two entries.                                                            *)
EnterBackground(g) ==
    /\ at[g] \in {"idle", "woken"}
    /\ ~Cancelled
    /\ \/ TakeBackground(g)
       \/ Sleep(g) /\ UNCHANGED <<active, owner, call>>
    /\ UNCHANGED <<waiters, stopped>>

(* The backend answers, fails or times out; a cancelled call ends.         *)
CallEnds(g) ==
    /\ InBackend(g)
    /\ call' = [call EXCEPT ![g] = "over"]
    /\ UNCHANGED <<active, waiters, owner, at, stopped>>

(* The finally of background_respond.                                      *)
LeaveBackground(g) ==
    /\ at[g] = "inside"
    /\ call[g] = "over"
    /\ call' = [call EXCEPT ![g] = "none"]
    /\ owner' = IF owner = g THEN NoCall ELSE owner
    /\ active' = IF active = "background" THEN "none" ELSE active
    /\ at' = Notified([at EXCEPT ![g] = "idle"])
    /\ UNCHANGED <<waiters, stopped>>
-----------------------------------------------------------------------------
(*                         Webhooks and shutdown                           *)

(* _notify_webhook_event: a webhook was queued for the worker.             *)
WebhookInterrupts ==
    /\ call' = Interrupted
    /\ UNCHANGED <<active, waiters, owner, at, stopped>>

(* stop() of one generator interrupts whichever background call is open    *)
(* and cancels its own generation, waiting or calling.                     *)
StopGenerator(g) ==
    /\ g \notin stopped
    /\ stopped' = stopped \cup {g}
    /\ call' = Interrupted
    /\ at' = [at EXCEPT ![g] = IF Waits(g) THEN "idle" ELSE at[g]]
    /\ UNCHANGED <<active, waiters, owner>>

(* The shutdown loses patience and cancels every task: each wait ends at   *)
(* once, and each holder leaves through its finally.                       *)
CancelTasks ==
    /\ Generators \subseteq stopped
    /\ ~Cancelled
    /\ stopped' = Callers
    /\ at' = [c \in Callers |-> IF Waits(c) THEN "idle" ELSE at[c]]
    /\ waiters' = {}
    /\ call' = Interrupted
    /\ UNCHANGED <<active, owner>>

TurnStep(t) ==
    \/ EnterForeground(t)
    \/ RecheckForeground(t)
    \/ AbandonStream(t)
    \/ LeaveForeground(t)

GeneratorStep(g) ==
    \/ EnterBackground(g)
    \/ CallEnds(g)
    \/ LeaveBackground(g)
    \/ StopGenerator(g)

GateNext ==
    \/ \E t \in Turns : TurnStep(t)
    \/ \E g \in Generators : GeneratorStep(g)
    \/ WebhookInterrupts
    \/ CancelTasks

GateSpec == GateInit /\ [][GateNext]_gateVars

(* The event loop runs whatever is ready, and the client's timeout ends    *)
(* every call.  Nobody is obliged to ask for the gate.                     *)
GateFairness ==
    /\ \A t \in Turns : WF_gateVars(RecheckForeground(t) \/ LeaveForeground(t))
    /\ \A g \in Generators :
        /\ WF_gateVars(at[g] = "woken" /\ EnterBackground(g))
        /\ WF_gateVars(CallEnds(g) \/ LeaveBackground(g))

FairGateSpec == GateSpec /\ GateFairness
-----------------------------------------------------------------------------
(*                               Properties                                *)

(* Types; the counter counts exactly the turns that wait.                  *)
GateTypeOK ==
    /\ active \in {"none", "foreground", "background"}
    /\ waiters = {t \in Turns : Waits(t)}
    /\ owner \in Generators \cup {NoCall}
    /\ at \in [Callers -> Places]
    /\ call \in [Generators -> Calls]
    /\ stopped \subseteq Callers

(* At most one request is ever open at the model server, a cancelled call  *)
(* that has not ended and a stream that was closed but not finalized       *)
(* included ("Bound Hermes to one call").                                  *)
Busy == {t \in Turns : Holds(t)} \cup {g \in Generators : InBackend(g)}
OneCall == \A c, d \in Busy : c = d

(* While the worker waits for the gate, whatever background call is open   *)
(* is being cancelled: the worker never waits for a generator's answer.    *)
Yields == (\E t \in Turns : Waits(t)) => \A g \in Generators : call[g] # "running"

(* The gate is never free with callers asleep and nobody on the way to     *)
(* look: no wake-up is lost, whoever leaves or is cancelled, in any order. *)
NoLostWakeup ==
    (active = "none" /\ \E c \in Callers : at[c] = "asleep")
        => \E c \in Callers : at[c] = "woken"

(* The worker that asks for the model gets its turn, or is shut down.      *)
ForegroundServed == \A t \in Turns : Waits(t) ~> ~Waits(t)

(* Background work resumes: generators that wait see one of them get in,   *)
(* unless the worker holds or wants the gate or a shutdown ends the wait.  *)
BackgroundResumes ==
    (\E g \in Generators : Waits(g)) ~>
        \/ \E g \in Generators : at[g] = "inside"
        \/ \E t \in Turns : at[t] # "idle"
        \/ \A g \in Generators : ~Waits(g)
=============================================================================
