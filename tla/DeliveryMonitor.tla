--------------------------- MODULE DeliveryMonitor ---------------------------
(***************************************************************************)
(* WebhookDeliveryMonitor (delivery.py), composed with the tunnel it       *)
(* repairs and the platform whose deliveries it proves.                    *)
(*                                                                         *)
(* A platform may accept a registration and never deliver, and no sign of  *)
(* it shows in the bridge.  The monitor posts a silent motion, whose echo  *)
(* is a webhook; if none arrives it registers the address again, and then  *)
(* has the tunnel replaced.                                                *)
(*                                                                         *)
(* Delays are steps that may be taken at any time.  last_inbound is kept   *)
(* as the two comparisons made with it: overdue and traffic.               *)
(***************************************************************************)
EXTENDS Tunnel, Naturals

CONSTANTS
    MaxAttempts,     (* webhook_probe_max_attempts                         *)
    MaxRestarts      (* bound: restarts of the bridge                      *)

ASSUME DeliveryMonitorAssumption ==
    MaxAttempts \in 1..3 /\ MaxRestarts \in Nat

VARIABLES
    taken,        (* does the platform deliver to the registered address?  *)
    monitor,      (* where run() is                                        *)
    attempt,      (* the probe of the cycle, 0 outside one                 *)
    inbound,      (* the event _inbound                                    *)
    registered,   (* the event _registered                                 *)
    gave_up,
    overdue,      (* silent for long enough, in waking hours               *)
    traffic,      (* a webhook since the start of the settling delay       *)
    unproven,     (* a registration since the last probe was posted        *)
    restarts

monitorVars == <<monitor, attempt, inbound, registered, gave_up, overdue,
                 traffic, unproven>>
vars == <<tunnelVars, taken, monitorVars, restarts>>

MonitorInit ==
    /\ monitor = "looking"
    /\ attempt = 0
    /\ inbound = FALSE
    /\ registered = FALSE
    /\ gave_up = FALSE
    /\ overdue = FALSE
    /\ traffic = FALSE
    /\ unproven = FALSE

Init == TunnelInit /\ taken = FALSE /\ MonitorInit /\ restarts = 0

(* A webhook of the platform passes the tunnel and the listener's check.   *)
Reachable == Runs /\ hook = "live" /\ taken /\ secret = "store"
-----------------------------------------------------------------------------
(*                    Webhooks, the platform and the clock                 *)

Observe ==
    /\ Reachable
    /\ inbound' = TRUE
    /\ traffic' = TRUE
    /\ overdue' = FALSE
    /\ gave_up' = FALSE
    /\ UNCHANGED <<tunnelVars, taken, monitor, attempt, registered, unproven, restarts>>

PlatformChanges ==
    /\ taken' = ~taken
    /\ UNCHANGED <<tunnelVars, monitorVars, restarts>>

SilenceIsOverdue ==
    /\ monitor = "looking"
    /\ ~overdue
    /\ overdue' = TRUE
    /\ UNCHANGED <<tunnelVars, taken, monitor, attempt, inbound, registered,
                   gave_up, traffic, unproven, restarts>>
-----------------------------------------------------------------------------
(*                               The cycle                                 *)

MutantFinishCycle ==
    /\ monitor' = "looking"
    /\ attempt' = 0
    /\ overdue' = FALSE
    /\ UNCHANGED registered

(* The silence timer starts again, and a registration made during the      *)
(* cycle is forgotten.                                                     *)
FinishCycle ==
    /\ monitor' = "looking"
    /\ attempt' = 0
    /\ overdue' = FALSE
    /\ registered' = FALSE

MutantBeginProbe(n) ==
    /\ monitor' = "posting"
    /\ attempt' = n
    /\ UNCHANGED inbound

(* Only a webhook that arrives from here on counts.                        *)
BeginProbe(n) ==
    /\ monitor' = "posting"
    /\ attempt' = n
    /\ inbound' = FALSE

LookAtRegistration ==
    /\ monitor = "looking"
    /\ registered
    /\ registered' = FALSE
    /\ traffic' = FALSE
    /\ monitor' = "settling"
    /\ UNCHANGED <<tunnelVars, taken, attempt, inbound, gave_up, overdue, unproven, restarts>>

LookAtSilence ==
    /\ monitor = "looking"
    /\ ~registered /\ ~gave_up
    /\ overdue
    /\ BeginProbe(1)
    /\ UNCHANGED <<tunnelVars, taken, registered, gave_up, overdue, traffic,
                   unproven, restarts>>

(* Traffic during the delay after a registration makes a probe needless.   *)
Settle ==
    /\ monitor = "settling"
    /\ \/ /\ traffic
          /\ monitor' = "looking"
          /\ overdue' = FALSE
          /\ UNCHANGED <<attempt, inbound>>
       \/ /\ ~traffic
          /\ BeginProbe(1)
          /\ UNCHANGED overdue
    /\ UNCHANGED <<tunnelVars, taken, registered, gave_up, traffic, unproven, restarts>>

ProbePosted ==
    /\ monitor = "posting"
    /\ monitor' = "listening"
    /\ unproven' = FALSE
    /\ UNCHANGED <<tunnelVars, taken, attempt, inbound, registered, gave_up,
                   overdue, traffic, restarts>>

(* Nothing was learned: no repair, no verdict.                             *)
ProbeInconclusive ==
    /\ monitor = "posting"
    /\ FinishCycle
    /\ UNCHANGED <<tunnelVars, taken, inbound, gave_up, traffic, unproven, restarts>>

Confirmed ==
    /\ monitor = "listening"
    /\ inbound
    /\ FinishCycle
    /\ UNCHANGED <<tunnelVars, taken, inbound, gave_up, traffic, unproven, restarts>>

(* The rungs of the ladder; one that cannot be tried is skipped.           *)
ReregisterRung ==
    \/ Reregister /\ monitor' = "registering"
    \/ ~HasUrl /\ monitor' = "backing off" /\ UNCHANGED tunnelVars

RecycleRung ==
    \/ Terminate /\ monitor' = "recycling"
    \/ ~Runs /\ monitor' = "backing off" /\ UNCHANGED tunnelVars

(* The wait timed out, be it in the instant a webhook arrived.             *)
Repair ==
    /\ monitor = "listening"
    /\ attempt < MaxAttempts
    /\ \/ attempt = 1 /\ ReregisterRung
       \/ attempt = 2 /\ RecycleRung
    /\ UNCHANGED <<taken, attempt, inbound, registered, gave_up, overdue, traffic,
                   unproven, restarts>>

GiveUp ==
    /\ monitor = "listening"
    /\ attempt = MaxAttempts
    /\ gave_up' = TRUE
    /\ FinishCycle
    /\ UNCHANGED <<tunnelVars, taken, inbound, traffic, unproven, restarts>>

(* recycle() sees a new registration, or its time is over: all one here.   *)
RecycleEnds ==
    /\ monitor = "recycling"
    /\ monitor' = "backing off"
    /\ UNCHANGED <<tunnelVars, taken, attempt, inbound, registered, gave_up,
                   overdue, traffic, unproven, restarts>>

ProbeAgain ==
    /\ monitor = "backing off"
    /\ BeginProbe(attempt + 1)
    /\ UNCHANGED <<tunnelVars, taken, registered, gave_up, overdue, traffic,
                   unproven, restarts>>
-----------------------------------------------------------------------------
(*                     The tunnel, as the monitor sees it                  *)

NotifyRegistered ==
    /\ registered' = TRUE
    /\ gave_up' = FALSE
    /\ unproven' = TRUE
    /\ UNCHANGED <<attempt, inbound, overdue, traffic>>

SupervisorRegisters ==
    /\ Registered
    /\ NotifyRegistered
    /\ UNCHANGED <<taken, monitor, restarts>>

MonitorRegisters ==
    /\ monitor = "registering"
    /\ monitor' = "backing off"
    /\ \/ Reregistered /\ NotifyRegistered
       \/ /\ ReregistrationFailed
          /\ UNCHANGED <<registered, gave_up, unproven,
                         attempt, inbound, overdue, traffic>>
    /\ UNCHANGED <<taken, restarts>>

(* The platform may or may not deliver to what is registered.              *)
RegistrationTakes(r) ==
    /\ Subscribe(r)
    /\ taken' \in BOOLEAN
    /\ UNCHANGED <<monitorVars, restarts>>

SupervisorStep ==
    /\ \/ Spawn \/ Discover \/ GiveUpDiscovery \/ RegistrationFailed
       \/ NoticeExit \/ Clean \/ ProcessExits
       \/ \E r \in Registrants : Address(r)
    /\ UNCHANGED <<taken, monitorVars, restarts>>

Restart ==
    /\ restarts < MaxRestarts
    /\ restarts' = restarts + 1
    /\ RestartTunnel
    /\ monitor' = "looking" /\ attempt' = 0 /\ inbound' = FALSE
    /\ registered' = FALSE /\ gave_up' = FALSE /\ overdue' = FALSE
    /\ traffic' = FALSE /\ unproven' = FALSE
    /\ UNCHANGED taken

MonitorStep ==
    \/ LookAtRegistration \/ LookAtSilence \/ Settle
    \/ ProbePosted \/ ProbeInconclusive \/ Confirmed
    \/ Repair \/ GiveUp \/ RecycleEnds \/ ProbeAgain

Next ==
    \/ Observe \/ PlatformChanges \/ SilenceIsOverdue
    \/ MonitorStep
    \/ SupervisorRegisters \/ MonitorRegisters
    \/ \E r \in Registrants : RegistrationTakes(r)
    \/ SupervisorStep
    \/ Restart

Spec == Init /\ [][Next]_vars

(* Every task of the loop goes on: each call and each wait has a timeout.  *)
(* The hours pass, and a platform to which a rung of the ladder posts its  *)
(* probe again and again accepts one in the end.                           *)
RegistrationStep ==
    \/ SupervisorRegisters \/ MonitorRegisters
    \/ \E r \in Registrants : RegistrationTakes(r)
    \/ RegistrationFailed /\ UNCHANGED <<taken, monitorVars, restarts>>
    \/ \E r \in Registrants : Address(r) /\ UNCHANGED <<taken, monitorVars, restarts>>

Fairness ==
    /\ WF_vars(MonitorStep)
    /\ WF_vars(SilenceIsOverdue)
    /\ WF_vars(RegistrationStep)
    /\ \A n \in 1..MaxAttempts : SF_vars(ProbePosted /\ attempt = n)

FairSpec == Spec /\ Fairness
-----------------------------------------------------------------------------
(*                              Properties                                 *)

(* No second cycle for an address that was probed already, although every  *)
(* repair raises the same flag as a new tunnel does.                       *)
NoSecondVerdict == monitor = "looking" /\ registered => unproven

(* A bridge that is ready and hears nothing does not stay so unnoticed: it *)
(* hears again, is not ready, or the monitor has given up and said so.     *)
Deaf == Ready /\ ~Reachable
DeafnessNoticed == Deaf ~> (~Deaf \/ gave_up)

(* No registration waits for ever at the lock, whichever call fails.       *)
RegistrationsEnd == \A r \in Registrants : step[r] # "idle" ~> step[r] = "idle"

=============================================================================
