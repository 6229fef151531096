------------------------------- MODULE Tunnel -------------------------------
(***************************************************************************)
(* The public address of the bridge: TunnelSupervisor (tunnel.py), the     *)
(* registration of the address at the platform (register_webhook of the    *)
(* client) and the secret the listener accepts (WebhookSecretStore).       *)
(*                                                                         *)
(* Every start of cloudflared mints a new host, so only two addresses need *)
(* telling apart: "live", the host of the latest start, and "old", any     *)
(* earlier one.  Every registration rotates the secret, so all that        *)
(* matters of secrets is who knows the latest one.                         *)
(*                                                                         *)
(* Two tasks register: the supervisor, when a host is announced, and the   *)
(* delivery monitor, when it repairs.  A lock that serves them in order    *)
(* of arrival keeps their registrations apart.                             *)
(***************************************************************************)
VARIABLES
    supervisor,   (* where run() is                                        *)
    process,      (* the child: "none", "alive", "ending" or "exited"      *)
    lock,         (* the holder of _registration_lock, or "free"           *)
    step,         (* [Registrants -> how far its registration is]          *)
    target,       (* [Registrants -> the address it registers]             *)
    hook,         (* the address the platform has for its webhooks         *)
    secret,       (* who knows the platform's secret: the listener's       *)
                  (* "store", a registrant whose answer has arrived, or    *)
                  (* "nobody" here                                         *)
    certain       (* did the latest registration that ended succeed?       *)

tunnelVars == <<supervisor, process, lock, step, target, hook, secret, certain>>
registrationVars == <<lock, step, target, hook, secret, certain>>

Registrants == {"supervisor", "monitor"}

TunnelInit ==
    /\ supervisor = "down"
    /\ process = "none"
    /\ lock = "free"
    /\ step = [r \in Registrants |-> "idle"]
    /\ target = [r \in Registrants |-> "old"]
    /\ hook = "old"
    /\ secret = "nobody"
    /\ certain = FALSE

(* current_url is set from the discovery of a host until run() cleans up.  *)
HasUrl == supervisor \in {"registering", "serving"}
Ready == supervisor = "serving"
Runs == process \in {"alive", "ending"}
-----------------------------------------------------------------------------
(*                             Registration                                *)

Waiting == {r \in Registrants : step[r] = "asked" /\ lock # r}

MutantHolds(r) == lock # "free"
Holds(r) == lock = r

Ask(r) ==
    /\ step[r] = "idle"
    /\ lock' = IF lock = "free" THEN r ELSE lock
    /\ step' = [step EXCEPT ![r] = "asked"]
    /\ target' = [target EXCEPT ![r] = "live"]
    /\ UNCHANGED <<hook, secret, certain>>

(* create_webhook or update_webhook has taken effect at the platform.      *)
Address(r) ==
    /\ Holds(r)
    /\ step[r] = "asked"
    /\ hook' = target[r]
    /\ step' = [step EXCEPT ![r] = "addressed"]
    /\ UNCHANGED <<supervisor, process, lock, target, secret, certain>>

(* set_webhook_events has taken effect: its answer carries a new secret.   *)
Subscribe(r) ==
    /\ Holds(r)
    /\ step[r] = "addressed"
    /\ secret' = r
    /\ step' = [step EXCEPT ![r] = "subscribed"]
    /\ UNCHANGED <<supervisor, process, lock, target, hook, certain>>

(* The lock passes to the one who waits for it.                            *)
Leave(r) ==
    /\ IF Waiting = {} THEN lock' = "free" ELSE lock' \in Waiting
    /\ step' = [step EXCEPT ![r] = "idle"]
    /\ UNCHANGED <<target, hook>>

(* The answer arrived: its secret replaces the listener's.                 *)
Publish(r) ==
    /\ Holds(r)
    /\ step[r] = "subscribed"
    /\ Leave(r)
    /\ secret' = CASE secret = r       -> "store"
                   [] secret = "store" -> "nobody"
                   [] OTHER            -> secret
    /\ certain' = TRUE

(* A call failed, or took effect and its answer was lost.                  *)
Fail(r) ==
    /\ Holds(r)
    /\ Leave(r)
    /\ secret' = IF secret = r THEN "nobody" ELSE secret
    /\ certain' = FALSE
-----------------------------------------------------------------------------
(*                            The supervisor                               *)

(* A new child, and so a new host: every address known so far is old.      *)
Spawn ==
    /\ supervisor = "down"
    /\ supervisor' = "discovering"
    /\ process' = "alive"
    /\ hook' = "old"
    /\ target' = [r \in Registrants |-> "old"]
    /\ UNCHANGED <<lock, step, secret, certain>>

(* The child announced its host.                                           *)
Discover ==
    /\ supervisor = "discovering"
    /\ supervisor' = "registering"
    /\ Ask("supervisor")
    /\ UNCHANGED process

(* No host in time, or the child exited first.                             *)
GiveUpDiscovery ==
    /\ supervisor = "discovering"
    /\ supervisor' = "cleaning"
    /\ UNCHANGED <<process, registrationVars>>

Registered ==
    /\ Publish("supervisor")
    /\ supervisor' = "serving"
    /\ UNCHANGED process

MutantRegistrationFailed ==
    /\ step["supervisor"] # "idle" /\ Holds("supervisor")
    /\ supervisor' = "cleaning"
    /\ step' = [step EXCEPT !["supervisor"] = "idle"]
    /\ certain' = FALSE
    /\ UNCHANGED <<process, lock, target, hook, secret>>

RegistrationFailed ==
    /\ Fail("supervisor")
    /\ supervisor' = "cleaning"
    /\ UNCHANGED process

NoticeExit ==
    /\ supervisor = "serving"
    /\ process = "exited"
    /\ supervisor' = "cleaning"
    /\ UNCHANGED <<process, registrationVars>>

(* The child is stopped, and after a pause the next one is started.        *)
Clean ==
    /\ supervisor = "cleaning"
    /\ supervisor' = "down"
    /\ process' = "none"
    /\ UNCHANGED registrationVars

ProcessExits ==
    /\ Runs
    /\ process' = "exited"
    /\ UNCHANGED <<supervisor, registrationVars>>
-----------------------------------------------------------------------------
(*                  What the delivery monitor may ask for                  *)

Reregister ==
    /\ HasUrl
    /\ Ask("monitor")
    /\ UNCHANGED <<supervisor, process>>

Terminate ==
    /\ Runs
    /\ process' = "ending"
    /\ UNCHANGED <<supervisor, registrationVars>>

Reregistered == Publish("monitor") /\ UNCHANGED <<supervisor, process>>
ReregistrationFailed == Fail("monitor") /\ UNCHANGED <<supervisor, process>>

(* The bridge stops or crashes and is started again: it accepts only the   *)
(* secret of its configuration, and the platform keeps a dead address.     *)
RestartTunnel ==
    /\ supervisor' = "down"
    /\ process' = "none"
    /\ lock' = "free"
    /\ step' = [r \in Registrants |-> "idle"]
    /\ target' = [r \in Registrants |-> "old"]
    /\ hook' = "old"
    /\ secret' = "nobody"
    /\ certain' = FALSE

TunnelNext ==
    \/ \E r \in Registrants : Address(r) \/ Subscribe(r)
    \/ Spawn \/ Discover \/ GiveUpDiscovery
    \/ Registered \/ RegistrationFailed
    \/ NoticeExit \/ Clean \/ ProcessExits
    \/ Reregister \/ Terminate \/ Reregistered \/ ReregistrationFailed
    \/ RestartTunnel

TunnelSpec == TunnelInit /\ [][TunnelNext]_tunnelVars
-----------------------------------------------------------------------------
(*                              Properties                                 *)

TunnelTypeOK ==
    /\ supervisor \in {"down", "discovering", "registering", "serving", "cleaning"}
    /\ process \in {"none", "alive", "ending", "exited"}
    /\ lock \in {"free"} \cup Registrants
    /\ step \in [Registrants -> {"idle", "asked", "addressed", "subscribed"}]
    /\ target \in [Registrants -> {"live", "old"}]
    /\ hook \in {"live", "old"}
    /\ secret \in {"store", "nobody"} \cup Registrants
    /\ certain \in BOOLEAN

(* Whatever order the two tasks register in, and whatever the tunnel does  *)
(* meanwhile: a tunnel that calls itself ready is the one the platform has *)
(* the address of; and when no registration is under way and the latest    *)
(* one succeeded, the listener accepts the secret the platform sends.      *)
Agreement ==
    /\ Ready => hook = "live"
    /\ certain /\ (\A r \in Registrants : step[r] = "idle") => secret = "store"
=============================================================================
