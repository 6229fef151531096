--------------------------- MODULE PlatformClient ---------------------------
(***************************************************************************)
(* BoccoClient (bocco/client.py) over its pool of kept-alive connections   *)
(* and its token store: calls that run at the same time on the event loop, *)
(* each with a thread of its own while it is on the wire, and the rotation *)
(* of the OAuth tokens that any of them may start.                         *)
(*                                                                         *)
(* The platform rotates the access and the refresh token together, so one  *)
(* number names the pair: a refresh token is good once, for the newest     *)
(* pair.  Whether an older access token still opens the platform, and when *)
(* the newest one stops doing so, is the platform's choice.                *)
(***************************************************************************)
EXTENDS Naturals, FiniteSets

CONSTANTS
    Requests,         (* calls of _authorized_body_json                     *)
    MaxConnections,   (* the pool's limit                                   *)
    MaxRetries,       (* RateLimitPolicy.max_retries                        *)
    MaxPairs,         (* bound: token pairs the platform ever gives out     *)
    MaxFaults,        (* bound: unanswered exchanges and failed saves       *)
    MaxCrashes,       (* bound: restarts of the bridge                      *)
    NoOne             (* "nobody holds the lock"                            *)

ASSUME PlatformClientAssumption ==
    /\ MaxConnections \in Nat \ {0}
    /\ MaxRetries \in Nat /\ MaxPairs \in Nat
    /\ MaxFaults \in Nat /\ MaxCrashes \in Nat
    /\ NoOne \notin Requests

VARIABLES
    platform,   (* external: the newest pair the platform has given out     *)
    revoked,    (* external: pairs whose access token the platform refuses  *)
    stored,     (* the pair in the token file                               *)
    tokens,     (* _tokens, the pair in memory                              *)
    expired,    (* pairs past access_expires_at, the skew included          *)
    refreshLock, (* the call that holds _refresh_lock                       *)
    req,        (* [Requests -> RequestRecords], where each call stands     *)
    leased,     (* calls whose thread holds a connection of the pool        *)
    faults,     (* unanswered exchanges and failed saves so far             *)
    crashes,    (* restarts so far                                          *)
    lost        (* pairs given out whose answer or save was lost            *)

world == <<platform, revoked, expired, crashes>>
clientVars == <<world, stored, tokens, refreshLock, req, leased, faults, lost>>

Pairs == 0..MaxPairs
Places == {"start", "lock", "refresh", "save", "send", "pause", "done", "failed"}

(* at: where the call stands.  seen: the pair it read last.  forced: it     *)
(* refreshes because of a 401, which it does once.  limited and slowed: the *)
(* 429s of the call and of its refresh.  repeat: the transport is at its    *)
(* second attempt.                                                          *)
RequestRecords ==
    [at: Places, seen: Pairs, forced: BOOLEAN, limited: 0..MaxRetries,
     slowed: 0..MaxRetries, repeat: BOOLEAN]

Fresh == [at |-> "start", seen |-> 0, forced |-> FALSE, limited |-> 0,
          slowed |-> 0, repeat |-> FALSE]

ClientInit ==
    /\ platform = 0 /\ stored = 0 /\ tokens = 0
    /\ revoked = {} /\ expired = {}
    /\ refreshLock = NoOne
    /\ req = [r \in Requests |-> Fresh]
    /\ leased = {}
    /\ faults = 0 /\ crashes = 0 /\ lost = {}

-----------------------------------------------------------------------------
(*                            A call's moves                                *)

(* It reads the pair and goes to the wire, or to the lock.                  *)
Goes(r, place) ==
    req' = [req EXCEPT ![r].at = place, ![r].seen = tokens, ![r].repeat = FALSE]

(* An exception ends the call and lets go of the lock as it passes.         *)
Fails(r) ==
    /\ req' = [req EXCEPT ![r] = [Fresh EXCEPT !.at = "failed"]]
    /\ refreshLock' = IF refreshLock = r THEN NoOne ELSE refreshLock

(* An access token past its time is refreshed before the call is sent.      *)
Begin(r) ==
    /\ req[r].at = "start"
    /\ Goes(r, IF tokens \in expired THEN "lock" ELSE "send")
    /\ UNCHANGED <<world, stored, tokens, refreshLock, leased, faults, lost>>

(* After the delay of a 429 the token is read anew.                         *)
Resume(r) ==
    /\ req[r].at = "pause"
    /\ Goes(r, "send")
    /\ UNCHANGED <<world, stored, tokens, refreshLock, leased, faults, lost>>

MutantSuperseded(r) == ~req[r].forced /\ tokens \notin expired

(* Inside the lock: another call may have replaced the pair meanwhile.      *)
Superseded(r) ==
    \/ tokens # req[r].seen
    \/ ~req[r].forced /\ tokens \notin expired

MutantLock(r) ==
    /\ req[r].at = "lock"
    /\ refreshLock' = r
    /\ IF Superseded(r) THEN Goes(r, "send") ELSE Goes(r, "refresh")
    /\ UNCHANGED <<world, stored, tokens, leased, faults, lost>>

Lock(r) ==
    /\ req[r].at = "lock"
    /\ refreshLock = NoOne
    /\ \/ /\ Superseded(r)
          /\ Goes(r, "send")
          /\ UNCHANGED refreshLock
       \/ /\ ~Superseded(r)
          /\ Goes(r, "refresh")
          /\ refreshLock' = r
    /\ UNCHANGED <<world, stored, tokens, leased, faults, lost>>

-----------------------------------------------------------------------------
(*                            The transport                                 *)

(* A thread waits for a free connection of the pool and holds it for the    *)
(* whole exchange, its second attempt included.                             *)
Lease(r) ==
    /\ req[r].at \in {"send", "refresh"} /\ r \notin leased
    /\ Cardinality(leased) < MaxConnections
    /\ leased' = leased \cup {r}
    /\ UNCHANGED <<world, stored, tokens, refreshLock, req, faults, lost>>

MutantRelease(r) == leased' = IF req[r].forced THEN leased \ {r} ELSE leased

Release(r) == leased' = leased \ {r}

(* The exchange fails on its connection: any request is sent once more on a *)
(* new one, then the call fails.                                            *)
Unanswered(r) ==
    /\ faults < MaxFaults
    /\ faults' = faults + 1
    /\ \/ /\ ~req[r].repeat
          /\ req' = [req EXCEPT ![r].repeat = TRUE]
          /\ UNCHANGED <<refreshLock, leased>>
       \/ /\ req[r].repeat
          /\ Fails(r)
          /\ Release(r)

-----------------------------------------------------------------------------
(*                     _authorized_body_json, answered                      *)

Sending(r) == req[r].at = "send" /\ r \in leased

(* The platform decides by the token that the request carries.              *)
Accepted(r) ==
    /\ Sending(r)
    /\ req[r].seen \notin revoked
    /\ req' = [req EXCEPT ![r] = [Fresh EXCEPT !.at = "done"]]
    /\ Release(r)
    /\ UNCHANGED <<world, stored, tokens, refreshLock, faults, lost>>

(* A 401 refreshes once for the call.                                       *)
Unauthorized(r) ==
    /\ Sending(r)
    /\ req[r].seen \in revoked
    /\ Release(r)
    /\ \/ /\ req[r].forced
          /\ Fails(r)
       \/ /\ ~req[r].forced
          /\ req' = [req EXCEPT ![r].at = "lock", ![r].forced = TRUE,
                                ![r].repeat = FALSE]
          /\ UNCHANGED refreshLock
    /\ UNCHANGED <<world, stored, tokens, faults, lost>>

(* A 429 waits and tries again a bounded number of times.                   *)
RateLimited(r) ==
    /\ Sending(r)
    /\ Release(r)
    /\ \/ /\ req[r].limited < MaxRetries
          /\ req' = [req EXCEPT ![r].at = "pause", ![r].seen = 0,
                                ![r].repeat = FALSE, ![r].limited = @ + 1]
          /\ UNCHANGED refreshLock
       \/ /\ req[r].limited = MaxRetries
          /\ Fails(r)
    /\ UNCHANGED <<world, stored, tokens, faults, lost>>

(* The answer is lost, whether or not the platform carried the call out.    *)
CallLost(r) ==
    /\ Sending(r)
    /\ Unanswered(r)
    /\ UNCHANGED <<world, stored, tokens, lost>>

-----------------------------------------------------------------------------
(*                 _refresh_tokens, while it holds the lock                 *)

Refreshing(r) == req[r].at = "refresh" /\ r \in leased

(* The platform gives out the next pair; the answer arrives, or is lost and *)
(* the same refresh token is sent once more.  The older pair may go on      *)
(* opening the platform.                                                    *)
Rotate(r) ==
    /\ Refreshing(r)
    /\ tokens = platform /\ platform < MaxPairs
    /\ platform' = platform + 1
    /\ revoked' \in {revoked, revoked \cup {platform}}
    /\ \/ /\ req' = [req EXCEPT ![r].at = "save"]
          /\ Release(r)
          /\ UNCHANGED <<refreshLock, faults, lost>>
       \/ /\ Unanswered(r)
          /\ lost' = lost \cup {platform'}
    /\ UNCHANGED <<expired, crashes, stored, tokens>>

(* A refresh token that was used already is refused.                        *)
Refuse(r) ==
    /\ Refreshing(r)
    /\ tokens # platform
    /\ Release(r)
    /\ Fails(r)
    /\ UNCHANGED <<world, stored, tokens, faults, lost>>

(* The platform does not come to rotate: it is out of reach, in error, or   *)
(* asks to slow down, which the refresh waits out with the lock held.       *)
NotRotated(r) ==
    /\ Refreshing(r)
    /\ \/ Unanswered(r)
       \/ /\ faults < MaxFaults /\ faults' = faults + 1
          /\ Fails(r) /\ Release(r)
       \/ /\ Release(r) /\ UNCHANGED faults
          /\ \/ /\ req[r].slowed < MaxRetries
                /\ req' = [req EXCEPT ![r].slowed = @ + 1, ![r].repeat = FALSE]
                /\ UNCHANGED refreshLock
             \/ /\ req[r].slowed = MaxRetries
                /\ Fails(r)
    /\ UNCHANGED <<world, stored, tokens, lost>>

(* The new pair is on disk before anybody uses it.  A save may fail before  *)
(* or after the file was replaced; the pair is not published then.          *)
Save(r) ==
    /\ req[r].at = "save"
    /\ \/ /\ stored' = platform /\ tokens' = platform
          /\ req' = [req EXCEPT ![r].at = "send", ![r].seen = platform]
          /\ refreshLock' = NoOne
          /\ UNCHANGED <<faults, lost>>
       \/ /\ faults < MaxFaults /\ faults' = faults + 1
          /\ stored' \in {stored, platform}
          /\ lost' = lost \cup {platform}
          /\ Fails(r)
          /\ UNCHANGED tokens
    /\ UNCHANGED <<world, leased>>

-----------------------------------------------------------------------------
(*                     The platform, the clock, a crash                     *)

(* The clock passes the expiry of the pair in memory.                       *)
Expire ==
    /\ tokens \notin expired
    /\ expired' = expired \cup {tokens}
    /\ UNCHANGED <<platform, revoked, stored, tokens, refreshLock, req, leased, faults,
                   crashes, lost>>

(* The platform ends the newest access token.                               *)
Revoke ==
    /\ platform \notin revoked
    /\ revoked' = revoked \cup {platform}
    /\ UNCHANGED <<platform, expired, stored, tokens, refreshLock, req, leased, faults,
                   crashes, lost>>

(* A restart reads the file; the work that was under way is begun anew.     *)
Crash ==
    /\ crashes < MaxCrashes
    /\ crashes' = crashes + 1
    /\ tokens' = stored
    /\ lost' = IF \E r \in Requests : req[r].at = "save"
               THEN lost \cup {platform} ELSE lost
    /\ req' = [r \in Requests |->
                 IF req[r].at \in {"done", "failed"} THEN req[r] ELSE Fresh]
    /\ refreshLock' = NoOne /\ leased' = {}
    /\ UNCHANGED <<platform, revoked, expired, stored, faults>>

(* Every call has ended.                                                    *)
AllEnded ==
    /\ \A r \in Requests : req[r].at \in {"done", "failed"}
    /\ UNCHANGED clientVars

CallStep(r) ==
    \/ Begin(r) \/ Resume(r) \/ Lock(r) \/ Lease(r)
    \/ Accepted(r) \/ Unauthorized(r) \/ RateLimited(r) \/ CallLost(r)
    \/ Rotate(r) \/ Refuse(r) \/ NotRotated(r) \/ Save(r)

ClientNext ==
    \/ \E r \in Requests : CallStep(r)
    \/ Expire \/ Revoke \/ Crash \/ AllEnded

ClientSpec == ClientInit /\ [][ClientNext]_clientVars

(* Threads run, sockets time out and asyncio.Lock wakes its waiters.        *)
FairClientSpec ==
    /\ ClientSpec
    /\ \A r \in Requests : WF_clientVars(CallStep(r))

-----------------------------------------------------------------------------
(*                             Properties                                   *)

(* Calls that fail together refresh once: a refresh is only under way for a *)
(* pair that is past its time or that the platform has refused, never for   *)
(* the new pair of another call that was quicker to the lock.               *)
RotatesForCause ==
    \A r \in Requests :
        req[r].at = "refresh" => tokens \in expired \cup revoked

(* The refresh token that a call is about to spend was spent before only if *)
(* the pair it was exchanged for never came to be used: its answer was      *)
(* lost, its save failed, or a crash came in between.                       *)
SpentOnlyIfLost ==
    \A r \in Requests :
        req[r].at = "refresh" /\ tokens # platform => platform \in lost

(* Calls that wait for the lock, for a connection and for the platform never*)
(* wait for each other for ever: every call ends.                           *)
EveryCallEnds ==
    \A r \in Requests : <>(req[r].at \in {"done", "failed"})
=============================================================================
