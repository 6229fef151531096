--------------------------- MODULE PlatformProofs ---------------------------
(***************************************************************************)
(* Proofs about the bridge and the BOCCO platform: the tokens it rotates,  *)
(* and the address at which the platform is to deliver its webhooks.       *)
(*                                                                         *)
(* The tokens, for any number of calls, pairs, faults and restarts.  The   *)
(* invariant ClientInv has three parts beside the types: Serial, what      *)
(* _refresh_lock guarantees; Caused, that a call waits for the lock or     *)
(* refreshes for a reason that still holds; and Kept, that memory and file *)
(* hold the newest pair unless it is being saved or was lost.              *)
(*                                                                         *)
(* A ready tunnel has its address at the platform, and the listener knows  *)
(* the secret, by the invariant RegistrationInv: Locked, what the lock     *)
(* guarantees; Addressed, that no registration can put an old address over *)
(* the one a ready tunnel registered; and Informed, that only the          *)
(* registration in progress knows a secret the listener lacks.  The tunnel *)
(* with its delivery monitor implements the tunnel on its own, and so has  *)
(* that invariant too; Probed is what the monitor adds.                    *)
(***************************************************************************)
EXTENDS PlatformClient, DeliveryMonitor, TLAPS
-----------------------------------------------------------------------------
(*                                The tokens                               *)

ClientTypeOK ==
    /\ platform \in Pairs /\ stored \in Pairs /\ tokens \in Pairs
    /\ revoked \in SUBSET Pairs /\ expired \in SUBSET Pairs /\ lost \in SUBSET Pairs
    /\ refreshLock \in Requests \cup {NoOne}
    /\ req \in [Requests -> RequestRecords]
    /\ leased \in SUBSET Requests
    /\ faults \in 0..MaxFaults /\ crashes \in 0..MaxCrashes

(* Only the holder of the lock exchanges the refresh token or saves.        *)
Serial ==
    \A r \in Requests : req[r].at \in {"refresh", "save"} <=> refreshLock = r

(* A call is only forced to refresh by a 401, for the pair that it saw; a   *)
(* refresh goes on for the pair that was found expired or refused.          *)
Caused ==
    /\ \A r \in Requests : req[r].at = "start" => ~req[r].forced
    /\ \A r \in Requests :
          req[r].at = "lock" /\ req[r].forced => req[r].seen \in revoked
    /\ RotatesForCause

Saving == \E r \in Requests : req[r].at = "save"

(* The newest pair is in memory and on disk, or on its way there, or lost.  *)
Kept ==
    /\ tokens # platform => platform \in lost \/ Saving
    /\ stored # platform => platform \in lost \/ Saving

ClientInv == ClientTypeOK /\ Serial /\ Caused /\ Kept

-----------------------------------------------------------------------------
(*                              The types                                   *)

LEMMA InitClientInv == ClientInit => ClientInv
<1> SUFFICES ASSUME ClientInit PROVE ClientInv
    OBVIOUS
<1>1. ClientTypeOK
    BY PlatformClientAssumption
    DEF ClientInit, ClientTypeOK, Pairs, RequestRecords, Places, Fresh
<1>2. Serial
    BY PlatformClientAssumption DEF ClientInit, Serial, Fresh
<1>3. Caused
    BY DEF ClientInit, Caused, RotatesForCause, Fresh
<1>4. Kept
    BY DEF ClientInit, Kept
<1> QED BY <1>1, <1>2, <1>3, <1>4 DEF ClientInv

(* A call that is begun anew, or that has ended, is a call's record.        *)
LEMMA FreshType ==
    /\ Fresh \in RequestRecords
    /\ [Fresh EXCEPT !.at = "done"] \in RequestRecords
    /\ [Fresh EXCEPT !.at = "failed"] \in RequestRecords
<1>1. 0 \in Pairs /\ 0 \in 0..MaxRetries
    BY PlatformClientAssumption DEF Pairs
<1>2. Fresh \in RequestRecords
    BY <1>1 DEF Fresh, RequestRecords, Places
<1> QED BY <1>2 DEF RequestRecords, Places

(* An exception leaves a failed call and a lock that is free or another's.  *)
LEMMA FailsType ==
    ASSUME ClientTypeOK, NEW r \in Requests, Fails(r)
    PROVE  /\ req' \in [Requests -> RequestRecords]
           /\ refreshLock' \in Requests \cup {NoOne}
BY FreshType DEF ClientTypeOK, Fails

LEMMA UnansweredType ==
    ASSUME ClientTypeOK, NEW r \in Requests, Unanswered(r)
    PROVE  /\ req' \in [Requests -> RequestRecords]
           /\ refreshLock' \in Requests \cup {NoOne}
           /\ leased' \in SUBSET Requests
           /\ faults' \in 0..MaxFaults
<1>1. faults' \in 0..MaxFaults
    BY PlatformClientAssumption DEF Unanswered, ClientTypeOK
<1>2. CASE ~req[r].repeat /\ req' = [req EXCEPT ![r].repeat = TRUE]
              /\ UNCHANGED <<refreshLock, leased>>
    BY <1>1, <1>2 DEF ClientTypeOK, RequestRecords
<1>3. CASE Fails(r) /\ Release(r)
    BY <1>1, <1>3, FailsType DEF ClientTypeOK, Release
<1> QED BY <1>2, <1>3 DEF Unanswered

LEMMA GoesType ==
    ASSUME ClientTypeOK, NEW r \in Requests, NEW place \in Places, Goes(r, place)
    PROVE  req' \in [Requests -> RequestRecords]
BY DEF ClientTypeOK, Goes, RequestRecords

LEMMA ClientTypeStep == ClientTypeOK /\ [ClientNext]_clientVars => ClientTypeOK'
<1> SUFFICES ASSUME ClientTypeOK, [ClientNext]_clientVars PROVE ClientTypeOK'
    OBVIOUS
<1> USE DEF world
<1>1. ASSUME NEW r \in Requests, Begin(r) PROVE ClientTypeOK'
    BY <1>1, GoesType DEF Begin, ClientTypeOK, Places
<1>2. ASSUME NEW r \in Requests, Resume(r) PROVE ClientTypeOK'
    BY <1>2, GoesType DEF Resume, ClientTypeOK, Places
<1>3. ASSUME NEW r \in Requests, Lock(r) PROVE ClientTypeOK'
    BY <1>3, GoesType DEF Lock, ClientTypeOK, Places
<1>4. ASSUME NEW r \in Requests, Lease(r) PROVE ClientTypeOK'
    BY <1>4 DEF Lease, ClientTypeOK
<1>5. ASSUME NEW r \in Requests, Accepted(r) PROVE ClientTypeOK'
    BY <1>5, FreshType DEF Accepted, Release, ClientTypeOK
<1>6. ASSUME NEW r \in Requests, Unauthorized(r) PROVE ClientTypeOK'
    <2>1. CASE Fails(r)
        BY <1>6, <2>1, FailsType DEF Unauthorized, Release, ClientTypeOK
    <2>2. CASE req' = [req EXCEPT ![r].at = "lock", ![r].forced = TRUE,
                                  ![r].repeat = FALSE] /\ UNCHANGED refreshLock
        <3>1. [req[r] EXCEPT !.at = "lock", !.forced = TRUE, !.repeat = FALSE]
                  \in RequestRecords
            BY DEF ClientTypeOK, RequestRecords, Places
        <3>2. req' = [req EXCEPT ![r] = [req[r] EXCEPT
                         !.at = "lock", !.forced = TRUE, !.repeat = FALSE]]
            BY <2>2, Zenon DEF ClientTypeOK
        <3> QED BY <1>6, <2>2, <3>1, <3>2 DEF Unauthorized, Release, ClientTypeOK
    <2> QED BY <1>6, <2>1, <2>2 DEF Unauthorized
<1>7. ASSUME NEW r \in Requests, RateLimited(r) PROVE ClientTypeOK'
    <2>1. CASE Fails(r)
        BY <1>7, <2>1, FailsType DEF RateLimited, Release, ClientTypeOK
    <2>2. CASE req[r].limited < MaxRetries
               /\ req' = [req EXCEPT ![r].at = "pause", ![r].seen = 0,
                                  ![r].repeat = FALSE, ![r].limited = @ + 1]
               /\ UNCHANGED refreshLock
        <3>1. req[r].limited + 1 \in 0..MaxRetries /\ 0 \in Pairs
            BY <2>2, PlatformClientAssumption DEF ClientTypeOK, RequestRecords, Pairs
        <3> QED BY <1>7, <2>2, <3>1
                DEF RateLimited, Release, ClientTypeOK, RequestRecords, Places
    <2> QED BY <1>7, <2>1, <2>2 DEF RateLimited
<1>8. ASSUME NEW r \in Requests, CallLost(r) PROVE ClientTypeOK'
    BY <1>8, UnansweredType DEF CallLost, ClientTypeOK
<1>9. ASSUME NEW r \in Requests, Rotate(r) PROVE ClientTypeOK'
    <2>1. platform' \in Pairs /\ revoked' \in SUBSET Pairs
        BY <1>9, PlatformClientAssumption DEF Rotate, ClientTypeOK, Pairs
    <2>2. CASE req' = [req EXCEPT ![r].at = "save"] /\ Release(r)
               /\ UNCHANGED <<refreshLock, faults, lost>>
        BY <1>9, <2>1, <2>2 DEF Rotate, Release, ClientTypeOK, RequestRecords, Places
    <2>3. CASE Unanswered(r) /\ lost' = lost \cup {platform'}
        BY <1>9, <2>1, <2>3, UnansweredType DEF Rotate, ClientTypeOK
    <2> QED BY <1>9, <2>2, <2>3 DEF Rotate
<1>10. ASSUME NEW r \in Requests, Refuse(r) PROVE ClientTypeOK'
    BY <1>10, FailsType DEF Refuse, Release, ClientTypeOK
<1>11. ASSUME NEW r \in Requests, NotRotated(r) PROVE ClientTypeOK'
    <2>1. CASE Unanswered(r)
        BY <1>11, <2>1, UnansweredType DEF NotRotated, ClientTypeOK
    <2>2. CASE faults < MaxFaults /\ faults' = faults + 1 /\ Fails(r) /\ Release(r)
        <3>1. faults' \in 0..MaxFaults
            BY <2>2, PlatformClientAssumption DEF ClientTypeOK
        <3> QED BY <1>11, <2>2, <3>1, FailsType DEF NotRotated, Release, ClientTypeOK
    <2>3. CASE Release(r) /\ UNCHANGED faults /\ Fails(r)
        BY <1>11, <2>3, FailsType DEF NotRotated, Release, ClientTypeOK
    <2>4. CASE /\ Release(r) /\ UNCHANGED <<faults, refreshLock>>
               /\ req[r].slowed < MaxRetries
               /\ req' = [req EXCEPT ![r].slowed = @ + 1, ![r].repeat = FALSE]
        <3>1. req[r].slowed + 1 \in 0..MaxRetries
            BY <2>4, PlatformClientAssumption DEF ClientTypeOK, RequestRecords
        <3> QED BY <1>11, <2>4, <3>1
                DEF NotRotated, Release, ClientTypeOK, RequestRecords
    <2> QED BY <1>11, <2>1, <2>2, <2>3, <2>4 DEF NotRotated
<1>12. ASSUME NEW r \in Requests, Save(r) PROVE ClientTypeOK'
    <2>1. CASE /\ stored' = platform /\ tokens' = platform
               /\ req' = [req EXCEPT ![r].at = "send", ![r].seen = platform]
               /\ refreshLock' = NoOne
               /\ UNCHANGED <<faults, lost>>
        BY <1>12, <2>1 DEF Save, ClientTypeOK, RequestRecords, Places
    <2>2. CASE /\ faults < MaxFaults /\ faults' = faults + 1
               /\ stored' \in {stored, platform}
               /\ lost' = lost \cup {platform}
               /\ Fails(r)
               /\ UNCHANGED tokens
        <3>1. faults' \in 0..MaxFaults
            BY <2>2, PlatformClientAssumption DEF ClientTypeOK
        <3> QED BY <1>12, <2>2, <3>1, FailsType DEF Save, ClientTypeOK
    <2> QED BY <1>12, <2>1, <2>2 DEF Save
<1>13. CASE Expire BY <1>13 DEF Expire, ClientTypeOK
<1>14. CASE Revoke BY <1>14 DEF Revoke, ClientTypeOK
<1>15. CASE Crash
    BY <1>15, FreshType, PlatformClientAssumption DEF Crash, ClientTypeOK
<1>16. CASE UNCHANGED clientVars BY <1>16 DEF clientVars, ClientTypeOK
<1> QED BY <1>1, <1>2, <1>3, <1>4, <1>5, <1>6, <1>7, <1>8, <1>9, <1>10, <1>11,
           <1>12, <1>13, <1>14, <1>15, <1>16
        DEF ClientNext, CallStep, AllEnded
-----------------------------------------------------------------------------
(*                             The lock                                     *)

(* A step of a call moves no other call.                                    *)
LEMMA OthersStay ==
    ASSUME ClientTypeOK, NEW r \in Requests, CallStep(r),
           NEW q \in Requests, q # r
    PROVE  req'[q] = req[q]
BY DEF CallStep, ClientTypeOK, Begin, Resume, Lock, Lease, Accepted, Unauthorized,
       RateLimited, CallLost, Rotate, Refuse, NotRotated, Save, Goes, Fails,
       Unanswered

(* What a move, an end and an unanswered exchange leave of the call and the *)
(* lock.                                                                    *)
LEMMA EndedAt ==
    /\ [Fresh EXCEPT !.at = "done"].at = "done"
    /\ [Fresh EXCEPT !.at = "done"].forced = FALSE
    /\ [Fresh EXCEPT !.at = "failed"].at = "failed"
    /\ [Fresh EXCEPT !.at = "failed"].forced = FALSE
BY DEF Fresh

LEMMA GoesLeaves ==
    ASSUME ClientTypeOK, NEW r \in Requests, NEW place \in Places, Goes(r, place)
    PROVE  /\ req'[r].at = place /\ req'[r].seen = tokens
           /\ req'[r].forced = req[r].forced
BY DEF Goes, ClientTypeOK, RequestRecords

LEMMA FailsLeaves ==
    ASSUME ClientTypeOK, NEW r \in Requests, Fails(r)
    PROVE  /\ req'[r].at = "failed"
           /\ refreshLock' = IF refreshLock = r THEN NoOne ELSE refreshLock
BY EndedAt DEF Fails, ClientTypeOK

LEMMA UnansweredLeaves ==
    ASSUME ClientTypeOK, NEW r \in Requests, Unanswered(r)
    PROVE  \/ /\ req'[r].at = req[r].at /\ req'[r].forced = req[r].forced
              /\ req'[r].seen = req[r].seen /\ refreshLock' = refreshLock
           \/ /\ req'[r].at = "failed"
              /\ refreshLock' = IF refreshLock = r THEN NoOne ELSE refreshLock
<1>1. CASE req' = [req EXCEPT ![r].repeat = TRUE] /\ UNCHANGED refreshLock
    BY <1>1 DEF ClientTypeOK, RequestRecords
<1>2. CASE Fails(r) BY <1>2, FailsLeaves
<1> QED BY <1>1, <1>2 DEF Unanswered

(* The call's own step keeps the lock and its place in accord, and leaves a *)
(* lock that it does not hold alone.                                        *)
LEMMA OwnPlace ==
    ASSUME ClientTypeOK, Serial, NEW r \in Requests, CallStep(r)
    PROVE  /\ req'[r].at \in {"refresh", "save"} <=> refreshLock' = r
           /\ refreshLock \notin {r, NoOne} => refreshLock' = refreshLock
           /\ refreshLock' \in {refreshLock, r, NoOne}
<1>0. r # NoOne BY PlatformClientAssumption
<1> USE <1>0 DEF ClientTypeOK, Serial
<1>1. CASE Begin(r) BY <1>1 DEF Begin, Goes
<1>2. CASE Resume(r) BY <1>2 DEF Resume, Goes
<1>3. CASE Lock(r)
    <2>1. CASE Goes(r, "send") /\ UNCHANGED refreshLock
        BY <1>3, <2>1, GoesLeaves DEF Lock, Places
    <2>2. CASE Goes(r, "refresh") /\ refreshLock' = r
        BY <1>3, <2>2, GoesLeaves DEF Lock, Places
    <2> QED BY <1>3, <2>1, <2>2 DEF Lock
<1>4. CASE Lease(r) BY <1>4 DEF Lease
<1>5. CASE Accepted(r) BY <1>5, EndedAt DEF Accepted, Sending
<1>6. CASE Unauthorized(r)
    <2>1. CASE Fails(r) BY <1>6, <2>1, FailsLeaves DEF Unauthorized, Sending
    <2>2. CASE req' = [req EXCEPT ![r].at = "lock", ![r].forced = TRUE,
                                  ![r].repeat = FALSE] /\ UNCHANGED refreshLock
        <3>1. req'[r].at = "lock" /\ req'[r].seen = req[r].seen
            BY <2>2 DEF RequestRecords
        <3> QED BY <1>6, <2>2, <3>1 DEF Unauthorized, Sending
    <2> QED BY <1>6, <2>1, <2>2 DEF Unauthorized
<1>7. CASE RateLimited(r)
    <2>1. CASE Fails(r) BY <1>7, <2>1, FailsLeaves DEF RateLimited, Sending
    <2>2. CASE req' = [req EXCEPT ![r].at = "pause", ![r].seen = 0,
                                  ![r].repeat = FALSE, ![r].limited = @ + 1]
               /\ UNCHANGED refreshLock
        <3>1. req' = [req EXCEPT ![r] = [req[r] EXCEPT !.at = "pause",
                     !.seen = 0, !.repeat = FALSE, !.limited = @ + 1]]
            BY <2>2, Zenon
        <3>2. req'[r].at = "pause" BY <3>1, req[r] \in RequestRecords DEF RequestRecords
        <3> QED BY <1>7, <2>2, <3>2 DEF RateLimited, Sending
    <2> QED BY <1>7, <2>1, <2>2 DEF RateLimited
<1>8. CASE CallLost(r) BY <1>8, UnansweredLeaves DEF CallLost, Sending
<1>9. CASE Rotate(r)
    <2>1. CASE req' = [req EXCEPT ![r].at = "save"] /\ UNCHANGED refreshLock
        <3>1. req'[r].at = "save" /\ req'[r].forced = req[r].forced
            BY <2>1 DEF RequestRecords
        <3> QED BY <1>9, <2>1, <3>1 DEF Rotate, Refreshing
    <2>2. CASE Unanswered(r)
        BY <1>9, <2>2, UnansweredLeaves DEF Rotate, Refreshing
    <2> QED BY <1>9, <2>1, <2>2 DEF Rotate
<1>10. CASE Refuse(r) BY <1>10, FailsLeaves DEF Refuse, Refreshing
<1>11. CASE NotRotated(r)
    <2>1. CASE Unanswered(r)
        BY <1>11, <2>1, UnansweredLeaves DEF NotRotated, Refreshing
    <2>2. CASE Fails(r)
        BY <1>11, <2>2, FailsLeaves DEF NotRotated, Refreshing
    <2>3. CASE req' = [req EXCEPT ![r].slowed = @ + 1, ![r].repeat = FALSE]
               /\ UNCHANGED refreshLock
        <3>1. req'[r].at = req[r].at /\ req'[r].forced = req[r].forced
            BY <2>3 DEF RequestRecords
        <3> QED BY <1>11, <2>3, <3>1 DEF NotRotated, Refreshing
    <2> QED BY <1>11, <2>1, <2>2, <2>3 DEF NotRotated
<1>12. CASE Save(r)
    <2>1. CASE req' = [req EXCEPT ![r].at = "send", ![r].seen = platform]
               /\ refreshLock' = NoOne
        <3>1. req'[r].at = "send" BY <2>1 DEF RequestRecords
        <3> QED BY <1>12, <2>1, <3>1 DEF Save
    <2>2. CASE Fails(r)
        BY <1>12, <2>2, FailsLeaves DEF Save
    <2> QED BY <1>12, <2>1, <2>2 DEF Save
<1> QED BY <1>1, <1>2, <1>3, <1>4, <1>5, <1>6, <1>7, <1>8, <1>9, <1>10, <1>11,
           <1>12 DEF CallStep

LEMMA SerialStep ==
    ASSUME ClientTypeOK, Serial, [ClientNext]_clientVars
    PROVE  Serial'
<1>1. ASSUME NEW r \in Requests, CallStep(r) PROVE Serial'
    <2> SUFFICES ASSUME NEW q \in Requests
                 PROVE  req'[q].at \in {"refresh", "save"} <=> refreshLock' = q
        BY DEF Serial
    <2>1. CASE q = r
        BY <1>1, <2>1, OwnPlace
    <2>2. CASE q # r
        <3>1. req'[q] = req[q] BY <1>1, <2>2, OthersStay
        <3>2. refreshLock' = q <=> refreshLock = q
            BY <1>1, <2>2, OwnPlace, PlatformClientAssumption DEF ClientTypeOK
        <3> QED BY <3>1, <3>2 DEF Serial
    <2> QED BY <2>1, <2>2
<1>2. CASE Expire BY <1>2 DEF Expire, Serial
<1>3. CASE Revoke BY <1>3 DEF Revoke, Serial
<1>4. CASE Crash
    BY <1>4, PlatformClientAssumption DEF Crash, Serial, ClientTypeOK, Fresh
<1>5. CASE UNCHANGED clientVars BY <1>5 DEF clientVars, Serial
<1> QED BY <1>1, <1>2, <1>3, <1>4, <1>5 DEF ClientNext, AllEnded

-----------------------------------------------------------------------------
(*                       The cause of a refresh                             *)

(* A call that asks for the lock after a 401 has seen the pair refused, and *)
(* one that begins to refresh finds that pair still in memory.              *)
LEMMA OwnCause ==
    ASSUME ClientTypeOK, Serial, Caused, NEW r \in Requests, CallStep(r)
    PROVE  /\ req'[r].at = "start" => ~req'[r].forced
           /\ req'[r].at = "lock" /\ req'[r].forced => req'[r].seen \in revoked'
           /\ req'[r].at = "refresh" => tokens' \in expired' \cup revoked'
<1> USE DEF ClientTypeOK, Serial, Caused, RotatesForCause, world
<1>1. CASE Begin(r) BY <1>1 DEF Begin, Goes
<1>2. CASE Resume(r) BY <1>2 DEF Resume, Goes
<1>3. CASE Lock(r)
    <2>1. CASE Goes(r, "send")
        BY <1>3, <2>1, GoesLeaves DEF Lock, Places
    <2>2. CASE ~Superseded(r) /\ Goes(r, "refresh")
        BY <1>3, <2>2, GoesLeaves DEF Lock, Places, Superseded
    <2> QED BY <1>3, <2>1, <2>2 DEF Lock
<1>4. CASE Lease(r) BY <1>4 DEF Lease
<1>5. CASE Accepted(r) BY <1>5, EndedAt DEF Accepted
<1>6. CASE Unauthorized(r)
    <2>1. CASE Fails(r) BY <1>6, <2>1, FailsLeaves DEF Unauthorized, Sending
    <2>2. CASE req' = [req EXCEPT ![r].at = "lock", ![r].forced = TRUE,
                                  ![r].repeat = FALSE] /\ UNCHANGED refreshLock
        <3>1. req'[r].at = "lock" /\ req'[r].seen = req[r].seen
            BY <2>2 DEF RequestRecords
        <3> QED BY <1>6, <2>2, <3>1 DEF Unauthorized, Sending
    <2> QED BY <1>6, <2>1, <2>2 DEF Unauthorized
<1>7. CASE RateLimited(r)
    <2>1. CASE Fails(r) BY <1>7, <2>1, FailsLeaves DEF RateLimited, Sending
    <2>2. CASE req' = [req EXCEPT ![r].at = "pause", ![r].seen = 0,
                                  ![r].repeat = FALSE, ![r].limited = @ + 1]
               /\ UNCHANGED refreshLock
        <3>1. req' = [req EXCEPT ![r] = [req[r] EXCEPT !.at = "pause",
                     !.seen = 0, !.repeat = FALSE, !.limited = @ + 1]]
            BY <2>2, Zenon
        <3>2. req'[r].at = "pause" BY <3>1, req[r] \in RequestRecords DEF RequestRecords
        <3> QED BY <1>7, <2>2, <3>2 DEF RateLimited, Sending
    <2> QED BY <1>7, <2>1, <2>2 DEF RateLimited
<1>8. CASE CallLost(r) BY <1>8, UnansweredLeaves DEF CallLost, Sending
<1>9. CASE Rotate(r)
    <2>1. CASE req' = [req EXCEPT ![r].at = "save"] /\ UNCHANGED refreshLock
        <3>1. req'[r].at = "save" /\ req'[r].forced = req[r].forced
            BY <2>1 DEF RequestRecords
        <3> QED BY <1>9, <2>1, <3>1 DEF Rotate, Refreshing
    <2>2. CASE Unanswered(r)
        BY <1>9, <2>2, UnansweredLeaves DEF Rotate, Refreshing
    <2> QED BY <1>9, <2>1, <2>2 DEF Rotate
<1>10. CASE Refuse(r) BY <1>10, FailsLeaves DEF Refuse
<1>11. CASE NotRotated(r)
    <2>1. CASE Unanswered(r)
        BY <1>11, <2>1, UnansweredLeaves DEF NotRotated, Refreshing
    <2>2. CASE Fails(r)
        BY <1>11, <2>2, FailsLeaves DEF NotRotated, Refreshing
    <2>3. CASE req' = [req EXCEPT ![r].slowed = @ + 1, ![r].repeat = FALSE]
               /\ UNCHANGED refreshLock
        <3>1. req'[r].at = req[r].at /\ req'[r].forced = req[r].forced
            BY <2>3 DEF RequestRecords
        <3> QED BY <1>11, <2>3, <3>1 DEF NotRotated, Refreshing
    <2> QED BY <1>11, <2>1, <2>2, <2>3 DEF NotRotated
<1>12. CASE Save(r)
    <2>1. CASE req' = [req EXCEPT ![r].at = "send", ![r].seen = platform]
               /\ refreshLock' = NoOne
        <3>1. req'[r].at = "send" BY <2>1 DEF RequestRecords
        <3> QED BY <1>12, <2>1, <3>1 DEF Save
    <2>2. CASE Fails(r)
        BY <1>12, <2>2, FailsLeaves DEF Save
    <2> QED BY <1>12, <2>1, <2>2 DEF Save
<1> QED BY <1>1, <1>2, <1>3, <1>4, <1>5, <1>6, <1>7, <1>8, <1>9, <1>10, <1>11,
           <1>12 DEF CallStep

LEMMA CausedStep ==
    ASSUME ClientTypeOK, Serial, Caused, [ClientNext]_clientVars
    PROVE  Caused'
<1>1. ASSUME NEW r \in Requests, CallStep(r) PROVE Caused'
    <2>1. revoked \subseteq revoked' /\ expired' = expired
        BY <1>1 DEF CallStep, Begin, Resume, Lock, Lease, Accepted, Unauthorized,
                    RateLimited, CallLost, Rotate, Refuse, NotRotated, Save, world
    <2>2. tokens' = tokens \/ req[r].at = "save"
        BY <1>1 DEF CallStep, Begin, Resume, Lock, Lease, Accepted, Unauthorized,
                    RateLimited, CallLost, Rotate, Refuse, NotRotated, Save
    <2>3. ASSUME NEW q \in Requests
          PROVE  /\ req'[q].at = "start" => ~req'[q].forced
                 /\ req'[q].at = "lock" /\ req'[q].forced => req'[q].seen \in revoked'
                 /\ req'[q].at = "refresh" => tokens' \in expired' \cup revoked'
        <3>1. CASE q = r BY <1>1, <3>1, OwnCause
        <3>2. CASE q # r
            <4>1. req'[q] = req[q] BY <1>1, <3>2, OthersStay
            <4>2. req[q].at = "refresh" => tokens' = tokens
                BY <2>2, <3>2 DEF Serial
            <4> QED BY <2>1, <4>1, <4>2 DEF Caused, RotatesForCause
        <3> QED BY <3>1, <3>2
    <2> QED BY <2>3 DEF Caused, RotatesForCause
<1>2. CASE Expire BY <1>2 DEF Expire, Caused, RotatesForCause
<1>3. CASE Revoke BY <1>3 DEF Revoke, Caused, RotatesForCause
<1>4. CASE Crash
    <2>1. ASSUME NEW q \in Requests
          PROVE  \/ req'[q] = Fresh
                 \/ req'[q] = req[q] /\ req[q].at \in {"done", "failed"}
        <3>1. req'[q] = IF req[q].at \in {"done", "failed"} THEN req[q] ELSE Fresh
            BY <1>4 DEF Crash
        <3> QED BY <3>1
    <2>2. Fresh.at = "start" /\ ~Fresh.forced BY DEF Fresh
    <2> QED BY <2>1, <2>2 DEF Caused, RotatesForCause
<1>5. CASE UNCHANGED clientVars BY <1>5 DEF clientVars, world, Caused, RotatesForCause
<1> QED BY <1>1, <1>2, <1>3, <1>4, <1>5 DEF ClientNext, AllEnded

-----------------------------------------------------------------------------
(*                          The newest pair                                 *)

LEMMA KeptStep ==
    ASSUME ClientTypeOK, Serial, Kept, [ClientNext]_clientVars
    PROVE  Kept'
<1>1. ASSUME NEW r \in Requests, Rotate(r) PROVE Kept'
    <2>1. CASE req' = [req EXCEPT ![r].at = "save"]
        <3>1. req'[r].at = "save" BY <2>1 DEF ClientTypeOK, RequestRecords
        <3> QED BY <3>1 DEF Kept, Saving
    <2>2. CASE lost' = lost \cup {platform'}
        BY <2>2 DEF Kept
    <2> QED BY <1>1, <2>1, <2>2 DEF Rotate
<1>2. ASSUME NEW r \in Requests, Save(r) PROVE Kept'
    BY <1>2 DEF Save, Kept, world
<1>3. ASSUME NEW r \in Requests, CallStep(r), ~Rotate(r), ~Save(r) PROVE Kept'
    <2>1. UNCHANGED <<platform, stored, tokens, lost>>
        BY <1>3 DEF CallStep, Begin, Resume, Lock, Lease, Accepted, Unauthorized,
                    RateLimited, CallLost, Refuse, NotRotated, world
    <2>2. req[r].at # "save"
        BY <1>3 DEF CallStep, Begin, Resume, Lock, Lease, Accepted, Unauthorized,
                    RateLimited, CallLost, Refuse, NotRotated, Sending, Refreshing
    <2>3. Saving => Saving'
        BY <1>3, <2>2, OthersStay DEF Saving
    <2> QED BY <2>1, <2>3 DEF Kept
<1>4. CASE Expire BY <1>4 DEF Expire, Kept, Saving
<1>5. CASE Revoke BY <1>5 DEF Revoke, Kept, Saving
<1>6. CASE Crash BY <1>6 DEF Crash, Kept, Saving
<1>7. CASE UNCHANGED clientVars BY <1>7 DEF clientVars, world, Kept, Saving
<1> QED BY <1>1, <1>2, <1>3, <1>4, <1>5, <1>6, <1>7 DEF ClientNext, AllEnded

-----------------------------------------------------------------------------
(*                            The theorems                                  *)

(* The invariant of the client: its lock, the cause of every refresh, and   *)
(* where the newest pair is, whatever the calls, the platform, the clock    *)
(* and restarts do.                                                         *)
THEOREM ClientInvariant == ClientSpec => []ClientInv
<1>1. ClientInit => ClientInv BY InitClientInv
<1>2. ClientInv /\ [ClientNext]_clientVars => ClientInv'
    BY ClientTypeStep, SerialStep, CausedStep, KeptStep DEF ClientInv
<1> QED BY <1>1, <1>2, PTL DEF ClientSpec

(* However many calls fail with a 401 together or find the pair expired,    *)
(* none of them refreshes the pair that another one has just brought.       *)
THEOREM EveryRefreshHasACause == ClientSpec => []RotatesForCause
<1>1. ClientInv => RotatesForCause BY DEF ClientInv, Caused
<1> QED BY <1>1, ClientInvariant, PTL

(* A refresh token that the platform has exchanged already is only sent     *)
(* again when the pair it was exchanged for was lost.                       *)
THEOREM RefreshTokensAreSpentOnce == ClientSpec => []SpentOnlyIfLost
<1>1. ClientInv => SpentOnlyIfLost
    BY PlatformClientAssumption DEF ClientInv, Serial, Kept, Saving, SpentOnlyIfLost
<1> QED BY <1>1, ClientInvariant, PTL
-----------------------------------------------------------------------------
(*                             The registration                            *)

(* Whoever registers has or awaits the lock, and only its holder has got   *)
(* beyond asking.                                                          *)
Locked ==
    /\ lock = "free" => \A r \in Registrants : step[r] = "idle"
    /\ lock # "free" => step[lock] # "idle"
    /\ \A r \in Registrants : step[r] \in {"addressed", "subscribed"} => lock = r
    /\ supervisor = "registering" <=> step["supervisor"] # "idle"

(* The supervisor registers its present address.  The monitor may be late  *)
(* with an old one, but then the supervisor's registration follows it.     *)
Addressed ==
    /\ step["supervisor"] # "idle" => target["supervisor"] = "live"
    /\ lock = "supervisor" /\ step["monitor"] # "idle" => target["monitor"] = "live"
    /\ Ready /\ step["monitor"] # "idle" => target["monitor"] = "live"
    /\ \A r \in Registrants :
          step[r] \in {"addressed", "subscribed"} => hook = target[r]
    /\ Ready => hook = "live"

Informed ==
    /\ \A r \in Registrants : secret = r <=> step[r] = "subscribed"
    /\ certain /\ (\A r \in Registrants : step[r] # "subscribed") => secret = "store"

RegistrationInv == TunnelTypeOK /\ Locked /\ Addressed /\ Informed

LEMMA InitRegistrationInv == TunnelInit => RegistrationInv
BY DEF TunnelInit, RegistrationInv, TunnelTypeOK, Locked, Addressed, Informed, Registrants,
       Ready

LEMMA RegistrationTypeStep == TunnelTypeOK /\ [TunnelNext]_tunnelVars => TunnelTypeOK'
<1> SUFFICES ASSUME TunnelTypeOK, [TunnelNext]_tunnelVars PROVE TunnelTypeOK'
    OBVIOUS
<1> USE DEF TunnelTypeOK, Registrants, Waiting
<1>1. ASSUME NEW r \in Registrants, Address(r) \/ Subscribe(r) PROVE TunnelTypeOK'
    BY <1>1 DEF Address, Subscribe
<1>2. CASE Spawn BY <1>2 DEF Spawn
<1>3. CASE Discover BY <1>3 DEF Discover, Ask
<1>4. CASE GiveUpDiscovery BY <1>4 DEF GiveUpDiscovery, registrationVars
<1>5. CASE Registered BY <1>5 DEF Registered, Publish, Leave
<1>6. CASE RegistrationFailed BY <1>6 DEF RegistrationFailed, Fail, Leave
<1>7. CASE NoticeExit \/ Clean \/ ProcessExits \/ Terminate
    BY <1>7 DEF NoticeExit, Clean, ProcessExits, Terminate, registrationVars
<1>8. CASE Reregister BY <1>8 DEF Reregister, Ask
<1>9. CASE Reregistered BY <1>9 DEF Reregistered, Publish, Leave
<1>10. CASE ReregistrationFailed BY <1>10 DEF ReregistrationFailed, Fail, Leave
<1>11. CASE RestartTunnel BY <1>11 DEF RestartTunnel
<1>12. CASE UNCHANGED tunnelVars BY <1>12 DEF tunnelVars
<1> QED BY <1>1, <1>2, <1>3, <1>4, <1>5, <1>6, <1>7, <1>8, <1>9, <1>10, <1>11,
           <1>12 DEF TunnelNext

LEMMA RegistrationInvStep == RegistrationInv /\ [TunnelNext]_tunnelVars => RegistrationInv'
<1> SUFFICES ASSUME RegistrationInv, [TunnelNext]_tunnelVars PROVE RegistrationInv'
    OBVIOUS
<1>0. TunnelTypeOK' BY RegistrationTypeStep DEF RegistrationInv
<1> USE DEF RegistrationInv, TunnelTypeOK, Locked, Addressed, Informed, Registrants, Ready
<1>1. ASSUME NEW r \in Registrants, Address(r) PROVE RegistrationInv'
    BY <1>0, <1>1 DEF Address, Holds
<1>2. ASSUME NEW r \in Registrants, Subscribe(r) PROVE RegistrationInv'
    BY <1>0, <1>2 DEF Subscribe, Holds
<1>3. CASE Spawn BY <1>0, <1>3 DEF Spawn
<1>4. CASE Discover BY <1>0, <1>4 DEF Discover, Ask
<1>5. CASE GiveUpDiscovery BY <1>0, <1>5 DEF GiveUpDiscovery, registrationVars
<1>6. CASE Registered BY <1>0, <1>6 DEF Registered, Publish, Leave, Holds, Waiting
<1>7. CASE RegistrationFailed
    BY <1>0, <1>7 DEF RegistrationFailed, Fail, Leave, Holds, Waiting
<1>8. CASE NoticeExit \/ Clean \/ ProcessExits \/ Terminate
    BY <1>0, <1>8 DEF NoticeExit, Clean, ProcessExits, Terminate, registrationVars
<1>9. CASE Reregister BY <1>0, <1>9 DEF Reregister, Ask, HasUrl
<1>10. CASE Reregistered BY <1>0, <1>10 DEF Reregistered, Publish, Leave, Holds, Waiting
<1>11. CASE ReregistrationFailed
    BY <1>0, <1>11 DEF ReregistrationFailed, Fail, Leave, Holds, Waiting
<1>12. CASE RestartTunnel BY <1>0, <1>12 DEF RestartTunnel
<1>13. CASE UNCHANGED tunnelVars BY <1>0, <1>13 DEF tunnelVars
<1> QED BY <1>1, <1>2, <1>3, <1>4, <1>5, <1>6, <1>7, <1>8, <1>9, <1>10, <1>11,
           <1>12, <1>13 DEF TunnelNext

(* The invariant of the tunnel, whatever its two tasks and its child do.   *)
THEOREM TunnelInvariant == TunnelSpec => []RegistrationInv
<1>1. TunnelInit => RegistrationInv BY InitRegistrationInv
<1>2. RegistrationInv /\ [TunnelNext]_tunnelVars => RegistrationInv' BY RegistrationInvStep
<1> QED BY <1>1, <1>2, PTL DEF TunnelSpec

(* A ready tunnel is registered, and the listener knows the secret once    *)
(* the registrations are over.                                             *)
THEOREM RegistrationAgrees == TunnelSpec => []Agreement
<1>1. RegistrationInv => Agreement
    BY DEF RegistrationInv, Addressed, Informed, Agreement, Registrants
<1> QED BY <1>1, TunnelInvariant, PTL
-----------------------------------------------------------------------------
(*                      The tunnel and its monitor                          *)

(* Whatever the monitor does to the tunnel, it does through what the        *)
(* supervisor offers: every step is one of the tunnel, or none.             *)
LEMMA MonitorStepsTunnel == [Next]_vars => [TunnelNext]_tunnelVars
<1> SUFFICES ASSUME [Next]_vars PROVE [TunnelNext]_tunnelVars
    OBVIOUS
<1>1. CASE Observe \/ PlatformChanges \/ SilenceIsOverdue
    BY <1>1 DEF Observe, PlatformChanges, SilenceIsOverdue
<1>2. CASE Repair
    BY <1>2 DEF Repair, ReregisterRung, RecycleRung, TunnelNext
<1>3. CASE LookAtRegistration \/ LookAtSilence \/ Settle \/ ProbePosted
           \/ ProbeInconclusive \/ Confirmed \/ GiveUp \/ RecycleEnds \/ ProbeAgain
    BY <1>3 DEF LookAtRegistration, LookAtSilence, Settle, ProbePosted,
                ProbeInconclusive, Confirmed, GiveUp, RecycleEnds, ProbeAgain
<1>4. CASE SupervisorRegisters \/ MonitorRegisters
    BY <1>4 DEF SupervisorRegisters, MonitorRegisters, TunnelNext
<1>5. CASE \E r \in Registrants : RegistrationTakes(r)
    BY <1>5 DEF RegistrationTakes, TunnelNext
<1>6. CASE SupervisorStep BY <1>6 DEF SupervisorStep, TunnelNext
<1>7. CASE Restart BY <1>7 DEF Restart, TunnelNext
<1>8. CASE UNCHANGED vars BY <1>8 DEF vars
<1> QED BY <1>1, <1>2, <1>3, <1>4, <1>5, <1>6, <1>7, <1>8 DEF Next, MonitorStep

(* The composition implements the tunnel that was proved correct alone.     *)
THEOREM MonitorImplementsTunnel == Spec => TunnelSpec
<1>1. Init => TunnelInit BY DEF Init
<1> QED BY <1>1, MonitorStepsTunnel, PTL DEF Spec, TunnelSpec

(* So no repair of the monitor, at whatever moment of a registration, makes *)
(* a tunnel ready with another address or secret than the platform's.       *)
THEOREM MonitoredTunnelAgrees == Spec => []Agreement
BY MonitorImplementsTunnel, RegistrationAgrees, PTL

(* A registration the monitor has not looked at yet, and will before the    *)
(* end of its cycle, was not probed.                                        *)
Probed == registered /\ monitor \in {"looking", "settling"} => unproven

LEMMA ProbedStep == Probed /\ [Next]_vars => Probed'
<1> SUFFICES ASSUME Probed, [Next]_vars PROVE Probed'
    OBVIOUS
<1> USE DEF Probed
<1>1. CASE Observe \/ PlatformChanges \/ SilenceIsOverdue
    BY <1>1 DEF Observe, PlatformChanges, SilenceIsOverdue, monitorVars
<1>2. CASE LookAtRegistration BY <1>2 DEF LookAtRegistration
<1>3. CASE LookAtSilence \/ ProbeAgain BY <1>3 DEF LookAtSilence, ProbeAgain, BeginProbe
<1>4. CASE Settle BY <1>4 DEF Settle, BeginProbe
<1>5. CASE ProbePosted BY <1>5 DEF ProbePosted
<1>6. CASE ProbeInconclusive \/ Confirmed \/ GiveUp
    BY <1>6 DEF ProbeInconclusive, Confirmed, GiveUp, FinishCycle
<1>7. CASE Repair
    BY <1>7 DEF Repair, ReregisterRung, RecycleRung
<1>8. CASE RecycleEnds BY <1>8 DEF RecycleEnds
<1>9. CASE SupervisorRegisters BY <1>9 DEF SupervisorRegisters, NotifyRegistered
<1>10. CASE MonitorRegisters BY <1>10 DEF MonitorRegisters
<1>11. CASE \E r \in Registrants : RegistrationTakes(r)
    BY <1>11 DEF RegistrationTakes, monitorVars
<1>12. CASE SupervisorStep BY <1>12 DEF SupervisorStep, monitorVars
<1>13. CASE Restart BY <1>13 DEF Restart
<1>14. CASE UNCHANGED vars BY <1>14 DEF vars, monitorVars
<1> QED BY <1>1, <1>2, <1>3, <1>4, <1>5, <1>6, <1>7, <1>8, <1>9, <1>10, <1>11, <1>12,
           <1>13, <1>14 DEF Next, MonitorStep

(* The flag that a repair of the monitor raises does not start a second     *)
(* cycle for a registration that a probe of the first has judged.           *)
THEOREM NoRegistrationJudgedTwice == Spec => []NoSecondVerdict
<1>1. Init => Probed BY DEF Init, MonitorInit, Probed
<1>2. Probed => NoSecondVerdict BY DEF Probed, NoSecondVerdict
<1> QED BY <1>1, <1>2, ProbedStep, PTL DEF Spec
=============================================================================
