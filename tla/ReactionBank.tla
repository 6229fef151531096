---------------------------- MODULE ReactionBank ----------------------------
(***************************************************************************)
(* The bank of reflex lines: what the persona commands of the worker, the  *)
(* restarts and the ReactionBankGenerator do to the refresh jobs and to    *)
(* the table reaction_bank (events.py, db.py, reaction_generation.py).     *)
(*                                                                         *)
(* A bank is kept under the hash of the composed persona and of the recipe *)
(* of the prompts; a build with other prompts has another recipe.  A job   *)
(* remembers its hash and which keys it has done, so that an interrupted   *)
(* one goes on where it stopped.  The queue around the jobs is EventQueue; *)
(* here the worker's messages are only the persona commands.  Their        *)
(* webhooks come in any order; the worker takes the one of the earliest    *)
(* date that is pending, so a late one overtakes a command that is to be   *)
(* tried again.  SQLite statements succeed.                                *)
(***************************************************************************)
EXTENDS Naturals, Sequences

CONSTANTS
    Personas,        (* what the persona can be                             *)
    Default,         (* the persona of the configuration                    *)
    Commands,        (* Seq(Personas), what the user asks for, by date      *)
    Keys,            (* REACTION_EVENT_KEYS                                 *)
    MaxAttempts,     (* worker_max_attempts                                 *)
    MaxRetries,      (* bound: jobs handed back after a failed generation   *)
    MaxRestarts,     (* bound: crashes and shutdowns                        *)
    MaxRecipe        (* bound: builds with other prompts                    *)

ASSUME ReactionBankAssumption ==
    /\ Default \in Personas
    /\ Commands \in Seq(Personas)
    /\ MaxAttempts \in Nat \ {0}
    /\ MaxRetries \in Nat /\ MaxRestarts \in Nat /\ MaxRecipe \in Nat

VARIABLES
    persona,     (* the stored persona, or Default                          *)
    recipe,      (* _generation_recipe_fingerprint of the running build     *)
    bank,        (* the <<hash, key>> that have phrases                     *)
    jobs,        (* Seq(Jobs), the refresh rows in the order of insertion   *)
    up,          (* "down", "starting" (before the loops run) or "running"  *)
    commands,    (* their rows: "absent", "pending" until over, "settled"   *)
    tries,       (* their attempts                                          *)
    turn,        (* the command that was attempted last in this run, or 0   *)
    stage,       (* how far its attempt has come, "waiting" after it        *)
    overtaken,   (* history: the pending commands whose refresh was in the  *)
                 (* table when another command was attempted                *)
    generator,   (* what the generator holds in memory                      *)
    retries,     (* jobs handed back so far                                 *)
    restarts     (* crashes and shutdowns so far                            *)

worker == <<commands, tries, turn, stage, overtaken>>
bounds == <<retries, restarts>>
bankVars == <<persona, recipe, bank, jobs, up, worker, generator, bounds>>

Hash == <<persona, recipe>>
Active == {"pending", "processing"}
Starts == 0..MaxRestarts
Dates == 1..Len(Commands)
(* internal:reaction-bank:{trigger_id}: a command, or a start of the bridge *)
Triggers == ({"command"} \X Dates) \cup ({"startup"} \X Starts)
Jobs == [trigger: Triggers, hash: Personas \X (0..MaxRecipe), done: SUBSET Keys,
         status: Active \cup {"completed", "superseded"}, delayed: BOOLEAN]

(* at: where the generator stands; job: the row it claimed; done: the keys  *)
(* it believes done; key: the one it is at.                                 *)
Resting == [at |-> "off", job |-> 0, done |-> {}, key |-> "none"]

BankInit ==
    /\ persona = Default /\ recipe = 0
    /\ bank = {} /\ jobs = <<>>
    /\ up = "down"
    /\ commands = [c \in Dates |-> "absent"] /\ tries = [c \in Dates |-> 0]
    /\ turn = 0 /\ stage = "waiting" /\ overtaken = {}
    /\ generator = Resting
    /\ retries = 0 /\ restarts = 0
-----------------------------------------------------------------------------
(*                        Asking for a refresh                              *)

IsActive(i) == jobs[i].status \in Active

MutantSameWanted(i) == IsActive(i)
SameWanted(i) == IsActive(i) /\ jobs[i].hash = Hash

(* One transaction: nothing if the hash is being worked on or the trigger   *)
(* is known; otherwise a new row, and every other active one is superseded. *)
AskRefresh(trigger) ==
    jobs' = IF \E i \in DOMAIN jobs : SameWanted(i) \/ jobs[i].trigger = trigger
            THEN jobs
            ELSE Append([i \in DOMAIN jobs |->
                           IF IsActive(i) THEN [jobs[i] EXCEPT !.status = "superseded"]
                                          ELSE jobs[i]],
                        [trigger |-> trigger, hash |-> Hash, done |-> {},
                         status |-> "pending", delayed |-> FALSE])

-----------------------------------------------------------------------------
(*              The persona commands (_process_persona_command)             *)

(* The webhook of a command is accepted, late or in time.                  *)
Arrive(c) ==
    /\ up = "running"
    /\ commands[c] = "absent"
    /\ commands' = [commands EXCEPT ![c] = "pending"]
    /\ UNCHANGED <<persona, recipe, bank, jobs, up, tries, turn, stage, overtaken,
                   generator, bounds>>

Asked(trigger) == \E i \in DOMAIN jobs : jobs[i].trigger = trigger

(* An attempt of the pending command of the earliest date begins: whatever *)
(* came of earlier attempts and of other commands in between, the persona  *)
(* is set, or cleared to the configured one.                               *)
SetPersona(c) ==
    /\ up = "running" /\ stage = "waiting"
    /\ commands[c] = "pending"
    /\ \A d \in Dates : commands[d] = "pending" => c <= d
    /\ persona' = Commands[c]
    /\ turn' = c /\ stage' = "set"
    /\ tries' = [tries EXCEPT ![c] = @ + 1]
    /\ overtaken' = overtaken \cup {d \in Dates \ {c} : /\ commands[d] = "pending"
                                                         /\ Asked(<<"command", d>>)}
    /\ UNCHANGED <<recipe, bank, jobs, up, commands, generator, bounds>>

CommandAsks ==
    /\ stage = "set"
    /\ AskRefresh(<<"command", turn>>)
    /\ stage' = "asked"
    /\ UNCHANGED <<persona, recipe, bank, up, commands, tries, turn, overtaken,
                   generator, bounds>>

(* The confirmation is delivered, or given up; or it fails with an attempt  *)
(* left, and the command is pending again.                                  *)
Reply ==
    /\ stage = "asked"
    /\ stage' = "waiting"
    /\ \/ commands' = [commands EXCEPT ![turn] = "settled"]
       \/ tries[turn] < MaxAttempts /\ UNCHANGED commands
    /\ UNCHANGED <<persona, recipe, bank, jobs, up, tries, turn, overtaken, generator,
                   bounds>>
-----------------------------------------------------------------------------
(*                            The generator                                 *)

Write(i, change) == jobs' = [jobs EXCEPT ![i] = change]

(* run() first takes back the job that an earlier process left.             *)
Recover ==
    /\ up = "running" /\ generator.at = "off"
    /\ jobs' = [i \in DOMAIN jobs |->
                  IF jobs[i].status = "processing"
                  THEN [jobs[i] EXCEPT !.status = "pending", !.delayed = FALSE]
                  ELSE jobs[i]]
    /\ generator' = [Resting EXCEPT !.at = "idle"]
    /\ UNCHANGED <<persona, recipe, bank, up, worker, bounds>>

DelayElapses(i) ==
    /\ i \in DOMAIN jobs /\ jobs[i].delayed
    /\ Write(i, [jobs[i] EXCEPT !.delayed = FALSE])
    /\ UNCHANGED <<persona, recipe, bank, up, worker, generator, bounds>>

Claim(i) ==
    /\ generator.at = "idle"
    /\ i \in DOMAIN jobs /\ jobs[i].status = "pending" /\ ~jobs[i].delayed
    /\ Write(i, [jobs[i] EXCEPT !.status = "processing"])
    /\ generator' = [at |-> "keys", job |-> i, done |-> jobs[i].done, key |-> "none"]
    /\ UNCHANGED <<persona, recipe, bank, up, worker, bounds>>

(* The next key is generated with the instructions of the job, and parsed.  *)
Generate(k) ==
    /\ generator.at = "keys"
    /\ k \in Keys \ generator.done
    /\ generator' = [generator EXCEPT !.at = "publish", !.key = k]
    /\ UNCHANGED <<persona, recipe, bank, jobs, up, worker, bounds>>

Idle == generator' = [Resting EXCEPT !.at = "idle"]

(* A foreground call displaced it, it failed, or its output was no bank:    *)
(* the row goes back if it is still the generator's.                        *)
HandBack ==
    /\ generator.at = "keys"
    /\ Keys \ generator.done # {}
    /\ retries < MaxRetries /\ retries' = retries + 1
    /\ LET i == generator.job IN
           jobs' = IF jobs[i].status = "processing"
                   THEN [jobs EXCEPT ![i].status = "pending", ![i].delayed = TRUE]
                   ELSE jobs
    /\ Idle
    /\ UNCHANGED <<persona, recipe, bank, up, worker, restarts>>

(* Progress first, the phrases in a transaction of their own.               *)
MutantPublish ==
    LET i == generator.job IN
    /\ generator.at \in {"publish", "phrases"}
    /\ IF jobs[i].status = "processing" /\ generator.at = "publish"
       THEN /\ Write(i, [jobs[i] EXCEPT !.done = @ \cup {generator.key}])
            /\ generator' = [generator EXCEPT !.at = "phrases"]
            /\ UNCHANGED bank
       ELSE IF jobs[i].status = "processing"
       THEN /\ bank' = bank \cup {<<jobs[i].hash, generator.key>>}
            /\ generator' = [generator EXCEPT !.at = "keys", !.key = "none",
                                              !.done = @ \cup {generator.key}]
            /\ UNCHANGED jobs
       ELSE Idle /\ UNCHANGED <<bank, jobs>>
    /\ UNCHANGED <<persona, recipe, up, worker, bounds>>

MutantPublishBlindly ==
    LET i == generator.job IN
    /\ generator.at = "publish"
    /\ Write(i, [jobs[i] EXCEPT !.done = @ \cup {generator.key}])
    /\ bank' = bank \cup {<<jobs[i].hash, generator.key>>}
    /\ generator' = [generator EXCEPT !.at = "keys", !.key = "none",
                                      !.done = @ \cup {generator.key}]
    /\ UNCHANGED <<persona, recipe, up, worker, bounds>>

(* One transaction: phrases and progress, unless the job was superseded; a  *)
(* key that is done already is left as it is.                               *)
Publish ==
    LET i == generator.job IN
    /\ generator.at = "publish"
    /\ IF jobs[i].status = "processing"
       THEN /\ bank' = bank \cup {<<jobs[i].hash, generator.key>>}
            /\ Write(i, [jobs[i] EXCEPT !.done = @ \cup {generator.key}])
            /\ generator' = [generator EXCEPT !.at = "keys", !.key = "none",
                                              !.done = @ \cup {generator.key}]
       ELSE Idle /\ UNCHANGED <<bank, jobs>>
    /\ UNCHANGED <<persona, recipe, up, worker, bounds>>

CompleteJob ==
    LET i == generator.job IN
    /\ generator.at = "keys"
    /\ generator.done = Keys
    /\ jobs' = IF jobs[i].status = "processing"
               THEN [jobs EXCEPT ![i].status = "completed"] ELSE jobs
    /\ Idle
    /\ UNCHANGED <<persona, recipe, bank, up, worker, bounds>>
-----------------------------------------------------------------------------
(*                     Starting, stopping, crashing                         *)

(* A start asks for the bank of the persona it finds, before any loop runs. *)
(* The build may be another one.                                            *)
Start ==
    /\ up = "down"
    /\ up' = "starting"
    /\ recipe' \in {recipe, recipe + 1} \cap 0..MaxRecipe
    /\ UNCHANGED <<persona, bank, jobs, worker, generator, bounds>>

StartupAsks ==
    /\ up = "starting"
    /\ AskRefresh(<<"startup", restarts>>)
    /\ up' = "running"
    /\ UNCHANGED <<persona, recipe, bank, worker, generator, bounds>>

Halt ==
    /\ up # "down" /\ restarts < MaxRestarts
    /\ up' = "down" /\ restarts' = restarts + 1
    /\ turn' = 0 /\ stage' = "waiting"
    /\ generator' = Resting
    /\ UNCHANGED <<persona, recipe, bank, commands, tries, overtaken, retries>>

(* A command that was under way is pending again.                           *)
Crash == Halt /\ UNCHANGED jobs

(* A shutdown hands the claimed job back.                                   *)
Shutdown ==
    /\ Halt
    /\ generator.at \in {"keys", "publish"}
    /\ LET i == generator.job IN
           /\ jobs[i].status = "processing"
           /\ Write(i, [jobs[i] EXCEPT !.status = "pending", !.delayed = FALSE])

BankNext ==
    \/ \E c \in Dates : Arrive(c) \/ SetPersona(c)
    \/ CommandAsks \/ Reply
    \/ Recover
    \/ \E i \in DOMAIN jobs : DelayElapses(i) \/ Claim(i)
    \/ \E k \in Keys : Generate(k)
    \/ HandBack \/ Publish \/ CompleteJob
    \/ Start \/ StartupAsks \/ Crash \/ Shutdown

BankSpec == BankInit /\ [][BankNext]_bankVars
-----------------------------------------------------------------------------
(*                              Properties                                  *)

Complete(hash) == \A k \in Keys : <<hash, k>> \in bank

(* Once the bridge is up, and except between the two writes of a command,  *)
(* the hash in force has its whole bank or an active job for it, whatever   *)
(* supersessions, retries, crashes and new builds come in between: but for  *)
(* one way to settle for a bank that nobody completes.  A command that had  *)
(* asked for its refresh was overtaken by one of an earlier date that came  *)
(* late, and then tried again: its persona is back, but its refresh is in   *)
(* the table already and no new one is inserted.  It lasts until the next   *)
(* command or start.                                                        *)
PersonaCovered ==
    up = "running" /\ stage # "set" =>
        \/ Complete(Hash)
        \/ \E i \in DOMAIN jobs : IsActive(i) /\ jobs[i].hash = Hash
        \/ turn \in overtaken

(* A job that goes on after a crash or a hand-back skips only keys whose    *)
(* phrases are stored, and one that completed left a whole bank behind.     *)
ResumesWhereItStopped ==
    \A i \in DOMAIN jobs :
        /\ \A k \in jobs[i].done : <<jobs[i].hash, k>> \in bank
        /\ jobs[i].status = "completed" => Complete(jobs[i].hash)

(* A generator whose job was superseded while the model answered publishes  *)
(* nothing more: phrases appear only for the one hash being worked on.      *)
SupersededIsSilent ==
    [][\A entry \in bank' \ bank :
           \E i \in DOMAIN jobs : IsActive(i) /\ jobs[i].hash = entry[1]]_bankVars
=============================================================================
