---------------------------- MODULE ControlPlane ---------------------------
(* register_control.py and the unit it controls. Every HTTP request runs on  *)
(* a thread of its own; start and stop hold _lock while they talk to         *)
(* systemd, a change of the configuration holds it only while it writes the  *)
(* file. systemd (external) runs one job at a time on the unit, the last one *)
(* asked for, and restarts a worker that ended.                              *)
EXTENDS Naturals, FiniteSets

CONSTANTS Clients,       \* request threads
          Keys,          \* values of a secret setting
          ShortKeys,     \* those of up to eight characters
          MaxRequests    \* model bound on requests

ASSUME ClientsAssumption == "nobody" \notin Clients
ASSUME RequestsAssumption == MaxRequests \in Nat /\ Keys # {} /\ ShortKeys \subseteq Keys

VARIABLES place,     \* where each request is
          wish,      \* the mode a start asks for
          owner,     \* of _lock
          dropin,    \* mode of ExecStart in override.conf
          loaded,    \* mode systemd knows
          unit,      \* "inactive", "active", "stopping" or "auto" (RestartSec)
          job,       \* the job systemd has on the unit
          worker,    \* mode and configuration of the worker's last start
          secret,    \* the secret in config.json: a key, a mask, or empty
          version,   \* of config.json
          seen,      \* the masked secret a client has on its form, and when
          saved,     \* version a client's last change got
          requests,
          last,      \* history: the last order given, "start" or "stop"
          revived,   \* history: a change of settings restarted a stopped unit
          wanted,    \* history: the secret a client typed last
          crossed,   \* history: since then a form older than the file was sent
          unread     \* history: since then a change could not read the file

vars == <<place, wish, owner, dropin, loaded, unit, job, worker, secret, version,
          seen, saved, requests, last, revived, wanted, crossed, unread>>

systemd == <<dropin, loaded, unit, job, worker>>
settings == <<secret, version, seen, saved>>
typing == <<wanted, crossed, unread>>
history == <<last, revived, typing>>

Modes == {"loop", "count"}
Masked == {[mask |-> k] : k \in Keys}
Plain == {[key |-> k] : k \in Keys}
Nobody == "nobody"

Empty == [empty |-> TRUE]
Stars == [stars |-> TRUE]
Absent == [none |-> TRUE]

(* The first and last characters of a secret show, unless it is short.       *)
Mask(s) == IF s \notin Plain THEN s
           ELSE IF s.key \in ShortKeys THEN Stars ELSE [mask |-> s.key]

FlagsOK == revived \in BOOLEAN /\ crossed \in BOOLEAN /\ unread \in BOOLEAN

DataOK ==
    /\ place \in [Clients -> {"idle", "start", "reload", "restart", "start_wait", "started",
                              "stop", "stop_wait", "check", "again", "again_wait", "restarted"}]
    /\ wish \in [Clients -> Modes]
    /\ owner \in Clients \union {Nobody}
    /\ dropin \in Modes /\ loaded \in Modes
    /\ unit \in {"inactive", "active", "stopping", "auto"}
    /\ job \in {"none", "stop", "restart"}
    /\ worker \in [mode : Modes, version : 0..MaxRequests]
    /\ secret \in Plain \union Masked \union {Empty}
    /\ version \in 0..MaxRequests
    /\ seen \in [Clients -> [value : Masked \union {Stars, Empty}, version : 0..MaxRequests]]
    /\ saved \in [Clients -> 0..MaxRequests]
    /\ requests \in 0..MaxRequests
    /\ last \in {"start", "stop"}
    /\ wanted \in Plain \union {Empty}

TypeOK == FlagsOK /\ DataOK

Init ==
    /\ place = [c \in Clients |-> "idle"]
    /\ wish = [c \in Clients |-> "loop"]
    /\ owner = Nobody
    /\ dropin = "loop" /\ loaded = "loop"
    /\ unit = "inactive" /\ job = "none"
    /\ worker = [mode |-> "loop", version |-> 0]
    /\ secret \in Plain
    /\ version = 0
    /\ seen = [c \in Clients |-> [value |-> Mask(secret), version |-> 0]]
    /\ saved = [c \in Clients |-> 0]
    /\ requests = 0
    /\ last = "stop"
    /\ wanted = secret /\ revived = FALSE /\ crossed = FALSE /\ unread = FALSE

GoTo(c, p) == place' = [place EXCEPT ![c] = p]

(* Mutant: a stop is taken for a start without a mode.                       *)
RequestBare(c) ==
    /\ place[c] = "idle" /\ requests < MaxRequests
    /\ requests' = requests + 1
    /\ wish' = [wish EXCEPT ![c] = "none"]
    /\ GoTo(c, "start")
    /\ UNCHANGED <<owner, systemd, settings, history>>

(* POST /start, POST /stop, POST /config with or without restart.            *)
Request(c) ==
    /\ place[c] = "idle" /\ requests < MaxRequests
    /\ requests' = requests + 1
    /\ \/ \E m \in Modes : wish' = [wish EXCEPT ![c] = m] /\ GoTo(c, "start")
       \/ GoTo(c, "stop") /\ UNCHANGED wish
    /\ UNCHANGED <<owner, systemd, settings, history>>

(* GET /config                                                               *)
ReadConfig(c) ==
    /\ place[c] = "idle"
    /\ seen' = [seen EXCEPT ![c] = [value |-> Mask(secret), version |-> version]]
    /\ UNCHANGED <<place, wish, owner, systemd, secret, version, saved, requests, history>>

(* Mutant: any value is stored as it comes.                                  *)
KeepsNone(v, raw) == v = Absent

(* What the patch says of the secret keeps the one read: the secret is not   *)
(* in the patch, or as its own mask, or as asterisks only.                   *)
Keeps(v, raw) == v \in {Absent, Stars} \/ (v \in Masked /\ v = Mask(raw))

(* save_config_patch: under the lock the file is read, an unreadable one as  *)
(* empty, patched and replaced, unless the patch changes nothing. A client   *)
(* types a secret, or sends back what its form shows, or leaves it out; an   *)
(* empty string clears it.                                                   *)
Save(c) ==
    /\ place[c] = "idle" /\ requests < MaxRequests
    /\ owner = Nobody
    /\ requests' = requests + 1
    /\ \E raw \in {secret, Empty}, typed, others \in BOOLEAN :
       \E v \in IF typed THEN Plain \union {Empty} ELSE {seen[c].value, Absent} :
           IF Keeps(v, raw) /\ ~others
           THEN UNCHANGED <<place, secret, version, saved, typing>>
           ELSE /\ secret' = IF Keeps(v, raw) THEN raw ELSE v
                /\ wanted' = IF typed THEN v ELSE wanted
                /\ crossed' = (~typed /\ (crossed \/ (v # Absent /\ seen[c].version # version)))
                /\ unread' = (~typed /\ (unread \/ raw # secret))
                /\ version' = version + 1
                /\ saved' = [saved EXCEPT ![c] = version + 1]
                /\ GoTo(c, "idle") \/ GoTo(c, "check")
    /\ UNCHANGED <<wish, owner, systemd, seen, last, revived>>

(* restart_worker and unit_active() == "active", outside the lock            *)
Check(c) ==
    /\ place[c] = "check"
    /\ GoTo(c, IF unit = "active" THEN "again" ELSE "idle")
    /\ UNCHANGED <<wish, owner, systemd, settings, requests, history>>

Ask(j) == /\ job' = j
          /\ unit' = IF unit = "active" THEN "stopping"
                     ELSE IF unit = "auto" THEN "inactive" ELSE unit

Again(c) ==
    /\ place[c] = "again"
    /\ Ask("restart")
    /\ revived' = (revived \/ last = "stop")
    /\ GoTo(c, "again_wait")
    /\ UNCHANGED <<wish, owner, dropin, loaded, worker, settings, requests, last, typing>>

AgainWait(c) ==
    /\ place[c] = "again_wait"
    /\ \/ job = "none" /\ unit = "active" /\ GoTo(c, "restarted")
       \/ GoTo(c, "idle")                 \* _run times out, or the job was replaced
    /\ UNCHANGED <<wish, owner, systemd, settings, requests, history>>

Restarted(c) ==
    /\ place[c] = "restarted"
    /\ GoTo(c, "idle")
    /\ UNCHANGED <<wish, owner, systemd, settings, requests, history>>

(* Mutant: the drop-in is written before the lock is taken.                  *)
StartUnlocked(c) ==
    /\ place[c] = "start"
    /\ dropin' = wish[c]
    /\ GoTo(c, "reload")
    /\ UNCHANGED <<owner, wish, loaded, unit, job, worker, settings, requests, history>>

(* start_unit: drop-in, daemon-reload and restart under the lock.            *)
Start(c) ==
    /\ place[c] = "start"
    /\ owner = Nobody /\ owner' = c
    /\ dropin' = wish[c]
    /\ GoTo(c, "reload")
    /\ UNCHANGED <<wish, loaded, unit, job, worker, settings, requests, history>>

Reload(c) ==
    /\ place[c] = "reload"
    /\ loaded' = dropin
    /\ GoTo(c, "restart")
    /\ UNCHANGED <<wish, owner, dropin, unit, job, worker, settings, requests, history>>

Restart(c) ==
    /\ place[c] = "restart"
    /\ Ask("restart")
    /\ last' = "start"
    /\ GoTo(c, "start_wait")
    /\ UNCHANGED <<wish, owner, dropin, loaded, worker, settings, requests, revived, typing>>

StartWait(c) ==
    /\ place[c] = "start_wait"
    /\ \/ job = "none" /\ unit = "active" /\ GoTo(c, "started") /\ UNCHANGED owner
       \/ GoTo(c, "idle") /\ owner' = Nobody
    /\ UNCHANGED <<wish, systemd, settings, requests, history>>

Started(c) ==
    /\ place[c] = "started"
    /\ GoTo(c, "idle")
    /\ owner' = Nobody
    /\ UNCHANGED <<wish, systemd, settings, requests, history>>

(* Mutant: a worker that is about to be restarted is taken for stopped.      *)
StopActive(c) ==
    /\ place[c] = "stop"
    /\ owner = Nobody /\ owner' = c
    /\ IF unit = "auto" THEN UNCHANGED <<job, unit>> ELSE Ask("stop")
    /\ last' = "stop"
    /\ GoTo(c, "stop_wait")
    /\ UNCHANGED <<wish, dropin, loaded, worker, settings, requests, revived, typing>>

(* stop_unit                                                                 *)
Stop(c) ==
    /\ place[c] = "stop"
    /\ owner = Nobody /\ owner' = c
    /\ Ask("stop")
    /\ last' = "stop"
    /\ GoTo(c, "stop_wait")
    /\ UNCHANGED <<wish, dropin, loaded, worker, settings, requests, revived, typing>>

(* Mutant: the lock is kept when the command times out.                      *)
StopWaitKept(c) ==
    /\ place[c] = "stop_wait"
    /\ \/ job # "stop" /\ owner' = Nobody
       \/ job = "stop" /\ UNCHANGED owner
    /\ GoTo(c, "idle")
    /\ UNCHANGED <<wish, systemd, settings, requests, history>>

(* The job is done, or systemctl is given up after 30 seconds while the      *)
(* worker has 60 to stop.                                                    *)
StopWait(c) ==
    /\ place[c] = "stop_wait"
    /\ GoTo(c, "idle")
    /\ owner' = Nobody
    /\ UNCHANGED <<wish, systemd, settings, requests, history>>

(* Mutant: a restarted worker keeps the configuration it had.                *)
BootOld == /\ unit' = "active"
           /\ worker' = [mode |-> loaded, version |-> worker.version]

(* A new worker process: it reads its command line and config.json.          *)
Boot == /\ unit' = "active"
        /\ worker' = [mode |-> loaded, version |-> version]

JobDone ==
    /\ job # "none"
    /\ job' = "none"
    /\ IF job = "restart" THEN Boot
       ELSE unit' = "inactive" /\ UNCHANGED worker
    /\ UNCHANGED <<place, wish, owner, dropin, loaded, settings, requests, history>>

(* The worker ends: all accounts of a fixed count are done, or it died.      *)
WorkerEnds ==
    /\ unit = "active"
    /\ unit' = "auto"
    /\ UNCHANGED <<place, wish, owner, dropin, loaded, job, worker, settings, requests, history>>

(* Restart=always                                                            *)
AutoRestart ==
    /\ unit = "auto"
    /\ Boot
    /\ UNCHANGED <<place, wish, owner, dropin, loaded, job, settings, requests, history>>

Serve(c) == \/ Check(c) \/ Again(c) \/ AgainWait(c) \/ Restarted(c)
            \/ Start(c) \/ Reload(c) \/ Restart(c) \/ StartWait(c) \/ Started(c)
            \/ Stop(c) \/ StopWait(c)

Next == \/ JobDone \/ WorkerEnds \/ AutoRestart
        \/ \E c \in Clients : Request(c) \/ ReadConfig(c) \/ Save(c) \/ Serve(c)

Spec == Init /\ [][Next]_vars
FairSpec == Spec /\ \A c \in Clients : WF_vars(Serve(c))
-----------------------------------------------------------------------------
(* While a start still holds the lock after systemd said the unit is up, the *)
(* worker is the one it asked for, whatever other requests do.               *)
StartedAsAsked ==
    \A c \in Clients : (place[c] = "started" /\ unit = "active") => worker.mode = wish[c]

(* A change of settings that is answered with "restarted" is in force.       *)
RestartedWithChange ==
    \A c \in Clients : place[c] = "restarted" => worker.version >= saved[c]

(* What a request is answered is what is in force, however requests overlap. *)
AnswersHold == TypeOK /\ StartedAsAsked /\ RestartedWithChange

(* Once systemd has done its jobs, a unit whose last order was a stop runs   *)
(* only if a change of settings restarted it.                                *)
StopHolds == (last = "stop" /\ job = "none" /\ ~revived) => unit = "inactive"

(* "skip masked placeholders that user didn't change": the secret in force   *)
(* is the one a client typed last, unless a form older than the file was     *)
(* sent back since, or a change could not read the file it changed.          *)
SecretAsTyped == secret = wanted \/ crossed \/ unread

(* No request waits for ever, for _lock or for systemd.                      *)
RequestsEnd == \A c \in Clients : []<>(place[c] = "idle")
=============================================================================
