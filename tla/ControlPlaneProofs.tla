------------------------- MODULE ControlPlaneProofs -------------------------
(* For any number of clients, requests and values of the secret: what a      *)
(* request is answered is in force, a stop holds, and the secret is the one  *)
(* typed last, each unless a step the history names has come between. For    *)
(* any number of viewers of the log and of lines: a lone viewer gets a line  *)
(* once, the others twice only what the shared cursor went back over.        *)
EXTENDS ControlPlane, LogCursor, TLAPS

USE ClientsAssumption, RequestsAssumption, SizesAssumption
    DEF ClientsAssumption, RequestsAssumption, SizesAssumption

Locked == {"reload", "restart", "start_wait", "started", "stop_wait"}

(* The lock is held by the request that is at a locked step, if any is.      *)
LockInv == \A c \in Clients : place[c] \in Locked <=> owner = c

(* Under the lock, drop-in, what systemd has loaded and the worker follow    *)
(* the wish one after the other.                                             *)
WishInv ==
    \A c \in Clients :
        /\ place[c] \in {"reload", "restart", "start_wait", "started"} => dropin = wish[c]
        /\ place[c] \in {"restart", "start_wait", "started"} => loaded = wish[c]
        /\ place[c] \in {"start_wait", "started"} /\ unit = "active" => worker.mode = wish[c]

(* A worker that came up after the restart was asked for has read the        *)
(* version the client saved before.                                          *)
SavedInv ==
    /\ version <= requests
    /\ \A c \in Clients :
        /\ saved[c] <= version
        /\ place[c] = "again_wait" /\ unit = "active" => worker.version >= saved[c]
        /\ place[c] = "restarted" => worker.version >= saved[c]

(* After a stop that nobody has undone, systemd knows of no restart.         *)
StopInv ==
    last = "stop" /\ ~revived =>
        /\ unit \in {"inactive", "stopping"} /\ job # "restart"
        /\ job = "none" => unit = "inactive"

(* A form as old as the file shows the mask of the secret in it.             *)
FormInv ==
    \A c \in Clients :
        /\ seen[c].version <= version
        /\ seen[c].version = version => seen[c].value = Mask(secret)

Parts == LockInv /\ WishInv /\ SavedInv /\ StopInv /\ FormInv /\ SecretAsTyped
IInv == TypeOK /\ Parts

(* Keys, masks and the other values of a secret in the file or on a form.    *)
LEMMA SecretsDiffer ==
    /\ Plain \intersect Masked = {}
    /\ Stars \notin Plain \union Masked /\ Empty \notin Plain \union Masked
    /\ Absent \notin Plain \union Masked
    /\ Stars # Empty /\ Stars # Absent /\ Empty # Absent
  <1>1. /\ \A k, j : [mask |-> k] # [key |-> j]
        /\ \A k : /\ [mask |-> k] # Stars /\ [mask |-> k] # Empty /\ [mask |-> k] # Absent
                 /\ [key |-> k] # Stars /\ [key |-> k] # Empty /\ [key |-> k] # Absent
    BY DEF Stars, Empty, Absent
  <1>2. Stars # Empty /\ Stars # Absent /\ Empty # Absent
    BY DEF Stars, Empty, Absent
  <1> QED
    BY <1>1, <1>2 DEF Plain, Masked

LEMMA MaskOfSecret ==
    ASSUME NEW s \in Plain \union Masked \union {Empty}
    PROVE  /\ Mask(s) \in Masked \union {Stars, Empty}
           /\ s \in Plain => Mask(s) \in Masked \union {Stars}
           /\ s \notin Plain => Mask(s) = s
  BY SecretsDiffer DEF Mask, Plain, Masked

LEMMA InitInvariant == Init => IInv
  <1> SUFFICES ASSUME Init PROVE IInv
    OBVIOUS
  <1>1. FlagsOK
    BY DEF Init, FlagsOK
  <1>2. DataOK
    <2>1. Mask(secret) \in Masked \union {Stars, Empty}
      BY MaskOfSecret DEF Init
    <2> QED
      BY <2>1 DEF Init, DataOK, Modes, Nobody
  <1>3. Parts
    BY DEF Init, Parts, LockInv, WishInv, SavedInv, StopInv, FormInv, SecretAsTyped, Locked, Nobody
  <1> QED
    BY <1>1, <1>2, <1>3 DEF IInv, TypeOK

LEMMA FlagsStep == FlagsOK /\ [Next]_vars => FlagsOK'
  <1> SUFFICES ASSUME FlagsOK, [Next]_vars PROVE FlagsOK'
    OBVIOUS
  <1> USE DEF FlagsOK, systemd, settings, typing, history
  <1>1. ASSUME NEW c \in Clients, Serve(c) PROVE FlagsOK'
    BY <1>1, Zenon DEF Serve, Check, Again, AgainWait, Restarted, Start, Reload, Restart, StartWait,
       Started, Stop, StopWait
  <1>2. ASSUME NEW c \in Clients, Request(c) \/ ReadConfig(c) PROVE FlagsOK'
    BY <1>2 DEF Request, ReadConfig
  <1>3. ASSUME NEW c \in Clients, Save(c) PROVE FlagsOK'
    BY <1>3, Zenon DEF Save
  <1>4. CASE JobDone \/ WorkerEnds \/ AutoRestart
    BY <1>4 DEF JobDone, WorkerEnds, AutoRestart
  <1>5. CASE UNCHANGED vars
    BY <1>5 DEF vars
  <1> QED
    BY <1>1, <1>2, <1>3, <1>4, <1>5 DEF Next
(* A change of the settings.                                                 *)
LEMMA SaveKeeps ==
    ASSUME DataOK, SavedInv, FormInv, SecretAsTyped, NEW c \in Clients, Save(c)
    PROVE  /\ place' \in [Clients -> {"idle", "start", "reload", "restart", "start_wait", "started",
                              "stop", "stop_wait", "check", "again", "again_wait", "restarted"}]
           /\ secret' \in Plain \union Masked \union {Empty} /\ wanted' \in Plain \union {Empty}
           /\ requests' = requests + 1 /\ requests' \in 0..MaxRequests
           /\ \/ UNCHANGED <<place, secret, version, saved>>
              \/ /\ version' = version + 1 /\ saved' = [saved EXCEPT ![c] = version + 1]
                 /\ place' = [place EXCEPT ![c] = "idle"] \/ place' = [place EXCEPT ![c] = "check"]
           /\ SecretAsTyped'
  <1>1. PICK raw \in {secret, Empty}, typed \in BOOLEAN, others \in BOOLEAN :
        \E v \in IF typed THEN Plain \union {Empty} ELSE {seen[c].value, Absent} :
           IF Keeps(v, raw) /\ ~others
           THEN UNCHANGED <<place, secret, version, saved, typing>>
           ELSE /\ secret' = IF Keeps(v, raw) THEN raw ELSE v
                /\ wanted' = IF typed THEN v ELSE wanted
                /\ crossed' = (~typed /\ (crossed \/ (v # Absent /\ seen[c].version # version)))
                /\ unread' = (~typed /\ (unread \/ raw # secret))
                /\ version' = version + 1
                /\ saved' = [saved EXCEPT ![c] = version + 1]
                /\ GoTo(c, "idle") \/ GoTo(c, "check")
    BY DEF Save
  <1>2. PICK v \in IF typed THEN Plain \union {Empty} ELSE {seen[c].value, Absent} :
           IF Keeps(v, raw) /\ ~others
           THEN UNCHANGED <<place, secret, version, saved, typing>>
           ELSE /\ secret' = IF Keeps(v, raw) THEN raw ELSE v
                /\ wanted' = IF typed THEN v ELSE wanted
                /\ crossed' = (~typed /\ (crossed \/ (v # Absent /\ seen[c].version # version)))
                /\ unread' = (~typed /\ (unread \/ raw # secret))
                /\ version' = version + 1
                /\ saved' = [saved EXCEPT ![c] = version + 1]
                /\ GoTo(c, "idle") \/ GoTo(c, "check")
    BY <1>1
  <1>3. /\ raw \in Plain \union Masked \union {Empty}
        /\ secret \in Plain \union Masked \union {Empty} /\ wanted \in Plain \union {Empty}
        /\ seen[c].value \in Masked \union {Stars, Empty}
        /\ typed => v \in Plain \union {Empty}
        /\ ~typed => v \in Masked \union {Stars, Empty, Absent}
    BY <1>1, <1>2 DEF DataOK
  <1>4. ~Keeps(v, raw) => v \in Plain \union Masked \union {Empty}
    BY <1>3 DEF Keeps
  <1>5. typed => ~Keeps(v, raw)
    BY <1>3, SecretsDiffer DEF Keeps
  <1>6. ~typed /\ v = Mask(secret) /\ raw = secret => Keeps(v, raw) \/ v = secret
    BY <1>3, MaskOfSecret DEF Keeps
  <1>7. ~typed /\ v # Absent /\ seen[c].version = version => v = Mask(secret)
    BY <1>2 DEF FormInv
  <1>8. Keeps(Absent, raw)
    BY DEF Keeps
  <1>9. requests' = requests + 1 /\ requests' \in 0..MaxRequests
    BY DEF Save, DataOK
  <1>10. CASE Keeps(v, raw) /\ ~others
    <2>1. UNCHANGED <<place, secret, version, saved, wanted, crossed, unread>>
      BY <1>2, <1>10 DEF typing
    <2>2. SecretAsTyped'
      BY <2>1 DEF SecretAsTyped
    <2> QED
      BY <2>1, <2>2, <1>3, <1>9 DEF DataOK
  <1>11. CASE ~(Keeps(v, raw) /\ ~others)
    <2>1. /\ secret' = IF Keeps(v, raw) THEN raw ELSE v
          /\ wanted' = IF typed THEN v ELSE wanted
          /\ crossed' <=> (~typed /\ (crossed \/ (v # Absent /\ seen[c].version # version)))
          /\ unread' <=> (~typed /\ (unread \/ raw # secret))
          /\ version' = version + 1 /\ saved' = [saved EXCEPT ![c] = version + 1]
          /\ GoTo(c, "idle") \/ GoTo(c, "check")
      BY <1>2, <1>11
    <2>2. secret' \in Plain \union Masked \union {Empty} /\ wanted' \in Plain \union {Empty}
      BY <2>1, <1>3, <1>4
    <2>3. ASSUME typed PROVE SecretAsTyped'
      BY <2>1, <2>3, <1>5 DEF SecretAsTyped
    <2>4. ASSUME ~typed, ~crossed', ~unread' PROVE SecretAsTyped'
      <3>1. raw = secret /\ ~crossed /\ ~unread /\ secret = wanted /\ wanted' = wanted
        BY <2>1, <2>4 DEF SecretAsTyped
      <3>2. v = Absent \/ v = Mask(secret)
        BY <2>1, <2>4, <1>7
      <3>3. secret' = secret
        BY <2>1, <2>4, <3>1, <3>2, <1>6, <1>8
      <3> QED
        BY <3>1, <3>3 DEF SecretAsTyped
    <2>5. SecretAsTyped'
      BY <2>3, <2>4 DEF SecretAsTyped
    <2>6. place' \in [Clients -> {"idle", "start", "reload", "restart", "start_wait", "started",
                              "stop", "stop_wait", "check", "again", "again_wait", "restarted"}]
      BY <2>1 DEF GoTo, DataOK
    <2> QED
      BY <2>1, <2>2, <2>5, <2>6, <1>9 DEF GoTo
  <1> QED
    BY <1>10, <1>11
LEMMA DataStep == IInv /\ [Next]_vars => DataOK'
  <1> SUFFICES ASSUME DataOK, Parts, [Next]_vars PROVE DataOK'
    BY DEF IInv, TypeOK
  <1>0. version \in Nat /\ requests \in Nat /\ version <= requests
    BY DEF DataOK, Parts, SavedInv
  <1> USE DEF DataOK, GoTo, Modes, Nobody, systemd, settings, typing, history
  <1>1. ASSUME NEW c \in Clients, Check(c) \/ AgainWait(c) \/ Restarted(c) PROVE DataOK'
    BY <1>1 DEF Check, AgainWait, Restarted
  <1>2. ASSUME NEW c \in Clients, Again(c) \/ Restart(c) \/ Stop(c) PROVE DataOK'
    BY <1>2 DEF Again, Restart, Stop, Ask
  <1>3. ASSUME NEW c \in Clients, Start(c) \/ Reload(c) PROVE DataOK'
    BY <1>3 DEF Start, Reload
  <1>4. ASSUME NEW c \in Clients, StartWait(c) \/ Started(c) \/ StopWait(c) PROVE DataOK'
    BY <1>4 DEF StartWait, Started, StopWait
  <1>5. ASSUME NEW c \in Clients, Request(c) PROVE DataOK'
    BY <1>5 DEF Request
  <1>6. ASSUME NEW c \in Clients, ReadConfig(c) PROVE DataOK'
    <2>1. Mask(secret) \in Masked \union {Stars, Empty}
      BY MaskOfSecret
    <2> QED
      BY <1>6, <2>1 DEF ReadConfig
  <1>7. ASSUME NEW c \in Clients, Save(c) PROVE DataOK'
    <2>1. version' \in 0..MaxRequests /\ saved' \in [Clients -> 0..MaxRequests]
      BY <1>0, <1>7, SaveKeeps DEF Save, Parts
    <2> QED
      BY <1>7, <2>1, SaveKeeps DEF Save, Parts
  <1>8. CASE JobDone \/ WorkerEnds \/ AutoRestart
    BY <1>8 DEF JobDone, WorkerEnds, AutoRestart, Boot
  <1>9. CASE UNCHANGED vars
    BY <1>9 DEF vars
  <1> QED
    BY <1>1, <1>2, <1>3, <1>4, <1>5, <1>6, <1>7, <1>8, <1>9 DEF Next, Serve

(* The steps of a request that do not touch the settings.                    *)
LEMMA ServeKeeps ==
    ASSUME DataOK, Parts, NEW c \in Clients, Serve(c) \/ Request(c)
    PROVE  LockInv' /\ WishInv' /\ SavedInv' /\ StopInv'
  <1> USE DEF DataOK, Parts, LockInv, WishInv, SavedInv, StopInv, Locked, Nobody, GoTo, systemd,
              settings, typing, history
  <1>1. CASE Check(c) \/ Restarted(c)
    BY <1>1 DEF Check, Restarted
  <1>2. CASE AgainWait(c)
    BY <1>2 DEF AgainWait
  <1>3. CASE Again(c)
    BY <1>3 DEF Again, Ask
  <1>4. CASE Start(c)
    BY <1>4 DEF Start
  <1>5. CASE Reload(c)
    BY <1>5 DEF Reload
  <1>6. CASE Restart(c)
    BY <1>6 DEF Restart, Ask
  <1>7. CASE StartWait(c) \/ Started(c)
    BY <1>7 DEF StartWait, Started
  <1>8. CASE Stop(c)
    BY <1>8 DEF Stop, Ask
  <1>9. CASE StopWait(c)
    BY <1>9 DEF StopWait
  <1>10. CASE Request(c)
    BY <1>10 DEF Request
  <1> QED
    BY <1>1, <1>2, <1>3, <1>4, <1>5, <1>6, <1>7, <1>8, <1>9, <1>10 DEF Serve
LEMMA PartsStep == IInv /\ [Next]_vars => Parts'
  <1> SUFFICES ASSUME DataOK, Parts, [Next]_vars PROVE Parts'
    BY DEF IInv, TypeOK
  <1> USE DEF systemd, settings, typing, history
  <1>1. ASSUME NEW c \in Clients, Serve(c) \/ Request(c) PROVE Parts'
    <2>1. UNCHANGED <<secret, version, seen, wanted, crossed, unread>>
      BY <1>1 DEF Serve, Request, Check, Again, AgainWait, Restarted, Start, Reload, Restart,
         StartWait, Started, Stop, StopWait
    <2>2. FormInv' /\ SecretAsTyped'
      BY <2>1 DEF Parts, FormInv, SecretAsTyped, Mask
    <2> QED
      BY <1>1, <2>2, ServeKeeps DEF Parts
  <1>2. ASSUME NEW c \in Clients, ReadConfig(c) PROVE Parts'
    <2>1. LockInv' /\ WishInv' /\ SavedInv' /\ StopInv' /\ SecretAsTyped'
      BY <1>2 DEF ReadConfig, Parts, LockInv, WishInv, SavedInv, StopInv, SecretAsTyped, Locked
    <2>2. FormInv'
      BY <1>2 DEF ReadConfig, DataOK, Parts, FormInv, Mask
    <2> QED
      BY <2>1, <2>2 DEF Parts
  <1>3. ASSUME NEW c \in Clients, Save(c) PROVE Parts'
    <2>1. /\ UNCHANGED <<wish, owner, dropin, loaded, unit, job, worker, seen, last, revived>>
          /\ place[c] = "idle"
      BY <1>3 DEF Save
    <2>2. /\ requests' = requests + 1
          /\ \/ UNCHANGED <<place, secret, version, saved>>
             \/ /\ version' = version + 1 /\ saved' = [saved EXCEPT ![c] = version + 1]
                /\ place' = [place EXCEPT ![c] = "idle"] \/ place' = [place EXCEPT ![c] = "check"]
          /\ SecretAsTyped'
      BY <1>3, SaveKeeps DEF Parts
    <2>3. LockInv' /\ WishInv'
      BY <2>1, <2>2 DEF DataOK, Parts, LockInv, WishInv, Locked
    <2>4. SavedInv'
      <3>1. CASE UNCHANGED <<place, version, saved>>
        BY <2>1, <2>2, <3>1 DEF DataOK, Parts, SavedInv
      <3>2. ASSUME NEW d \in Clients, ~UNCHANGED <<place, version, saved>>
            PROVE  /\ saved'[d] <= version'
                   /\ \/ place'[d] \in {"idle", "check"}
                      \/ place'[d] = place[d] /\ saved'[d] = saved[d]
        BY <2>2, <3>2 DEF DataOK, Parts, SavedInv
      <3>3. ~UNCHANGED <<place, version, saved>> => version' <= requests'
        BY <2>2 DEF DataOK, Parts, SavedInv
      <3>4. ASSUME NEW d \in Clients, ~UNCHANGED <<place, version, saved>>
            PROVE  /\ place'[d] = "again_wait" /\ unit' = "active" => worker'.version >= saved'[d]
                   /\ place'[d] = "restarted" => worker'.version >= saved'[d]
        BY <2>1, <3>2, <3>4 DEF Parts, SavedInv
      <3> QED
        BY <3>1, <3>2, <3>3, <3>4 DEF SavedInv
    <2>5. StopInv'
      BY <2>1 DEF Parts, StopInv
    <2>6. FormInv'
      BY <2>1, <2>2 DEF DataOK, Parts, FormInv, Mask
    <2> QED
      BY <2>2, <2>3, <2>4, <2>5, <2>6 DEF Parts
  <1>4. CASE JobDone \/ WorkerEnds \/ AutoRestart
    <2>1. FormInv' /\ SecretAsTyped' /\ LockInv'
      BY <1>4 DEF JobDone, WorkerEnds, AutoRestart, Parts, FormInv, SecretAsTyped, LockInv, Mask
    <2>2. WishInv' /\ SavedInv' /\ StopInv'
      BY <1>4 DEF JobDone, WorkerEnds, AutoRestart, Boot, DataOK, Parts, WishInv, SavedInv, StopInv
    <2> QED
      BY <2>1, <2>2 DEF Parts
  <1>5. CASE UNCHANGED vars
    BY <1>5 DEF vars, Parts, LockInv, WishInv, SavedInv, StopInv, FormInv, SecretAsTyped, Mask
  <1> QED
    BY <1>1, <1>2, <1>3, <1>4, <1>5 DEF Next

LEMMA Invariance == Spec => []IInv
  <1>1. IInv /\ [Next]_vars => IInv'
    BY FlagsStep, DataStep, PartsStep DEF IInv, TypeOK
  <1> QED
    BY <1>1, InitInvariant, PTL DEF Spec

(* What a start or a change of the settings is answered is in force, however *)
(* the requests overlap.                                                     *)
THEOREM AnswersAlwaysHold == Spec => []AnswersHold
  <1>1. IInv => AnswersHold
    BY DEF IInv, Parts, WishInv, SavedInv, AnswersHold, StartedAsAsked, RestartedWithChange
  <1> QED
    BY <1>1, Invariance, PTL

(* The lock of the control plane is free or with a request that is being     *)
(* served under it, whatever systemctl answers and whatever the worker does: *)
(* no way out of a request leaves it locked for the next.                    *)
THEOREM LockIsWithARequest ==
    Spec => [](owner = Nobody \/ (owner \in Clients /\ place[owner] \in Locked))
  <1>1. IInv => owner = Nobody \/ (owner \in Clients /\ place[owner] \in Locked)
    <2> SUFFICES ASSUME IInv, owner # Nobody
                 PROVE  owner \in Clients /\ place[owner] \in Locked
      OBVIOUS
    <2>1. owner \in Clients
      BY DEF IInv, TypeOK, DataOK
    <2> QED
      BY <2>1 DEF IInv, Parts, LockInv
  <1> QED
    BY <1>1, Invariance, PTL

(* A unit that was ordered to stop runs again only by a change of settings.  *)
THEOREM StopsHold == Spec => []StopHolds
  <1>1. IInv => StopHolds
    BY DEF IInv, Parts, StopInv, StopHolds
  <1> QED
    BY <1>1, Invariance, PTL

(* A masked form never replaces the secret, unless it is outdated or the     *)
(* file could not be read.                                                   *)
THEOREM SecretStaysAsTyped == Spec => []SecretAsTyped
  <1>1. IInv => SecretAsTyped
    BY DEF IInv, Parts
  <1> QED
    BY <1>1, Invariance, PTL
-----------------------------------------------------------------------------
(* A poll that had a cursor delivers lines after it and sets one.            *)
PollOf(v) ==
    /\ base[v] <= lines
    /\ stage[v] \in {"refresh", "set"} /\ from[v] # None => \A n \in text[v] : n > from[v]
    /\ stage[v] = "refresh" => \A n \in text[v] : n <= lines
    /\ stage[v] = "set" /\ from[v] # None => upto[v] # None

PollInv == \A v \in Viewers : PollOf(v)

(* A line that was sent and that the cursor did not step back over is behind *)
(* the cursor, and behind the cursor of any poll of that viewer.             *)
SentBehind(v, n) ==
    sent[v][n] >= 1 /\ n \notin redone =>
        /\ n <= high /\ n <= cursor
        /\ stage[v] \in {"text", "refresh", "set"} => n <= from[v]

StepBackInv == \A v \in Viewers, n \in Lines : SentBehind(v, n)

(* A lone viewer for whom no refresh failed: from the end of the seed on the *)
(* cursor is past the snapshot, and always past what was sent.               *)
Behind(v, n) ==
    /\ n <= lines /\ n <= cursor
    /\ stage[v] \in {"text", "refresh", "set"} => n <= from[v]
    /\ stage[v] = "set" => n <= upto[v]

OnceInv(v) ==
    /\ stage[v] \in {"poll", "text", "refresh", "set"} => Behind(v, base[v])
    /\ stage[v] = "seed_set" => base[v] <= upto[v] /\ (upto[v] = None => base[v] = 0)
    /\ stage[v] \in {"seed", "seed_text", "seed_refresh", "seed_set"} =>
           \A n \in Lines : sent[v][n] = 0
    /\ stage[v] = "set" => \A n \in text[v] : n <= lines /\ n <= upto[v]
    /\ \A n \in Lines : sent[v][n] >= 1 => sent[v][n] = 1 /\ base[v] < n /\ Behind(v, n)

AloneOf(v) ==
    alone[v] => /\ \A u \in Viewers : u # v => stage[u] = "off"
                /\ ~failed[v] => OnceInv(v)

AloneInv == \A v \in Viewers : AloneOf(v)

LogInv == LogTypeOK /\ PollInv /\ StepBackInv /\ TwiceAfterStepBack /\ AloneInv

(* No line, no viewer.                                                       *)
LEMMA LogStarts == LogInit => LogInv
<1> SUFFICES ASSUME LogInit PROVE LogInv
  OBVIOUS
<1>1. LogTypeOK
  <2>1. stage \in [Viewers -> Stages] /\ text \in [Viewers -> SUBSET Lines]
    BY DEF LogInit, Stages
  <2>2. from \in [Viewers -> Cursors] /\ upto \in [Viewers -> Cursors] /\ cursor \in Cursors
    BY DEF LogInit, Cursors
  <2>3. base \in [Viewers -> 0..MaxLines] /\ views \in [Viewers -> 0..MaxViews]
    BY DEF LogInit
  <2>4. sent \in [Viewers -> [Lines -> 0..2]]
    BY DEF LogInit
  <2>5. alone \in [Viewers -> BOOLEAN] /\ failed \in [Viewers -> BOOLEAN]
    BY DEF LogInit
  <2> QED BY <2>1, <2>2, <2>3, <2>4, <2>5 DEF LogInit, LogTypeOK
<1>2. \A v \in Viewers : /\ stage[v] = "off" /\ base[v] = 0 /\ ~alone[v]
                         /\ \A n \in Lines : sent[v][n] = 0
  BY DEF LogInit
<1>3. lines = 0
  BY DEF LogInit
<1> QED BY <1>1, <1>2, <1>3 DEF LogInv, PollInv, PollOf, StepBackInv, SentBehind,
                                     TwiceAfterStepBack, AloneInv, AloneOf

(* Numbers of lines and cursors compare as numbers.                          *)
LEMMA LogNumbers ==
    ASSUME LogTypeOK
    PROVE  /\ lines \in Nat /\ lines <= MaxLines /\ high \in Nat
           /\ cursor \in Nat /\ cursor <= None /\ None = MaxLines + 1
           /\ \A v \in Viewers :
                 /\ from[v] \in Nat /\ from[v] <= None /\ upto[v] \in Nat /\ upto[v] <= None
                 /\ base[v] \in Nat /\ base[v] <= MaxLines
                 /\ text[v] \subseteq Lines
                 /\ \A n \in Lines : sent[v][n] \in 0..2
           /\ \A n \in Lines : n \in Nat /\ 1 <= n /\ n <= MaxLines
<1>1. /\ lines \in Nat /\ lines <= MaxLines /\ high \in Nat
      /\ \A n \in Lines : n \in Nat /\ 1 <= n /\ n <= MaxLines
  BY DEF LogTypeOK, Lines
<1>2. \A c \in Cursors : c \in Nat /\ c <= None
  BY DEF Cursors, None
<1>3. \A v \in Viewers : /\ from[v] \in Cursors /\ upto[v] \in Cursors
                         /\ base[v] \in 0..MaxLines /\ text[v] \subseteq Lines
                         /\ \A n \in Lines : sent[v][n] \in 0..2
  BY DEF LogTypeOK
<1>4. \A v \in Viewers : base[v] \in Nat /\ base[v] <= MaxLines
  BY <1>3
<1> QED BY <1>1, <1>2, <1>3, <1>4 DEF LogTypeOK, None

(* What the delivery of a poll does.                                         *)
LEMMA SetFacts ==
    ASSUME LogTypeOK, NEW v \in Viewers, SetCursor(v)
    PROVE  /\ \A n \in Lines :
                 sent'[v][n] = IF n \in Delivered(v) /\ sent[v][n] < 2
                               THEN sent[v][n] + 1 ELSE sent[v][n]
           /\ \A u \in Viewers : u # v =>
                 sent'[u] = sent[u] /\ from'[u] = from[u] /\ upto'[u] = upto[u] /\ text'[u] = text[u]
           /\ sent' \in [Viewers -> [Lines -> 0..2]]
           /\ Delivered(v) \subseteq Lines
           /\ cursor' \in Cursors /\ high' \in 0..MaxLines /\ redone' \subseteq Lines
<1>1. Delivered(v) \subseteq Lines
  BY DEF Delivered, LogTypeOK
<1> DEFINE S == [n \in Lines |-> IF n \in Delivered(v) /\ sent[v][n] < 2
                                THEN sent[v][n] + 1 ELSE sent[v][n]]
<1>2. sent' = [sent EXCEPT ![v] = S]
  BY DEF SetCursor
<1>3. S \in [Lines -> 0..2]
  <2> SUFFICES ASSUME NEW n \in Lines
               PROVE  (IF n \in Delivered(v) /\ sent[v][n] < 2
                       THEN sent[v][n] + 1 ELSE sent[v][n]) \in 0..2
    OBVIOUS
  <2> QED BY LogNumbers
<1>4. sent'[v] = S /\ sent' \in [Viewers -> [Lines -> 0..2]]
  BY <1>2, <1>3 DEF LogTypeOK
<1>5. cursor' \in Cursors
  BY DEF SetCursor, LogTypeOK
<1>6. high' \in 0..MaxLines
  BY <1>5 DEF SetCursor, LogTypeOK, Cursors, None
<1>7. redone' \subseteq Lines
  BY DEF SetCursor, LogTypeOK
<1>8. \A u \in Viewers : u # v =>
          sent'[u] = sent[u] /\ from'[u] = from[u] /\ upto'[u] = upto[u] /\ text'[u] = text[u]
  BY <1>2 DEF SetCursor, LogTypeOK
<1> QED BY <1>1, <1>4, <1>5, <1>6, <1>7, <1>8

(* The types of the log.                                                     *)
LEMMA LogTyped == LogTypeOK /\ [LogNext]_logVars => LogTypeOK'
<1> SUFFICES ASSUME LogTypeOK, [LogNext]_logVars PROVE LogTypeOK'
  OBVIOUS
<1>0. Lines' = Lines /\ Cursors' = Cursors
  BY DEF Lines, Cursors
<1> USE DEF journal, locals, shown, past
<1>1. CASE Write
  BY <1>0, <1>1 DEF Write, LogTypeOK
<1>2. CASE Reset
  BY <1>0, <1>2 DEF Reset, LogTypeOK, Cursors
<1>3. ASSUME NEW v \in Viewers, Connect(v) PROVE LogTypeOK'
  <2>1. views' \in [Viewers -> 0..MaxViews]
    BY <1>3 DEF Connect, LogTypeOK
  <2>2. base' \in [Viewers -> 0..MaxLines]
    BY <1>3 DEF Connect, LogTypeOK
  <2>3. sent' \in [Viewers -> [Lines -> 0..2]]
    BY <1>3 DEF Connect, LogTypeOK
  <2>4. alone' \in [Viewers -> BOOLEAN] /\ failed' \in [Viewers -> BOOLEAN]
    BY <1>3 DEF Connect, LogTypeOK
  <2>5. stage' \in [Viewers -> Stages]
    BY <1>3 DEF Connect, LogTypeOK, Enters, Stages
  <2> QED BY <1>0, <1>3, <2>1, <2>2, <2>3, <2>4, <2>5 DEF Connect, LogTypeOK
<1>4. ASSUME NEW v \in Viewers, ReadCursor(v) PROVE LogTypeOK'
  <2>1. stage' \in [Viewers -> Stages] /\ from' \in [Viewers -> Cursors]
    BY <1>4 DEF ReadCursor, LogTypeOK, Enters, Stages
  <2> QED BY <1>0, <1>4, <2>1 DEF ReadCursor, LogTypeOK
<1>5. ASSUME NEW v \in Viewers, ReadText(v) PROVE LogTypeOK'
  <2>1. stage' \in [Viewers -> Stages]
    BY <1>5 DEF ReadText, LogTypeOK, Enters, Stages
  <2>2. text' \in [Viewers -> SUBSET Lines]
    BY <1>5 DEF ReadText, LogTypeOK, Newest
  <2> QED BY <1>0, <1>5, <2>1, <2>2 DEF ReadText, LogTypeOK
<1>6. ASSUME NEW v \in Viewers, Refresh(v) PROVE LogTypeOK'
  <2>1. stage' \in [Viewers -> Stages]
    BY <1>6 DEF Refresh, LogTypeOK, Enters, Stages
  <2>2. Refreshed(v) \in Cursors /\ from[v] \in Cursors
    BY DEF Refreshed, LogTypeOK, Cursors
  <2>3. upto' \in [Viewers -> Cursors] /\ failed' \in [Viewers -> BOOLEAN]
    BY <1>6, <2>2 DEF Refresh, LogTypeOK
  <2> QED BY <1>0, <1>6, <2>1, <2>3 DEF Refresh, LogTypeOK
<1>7. ASSUME NEW v \in Viewers, SetCursor(v) PROVE LogTypeOK'
  <2>1. stage' \in [Viewers -> Stages] /\ text' \in [Viewers -> SUBSET Lines]
    BY <1>7 DEF SetCursor, LogTypeOK, Enters, Stages
  <2>2. from' \in [Viewers -> Cursors] /\ upto' \in [Viewers -> Cursors]
    BY <1>7 DEF SetCursor, LogTypeOK, Cursors
  <2> QED BY <1>0, <1>7, <2>1, <2>2, SetFacts DEF SetCursor, LogTypeOK
<1>8. ASSUME NEW v \in Viewers, Leave(v) PROVE LogTypeOK'
  <2>1. stage' \in [Viewers -> Stages]
    BY <1>8 DEF Leave, LogTypeOK, Enters, Stages
  <2> QED BY <1>0, <1>8, <2>1 DEF Leave, LogTypeOK
<1>9. CASE UNCHANGED logVars
  BY <1>0, <1>9 DEF logVars, LogTypeOK
<1> QED BY <1>1, <1>2, <1>3, <1>4, <1>5, <1>6, <1>7, <1>8, <1>9 DEF LogNext, View

(* What the reading of the text and the refresh of the cursor do.            *)
LEMMA ReadFacts ==
    ASSUME LogTypeOK, NEW v \in Viewers, ReadText(v)
    PROVE  /\ \A n \in text'[v] : n <= lines /\ (from[v] # None => n > from[v])
           /\ \A u \in Viewers : u # v => text'[u] = text[u] /\ stage'[u] = stage[u]
           /\ stage'[v] \in {"seed_refresh", "refresh"}
           /\ stage'[v] = "refresh" => stage[v] = "text"
           /\ stage'[v] = "seed_refresh" => stage[v] = "seed_text"
<1>1. text'[v] \in {Newest(from[v]), {}}
  BY DEF ReadText, LogTypeOK
<1>2. \A n \in Newest(from[v]) : n <= lines /\ (from[v] # None => n > from[v])
  BY DEF Newest
<1> QED BY <1>1, <1>2 DEF ReadText, Enters, LogTypeOK

LEMMA RefreshFacts ==
    ASSUME LogTypeOK, NEW v \in Viewers, Refresh(v)
    PROVE  /\ \/ upto'[v] = Refreshed(v) /\ UNCHANGED failed
              \/ upto'[v] = from[v] /\ failed'[v] = TRUE
           /\ \A u \in Viewers : u # v => /\ upto'[u] = upto[u] /\ stage'[u] = stage[u]
                                          /\ failed'[u] = failed[u]
           /\ stage'[v] \in {"seed_set", "set"}
           /\ stage'[v] = "set" => stage[v] = "refresh"
           /\ stage'[v] = "seed_set" => stage[v] = "seed_refresh"
BY DEF Refresh, Enters, LogTypeOK

(* A poll that had a cursor has one to set, past all that it delivers.       *)
LEMMA PollKept == LogTypeOK /\ PollInv /\ [LogNext]_logVars => PollInv'
<1> SUFFICES ASSUME LogTypeOK, PollInv, [LogNext]_logVars, NEW w \in Viewers PROVE PollOf(w)'
  BY DEF PollInv
<1>0. PollOf(w) /\ None' = None
  BY DEF PollInv, None
<1> USE LogNumbers DEF journal, locals, shown, past
<1>1. CASE UNCHANGED <<lines, base, stage, from, upto, text>>
  BY <1>0, <1>1 DEF PollOf
<1>2. CASE Write
  BY <1>0, <1>2 DEF Write, PollOf
<1>3. ASSUME NEW v \in Viewers, Connect(v) PROVE PollOf(w)'
  <2>1. base'[w] <= lines /\ UNCHANGED <<lines, from, upto, text>>
    BY <1>0, <1>3 DEF Connect, PollOf, LogTypeOK
  <2>2. stage'[w] = stage[w] \/ stage'[w] = "seed"
    BY <1>3 DEF Connect, Enters, LogTypeOK
  <2> QED BY <1>0, <2>1, <2>2 DEF PollOf
<1>4. ASSUME NEW v \in Viewers, ReadCursor(v) PROVE PollOf(w)'
  <2>1. UNCHANGED <<lines, base, text, upto>>
    BY <1>4 DEF ReadCursor
  <2>2. \/ stage'[w] = stage[w] /\ from'[w] = from[w]
        \/ stage'[w] \in {"seed_text", "text"}
    BY <1>4 DEF ReadCursor, Enters, LogTypeOK
  <2> QED BY <1>0, <2>1, <2>2 DEF PollOf
<1>5. ASSUME NEW v \in Viewers, ReadText(v) PROVE PollOf(w)'
  <2>1. UNCHANGED <<lines, base, from, upto>>
    BY <1>5 DEF ReadText
  <2> QED BY <1>0, <1>5, <2>1, ReadFacts DEF PollOf
<1>6. ASSUME NEW v \in Viewers, Refresh(v) PROVE PollOf(w)'
  <2>1. UNCHANGED <<lines, base, from, text>>
    BY <1>6 DEF Refresh
  <2>2. from[v] # None => upto'[v] # None
    <3>1. from[v] # None => Refreshed(v) # None
      BY DEF Refreshed
    <3> QED BY <1>6, <3>1, RefreshFacts
  <2> QED BY <1>0, <1>6, <2>1, <2>2, RefreshFacts DEF PollOf
<1>7. ASSUME NEW v \in Viewers, SetCursor(v) PROVE PollOf(w)'
  <2>1. UNCHANGED <<lines, base>>
    BY <1>7 DEF SetCursor
  <2>2. stage'[v] = "poll" /\ (w # v => stage'[w] = stage[w])
    BY <1>7 DEF SetCursor, Enters, LogTypeOK
  <2> QED BY <1>0, <1>7, <2>1, <2>2, SetFacts DEF PollOf
<1>8. ASSUME NEW v \in Viewers, Leave(v) PROVE PollOf(w)'
  <2>1. stage'[w] = stage[w] \/ stage'[w] = "off"
    BY <1>8 DEF Leave, Enters, LogTypeOK
  <2> QED BY <1>0, <1>8, <2>1 DEF Leave, PollOf
<1>9. CASE Reset \/ UNCHANGED logVars
  BY <1>1, <1>9 DEF Reset, logVars
<1> QED BY <1>2, <1>3, <1>4, <1>5, <1>6, <1>7, <1>8, <1>9 DEF LogNext, View

(* Whoever sets the cursor, a line that is not redone stays behind it, and a *)
(* poll does not send a second time what its own cursor lies behind.         *)
LEMMA StepBackKept ==
    LogInv /\ [LogNext]_logVars => StepBackInv' /\ TwiceAfterStepBack'
<1> SUFFICES ASSUME LogInv, [LogNext]_logVars, NEW w \in Viewers, NEW n \in Lines
             PROVE  SentBehind(w, n)' /\ (sent'[w][n] = 2 => n \in redone')
  BY DEF StepBackInv, TwiceAfterStepBack, Lines
<1>0. /\ SentBehind(w, n) /\ (sent[w][n] = 2 => n \in redone) /\ LogTypeOK
      /\ None' = None /\ PollOf(w) /\ sent[w][n] \in 0..2
  BY LogNumbers DEF LogInv, StepBackInv, TwiceAfterStepBack, None, PollInv
<1> USE LogNumbers DEF journal, locals, shown, past
<1>1. CASE UNCHANGED <<cursor, sent, high, redone, stage, from>>
  BY <1>0, <1>1 DEF SentBehind
<1>2. CASE Reset
  BY <1>0, <1>2 DEF Reset, SentBehind
<1>3. ASSUME NEW v \in Viewers, Connect(v)
      PROVE  SentBehind(w, n)' /\ (sent'[w][n] = 2 => n \in redone')
  <2>1. UNCHANGED <<cursor, from, high, redone>>
    BY <1>3 DEF Connect
  <2>2. IF w = v THEN sent'[w][n] = 0 ELSE sent'[w] = sent[w] /\ stage'[w] = stage[w]
    BY <1>0, <1>3 DEF Connect, Enters, LogTypeOK
  <2> QED BY <1>0, <2>1, <2>2 DEF SentBehind
<1>4. ASSUME NEW v \in Viewers, ReadCursor(v)
      PROVE  SentBehind(w, n)' /\ (sent'[w][n] = 2 => n \in redone')
  <2>1. UNCHANGED <<cursor, sent, high, redone>>
    BY <1>4 DEF ReadCursor
  <2>2. IF w = v THEN from'[w] = cursor ELSE from'[w] = from[w] /\ stage'[w] = stage[w]
    BY <1>0, <1>4 DEF ReadCursor, Enters, LogTypeOK
  <2> QED BY <1>0, <2>1, <2>2 DEF SentBehind
<1>5. ASSUME NEW v \in Viewers, ReadText(v) \/ Refresh(v)
      PROVE  SentBehind(w, n)' /\ (sent'[w][n] = 2 => n \in redone')
  <2>1. UNCHANGED <<cursor, sent, high, redone, from>>
    BY <1>5 DEF ReadText, Refresh
  <2>2. stage'[w] \in {"text", "refresh", "set"} => stage[w] \in {"text", "refresh", "set"}
    BY <1>0, <1>5, ReadFacts, RefreshFacts
  <2> QED BY <1>0, <2>1, <2>2 DEF SentBehind
<1>6. ASSUME NEW v \in Viewers, SetCursor(v)
      PROVE  SentBehind(w, n)' /\ (sent'[w][n] = 2 => n \in redone')
  <2>1. /\ cursor' = IF upto[v] # None THEN upto[v] ELSE cursor
        /\ high' = IF cursor' # None /\ cursor' > high THEN cursor' ELSE high
        /\ redone \subseteq redone'
        /\ cursor' < n /\ (n <= high \/ n \in Delivered(v)) => n \in redone'
    BY <1>6 DEF SetCursor
  <2>2. stage'[v] = "poll" /\ (w # v => stage'[w] = stage[w])
    BY <1>0, <1>6 DEF SetCursor, Enters, LogTypeOK
  <2>3. high <= high' /\ cursor' \in Nat
    BY <1>0, <2>1
  <2>4. CASE sent'[w][n] = sent[w][n]
    <3>1. w # v => from'[w] = from[w]
      BY <1>0, <1>6, SetFacts
    <3> QED BY <1>0, <2>1, <2>2, <2>3, <2>4, <3>1 DEF SentBehind
  <2>5. CASE w = v /\ n \in Delivered(v) /\ sent'[w][n] = sent[w][n] + 1
    <3>1. /\ stage[v] = "set" /\ from[v] # None /\ n \in text[v]
          /\ n > from[v] /\ upto[v] # None
      BY <1>0, <2>5 DEF Delivered, PollOf
    <3>2. n \notin redone => sent[w][n] = 0
      BY <1>0, <2>5, <3>1 DEF SentBehind
    <3>3. n \notin redone' => n <= cursor' /\ n <= high'
      BY <1>0, <2>1, <2>3, <2>5, <3>1
    <3> QED BY <1>0, <2>1, <2>2, <2>5, <3>2, <3>3 DEF SentBehind
  <2> QED BY <1>0, <1>6, <2>4, <2>5, SetFacts
<1>7. ASSUME NEW v \in Viewers, Leave(v)
      PROVE  SentBehind(w, n)' /\ (sent'[w][n] = 2 => n \in redone')
  <2>1. stage'[w] = stage[w] \/ stage'[w] = "off"
    BY <1>0, <1>7 DEF Leave, Enters, LogTypeOK
  <2> QED BY <1>0, <1>7, <2>1 DEF Leave, SentBehind
<1>8. CASE Write \/ UNCHANGED logVars
  BY <1>1, <1>8 DEF Write, logVars
<1> QED BY <1>2, <1>3, <1>4, <1>5, <1>6, <1>7, <1>8 DEF LogNext, View

(* A lone viewer's steps, from one seed and poll to the next.                *)
LEMMA OnceKept ==
    ASSUME LogInv, NEW v \in Viewers, OnceInv(v), ~failed'[v],
           ReadCursor(v) \/ ReadText(v) \/ Refresh(v) \/ SetCursor(v) \/ Leave(v)
    PROVE  OnceInv(v)'
<1>0. /\ LogTypeOK /\ None' = None /\ PollOf(v) /\ Lines' = Lines
      /\ \A n \in Lines : n \in Nat /\ 1 <= n /\ sent[v][n] \in 0..2
  BY LogNumbers DEF LogInv, None, PollInv, Lines
<1>1. CASE ReadCursor(v)
  <2>1. /\ UNCHANGED <<lines, cursor, text, upto, base, sent>>
        /\ from'[v] = cursor
        /\ \/ stage[v] = "seed" /\ stage'[v] = "seed_text"
           \/ stage[v] = "poll" /\ stage'[v] = "text"
    BY <1>0, <1>1 DEF ReadCursor, Enters, LogTypeOK, shown, journal
  <2> QED BY <1>0, <2>1 DEF OnceInv, Behind
<1>2. CASE ReadText(v)
  <2>1. /\ UNCHANGED <<lines, cursor, from, upto, base, sent>>
        /\ \/ stage[v] = "seed_text" /\ stage'[v] = "seed_refresh"
           \/ stage[v] = "text" /\ stage'[v] = "refresh"
    BY <1>0, <1>2, ReadFacts DEF ReadText, shown, journal
  <2> QED BY <1>0, <2>1 DEF OnceInv, Behind
<1>3. CASE Refresh(v)
  <2>1. /\ UNCHANGED <<lines, cursor, from, text, base, sent>>
        /\ \/ stage[v] = "seed_refresh" /\ stage'[v] = "seed_set"
           \/ stage[v] = "refresh" /\ stage'[v] = "set"
        /\ upto'[v] = Refreshed(v)
    BY <1>0, <1>3, RefreshFacts DEF Refresh, shown, journal
  <2>2. base[v] <= lines
    BY <1>0 DEF PollOf
  <2>3. /\ lines <= upto'[v]
        /\ upto'[v] = None => lines = 0
    BY <1>0, <2>1, LogNumbers DEF Refreshed
  <2>4. base[v] \in Nat /\ base[v] <= upto'[v] /\ lines \in Nat /\ upto'[v] \in Nat
    BY <1>0, <2>1, <2>2, <2>3, LogNumbers DEF Refreshed
  <2>5. \A n \in Lines : n <= lines => n <= upto'[v]
    BY <1>0, <2>3, <2>4
  <2>6. CASE stage'[v] = "seed_set"
    <3>1. upto'[v] = None => base[v] = 0
      BY <2>2, <2>3, <2>4
    <3> QED BY <1>0, <2>1, <2>4, <2>6, <3>1 DEF OnceInv
  <2>7. CASE stage'[v] = "set"
    <3>1. \A n \in text[v] : n \in Lines /\ n <= lines
      BY <1>0, <2>1, <2>7, LogNumbers DEF PollOf
    <3> QED BY <1>0, <2>1, <2>2, <2>4, <2>5, <2>7, <3>1 DEF OnceInv, Behind
  <2> QED BY <2>1, <2>6, <2>7
<1>4. CASE SetCursor(v)
  <2>1. /\ UNCHANGED <<lines, base>> /\ stage'[v] = "poll" /\ stage[v] \in {"seed_set", "set"}
        /\ cursor' = IF upto[v] # None THEN upto[v] ELSE cursor
    BY <1>0, <1>4 DEF SetCursor, Enters, LogTypeOK
  <2>2. /\ base[v] \in Nat /\ cursor \in Nat /\ upto[v] \in Nat /\ from[v] \in Nat
        /\ lines \in Nat /\ cursor' \in Nat
    BY <1>0, <2>1, LogNumbers
  <2>3. base[v] <= lines /\ base[v] <= cursor'
    BY <1>0, <2>1, <2>2 DEF OnceInv, Behind, PollOf
  <2>4. ASSUME NEW n \in Lines, sent'[v][n] >= 1
        PROVE  /\ sent'[v][n] = 1 /\ base[v] < n /\ n <= lines /\ n <= cursor'
    <3>1. sent'[v][n] = IF n \in Delivered(v) /\ sent[v][n] < 2
                        THEN sent[v][n] + 1 ELSE sent[v][n]
      BY <1>0, <1>4, SetFacts
    <3>2. CASE n \in Delivered(v)
      <4>1. /\ stage[v] = "set" /\ from[v] # None /\ n \in text[v] /\ n > from[v]
            /\ upto[v] # None
        BY <1>0, <3>2 DEF Delivered, PollOf
      <4>2. sent[v][n] = 0
        BY <1>0, <2>2, <4>1 DEF OnceInv, Behind
      <4>3. n <= lines /\ n <= cursor' /\ base[v] <= from[v]
        BY <1>0, <2>1, <4>1 DEF OnceInv, Behind
      <4> QED BY <1>0, <2>2, <3>1, <3>2, <4>1, <4>2, <4>3
    <3>3. CASE n \notin Delivered(v)
      <4>1. sent[v][n] >= 1 /\ stage[v] = "set"
        BY <1>0, <2>1, <2>4, <3>1, <3>3 DEF OnceInv
      <4>2. n <= upto[v] /\ n <= cursor
        BY <1>0, <4>1 DEF OnceInv, Behind
      <4> QED BY <1>0, <2>1, <3>1, <3>3, <4>1, <4>2 DEF OnceInv, Behind
    <3> QED BY <3>2, <3>3
  <2> QED BY <1>0, <2>1, <2>3, <2>4 DEF OnceInv, Behind
<1>5. CASE Leave(v)
  <2>1. UNCHANGED <<lines, cursor, from, text, upto, base, sent>> /\ stage'[v] = "off"
    BY <1>0, <1>5 DEF Leave, Enters, LogTypeOK, shown, journal, locals
  <2> QED BY <1>0, <2>1 DEF OnceInv, Behind
<1> QED BY <1>1, <1>2, <1>3, <1>4, <1>5

(* Nobody else takes a step while a viewer is alone, but the worker and the  *)
(* starts of the unit.                                                       *)
LEMMA AloneKept == LogInv /\ [LogNext]_logVars => AloneInv'
<1> SUFFICES ASSUME LogInv, [LogNext]_logVars, NEW w \in Viewers PROVE AloneOf(w)'
  BY DEF AloneInv
<1>0. LogTypeOK /\ AloneOf(w) /\ None' = None /\ PollOf(w) /\ Lines' = Lines
  BY DEF LogInv, AloneInv, None, PollInv, Lines
<1> USE DEF journal, locals, shown, past
<1>1. CASE UNCHANGED <<lines, cursor, stage, from, text, upto, base, sent, alone, failed>>
  BY <1>0, <1>1 DEF AloneOf, OnceInv, Behind
<1>2. CASE Write
  <2>1. /\ lines' = lines + 1
        /\ UNCHANGED <<cursor, stage, from, text, upto, base, sent, alone, failed>>
    BY <1>2 DEF Write
  <2> QED BY <1>0, <2>1, LogNumbers DEF AloneOf, OnceInv, Behind
<1>3. CASE Reset
  <2>1. /\ cursor' = None
        /\ UNCHANGED <<lines, stage, from, text, upto, base, sent, alone, failed>>
    BY <1>3 DEF Reset
  <2> QED BY <1>0, <2>1, LogNumbers DEF AloneOf, OnceInv, Behind
<1>4. ASSUME NEW v \in Viewers, Connect(v) PROVE AloneOf(w)'
  <2>1. /\ alone'[w] => w = v /\ \A u \in Viewers : stage[u] = "off"
        /\ stage'[v] = "seed" /\ \A u \in Viewers : u # v => stage'[u] = stage[u]
        /\ \A n \in Lines : sent'[v][n] = 0
    BY <1>0, <1>4 DEF Connect, Enters, LogTypeOK
  <2>2. w = v => OnceInv(v)'
    BY <1>0, <2>1 DEF OnceInv
  <2> QED BY <2>1, <2>2 DEF AloneOf
<1>5. ASSUME NEW v \in Viewers,
             ReadCursor(v) \/ ReadText(v) \/ Refresh(v) \/ SetCursor(v) \/ Leave(v)
      PROVE  AloneOf(w)'
  <2>1. /\ UNCHANGED alone /\ stage[v] # "off"
        /\ \A u \in Viewers : u # v => stage'[u] = stage[u]
        /\ ~failed'[v] => ~failed[v]
    BY <1>0, <1>5 DEF ReadCursor, ReadText, Refresh, SetCursor, Leave, Enters, LogTypeOK
  <2>2. CASE w = v
    <3>1. alone[w] /\ ~failed'[w] => OnceInv(v)'
      BY <1>0, <1>5, <2>1, <2>2, OnceKept DEF AloneOf
    <3> QED BY <1>0, <2>1, <2>2, <3>1 DEF AloneOf
  <2>3. CASE w # v
    <3>1. ~alone[w]
      BY <1>0, <2>1, <2>3 DEF AloneOf
    <3> QED BY <2>1, <3>1 DEF AloneOf
  <2> QED BY <2>2, <2>3
<1>6. CASE UNCHANGED logVars
  BY <1>1, <1>6 DEF logVars
<1> QED BY <1>2, <1>3, <1>4, <1>5, <1>6 DEF LogNext, View

(* The inductive invariant of the log.                                       *)
LEMMA LogHolds == LogSpec => []LogInv
<1>1. LogInv /\ [LogNext]_logVars => LogInv'
  BY LogTyped, PollKept, StepBackKept, AloneKept DEF LogInv
<1> QED BY LogStarts, <1>1, PTL DEF LogSpec

(* A viewer who has been alone since it connected, and for whom no refresh   *)
(* failed, gets no line twice and none of the snapshot again, whatever start *)
(* of the unit emptied the cursor meanwhile.                                 *)
THEOREM LoneViewerGetsLinesOnce == LogSpec => []LinesOnce
<1>1. LogInv => LinesOnce
  <2> SUFFICES ASSUME LogInv, NEW v \in Viewers, NEW n \in Lines, alone[v], ~failed[v]
               PROVE  sent[v][n] <= IF n <= base[v] THEN 0 ELSE 1
    BY DEF LogInv, LinesOnce
  <2>1. OnceInv(v) /\ sent[v][n] \in 0..2 /\ n \in Nat /\ base[v] \in Nat
    BY LogNumbers DEF LogInv, AloneInv, AloneOf
  <2> QED BY <2>1 DEF OnceInv
<1> QED BY LogHolds, <1>1, PTL

(* With any number of viewers, a line a viewer gets twice is one the shared  *)
(* cursor was put back before.                                               *)
THEOREM LinesTwiceOnlyAfterStepBack == LogSpec => []TwiceAfterStepBack
<1>1. LogInv => TwiceAfterStepBack
  BY DEF LogInv
<1> QED BY LogHolds, <1>1, PTL
=============================================================================
