------------------------------ MODULE MailPool ------------------------------
(* The pool of mailboxes created in advance: one producer thread fills a     *)
(* bounded queue, the workers take from it or create a mailbox themselves,   *)
(* and the main thread stops and drains it at the end of the run.            *)
EXTENDS Naturals, Sequences, SequencesExt, FiniteSets

CONSTANTS Workers,
          Target,        \* mail_pool_size
          QueueSize,     \* maxsize of _mail_pool (16)
          Attempts,      \* attempts of one creation (3)
          MaxBoxes       \* model bound on mailboxes the provider creates

ASSUME SizesAssumption == /\ Target \in Nat /\ QueueSize \in Nat \ {0}
                          /\ Attempts \in Nat \ {0} /\ MaxBoxes \in Nat

VARIABLES pool,      \* _mail_pool
          created,   \* mailboxes created so far, also the last one's number
          producer, box,       \* the pool thread and the mailbox in its hand
          worker, attempt,     \* the workers and their attempts
          held,      \* mailboxes handed out, per worker
          lost,      \* mailboxes the producer could not put
          drained,   \* mailboxes thrown away by stop_mail_pool
          stop,      \* _mail_pool_stop
          main

vars == <<pool, created, producer, box, worker, attempt, held, lost, drained, stop, main>>

Boxes == 1..MaxBoxes
NoBox == 0

TypeOK ==
    /\ pool \in Seq(Boxes) /\ Len(pool) <= QueueSize
    /\ created \in 0..MaxBoxes
    /\ producer \in {"off", "check", "create", "put", "wait", "ended"}
    /\ box \in Boxes \union {NoBox}
    /\ worker \in [Workers -> {"idle", "create", "raised"}]
    /\ attempt \in [Workers -> 0..Attempts]
    /\ held \in [Workers -> SUBSET Boxes]
    /\ lost \subseteq Boxes /\ drained \subseteq Boxes
    /\ stop \in BOOLEAN
    /\ main \in {"start", "run", "drain", "done"}

Init ==
    /\ pool = <<>> /\ created = 0
    /\ producer = "off" /\ box = NoBox
    /\ worker = [w \in Workers |-> "idle"]
    /\ attempt = [w \in Workers |-> 0]
    /\ held = [w \in Workers |-> {}]
    /\ lost = {} /\ drained = {}
    /\ stop = FALSE
    /\ main = "start"

(* start_mail_pool: no thread for an empty pool.                             *)
StartPool ==
    /\ main = "start"
    /\ main' = "run"
    /\ producer' = IF Target > 0 THEN "check" ELSE "off"
    /\ UNCHANGED <<pool, created, box, worker, attempt, held, lost, drained, stop>>

(* Mutants: one mailbox too many; the stop flag is not looked at.            *)
CheckOver ==
    /\ producer = "check"
    /\ producer' = IF stop THEN "ended"
                   ELSE IF Len(pool) > Target THEN "wait" ELSE "create"
    /\ UNCHANGED <<pool, created, box, worker, attempt, held, lost, drained, stop, main>>

CheckOnly ==
    /\ producer = "check"
    /\ producer' = IF Len(pool) >= Target THEN "wait" ELSE "create"
    /\ UNCHANGED <<pool, created, box, worker, attempt, held, lost, drained, stop, main>>

(* while not stop: if the pool is full enough, wait, else create one more.   *)
Check ==
    /\ producer = "check"
    /\ producer' = IF stop THEN "ended"
                   ELSE IF Len(pool) >= Target THEN "wait" ELSE "create"
    /\ UNCHANGED <<pool, created, box, worker, attempt, held, lost, drained, stop, main>>

(* shiromail_get_email_and_token(use_pool=False): a mailbox or an exception. *)
ProducerCreates ==
    /\ producer = "create"
    /\ \/ /\ created < MaxBoxes
          /\ created' = created + 1
          /\ box' = created + 1
          /\ producer' = "put"
       \/ producer' = "wait" /\ UNCHANGED <<created, box>>
    /\ UNCHANGED <<pool, worker, attempt, held, lost, drained, stop, main>>

(* put(pair, timeout=2): Full is an exception like any other, and the        *)
(* mailbox is forgotten.                                                     *)
Put ==
    /\ producer = "put"
    /\ box' = NoBox
    /\ IF Len(pool) < QueueSize
       THEN pool' = Append(pool, box) /\ producer' = "check" /\ UNCHANGED lost
       ELSE lost' = lost \union {box} /\ producer' = "wait" /\ UNCHANGED pool
    /\ UNCHANGED <<created, worker, attempt, held, drained, stop, main>>

(* _mail_pool_stop.wait(seconds)                                             *)
Wait ==
    /\ producer = "wait"
    /\ producer' = IF stop THEN "ended" ELSE "check"
    /\ UNCHANGED <<pool, created, box, worker, attempt, held, lost, drained, stop, main>>

(* Mutant: the mailbox stays in the queue.                                   *)
TakePeek(w) ==
    /\ worker[w] = "idle" /\ main # "start"
    /\ IF pool # <<>>
       THEN /\ held' = [held EXCEPT ![w] = @ \union {Head(pool)}]
            /\ UNCHANGED <<pool, worker, attempt>>
       ELSE /\ worker' = [worker EXCEPT ![w] = "create"]
            /\ attempt' = [attempt EXCEPT ![w] = 1]
            /\ UNCHANGED <<pool, held>>
    /\ UNCHANGED <<created, producer, box, lost, drained, stop, main>>

(* A worker needs a mailbox: get_nowait, or it creates one itself.           *)
Take(w) ==
    /\ worker[w] = "idle" /\ main # "start"
    /\ IF Target > 0 /\ pool # <<>>
       THEN /\ held' = [held EXCEPT ![w] = @ \union {Head(pool)}]
            /\ pool' = Tail(pool)
            /\ UNCHANGED <<worker, attempt>>
       ELSE /\ worker' = [worker EXCEPT ![w] = "create"]
            /\ attempt' = [attempt EXCEPT ![w] = 1]
            /\ UNCHANGED <<pool, held>>
    /\ UNCHANGED <<created, producer, box, lost, drained, stop, main>>

(* Mutant: the last attempt is counted too late.                             *)
WorkerCreatesMore(w) ==
    /\ worker[w] = "create"
    /\ attempt[w] <= Attempts
    /\ attempt' = [attempt EXCEPT ![w] = @ + 1]
    /\ UNCHANGED <<pool, created, producer, box, worker, held, lost, drained, stop, main>>

(* One attempt of the worker: a mailbox, another attempt, or an exception.   *)
WorkerCreates(w) ==
    /\ worker[w] = "create"
    /\ \/ /\ created < MaxBoxes
          /\ created' = created + 1
          /\ held' = [held EXCEPT ![w] = @ \union {created + 1}]
          /\ worker' = [worker EXCEPT ![w] = "idle"]
          /\ attempt' = [attempt EXCEPT ![w] = 0]
       \/ /\ IF attempt[w] < Attempts
             THEN attempt' = [attempt EXCEPT ![w] = @ + 1] /\ UNCHANGED worker
             ELSE /\ attempt' = [attempt EXCEPT ![w] = 0]
                  /\ worker' = [worker EXCEPT ![w] = "raised"]
          /\ UNCHANGED <<created, held>>
    /\ UNCHANGED <<pool, producer, box, lost, drained, stop, main>>

(* The registration failed for want of a mailbox; the worker goes on.        *)
Recover(w) ==
    /\ worker[w] = "raised"
    /\ worker' = [worker EXCEPT ![w] = "idle"]
    /\ UNCHANGED <<pool, created, producer, box, attempt, held, lost, drained, stop, main>>

(* Mutant: the flag is not set.                                              *)
StopUnset ==
    /\ main = "run"
    /\ main' = "drain"
    /\ UNCHANGED <<pool, created, producer, box, worker, attempt, held, lost, drained, stop>>

(* stop_mail_pool in the final block: workers that were not waited for, and  *)
(* the producer, may still be at work.                                       *)
Stop ==
    /\ main = "run"
    /\ stop' = TRUE
    /\ main' = "drain"
    /\ UNCHANGED <<pool, created, producer, box, worker, attempt, held, lost, drained>>

(* Mutant: a drain that throws the producer's mailbox away too.              *)
DrainBox ==
    /\ main = "drain"
    /\ IF pool # <<>>
       THEN pool' = Tail(pool) /\ drained' = drained \union {Head(pool), created} /\ UNCHANGED main
       ELSE main' = "done" /\ UNCHANGED <<pool, drained>>
    /\ UNCHANGED <<created, producer, box, worker, attempt, held, lost, stop>>

Drain ==
    /\ main = "drain"
    /\ IF pool # <<>>
       THEN pool' = Tail(pool) /\ drained' = drained \union {Head(pool)} /\ UNCHANGED main
       ELSE main' = "done" /\ UNCHANGED <<pool, drained>>
    /\ UNCHANGED <<created, producer, box, worker, attempt, held, lost, stop>>

Producer == Check \/ ProducerCreates \/ Put \/ Wait
Main == StartPool \/ Stop \/ Drain
Worker(w) == Take(w) \/ WorkerCreates(w) \/ Recover(w)

Next == Producer \/ Main \/ \E w \in Workers : Worker(w)

Spec == Init /\ [][Next]_vars
FairSpec == Spec /\ WF_vars(Producer) /\ WF_vars(Main)
-----------------------------------------------------------------------------
(* Every mailbox the provider created is in exactly one place: in the queue, *)
(* in the producer's hand, with one worker, drained or lost. No two accounts *)
(* share a mailbox and none vanishes, whatever the threads do.               *)
InHand == IF box = NoBox THEN {} ELSE {box}
Handed == UNION {held[w] : w \in Workers}

EveryBoxOnce ==
    /\ ToSet(pool) \union InHand \union Handed \union lost \union drained = 1..created
    /\ Len(pool) + Cardinality(InHand) + Cardinality(Handed) + Cardinality(lost)
           + Cardinality(drained) = created
    /\ \A v, w \in Workers : v # w => held[v] \intersect held[w] = {}

(* The producer alone fills the pool, so what it saw before it created a     *)
(* mailbox still holds when it puts it: the pool never grows past Target,    *)
(* and with a target the queue can hold no mailbox is ever lost.             *)
NeverTooMany ==
    /\ Len(pool) + Cardinality(InHand) <= Target
    /\ Target <= QueueSize => lost = {}

(* What is left after the drain is the one mailbox that was being created.   *)
AtMostOneLeft == main = "done" => Len(pool) + Cardinality(InHand) <= 1

(* Each mailbox the provider created has one fate, before and after the end  *)
(* of the pool.                                                              *)
BoxesAccountedFor == EveryBoxOnce /\ AtMostOneLeft

(* After stop_mail_pool the producer ends and the drain ends.                *)
PoolEnds == (main = "drain") ~> (main = "done" /\ producer \in {"off", "ended"})
=============================================================================
