----------------------------- MODULE MailProofs -----------------------------
(* The mailboxes and their domain. For every pool size, queue size, number   *)
(* of workers and attempts: the pool never overfills, and with a target the  *)
(* queue can hold no mailbox is lost. For every number of threads and        *)
(* lifetime of the cached domain: no storm of requests for it, no old hit.   *)
EXTENDS MailPool, DomainCache, FiniteSetTheorems, TLAPS

USE SizesAssumption, TimesAssumption DEF SizesAssumption, TimesAssumption

(* The mailbox in the producer's hand is the one it is about to put; before  *)
(* the start there is no producer.                                           *)
BoxInv == /\ box = NoBox <=> producer # "put"
          /\ main = "start" => producer = "off"

(* What the producer saw when it went to create still holds: only it fills   *)
(* the pool.                                                                 *)
RoomInv == /\ Len(pool) <= Target
           /\ producer \in {"create", "put"} => Len(pool) < Target

LostInv == Target <= QueueSize => lost = {}

IInv == TypeOK /\ BoxInv /\ RoomInv /\ LostInv

(* Taking the head of a sequence shortens it by one.                         *)
LEMMA TailShorter ==
    ASSUME NEW S, NEW s \in Seq(S), s # <<>>
    PROVE  /\ Head(s) \in S
           /\ Tail(s) \in Seq(S)
           /\ Len(s) \in Nat \ {0}
           /\ Len(Tail(s)) = Len(s) - 1
  OBVIOUS

(* Appending makes it longer by one.                                         *)
LEMMA AppendLonger ==
    ASSUME NEW S, NEW s \in Seq(S), NEW e \in S
    PROVE  /\ Append(s, e) \in Seq(S)
           /\ Len(Append(s, e)) = Len(s) + 1
  OBVIOUS

LEMMA InitInvariant == Init => IInv
  <1> SUFFICES ASSUME Init PROVE IInv
    OBVIOUS
  <1>1. pool \in Seq(Boxes) /\ Len(pool) = 0
    BY DEF Init
  <1>2. stop \in BOOLEAN
    BY DEF Init
  <1>3. TypeOK
    BY <1>1, <1>2 DEF Init, TypeOK
  <1>4. BoxInv /\ LostInv
    BY DEF Init, BoxInv, LostInv
  <1>5. RoomInv
    BY <1>1 DEF Init, RoomInv
  <1> QED
    BY <1>3, <1>4, <1>5 DEF IInv

(* The steps of the producer.                                                *)
LEMMA ProducerKeeps == IInv /\ Producer => IInv'
  <1> SUFFICES ASSUME IInv, Producer PROVE IInv'
    OBVIOUS
  <1>0. Len(pool) \in Nat
    BY DEF IInv, TypeOK
  <1>1. CASE Check
    BY <1>0, <1>1 DEF Check, IInv, TypeOK, BoxInv, RoomInv, LostInv
  <1>2. CASE ProducerCreates
    <2>1. created \in Nat /\ created + 1 # NoBox
      BY DEF IInv, TypeOK, NoBox
    <2>2. TypeOK'
      BY <1>2, <2>1 DEF ProducerCreates, IInv, TypeOK, Boxes
    <2>3. BoxInv' /\ RoomInv' /\ LostInv'
      BY <1>0, <1>2, <2>1 DEF ProducerCreates, IInv, TypeOK, BoxInv, RoomInv, LostInv
    <2> QED
      BY <2>2, <2>3 DEF IInv
  <1>3. CASE Put
    <2>1. box \in Boxes
      BY <1>3 DEF Put, IInv, TypeOK, BoxInv
    <2>2. CASE Len(pool) < QueueSize
      <3>1. /\ pool' = Append(pool, box) /\ producer' = "check" /\ lost' = lost
            /\ box' = NoBox
        BY <1>3, <2>2 DEF Put
      <3>2. pool' \in Seq(Boxes) /\ Len(pool') = Len(pool) + 1
        BY <2>1, <3>1, AppendLonger DEF IInv, TypeOK
      <3>3. TypeOK'
        BY <1>0, <1>3, <2>2, <3>1, <3>2 DEF Put, IInv, TypeOK
      <3>4. RoomInv'
        BY <1>0, <1>3, <3>1, <3>2 DEF Put, IInv, RoomInv
      <3>5. BoxInv'
        BY <1>3, <3>1 DEF Put, IInv, BoxInv
      <3>6. LostInv'
        BY <3>1 DEF IInv, LostInv
      <3> QED
        BY <3>3, <3>4, <3>5, <3>6 DEF IInv
    <2>3. CASE ~(Len(pool) < QueueSize)
      <3>1. /\ pool' = pool /\ producer' = "wait" /\ lost' = lost \union {box}
            /\ box' = NoBox
        BY <1>3, <2>3 DEF Put
      <3>2. ~(Target <= QueueSize)
        BY <1>0, <1>3, <2>3 DEF Put, IInv, RoomInv
      <3>3. TypeOK'
        BY <1>3, <2>1, <3>1 DEF Put, IInv, TypeOK
      <3>4. BoxInv'
        BY <1>3, <3>1 DEF Put, IInv, BoxInv
      <3>5. RoomInv' /\ LostInv'
        BY <3>1, <3>2 DEF IInv, RoomInv, LostInv
      <3> QED
        BY <3>3, <3>4, <3>5 DEF IInv
    <2> QED
      BY <2>2, <2>3
  <1>4. CASE Wait
    BY <1>0, <1>4 DEF Wait, IInv, TypeOK, BoxInv, RoomInv, LostInv
  <1> QED
    BY <1>1, <1>2, <1>3, <1>4 DEF Producer

(* The steps of the main thread.                                             *)
LEMMA MainKeeps == IInv /\ Main => IInv'
  <1> SUFFICES ASSUME IInv, Main PROVE IInv'
    OBVIOUS
  <1>0. Len(pool) \in Nat
    BY DEF IInv, TypeOK
  <1>1. CASE StartPool
    <2>1. producer' \in {"check", "off"}
      BY <1>1 DEF StartPool
    <2>2. TypeOK'
      BY <1>1, <2>1 DEF StartPool, IInv, TypeOK
    <2> QED
      BY <1>0, <1>1, <2>1, <2>2 DEF StartPool, IInv, BoxInv, RoomInv, LostInv
  <1>2. CASE Stop
    BY <1>0, <1>2 DEF Stop, IInv, TypeOK, BoxInv, RoomInv, LostInv
  <1>3. CASE Drain
    <2>1. CASE pool # <<>>
      <3>1. /\ pool' = Tail(pool) /\ drained' = drained \union {Head(pool)}
            /\ main' = main
        BY <1>3, <2>1 DEF Drain
      <3>2. Head(pool) \in Boxes /\ pool' \in Seq(Boxes) /\ Len(pool') = Len(pool) - 1
        BY <2>1, <3>1, TailShorter DEF IInv, TypeOK
      <3>3. TypeOK'
        BY <1>0, <1>3, <3>1, <3>2 DEF Drain, IInv, TypeOK
      <3>4. RoomInv'
        BY <1>0, <1>3, <3>2 DEF Drain, IInv, RoomInv
      <3> QED
        BY <1>3, <3>3, <3>4 DEF Drain, IInv, BoxInv, LostInv
    <2>2. CASE pool = <<>>
      BY <1>0, <1>3, <2>2 DEF Drain, IInv, TypeOK, BoxInv, RoomInv, LostInv
    <2> QED
      BY <2>1, <2>2
  <1> QED
    BY <1>1, <1>2, <1>3 DEF Main

(* The steps of a worker.                                                    *)
LEMMA WorkerKeeps ==
    ASSUME NEW w \in Workers, IInv, Worker(w)
    PROVE  IInv'
  <1>0. Len(pool) \in Nat
    BY DEF IInv, TypeOK
  <1>1. CASE Take(w)
    <2>1. CASE Target > 0 /\ pool # <<>>
      <3>1. /\ held' = [held EXCEPT ![w] = @ \union {Head(pool)}]
            /\ pool' = Tail(pool)
        BY <1>1, <2>1 DEF Take
      <3>2. Head(pool) \in Boxes /\ pool' \in Seq(Boxes) /\ Len(pool') = Len(pool) - 1
        BY <2>1, <3>1, TailShorter DEF IInv, TypeOK
      <3>3. TypeOK'
        BY <1>0, <1>1, <2>1, <3>1, <3>2 DEF Take, IInv, TypeOK
      <3>4. RoomInv'
        BY <1>0, <1>1, <3>2 DEF Take, IInv, RoomInv
      <3> QED
        BY <1>1, <3>3, <3>4 DEF Take, IInv, BoxInv, LostInv
    <2>2. CASE ~(Target > 0 /\ pool # <<>>)
      <3>1. /\ worker' = [worker EXCEPT ![w] = "create"]
            /\ attempt' = [attempt EXCEPT ![w] = 1]
            /\ pool' = pool /\ held' = held
        BY <1>1, <2>2 DEF Take
      <3>2. TypeOK'
        BY <1>1, <3>1 DEF Take, IInv, TypeOK
      <3>3. BoxInv'
        BY <1>1 DEF Take, IInv, BoxInv
      <3>4. RoomInv' /\ LostInv'
        BY <1>1, <3>1 DEF Take, IInv, RoomInv, LostInv
      <3> QED
        BY <3>2, <3>3, <3>4 DEF IInv
    <2> QED
      BY <2>1, <2>2
  <1>2. CASE WorkerCreates(w)
    <2>1. created \in Nat /\ attempt[w] \in 0..Attempts
      BY DEF IInv, TypeOK
    <2>2. worker' \in [Workers -> {"idle", "create", "raised"}]
      BY <1>2 DEF WorkerCreates, IInv, TypeOK
    <2>3. attempt' \in [Workers -> 0..Attempts]
      BY <1>2, <2>1 DEF WorkerCreates, IInv, TypeOK
    <2>4. created' \in 0..MaxBoxes /\ held' \in [Workers -> SUBSET Boxes]
      <3>1. CASE /\ created < MaxBoxes /\ created' = created + 1
                 /\ held' = [held EXCEPT ![w] = @ \union {created + 1}]
        <4>1. created + 1 \in Boxes
          BY <2>1, <3>1 DEF Boxes
        <4> QED
          BY <2>1, <3>1, <4>1 DEF IInv, TypeOK
      <3>2. CASE UNCHANGED <<created, held>>
        BY <3>2 DEF IInv, TypeOK
      <3> QED
        BY <1>2, <3>1, <3>2 DEF WorkerCreates
    <2>5. UNCHANGED <<pool, producer, box, lost, drained, stop, main>>
      BY <1>2 DEF WorkerCreates
    <2>6. TypeOK'
      BY <2>2, <2>3, <2>4, <2>5 DEF IInv, TypeOK
    <2>7. BoxInv' /\ RoomInv' /\ LostInv'
      BY <2>5 DEF IInv, BoxInv, RoomInv, LostInv
    <2> QED
      BY <2>6, <2>7 DEF IInv
  <1>3. CASE Recover(w)
    BY <1>0, <1>3 DEF Recover, IInv, TypeOK, BoxInv, RoomInv, LostInv
  <1> QED
    BY <1>1, <1>2, <1>3 DEF Worker

LEMMA StepInvariant == IInv /\ [Next]_vars => IInv'
  <1> SUFFICES ASSUME IInv, [Next]_vars PROVE IInv'
    OBVIOUS
  <1>1. CASE Producer
    BY <1>1, ProducerKeeps
  <1>2. CASE Main
    BY <1>2, MainKeeps
  <1>3. CASE \E w \in Workers : Worker(w)
    BY <1>3, WorkerKeeps
  <1>4. CASE UNCHANGED vars
    BY <1>4 DEF vars, IInv, TypeOK, BoxInv, RoomInv, LostInv
  <1> QED
    BY <1>1, <1>2, <1>3, <1>4 DEF Next

(* A producer without a mailbox in its hand holds none, else one.            *)
LEMMA NeverTooManyFollows == IInv => NeverTooMany
  <1> SUFFICES ASSUME IInv PROVE NeverTooMany
    OBVIOUS
  <1>0. Len(pool) \in Nat
    BY DEF IInv, TypeOK
  <1>1. CASE box = NoBox
    <2>1. Cardinality(InHand) = 0
      BY <1>1, FS_EmptySet DEF InHand
    <2> QED
      BY <1>0, <2>1 DEF IInv, RoomInv, LostInv, NeverTooMany
  <1>2. CASE box # NoBox
    <2>1. Cardinality(InHand) = 1
      BY <1>2, FS_Singleton DEF InHand
    <2>2. producer = "put"
      BY <1>2 DEF IInv, BoxInv
    <2> QED
      BY <1>0, <2>1, <2>2 DEF IInv, RoomInv, LostInv, NeverTooMany
  <1> QED
    BY <1>1, <1>2

(* Every state of the pool has its type: in particular the queue never holds *)
(* more than its size and no worker tries more often than it may.            *)
THEOREM PoolTypeCorrect == Spec => []TypeOK
  <1>1. IInv => TypeOK
    BY DEF IInv
  <1> QED
    BY <1>1, InitInvariant, StepInvariant, PTL DEF Spec

(* start_mail_pool, _mail_pool_worker, get_nowait and stop_mail_pool: the    *)
(* pool never grows past its target, and loses nothing if the target fits.   *)
THEOREM PoolNeverOverfills == Spec => []NeverTooMany
  BY InitInvariant, StepInvariant, NeverTooManyFollows, PTL DEF Spec

-----------------------------------------------------------------------------
(* The places a mailbox can be in share none, whoever moves it on, and the   *)
(* queue holds none twice.                                                   *)
Queued == ToSet(pool)

QueueInv ==
    /\ \A i, j \in DOMAIN pool : pool[i] = pool[j] => i = j
    /\ Len(pool) = Cardinality(Queued)

PartInv ==
    /\ Queued \union InHand \union Handed \union lost \union drained = 1..created
    /\ Queued \intersect InHand = {}
    /\ Handed \intersect (Queued \union InHand) = {}
    /\ lost \intersect (Queued \union InHand \union Handed) = {}
    /\ drained \intersect (Queued \union InHand \union Handed \union lost) = {}
    /\ \A v, w \in Workers : v # w => held[v] \intersect held[w] = {}

(* Once the queue is drained the producer, which sees the flag before it     *)
(* creates again, fills in at most the mailbox it was at.                    *)
EndInv ==
    /\ main \in {"drain", "done"} => stop
    /\ main = "done" => \/ pool = <<>>
                        \/ Len(pool) = 1 /\ producer \notin {"create", "put"}

BoxesInv == QueueInv /\ PartInv /\ EndInv

(* Appending a new element adds it and nothing else.                         *)
LEMMA AppendSet ==
    ASSUME NEW S, NEW s \in Seq(S), NEW x \in S, x \notin ToSet(s),
           \A i, j \in DOMAIN s : s[i] = s[j] => i = j
    PROVE  LET r == Append(s, x)
           IN  /\ \A i, j \in DOMAIN r : r[i] = r[j] => i = j
               /\ ToSet(r) = ToSet(s) \union {x}
  <1> DEFINE r == Append(s, x)
  <1>1. /\ DOMAIN r = 1..(Len(s) + 1) /\ DOMAIN s = 1..Len(s) /\ Len(s) \in Nat
        /\ \A i \in 1..Len(s) : r[i] = s[i]
        /\ r[Len(s) + 1] = x
    OBVIOUS
  <1>2. \A i \in 1..Len(s) : s[i] \in ToSet(s)
    BY <1>1 DEF ToSet
  <1> HIDE DEF r
  <1>3. ASSUME NEW i \in DOMAIN r, NEW j \in DOMAIN r, r[i] = r[j] PROVE i = j
    BY <1>1, <1>2, <1>3
  <1>4. ToSet(r) = ToSet(s) \union {x}
    BY <1>1 DEF ToSet
  <1> QED
    BY <1>3, <1>4 DEF r

(* Without repetition, the tail has all elements but the head.               *)
LEMMA TailSet ==
    ASSUME NEW S, NEW s \in Seq(S), s # <<>>,
           \A i, j \in DOMAIN s : s[i] = s[j] => i = j
    PROVE  LET r == Tail(s)
           IN  /\ \A i, j \in DOMAIN r : r[i] = r[j] => i = j
               /\ ToSet(r) = ToSet(s) \ {Head(s)} /\ Head(s) \in ToSet(s)
  <1> DEFINE r == Tail(s)
  <1>1. /\ DOMAIN r = 1..(Len(s) - 1) /\ DOMAIN s = 1..Len(s) /\ Len(s) \in Nat \ {0}
        /\ \A i \in 1..(Len(s) - 1) : r[i] = s[i + 1]
        /\ Head(s) = s[1]
    OBVIOUS
  <1> HIDE DEF r
  <1>2. ASSUME NEW i \in DOMAIN r, NEW j \in DOMAIN r, r[i] = r[j] PROVE i = j
    BY <1>1, <1>2
  <1>3. Head(s) \in ToSet(s)
    BY <1>1 DEF ToSet
  <1>4. ASSUME NEW y \in ToSet(r) PROVE y \in ToSet(s) \ {Head(s)}
    BY <1>1, <1>4 DEF ToSet
  <1>5. ASSUME NEW y \in ToSet(s), y # Head(s) PROVE y \in ToSet(r)
    <2>1. PICK i \in 1..Len(s) : y = s[i]
      BY <1>1, <1>5 DEF ToSet
    <2>2. i - 1 \in 1..(Len(s) - 1) /\ r[i - 1] = y
      BY <1>1, <1>5, <2>1
    <2> QED
      BY <1>1, <2>2 DEF ToSet
  <1>6. ToSet(r) = ToSet(s) \ {Head(s)}
    BY <1>4, <1>5
  <1> QED
    BY <1>2, <1>3, <1>6 DEF r

LEMMA BoxesFinite ==
    ASSUME TypeOK
    PROVE  /\ Queued \subseteq Boxes /\ InHand \subseteq Boxes /\ Handed \subseteq Boxes
           /\ IsFiniteSet(Boxes)
           /\ \A S \in SUBSET Boxes : IsFiniteSet(S)
  <1>1. Queued \subseteq Boxes
    BY DEF TypeOK, Queued, ToSet
  <1>2. InHand \subseteq Boxes /\ Handed \subseteq Boxes
    BY DEF TypeOK, InHand, Handed
  <1>3. IsFiniteSet(Boxes)
    BY FS_Interval DEF Boxes
  <1> QED
    BY <1>1, <1>2, <1>3, FS_Subset

(* A mailbox put into the queue, or taken from it.                           *)
LEMMA Enqueued ==
    ASSUME TypeOK, QueueInv, NEW x \in Boxes, x \notin Queued, pool' = Append(pool, x)
    PROVE  QueueInv' /\ Queued' = Queued \union {x}
  <1>1. pool \in Seq(Boxes) /\ IsFiniteSet(Queued)
    BY BoxesFinite DEF TypeOK
  <1>2. Queued' = Queued \union {x} /\ \A i, j \in DOMAIN pool' : pool'[i] = pool'[j] => i = j
    BY <1>1, AppendSet DEF Queued, QueueInv
  <1>3. Len(pool') = Len(pool) + 1
    BY <1>1, AppendLonger
  <1>4. Cardinality(Queued \union {x}) = Cardinality(Queued) + 1
    BY <1>1, FS_AddElement
  <1> QED
    BY <1>2, <1>3, <1>4 DEF QueueInv

LEMMA Dequeued ==
    ASSUME TypeOK, QueueInv, pool # <<>>, pool' = Tail(pool)
    PROVE  QueueInv' /\ Queued' = Queued \ {Head(pool)} /\ Head(pool) \in Queued
  <1>1. pool \in Seq(Boxes) /\ IsFiniteSet(Queued)
    BY BoxesFinite DEF TypeOK
  <1>2. /\ Queued' = Queued \ {Head(pool)} /\ Head(pool) \in Queued
        /\ \A i, j \in DOMAIN pool' : pool'[i] = pool'[j] => i = j
    BY <1>1, TailSet DEF Queued, QueueInv
  <1>3. Len(pool') = Len(pool) - 1
    BY <1>1, TailShorter
  <1>4. Cardinality(Queued \ {Head(pool)}) = Cardinality(Queued) - 1
    BY <1>1, <1>2, FS_RemoveElement
  <1> QED
    BY <1>2, <1>3, <1>4 DEF QueueInv

(* A mailbox handed to a worker.                                             *)
LEMMA HandedOver ==
    ASSUME TypeOK, NEW w \in Workers, NEW x, held' = [held EXCEPT ![w] = @ \union {x}],
           x \notin Handed, \A u, v \in Workers : u # v => held[u] \intersect held[v] = {}
    PROVE  /\ Handed' = Handed \union {x}
           /\ \A u, v \in Workers : u # v => held'[u] \intersect held'[v] = {}
  <1>1. /\ held'[w] = held[w] \union {x}
        /\ \A v \in Workers \ {w} : held'[v] = held[v]
    BY DEF TypeOK
  <1>2. \A v \in Workers : x \notin held[v]
    BY DEF Handed
  <1>3. Handed' = Handed \union {x}
    BY <1>1 DEF Handed
  <1> QED
    BY <1>1, <1>2, <1>3

(* Every step moves at most one mailbox from one place to another.           *)
LEMMA PartsKeep ==
    ASSUME IInv, QueueInv, PartInv, [Next]_vars
    PROVE  QueueInv' /\ PartInv'
  <1>0. TypeOK /\ BoxInv /\ created \in Nat /\ created + 1 \notin 1..created
    BY DEF IInv, TypeOK
  <1>1. CASE StartPool \/ Check \/ Wait \/ Stop \/ UNCHANGED vars
    <2>1. UNCHANGED <<pool, box, held, lost, drained, created>>
      BY <1>1 DEF StartPool, Check, Wait, Stop, vars
    <2> QED
      BY <2>1 DEF QueueInv, PartInv, Queued, InHand, Handed
  <1>2. CASE ProducerCreates
    <2>1. UNCHANGED <<pool, held, lost, drained>>
      BY <1>2 DEF ProducerCreates
    <2>2. CASE created' = created + 1 /\ box' = created + 1
      <3>1. box = NoBox /\ InHand = {} /\ InHand' = {created + 1}
        BY <1>0, <1>2, <2>2 DEF ProducerCreates, BoxInv, InHand, NoBox
      <3>2. 1..created' = 1..created \union {created + 1}
        BY <1>0, <2>2
      <3> QED
        BY <1>0, <2>1, <3>1, <3>2 DEF QueueInv, PartInv, Queued, Handed
    <2>3. CASE UNCHANGED <<created, box>>
      BY <2>1, <2>3 DEF QueueInv, PartInv, Queued, InHand, Handed
    <2> QED
      BY <1>2, <2>2, <2>3 DEF ProducerCreates
  <1>3. CASE Put
    <2>1. UNCHANGED <<created, held, drained>> /\ InHand' = {} /\ InHand = {box} /\ box \in Boxes
      BY <1>0, <1>3 DEF Put, InHand, BoxInv, TypeOK
    <2>2. box \notin Queued
      BY <2>1 DEF PartInv
    <2>3. CASE Len(pool) < QueueSize
      <3>1. pool' = Append(pool, box) /\ lost' = lost
        BY <1>3, <2>3 DEF Put
      <3>2. QueueInv' /\ Queued' = Queued \union {box}
        BY <1>0, <2>1, <2>2, <3>1, Enqueued
      <3> QED
        BY <2>1, <3>1, <3>2 DEF PartInv, Handed
    <2>4. CASE ~(Len(pool) < QueueSize)
      <3>1. pool' = pool /\ lost' = lost \union {box}
        BY <1>3, <2>4 DEF Put
      <3> QED
        BY <2>1, <3>1 DEF QueueInv, PartInv, Queued, Handed
    <2> QED
      BY <2>3, <2>4
  <1>4. CASE Drain
    <2>1. UNCHANGED <<created, held, lost, box>>
      BY <1>4 DEF Drain
    <2>2. CASE pool # <<>>
      <3>1. pool' = Tail(pool) /\ drained' = drained \union {Head(pool)}
        BY <1>4, <2>2 DEF Drain
      <3>2. QueueInv' /\ Queued' = Queued \ {Head(pool)} /\ Head(pool) \in Queued
        BY <1>0, <2>2, <3>1, Dequeued
      <3> QED
        BY <2>1, <3>1, <3>2 DEF PartInv, Handed, InHand
    <2>3. CASE pool = <<>>
      BY <1>4, <2>1, <2>3 DEF Drain, QueueInv, PartInv, Queued, InHand, Handed
    <2> QED
      BY <2>2, <2>3
  <1>5. ASSUME NEW w \in Workers, Take(w) PROVE QueueInv' /\ PartInv'
    <2>1. UNCHANGED <<created, lost, drained, box>>
      BY <1>5 DEF Take
    <2>2. CASE Target > 0 /\ pool # <<>>
      <3>1. pool' = Tail(pool) /\ held' = [held EXCEPT ![w] = @ \union {Head(pool)}]
        BY <1>5, <2>2 DEF Take
      <3>2. QueueInv' /\ Queued' = Queued \ {Head(pool)} /\ Head(pool) \in Queued
        BY <1>0, <2>2, <3>1, Dequeued
      <3>3. Head(pool) \notin Handed /\ \A u, v \in Workers : u # v => held[u] \intersect held[v] = {}
        BY <3>2 DEF PartInv
      <3>4. /\ Handed' = Handed \union {Head(pool)}
            /\ \A u, v \in Workers : u # v => held'[u] \intersect held'[v] = {}
        BY <1>0, <3>1, <3>3, HandedOver
      <3> QED
        BY <2>1, <3>2, <3>4 DEF PartInv, InHand
    <2>3. CASE UNCHANGED <<pool, held>>
      BY <2>1, <2>3 DEF QueueInv, PartInv, Queued, InHand, Handed
    <2> QED
      BY <1>5, <2>2, <2>3 DEF Take
  <1>6. ASSUME NEW w \in Workers, WorkerCreates(w) PROVE QueueInv' /\ PartInv'
    <2>1. UNCHANGED <<pool, lost, drained, box>>
      BY <1>6 DEF WorkerCreates
    <2>2. CASE created' = created + 1 /\ held' = [held EXCEPT ![w] = @ \union {created + 1}]
      <3>1. created + 1 \notin Handed /\ \A u, v \in Workers : u # v => held[u] \intersect held[v] = {}
        BY <1>0 DEF PartInv
      <3>2. /\ Handed' = Handed \union {created + 1}
            /\ \A u, v \in Workers : u # v => held'[u] \intersect held'[v] = {}
        BY <1>0, <2>2, <3>1, HandedOver
      <3>3. 1..created' = 1..created \union {created + 1}
        BY <1>0, <2>2
      <3> QED
        BY <1>0, <2>1, <3>2, <3>3 DEF QueueInv, PartInv, Queued, InHand
    <2>3. CASE UNCHANGED <<created, held>>
      BY <2>1, <2>3 DEF QueueInv, PartInv, Queued, InHand, Handed
    <2> QED
      BY <1>6, <2>2, <2>3 DEF WorkerCreates
  <1>7. ASSUME NEW w \in Workers, Recover(w) PROVE QueueInv' /\ PartInv'
    BY <1>7 DEF Recover, QueueInv, PartInv, Queued, InHand, Handed
  <1> QED
    BY <1>1, <1>2, <1>3, <1>4, <1>5, <1>6, <1>7 DEF Next, Producer, Main, Worker

LEMMA EndKeeps ==
    ASSUME IInv, EndInv, [Next]_vars
    PROVE  EndInv'
  <1>0. pool \in Seq(Boxes)
    BY DEF IInv, TypeOK
  <1>1. CASE Check \/ Wait \/ StartPool \/ Stop \/ ProducerCreates \/ UNCHANGED vars
    BY <1>1 DEF Check, Wait, StartPool, Stop, ProducerCreates, vars, EndInv
  <1>2. CASE Put
    <2>1. main = "done" => pool = <<>>
      BY <1>2 DEF Put, EndInv
    <2>2. UNCHANGED <<main, stop>> /\ producer' \in {"check", "wait"}
      BY <1>2 DEF Put
    <2>3. box \in Boxes /\ (pool' = pool \/ pool' = Append(pool, box))
      BY <1>2 DEF Put, IInv, TypeOK, BoxInv
    <2>4. pool = <<>> => pool' = <<>> \/ Len(pool') = 1
      BY <1>0, <2>3, AppendLonger
    <2> QED
      BY <2>1, <2>2, <2>4 DEF EndInv
  <1>3. CASE Drain
    BY <1>3 DEF Drain, EndInv
  <1>4. ASSUME NEW w \in Workers, Take(w) PROVE EndInv'
    <2>1. UNCHANGED <<main, stop, producer>>
      BY <1>4 DEF Take
    <2>2. CASE pool # <<>> /\ pool' = Tail(pool)
      <3>1. pool' \in Seq(Boxes) /\ Len(pool') = Len(pool) - 1
        BY <1>0, <2>2, TailShorter
      <3>2. Len(pool) = 1 => pool' = <<>>
        BY <3>1
      <3> QED
        BY <2>1, <2>2, <3>2 DEF EndInv
    <2>3. CASE pool' = pool
      BY <2>1, <2>3 DEF EndInv
    <2> QED
      BY <1>4, <2>2, <2>3 DEF Take
  <1>5. ASSUME NEW w \in Workers, WorkerCreates(w) \/ Recover(w) PROVE EndInv'
    BY <1>5 DEF WorkerCreates, Recover, EndInv
  <1> QED
    BY <1>1, <1>2, <1>3, <1>4, <1>5 DEF Next, Producer, Main, Worker

LEMMA BoxesInit == Init => BoxesInv
  <1> SUFFICES ASSUME Init PROVE BoxesInv
    OBVIOUS
  <1>1. Queued = {} /\ InHand = {} /\ Handed = {}
    BY DEF Init, Queued, ToSet, InHand, Handed
  <1> QED
    BY <1>1, FS_EmptySet DEF Init, BoxesInv, QueueInv, PartInv, EndInv

LEMMA DisjointUnion ==
    ASSUME NEW S, IsFiniteSet(S), NEW T, IsFiniteSet(T), S \intersect T = {}
    PROVE  IsFiniteSet(S \union T) /\ Cardinality(S \union T) = Cardinality(S) + Cardinality(T)
  <1>1. /\ IsFiniteSet(S \union T)
        /\ Cardinality(S \union T) = Cardinality(S) + Cardinality(T) - Cardinality(S \intersect T)
    BY FS_Union
  <1>2. Cardinality(S \intersect T) = 0
    BY FS_EmptySet
  <1>3. Cardinality(S) \in Nat /\ Cardinality(T) \in Nat
    BY FS_CardinalityType
  <1> QED
    BY <1>1, <1>2, <1>3

(* The places are disjoint, so their sizes add up to that of all mailboxes.  *)
LEMMA BoxesFollow == IInv /\ BoxesInv => BoxesAccountedFor
  <1> SUFFICES ASSUME IInv, BoxesInv PROVE BoxesAccountedFor
    OBVIOUS
  <1>0. TypeOK /\ created \in Nat /\ lost \subseteq Boxes /\ drained \subseteq Boxes
    BY DEF IInv, TypeOK
  <1>1. /\ IsFiniteSet(Queued) /\ IsFiniteSet(InHand) /\ IsFiniteSet(Handed)
        /\ IsFiniteSet(lost) /\ IsFiniteSet(drained)
    BY <1>0, BoxesFinite
  <1> DEFINE A == Queued \union InHand
             B == A \union Handed
             C == B \union lost
  <1>2. /\ A \intersect Handed = {} /\ B \intersect lost = {} /\ C \intersect drained = {}
        /\ Queued \intersect InHand = {} /\ C \union drained = 1..created
    BY DEF BoxesInv, PartInv
  <1>3. IsFiniteSet(A) /\ Cardinality(A) = Cardinality(Queued) + Cardinality(InHand)
    BY <1>1, <1>2, DisjointUnion
  <1> HIDE DEF A
  <1>4. IsFiniteSet(B) /\ Cardinality(B) = Cardinality(A) + Cardinality(Handed)
    BY <1>1, <1>2, <1>3, DisjointUnion
  <1> HIDE DEF B
  <1>5. IsFiniteSet(C) /\ Cardinality(C) = Cardinality(B) + Cardinality(lost)
    BY <1>1, <1>2, <1>4, DisjointUnion
  <1> HIDE DEF C
  <1>6. Cardinality(C \union drained) = Cardinality(C) + Cardinality(drained)
    BY <1>1, <1>2, <1>5, DisjointUnion
  <1>7. Cardinality(1..created) = created
    BY <1>0, FS_Interval
  <1>8. Cardinality(Queued) = Len(pool)
    BY DEF BoxesInv, QueueInv
  <1>9. EveryBoxOnce
    BY <1>2, <1>3, <1>4, <1>5, <1>6, <1>7, <1>8 DEF EveryBoxOnce, BoxesInv, PartInv, Queued
  <1>10. AtMostOneLeft
    <2> SUFFICES ASSUME main = "done" PROVE Len(pool) + Cardinality(InHand) <= 1
      BY DEF AtMostOneLeft
    <2>1. CASE box = NoBox
      <3>1. Cardinality(InHand) = 0
        BY <2>1, FS_EmptySet DEF InHand
      <3>2. Len(pool) = 0 \/ Len(pool) = 1
        BY DEF BoxesInv, EndInv
      <3>3. CASE Len(pool) = 0
        BY <3>1, <3>3
      <3>4. CASE Len(pool) = 1
        BY <3>1, <3>4
      <3> QED
        BY <3>2, <3>3, <3>4
    <2>2. CASE box # NoBox
      <3>1. Cardinality(InHand) = 1
        BY <2>2, FS_Singleton DEF InHand
      <3>2. Len(pool) = 0
        BY <2>2 DEF IInv, BoxInv, BoxesInv, EndInv
      <3> QED
        BY <3>1, <3>2
    <2> QED
      BY <2>1, <2>2
  <1> QED
    BY <1>9, <1>10 DEF BoxesAccountedFor

(* Each mailbox the provider created is in the queue, in the producer's      *)
(* hand, with one worker, drained or lost, and in one of these only; after   *)
(* the drain at most one is left.                                            *)
THEOREM EachBoxIsUsedOnce == Spec => []BoxesAccountedFor
  <1>1. IInv /\ BoxesInv /\ [Next]_vars => IInv' /\ BoxesInv'
    BY StepInvariant, PartsKeep, EndKeeps DEF BoxesInv
  <1> QED
    BY <1>1, InitInvariant, BoxesInit, BoxesFollow, PTL DEF Spec
-----------------------------------------------------------------------------
(* No thread stored an answer after the entry's time; the entry is the last  *)
(* answer stored.                                                            *)
AgeInv ==
    /\ stamp <= clock
    /\ \A t \in Threads : last[t] # Never => last[t] <= stamp /\ id # None
    /\ id # None => \E u \in Threads : last[u] # Never /\ last[u] = stamp

(* What is stored is one answer of the provider, and where the preferred     *)
(* domain exists every answer is that domain.                                *)
AnswerInv ==
    /\ id = name
    /\ \A t \in Threads : place[t] \in {"store", "refreshed"} => got[t] # None
    /\ listed => /\ id \in {"preferred", None}
                 /\ \A t \in Threads : got[t] \in {"preferred", None}

CacheInv == CacheTypeOK /\ AgeInv /\ AnswerInv /\ NoStorm

(* The cache is empty at first.                                              *)
LEMMA CacheStarts == CacheInit => CacheInv
<1> SUFFICES ASSUME CacheInit PROVE CacheInv
  OBVIOUS
<1>1. CacheTypeOK
  <2>1. place \in [Threads -> {"idle", "lookup", "fetch", "store", "create", "again",
                               "forced", "refreshed"}]
    BY DEF CacheInit
  <2>2. trial \in [Threads -> 0..3]
    BY DEF CacheInit
  <2>3. got \in [Threads -> Domains \union {None}]
    BY DEF CacheInit
  <2>4. last \in [Threads -> 0..MaxTime \union {Never}]
    BY DEF CacheInit
  <2> QED BY <2>1, <2>2, <2>3, <2>4 DEF CacheInit, CacheTypeOK
<1>2. AgeInv
  BY DEF CacheInit, AgeInv
<1>3. AnswerInv
  BY DEF CacheInit, AnswerInv
<1>4. NoStorm
  BY <1>1 DEF CacheInit, NoStorm
<1> QED BY <1>1, <1>2, <1>3, <1>4 DEF CacheInv

(* The steps of a thread, each of which changes that thread only.            *)
LEMMA CacheTyped == CacheInv /\ [CacheNext]_cacheVars => CacheTypeOK'
<1> SUFFICES ASSUME CacheInv, [CacheNext]_cacheVars PROVE CacheTypeOK'
  OBVIOUS
<1> USE DEF CacheInv, CacheTypeOK
<1>0. Never' = Never /\ Domains' = Domains
  BY DEF Never, Domains
<1>1. CASE Tick
  BY <1>0, <1>1 DEF Tick
<1>2. ASSUME NEW t \in Threads, Want(t) PROVE CacheTypeOK'
  BY <1>0, <1>2 DEF Want, GoTo
<1>3. ASSUME NEW t \in Threads, Lookup(t) PROVE CacheTypeOK'
  BY <1>0, <1>3 DEF Lookup, GoTo
<1>4. ASSUME NEW t \in Threads, Fetch(t) PROVE CacheTypeOK'
  <2>1. Pick \in Domains
    BY DEF Pick, Domains
  <2> QED BY <1>0, <1>4, <2>1 DEF Fetch, GoTo
<1>5. ASSUME NEW t \in Threads, Store(t) PROVE CacheTypeOK'
  BY <1>0, <1>5 DEF Store, GoTo
<1>6. ASSUME NEW t \in Threads, Create(t) PROVE CacheTypeOK'
  BY <1>0, <1>6 DEF Create, GoTo
<1>7. ASSUME NEW t \in Threads, Again(t) PROVE CacheTypeOK'
  BY <1>0, <1>7 DEF Again, GoTo
<1>8. CASE UNCHANGED cacheVars
  BY <1>0, <1>8 DEF cacheVars
<1> QED BY <1>1, <1>2, <1>3, <1>4, <1>5, <1>6, <1>7, <1>8 DEF CacheNext, Step

(* A thread that goes to fetch found no entry, or one past its lifetime.     *)
LEMMA CacheKept == CacheInv /\ [CacheNext]_cacheVars => CacheInv'
<1> SUFFICES ASSUME CacheInv, [CacheNext]_cacheVars PROVE AgeInv' /\ AnswerInv' /\ NoStorm'
  BY CacheTyped DEF CacheInv
<1>0. /\ CacheTypeOK' /\ Never' = Never /\ Never \in Nat /\ MaxTime < Never
      /\ \A t \in Threads : last[t] \in Nat
      /\ clock \in Nat /\ stamp \in Nat
  BY CacheTyped DEF Never, CacheInv, CacheTypeOK
<1> USE DEF CacheInv, AgeInv, AnswerInv, NoStorm
<1>1. CASE Tick
  BY <1>0, <1>1 DEF Tick
<1>2. ASSUME NEW t \in Threads, Want(t) PROVE AgeInv' /\ AnswerInv' /\ NoStorm'
  BY <1>0, <1>2 DEF Want, GoTo, CacheTypeOK
<1>3. ASSUME NEW t \in Threads, Lookup(t) PROVE AgeInv' /\ AnswerInv' /\ NoStorm'
  <2>1. UNCHANGED <<listed, clock, id, name, stamp, trial, last>>
    BY <1>3 DEF Lookup
  <2>2. CASE Hit
    <3>1. got' = [got EXCEPT ![t] = id] /\ place' = [place EXCEPT ![t] = "create"]
      BY <1>3, <2>2 DEF Lookup, GoTo
    <3> QED BY <1>0, <2>1, <3>1 DEF CacheTypeOK
  <2>3. CASE ~Hit
    <3>1. got' = got /\ place' = [place EXCEPT ![t] = "fetch"]
      BY <1>3, <2>3 DEF Lookup, GoTo
    <3>2. listed /\ last[t] # Never => clock - last[t] >= Ttl
      BY <1>0, <2>3 DEF Hit
    <3> QED BY <1>0, <2>1, <3>1, <3>2 DEF CacheTypeOK
  <2> QED BY <2>2, <2>3
<1>4. ASSUME NEW t \in Threads, Fetch(t) PROVE AgeInv' /\ AnswerInv' /\ NoStorm'
  <2>1. Pick # None /\ (listed => Pick = "preferred")
    BY DEF Pick, None
  <2> QED BY <1>0, <1>4, <2>1 DEF Fetch, GoTo, CacheTypeOK
<1>5. ASSUME NEW t \in Threads, Store(t) PROVE AgeInv' /\ AnswerInv' /\ NoStorm'
  <2>1. /\ id' = got[t] /\ name' = got[t] /\ stamp' = clock /\ got[t] # None
        /\ last' = [last EXCEPT ![t] = clock] /\ clock # Never
        /\ \E p \in {"create", "again"} : place' = [place EXCEPT ![t] = p]
        /\ UNCHANGED <<listed, clock, trial, got>>
    <3>1. got[t] # None
      BY <1>5 DEF Store
    <3>2. clock # Never
      BY <1>0 DEF CacheTypeOK
    <3>3. \E p \in {"create", "again"} : place' = [place EXCEPT ![t] = p]
      BY <1>5 DEF Store, GoTo
    <3> QED BY <1>5, <3>1, <3>2, <3>3 DEF Store
  <2>2. \A u \in Threads : last'[u] = IF u = t THEN clock ELSE last[u]
    BY <2>1 DEF CacheTypeOK
  <2>3. \A u \in Threads : place'[u] # place[u] => place'[u] \in {"create", "again"}
    BY <2>1 DEF CacheTypeOK
  <2>4. AgeInv'
    BY <1>0, <2>1, <2>2
  <2>5. AnswerInv'
    BY <2>1, <2>3
  <2>6. NoStorm'
    <3>1. \A u \in Threads : place'[u] = "fetch" => u # t
      BY <2>1 DEF CacheTypeOK
    <3> QED BY <1>0, <2>1, <2>2, <2>3, <3>1
  <2> QED BY <2>4, <2>5, <2>6
<1>6. ASSUME NEW t \in Threads, Create(t) PROVE AgeInv' /\ AnswerInv' /\ NoStorm'
  BY <1>0, <1>6 DEF Create, GoTo, CacheTypeOK
<1>7. ASSUME NEW t \in Threads, Again(t) PROVE AgeInv' /\ AnswerInv' /\ NoStorm'
  BY <1>0, <1>7 DEF Again, GoTo, CacheTypeOK
<1>8. CASE UNCHANGED cacheVars
  BY <1>0, <1>8 DEF cacheVars
<1> QED BY <1>1, <1>2, <1>3, <1>4, <1>5, <1>6, <1>7, <1>8 DEF CacheNext, Step

(* For any number of threads and lifetime of the entry: where the preferred  *)
(* domain exists, a thread that stored an answer fetches again unforced only *)
(* when its own answer is past its lifetime, whoever stored since.           *)
THEOREM NoRequestStorm == CacheSpec => []NoStorm
<1>1. CacheInv => NoStorm
  BY DEF CacheInv
<1> QED BY CacheStarts, CacheKept, <1>1, PTL DEF CacheSpec

(* And every hit is the preferred domain, stored by some thread less than    *)
(* the lifetime ago.                                                         *)
THEOREM HitsAreFresh == CacheSpec => FreshHit
<1> DEFINE Fresh == \A t \in Threads : (place[t] = "lookup" /\ place'[t] = "create")
                      => /\ got'[t] = "preferred"
                         /\ \E u \in Threads : last[u] # Never /\ clock - last[u] < Ttl
<1>1. CacheInv /\ [CacheNext]_cacheVars => [Fresh]_cacheVars
  <2> SUFFICES ASSUME CacheInv, CacheNext, NEW t \in Threads,
                      place[t] = "lookup", place'[t] = "create"
               PROVE  /\ got'[t] = "preferred"
                      /\ \E u \in Threads : last[u] # Never /\ clock - last[u] < Ttl
    OBVIOUS
  <2>1. CASE Lookup(t)
    <3>1. Hit /\ got' = [got EXCEPT ![t] = id]
      BY <2>1 DEF Lookup, GoTo, CacheInv, CacheTypeOK
    <3> QED BY <3>1 DEF Hit, CacheInv, CacheTypeOK, AnswerInv, AgeInv
  <2>2. CASE \E u \in Threads : (Want(u) \/ Step(u)) /\ ~Lookup(t)
    <3> PICK u \in Threads : (Want(u) \/ Step(u)) /\ ~Lookup(t)
      BY <2>2
    <3>1. place'[t] = place[t]
      BY DEF Want, Step, Lookup, Fetch, Store, Create, Again, GoTo, CacheInv, CacheTypeOK
    <3> QED BY <3>1
  <2>3. CASE Tick
    BY <2>3 DEF Tick
  <2> QED BY <2>1, <2>2, <2>3 DEF CacheNext
<1>2. CacheSpec => []CacheInv
  BY CacheStarts, CacheKept, PTL DEF CacheSpec
<1> QED BY <1>1, <1>2, PTL DEF CacheSpec, FreshHit
=============================================================================
