------------------------ MODULE RegistrationRunProofs -----------------------
(* Theorems about RegistrationRun, for every set of workers and every count: *)
(* no slot is lost and none that a stop found queued is registered; and how  *)
(* a run ends: the workers are dead when an uninterrupted run sums up, the   *)
(* mint threads were waited for, the shortfall is bounded by the crashes,    *)
(* and the run implements SlotLedger.                                        *)
EXTENDS RegistrationRun, FiniteSetTheorems, TLAPS

(* What the place of a worker says of its slot and its browser.              *)
Places(w) ==
    /\ pc[w] \in {"slot", "register", "track", "save", "retry"} => slot[w] # 0
    /\ pc[w] \in {"unborn", "boot", "loop", "take", "dead"} => slot[w] = 0
    /\ pc[w] \in {"recycle", "pace"} => (resume[w] = "slot" => slot[w] # 0)
    /\ pc[w] \in {"recycle", "pace"} => (resume[w] = "loop" => slot[w] = 0)
    /\ pc[w] \in {"loop", "take", "slot", "register", "track", "save", "pace"} => browser[w]
    /\ pc[w] \in {"unborn", "boot", "dead"} => ~browser[w]
    /\ w \notin spawned <=> pc[w] = "unborn"

PlacesInv == \A w \in Workers : Places(w)

LEMMA LimitIsNat == Limit \in Nat
  BY CountAssumption, ModeAssumption DEF Limit

LEMMA TypeInit == Init => TypeOK
<1> SUFFICES ASSUME Init PROVE TypeOK
  OBVIOUS
<1> USE DEF Init
<1>1. FlagsOK BY DEF FlagsOK
<1>2. ThreadsOK BY DEF ThreadsOK, MainPlaces, WorkerPlaces, Fates
<1>3. CountsOK BY LimitIsNat, RetryAssumption DEF CountsOK
<1>4. SummaryOK BY DEF SummaryOK
<1> QED BY <1>1, <1>2, <1>3, <1>4 DEF TypeOK

(* Flags: Boolean-valued variables, which the steps set to constants, to     *)
(* each other or to a state predicate.                                       *)
LEMMA FlagsStep == FlagsOK /\ [Next]_vars => FlagsOK'
<1> SUFFICES ASSUME FlagsOK, [Next]_vars PROVE FlagsOK'
  OBVIOUS
<1> USE DEF FlagsOK, workVars, mintVars, endVars, stopVars
<1>1. ASSUME NEW w \in Workers, WorkerStep(w) PROVE FlagsOK'
  BY <1>1, Zenon DEF WorkerStep, Boot, Loop, Take, SlotLoop, Cancelled, Stuck, Failed, StartMint,
     Track, Registered, PrepareRetry, Recycle, Pace, Close
<1>2. ASSUME NEW s \in Slots, MintEnds(s) PROVE FlagsOK'
  BY <1>2 DEF MintEnds
<1>3. CASE MainStep
  BY <1>3 DEF MainStep, Spawn, Gap, Join, Finish, Cancel, RequestStop, Snapshot, Await, Report, Exit
<1>4. CASE Sigint BY <1>4 DEF Sigint, RequestStop
<1>5. CASE UNCHANGED vars BY <1>5 DEF vars
<1> QED BY <1>1, <1>2, <1>3, <1>4, <1>5 DEF Next

LEMMA ThreadsStep == TypeOK /\ PlacesInv /\ [Next]_vars => ThreadsOK'
<1> SUFFICES ASSUME ThreadsOK, CountsOK, PlacesInv, [Next]_vars PROVE ThreadsOK'
  BY DEF TypeOK
<1> USE DEF ThreadsOK, MainPlaces, WorkerPlaces, Fates, At, Goto,
            workVars, mintVars, endVars, stopVars
<1>1. ASSUME NEW w \in Workers, WorkerStep(w) PROVE ThreadsOK'
  <2>1. CASE Boot(w) BY <2>1 DEF Boot
  <2>2. CASE Loop(w) BY <2>2 DEF Loop
  <2>3. CASE Take(w) BY <2>3 DEF Take
  <2>4. CASE SlotLoop(w) BY <2>4 DEF SlotLoop
  <2>5. CASE Cancelled(w) BY <2>5 DEF Cancelled
  <2>6. CASE Stuck(w) BY <2>6 DEF Stuck, Settle
  <2>7. CASE Failed(w) BY <2>7 DEF Failed, Settle
  <2>8. CASE StartMint(w) BY <2>8 DEF StartMint
  <2>9. CASE Track(w)
    <3>1. slot[w] \in Slots BY <2>9 DEF Track, PlacesInv, Places, CountsOK
    <3> QED BY <2>9, <3>1 DEF Track
  <2>10. CASE Registered(w) BY <2>10 DEF Registered, Settle
  <2>11. CASE PrepareRetry(w) BY <2>11 DEF PrepareRetry
  <2>12. CASE Recycle(w) BY <2>12 DEF Recycle
  <2>13. CASE Pace(w) BY <2>13 DEF Pace
  <2>14. CASE Close(w) BY <2>14 DEF Close
  <2> QED BY <1>1, <2>1, <2>2, <2>3, <2>4, <2>5, <2>6, <2>7, <2>8, <2>9, <2>10,
             <2>11, <2>12, <2>13, <2>14 DEF WorkerStep
<1>2. ASSUME NEW s \in Slots, MintEnds(s) PROVE ThreadsOK'
  BY <1>2 DEF MintEnds
<1>3. CASE MainStep
  <2>1. CASE Spawn BY <2>1 DEF Spawn
  <2>2. CASE Gap BY <2>2 DEF Gap
  <2>3. CASE Join BY <2>3 DEF Join
  <2>4. CASE Finish BY <2>4 DEF Finish
  <2>5. CASE Cancel BY <2>5 DEF Cancel, RequestStop
  <2>6. CASE Snapshot BY <2>6 DEF Snapshot
  <2>7. CASE Await BY <2>7 DEF Await
  <2>8. CASE Report BY <2>8 DEF Report
  <2>9. CASE Exit BY <2>9 DEF Exit
  <2> QED BY <1>3, <2>1, <2>2, <2>3, <2>4, <2>5, <2>6, <2>7, <2>8, <2>9 DEF MainStep
<1>4. CASE Sigint BY <1>4 DEF Sigint, RequestStop
<1>5. CASE UNCHANGED vars BY <1>5 DEF vars
<1> QED BY <1>1, <1>2, <1>3, <1>4, <1>5 DEF Next

LEMMA CountsStep == CountsOK /\ [Next]_vars => CountsOK'
<1> SUFFICES ASSUME CountsOK, [Next]_vars PROVE CountsOK'
  OBVIOUS
<1> USE LimitIsNat, RetryAssumption DEF CountsOK, Slots, workVars, mintVars, endVars, stopVars
<1>1. ASSUME NEW w \in Workers, WorkerStep(w) PROVE CountsOK'
  <2>1. CASE Take(w) BY <2>1 DEF Take
  <2>2. CASE Stuck(w) BY <2>2 DEF Stuck, Settle
  <2>3. CASE Failed(w) BY <2>3 DEF Failed, Settle
  <2>4. CASE Registered(w) BY <2>4 DEF Registered, Settle
  <2>5. CASE Close(w) BY <2>5 DEF Close
  <2>6. CASE UNCHANGED <<slot, retry, issued, success, fail, sigints>>
    BY <2>6
  <2> QED BY <1>1, <2>1, <2>2, <2>3, <2>4, <2>5, <2>6 DEF WorkerStep, Boot, Loop, SlotLoop,
             Cancelled, StartMint, Track, PrepareRetry, Recycle, Pace
<1>2. ASSUME NEW s \in Slots, MintEnds(s) PROVE CountsOK'
  BY <1>2 DEF MintEnds
<1>3. CASE MainStep
  BY <1>3 DEF MainStep, Spawn, Gap, Join, Finish, Cancel, RequestStop, Snapshot, Await, Report, Exit
<1>4. CASE Sigint BY <1>4 DEF Sigint, RequestStop
<1>5. CASE UNCHANGED vars BY <1>5 DEF vars
<1> QED BY <1>1, <1>2, <1>3, <1>4, <1>5 DEF Next

LEMMA SummaryStep == TypeOK /\ [Next]_vars => SummaryOK'
<1> SUFFICES ASSUME TypeOK, [Next]_vars PROVE SummaryOK'
  OBVIOUS
<1> USE DEF TypeOK, SummaryOK, workVars, mintVars, endVars, stopVars
<1>1. CASE Report
  <2>1. (~stopping) \in BOOLEAN BY DEF FlagsOK
  <2>2. success \in Nat /\ fail \in Nat BY DEF CountsOK
  <2> QED BY <1>1, <2>1, <2>2 DEF Report
<1>2. CASE UNCHANGED published BY <1>2
<1> QED BY <1>1, <1>2 DEF Next, MainStep, Spawn, Gap, Join, Finish, Cancel, RequestStop, Snapshot, Await, Exit,
     Sigint, MintEnds, WorkerStep, Boot, Loop, Take, SlotLoop, Cancelled, Stuck, Failed,
     StartMint, Track, Registered, PrepareRetry, Recycle, Pace, Close, vars

LEMMA TypeStep == TypeOK /\ PlacesInv /\ [Next]_vars => TypeOK'
  BY FlagsStep, ThreadsStep, CountsStep, SummaryStep DEF TypeOK

(* A step of worker w leaves the places of the others alone.                 *)
LEMMA PlacesStep == TypeOK /\ PlacesInv /\ [Next]_vars => PlacesInv'
<1> SUFFICES ASSUME TypeOK, PlacesInv, [Next]_vars, NEW v \in Workers PROVE Places(v)'
  BY DEF PlacesInv
<1>0. Places(v)
  BY DEF PlacesInv
<1> USE DEF TypeOK, ThreadsOK, CountsOK, FlagsOK, WorkerPlaces, Places, At, Goto, workVars,
            mintVars, endVars, stopVars
<1>1. ASSUME NEW w \in Workers, WorkerStep(w) PROVE Places(v)'
  <2>1. CASE Boot(w) BY <1>0, <2>1 DEF Boot
  <2>2. CASE Loop(w) BY <1>0, <2>2 DEF Loop
  <2>3. CASE Take(w) BY <1>0, <2>3, LimitIsNat DEF Take
  <2>4. CASE SlotLoop(w) BY <1>0, <2>4 DEF SlotLoop
  <2>5. CASE Cancelled(w) BY <1>0, <2>5 DEF Cancelled
  <2>6. CASE Stuck(w) BY <1>0, <2>6 DEF Stuck, Settle
  <2>7. CASE Failed(w) BY <1>0, <2>7 DEF Failed, Settle
  <2>8. CASE StartMint(w) BY <1>0, <2>8 DEF StartMint
  <2>9. CASE Track(w) BY <1>0, <2>9 DEF Track
  <2>10. CASE Registered(w) BY <1>0, <2>10 DEF Registered, Settle
  <2>11. CASE PrepareRetry(w) BY <1>0, <2>11 DEF PrepareRetry
  <2>12. CASE Recycle(w) BY <1>0, <2>12 DEF Recycle
  <2>13. CASE Pace(w) BY <1>0, <2>13 DEF Pace
  <2>14. CASE Close(w) BY <1>0, <2>14 DEF Close
  <2> QED BY <1>1, <2>1, <2>2, <2>3, <2>4, <2>5, <2>6, <2>7, <2>8, <2>9, <2>10,
             <2>11, <2>12, <2>13, <2>14 DEF WorkerStep
<1>2. ASSUME NEW s \in Slots, MintEnds(s) PROVE Places(v)'
  BY <1>0, <1>2 DEF MintEnds
<1>3. CASE MainStep
  <2>1. CASE Spawn BY <1>0, <2>1 DEF Spawn
  <2>2. CASE UNCHANGED <<spawned, pc, workVars>> BY <1>0, <2>2
  <2> QED BY <1>3, <2>1, <2>2 DEF MainStep, Gap, Join, Finish, Cancel, RequestStop, Snapshot, Await, Report, Exit
<1>4. CASE Sigint BY <1>0, <1>4 DEF Sigint, RequestStop
<1>5. CASE UNCHANGED vars BY <1>0, <1>5 DEF vars
<1> QED BY <1>1, <1>2, <1>3, <1>4, <1>5 DEF Next

-----------------------------------------------------------------------------
(* The slots: what each kind of step does to them.                           *)

SlotVars == <<slot, issued, success, fail, fate>>

TakeSlot(w) ==
    /\ slot[w] = 0 /\ issued < Limit
    /\ issued' = issued + 1
    /\ slot' = [slot EXCEPT ![w] = issued + 1]
    /\ fate' = [fate EXCEPT ![issued + 1] = "held"]
    /\ UNCHANGED <<success, fail>>

EndSlot(w, e) ==
    /\ slot[w] \in Slots
    /\ fate' = [fate EXCEPT ![slot[w]] = e]
    /\ slot' = [slot EXCEPT ![w] = 0]
    /\ success' = IF e = "success" THEN success + 1 ELSE success
    /\ fail' = IF e = "fail" THEN fail + 1 ELSE fail
    /\ UNCHANGED issued

SlotStep == \/ \E w \in Workers : TakeSlot(w)
            \/ \E w \in Workers, e \in {"success", "fail", "dropped"} : EndSlot(w, e)
            \/ UNCHANGED SlotVars

(* Every step of the run is one of: a worker with empty hands takes the next *)
(* slot, a worker ends the slot in its hands, the slots do not change.       *)
LEMMA NextIsSlotStep == TypeOK /\ PlacesInv /\ [Next]_vars => SlotStep
<1> SUFFICES ASSUME TypeOK, PlacesInv, [Next]_vars PROVE SlotStep
  OBVIOUS
<1> USE DEF SlotStep, SlotVars, workVars
<1>1. ASSUME NEW w \in Workers, WorkerStep(w) PROVE SlotStep
  <2>0. Places(w) /\ slot[w] \in Slots \union {0}
    BY DEF PlacesInv, TypeOK, CountsOK
  <2>1. CASE Take(w)
    <3>1. CASE issued < Limit
      <4>1. TakeSlot(w) BY <2>0, <2>1, <3>1 DEF Take, TakeSlot, Places, At
      <4> QED BY <4>1
    <3>2. CASE ~(issued < Limit) BY <2>1, <3>2 DEF Take
    <3> QED BY <3>1, <3>2
  <2>2. CASE Stuck(w)
    <3>1. CASE retry[w] < MaxSlotRetry BY <2>2, <3>1 DEF Stuck
    <3>2. CASE ~(retry[w] < MaxSlotRetry)
      <4>1. EndSlot(w, "fail") BY <2>0, <2>2, <3>2 DEF Stuck, Settle, EndSlot, Places, At
      <4> QED BY <4>1
    <3> QED BY <3>1, <3>2
  <2>3. CASE Failed(w)
    <3>1. EndSlot(w, "fail") BY <2>0, <2>3 DEF Failed, Settle, EndSlot, Places, At
    <3> QED BY <3>1
  <2>4. CASE Registered(w)
    <3>1. EndSlot(w, "success") BY <2>0, <2>4 DEF Registered, Settle, EndSlot, Places, At
    <3> QED BY <3>1
  <2>5. CASE Close(w)
    <3>1. CASE slot[w] = 0 BY <2>5, <3>1 DEF Close, TypeOK, CountsOK
    <3>2. CASE slot[w] # 0
      <4>1. EndSlot(w, "dropped") BY <2>0, <2>5, <3>2 DEF Close, EndSlot
      <4> QED BY <4>1
    <3> QED BY <3>1, <3>2
  <2>6. CASE UNCHANGED SlotVars BY <2>6
  <2> QED BY <1>1, <2>1, <2>2, <2>3, <2>4, <2>5, <2>6 DEF WorkerStep, Boot, Loop, SlotLoop,
             Cancelled, StartMint, Track, PrepareRetry, Recycle, Pace
<1>2. CASE UNCHANGED workVars BY <1>2
<1> QED BY <1>1, <1>2 DEF Next, vars, MintEnds, Sigint, MainStep, Spawn, Gap, Join, Finish, Cancel,
           RequestStop, Snapshot, Await, Report, Exit

LEMMA QueueStep == TypeOK /\ SlotsConserved /\ SlotStep => QueueInOrder'
<1> SUFFICES ASSUME TypeOK, QueueInOrder, HeldByOne, SlotStep, NEW s \in Slots
             PROVE  (fate[s] = "queued" <=> s > issued)'
  BY DEF SlotsConserved, QueueInOrder
<1> USE LimitIsNat DEF QueueInOrder, TypeOK, CountsOK, ThreadsOK, Slots
<1>1. ASSUME NEW w \in Workers, TakeSlot(w) PROVE (fate[s] = "queued" <=> s > issued)'
  BY <1>1 DEF TakeSlot
<1>2. ASSUME NEW w \in Workers, NEW e \in {"success", "fail", "dropped"}, EndSlot(w, e)
      PROVE  (fate[s] = "queued" <=> s > issued)'
  <2>1. fate[slot[w]] = "held" BY <1>2 DEF EndSlot, HeldByOne
  <2> QED BY <1>2, <2>1 DEF EndSlot
<1>3. CASE UNCHANGED SlotVars BY <1>3 DEF SlotVars
<1> QED BY <1>1, <1>2, <1>3 DEF SlotStep

LEMMA HeldStep == TypeOK /\ SlotsConserved /\ SlotStep => HeldByOne'
<1> SUFFICES ASSUME TypeOK, QueueInOrder, HeldByOne, SlotStep PROVE HeldByOne'
  BY DEF SlotsConserved
<1> USE LimitIsNat DEF TypeOK, CountsOK, ThreadsOK, Slots
<1>1. ASSUME NEW w \in Workers, TakeSlot(w) PROVE HeldByOne'
  <2>1. issued + 1 \in Slots /\ fate[issued + 1] = "queued" BY <1>1 DEF TakeSlot, QueueInOrder
  <2>2. \A v \in Workers : slot[v] # issued + 1 BY <2>1 DEF HeldByOne
  <2> QED BY <1>1, <2>1, <2>2 DEF TakeSlot, HeldByOne
<1>2. ASSUME NEW w \in Workers, NEW e \in {"success", "fail", "dropped"}, EndSlot(w, e)
      PROVE  HeldByOne'
  BY <1>2 DEF EndSlot, HeldByOne
<1>3. CASE UNCHANGED SlotVars BY <1>3 DEF SlotVars, HeldByOne
<1> QED BY <1>1, <1>2, <1>3 DEF SlotStep

(* The number of slots that ended one way.                                   *)
LEMMA EndsFinite == \A e : IsFiniteSet(EndedAs(e)) /\ Cardinality(EndedAs(e)) \in Nat
<1> SUFFICES ASSUME NEW e PROVE IsFiniteSet(EndedAs(e)) /\ Cardinality(EndedAs(e)) \in Nat
  OBVIOUS
<1>1. IsFiniteSet(Slots) BY LimitIsNat, FS_Interval DEF Slots
<1>2. EndedAs(e) \in SUBSET Slots BY DEF EndedAs
<1> QED BY <1>1, <1>2, FS_Subset, FS_CardinalityType

LEMMA CountStep == TypeOK /\ SlotsConserved /\ SlotStep => EndsCounted'
<1> SUFFICES ASSUME TypeOK, QueueInOrder, HeldByOne, EndsCounted, SlotStep PROVE EndsCounted'
  BY DEF SlotsConserved
<1> USE DEF TypeOK, ThreadsOK
<1>1. ASSUME NEW w \in Workers, TakeSlot(w) PROVE EndsCounted'
  <2>1. issued + 1 \in Slots /\ fate[issued + 1] = "queued"
    BY <1>1, LimitIsNat DEF TakeSlot, QueueInOrder, CountsOK, Slots
  <2>2. EndedAs("success")' = EndedAs("success") /\ EndedAs("fail")' = EndedAs("fail")
    BY <1>1, <2>1 DEF TakeSlot, EndedAs
  <2> QED BY <1>1, <2>2 DEF TakeSlot, EndsCounted
<1>2. ASSUME NEW w \in Workers, NEW e \in {"success", "fail", "dropped"}, EndSlot(w, e)
      PROVE  EndsCounted'
  <2>1. slot[w] \in Slots /\ fate[slot[w]] = "held" BY <1>2 DEF EndSlot, HeldByOne
  <2>2. \A f \in {"success", "fail"} :
            EndedAs(f)' = IF e = f THEN EndedAs(f) \union {slot[w]} ELSE EndedAs(f)
    BY <1>2, <2>1 DEF EndSlot, EndedAs
  <2>3. \A f \in {"success", "fail"} : slot[w] \notin EndedAs(f)
    BY <2>1 DEF EndedAs
  <2>4. \A f \in {"success", "fail"} :
            Cardinality(EndedAs(f))' = IF e = f THEN Cardinality(EndedAs(f)) + 1
                                       ELSE Cardinality(EndedAs(f))
    BY <2>2, <2>3, EndsFinite, FS_AddElement
  <2> QED BY <1>2, <2>4 DEF EndSlot, EndsCounted
<1>3. CASE UNCHANGED SlotVars BY <1>3 DEF SlotVars, EndsCounted, EndedAs
<1> QED BY <1>1, <1>2, <1>3 DEF SlotStep

(* The inductive invariant: a slot's place in the ledger is only preserved   *)
(* because a worker's place says whether it holds one.                       *)
IInv == TypeOK /\ PlacesInv /\ SlotsConserved

LEMMA InitIInv == Init => IInv
<1> SUFFICES ASSUME Init PROVE PlacesInv /\ SlotsConserved
  BY TypeInit DEF IInv
<1>1. PlacesInv BY DEF Init, PlacesInv, Places
<1>2. QueueInOrder BY LimitIsNat DEF Init, QueueInOrder, Slots
<1>3. HeldByOne BY DEF Init, HeldByOne, Slots
<1>4. EndedAs("success") = {} /\ EndedAs("fail") = {} BY DEF Init, EndedAs
<1> QED BY <1>1, <1>2, <1>3, <1>4, FS_EmptySet DEF Init, SlotsConserved, EndsCounted

LEMMA IInvStep == IInv /\ [Next]_vars => IInv'
  BY TypeStep, PlacesStep, NextIsSlotStep, QueueStep, HeldStep, CountStep DEF IInv, SlotsConserved

LEMMA IInvAlways == Spec => []IInv
  BY InitIInv, IInvStep, PTL DEF Spec

(* Type correctness.                                                         *)
THEOREM TypeCorrect == Spec => []TypeOK
<1>1. IInv => TypeOK BY DEF IInv
<1> QED BY <1>1, IInvAlways, PTL

(* No slot is ever lost, shared or counted twice, whatever workers, SIGINT   *)
(* and the main thread do, and stats counts exactly the ends.                *)
THEOREM SlotsAreConserved == Spec => []SlotsConserved
<1>1. IInv => SlotsConserved BY DEF IInv
<1> QED BY <1>1, IInvAlways, PTL

(* A worker that registers holds a slot and a browser, and a dead one holds  *)
(* neither.                                                                  *)
THEOREM BrowsersInHand == Spec => []BrowserInHand
<1>1. IInv => BrowserInHand BY DEF IInv, PlacesInv, Places, BrowserInHand
<1> QED BY <1>1, IInvAlways, PTL
-----------------------------------------------------------------------------
(* The main thread is past the joins of a run that nobody had stopped.       *)
Late == {"cancel", "snapshot", "await", "report", "return", "exited"}
Quiet == (main = "finish" /\ ~stop) \/ (main \in Late /\ ~stopping)

QuietInv ==
    /\ main = "join" /\ ~stop => spawned = Workers
    /\ Quiet => \A w \in Workers : pc[w] = "dead"

LEMMA QuietStep == IInv /\ QuietInv /\ [Next]_vars => QuietInv'
<1> SUFFICES ASSUME IInv, QuietInv, [Next]_vars PROVE QuietInv'
  OBVIOUS
<1>0. TypeOK /\ PlacesInv BY DEF IInv
<1> USE <1>0 DEF QuietInv, Quiet, Late, workVars, mintVars, endVars, stopVars
<1>1. ASSUME NEW w \in Workers, WorkerStep(w) PROVE QuietInv'
  <2>1. pc[w] \notin {"unborn", "dead"} /\ UNCHANGED <<main, spawned, stop, stopping>>
    BY <1>1, Zenon DEF WorkerStep, At, Boot, Loop, Take, SlotLoop, Cancelled, Stuck, Failed, StartMint,
       Track, Registered, PrepareRetry, Recycle, Pace, Close
  <2> QED BY <2>1
<1>2. ASSUME NEW s \in Slots, MintEnds(s) PROVE QuietInv'
  BY <1>2 DEF MintEnds
<1>3. CASE MainStep
  <2>1. CASE Spawn
    <3>1. main = "spawn" /\ UNCHANGED stop BY <2>1 DEF Spawn
    <3>2. CASE stop \/ spawned = Workers
      BY <2>1, <3>2 DEF Spawn
    <3>3. CASE ~(stop \/ spawned = Workers)
      BY <2>1, <3>3 DEF Spawn
    <3> QED BY <3>2, <3>3
  <2>2. CASE Gap BY <2>2 DEF Gap
  <2>3. CASE Join
    <3>1. CASE stop BY <2>3, <3>1 DEF Join
    <3>2. CASE ~stop
      <4>1. \A w \in Workers : ~Alive(w) /\ pc[w] # "unborn"
        BY <2>3, <3>2 DEF Join, PlacesInv, Places
      <4> QED BY <2>3, <3>2, <4>1 DEF Join, Alive
    <3> QED BY <3>1, <3>2
  <2>4. CASE Finish BY <2>4 DEF Finish
  <2>5. CASE Cancel BY <2>5 DEF Cancel, RequestStop
  <2>6. CASE Snapshot BY <2>6 DEF Snapshot
  <2>7. CASE Await BY <2>7 DEF Await
  <2>8. CASE Report BY <2>8 DEF Report
  <2>9. CASE Exit BY <2>9 DEF Exit
  <2> QED BY <1>3, <2>1, <2>2, <2>3, <2>4, <2>5, <2>6, <2>7, <2>8, <2>9 DEF MainStep
<1>4. CASE Sigint BY <1>4 DEF Sigint, RequestStop
<1>5. CASE UNCHANGED vars BY <1>5 DEF vars
<1> QED BY <1>1, <1>2, <1>3, <1>4, <1>5 DEF Next

LEMMA QuietAlways == Spec => []QuietInv
<1>1. Init => QuietInv BY DEF Init, QuietInv, Quiet, Late
<1> QED BY <1>1, IInvAlways, QuietStep, PTL DEF Spec

(* While the run is quiet only the mint threads and the main thread move.    *)
LEMMA QuietWorkers == QuietInv /\ Quiet /\ [Next]_vars => UNCHANGED <<pc, workVars, tracked>>
<1> SUFFICES ASSUME QuietInv, Quiet, [Next]_vars PROVE UNCHANGED <<pc, workVars, tracked>>
  OBVIOUS
<1>1. \A w \in Workers : pc[w] = "dead" BY DEF QuietInv
<1>2. main # "spawn" BY DEF Quiet, Late
<1>3. ~ \E w \in Workers : WorkerStep(w)
  BY <1>1, Zenon DEF WorkerStep, At, Boot, Loop, Take, SlotLoop, Cancelled, Stuck, Failed, StartMint,
     Track, Registered, PrepareRetry, Recycle, Pace, Close
<1> QED BY <1>2, <1>3 DEF Next, MainStep, MintEnds, Sigint, Spawn, Gap, Join, Finish, Cancel,
           RequestStop, Snapshot, Await, Report, Exit, vars, mintVars
-----------------------------------------------------------------------------
(* The mint threads.                                                         *)
MintInv ==
    /\ \A s \in Slots : mint[s] = "live" =>
           s \in tracked \/ \E w \in Workers : pc[w] = "track" /\ slot[w] = s
    /\ main = "await" /\ ~stopping => \A s \in Slots : mint[s] = "live" => s \in awaited
    /\ MintsAwaited

LEMMA MintStep == IInv /\ QuietInv /\ MintInv /\ [Next]_vars => MintInv'
<1> SUFFICES ASSUME IInv, QuietInv, MintInv, [Next]_vars PROVE MintInv'
  OBVIOUS
<1>0. TypeOK /\ PlacesInv BY DEF IInv
<1> DEFINE Tracked(s) == mint[s] = "live" =>
              s \in tracked \/ \E w \in Workers : pc[w] = "track" /\ slot[w] = s
<1> USE <1>0 DEF MintInv, MintsAwaited, workVars, mintVars, endVars, stopVars
<1>1. ASSUME NEW w \in Workers, WorkerStep(w) PROVE MintInv'
  <2>0. UNCHANGED <<main, awaited, stopping, expired>>
    BY <1>1 DEF WorkerStep, Boot, Loop, Take, SlotLoop, Cancelled, Stuck, Failed, StartMint,
       Track, Registered, PrepareRetry, Recycle, Pace, Close
  <2>00. ~Quiet
    BY <1>1 DEF QuietInv, WorkerStep, At, Boot, Loop, Take, SlotLoop, Cancelled, Stuck, Failed,
       StartMint, Track, Registered, PrepareRetry, Recycle, Pace, Close
  <2>1. SUFFICES ASSUME NEW s \in Slots PROVE Tracked(s)'
    BY <2>0, <2>00 DEF Quiet, Late
  <2>2. CASE StartMint(w)
    BY <2>2 DEF StartMint, At, Goto, TypeOK, ThreadsOK, CountsOK
  <2>3. CASE Track(w)
    BY <2>3 DEF Track, At, Goto, TypeOK, ThreadsOK, CountsOK
  <2>4. CASE UNCHANGED mintVars /\ pc[w] # "track" /\ \A v \in Workers \ {w} : UNCHANGED <<pc[v], slot[v]>>
    BY <2>4
  <2>5. CASE ~StartMint(w) /\ ~Track(w)
    <3>1. UNCHANGED mintVars /\ pc[w] # "track"
      BY <1>1, <2>5 DEF WorkerStep, At, Boot, Loop, Take, SlotLoop, Cancelled, Stuck, Failed,
         Registered, PrepareRetry, Recycle, Pace, Close
    <3>2. \A v \in Workers \ {w} : UNCHANGED <<pc[v], slot[v]>>
      BY <1>1, <2>5 DEF TypeOK, ThreadsOK, CountsOK, WorkerStep, Goto, Settle, Boot, Loop, Take,
         SlotLoop, Cancelled, Stuck, Failed, Registered, PrepareRetry, Recycle, Pace, Close
    <3> QED BY <2>4, <3>1, <3>2
  <2> QED BY <2>2, <2>3, <2>5
<1>2. ASSUME NEW s \in Slots, MintEnds(s) PROVE MintInv'
  BY <1>2 DEF MintEnds, TypeOK, ThreadsOK
<1>3. CASE MainStep
  <2>1. CASE Spawn BY <2>1 DEF Spawn, Goto, TypeOK, ThreadsOK, PlacesInv, Places
  <2>2. CASE Gap BY <2>2 DEF Gap
  <2>3. CASE Join BY <2>3 DEF Join
  <2>4. CASE Finish BY <2>4 DEF Finish
  <2>5. CASE Cancel BY <2>5 DEF Cancel, RequestStop
  <2>6. CASE Snapshot
    <3>1. ~stopping => \A s \in Slots : mint[s] = "live" => s \in tracked
      BY <2>6 DEF Snapshot, QuietInv, Quiet, Late
    <3> QED BY <2>6, <3>1 DEF Snapshot, TypeOK, ThreadsOK
  <2>7. CASE Await BY <2>7 DEF Await
  <2>8. CASE Report BY <2>8 DEF Report
  <2>9. CASE Exit BY <2>9 DEF Exit
  <2> QED BY <1>3, <2>1, <2>2, <2>3, <2>4, <2>5, <2>6, <2>7, <2>8, <2>9 DEF MainStep
<1>4. CASE Sigint BY <1>4 DEF Sigint, RequestStop
<1>5. CASE UNCHANGED vars BY <1>5 DEF vars
<1> QED BY <1>1, <1>2, <1>3, <1>4, <1>5 DEF Next

(* A run that nobody stopped and whose wait did not time out leaves no mint  *)
(* thread behind: each is tracked before its worker can end, and the workers *)
(* are all dead when the threads are listed.                                 *)
THEOREM MintsAreAwaited == Spec => []MintsAwaited
<1>1. Init => MintInv BY DEF Init, MintInv, MintsAwaited
<1>2. MintInv => MintsAwaited BY DEF MintInv
<1> QED BY <1>1, <1>2, IInvAlways, QuietAlways, MintStep, PTL DEF Spec

-----------------------------------------------------------------------------
(* The shortfall. Without a stop only crashed workers close with a slot in   *)
(* hand, one each.                                                           *)
DeadByCrash == {w \in crashed : pc[w] = "dead"}

Unstopped == ~stop \/ Quiet

ShortfallInv ==
    /\ \A w \in Workers : pc[w] \in {"recycle", "pace"} /\ resume[w] = "close" => w \in crashed
    /\ Unstopped => \A w \in Workers \ crashed :
           pc[w] \in {"close", "dead"} => slot[w] = 0 /\ ~Unlimited /\ issued = Limit
    /\ Unstopped => Cardinality(EndedAs("dropped")) <= Cardinality(DeadByCrash)

(* The published summary is that of the moment, until a stopped run moves on.*)
SummaryInv ==
    /\ published # {} => main \in {"return", "exited"}
    /\ \A summary \in published :
           summary.clean => ~stopping /\ summary.success = success /\ summary.fail = fail

LEMMA WorkersFinite ==
    \A S \in SUBSET Workers :
        /\ IsFiniteSet(S) /\ Cardinality(S) \in Nat
        /\ \A T \in SUBSET S : Cardinality(T) <= Cardinality(S)
  BY WorkersAssumption, FS_Subset, FS_CardinalityType

LEMMA CrashedAreWorkers == TypeOK => crashed \subseteq Workers /\ DeadByCrash \subseteq crashed
  BY DEF TypeOK, ThreadsOK, DeadByCrash

(* A worker that closes with a slot adds one to both sides.                  *)
LEMMA DropStep ==
    ASSUME TypeOK, PlacesInv, SlotsConserved, ShortfallInv, Unstopped,
           NEW w \in Workers, Close(w)
    PROVE  Cardinality(EndedAs("dropped"))' <= Cardinality(DeadByCrash)'
<1> USE DEF TypeOK, ThreadsOK, CountsOK
<1>1. pc[w] = "close" /\ UNCHANGED crashed /\ pc' = [pc EXCEPT ![w] = "dead"]
  BY DEF Close, At, Goto
<1>2. Cardinality(EndedAs("dropped")) \in Nat /\ IsFiniteSet(EndedAs("dropped"))
  BY EndsFinite
<1>3. CASE slot[w] = 0
  <2>1. EndedAs("dropped")' = EndedAs("dropped") BY <1>3 DEF Close, EndedAs
  <2>2. DeadByCrash \subseteq DeadByCrash' /\ DeadByCrash' \subseteq Workers
    BY <1>1 DEF DeadByCrash
  <2>3. Cardinality(DeadByCrash) <= Cardinality(DeadByCrash')
    BY <2>2, WorkersFinite
  <2>4. Cardinality(DeadByCrash) \in Nat /\ Cardinality(DeadByCrash') \in Nat
    BY <2>2, WorkersFinite
  <2> QED BY <2>1, <2>3, <2>4, <1>2 DEF ShortfallInv
<1>4. CASE slot[w] # 0
  <2>1. w \in crashed BY <1>1, <1>4 DEF ShortfallInv
  <2>2. w \notin DeadByCrash /\ DeadByCrash' = DeadByCrash \union {w}
    BY <1>1, <2>1 DEF DeadByCrash
  <2>3. slot[w] \in Slots /\ fate[slot[w]] = "held"
    BY <1>4 DEF SlotsConserved, HeldByOne
  <2>4. slot[w] \notin EndedAs("dropped")
        /\ EndedAs("dropped")' = EndedAs("dropped") \union {slot[w]}
    BY <1>4, <2>3 DEF Close, EndedAs
  <2>5. Cardinality(DeadByCrash)' = Cardinality(DeadByCrash) + 1
    BY <2>2, WorkersFinite, CrashedAreWorkers, FS_AddElement
  <2>6. Cardinality(EndedAs("dropped"))' = Cardinality(EndedAs("dropped")) + 1
    BY <2>4, <1>2, FS_AddElement
  <2> QED BY <2>5, <2>6, <1>2, WorkersFinite, CrashedAreWorkers DEF ShortfallInv
<1> QED BY <1>3, <1>4

(* Any other step drops nothing and revives nobody.                          *)
LEMMA KeepStep ==
    ASSUME TypeOK, PlacesInv, SlotsConserved, ShortfallInv, Unstopped, TypeOK',
           EndedAs("dropped")' = EndedAs("dropped"),
           DeadByCrash \subseteq DeadByCrash'
    PROVE  Cardinality(EndedAs("dropped"))' <= Cardinality(DeadByCrash)'
<1>1. DeadByCrash' \subseteq Workers /\ DeadByCrash \subseteq Workers
  BY DEF TypeOK, ThreadsOK, DeadByCrash
<1>2. Cardinality(DeadByCrash) <= Cardinality(DeadByCrash')
  BY <1>1, WorkersFinite
<1>3. Cardinality(DeadByCrash) \in Nat /\ Cardinality(DeadByCrash') \in Nat
  BY <1>1, WorkersFinite
<1> QED BY <1>2, <1>3, EndsFinite DEF ShortfallInv

LEMMA UnstoppedBefore == QuietInv /\ [Next]_vars /\ Unstopped' => Unstopped
<1> SUFFICES ASSUME QuietInv, [Next]_vars, stop, ~Quiet PROVE ~Unstopped'
  BY DEF Unstopped
<1> USE DEF Unstopped, Quiet, Late, endVars, stopVars, workVars
<1>1. ASSUME NEW w \in Workers, WorkerStep(w) PROVE ~Unstopped'
  <2>1. UNCHANGED <<main, stop, stopping>>
    BY <1>1 DEF WorkerStep, Boot, Loop, Take, SlotLoop, Cancelled, Stuck, Failed, StartMint,
       Track, Registered, PrepareRetry, Recycle, Pace, Close
  <2> QED BY <2>1
<1>2. ASSUME NEW s \in Slots, MintEnds(s) PROVE ~Unstopped'
  BY <1>2 DEF MintEnds
<1>3. CASE MainStep
  BY <1>3 DEF MainStep, Spawn, Gap, Join, Finish, Cancel, RequestStop, Snapshot, Await, Report, Exit
<1>4. CASE Sigint BY <1>4 DEF Sigint, RequestStop
<1>5. CASE UNCHANGED vars BY <1>5 DEF vars
<1> QED BY <1>1, <1>2, <1>3, <1>4, <1>5 DEF Next

LEMMA ShortfallStep == IInv /\ QuietInv /\ ShortfallInv /\ [Next]_vars /\ IInv' => ShortfallInv'
<1> SUFFICES ASSUME IInv, QuietInv, ShortfallInv, [Next]_vars, IInv' PROVE ShortfallInv'
  OBVIOUS
<1>0. TypeOK /\ PlacesInv /\ SlotsConserved /\ TypeOK' /\ (Unstopped' => Unstopped)
  BY UnstoppedBefore DEF IInv
<1> DEFINE Dropped == EndedAs("dropped")
<1> USE DEF TypeOK, ThreadsOK, CountsOK, workVars, mintVars, endVars, stopVars
<1>1. ASSUME NEW w \in Workers, WorkerStep(w) PROVE ShortfallInv'
  <2>0. ~Quiet /\ UNCHANGED <<main, stop, stopping>>
    BY <1>1 DEF QuietInv, WorkerStep, At, Boot, Loop, Take, SlotLoop, Cancelled, Stuck, Failed,
       StartMint, Track, Registered, PrepareRetry, Recycle, Pace, Close
  <2>00. Unstopped = ~stop /\ Unstopped' = ~stop' BY <2>0 DEF Unstopped, Quiet, Late
  <2>1. ASSUME NEW v \in Workers, pc'[v] \in {"recycle", "pace"}, resume'[v] = "close"
        PROVE  v \in crashed'
    BY <1>0, <1>1, <2>1 DEF ShortfallInv, WorkerStep, At, Goto, Boot, Loop, Take, SlotLoop,
       Cancelled, Stuck, Failed, StartMint, Track, Registered, PrepareRetry, Recycle, Pace, Close
  <2>2. ASSUME ~stop, NEW v \in Workers \ crashed', pc'[v] \in {"close", "dead"}
        PROVE  slot'[v] = 0 /\ ~Unlimited /\ issued' = Limit
    <3>0. v \notin crashed
      BY <1>1, <2>2 DEF WorkerStep, Boot, Loop, Take, SlotLoop, Cancelled, Stuck, Failed,
         StartMint, Track, Registered, PrepareRetry, Recycle, Pace, Close
    <3>1. pc[v] \in {"close", "dead"} => slot[v] = 0 /\ ~Unlimited /\ issued = Limit
      BY <1>0, <2>00, <2>2, <3>0 DEF ShortfallInv
    <3>2. Places(w) /\ Places(v) BY <1>0 DEF PlacesInv
    <3>3. CASE Boot(w) BY <1>0, <2>2, <3>1, <3>3 DEF Boot, Goto
    <3>4. CASE Loop(w) BY <1>0, <2>2, <3>1, <3>4 DEF Loop, Goto
    <3>5. CASE Take(w)
      BY <1>0, <2>2, <3>1, <3>2, <3>5, LimitIsNat DEF Take, At, Goto, Places
    <3>6. CASE SlotLoop(w) BY <1>0, <2>2, <3>1, <3>6 DEF SlotLoop, Goto
    <3>7. CASE Cancelled(w) BY <1>0, <2>2, <3>1, <3>7 DEF Cancelled, Goto
    <3>8. CASE Stuck(w) BY <1>0, <2>2, <3>1, <3>8 DEF Stuck, Settle, Goto, At
    <3>9. CASE Failed(w) BY <1>0, <2>2, <3>1, <3>9 DEF Failed, Settle, Goto, At
    <3>10. CASE StartMint(w) BY <1>0, <2>2, <3>1, <3>10 DEF StartMint, Goto
    <3>11. CASE Track(w) BY <1>0, <2>2, <3>1, <3>11 DEF Track, Goto
    <3>12. CASE Registered(w) BY <1>0, <2>2, <3>1, <3>12 DEF Registered, Settle, Goto, At
    <3>13. CASE PrepareRetry(w) BY <1>0, <2>2, <3>1, <3>13 DEF PrepareRetry, Goto
    <3>14. CASE Recycle(w) BY <1>0, <2>2, <3>1, <3>14 DEF Recycle, Goto
    <3>15. CASE Pace(w) BY <1>0, <2>2, <3>0, <3>1, <3>15 DEF Pace, Goto, At, ShortfallInv
    <3>16. CASE Close(w) BY <1>0, <2>2, <3>1, <3>16 DEF Close, Goto, At
    <3> QED BY <1>1, <3>3, <3>4, <3>5, <3>6, <3>7, <3>8, <3>9, <3>10, <3>11, <3>12, <3>13, <3>14,
               <3>15, <3>16 DEF WorkerStep
  <2>3. ASSUME ~stop PROVE Cardinality(Dropped)' <= Cardinality(DeadByCrash)'
    <3>1. CASE Close(w) BY <1>0, <2>00, <2>3, <3>1, DropStep
    <3>2. CASE ~Close(w)
      <4>1. DeadByCrash \subseteq DeadByCrash'
        BY <1>0, <1>1, <3>2 DEF DeadByCrash, WorkerStep, At, Goto, Boot, Loop, Take, SlotLoop, Cancelled,
           Stuck, Failed, StartMint, Track, Registered, PrepareRetry, Recycle, Pace
      <4>2. Dropped' = Dropped
        <5>1. CASE UNCHANGED fate BY <5>1 DEF EndedAs
        <5>2. CASE Take(w)
          <6>1. issued < Limit => issued + 1 \in Slots /\ fate[issued + 1] = "queued"
            BY <1>0, LimitIsNat DEF SlotsConserved, QueueInOrder, Slots
          <6> QED BY <1>0, <5>2, <6>1, <5>1 DEF Take, EndedAs
        <5>3. ASSUME NEW e \in {"success", "fail"}, Settle(w, e),
                     pc[w] \in {"register", "save"}
              PROVE  Dropped' = Dropped
          <6>1. slot[w] \in Slots /\ fate[slot[w]] = "held"
            BY <1>0, <5>3 DEF PlacesInv, Places, SlotsConserved, HeldByOne
          <6> QED BY <1>0, <5>3, <6>1 DEF Settle, EndedAs
        <5>4. CASE Stuck(w) BY <5>1, <5>3, <5>4 DEF Stuck, At
        <5>5. CASE Failed(w) BY <5>3, <5>5 DEF Failed, At
        <5>6. CASE Registered(w) BY <5>3, <5>6 DEF Registered, At
        <5> QED BY <1>1, <3>2, <5>1, <5>2, <5>4, <5>5, <5>6 DEF WorkerStep, Boot, Loop, SlotLoop,
                   Cancelled, StartMint, Track, PrepareRetry, Recycle, Pace
      <4> QED BY <1>0, <2>00, <2>3, <4>1, <4>2, KeepStep
    <3> QED BY <3>1, <3>2
  <2> QED BY <2>0, <2>00, <2>1, <2>2, <2>3 DEF ShortfallInv
<1>2. CASE Spawn
  <2>1. UNCHANGED <<workVars, stop, stopping>> /\ ~Quiet BY <1>2 DEF Spawn, Quiet, Late
  <2>2. \A v \in Workers : pc'[v] = pc[v] \/ (pc'[v] = "boot" /\ pc[v] = "unborn")
    BY <1>0, <1>2 DEF Spawn, Goto, PlacesInv, Places
  <2>3. DeadByCrash \subseteq DeadByCrash' /\ Dropped' = Dropped
    BY <1>0, <2>1, <2>2 DEF DeadByCrash, EndedAs
  <2> QED BY <1>0, <2>1, <2>2, <2>3, KeepStep DEF ShortfallInv
<1>3. CASE UNCHANGED <<pc, workVars>>
  <2>1. UNCHANGED <<DeadByCrash, Dropped>> BY <1>3 DEF DeadByCrash, EndedAs
  <2> QED BY <1>0, <1>3, <2>1 DEF ShortfallInv
<1> QED BY <1>1, <1>2, <1>3 DEF Next, MainStep, MintEnds, Gap, Join, Finish, Cancel, RequestStop, Snapshot, Await,
           Report, Exit, Sigint, vars

LEMMA SummaryInvStep == IInv /\ QuietInv /\ SummaryInv /\ [Next]_vars => SummaryInv'
<1> SUFFICES ASSUME IInv, QuietInv, SummaryInv, [Next]_vars PROVE SummaryInv'
  OBVIOUS
<1> USE DEF SummaryInv, workVars, mintVars, endVars, stopVars
<1>1. CASE Report
  <2>1. main' = "return" /\ UNCHANGED <<success, fail, stopping>>
    BY <1>1 DEF Report
  <2>2. published' = {[clean |-> ~stopping, success |-> success, fail |-> fail]}
    BY <1>1 DEF Report
  <2>3. ASSUME NEW summary \in published'
        PROVE  (summary.clean <=> ~stopping) /\ summary.success = success /\ summary.fail = fail
    <3>1. summary = [clean |-> ~stopping, success |-> success, fail |-> fail] BY <2>2, Zenon
    <3> QED BY <3>1, Zenon
  <2> QED BY <2>1, <2>3
<1>2. CASE ~Report
  <2>1. UNCHANGED published
    BY <1>2 DEF Next, vars, MainStep, MintEnds, Spawn, Gap, Join, Finish, Cancel, RequestStop, Snapshot, Await,
       Exit, Sigint, WorkerStep, Boot, Loop, Take, SlotLoop, Cancelled, Stuck, Failed, StartMint,
       Track, Registered, PrepareRetry, Recycle, Pace, Close
  <2>2. main \in {"return", "exited"} => main' \in {"return", "exited"} /\ stopping' = stopping
    BY <1>2 DEF Next, vars, MainStep, MintEnds, Spawn, Gap, Join, Finish, Cancel, RequestStop, Snapshot, Await,
       Exit, Sigint, Running, WorkerStep, Boot, Loop, Take, SlotLoop, Cancelled, Stuck, Failed,
       StartMint, Track, Registered, PrepareRetry, Recycle, Pace, Close
  <2>3. Quiet => UNCHANGED <<success, fail>> BY QuietWorkers
  <2> QED BY <2>1, <2>2, <2>3 DEF Quiet, Late
<1> QED BY <1>1, <1>2

EndInv == QuietInv /\ ShortfallInv /\ SummaryInv

LEMMA EndInvAlways == Spec => []EndInv
<1>1. Init => ShortfallInv
  <2>1. Init => EndedAs("dropped") = {} /\ DeadByCrash = {} BY DEF Init, EndedAs, DeadByCrash
  <2> QED BY <2>1, FS_EmptySet DEF Init, ShortfallInv
<1>2. Init => SummaryInv BY DEF Init, SummaryInv
<1>3. IInv /\ QuietInv /\ ShortfallInv /\ SummaryInv /\ [Next]_vars /\ IInv'
          => ShortfallInv' /\ SummaryInv'
  BY ShortfallStep, SummaryInvStep
<1> QED BY <1>1, <1>2, <1>3, IInvAlways, QuietAlways, PTL DEF Spec, EndInv

(* The three ways a slot of a finished run can have ended make up all slots. *)
LEMMA EndsSum ==
    ASSUME TypeOK, \A s \in Slots : fate[s] \notin {"queued", "held"}
    PROVE  Cardinality(EndedAs("success")) + Cardinality(EndedAs("fail"))
               + Cardinality(EndedAs("dropped")) = Limit
<1> DEFINE A == EndedAs("success")
           B == EndedAs("fail")
           C == EndedAs("dropped")
<1>1. A \intersect B = {} /\ (A \union B) \intersect C = {} /\ (A \union B) \union C = Slots
  BY DEF EndedAs, TypeOK, ThreadsOK, Fates
<1>2. /\ IsFiniteSet(A) /\ IsFiniteSet(B) /\ IsFiniteSet(C)
      /\ Cardinality(A) \in Nat /\ Cardinality(B) \in Nat /\ Cardinality(C) \in Nat
  BY EndsFinite
<1> HIDE DEF A, B, C
<1>3. IsFiniteSet(A \union B) /\ Cardinality(A \union B) = Cardinality(A) + Cardinality(B)
  <2>1. Cardinality(A \union B) = Cardinality(A) + Cardinality(B) - Cardinality(A \intersect B)
        /\ IsFiniteSet(A \union B)
    BY <1>2, FS_Union, Zenon
  <2>2. Cardinality(A \intersect B) = 0 BY <1>1, FS_EmptySet, Zenon
  <2> QED BY <2>1, <2>2, <1>2
<1>5. Cardinality(Slots) = Cardinality(A) + Cardinality(B) + Cardinality(C)
  <2>1. Cardinality((A \union B) \union C)
            = Cardinality(A \union B) + Cardinality(C) - Cardinality((A \union B) \intersect C)
    BY <1>2, <1>3, FS_Union, Zenon
  <2>2. Cardinality((A \union B) \intersect C) = 0 BY <1>1, FS_EmptySet, Zenon
  <2>3. Cardinality(Slots) = Cardinality((A \union B) \union C) BY <1>1, Zenon
  <2> QED BY <2>1, <2>2, <2>3, <1>2, <1>3
<1>4. Cardinality(Slots) = Limit
  BY LimitIsNat, FS_Interval DEF Slots
<1> QED BY <1>4, <1>5 DEF A, B, C

(* A run of N accounts that nobody stopped, and one of whose workers never   *)
(* lost its browser for good, emptied the queue; what it is short of N is    *)
(* at most the number of workers that crashed.                               *)
THEOREM ShortfallIsBounded == Spec => []ShortfallBounded
<1>1. IInv /\ EndInv => ShortfallBounded
  <2> SUFFICES ASSUME IInv, EndInv, NEW summary \in published,
                      summary.clean, ~Unlimited, crashed # Workers
               PROVE  /\ issued = Count
                      /\ summary.success + summary.fail + Cardinality(crashed) >= Count
    BY DEF ShortfallBounded
  <2>1. TypeOK /\ PlacesInv /\ SlotsConserved /\ QuietInv /\ ShortfallInv /\ SummaryInv
    BY DEF IInv, EndInv
  <2>2. Quiet /\ summary.success = success /\ summary.fail = fail
    BY <2>1 DEF SummaryInv, Quiet, Late
  <2>3. \A w \in Workers : pc[w] = "dead" /\ slot[w] = 0
    BY <2>1, <2>2 DEF QuietInv, PlacesInv, Places
  <2>4. PICK w \in Workers : w \notin crashed
    BY <2>1 DEF TypeOK, ThreadsOK
  <2>5. issued = Limit /\ Limit = Count
    BY <2>1, <2>2, <2>3, <2>4 DEF ShortfallInv, Unstopped, Limit
  <2>6. \A s \in Slots : fate[s] \notin {"queued", "held"}
    BY <2>1, <2>3, <2>5, LimitIsNat DEF SlotsConserved, QueueInOrder, HeldByOne, Slots
  <2>7. Cardinality(EndedAs("dropped")) <= Cardinality(DeadByCrash)
    BY <2>1, <2>2 DEF ShortfallInv, Unstopped
  <2>8. crashed \subseteq Workers /\ DeadByCrash \subseteq crashed BY <2>1, CrashedAreWorkers
  <2>9. Cardinality(DeadByCrash) <= Cardinality(crashed)
        /\ Cardinality(DeadByCrash) \in Nat /\ Cardinality(crashed) \in Nat
    BY <2>8, WorkersFinite
  <2>10. success + fail + Cardinality(EndedAs("dropped")) = Limit
    BY <2>1, <2>6, EndsSum DEF SlotsConserved, EndsCounted
  <2> QED BY <2>1, <2>2, <2>5, <2>7, <2>9, <2>10, EndsFinite DEF TypeOK, CountsOK
<1> QED BY <1>1, IInvAlways, EndInvAlways, PTL
-----------------------------------------------------------------------------
(* Refinement.                                                               *)

(* A clean summary is final: no slot can move any more.                      *)
LEMMA ClosedIsQuiet == EndInv /\ Ledger!Closed => Quiet
  BY DEF EndInv, SummaryInv, Ledger!Closed, Quiet, Late

LEMMA LedgerStep == IInv /\ EndInv /\ [Next]_vars => [Ledger!Next]_(Ledger!vars)
<1> SUFFICES ASSUME IInv, EndInv, [Next]_vars PROVE [Ledger!Next]_(Ledger!vars)
  OBVIOUS
<1>0. TypeOK /\ PlacesInv /\ SlotsConserved /\ QuietInv /\ SlotStep /\ Ledger!Slots = Slots
  BY NextIsSlotStep DEF IInv, EndInv, Ledger!Slots, Slots
<1>1. CASE Quiet /\ ~Report
  <2>1. UNCHANGED fate BY <1>0, <1>1, QuietWorkers DEF workVars
  <2>2. UNCHANGED published
    BY <1>1 DEF Next, vars, endVars, MainStep, MintEnds, Spawn, Gap, Join, Finish, Cancel, RequestStop, Snapshot,
       Await, Exit, Sigint, WorkerStep, Boot, Loop, Take, SlotLoop, Cancelled, Stuck, Failed,
       StartMint, Track, Registered, PrepareRetry, Recycle, Pace, Close
  <2> QED BY <2>1, <2>2 DEF Ledger!vars
<1>2. CASE ~Quiet /\ ~Report
  <2>1. ~Ledger!Closed BY <1>2, ClosedIsQuiet
  <2>2. UNCHANGED published
    BY <1>2 DEF Next, vars, endVars, MainStep, MintEnds, Spawn, Gap, Join, Finish, Cancel, RequestStop, Snapshot,
       Await, Exit, Sigint, WorkerStep, Boot, Loop, Take, SlotLoop, Cancelled, Stuck, Failed,
       StartMint, Track, Registered, PrepareRetry, Recycle, Pace, Close
  <2>3. ASSUME NEW w \in Workers, TakeSlot(w) PROVE Ledger!Next
    <3>1. issued + 1 \in Slots /\ Ledger!Issue(issued + 1)
      BY <1>0, <2>1, <2>2, <2>3, LimitIsNat
      DEF TakeSlot, Ledger!Issue, SlotsConserved, QueueInOrder, Slots, TypeOK, CountsOK
    <3> QED BY <1>0, <3>1 DEF Ledger!Next
  <2>4. ASSUME NEW w \in Workers, NEW e \in {"success", "fail", "dropped"}, EndSlot(w, e)
        PROVE  Ledger!Next
    <3>1. slot[w] \in Slots /\ Ledger!End(slot[w], e)
      BY <2>1, <2>2, <2>4, <1>0 DEF EndSlot, Ledger!End, SlotsConserved, HeldByOne
    <3> QED BY <1>0, <3>1 DEF Ledger!Next, Ledger!Ends
  <2>5. CASE UNCHANGED SlotVars BY <2>2, <2>5 DEF SlotVars, Ledger!vars
  <2> QED BY <1>0, <2>3, <2>4, <2>5 DEF SlotStep
<1>3. CASE Report
  <2>1. ~stopping => \A s \in Slots : fate[s] # "held"
    <3>1. ~stopping => \A w \in Workers : slot[w] = 0
      BY <1>0, <1>3 DEF Report, QuietInv, Quiet, Late, PlacesInv, Places
    <3> QED BY <1>0, <3>1, LimitIsNat DEF SlotsConserved, HeldByOne, Slots
  <2>2. published = {} BY <1>3 DEF Report, EndInv, SummaryInv
  <2>3. Ledger!EndedAs("success") = EndedAs("success") /\ Ledger!EndedAs("fail") = EndedAs("fail")
    BY <1>0 DEF Ledger!EndedAs, EndedAs
  <2>4. (~stopping) \in BOOLEAN /\ UNCHANGED fate
    BY <1>0, <1>3 DEF Report, workVars, TypeOK, FlagsOK
  <2>5. Ledger!Publish(~stopping)
    <3>0. \A S : Ledger!Cardinality(S) = Cardinality(S)
      BY DEF Cardinality, Ledger!Cardinality
    <3>1. success = Ledger!Cardinality(Ledger!EndedAs("success"))
          /\ fail = Ledger!Cardinality(Ledger!EndedAs("fail"))
      BY <1>0, <2>3, <3>0 DEF SlotsConserved, EndsCounted
    <3>2. published' = {[clean |-> ~stopping, success |-> success, fail |-> fail]}
      BY <1>3 DEF Report
    <3>3. ~stopping => \A s \in Ledger!Slots : fate[s] # "held" BY <1>0, <2>1
    <3>4. published' = {[clean   |-> ~stopping,
                         success |-> Ledger!Cardinality(Ledger!EndedAs("success")),
                         fail    |-> Ledger!Cardinality(Ledger!EndedAs("fail"))]}
      BY <3>1, <3>2, Zenon
    <3> QED BY <2>2, <2>4, <3>3, <3>4, Zenon DEF Ledger!Publish
  <2> QED BY <2>4, <2>5 DEF Ledger!Next
<1> QED BY <1>1, <1>2, <1>3

(* The run implements the ledger of slots: every step of every thread is one *)
(* of its steps or leaves it alone.                                          *)
THEOREM RunImplementsLedger == Spec => LedgerSpec
<1>1. Init => Ledger!Init
  BY DEF Init, Ledger!Init, Ledger!Slots, Slots
<1> QED BY <1>1, LedgerStep, IInvAlways, EndInvAlways, PTL DEF Spec, LedgerSpec, Ledger!Spec
-----------------------------------------------------------------------------
(* A slot that was still queued when stop was requested is, if anywhere, in  *)
(* the hands of a worker that has not looked at the flag yet or is closing.  *)
Frozen(s) ==
    /\ stop
    /\ fate[s] \in {"queued", "held", "dropped"}
    /\ \A w \in Workers : slot[w] = s => pc[w] \in {"slot", "close"}

LEMMA FrozenStep ==
    ASSUME NEW s \in Slots PROVE IInv /\ Frozen(s) /\ [Next]_vars => Frozen(s)'
<1> SUFFICES ASSUME IInv, Frozen(s), [Next]_vars PROVE Frozen(s)'
  OBVIOUS
<1>0. TypeOK /\ PlacesInv /\ SlotsConserved /\ s # 0 /\ stop
  BY LimitIsNat DEF IInv, Frozen, Slots
<1> USE <1>0 DEF TypeOK, ThreadsOK, CountsOK, workVars, mintVars, endVars, stopVars, Frozen
<1>1. ASSUME NEW w \in Workers, WorkerStep(w) PROVE Frozen(s)'
  <2>1. CASE Take(w)
    <3>1. CASE issued < Limit
      <4>1. fate[s] = "queued" => \A v \in Workers : slot[v] # s
        BY DEF SlotsConserved, HeldByOne
      <4>2. issued + 1 # s => slot'[w] # s
        BY <2>1, <3>1 DEF Take
      <4>3. issued + 1 = s => fate[s] = "queued"
        BY <3>1, LimitIsNat DEF SlotsConserved, QueueInOrder
      <4> QED BY <2>1, <3>1, <4>1, <4>2, <4>3 DEF Take, Goto
    <3>2. CASE ~(issued < Limit)
      <4>1. slot[w] # s
        BY <2>1 DEF Take, At, PlacesInv, Places
      <4> QED BY <2>1, <3>2, <4>1 DEF Take, Goto
    <3> QED BY <3>1, <3>2
  <2>2. CASE SlotLoop(w)
    BY <2>2 DEF SlotLoop, Goto
  <2>3. CASE Close(w)
    <3>1. slot'[w] # s /\ \A v \in Workers \ {w} : slot'[v] = slot[v] /\ pc'[v] = pc[v]
      BY <2>3 DEF Close, Goto
    <3>2. fate'[s] \in {fate[s], "dropped"} /\ UNCHANGED stop
      BY <2>3 DEF Close
    <3> QED BY <3>1, <3>2
  <2>4. CASE Boot(w) \/ Loop(w) \/ Cancelled(w) \/ StartMint(w) \/ Track(w) \/ PrepareRetry(w)
             \/ Recycle(w) \/ Pace(w)
    <3>1. /\ pc[w] \notin {"slot", "close"} /\ UNCHANGED <<slot, fate, stop>>
          /\ \A v \in Workers \ {w} : pc'[v] = pc[v]
      BY <2>4 DEF At, Goto, Boot, Loop, Cancelled, StartMint, Track, PrepareRetry, Recycle, Pace
    <3> QED BY <3>1
  <2>5. CASE Stuck(w) \/ Failed(w) \/ Registered(w)
    <3>1. slot[w] # s /\ pc[w] \notin {"slot", "close"} /\ slot[w] \in Slots
      BY <2>5 DEF Stuck, Failed, Registered, At, PlacesInv, Places
    <3>2. /\ slot' \in {slot, [slot EXCEPT ![w] = 0]} /\ UNCHANGED stop
          /\ \A v \in Workers \ {w} : pc'[v] = pc[v]
      BY <2>5 DEF Stuck, Failed, Registered, Settle, Goto
    <3>3. fate'[s] = fate[s]
      BY <2>5, <3>1 DEF Stuck, Failed, Registered, Settle
    <3> QED BY <3>1, <3>2, <3>3
  <2> QED BY <1>1, <2>1, <2>2, <2>3, <2>4, <2>5 DEF WorkerStep
<1>2. CASE Spawn
  <2>1. /\ \A v \in Workers : pc'[v] = pc[v] \/ pc[v] = "unborn"
        /\ UNCHANGED <<slot, fate, stop>>
    BY <1>2 DEF Spawn, Goto, PlacesInv, Places
  <2>2. \A v \in Workers : pc[v] = "unborn" => slot[v] # s
    BY DEF PlacesInv, Places
  <2> QED BY <2>1, <2>2
<1>3. CASE UNCHANGED <<pc, workVars>> /\ stop'
  BY <1>3
<1> QED BY <1>1, <1>2, <1>3 DEF Next, MainStep, MintEnds, Gap, Join, Finish, Cancel, RequestStop, Snapshot, Await,
           Report, Exit, Sigint, vars

(* A first request finds slots queued that nobody has; before it, nothing is *)
(* frozen.                                                                   *)
FrozenInv == \A s \in frozen : Frozen(s)

LEMMA FrozenInvStep == IInv /\ FrozenInv /\ [Next]_vars => FrozenInv'
<1> SUFFICES ASSUME IInv, FrozenInv, [Next]_vars, NEW s \in frozen' PROVE Frozen(s)'
  BY DEF FrozenInv
<1>0. TypeOK /\ SlotsConserved /\ frozen \subseteq Slots
  BY DEF IInv, TypeOK, ThreadsOK
<1>1. CASE frozen' = frozen
  BY <1>0, <1>1, FrozenStep DEF FrozenInv
<1>2. CASE frozen' # frozen
  <2>1. Cancel \/ Sigint
    BY <1>2 DEF Next, vars, stopVars, MainStep, MintEnds, Spawn, Gap, Join, Finish, Snapshot, Await,
       Report, Exit, WorkerStep, Boot, Loop, Take, SlotLoop, Cancelled, Stuck, Failed, StartMint,
       Track, Registered, PrepareRetry, Recycle, Pace, Close
  <2>2. /\ stop' /\ UNCHANGED <<pc, slot, fate>>
        /\ s \in Slots /\ fate[s] = "queued"
    BY <1>2, <2>1 DEF Cancel, Sigint, RequestStop, workVars
  <2>3. \A w \in Workers : slot[w] # s
    BY <1>0, <2>2 DEF SlotsConserved, HeldByOne
  <2> QED BY <2>2, <2>3 DEF Frozen
<1> QED BY <1>1, <1>2

(* What a stop finds queued is never registered, whatever the workers that   *)
(* are past their own check of the flag still take out of the queue.         *)
THEOREM StopFreezesQueue == Spec => []QueueFrozenByStop
<1>1. Init => FrozenInv
  BY DEF Init, FrozenInv
<1>2. FrozenInv => QueueFrozenByStop
  BY DEF FrozenInv, Frozen, QueueFrozenByStop
<1> QED BY <1>1, <1>2, FrozenInvStep, IInvAlways, PTL DEF Spec
-----------------------------------------------------------------------------
(* A worker's own step: what it takes, spends or comes nearer to.            *)
LEMMA OwnStepUsesUp ==
    ASSUME TypeOK, ~Unlimited, NEW w \in Workers, WorkerStep(w), pc'[w] # pc[w]
    PROVE  UsesUp(w)
<1> USE DEF UsesUp, StepsLeft, At, Goto, TypeOK, ThreadsOK, CountsOK, workVars
<1>0. issued \in Nat /\ retry[w] \in Nat
  BY LimitIsNat, RetryAssumption
<1>1. CASE Take(w)
  BY <1>0, <1>1 DEF Take
<1>2. CASE Stuck(w)
  BY <1>0, <1>2 DEF Stuck
<1>3. CASE Failed(w) \/ Registered(w)
  BY <1>0, <1>3 DEF Failed, Registered
<1>4. CASE Boot(w) \/ Loop(w) \/ SlotLoop(w) \/ Cancelled(w) \/ StartMint(w) \/ Track(w)
  BY <1>0, <1>4 DEF Boot, Loop, SlotLoop, Cancelled, StartMint, Track
<1>5. CASE PrepareRetry(w)
  BY <1>0, <1>5 DEF PrepareRetry
<1>6. CASE Recycle(w)
  BY <1>0, <1>6 DEF Recycle
<1>7. CASE Pace(w)
  BY <1>0, <1>7 DEF Pace
<1>8. CASE Close(w)
  BY <1>0, <1>8 DEF Close
<1> QED BY <1>1, <1>2, <1>3, <1>4, <1>5, <1>6, <1>7, <1>8 DEF WorkerStep

(* Every round of a worker of a counted run uses up a slot, a retry or a     *)
(* step of its attempt: the loops of _cli_worker_loop cannot go on for ever. *)
THEOREM TurnsAreUsedUp == Spec => TurnsUsedUp
<1>1. ASSUME IInv, [Next]_vars, ~Unlimited, NEW w \in Workers, pc[w] # "unborn", pc'[w] # pc[w]
      PROVE  UsesUp(w)
  <2>1. TypeOK /\ PlacesInv
    BY <1>1 DEF IInv
  <2>2. ASSUME NEW v \in Workers, WorkerStep(v) PROVE v = w
    BY <1>1, <2>1, <2>2 DEF TypeOK, ThreadsOK, Goto, WorkerStep, Boot, Loop, Take, SlotLoop,
       Cancelled, Stuck, Failed, StartMint, Track, Registered, PrepareRetry, Recycle, Pace, Close
  <2>3. ~Spawn
    BY <1>1, <2>1 DEF Spawn, Goto, TypeOK, ThreadsOK, PlacesInv, Places
  <2>4. \E v \in Workers : WorkerStep(v)
    BY <1>1, <2>3 DEF Next, MainStep, MintEnds, Gap, Join, Finish, Cancel, Snapshot, Await,
       Report, Exit, Sigint, vars
  <2> QED BY <1>1, <2>1, <2>2, <2>4, OwnStepUsesUp
<1>2. IInv /\ [Next]_vars =>
          [~Unlimited => \A w \in Workers :
              pc[w] # "unborn" /\ pc'[w] # pc[w] => UsesUp(w)]_vars
  BY <1>1
<1> QED BY <1>2, IInvAlways, PTL DEF Spec, TurnsUsedUp
=============================================================================
