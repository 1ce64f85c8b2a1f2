-------------------------- MODULE MainThreadProofs --------------------------
(* The two things the main thread does itself: the accounts of a sequential  *)
(* run, and the SIGINT handlers that run on top of it. For any count, number *)
(* of retries, period of restarts, with or without a limit, the bookkeeping  *)
(* of the run is explained; for any number of Ctrl+C the handlers count      *)
(* apart.                                                                    *)
EXTENDS SingleRun, StopController, FiniteSetTheorems, TLAPS

USE SizesAssumption, ModeAssumption, PressesAssumption
    DEF SizesAssumption, ModeAssumption, PressesAssumption

(* An account is tried only below the limit, so that the index is still in   *)
(* range for a phantom failure after its success.                            *)
IndexInv == /\ place = "register" => i < Last
            /\ place = "counted" => i <= Last

(* What was tried so far: every retry was one registration, and no index     *)
(* ahead has been tried.                                                     *)
TriesInv ==
    /\ \A n \in Indices : n > i => tries[n] = 0
    /\ i \in Indices /\ place \in {"boot", "loop", "counted", "recycle", "pace"} =>
           tries[i] = retry
    /\ place = "register" => tries[i] = retry + 1

(* A phantom failure needs a success that has none yet.                      *)
PhantomInv == place = "counted" => phantom < success

(* A live browser wherever the next step may be a registration.              *)
BrowserInv == place \in {"loop", "register", "counted", "pace"} => browser

(* Why the loop was left.                                                    *)
EndInv ==
    /\ place = "finish" /\ ~stop /\ ~broken => ~More
    /\ place \in {"cancel", "done"} /\ ~stopping /\ ~broken => ~More

RunInv == /\ TypeOK /\ IndexInv /\ TriesInv /\ PhantomInv /\ BrowserInv /\ EndInv
          /\ SuccessesAreReal /\ FailuresExplained

(* The index of an account is in the ranges of the histories.                *)
LEMMA Ranges ==
    /\ Last \in Nat
    /\ Indices \subseteq Nat
    /\ \A n \in Nat : n \in Indices <=> n <= Last
BY DEF Last, Indices

(* There are finitely many accounts with an outcome.                         *)
LEMMA OutcomesFinite == ASSUME NEW e PROVE IsFiniteSet(OutcomeOf(e))
<1>1. IsFiniteSet(Indices)
  BY Ranges, FS_Interval, 0 \in Int, Last \in Int DEF Indices
<1> QED BY <1>1, FS_Subset DEF OutcomeOf

(* An index that gets its first outcome joins the accounts that ended that   *)
(* way, and no others.                                                       *)
LEMMA OutcomeCounted ==
    ASSUME TypeOK, i \in Indices, outcome[i] = "none",
           NEW e \in {"success", "fail", "phantom"},
           outcome' = [outcome EXCEPT ![i] = e]
    PROVE  /\ OutcomeOf(e)' = OutcomeOf(e) \union {i}
           /\ Cardinality(OutcomeOf(e)') = Cardinality(OutcomeOf(e)) + 1
           /\ \A f \in {"success", "fail"} : f # e => OutcomeOf(f)' = OutcomeOf(f)
<1>1. \A n \in Indices : outcome'[n] = IF n = i THEN e ELSE outcome[n]
  BY DEF TypeOK
<1>2. OutcomeOf(e)' = OutcomeOf(e) \union {i}
  BY <1>1 DEF OutcomeOf, Indices, Last
<1>3. i \notin OutcomeOf(e)
  BY DEF OutcomeOf
<1>4. Cardinality(OutcomeOf(e) \union {i}) = Cardinality(OutcomeOf(e)) + 1
  BY <1>3, OutcomesFinite, FS_AddElement
<1>5. \A f \in {"success", "fail"} : f # e => OutcomeOf(f)' = OutcomeOf(f)
  BY <1>1 DEF OutcomeOf, Indices, Last
<1> QED BY <1>2, <1>4, <1>5

(* Nothing has happened at first.                                            *)
LEMMA RunStarts == Init => RunInv
<1> SUFFICES ASSUME Init PROVE RunInv
  OBVIOUS
<1>1. \A e \in {"success", "fail"} : OutcomeOf(e) = {}
  BY DEF Init, OutcomeOf
<1>2. Cardinality({}) = 0
  BY FS_EmptySet
<1>3. TypeOK
  <2>1. i \in 0..(Last + 1) /\ retry \in 0..MaxSlotRetry
    BY Ranges DEF Init
  <2>2. tries \in [Indices -> Nat]
    BY DEF Init
  <2>3. outcome \in [Indices -> {"none", "success", "fail", "phantom"}]
    BY DEF Init
  <2> QED BY <2>1, <2>2, <2>3 DEF Init, TypeOK
<1>4. SuccessesAreReal
  BY <1>1, <1>2, Ranges DEF Init, SuccessesAreReal
<1>5. FailuresExplained
  BY <1>1, <1>2 DEF Init, FailuresExplained
<1> QED BY <1>3, <1>4, <1>5, Ranges DEF Init, RunInv, IndexInv, TriesInv, PhantomInv, BrowserInv, EndInv

(* A step that leaves the accounts alone leaves what is counted explained.   *)
LEMMA SameAccounts ==
    ASSUME SuccessesAreReal, FailuresExplained,
           UNCHANGED <<i, success, fail, tries, outcome, phantom>>
    PROVE  SuccessesAreReal' /\ FailuresExplained'
<1>1. \A e : OutcomeOf(e)' = OutcomeOf(e)
  BY DEF OutcomeOf, Indices, Last
<1> QED BY <1>1 DEF SuccessesAreReal, FailuresExplained, Indices, Last

(* An account that ends a registration was tried 1 to MaxSlotRetry + 1       *)
(* times, and is counted under its outcome.                                  *)
LEMMA AccountDone ==
    ASSUME RunInv, place = "register", NEW e \in {"success", "fail"},
           NextAccount(e), UNCHANGED <<tries, phantom>>
    PROVE  SuccessesAreReal' /\ FailuresExplained'
<1>1. i \in Indices /\ i \in Nat /\ outcome[i] = "none"
  BY Ranges DEF RunInv, TypeOK, IndexInv, SuccessesAreReal
<1>2. outcome' = [outcome EXCEPT ![i] = e]
  BY DEF NextAccount
<1>3. /\ OutcomeOf(e)' = OutcomeOf(e) \union {i}
      /\ Cardinality(OutcomeOf(e)') = Cardinality(OutcomeOf(e)) + 1
      /\ \A f \in {"success", "fail"} : f # e => OutcomeOf(f)' = OutcomeOf(f)
  BY <1>1, <1>2, OutcomeCounted DEF RunInv
<1>4. tries[i] \in 1..(MaxSlotRetry + 1)
  BY DEF RunInv, TypeOK, TriesInv
<1>5. \A n \in OutcomeOf("success")' \union OutcomeOf("fail")' :
          tries'[n] \in 1..(MaxSlotRetry + 1)
  BY <1>3, <1>4 DEF RunInv, SuccessesAreReal
<1>6. \A n \in Indices : n < i' <=> outcome'[n] # "none"
  BY <1>1, <1>2, Ranges DEF RunInv, TypeOK, SuccessesAreReal, NextAccount
<1>7. success' = Cardinality(OutcomeOf("success")')
  BY <1>3 DEF RunInv, SuccessesAreReal, NextAccount
<1>8. fail' = Cardinality(OutcomeOf("fail")') + phantom'
  <2>1. CASE e = "fail"
    <3> Cardinality(OutcomeOf("fail")) \in Nat
      BY OutcomesFinite, FS_CardinalityType
    <3> QED BY <2>1, <1>3 DEF RunInv, TypeOK, FailuresExplained, NextAccount
  <2>2. CASE e = "success"
    BY <2>2, <1>3 DEF RunInv, FailuresExplained, NextAccount
  <2> QED BY <2>1, <2>2
<1>9. SuccessesAreReal'
  BY <1>5, <1>6, <1>7 DEF SuccessesAreReal, Indices, Last
<1>10. i' = success' + fail' /\ phantom' <= success' /\ (RestartEvery = 0 => phantom' = 0)
  BY DEF RunInv, TypeOK, FailuresExplained, NextAccount
<1> QED BY <1>8, <1>9, <1>10 DEF FailuresExplained

(* So is the second outcome of an account whose periodic restart fails.      *)
LEMMA PhantomDone ==
    ASSUME RunInv, place = "counted", Counted, ~UNCHANGED phantom
    PROVE  SuccessesAreReal' /\ FailuresExplained'
<1>1. i \in Indices /\ i \in Nat /\ outcome[i] = "none"
  BY Ranges DEF RunInv, TypeOK, IndexInv, SuccessesAreReal
<1>2. /\ Periodic /\ fail' = fail + 1 /\ i' = i + 1
      /\ outcome' = [outcome EXCEPT ![i] = "phantom"]
      /\ phantom' = phantom + 1
      /\ UNCHANGED <<success, tries>>
  BY DEF Counted
<1>3. \A f \in {"success", "fail"} : OutcomeOf(f)' = OutcomeOf(f)
  BY <1>1, <1>2, OutcomeCounted DEF RunInv
<1>4. \A n \in Indices : n < i' <=> outcome'[n] # "none"
  BY <1>1, <1>2, Ranges DEF RunInv, TypeOK, SuccessesAreReal
<1>5. SuccessesAreReal'
  BY <1>2, <1>3, <1>4 DEF RunInv, SuccessesAreReal, Indices, Last
<1>6. fail' = Cardinality(OutcomeOf("fail")') + phantom'
  <2> Cardinality(OutcomeOf("fail")) \in Nat
    BY OutcomesFinite, FS_CardinalityType
  <2> QED BY <1>2, <1>3 DEF RunInv, TypeOK, FailuresExplained
<1>7. i' = success' + fail' /\ phantom' <= success' /\ (RestartEvery = 0 => phantom' = 0)
  BY <1>2 DEF RunInv, TypeOK, PhantomInv, FailuresExplained, Periodic
<1> QED BY <1>5, <1>6, <1>7 DEF FailuresExplained

(* An account that ends leaves the types of its counters and its outcome.    *)
LEMMA AccountTyped ==
    ASSUME RunInv, place = "register", NEW e \in {"success", "fail"}, NextAccount(e)
    PROVE  /\ i' \in 0..(Last + 1) /\ retry' = 0
           /\ success' \in Nat /\ fail' \in Nat
           /\ outcome' \in [Indices -> {"none", "success", "fail", "phantom"}]
<1>1. i' \in 0..(Last + 1)
  BY Ranges DEF RunInv, TypeOK, IndexInv, NextAccount
<1>2. success' \in Nat /\ fail' \in Nat /\ retry' = 0
  BY DEF RunInv, TypeOK, NextAccount
<1>3. outcome' \in [Indices -> {"none", "success", "fail", "phantom"}]
  BY DEF RunInv, TypeOK, NextAccount
<1> QED BY <1>1, <1>2, <1>3

(* The type is kept: the index never leaves its range.                       *)
LEMMA RunTyped == RunInv /\ [Next]_vars => TypeOK'
<1> SUFFICES ASSUME RunInv, [Next]_vars PROVE TypeOK'
  OBVIOUS
<1>0. Indices' = Indices /\ Last' = Last
  BY DEF Indices, Last
<1>a. ASSUME place = "register", NEW e \in {"success", "fail"}, NextAccount(e)
      PROVE  /\ i' \in 0..(Last + 1) /\ retry' \in 0..MaxSlotRetry
             /\ success' \in Nat /\ fail' \in Nat
             /\ outcome' \in [Indices -> {"none", "success", "fail", "phantom"}]
  BY <1>a, AccountTyped
<1> USE Ranges DEF RunInv, TypeOK
<1>1. CASE Boot
  BY <1>0, <1>1 DEF Boot
<1>2. CASE Loop
  BY <1>0, <1>2 DEF Loop
<1>3. CASE Cancelled
  BY <1>0, <1>3 DEF Cancelled
<1>4. CASE Registered
  BY <1>0, <1>4, <1>a DEF Registered
<1>5. CASE Stuck
  <2>1. CASE retry < MaxSlotRetry
    BY <1>0, <1>5, <2>1 DEF Stuck
  <2>2. CASE ~(retry < MaxSlotRetry)
    BY <1>0, <1>5, <2>2, <1>a DEF Stuck
  <2> QED BY <2>1, <2>2
<1>6. CASE Failed
  BY <1>0, <1>6, <1>a DEF Failed
<1>7. CASE Counted
  <2>1. i' \in 0..(Last + 1) /\ retry' \in 0..MaxSlotRetry
    BY <1>7 DEF Counted, IndexInv
  <2>2. outcome' \in [Indices -> {"none", "success", "fail", "phantom"}]
    BY <1>7 DEF Counted
  <2>3. browser' \in BOOLEAN
    BY <1>7 DEF Counted, Periodic, Cleanup, More
  <2> QED BY <1>0, <1>7, <2>1, <2>2, <2>3 DEF Counted
<1>8. CASE Recycle
  BY <1>0, <1>8 DEF Recycle
<1>9. CASE Pace
  BY <1>0, <1>9 DEF Pace
<1>10. CASE Finish
  BY <1>0, <1>10 DEF Finish
<1>11. CASE Cancel
  BY <1>0, <1>11 DEF Cancel
<1>12. CASE Sigint
  BY <1>0, <1>12 DEF Sigint
<1>13. CASE UNCHANGED vars
  BY <1>0, <1>13 DEF vars
<1> QED BY <1>1, <1>2, <1>3, <1>4, <1>5, <1>6, <1>7, <1>8, <1>9, <1>10,
           <1>11, <1>12, <1>13 DEF Next, Step

(* So are the places and what was tried at each.                             *)
LEMMA RunPlaced ==
    RunInv /\ [Next]_vars => IndexInv' /\ TriesInv' /\ PhantomInv' /\ BrowserInv' /\ EndInv'
<1> SUFFICES ASSUME RunInv, [Next]_vars
             PROVE  IndexInv' /\ TriesInv' /\ PhantomInv' /\ BrowserInv' /\ EndInv'
  OBVIOUS
<1> USE Ranges DEF RunInv, TypeOK, IndexInv, TriesInv, PhantomInv, BrowserInv, EndInv,
                   More, Indices, Last
<1>1. CASE Boot
  BY <1>1 DEF Boot
<1>2. CASE Loop
  BY <1>2 DEF Loop
<1>3. CASE Cancelled
  BY <1>3 DEF Cancelled
<1>4. CASE Registered
  <2>1. phantom <= success
    BY DEF FailuresExplained
  <2> QED BY <1>4, <2>1 DEF Registered, NextAccount
<1>5. CASE Stuck
  BY <1>5 DEF Stuck, NextAccount
<1>6. CASE Failed
  BY <1>6 DEF Failed, NextAccount
<1>7. CASE Counted
  BY <1>7 DEF Counted
<1>8. CASE Recycle
  BY <1>8 DEF Recycle
<1>9. CASE Pace
  BY <1>9 DEF Pace
<1>10. CASE Finish
  BY <1>10 DEF Finish
<1>11. CASE Cancel
  BY <1>11 DEF Cancel
<1>12. CASE Sigint
  BY <1>12 DEF Sigint
<1>13. CASE UNCHANGED vars
  BY <1>13 DEF vars
<1> QED BY <1>1, <1>2, <1>3, <1>4, <1>5, <1>6, <1>7, <1>8, <1>9, <1>10,
           <1>11, <1>12, <1>13 DEF Next, Step

(* And every account is counted for what it was.                             *)
LEMMA RunExplained == RunInv /\ [Next]_vars => SuccessesAreReal' /\ FailuresExplained'
<1> SUFFICES ASSUME RunInv, [Next]_vars PROVE SuccessesAreReal' /\ FailuresExplained'
  OBVIOUS
<1>1. CASE UNCHANGED <<i, success, fail, tries, outcome, phantom>>
  BY <1>1, SameAccounts DEF RunInv
<1>2. CASE Loop
  <2>1. CASE UNCHANGED tries
    BY <1>1, <1>2, <2>1 DEF Loop
  <2>2. CASE ~UNCHANGED tries
    <3>1. i \in Indices /\ outcome[i] = "none" /\ tries' = [tries EXCEPT ![i] = @ + 1]
      BY <1>2, <2>2, Ranges DEF Loop, RunInv, TypeOK, SuccessesAreReal
    <3>2. \A e : OutcomeOf(e)' = OutcomeOf(e)
      BY <1>2 DEF Loop, OutcomeOf, Indices, Last
    <3>3. \A n \in OutcomeOf("success")' \union OutcomeOf("fail")' : tries'[n] = tries[n]
      BY <3>1, <3>2 DEF OutcomeOf, RunInv, TypeOK
    <3> QED BY <1>2, <3>2, <3>3
            DEF Loop, RunInv, SuccessesAreReal, FailuresExplained, Indices, Last
  <2> QED BY <2>1, <2>2
<1>3. CASE Registered
  BY <1>3, AccountDone DEF Registered
<1>4. CASE Stuck
  <2>1. CASE retry < MaxSlotRetry
    BY <1>1, <1>4, <2>1 DEF Stuck
  <2>2. CASE ~(retry < MaxSlotRetry)
    BY <1>4, <2>2, AccountDone DEF Stuck
  <2> QED BY <2>1, <2>2
<1>5. CASE Failed
  BY <1>5, AccountDone DEF Failed
<1>6. CASE Counted
  <2>1. CASE UNCHANGED <<i, retry, success, fail, outcome, phantom>>
    BY <1>1, <1>6, <2>1 DEF Counted
  <2>2. CASE phantom' = phantom + 1
    <3>1. ~UNCHANGED phantom
      BY <2>2 DEF RunInv, TypeOK
    <3> QED BY <1>6, <3>1, PhantomDone DEF Counted
  <2> QED BY <1>6, <2>1, <2>2 DEF Counted
<1>7. CASE Boot \/ Cancelled \/ Recycle \/ Pace \/ Finish \/ Cancel \/ Sigint
  BY <1>1, <1>7 DEF Boot, Cancelled, Recycle, Pace, Finish, Cancel, Sigint
<1>8. CASE UNCHANGED vars
  BY <1>1, <1>8 DEF vars
<1> QED BY <1>2, <1>3, <1>4, <1>5, <1>6, <1>7, <1>8 DEF Next, Step

(* The inductive invariant of the sequential run.                            *)
LEMMA RunHolds == Spec => []RunInv
<1>1. RunInv /\ [Next]_vars => RunInv'
  BY RunTyped, RunPlaced, RunExplained DEF RunInv
<1> QED BY RunStarts, <1>1, PTL DEF Spec

(* Whatever raises where, in a limited run or in loop mode: the successes    *)
(* counted are the accounts registered, each after 1 to MaxSlotRetry + 1     *)
(* attempts, the failures beyond those are the periodic restarts that fail,  *)
(* and no account is attempted without a browser.                            *)
THEOREM EveryOutcomeExplained == Spec => []OutcomesExplained
<1>1. RunInv => OutcomesExplained
  BY DEF RunInv, OutcomesExplained, BrowserInv, BrowserReady
<1> QED BY RunHolds, <1>1, PTL

(* A run that nobody stopped and whose browser came back is over only when   *)
(* it had a limit and the index has reached it.                              *)
THEOREM EndsTried == Spec => []TriedToTheEnd
<1>1. RunInv => TriedToTheEnd
  BY Ranges DEF RunInv, TypeOK, EndInv, TriedToTheEnd, More, Last
<1> QED BY RunHolds, <1>1, PTL

(* How far the main thread is from the end of its attempt at an account.     *)
StepsAhead ==
    CASE place = "counted"          -> 8
      [] place = "recycle"          -> 7
      [] place \in {"boot", "pace"} -> 6
      [] place = "loop"             -> 5
      [] place = "register"         -> 4
      [] place = "finish"           -> 3
      [] place = "cancel"           -> 2
      [] OTHER                      -> 1

MovesOn == \/ i' > i
           \/ i' = i /\ retry' > retry
           \/ i' = i /\ retry' = retry /\ StepsAhead' < StepsAhead

(* Whatever fails, a step of the sequential run moves the index on, or uses  *)
(* one of the account's retries, or brings the attempt nearer to its end;    *)
(* and neither index nor retries leave their ranges. So a limited run cannot *)
(* go round for ever, and one account cannot hold up a run in loop mode.     *)
THEOREM EveryStepMovesOn == Spec => [][Step => MovesOn]_vars
<1>1. RunInv /\ [Next]_vars => [Step => MovesOn]_vars
  <2> SUFFICES ASSUME RunInv, Step PROVE MovesOn
    OBVIOUS
  <2>0. i \in Nat /\ retry \in Nat
    BY Ranges DEF RunInv, TypeOK
  <2> USE DEF MovesOn, StepsAhead
  <2>1. CASE Registered \/ Failed
    BY <2>0, <2>1 DEF Registered, Failed, NextAccount
  <2>2. CASE Stuck
    BY <2>0, <2>2 DEF Stuck, NextAccount
  <2>3. CASE Counted
    BY <2>0, <2>3 DEF Counted
  <2>4. CASE Recycle
    BY <2>0, <2>4 DEF Recycle
  <2>5. CASE Boot \/ Loop \/ Cancelled \/ Pace \/ Finish \/ Cancel
    BY <2>0, <2>5 DEF Boot, Loop, Cancelled, Pace, Finish, Cancel
  <2> QED BY <2>1, <2>2, <2>3, <2>4, <2>5 DEF Step
<1> QED BY RunHolds, <1>1, PTL DEF Spec
-----------------------------------------------------------------------------
Frame == [at : Steps, n : 0..MaxPresses]

(* The lock is not re-entrant, so the handlers above the one that is inside  *)
(* it, and all of them while the main code is, wait to enter.                *)
LockInv ==
    /\ \A k \in 1..Depth : stack[k].at \in {"load", "store", "leave"} <=> owner = k
    /\ base \in {"set", "leave"} <=> owner = 0
    /\ \A k \in 1..Depth : owner < k => stack[k].at = "enter"
    /\ owner = Free \/ owner <= Depth

(* What the increment of the count loaded is still the count when it stores, *)
(* and the handlers that did it have numbers of their own, up to the count.  *)
CountInv ==
    /\ \A k \in 1..Depth : stack[k].at = "store" => stack[k].n = count
    /\ \A k \in Numbered : stack[k].n \in 1..count
    /\ \A j, k \in Numbered : stack[j].n = stack[k].n => j = k
    /\ count = stored

(* Every handler has a Ctrl+C of its own: those that have counted, those     *)
(* still to count and the one to come.                                       *)
Uncounted == {k \in 1..Depth : stack[k].at \in {"enter", "load", "store"}}
ToCome == IF pending THEN 1 ELSE 0
PressInv ==
    /\ Depth + ToCome <= presses
    /\ stored + Cardinality(Uncounted) + ToCome <= presses
    /\ exited => count >= 2

StopInv == StopTypeOK /\ LockInv /\ CountInv /\ PressInv

(* What the changes of the stack do: a step of the newest handler, ...       *)
LEMMA FrameSet ==
    ASSUME stack \in Seq(Frame), Depth > 0, NEW f \in Frame,
           stack' = [stack EXCEPT ![Depth] = f]
    PROVE  /\ stack' \in Seq(Frame) /\ Depth' = Depth
           /\ \A k \in 1..Depth : stack'[k] = IF k = Depth THEN f ELSE stack[k]
BY DEF Depth

(* ... one that keeps its number, ...                                        *)
LEMMA FrameMoved ==
    ASSUME stack \in Seq(Frame), Depth > 0, NEW p \in Steps, GoTo(p)
    PROVE  /\ stack' \in Seq(Frame) /\ Depth' = Depth
           /\ \A k \in 1..Depth :
                 stack'[k] = IF k = Depth THEN [at |-> p, n |-> Top.n] ELSE stack[k]
<1>1. Top \in Frame
  BY DEF Top, Depth
<1>2. [Top EXCEPT !.at = p] = [at |-> p, n |-> Top.n]
  BY <1>1 DEF Frame
<1>3. stack' = [stack EXCEPT ![Depth] = [at |-> p, n |-> Top.n]]
  BY <1>2 DEF GoTo, Top
<1>4. [at |-> p, n |-> Top.n] \in Frame
  BY <1>1 DEF Frame
<1> QED BY <1>3, <1>4, FrameSet

(* ... a new handler ...                                                     *)
LEMMA FramePushed ==
    ASSUME stack \in Seq(Frame), NEW f \in Frame, stack' = Append(stack, f)
    PROVE  /\ stack' \in Seq(Frame) /\ Depth' = Depth + 1
           /\ \A k \in 1..Depth' : stack'[k] = IF k = Depth' THEN f ELSE stack[k]
BY DEF Depth

(* ... and the return of one.                                                *)
LEMMA FramePopped ==
    ASSUME stack \in Seq(Frame), Depth > 0, stack' = SubSeq(stack, 1, Depth - 1)
    PROVE  /\ stack' \in Seq(Frame) /\ Depth' = Depth - 1
           /\ \A k \in 1..Depth' : stack'[k] = stack[k]
<1>1. Depth \in Nat /\ Depth = Len(stack)
  BY DEF Depth
<1>2. /\ stack' \in Seq(Frame)
      /\ Len(stack') = Depth - 1
      /\ \A k \in 1..(Depth - 1) : stack'[k] = stack[k]
  BY <1>1
<1> QED BY <1>2 DEF Depth

(* What is known of the newest handler; one that has left the lock left it   *)
(* free.                                                                     *)
LEMMA TopKnown ==
    ASSUME StopInv, Depth > 0
    PROVE  /\ Depth \in 1..MaxPresses /\ Depth < Free
           /\ Top \in Frame /\ Top = stack[Depth] /\ Top.n \in 0..MaxPresses
           /\ Top.at \in {"load", "store", "leave"} <=> owner = Depth
           /\ Top.at \in {"log", "logging", "logged"} => owner = Free
<1>1. stack \in Seq(Frame) /\ Depth = Len(stack) /\ Depth \in Nat
  BY DEF StopInv, StopTypeOK, Frame, Depth
<1>2. Depth <= presses /\ presses <= MaxPresses
  BY <1>1 DEF StopInv, PressInv, StopTypeOK, ToCome
<1>3. Top \in Frame /\ Top = stack[Depth]
  BY <1>1 DEF Top
<1>4. Top.at \in {"load", "store", "leave"} <=> owner = Depth
  BY <1>1, <1>3 DEF StopInv, LockInv
<1>5. owner < Depth => Top.at = "enter"
  BY <1>1, <1>3 DEF StopInv, LockInv
<1>6. Top.at \in {"log", "logging", "logged"} => owner = Free
  BY <1>1, <1>4, <1>5 DEF StopInv, LockInv, StopTypeOK, Free
<1>7. Top.n \in 0..MaxPresses
  BY <1>3 DEF Frame
<1>8. Depth \in 1..MaxPresses /\ Depth < Free
  <2> presses \in Nat
    BY DEF StopInv, StopTypeOK
  <2> QED BY <1>1, <1>2 DEF Free
<1> QED BY <1>3, <1>4, <1>6, <1>7, <1>8

(* The handlers of the invariant.                                            *)
LEMMA StackKnown ==
    ASSUME StopInv
    PROVE  /\ stack \in Seq(Frame) /\ Depth \in Nat
           /\ Depth + ToCome <= MaxPresses /\ Depth < Free
           /\ \A k \in 1..Depth : stack[k] \in Frame
<1>1. stack \in Seq(Frame) /\ Depth = Len(stack) /\ Depth \in Nat
  BY DEF StopInv, StopTypeOK, Frame, Depth
<1>2. ToCome \in 0..1
  BY DEF ToCome
<1>3. Depth + ToCome <= MaxPresses
  BY <1>1, <1>2 DEF StopInv, PressInv, StopTypeOK
<1> QED BY <1>1, <1>2, <1>3 DEF Free

(* Some handlers have still to count.                                        *)
LEMMA UncountedFinite ==
    ASSUME StopInv
    PROVE  IsFiniteSet(Uncounted) /\ Cardinality(Uncounted) \in Nat
<1>1. IsFiniteSet(1..Depth)
  BY StackKnown, FS_Interval, 1 \in Int
<1>2. IsFiniteSet(Uncounted)
  BY <1>1, FS_Subset DEF Uncounted
<1> QED BY <1>2, FS_CardinalityType

(* The one about to count is one of them, so that the count stays in range.  *)
LEMMA RoomToCount ==
    ASSUME StopInv, Depth > 0, Top.at = "store"
    PROVE  /\ Depth \in Uncounted /\ Top.n = count /\ count = stored
           /\ stored + 1 <= presses
<1>1. Depth \in 1..Depth /\ Top = stack[Depth]
  BY TopKnown
<1>2. Depth \in Uncounted
  BY <1>1 DEF Uncounted
<1>3. Cardinality(Uncounted) # 0
  BY <1>2, UncountedFinite, FS_EmptySet
<1>4. stored + Cardinality(Uncounted) + ToCome <= presses /\ ToCome \in 0..1
  BY DEF StopInv, PressInv, ToCome
<1>5. stored + 1 <= presses
  BY <1>3, <1>4, UncountedFinite DEF StopInv, StopTypeOK
<1> QED BY <1>1, <1>2, <1>5 DEF StopInv, CountInv

(* The newest handler goes on, the others stay where they are.               *)
TopBecomes(p, m) ==
    /\ stack' \in Seq(Frame) /\ Depth' = Depth
    /\ \A k \in 1..Depth : stack'[k] = IF k = Depth THEN [at |-> p, n |-> m] ELSE stack[k]

(* What the steps of the newest handler do to the stack, but for the two     *)
(* that end handlers.                                                        *)
LEMMA HandlerSteps ==
    ASSUME StopInv
    PROVE  /\ Enter => TopBecomes("load", Top.n)
           /\ Load => TopBecomes("store", count)
           /\ Store => TopBecomes("leave", Top.n + 1)
           /\ Leave => TopBecomes("log", Top.n)
           /\ Log => TopBecomes("logging", Top.n) \/ (stack' = <<>> /\ InPrint)
           /\ Logged => TopBecomes("logged", Top.n)
<1>1. Enter => TopBecomes("load", Top.n)
  BY StackKnown, FrameMoved, "load" \in Steps DEF Enter, TopBecomes, Steps
<1>2. Leave => TopBecomes("log", Top.n)
  BY StackKnown, FrameMoved, "log" \in Steps DEF Leave, TopBecomes, Steps
<1>3. Logged => TopBecomes("logged", Top.n)
  BY StackKnown, FrameMoved, "logged" \in Steps DEF Logged, TopBecomes, Steps
<1>4. Log => TopBecomes("logging", Top.n) \/ (stack' = <<>> /\ InPrint)
  BY StackKnown, FrameMoved, "logging" \in Steps DEF Log, TopBecomes, Steps
<1>5. ASSUME Load PROVE TopBecomes("store", count)
  <2>1. [at |-> "store", n |-> count] \in Frame
    BY DEF StopInv, StopTypeOK, Frame, Steps
  <2> QED BY <1>5, <2>1, StackKnown, FrameSet DEF Load, TopBecomes
<1>6. ASSUME Store PROVE TopBecomes("leave", Top.n + 1)
  <2>1. Depth > 0 /\ Top.n + 1 \in 0..MaxPresses
    BY <1>6, RoomToCount DEF Store, StopInv, StopTypeOK
  <2>2. [at |-> "leave", n |-> Top.n + 1] \in Frame
    BY <2>1 DEF Frame, Steps
  <2>3. stack' = [stack EXCEPT ![Depth] = [at |-> "leave", n |-> Top.n + 1]]
    BY <1>6 DEF Store, Top
  <2> QED BY <2>1, <2>2, <2>3, StackKnown, FrameSet DEF TopBecomes
<1> QED BY <1>1, <1>2, <1>3, <1>4, <1>5, <1>6

(* The steps that leave the handlers alone.                                  *)
LEMMA SameStack ==
    ASSUME UNCHANGED stack
    PROVE  Depth' = Depth /\ Numbered' = Numbered /\ Uncounted' = Uncounted
BY DEF Depth, Numbered, Uncounted

(* Nobody is inside the lock with the main code, and the other way round.    *)
LEMMA LockKept == StopInv /\ [StopNext]_stopVars => LockInv'
<1> SUFFICES ASSUME StopInv, [StopNext]_stopVars PROVE LockInv'
  OBVIOUS
<1>1. /\ owner \in 0..Free /\ Free' = Free /\ Depth \in Nat /\ Depth < Free /\ LockInv
  BY StackKnown DEF StopInv, StopTypeOK, Free
<1>2. CASE UNCHANGED <<stack, base, owner>>
  BY <1>1, <1>2, SameStack DEF LockInv
<1>3. CASE Deliver
  <2>1. [at |-> "enter", n |-> 0] \in Frame
    BY DEF Frame, Steps
  <2>2. /\ Depth' = Depth + 1
        /\ \A k \in 1..Depth' :
              stack'[k] = IF k = Depth' THEN [at |-> "enter", n |-> 0] ELSE stack[k]
    BY <1>3, <2>1, StackKnown, FramePushed DEF Deliver
  <2>3. Depth + 1 < Free /\ UNCHANGED <<owner, base>>
    BY <1>3, StackKnown DEF Deliver, ToCome, Free
  <2> QED BY <1>1, <2>2, <2>3 DEF LockInv
<1>4. CASE Enter
  <2>1. /\ TopBecomes("load", Top.n) /\ owner = Free /\ owner' = Depth /\ Depth > 0
        /\ UNCHANGED base
    BY <1>4, HandlerSteps DEF Enter
  <2> QED BY <1>1, <2>1 DEF LockInv, TopBecomes, Free
<1>5. CASE Load \/ Store
  <2>1. \E p \in {"store", "leave"} : \E m : TopBecomes(p, m)
    BY <1>5, HandlerSteps
  <2>2. Depth > 0 /\ owner = Depth /\ UNCHANGED <<owner, base>>
    BY <1>5, TopKnown DEF Load, Store
  <2> QED BY <1>1, <2>1, <2>2 DEF LockInv, TopBecomes
<1>6. CASE Leave
  <2>1. TopBecomes("log", Top.n) /\ owner = Depth /\ owner' = Free /\ Depth > 0 /\ UNCHANGED base
    BY <1>6, HandlerSteps, TopKnown DEF Leave
  <2> QED BY <1>1, <2>1 DEF LockInv, TopBecomes, Free
<1>7. CASE Log \/ Logged
  <2>1. Depth > 0 /\ owner = Free /\ UNCHANGED owner
    BY <1>7, TopKnown DEF Log, Logged
  <2>2. CASE \E p \in {"logging", "logged"} : TopBecomes(p, Top.n) /\ UNCHANGED base
    BY <1>1, <2>1, <2>2 DEF LockInv, TopBecomes
  <2>3. CASE stack' = <<>> /\ base' \in {"enter", "over"}
    <3>1. Depth' = 0
      BY <2>3 DEF Depth
    <3> QED BY <1>1, <2>1, <2>3, <3>1 DEF LockInv, Free
  <2> QED BY <1>7, <2>2, <2>3, HandlerSteps DEF Log, Logged
<1>8. CASE Decide
  <2>1. Depth > 0 /\ owner = Free /\ UNCHANGED <<owner, base>>
    BY <1>8, TopKnown DEF Decide
  <2>2. CASE stack' = SubSeq(stack, 1, Depth - 1)
    <3>1. Depth' = Depth - 1 /\ \A k \in 1..Depth' : stack'[k] = stack[k]
      BY <2>1, <2>2, StackKnown, FramePopped
    <3> QED BY <1>1, <2>1, <3>1 DEF LockInv
  <2> QED BY <1>2, <1>8, <2>1, <2>2 DEF Decide
<1>9. CASE StopEnter \/ StopSet \/ StopLeave
  <2>1. Depth = 0 /\ UNCHANGED stack
    BY <1>9 DEF StopEnter, StopSet, StopLeave, Base
  <2> QED BY <1>1, <1>9, <2>1, SameStack DEF LockInv, StopEnter, StopSet, StopLeave, Base, Free
<1>10. CASE Work \/ WorkEnds \/ Closing
  <2>1. Depth = 0 /\ UNCHANGED <<stack, owner>>
    BY <1>10 DEF Work, WorkEnds, Closing, Base
  <2> QED BY <1>1, <1>10, <2>1, SameStack DEF LockInv, Work, WorkEnds, Closing, Base
<1>11. CASE Press \/ UNCHANGED stopVars
  BY <1>2, <1>11 DEF Press, stopVars
<1> QED BY <1>3, <1>4, <1>5, <1>6, <1>7, <1>8, <1>9, <1>10, <1>11
        DEF StopNext, Handler, Main

(* The counting handlers do not overtake each other.                         *)
LEMMA CountKept == StopInv /\ [StopNext]_stopVars => CountInv'
<1> SUFFICES ASSUME StopInv, [StopNext]_stopVars PROVE CountInv'
  OBVIOUS
<1>1. /\ count \in Nat /\ Depth \in Nat /\ CountInv
      /\ \A k \in Numbered : k \in 1..Depth /\ stack[k].n \in Nat
  BY StackKnown DEF StopInv, StopTypeOK, Numbered, CountInv
<1>2. CASE UNCHANGED <<stack, count, stored>>
  BY <1>1, <1>2, SameStack DEF CountInv
<1>3. CASE Deliver
  <2>1. [at |-> "enter", n |-> 0] \in Frame
    BY DEF Frame, Steps
  <2>2. /\ Depth' = Depth + 1
        /\ \A k \in 1..Depth' :
              stack'[k] = IF k = Depth' THEN [at |-> "enter", n |-> 0] ELSE stack[k]
    BY <1>3, <2>1, StackKnown, FramePushed DEF Deliver
  <2>3. Numbered' = Numbered
    BY <1>1, <2>2 DEF Numbered
  <2>4. \A k \in Numbered : stack'[k] = stack[k]
    BY <1>1, <2>2
  <2>5. \A k \in 1..Depth' : stack'[k].at = "store" => k \in 1..Depth /\ stack'[k] = stack[k]
    BY <1>1, <2>2
  <2>6. UNCHANGED <<count, stored>>
    BY <1>3 DEF Deliver
  <2>7. \A k \in 1..Depth' : stack'[k].at = "store" => stack'[k].n = count'
    BY <1>1, <2>5, <2>6 DEF CountInv
  <2>8. \A j \in Numbered' : stack'[j].n \in 1..count'
    BY <1>1, <2>3, <2>4, <2>6 DEF CountInv
  <2>9. \A j, k \in Numbered' : stack'[j].n = stack'[k].n => j = k
    BY <1>1, <2>3, <2>4 DEF CountInv
  <2> QED BY <1>1, <2>6, <2>7, <2>8, <2>9 DEF CountInv
<1>4. CASE Enter
  <2>1. TopBecomes("load", Top.n) /\ Top.at = "enter" /\ UNCHANGED <<count, stored>>
    BY <1>4, HandlerSteps DEF Enter
  <2>2. Numbered' = Numbered
    BY <1>1, <2>1 DEF Numbered, TopBecomes, Top
  <2>3. /\ \A k \in Numbered : stack'[k] = stack[k]
        /\ \A k \in 1..Depth' : stack'[k].at = "store" => k \in 1..Depth /\ stack'[k] = stack[k]
    BY <1>1, <2>1 DEF TopBecomes, Numbered, Top
  <2>4. \A k \in 1..Depth' : stack'[k].at = "store" => stack'[k].n = count'
    BY <1>1, <2>1, <2>3 DEF CountInv
  <2>5. \A k \in Numbered' : stack'[k].n \in 1..count'
    BY <1>1, <2>1, <2>2, <2>3 DEF CountInv
  <2>6. \A j, k \in Numbered' : stack'[j].n = stack'[k].n => j = k
    BY <1>1, <2>2, <2>3 DEF CountInv
  <2> QED BY <1>1, <2>1, <2>4, <2>5, <2>6 DEF CountInv
<1>5. CASE Load
  <2>1. TopBecomes("store", count) /\ Top.at = "load" /\ UNCHANGED <<count, stored>>
    BY <1>5, HandlerSteps DEF Load
  <2>2. Numbered' = Numbered
    BY <1>1, <2>1 DEF Numbered, TopBecomes, Top
  <2>3. /\ \A k \in Numbered : stack'[k] = stack[k]
        /\ \A k \in 1..Depth' : stack'[k].at = "store" =>
              stack'[k].n = count \/ (k \in 1..Depth /\ stack'[k] = stack[k])
    BY <1>1, <2>1 DEF TopBecomes, Numbered, Top
  <2>4. \A k \in 1..Depth' : stack'[k].at = "store" => stack'[k].n = count'
    BY <1>1, <2>1, <2>3 DEF CountInv
  <2>5. \A k \in Numbered' : stack'[k].n \in 1..count'
    BY <1>1, <2>1, <2>2, <2>3 DEF CountInv
  <2>6. \A j, k \in Numbered' : stack'[j].n = stack'[k].n => j = k
    BY <1>1, <2>2, <2>3 DEF CountInv
  <2> QED BY <1>1, <2>1, <2>4, <2>5, <2>6 DEF CountInv
<1>6. CASE Store
  <2>1. /\ Depth > 0 /\ Top.at = "store" /\ Top.n = count
        /\ count' = Top.n + 1 /\ stored' = stored + 1
    BY <1>6, RoomToCount DEF Store
  <2>2. TopBecomes("leave", count + 1)
    BY <1>6, <2>1, HandlerSteps
  <2>3. Numbered' = Numbered \union {Depth} /\ Depth \notin Numbered
    BY <1>1, <2>1, <2>2 DEF Numbered, TopBecomes, Top
  <2>4. \A k \in 1..Depth : stack'[k].at # "store"
    <3>1. owner = Depth
      BY <2>1, TopKnown
    <3>2. \A k \in 1..Depth : k # Depth => stack[k].at # "store"
      BY <3>1 DEF StopInv, LockInv
    <3> QED BY <2>2, <3>2 DEF TopBecomes
  <2>5. \A k \in Numbered' : stack'[k].n = IF k = Depth THEN count + 1 ELSE stack[k].n
    BY <1>1, <2>1, <2>2, <2>3 DEF TopBecomes
  <2>6. \A k \in Numbered' : stack'[k].n \in 1..count'
    BY <1>1, <2>1, <2>3, <2>5 DEF CountInv
  <2>7. \A j, k \in Numbered' : stack'[j].n = stack'[k].n => j = k
    BY <1>1, <2>3, <2>5 DEF CountInv
  <2>8. Depth' = Depth
    BY <2>2 DEF TopBecomes
  <2> QED BY <1>1, <2>1, <2>4, <2>6, <2>7, <2>8 DEF CountInv
<1>7. CASE Leave \/ Log \/ Logged
  <2>1. UNCHANGED <<count, stored>> /\ Depth > 0 /\ Top.at \in {"leave", "log", "logging"}
    BY <1>7 DEF Leave, Log, Logged
  <2>2. CASE \E p \in {"log", "logging", "logged"} : TopBecomes(p, Top.n)
    <3>1. Numbered' = Numbered
      BY <1>1, <2>1, <2>2 DEF Numbered, TopBecomes, Top
    <3>2. \A k \in Numbered : stack'[k].n = stack[k].n
      BY <1>1, <2>2 DEF TopBecomes, Top
    <3> QED BY <1>1, <2>1, <2>2, <3>1, <3>2 DEF CountInv, TopBecomes
  <2>3. CASE stack' = <<>>
    <3>1. Depth' = 0 /\ Numbered' = {}
      BY <2>3 DEF Depth, Numbered
    <3> QED BY <1>1, <2>1, <3>1 DEF CountInv
  <2> QED BY <1>7, <2>2, <2>3, HandlerSteps
<1>8. CASE Decide
  <2>1. Depth > 0 /\ UNCHANGED <<count, stored>>
    BY <1>8 DEF Decide
  <2>2. CASE stack' = SubSeq(stack, 1, Depth - 1)
    <3>1. Depth' = Depth - 1 /\ \A k \in 1..Depth' : stack'[k] = stack[k]
      BY <2>1, <2>2, StackKnown, FramePopped
    <3>2. Numbered' \subseteq Numbered
      BY <1>1, <3>1 DEF Numbered
    <3>3. \A k \in Numbered' : stack'[k].n = stack[k].n
      BY <3>1 DEF Numbered
    <3> QED BY <1>1, <2>1, <3>1, <3>2, <3>3 DEF CountInv
  <2> QED BY <1>2, <1>8, <2>1, <2>2 DEF Decide
<1>9. CASE Press \/ Work \/ Main \/ UNCHANGED stopVars
  BY <1>2, <1>9 DEF Press, Work, Main, WorkEnds, StopEnter, StopSet, StopLeave, Closing,
                    Base, stopVars
<1> QED BY <1>3, <1>4, <1>5, <1>6, <1>7, <1>8, <1>9 DEF StopNext, Handler

(* Every handler that counts answers a Ctrl+C of its own.                    *)
LEMMA PressKept == StopInv /\ [StopNext]_stopVars => PressInv'
<1> SUFFICES ASSUME StopInv, [StopNext]_stopVars PROVE PressInv'
  OBVIOUS
<1> DEFINE N == Cardinality(Uncounted)
<1>1. /\ presses \in Nat /\ stored \in Nat /\ count \in Nat /\ Depth \in Nat /\ N \in Nat
      /\ ToCome \in 0..1 /\ PressInv /\ pending \in BOOLEAN
  BY StackKnown, UncountedFinite DEF StopInv, StopTypeOK, ToCome
<1>2. CASE UNCHANGED <<stack, presses, stored, count, pending, exited>>
  BY <1>1, <1>2, SameStack DEF PressInv, ToCome
<1>3. CASE Press
  <2>1. presses' = presses + 1 /\ ToCome' = 1 /\ UNCHANGED <<stack, stored, count, exited>>
    BY <1>3 DEF Press, ToCome
  <2> QED BY <1>1, <2>1, SameStack DEF PressInv
<1>4. CASE Deliver
  <2>1. [at |-> "enter", n |-> 0] \in Frame
    BY DEF Frame, Steps
  <2>2. /\ Depth' = Depth + 1
        /\ \A k \in 1..Depth' :
              stack'[k] = IF k = Depth' THEN [at |-> "enter", n |-> 0] ELSE stack[k]
    BY <1>4, <2>1, StackKnown, FramePushed DEF Deliver
  <2>3. Uncounted' = Uncounted \union {Depth + 1} /\ Depth + 1 \notin Uncounted
    BY <1>1, <2>2 DEF Uncounted
  <2>4. Cardinality(Uncounted') = N + 1
    BY <2>3, UncountedFinite, FS_AddElement
  <2>5. ToCome = 1 /\ ToCome' = 0 /\ UNCHANGED <<presses, stored, count, exited>>
    BY <1>4 DEF Deliver, ToCome
  <2> QED BY <1>1, <2>2, <2>4, <2>5 DEF PressInv
<1>5. CASE Store
  <2>1. /\ Depth > 0 /\ Top.at = "store" /\ TopBecomes("leave", Top.n + 1)
        /\ stored' = stored + 1 /\ count' = count + 1 /\ Depth \in Uncounted
        /\ UNCHANGED <<presses, pending, exited>>
    BY <1>5, HandlerSteps, RoomToCount DEF Store
  <2>2. Uncounted' = Uncounted \ {Depth}
    BY <1>1, <2>1 DEF Uncounted, TopBecomes
  <2>3. Cardinality(Uncounted') = N - 1
    BY <2>1, <2>2, UncountedFinite, FS_RemoveElement
  <2>4. ToCome' = ToCome /\ Depth' = Depth
    BY <2>1 DEF ToCome, TopBecomes
  <2> QED BY <1>1, <2>1, <2>3, <2>4 DEF PressInv
<1>6. CASE Enter \/ Load \/ Leave \/ Log \/ Logged
  <2>1. UNCHANGED <<presses, stored, count, exited, ToCome>> /\ Depth > 0
    BY <1>6 DEF Enter, Load, Leave, Log, Logged, ToCome
  <2>2. CASE /\ \E p \in {"load", "store"} : \E m : TopBecomes(p, m)
             /\ Top.at \in {"enter", "load"}
    <3>1. Uncounted' = Uncounted /\ Depth' = Depth
      BY <1>1, <2>1, <2>2 DEF Uncounted, TopBecomes, Top
    <3> QED BY <1>1, <2>1, <3>1 DEF PressInv
  <2>3. CASE /\ \E p \in {"log", "logging", "logged"} : \E m : TopBecomes(p, m)
             /\ Top.at \in {"leave", "log", "logging"}
    <3>1. Uncounted' = Uncounted /\ Depth' = Depth
      BY <1>1, <2>1, <2>3 DEF Uncounted, TopBecomes, Top
    <3> QED BY <1>1, <2>1, <3>1 DEF PressInv
  <2>4. CASE stack' = <<>>
    <3>1. Depth' = 0 /\ Uncounted' = {}
      BY <2>4 DEF Depth, Uncounted
    <3>2. Cardinality(Uncounted') = 0
      BY <3>1, FS_EmptySet
    <3> QED BY <1>1, <2>1, <3>1, <3>2 DEF PressInv
  <2>5. Enter \/ Load => Top.at \in {"enter", "load"}
    BY DEF Enter, Load
  <2>6. Leave \/ Log \/ Logged => Top.at \in {"leave", "log", "logging"}
    BY DEF Leave, Log, Logged
  <2> QED BY <1>6, <2>2, <2>3, <2>4, <2>5, <2>6, HandlerSteps
<1>7. CASE Decide
  <2>1. /\ Depth > 0 /\ Top.at = "logged" /\ Top = stack[Depth]
        /\ UNCHANGED <<presses, stored, count, ToCome>>
    BY <1>7, TopKnown DEF Decide, ToCome
  <2>2. CASE Top.n = 1
    <3>1. Depth' = Depth - 1 /\ \A k \in 1..Depth' : stack'[k] = stack[k]
      BY <1>7, <2>1, <2>2, StackKnown, FramePopped DEF Decide
    <3>2. Uncounted' = Uncounted
      BY <1>1, <2>1, <3>1 DEF Uncounted
    <3>3. UNCHANGED exited
      BY <1>7, <2>2 DEF Decide
    <3> QED BY <1>1, <2>1, <3>1, <3>2, <3>3 DEF PressInv
  <2>3. CASE Top.n # 1
    <3>1. UNCHANGED stack
      BY <1>7, <2>3 DEF Decide
    <3>2. Depth \in Numbered
      BY <1>1, <2>1 DEF Numbered
    <3>3. Top.n \in 1..count
      BY <2>1, <3>2 DEF StopInv, CountInv
    <3>4. count >= 2
      BY <1>1, <2>3, <3>3
    <3> QED BY <1>1, <2>1, <3>1, <3>4, SameStack DEF PressInv
  <2> QED BY <2>2, <2>3
<1>8. CASE Work \/ Main \/ UNCHANGED stopVars
  BY <1>2, <1>8 DEF Work, Main, WorkEnds, StopEnter, StopSet, StopLeave, Closing, Base, stopVars
<1> QED BY <1>3, <1>4, <1>5, <1>6, <1>7, <1>8 DEF StopNext, Handler

(* The types, of which only that of the count needs more than the step.      *)
LEMMA StopTyped == StopInv /\ [StopNext]_stopVars => StopTypeOK'
<1> SUFFICES ASSUME StopInv, [StopNext]_stopVars PROVE StopTypeOK'
  OBVIOUS
<1>1. StopTypeOK /\ Depth \in Nat /\ Depth < Free /\ Free = MaxPresses + 1 /\ Free' = Free
  BY StackKnown DEF StopInv, Free
<1>2. stack' \in Seq(Frame)
  <2>1. CASE UNCHANGED stack
    BY <2>1, StackKnown
  <2>2. CASE Deliver
    BY <2>2, StackKnown, FramePushed, [at |-> "enter", n |-> 0] \in Frame DEF Deliver, Frame, Steps
  <2>3. CASE Handler
    <3>1. CASE stack' = <<>>
      BY <3>1
    <3>2. CASE Decide
      BY <2>1, <3>2, StackKnown, FramePopped DEF Decide
    <3> QED BY <2>3, <3>1, <3>2, HandlerSteps DEF Handler, TopBecomes
  <2> QED BY <2>1, <2>2, <2>3
          DEF StopNext, Press, Work, Main, WorkEnds, StopEnter, StopSet, StopLeave, Closing,
              Base, stopVars
<1>3. base' \in Bases
  BY <1>1 DEF StopTypeOK, Bases, StopNext, Press, Deliver, Handler, Enter, Load, Store, Leave,
              Log, Logged, Decide, Work, Main, WorkEnds, StopEnter, StopSet, StopLeave, Closing,
              Base, stopVars
<1>4. owner' \in 0..Free
  <2>1. CASE Enter
    BY <1>1, <2>1 DEF Enter
  <2>2. CASE owner' \in {owner, 0, Free}
    BY <1>1, <2>2 DEF StopTypeOK
  <2> QED BY <2>1, <2>2
          DEF StopNext, Press, Deliver, Handler, Load, Store, Leave, Log, Logged, Decide, Work,
              Main, WorkEnds, StopEnter, StopSet, StopLeave, Closing, Base, stopVars
<1>5. count' \in 0..MaxPresses /\ stored' \in 0..MaxPresses
  <2>1. CASE Store
    <3>1. Top.n = count /\ count = stored /\ stored + 1 <= presses
      BY <2>1, RoomToCount DEF Store
    <3> QED BY <1>1, <2>1, <3>1 DEF Store, StopTypeOK
  <2>2. CASE UNCHANGED <<count, stored>>
    BY <1>1, <2>2 DEF StopTypeOK
  <2> QED BY <2>1, <2>2
          DEF StopNext, Press, Deliver, Handler, Enter, Load, Leave, Log, Logged, Decide, Work,
              Main, WorkEnds, StopEnter, StopSet, StopLeave, Closing, Base, stopVars
<1>6. presses' \in 0..MaxPresses
  <2>1. CASE Press
    BY <1>1, <2>1 DEF Press, StopTypeOK
  <2>2. CASE UNCHANGED presses
    BY <1>1, <2>2 DEF StopTypeOK
  <2> QED BY <2>1, <2>2
          DEF StopNext, Deliver, Handler, Enter, Load, Store, Leave, Log, Logged, Decide, Work,
              Main, WorkEnds, StopEnter, StopSet, StopLeave, Closing, Base, stopVars
<1>7. /\ flag' \in BOOLEAN /\ pending' \in BOOLEAN /\ exited' \in BOOLEAN
      /\ everyBytecode' \in BOOLEAN
  BY <1>1 DEF StopTypeOK, StopNext, Press, Deliver, Handler, Enter, Load, Store, Leave,
              Log, Logged, Decide, Work, Main, WorkEnds, StopEnter, StopSet, StopLeave, Closing,
              Base, stopVars
<1> QED BY <1>1, <1>2, <1>3, <1>4, <1>5, <1>6, <1>7 DEF StopTypeOK, Frame, Bases, Steps, Free

(* No handler runs at first.                                                 *)
LEMMA StopStarts == StopInit => StopInv
<1> SUFFICES ASSUME StopInit PROVE StopInv
  OBVIOUS
<1>1. stack = <<>> /\ Depth = 0 /\ stack \in Seq(Frame)
  BY DEF StopInit, Depth
<1>2. Uncounted = {} /\ Numbered = {} /\ Cardinality({}) = 0
  BY <1>1, FS_EmptySet DEF Uncounted, Numbered
<1>3. StopTypeOK
  <2>1. stack \in Seq([at : Steps, n : 0..MaxPresses])
    BY <1>1 DEF Frame
  <2>2. owner \in 0..Free /\ 0 \in 0..MaxPresses
    BY DEF StopInit, Free
  <2> QED BY <2>1, <2>2 DEF StopInit, StopTypeOK, Bases
<1>4. LockInv
  BY <1>1 DEF StopInit, LockInv, Free
<1>5. CountInv
  BY <1>1, <1>2 DEF StopInit, CountInv
<1>6. PressInv
  BY <1>1, <1>2 DEF StopInit, PressInv, ToCome
<1> QED BY <1>3, <1>4, <1>5, <1>6 DEF StopInv

(* However many Ctrl+C come at whatever bytecode, handlers nested in handlers *)
(* or in the final stop(): none is lost in the count, each gets a number of  *)
(* its own, and only a second one kills the process.                         *)
THEOREM HandlersCountApart == StopSpec => []DistinctCounts
<1>1. StopInv /\ [StopNext]_stopVars => StopInv'
  BY StopTyped, LockKept, CountKept, PressKept DEF StopInv
<1>2. StopInv => DistinctCounts
  <2> SUFFICES ASSUME StopInv PROVE DistinctCounts
    OBVIOUS
  <2>1. count = stored /\ stored <= presses
    <3> /\ ToCome \in 0..1 /\ Cardinality(Uncounted) \in Nat /\ stored \in Nat /\ presses \in Nat
      BY UncountedFinite DEF ToCome, StopInv, StopTypeOK
    <3> QED BY DEF StopInv, CountInv, PressInv
  <2>2. exited => presses >= 2 /\ count >= 2
    BY <2>1 DEF StopInv, PressInv, StopTypeOK
  <2> QED BY <2>1, <2>2 DEF StopInv, CountInv, DistinctCounts
<1> QED BY StopStarts, <1>1, <1>2, PTL DEF StopSpec
=============================================================================
