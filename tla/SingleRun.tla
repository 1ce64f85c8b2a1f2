------------------------------ MODULE SingleRun -----------------------------
(* run_registration_cli with concurrent_count = 1: the main thread registers *)
(* the accounts itself, one after the other, on one browser.                 *)
EXTENDS Naturals, FiniteSets

CONSTANTS Count,         \* requested number of accounts
          Unlimited,     \* TRUE: loop mode
          IndexBound,    \* model bound on the index i in loop mode
          MaxSlotRetry,  \* max_slot_retry
          RestartEvery,  \* browser_restart_every, 0 for never
          CleanupEvery   \* MEMORY_CLEANUP_INTERVAL

ASSUME SizesAssumption == /\ Count \in Nat \ {0}
                          /\ IndexBound \in Nat
                          /\ MaxSlotRetry \in Nat
                          /\ RestartEvery \in Nat
                          /\ CleanupEvery \in Nat \ {0}
ASSUME ModeAssumption == Unlimited \in BOOLEAN

VARIABLES place,     \* where the main thread is
          i,         \* index of the account, from 0
          retry,     \* retry_count_for_slot
          browser,   \* whether there is a live browser
          success, fail,
          stop,      \* controller.stop_requested
          stopping,  \* the local `stopping` of the final block
          tries,     \* history: registrations begun for each index
          outcome,   \* history: how the account of each index ended
          phantom,   \* history: failures counted for an index never tried
          broken     \* history: the browser could not be brought back

vars == <<place, i, retry, browser, success, fail, stop, stopping,
          tries, outcome, phantom, broken>>

(* A phantom failure may push i one past the last index.                     *)
Last == IF Unlimited THEN IndexBound ELSE Count
Indices == 0..Last

More == Unlimited \/ i < Count

TypeOK ==
    /\ place \in {"boot", "loop", "register", "counted", "recycle", "pace",
                  "finish", "cancel", "done"}
    /\ i \in 0..(Last + 1)
    /\ retry \in 0..MaxSlotRetry
    /\ browser \in BOOLEAN
    /\ success \in Nat /\ fail \in Nat /\ phantom \in Nat
    /\ stop \in BOOLEAN /\ stopping \in BOOLEAN /\ broken \in BOOLEAN
    /\ tries \in [Indices -> Nat]
    /\ outcome \in [Indices -> {"none", "success", "fail", "phantom"}]

Init ==
    /\ place = "boot"
    /\ i = 0 /\ retry = 0
    /\ browser = FALSE
    /\ success = 0 /\ fail = 0 /\ phantom = 0
    /\ stop = FALSE /\ stopping = FALSE /\ broken = FALSE
    /\ tries = [n \in Indices |-> 0]
    /\ outcome = [n \in Indices |-> "none"]

(* start_browser before the loop; an exception goes to the final block.      *)
Boot ==
    /\ place = "boot"
    /\ \/ browser' = TRUE /\ place' = "loop" /\ UNCHANGED broken
       \/ place' = "finish" /\ broken' = TRUE /\ UNCHANGED browser
    /\ UNCHANGED <<i, retry, success, fail, stop, stopping, tries, outcome, phantom>>

(* Mutant: the last account is left out.                                     *)
LoopEarly ==
    /\ place = "loop"
    /\ IF (Unlimited \/ i + 1 < Count) /\ ~stop
       THEN place' = "register" /\ tries' = [tries EXCEPT ![i] = @ + 1]
       ELSE place' = "finish" /\ UNCHANGED tries
    /\ UNCHANGED <<i, retry, browser, success, fail, stop, stopping, outcome,
                   phantom, broken>>

(* while unlimited or i < count: if controller.should_stop(): break          *)
Loop ==
    /\ place = "loop"
    /\ IF More /\ ~stop
       THEN /\ i < Last             \* the bound of loop mode
            /\ place' = "register"
            /\ tries' = [tries EXCEPT ![i] = @ + 1]
       ELSE place' = "finish" /\ UNCHANGED tries
    /\ UNCHANGED <<i, retry, browser, success, fail, stop, stopping, outcome,
                   phantom, broken>>

Cancelled ==
    /\ place = "register"
    /\ stop
    /\ place' = "finish"
    /\ UNCHANGED <<i, retry, browser, success, fail, stop, stopping, tries,
                   outcome, phantom, broken>>

(* Mutant: a failure does not move the index on.                             *)
NextAccountStay(e) ==
    /\ outcome' = [outcome EXCEPT ![i] = e]
    /\ success' = IF e = "success" THEN success + 1 ELSE success
    /\ fail' = IF e = "success" THEN fail ELSE fail + 1
    /\ retry' = 0
    /\ i' = IF e = "success" THEN i + 1 ELSE i

(* One account done: the counter, the retry count and the index move on.     *)
NextAccount(e) ==
    /\ outcome' = [outcome EXCEPT ![i] = e]
    /\ success' = IF e = "success" THEN success + 1 ELSE success
    /\ fail' = IF e = "success" THEN fail ELSE fail + 1
    /\ retry' = 0
    /\ i' = i + 1

Registered ==
    /\ place = "register"
    /\ NextAccount("success")
    /\ place' = "counted"
    /\ UNCHANGED <<browser, stop, stopping, tries, phantom, broken>>

(* Mutants: one retry too many; retries that are not counted.                *)
StuckOnceMore ==
    /\ place = "register"
    /\ place' = "recycle"
    /\ IF retry <= MaxSlotRetry
       THEN retry' = retry + 1 /\ UNCHANGED <<i, success, fail, outcome>>
       ELSE NextAccount("fail")
    /\ UNCHANGED <<browser, stop, stopping, tries, phantom, broken>>

StuckForever ==
    /\ place = "register"
    /\ place' = "recycle"
    /\ UNCHANGED <<i, retry, success, fail, outcome, browser, stop, stopping, phantom, broken>>
    /\ tries' = [tries EXCEPT ![i] = 0]

(* AccountRetryNeeded                                                        *)
Stuck ==
    /\ place = "register"
    /\ place' = "recycle"
    /\ IF retry < MaxSlotRetry
       THEN retry' = retry + 1 /\ UNCHANGED <<i, success, fail, outcome>>
       ELSE NextAccount("fail")
    /\ UNCHANGED <<browser, stop, stopping, tries, phantom, broken>>

(* Any other exception; the change of mailbox may have lost the browser.     *)
Failed ==
    /\ place = "register"
    /\ NextAccount("fail")
    /\ place' = "recycle"
    /\ \/ UNCHANGED browser
       \/ browser' = FALSE
    /\ UNCHANGED <<stop, stopping, tries, phantom, broken>>

(* The periodic restart, still inside the try block of the account: when it  *)
(* raises, the handler of a failed registration counts a second outcome.     *)
Periodic == RestartEvery > 0 /\ i % RestartEvery = 0

(* cleanup_runtime_memory is due: it stops the browser, whatever fails in    *)
(* that, and nothing but the recycle brings it back.                         *)
Cleanup == success % CleanupEvery = 0 /\ More

(* Mutant: the handler does not move the index on.                           *)
CountedTwice ==
    /\ place = "counted"
    /\ place' = "recycle"
    /\ \/ browser' = (~Cleanup /\ (browser \/ Periodic)) /\ UNCHANGED <<fail, phantom>>
       \/ Periodic /\ browser' = FALSE /\ fail' = fail + 1 /\ phantom' = phantom + 1
    /\ UNCHANGED <<i, retry, success, outcome, stop, stopping, tries, broken>>

(* The rest of the try block after a success: the periodic restart, and the  *)
(* cleanup unless the restart raised.                                        *)
Counted ==
    /\ place = "counted"
    /\ place' = "recycle"
    /\ \/ /\ UNCHANGED <<i, retry, success, fail, outcome, phantom>>
          /\ browser' = (~Cleanup /\ (browser \/ Periodic))
       \/ /\ Periodic
          /\ browser' = FALSE
          /\ fail' = fail + 1
          /\ retry' = 0
          /\ i' = i + 1
          /\ outcome' = [outcome EXCEPT ![i] = "phantom"]
          /\ phantom' = phantom + 1
          /\ UNCHANGED success
    /\ UNCHANGED <<stop, stopping, tries, broken>>

(* Mutant: the recycle only resets a live browser.                           *)
RecycleLiveOnly ==
    /\ place = "recycle"
    /\ IF stop \/ ~More THEN place' = "finish" ELSE place' = "pace"
    /\ UNCHANGED <<browser, broken>>
    /\ UNCHANGED <<i, retry, success, fail, stop, stopping, tries, outcome, phantom>>

(* The `finally` block: a lost browser is started again, a live one reset.   *)
(* An exception of either ends the run.                                      *)
Recycle ==
    /\ place = "recycle"
    /\ IF stop \/ ~More
       THEN place' = "finish" /\ UNCHANGED <<browser, broken>>
       ELSE \/ browser' = TRUE /\ place' = "pace" /\ UNCHANGED broken
            \/ browser' = FALSE /\ place' = "finish" /\ broken' = TRUE
    /\ UNCHANGED <<i, retry, success, fail, stop, stopping, tries, outcome, phantom>>

(* pace_sleep(0.25): RegistrationCancelled leaves the loop when stopped.     *)
Pace ==
    /\ place = "pace"
    /\ place' = IF stop THEN "finish" ELSE "loop"
    /\ UNCHANGED <<i, retry, browser, success, fail, stop, stopping, tries,
                   outcome, phantom, broken>>

(* The final block: stopping is read, the controller is stopped, the browser *)
(* is closed and the summary printed.                                        *)
Finish ==
    /\ place = "finish"
    /\ stopping' = stop
    /\ place' = "cancel"
    /\ UNCHANGED <<i, retry, browser, success, fail, stop, tries, outcome, phantom, broken>>

Cancel ==
    /\ place = "cancel"
    /\ stop' = TRUE
    /\ browser' = FALSE
    /\ place' = "done"
    /\ UNCHANGED <<i, retry, success, fail, stopping, tries, outcome, phantom, broken>>

Sigint ==
    /\ ~stop /\ place # "done"
    /\ stop' = TRUE
    /\ UNCHANGED <<place, i, retry, browser, success, fail, stopping, tries,
                   outcome, phantom, broken>>

Step == \/ Boot \/ Loop \/ Cancelled \/ Registered \/ Stuck \/ Failed
        \/ Counted \/ Recycle \/ Pace \/ Finish \/ Cancel

Next == Step \/ Sigint

Spec == Init /\ [][Next]_vars
FairSpec == Spec /\ WF_vars(Step)
-----------------------------------------------------------------------------
OutcomeOf(e) == {n \in Indices : outcome[n] = e}

(* Whatever fails on the way, the successes counted are the accounts that    *)
(* were registered, each under its own index, after 1 to MaxSlotRetry + 1    *)
(* attempts, and an index is left behind exactly when its outcome is known.  *)
SuccessesAreReal ==
    /\ success = Cardinality(OutcomeOf("success"))
    /\ \A n \in OutcomeOf("success") \union OutcomeOf("fail") :
           tries[n] \in 1..(MaxSlotRetry + 1)
    /\ \A n \in Indices : n < i <=> outcome[n] # "none"

(* The failures counted beyond the accounts that failed are due to the       *)
(* periodic restart, at most one after each success, and i counts both.      *)
FailuresExplained ==
    /\ i = success + fail
    /\ fail = Cardinality(OutcomeOf("fail")) + phantom
    /\ phantom <= success
    /\ RestartEvery = 0 => phantom = 0

(* No account is attempted without a browser.                                *)
BrowserReady == place = "register" => browser

(* The bookkeeping of the sequential run, whatever raises where: successes   *)
(* and failures counted are explained, and no account is tried browserless.  *)
OutcomesExplained == TypeOK /\ SuccessesAreReal /\ FailuresExplained /\ BrowserReady

(* A run that nobody stopped and whose browser came back every time tried to *)
(* the end.                                                                  *)
TriedToTheEnd == place = "done" /\ ~stopping /\ ~broken => ~Unlimited /\ i >= Count

(* A run of Count accounts ends; a stop ends any run.                        *)
RunEnds == (~Unlimited => <>(place = "done")) /\ (stop ~> place = "done")
=============================================================================
