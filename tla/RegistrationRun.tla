--------------------------- MODULE RegistrationRun --------------------------
(* run_registration_cli with concurrent_count > 1: the main thread starts    *)
(* the workers, joins them, waits for the mint threads and prints the        *)
(* summary; each worker takes slots from the queue and registers one account *)
(* per slot, with retries and a browser recycle between attempts; a          *)
(* registration may leave a background mint thread behind. SIGINT stops the  *)
(* run, the second one kills it.                                             *)
EXTENDS Naturals, FiniteSets

CONSTANTS Workers,       \* the worker threads (concurrent_count of them)
          Count,         \* requested number of accounts
          Unlimited,     \* TRUE: loop mode, no queue
          SlotBound,     \* model bound: slots issued in loop mode
          MaxSlotRetry,  \* max_slot_retry
          MintAsync      \* cpa_export_enabled and cpa_mint_async

ASSUME WorkersAssumption == IsFiniteSet(Workers)
ASSUME CountAssumption == Count \in Nat /\ SlotBound \in Nat
ASSUME RetryAssumption == MaxSlotRetry \in Nat
ASSUME ModeAssumption == Unlimited \in BOOLEAN /\ MintAsync \in BOOLEAN

(* Python object of each variable: task_queue is FIFO and filled before the  *)
(* workers start, so its content is the slots after `issued`; stats is       *)
(* success and fail; stop is controller.stop_requested.                      *)
VARIABLES main,      \* where the main thread is
          spawned,   \* workers whose thread was started
          pc,        \* where each worker is
          slot,      \* the slot a worker holds, 0 for none
          retry,     \* retry_count_for_slot
          resume,    \* where the worker goes after the recycle of `finally`
          browser,   \* whether the worker has a live browser
          issued,    \* slots taken so far
          success, fail,
          stop,      \* controller.stop_requested
          sigints,   \* controller._sigint_count
          mint,      \* the mint thread of each slot
          tracked,   \* _cpa_async_threads
          awaited,   \* the snapshot _wait_cpa_async_threads joins
          stopping,  \* the local `stopping` of the final block
          expired,   \* the wait for the mint threads timed out
          published, \* the summary line
          fate,      \* history: what became of each slot
          crashed,   \* history: workers that died of a browser failure
          frozen     \* history: slots that were queued when stop was requested

workVars == <<slot, retry, resume, browser, issued, success, fail, fate, crashed>>
mintVars == <<mint, tracked>>
endVars  == <<awaited, stopping, expired, published>>
stopVars == <<stop, sigints, frozen>>
vars == <<main, spawned, pc, workVars, mintVars, endVars, stopVars>>

Limit == IF Unlimited THEN SlotBound ELSE Count
Slots == 1..Limit

WorkerPlaces == {"unborn", "boot", "loop", "take", "slot", "register", "track",
                 "save", "retry", "recycle", "pace", "close", "dead"}
MainPlaces == {"spawn", "gap", "join", "finish", "cancel", "snapshot", "await",
               "report", "return", "exited", "killed"}
Fates == {"queued", "held", "success", "fail", "dropped"}

Running == main \notin {"exited", "killed"}
Alive(w) == pc[w] \notin {"unborn", "dead"}

FlagsOK == /\ browser \in [Workers -> BOOLEAN]
           /\ stop \in BOOLEAN
           /\ stopping \in BOOLEAN
           /\ expired \in BOOLEAN

ThreadsOK == /\ main \in MainPlaces
             /\ spawned \subseteq Workers
             /\ pc \in [Workers -> WorkerPlaces]
             /\ resume \in [Workers -> {"loop", "slot", "close"}]
             /\ crashed \subseteq Workers
             /\ mint \in [Slots -> {"none", "live", "done"}]
             /\ tracked \subseteq Slots
             /\ awaited \subseteq Slots
             /\ fate \in [Slots -> Fates]
             /\ frozen \subseteq Slots

CountsOK == /\ slot \in [Workers -> Slots \union {0}]
            /\ retry \in [Workers -> 0..MaxSlotRetry]
            /\ issued \in 0..Limit
            /\ success \in Nat
            /\ fail \in Nat
            /\ sigints \in 0..2

SummaryOK == published \subseteq [clean : BOOLEAN, success : Nat, fail : Nat]

TypeOK == FlagsOK /\ ThreadsOK /\ CountsOK /\ SummaryOK

Init ==
    /\ main = "spawn"
    /\ spawned = {}
    /\ pc = [w \in Workers |-> "unborn"]
    /\ slot = [w \in Workers |-> 0]
    /\ retry = [w \in Workers |-> 0]
    /\ resume = [w \in Workers |-> "loop"]
    /\ browser = [w \in Workers |-> FALSE]
    /\ issued = 0
    /\ success = 0 /\ fail = 0
    /\ stop = FALSE /\ sigints = 0
    /\ mint = [s \in Slots |-> "none"]
    /\ tracked = {} /\ awaited = {}
    /\ stopping = FALSE /\ expired = FALSE
    /\ published = {}
    /\ fate = [s \in Slots |-> "queued"]
    /\ crashed = {} /\ frozen = {}
-----------------------------------------------------------------------------
(* Steps of a worker, _cli_worker_loop.                                      *)

At(w, place) == Running /\ pc[w] = place
Goto(w, place) == pc' = [pc EXCEPT ![w] = place]

(* Mutant: a failure is not counted once stop is requested.                  *)
SettleUnlessStopped(w, e) ==
    /\ fate' = [fate EXCEPT ![slot[w]] = e]
    /\ slot' = [slot EXCEPT ![w] = 0]
    /\ success' = IF e = "success" THEN success + 1 ELSE success
    /\ fail' = IF e = "fail" /\ ~stop THEN fail + 1 ELSE fail

Settle(w, e) ==
    /\ fate' = [fate EXCEPT ![slot[w]] = e]
    /\ slot' = [slot EXCEPT ![w] = 0]
    /\ success' = IF e = "success" THEN success + 1 ELSE success
    /\ fail' = IF e = "fail" THEN fail + 1 ELSE fail

(* start_browser of the prologue; when it fails the thread returns at once.  *)
Boot(w) ==
    /\ At(w, "boot")
    /\ \/ /\ browser' = [browser EXCEPT ![w] = TRUE]
          /\ Goto(w, "loop")
          /\ UNCHANGED crashed
       \/ /\ Goto(w, "dead")
          /\ crashed' = crashed \union {w}
          /\ UNCHANGED browser
    /\ UNCHANGED <<main, spawned, slot, retry, resume, issued, success, fail, fate,
                   mintVars, endVars, stopVars>>

(* while not controller.should_stop()                                        *)
Loop(w) ==
    /\ At(w, "loop")
    /\ Goto(w, IF stop THEN "close" ELSE "take")
    /\ UNCHANGED <<main, spawned, workVars, mintVars, endVars, stopVars>>

(* task_queue.get_nowait(). The stop flag is not looked at here. In loop     *)
(* mode there is no queue; at SlotBound the model's worker only polls stop.  *)
Take(w) ==
    /\ At(w, "take")
    /\ IF issued < Limit
       THEN /\ issued' = issued + 1
            /\ slot' = [slot EXCEPT ![w] = issued + 1]
            /\ fate' = [fate EXCEPT ![issued + 1] = "held"]
            /\ retry' = [retry EXCEPT ![w] = 0]
            /\ Goto(w, "slot")
       ELSE /\ Goto(w, IF Unlimited THEN "loop" ELSE "close")
            /\ UNCHANGED <<issued, slot, fate, retry>>
    /\ UNCHANGED <<main, spawned, resume, browser, success, fail, crashed,
                   mintVars, endVars, stopVars>>

(* Mutant: the inner loop does not look at stop.                             *)
SlotLoopBlind(w) ==
    /\ At(w, "slot")
    /\ Goto(w, "register")
    /\ UNCHANGED <<main, spawned, workVars, mintVars, endVars, stopVars>>

(* while not slot_done and not controller.should_stop()                      *)
SlotLoop(w) ==
    /\ At(w, "slot")
    /\ Goto(w, IF stop THEN "close" ELSE "register")
    /\ UNCHANGED <<main, spawned, workVars, mintVars, endVars, stopVars>>

(* _register_one_account_cli up to the sso cookie. RegistrationCancelled is  *)
(* only raised once stop is set: `finally` breaks out of both loops.         *)
Cancelled(w) ==
    /\ At(w, "register")
    /\ stop
    /\ Goto(w, "close")
    /\ UNCHANGED <<main, spawned, workVars, mintVars, endVars, stopVars>>

(* Mutants: one retry too many; every attempt counted as a failure; retries  *)
(* that are not counted.                                                     *)
StuckOnceMore(w) ==
    /\ At(w, "register")
    /\ IF retry[w] <= MaxSlotRetry
       THEN /\ retry' = [retry EXCEPT ![w] = @ + 1]
            /\ Goto(w, "retry")
            /\ UNCHANGED <<resume, slot, success, fail, fate>>
       ELSE /\ Settle(w, "fail")
            /\ resume' = [resume EXCEPT ![w] = "loop"]
            /\ Goto(w, "recycle")
            /\ UNCHANGED retry
    /\ UNCHANGED <<main, spawned, browser, issued, crashed, mintVars, endVars, stopVars>>

StuckCounted(w) ==
    /\ At(w, "register")
    /\ retry[w] < MaxSlotRetry
    /\ retry' = [retry EXCEPT ![w] = @ + 1]
    /\ fail' = fail + 1
    /\ Goto(w, "retry")
    /\ UNCHANGED <<resume, slot, success, fate>>
    /\ UNCHANGED <<main, spawned, browser, issued, crashed, mintVars, endVars, stopVars>>

StuckForever(w) ==
    /\ At(w, "register")
    /\ Goto(w, "retry")
    /\ UNCHANGED <<main, spawned, workVars, mintVars, endVars, stopVars>>

(* AccountRetryNeeded: the slot is tried again MaxSlotRetry times.           *)
Stuck(w) ==
    /\ At(w, "register")
    /\ IF retry[w] < MaxSlotRetry
       THEN /\ retry' = [retry EXCEPT ![w] = @ + 1]
            /\ Goto(w, "retry")
            /\ UNCHANGED <<resume, slot, success, fail, fate>>
       ELSE /\ Settle(w, "fail")
            /\ resume' = [resume EXCEPT ![w] = "loop"]
            /\ Goto(w, "recycle")
            /\ UNCHANGED retry
    /\ UNCHANGED <<main, spawned, browser, issued, crashed, mintVars, endVars, stopVars>>

(* Any other exception, before or after the mint thread was started. The     *)
(* change of mailbox may have lost the browser on the way.                   *)
Failed(w) ==
    /\ At(w, "register") \/ At(w, "save")
    /\ Settle(w, "fail")
    /\ \/ UNCHANGED browser
       \/ At(w, "register") /\ browser' = [browser EXCEPT ![w] = FALSE]
    /\ resume' = [resume EXCEPT ![w] = "loop"]
    /\ Goto(w, "recycle")
    /\ UNCHANGED <<main, spawned, retry, issued, crashed, mintVars, endVars, stopVars>>

(* Mutant: the mint thread is not tracked.                                   *)
StartMintUntracked(w) ==
    /\ At(w, "register")
    /\ mint' = IF MintAsync THEN [mint EXCEPT ![slot[w]] = "live"] ELSE mint
    /\ Goto(w, "save")
    /\ UNCHANGED <<main, spawned, workVars, tracked, endVars, stopVars>>

(* The sso cookie is there: step 6 starts the mint thread, if asked to.      *)
StartMint(w) ==
    /\ At(w, "register")
    /\ IF MintAsync
       THEN /\ mint' = [mint EXCEPT ![slot[w]] = "live"]
            /\ Goto(w, "track")
       ELSE Goto(w, "save") /\ UNCHANGED mint
    /\ UNCHANGED <<main, spawned, workVars, tracked, endVars, stopVars>>

(* _track_cpa_async_thread                                                   *)
Track(w) ==
    /\ At(w, "track")
    /\ tracked' = tracked \union {slot[w]}
    /\ Goto(w, "save")
    /\ UNCHANGED <<main, spawned, workVars, mint, endVars, stopVars>>

(* save_account_bundle, the pools, and stats["success"] += 1                 *)
Registered(w) ==
    /\ At(w, "save")
    /\ Settle(w, "success")
    /\ resume' = [resume EXCEPT ![w] = "loop"]
    /\ Goto(w, "recycle")
    /\ UNCHANGED <<main, spawned, retry, browser, issued, crashed,
                   mintVars, endVars, stopVars>>

(* prepare_next_account_browser(force_full) in the AccountRetryNeeded        *)
(* handler: an exception there waits for `finally` and then kills the thread.*)
PrepareRetry(w) ==
    /\ At(w, "retry")
    /\ Goto(w, "recycle")
    /\ \/ /\ browser' = [browser EXCEPT ![w] = TRUE]
          /\ resume' = [resume EXCEPT ![w] = "slot"]
          /\ UNCHANGED crashed
       \/ /\ browser' = [browser EXCEPT ![w] = FALSE]
          /\ resume' = [resume EXCEPT ![w] = "close"]
          /\ crashed' = crashed \union {w}
    /\ UNCHANGED <<main, spawned, slot, retry, issued, success, fail, fate,
                   mintVars, endVars, stopVars>>

(* Mutant: a recycle that raises is swallowed and the worker goes on.        *)
RecycleSwallowed(w) ==
    /\ At(w, "recycle")
    /\ IF stop
       THEN Goto(w, "close") /\ UNCHANGED browser
       ELSE Goto(w, "pace") /\ \E b \in BOOLEAN : browser' = [browser EXCEPT ![w] = b]
    /\ UNCHANGED <<main, spawned, slot, retry, resume, issued, success, fail, fate,
                   crashed, mintVars, endVars, stopVars>>

(* The `finally` block: start_browser when there is none, else a soft reset  *)
(* or a full restart. When it raises, the thread dies.                       *)
Recycle(w) ==
    /\ At(w, "recycle")
    /\ \/ /\ stop
          /\ Goto(w, "close")
          /\ UNCHANGED <<browser, crashed>>
       \/ /\ ~stop
          /\ browser' = [browser EXCEPT ![w] = TRUE]
          /\ Goto(w, "pace")
          /\ UNCHANGED crashed
       \/ /\ ~stop
          /\ browser' = [browser EXCEPT ![w] = FALSE]
          /\ crashed' = crashed \union {w}
          /\ Goto(w, "close")
    /\ UNCHANGED <<main, spawned, slot, retry, resume, issued, success, fail, fate,
                   mintVars, endVars, stopVars>>

(* pace_sleep(0.5, should_stop), the end of `finally`                        *)
Pace(w) ==
    /\ At(w, "pace")
    /\ Goto(w, IF stop THEN "close" ELSE resume[w])
    /\ UNCHANGED <<main, spawned, workVars, mintVars, endVars, stopVars>>

(* The outer `finally: stop_browser()`, however the loop was left.           *)
Close(w) ==
    /\ At(w, "close")
    /\ browser' = [browser EXCEPT ![w] = FALSE]
    /\ slot' = [slot EXCEPT ![w] = 0]
    /\ fate' = IF slot[w] = 0 THEN fate
               ELSE [fate EXCEPT ![slot[w]] = "dropped"]
    /\ Goto(w, "dead")
    /\ UNCHANGED <<main, spawned, retry, resume, issued, success, fail, crashed,
                   mintVars, endVars, stopVars>>

WorkerStep(w) == \/ Boot(w) \/ Loop(w) \/ Take(w) \/ SlotLoop(w)
                 \/ Cancelled(w) \/ Stuck(w) \/ Failed(w)
                 \/ StartMint(w) \/ Track(w) \/ Registered(w)
                 \/ PrepareRetry(w) \/ Recycle(w) \/ Pace(w) \/ Close(w)

(* The mint thread of slot s ends, well or badly.                            *)
MintEnds(s) ==
    /\ Running
    /\ mint[s] = "live"
    /\ mint' = [mint EXCEPT ![s] = "done"]
    /\ UNCHANGED <<main, spawned, pc, workVars, tracked, endVars, stopVars>>
-----------------------------------------------------------------------------
(* Steps of the main thread, run_registration_cli.                           *)

Spawn ==
    /\ main = "spawn"
    /\ IF stop \/ spawned = Workers
       THEN main' = "join" /\ UNCHANGED <<spawned, pc>>
       ELSE \E w \in Workers \ spawned :
                /\ spawned' = spawned \union {w}
                /\ Goto(w, "boot")
                /\ main' = "gap"
    /\ UNCHANGED <<workVars, mintVars, endVars, stopVars>>

(* sleep_with_cancel(2): when stop is set it raises out of the try block and *)
(* the workers are not joined at all.                                        *)
Gap ==
    /\ main = "gap"
    /\ main' = IF stop THEN "finish" ELSE "spawn"
    /\ UNCHANGED <<spawned, pc, workVars, mintVars, endVars, stopVars>>

(* Mutant: the join returns as soon as one worker is dead.                   *)
JoinAny ==
    /\ main = "join"
    /\ stop \/ \E w \in spawned : ~Alive(w)
    /\ main' = "finish"
    /\ UNCHANGED <<spawned, pc, workVars, mintVars, endVars, stopVars>>

(* _join_threads_interruptible, twice when stopping: all workers are dead,   *)
(* or stop is set and the graces of 3 s and 5 s are over.                    *)
Join ==
    /\ main = "join"
    /\ stop \/ \A w \in spawned : ~Alive(w)
    /\ main' = "finish"
    /\ UNCHANGED <<spawned, pc, workVars, mintVars, endVars, stopVars>>

(* controller.stop_requested = True, by the final block or by SIGINT. What a *)
(* first request finds in the queue is kept as history.                      *)
RequestStop == /\ stop' = TRUE
               /\ frozen' = IF stop THEN frozen ELSE {s \in Slots : fate[s] = "queued"}

(* stopping = controller.should_stop(), then controller.stop()               *)
Finish ==
    /\ main = "finish"
    /\ stopping' = stop
    /\ main' = "cancel"
    /\ UNCHANGED <<spawned, pc, workVars, mintVars, stopVars,
                   awaited, expired, published>>

Cancel ==
    /\ main = "cancel"
    /\ RequestStop
    /\ main' = "snapshot"
    /\ UNCHANGED <<spawned, pc, workVars, mintVars, endVars, sigints>>

(* _wait_cpa_async_threads: the live threads are listed under the lock, then *)
(* joined until a deadline (5 s when stopping, else 300 s).                  *)
Snapshot ==
    /\ main = "snapshot"
    /\ awaited' = {s \in tracked : mint[s] = "live"}
    /\ main' = "await"
    /\ UNCHANGED <<spawned, pc, workVars, mintVars, stopVars,
                   stopping, expired, published>>

(* Mutant: no deadline.                                                      *)
AwaitForever ==
    /\ main = "await"
    /\ \A s \in awaited : mint[s] # "live"
    /\ expired' = FALSE
    /\ main' = "report"
    /\ UNCHANGED <<spawned, pc, workVars, mintVars, stopVars,
                   awaited, stopping, published>>

Await ==
    /\ main = "await"
    /\ expired' = \E s \in awaited : mint[s] = "live"
    /\ main' = "report"
    /\ UNCHANGED <<spawned, pc, workVars, mintVars, stopVars,
                   awaited, stopping, published>>

(* The last line of the run, read under stats["lock"].                       *)
Report ==
    /\ main = "report"
    /\ published' = {[clean |-> ~stopping, success |-> success, fail |-> fail]}
    /\ main' = "return"
    /\ UNCHANGED <<spawned, pc, workVars, mintVars, stopVars,
                   awaited, stopping, expired>>

(* The interpreter exits: every other thread is a daemon and dies with it.   *)
Exit ==
    /\ main = "return"
    /\ main' = "exited"
    /\ UNCHANGED <<spawned, pc, workVars, mintVars, endVars, stopVars>>

MainStep == \/ Spawn \/ Gap \/ Join \/ Finish \/ Cancel
            \/ Snapshot \/ Await \/ Report \/ Exit

(* handle_sigint, installed until just before the summary: the second SIGINT *)
(* is os._exit(1).                                                           *)
Sigint ==
    /\ Running /\ main \notin {"report", "return"}
    /\ sigints < 2
    /\ sigints' = sigints + 1
    /\ RequestStop
    /\ main' = IF sigints' = 2 THEN "killed" ELSE main
    /\ UNCHANGED <<spawned, pc, workVars, mintVars, endVars>>

Next == \/ \E w \in Workers : WorkerStep(w)
        \/ \E s \in Slots : MintEnds(s)
        \/ MainStep
        \/ Sigint

Spec == Init /\ [][Next]_vars

(* The scheduler runs every thread. Nothing is assumed of SIGINT, nor of the *)
(* mint threads, whose wait has a deadline.                                  *)
FairSpec == /\ Spec
            /\ WF_vars(MainStep)
            /\ \A w \in Workers : WF_vars(WorkerStep(w))
-----------------------------------------------------------------------------
(* The counters of the summary against the history of the slots.             *)
EndedAs(e) == {s \in Slots : fate[s] = e}

QueueInOrder == \A s \in Slots : fate[s] = "queued" <=> s > issued
HeldByOne ==
    /\ \A s \in Slots : fate[s] = "held" <=> \E w \in Workers : slot[w] = s
    /\ \A v, w \in Workers : slot[v] = slot[w] /\ slot[v] # 0 => v = w
EndsCounted == /\ success = Cardinality(EndedAs("success"))
               /\ fail = Cardinality(EndedAs("fail"))

(* Every slot is in exactly one place: still queued, in the hands of one     *)
(* worker, or ended; and stats counts the ends. What stats["lock"] and the   *)
(* `finally` block of the worker must keep true through retries and crashes. *)
SlotsConserved == QueueInOrder /\ HeldByOne /\ EndsCounted

(* A slot is registered by a worker that holds it and has a browser, and a   *)
(* thread that ended closed its browser.                                     *)
BrowserInHand ==
    \A w \in Workers :
        /\ pc[w] \in {"register", "track", "save"} => browser[w] /\ slot[w] # 0
        /\ pc[w] \in {"unborn", "boot", "dead"} => ~browser[w] /\ slot[w] = 0

(* A run of N accounts that nobody interrupts may fall short of N only by    *)
(* the slots its crashed workers dropped, one each, unless all of them crash.*)
ShortfallBounded ==
    \A summary \in published :
        summary.clean /\ ~Unlimited /\ crashed # Workers =>
            /\ issued = Count
            /\ summary.success + summary.fail + Cardinality(crashed) >= Count

(* An uninterrupted run ends with no mint thread left running, unless the    *)
(* wait for them timed out.                                                  *)
MintsAwaited ==
    main \in {"report", "return", "exited"} /\ ~stopping /\ ~expired =>
        \A s \in Slots : mint[s] # "live"

(* What RegistrationRun promises: the ledger of slots.                       *)
Ledger == INSTANCE SlotLedger

LedgerSpec == Ledger!Spec

(* The slots still queued when stop is requested are never registered, even  *)
(* those a worker past its own check of the flag takes out of the queue.     *)
QueueFrozenByStop == \A s \in frozen : fate[s] \notin {"success", "fail"}

(* How many steps a worker is from the end of its attempt, at most.          *)
StepsLeft(w) ==
    CASE pc[w] = "retry"    -> 12
      [] pc[w] = "recycle"  -> IF resume[w] = "slot" THEN 11 ELSE 5
      [] pc[w] = "pace"     -> IF resume[w] = "slot" THEN 10 ELSE 4
      [] pc[w] = "slot"     -> 9
      [] pc[w] = "register" -> 8
      [] pc[w] = "track"    -> 7
      [] pc[w] = "save"     -> 6
      [] pc[w] = "boot"     -> 4
      [] pc[w] = "loop"     -> 3
      [] pc[w] = "take"     -> 2
      [] pc[w] = "close"    -> 1
      [] OTHER              -> 0

UsesUp(w) ==
    \/ issued' > issued
    \/ issued' = issued /\ retry'[w] > retry[w]
    \/ issued' = issued /\ retry'[w] = retry[w] /\ StepsLeft(w)' < StepsLeft(w)

(* No retry, recycle or failure lets a worker of a counted run go round for  *)
(* ever: a step of its own takes a slot, or spends one of the slot's         *)
(* retries, or brings the attempt nearer to its end. The slots and the       *)
(* retries are finite, so every such worker stops, stop request or not.      *)
TurnsUsedUp ==
    [][~Unlimited => \A w \in Workers :
          pc[w] # "unborn" /\ pc'[w] # pc[w] => UsesUp(w)]_vars

(* A stopped run ends, and so does a run of N accounts.                      *)
StopEndsRun == stop ~> ~Running
CountedRunEnds == ~Unlimited => <>(~Running)
=============================================================================
