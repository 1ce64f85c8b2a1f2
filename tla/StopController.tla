--------------------------- MODULE StopController --------------------------
(* CliStopController on the main thread: SIGINT handlers run as calls on top *)
(* of whatever the main thread does, a further handler or the final stop()   *)
(* included, and they share a lock that is not re-entrant and the buffer of  *)
(* standard output, which refuses a re-entrant write.                        *)
EXTENDS Naturals, Sequences, FiniteSets

CONSTANT MaxPresses      \* model bound on Ctrl+C

ASSUME PressesAssumption == MaxPresses \in Nat

VARIABLES everyBytecode, \* signals are handled between any two bytecodes
          base,      \* what the main thread itself is doing
          stack,     \* the handlers on top of it, the newest last
          owner,     \* who is inside _lock: 0 main code, n the n-th handler
          count,     \* _sigint_count
          flag,      \* stop_requested
          pending,   \* a SIGINT not handled yet (several are one)
          presses,
          exited,    \* os._exit was called
          stored     \* history: handlers that have counted themselves

stopVars == <<everyBytecode, base, stack, owner, count, flag, pending, presses, exited, stored>>

Free == MaxPresses + 1
Running == base # "over" /\ ~exited
Depth == Len(stack)
Top == stack[Depth]

Bases == {"work", "print", "enter", "set", "leave", "closing", "closeprint", "over"}
Steps == {"enter", "load", "store", "leave", "log", "logging", "logged"}

StopTypeOK ==
    /\ everyBytecode \in BOOLEAN
    /\ base \in Bases
    /\ stack \in Seq([at : Steps, n : 0..MaxPresses])
    /\ owner \in 0..Free
    /\ count \in 0..MaxPresses /\ presses \in 0..MaxPresses
    /\ stored \in 0..MaxPresses
    /\ flag \in BOOLEAN /\ pending \in BOOLEAN /\ exited \in BOOLEAN

StopInit ==
    /\ everyBytecode \in BOOLEAN
    /\ base = "work" /\ stack = <<>> /\ owner = Free
    /\ count = 0 /\ flag = FALSE
    /\ pending = FALSE /\ presses = 0
    /\ exited = FALSE /\ stored = 0

Press ==
    /\ Running /\ presses < MaxPresses
    /\ presses' = presses + 1
    /\ pending' = TRUE
    /\ UNCHANGED <<everyBytecode, base, stack, owner, count, flag, exited, stored>>

(* Where the interpreter looks for signals: between any two bytecodes        *)
(* (Python 3.9), or only outside these few lines; a blocked acquire or write *)
(* is interrupted by a signal in any case.                                   *)
Blocked == \/ Depth > 0 /\ Top.at = "enter" /\ owner # Free
           \/ Depth = 0 /\ base = "enter" /\ owner # Free
Looks == everyBytecode \/ Blocked \/ owner = Free

Deliver ==
    /\ Running /\ pending /\ Looks
    /\ pending' = FALSE
    /\ stack' = Append(stack, [at |-> "enter", n |-> 0])
    /\ UNCHANGED <<everyBytecode, base, owner, count, flag, presses, exited, stored>>

GoTo(p) == stack' = [stack EXCEPT ![Depth].at = p]

(* Mutant: the lock is not waited for.                                       *)
EnterFree ==
    /\ Running /\ Depth > 0 /\ Top.at = "enter"
    /\ owner' = Depth
    /\ GoTo("load")
    /\ UNCHANGED <<everyBytecode, base, count, flag, pending, presses, exited, stored>>

Enter ==
    /\ Running /\ Depth > 0 /\ Top.at = "enter"
    /\ owner = Free
    /\ owner' = Depth
    /\ GoTo("load")
    /\ UNCHANGED <<everyBytecode, base, count, flag, pending, presses, exited, stored>>

(* self._sigint_count += 1 is a load and a store.                            *)
Load ==
    /\ Running /\ Depth > 0 /\ Top.at = "load"
    /\ stack' = [stack EXCEPT ![Depth] = [at |-> "store", n |-> count]]
    /\ UNCHANGED <<everyBytecode, base, owner, count, flag, pending, presses, exited, stored>>

(* Mutant: the count is one too high.                                        *)
StoreOff ==
    /\ Running /\ Depth > 0 /\ Top.at = "store"
    /\ stack' = [stack EXCEPT ![Depth] = [at |-> "leave", n |-> @.n + 2]]
    /\ count' = Top.n + 2
    /\ flag' = TRUE
    /\ stored' = stored + 1
    /\ UNCHANGED <<everyBytecode, base, owner, pending, presses, exited>>

Store ==
    /\ Running /\ Depth > 0 /\ Top.at = "store"
    /\ stack' = [stack EXCEPT ![Depth] = [at |-> "leave", n |-> @.n + 1]]
    /\ count' = Top.n + 1
    /\ flag' = TRUE
    /\ stored' = stored + 1
    /\ UNCHANGED <<everyBytecode, base, owner, pending, presses, exited>>

(* Mutant: an early return keeps the lock.                                   *)
LeaveKept ==
    /\ Running /\ Depth > 0 /\ Top.at = "leave"
    /\ UNCHANGED owner
    /\ GoTo("log")
    /\ UNCHANGED <<everyBytecode, base, count, flag, pending, presses, exited, stored>>

Leave ==
    /\ Running /\ Depth > 0 /\ Top.at = "leave"
    /\ owner' = Free
    /\ GoTo("log")
    /\ UNCHANGED <<everyBytecode, base, count, flag, pending, presses, exited, stored>>

(* cli_log prints; interrupted code that is itself inside print makes it     *)
(* raise, and the exception unwinds every frame down to the run's handlers.  *)
InPrint == \/ base \in {"print", "closeprint"}
           \/ \E k \in 1..(Depth - 1) : stack[k].at = "logging"

Log ==
    /\ Running /\ Depth > 0 /\ Top.at = "log"
    /\ IF InPrint
       THEN /\ stack' = <<>>
            /\ base' = IF base \in {"work", "print"} THEN "enter" ELSE "over"
       ELSE GoTo("logging") /\ UNCHANGED base
    /\ UNCHANGED <<everyBytecode, owner, count, flag, pending, presses, exited, stored>>

Logged ==
    /\ Running /\ Depth > 0 /\ Top.at = "logging"
    /\ GoTo("logged")
    /\ UNCHANGED <<everyBytecode, base, owner, count, flag, pending, presses, exited, stored>>

(* if count == 1: return; else os._exit(1)                                   *)
Decide ==
    /\ Running /\ Depth > 0 /\ Top.at = "logged"
    /\ IF Top.n = 1
       THEN stack' = SubSeq(stack, 1, Depth - 1) /\ UNCHANGED exited
       ELSE exited' = TRUE /\ UNCHANGED stack
    /\ UNCHANGED <<everyBytecode, base, owner, count, flag, pending, presses, stored>>

Base(p, q) == /\ Running /\ Depth = 0 /\ base = p
              /\ base' = q
              /\ UNCHANGED <<everyBytecode, stack, count, pending, presses, exited, stored>>

(* The run prints, and goes to its final block when it is done or stopped; a  *)
(* print that a handler interrupts does not end, since the handler prints.   *)
Work == /\ ~flag
        /\ Base("work", "print") \/ Base("print", "work")
        /\ UNCHANGED <<owner, flag>>

WorkEnds == Base("work", "enter") /\ UNCHANGED <<owner, flag>>

(* controller.stop() of the final block.                                     *)
StopEnter == Base("enter", "set") /\ owner = Free /\ owner' = 0 /\ UNCHANGED flag
StopSet == Base("set", "leave") /\ flag' = TRUE /\ UNCHANGED owner
StopLeave == Base("leave", "closing") /\ owner' = Free /\ UNCHANGED flag

(* The rest of the final block, up to _restore_sigint_handler.               *)
Closing == /\ \/ Base("closing", "closeprint")
              \/ Base("closeprint", "over")
              \/ Base("closing", "over")
           /\ UNCHANGED <<owner, flag>>

Handler == Enter \/ Load \/ Store \/ Leave \/ Log \/ Logged \/ Decide
Main == WorkEnds \/ StopEnter \/ StopSet \/ StopLeave \/ Closing

StopNext == Press \/ Deliver \/ Handler \/ Work \/ Main

(* The main thread goes on, and the interpreter looks for signals.           *)
StopSpec == StopInit /\ [][StopNext]_stopVars
FairStopSpec == StopSpec /\ WF_stopVars(Deliver) /\ WF_stopVars(Handler) /\ WF_stopVars(flag /\ Main)
-----------------------------------------------------------------------------
(* However the handlers nest, none of them is lost in the count and each     *)
(* gets a number of its own: no two take themselves for the first Ctrl+C,    *)
(* and the process is not killed by the first.                               *)
Numbered == {k \in 1..Depth : stack[k].at \in {"leave", "log", "logging", "logged"}}
DistinctCounts ==
    /\ StopTypeOK
    /\ \A j, k \in Numbered : stack[j].n = stack[k].n => j = k
    /\ count = stored /\ stored <= presses
    /\ exited => presses >= 2 /\ count >= 2

(* Where signals are not handled inside the lock, a requested stop ends the  *)
(* run, in its final block or by force, whatever is pressed meanwhile.       *)
StopEndsRun == (flag /\ ~everyBytecode) ~> ~Running
=============================================================================
