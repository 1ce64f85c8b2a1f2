------------------------------ MODULE MintGate ------------------------------
(* mint_tokens_with_sso: the mints of all threads ask x.ai for device codes  *)
(* and poll for tokens through two gates, each a lock and the time before    *)
(* which no request may be sent. Time is counted down in ticks; a tick is    *)
(* the interval between requests.                                            *)
EXTENDS Naturals

CONSTANTS Minters,       \* the mints, one thread each
          CodeTries,     \* requests for a device code (9)
          Polls,         \* polls for the token (30)
          None           \* no thread

ASSUME GateAssumption == CodeTries \in Nat \ {0} /\ Polls \in Nat \ {0} /\ None \notin Minters

VARIABLES place,       \* where each mint is
          gate,        \* which requests it sends
          timer,       \* how long its thread sleeps
          turn,        \* its tries of a code, then its polls
          slow,        \* slow_down answers to its polls
          granted,     \* the mints whose device code x.ai has approved
          lock,        \* holders of _device_code_lock and _token_poll_lock
          mark,        \* _device_code_next_at and _token_poll_next_at, from now
          quiet,       \* history: ticks since a request was last answered, up to Interval
          owed,        \* history: what is left of the longest back-off that was set
          cut          \* history: in that time a smaller mark was set

gateVars == <<place, gate, timer, turn, slow, granted, lock, mark, quiet, owed, cut>>

Gates == {"code", "token"}
Interval == 1

(* min(4.0 * dc_try, 30.0) after a 429; sleep_for after a slow_down.         *)
BackOff(n) == n + 1
Turns(g) == IF g = "code" THEN CodeTries ELSE Polls
Largest == IF CodeTries > Polls THEN CodeTries ELSE Polls

MintersOK ==
    /\ place \in [Minters -> {"off", "wants", "held", "refused", "verify", "minted", "failed"}]
    /\ gate \in [Minters -> Gates]
    /\ timer \in [Minters -> 0..BackOff(Largest)]
    /\ turn \in [Minters -> 1..Largest] /\ slow \in [Minters -> 0..Polls]
    /\ granted \subseteq Minters

GatesOK ==
    /\ lock \in [Gates -> Minters \union {None}]
    /\ mark \in [Gates -> 0..BackOff(Largest)] /\ owed \in [Gates -> 0..BackOff(Largest)]
    /\ quiet \in [Gates -> 0..Interval]

GateTypeOK == MintersOK /\ GatesOK /\ cut \in [Gates -> BOOLEAN]

GateInit ==
    /\ place = [m \in Minters |-> "off"] /\ gate = [m \in Minters |-> "code"]
    /\ timer = [m \in Minters |-> 0] /\ turn = [m \in Minters |-> 1]
    /\ slow = [m \in Minters |-> 0] /\ granted = {}
    /\ lock = [g \in Gates |-> None] /\ mark = [g \in Gates |-> 0]
    /\ quiet = [g \in Gates |-> Interval] /\ owed = [g \in Gates |-> 0]
    /\ cut = [g \in Gates |-> FALSE]

To(m, p) == place' = [place EXCEPT ![m] = p]
Sleeps(m, n) == timer' = [timer EXCEPT ![m] = n]
Awake(m, p) == place[m] = p /\ timer[m] = 0
Less(n) == IF n = 0 THEN 0 ELSE n - 1

Tick ==
    /\ \/ \E m \in Minters : timer[m] > 0
       \/ \E g \in Gates : mark[g] + owed[g] > 0 \/ quiet[g] < Interval
    /\ timer' = [m \in Minters |-> Less(timer[m])]
    /\ mark' = [g \in Gates |-> Less(mark[g])]
    /\ owed' = [g \in Gates |-> Less(owed[g])]
    /\ cut' = [g \in Gates |-> cut[g] /\ owed'[g] > 0]
    /\ quiet' = [g \in Gates |-> Interval]
    /\ UNCHANGED <<place, gate, turn, slow, granted, lock>>

(* mint_and_export_protocol is called.                                       *)
Begin(m) == place[m] = "off" /\ To(m, "wants")

(* Mutant: the mark is read and waited for before the lock is taken.         *)
TakeLate(m) ==
    /\ Awake(m, "wants")
    /\ To(m, "held") /\ Sleeps(m, mark[gate[m]])
    /\ UNCHANGED <<gate, turn, slow, granted, lock, mark, quiet, owed, cut>>

(* The lock is taken, the mark read once and waited for.                     *)
Take(m) ==
    /\ Awake(m, "wants")
    /\ lock[gate[m]] = None /\ lock' = [lock EXCEPT ![gate[m]] = m]
    /\ To(m, "held") /\ Sleeps(m, mark[gate[m]])
    /\ UNCHANGED <<gate, turn, slow, granted, mark, quiet, owed, cut>>

Free(m) == lock' = [lock EXCEPT ![gate[m]] = None]
Leaves(m, p) == To(m, p) /\ UNCHANGED <<gate, timer, turn, slow, granted>>

(* The mint returns tokens or raises; what its thread knew is gone.          *)
Ends(m, p) ==
    /\ To(m, p)
    /\ gate' = [gate EXCEPT ![m] = "code"] /\ timer' = [timer EXCEPT ![m] = 0]
    /\ turn' = [turn EXCEPT ![m] = 1] /\ slow' = [slow EXCEPT ![m] = 0]
    /\ granted' = granted \ {m}

(* Mutant: turns are not counted.                                            *)
AgainForever(m, rest, slows) ==
    To(m, "wants") /\ Sleeps(m, rest) /\ UNCHANGED <<turn, slow, gate, granted>>

(* After a rest the next try or poll, if there is one left.                  *)
Again(m, rest, slows) ==
    IF turn[m] < Turns(gate[m])
    THEN /\ To(m, "wants") /\ turn' = [turn EXCEPT ![m] = @ + 1] /\ Sleeps(m, rest)
         /\ slow' = [slow EXCEPT ![m] = slows] /\ UNCHANGED <<gate, granted>>
    ELSE Ends(m, "failed")

(* The request raises: the lock is released, the mark stays. A request for a *)
(* code is not repeated then, a poll is.                                     *)
Breaks(m) ==
    /\ Awake(m, "held")
    /\ Free(m)
    /\ IF gate[m] = "token" THEN Again(m, Interval, slow[m]) ELSE Ends(m, "failed")
    /\ UNCHANGED <<mark, quiet, owed, cut>>

(* The request is answered, and the interval set as the mark.                *)
Answered(m, g) ==
    /\ Awake(m, "held") /\ gate[m] = g
    /\ Free(m)
    /\ mark' = [mark EXCEPT ![g] = Interval]
    /\ quiet' = [quiet EXCEPT ![g] = 0]
    /\ UNCHANGED <<owed, cut>>

CodeAnswered(m) ==
    /\ Answered(m, "code")
    /\ \/ \E next \in {"verify", "refused"} : Leaves(m, next)
       \/ Ends(m, "failed")

(* Tokens come for an approved code; a pending or an unreadable answer is    *)
(* polled again, an expired or a denied code is not.                         *)
TokenAnswered(m) ==
    /\ Answered(m, "token")
    /\ \/ m \in granted /\ Ends(m, "minted")
       \/ Again(m, Interval, slow[m])
       \/ Leaves(m, "refused")
       \/ Ends(m, "failed")

(* After 429 or slow_down the back-off becomes the mark, be it longer or     *)
(* shorter, and the thread sleeps as long. Between the answer and the mark   *)
(* another thread may still send its request.                                *)
Back(m) ==
    LET g == gate[m]
        wait == BackOff(IF g = "code" THEN turn[m] ELSE slow[m] + 1) IN
    /\ place[m] = "refused" /\ lock[g] = None
    /\ mark' = [mark EXCEPT ![g] = wait]
    /\ owed' = [owed EXCEPT ![g] = IF @ > wait THEN @ ELSE wait]
    /\ cut' = [cut EXCEPT ![g] = @ \/ wait < owed[g]]
    /\ Again(m, wait, IF g = "token" THEN slow[m] + 1 ELSE 0)
    /\ UNCHANGED <<lock, quiet>>

(* The user code is verified and approved with the sso cookie: an exception  *)
(* or a page that asks for a login, or polling, whether approved or not.     *)
Verify(m) ==
    /\ place[m] = "verify"
    /\ \/ Ends(m, "failed")
       \/ /\ To(m, "wants") /\ gate' = [gate EXCEPT ![m] = "token"]
          /\ Sleeps(m, Interval) /\ turn' = [turn EXCEPT ![m] = 1]
          /\ granted' \in {granted, granted \union {m}} /\ UNCHANGED slow
    /\ UNCHANGED <<lock, mark, quiet, owed, cut>>

GateStep(m) ==
    Take(m) \/ Breaks(m) \/ CodeAnswered(m) \/ TokenAnswered(m) \/ Back(m) \/ Verify(m)
-----------------------------------------------------------------------------
Sends(m) == place[m] = "held" /\ place'[m] # "held"

(* "全局限速：并发过高会 429 / slow_down" (a limit for all threads): two requests  *)
(* of one kind, whichever threads send them, are an interval apart if the    *)
(* first was answered; and no request is sent in a back-off, from the time   *)
(* it is set, unless another thread has set a shorter one meanwhile.         *)
Paced ==
    \A m \in Minters :
        Sends(m) => /\ quiet[gate[m]] = Interval
                    /\ owed[gate[m]] > 0 => cut[gate[m]]

(* Every step of the gates and of the clock is paced so.                     *)
PacedRequests == [][Paced]_gateVars
=============================================================================
