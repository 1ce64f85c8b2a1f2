--------------------------- MODULE MintFlowProofs ---------------------------
(* For any number of mints, tries, polls and logins: requests are paced      *)
(* across the threads, and what a mint leaves behind is explained.           *)
EXTENDS MintFlow, TLAPS

USE GateAssumption, FlowAssumption DEF GateAssumption, FlowAssumption

(* Who is inside a gate has its lock, and sleeps until its mark at least:    *)
(* only a holder that has been answered, or a back-off outside the lock,     *)
(* moves the mark.                                                           *)
HeldInv ==
    \A m \in Minters : place[m] = "held" => lock[gate[m]] = m /\ mark[gate[m]] <= timer[m]

(* The mark covers the interval since the last answer, and any back-off      *)
(* unless a shorter one has replaced it.                                     *)
MarkInv ==
    \A g \in Gates : /\ mark[g] = 0 => quiet[g] = Interval
                     /\ owed[g] > mark[g] => cut[g]

(* No more slow_down answers than polls, so that the back-off is bounded.    *)
TurnInv ==
    \A m \in Minters : /\ slow[m] < turn[m] /\ turn[m] <= Turns(gate[m])
                       /\ gate[m] = "code" => slow[m] = 0
                       /\ place[m] = "verify" => gate[m] = "code"

GateInv == HeldInv /\ MarkInv /\ TurnInv

(* How far the mint is and what there is of it by then.                      *)
WayInv ==
    /\ flow = "off" => place[me] = "off"
    /\ flow \notin {"off", "protocol"} => place[me] \in {"off", "minted", "failed"}
    /\ flow \in {"off", "protocol"} => ~file /\ asked = 0
    /\ flow = "request" => asked < CodeRequests
    /\ flow \in {"off", "protocol", "request", "acquire", "open"} => poll = "off"

(* The polling thread and its tokens.                                        *)
PollInv ==
    /\ poll = "polling" => flow = "confirm" \/ abandoned
    /\ poll = "token" => flow \in {"confirm", "join", "write"} \/ file \/ abandoned \/ raised

(* What the protocol's mint and the writing have left.                       *)
KeptInv ==
    /\ place[me] = "minted" /\ flow \notin {"off", "protocol"} => file \/ raised
    /\ good => file
    /\ flow = "publish" => good
    /\ flow \in {"bundle", "over"} => good \/ logged \/ threw

FlowInv == WayInv /\ PollInv /\ KeptInv /\ BrowserClosed /\ CopiedAsFallback

Flags == PubTypeOK /\ FlowFlagsOK
GatePart == MintersOK /\ GatesOK /\ GateInv /\ cut \in [Gates -> BOOLEAN]
FlowPart == FlowDataOK /\ Flags /\ FlowInv
IInv == GatePart /\ FlowPart

LEMMA LargestIsNat ==
    /\ Largest \in Nat /\ Largest >= 1
    /\ \A g \in Gates : Turns(g) \in Nat /\ 1 <= Turns(g) /\ Turns(g) <= Largest
    /\ BackOff(Largest) = Largest + 1
  BY DEF Largest, Turns, Gates, BackOff

LEMMA InitInvariant == Init => IInv
  <1> SUFFICES ASSUME Init PROVE IInv
    OBVIOUS
  <1>1. MintersOK /\ GatesOK
    BY LargestIsNat DEF Init, GateInit, MintersOK, GatesOK, Gates, Interval
  <1>2. FlowDataOK
    BY DEF Init, FlowDataOK, Pages
  <1>3. Flags /\ cut \in [Gates -> BOOLEAN]
    BY DEF Init, GateInit, PubInit, Flags, PubTypeOK, FlowFlagsOK
  <1>4. GateInv
    BY LargestIsNat DEF Init, GateInit, GateInv, HeldInv, MarkInv, TurnInv, Gates, Interval
  <1>5. FlowInv
    BY DEF Init, GateInit, PubInit, FlowInv, WayInv, PollInv, KeptInv, BrowserClosed, CopiedAsFallback
  <1> QED
    BY <1>1, <1>2, <1>3, <1>4, <1>5 DEF IInv, GatePart, FlowPart

(* One try or poll more, or the end of the mint.                             *)
LEMMA AgainKeeps ==
    ASSUME MintersOK, TurnInv, NEW m \in Minters, NEW rest \in 0..BackOff(Largest),
           NEW slows \in Nat, slows <= turn[m], gate[m] = "code" => slows = 0,
           Again(m, rest, slows)
    PROVE  MintersOK' /\ TurnInv'
  <1> USE LargestIsNat DEF MintersOK, TurnInv, Turns, Gates
  <1>1. CASE turn[m] < Turns(gate[m])
    <2>1. /\ place' = [place EXCEPT ![m] = "wants"] /\ turn' = [turn EXCEPT ![m] = @ + 1]
          /\ timer' = [timer EXCEPT ![m] = rest] /\ slow' = [slow EXCEPT ![m] = slows]
          /\ UNCHANGED <<gate, granted>>
      BY <1>1 DEF Again, To, Sleeps
    <2>2. turn[m] + 1 \in 1..Largest
      BY <1>1
    <2>3. slows \in 0..Polls
      BY <1>1
    <2>4. MintersOK'
      BY <2>1, <2>2, <2>3
    <2>5. TurnInv'
      BY <1>1, <2>1
    <2> QED
      BY <2>4, <2>5
  <1>2. CASE ~(turn[m] < Turns(gate[m]))
    BY <1>2 DEF Again, Ends, To
  <1> QED
    BY <1>1, <1>2

LEMMA EndsKeeps ==
    ASSUME MintersOK, TurnInv, NEW m \in Minters, NEW p \in {"minted", "failed"}, Ends(m, p)
    PROVE  MintersOK' /\ TurnInv'
  BY LargestIsNat DEF MintersOK, TurnInv, Turns, Gates, Ends, To

(* A holder's request is answered or breaks, when it has slept.              *)
LEMMA MintersStep ==
    ASSUME MintersOK, GatesOK, TurnInv, NEW m \in Minters, GateStep(m)
    PROVE  MintersOK' /\ TurnInv'
  <1>1. CASE Take(m)
    BY <1>1 DEF Take, To, Sleeps, MintersOK, GatesOK, TurnInv
  <1>2. CASE Breaks(m)
    <2>1. CASE gate[m] = "token"
      <3>1. Again(m, Interval, slow[m])
        BY <1>2, <2>1 DEF Breaks
      <3>2. slow[m] \in Nat /\ slow[m] <= turn[m] /\ Interval \in 0..BackOff(Largest)
        BY LargestIsNat DEF MintersOK, TurnInv, Interval
      <3> QED
        BY <2>1, <3>1, <3>2, AgainKeeps
    <2>2. CASE gate[m] # "token"
      BY <1>2, <2>2, EndsKeeps DEF Breaks
    <2> QED
      BY <2>1, <2>2
  <1>3. CASE CodeAnswered(m)
    <2>1. CASE \E next \in {"verify", "refused"} : Leaves(m, next)
      <3>1. gate[m] = "code"
        BY <1>3 DEF CodeAnswered, Answered
      <3> QED
        BY <2>1, <3>1 DEF Leaves, To, MintersOK, TurnInv
    <2> QED
      BY <1>3, <2>1, EndsKeeps DEF CodeAnswered
  <1>4. CASE TokenAnswered(m)
    <2>1. CASE Leaves(m, "refused")
      BY <2>1 DEF Leaves, To, MintersOK, TurnInv
    <2>2. CASE Again(m, Interval, slow[m])
      <3>1. gate[m] = "token"
        BY <1>4 DEF TokenAnswered, Answered
      <3>2. slow[m] \in Nat /\ slow[m] <= turn[m] /\ Interval \in 0..BackOff(Largest)
        BY LargestIsNat DEF MintersOK, TurnInv, Interval
      <3> QED
        BY <2>2, <3>1, <3>2, AgainKeeps
    <2> QED
      BY <1>4, <2>1, <2>2, EndsKeeps DEF TokenAnswered
  <1>5. CASE Back(m)
    <2> DEFINE n == IF gate[m] = "code" THEN turn[m] ELSE slow[m] + 1
    <2>1. n \in 1..Largest /\ BackOff(n) \in 0..BackOff(Largest)
      BY LargestIsNat DEF MintersOK, TurnInv, BackOff, Gates
    <2>2. Again(m, BackOff(n), IF gate[m] = "token" THEN slow[m] + 1 ELSE 0)
      BY <1>5 DEF Back
    <2>3. \/ gate[m] = "token" /\ slow[m] + 1 \in Nat /\ slow[m] + 1 <= turn[m]
          \/ gate[m] = "code" /\ 0 <= turn[m]
      BY DEF MintersOK, TurnInv, Gates
    <2> HIDE DEF n
    <2> QED
      BY <2>1, <2>2, <2>3, AgainKeeps
  <1>6. CASE Verify(m)
    <2>1. CASE ~Ends(m, "failed")
      <3>1. /\ place' = [place EXCEPT ![m] = "wants"] /\ gate' = [gate EXCEPT ![m] = "token"]
            /\ timer' = [timer EXCEPT ![m] = 1] /\ turn' = [turn EXCEPT ![m] = 1]
            /\ granted' \in {granted, granted \union {m}} /\ UNCHANGED slow
            /\ place[m] = "verify"
        BY <1>6, <2>1 DEF Verify, To, Sleeps, Interval
      <3>2. slow[m] = 0
        BY <3>1 DEF TurnInv
      <3>3. MintersOK'
        BY <3>1, LargestIsNat DEF MintersOK, Gates
      <3>4. TurnInv'
        BY <3>1, <3>2, LargestIsNat DEF MintersOK, TurnInv, Turns, Gates
      <3> QED
        BY <3>3, <3>4
    <2> QED
      BY <1>6, <2>1, EndsKeeps DEF Verify
  <1> QED
    BY <1>1, <1>2, <1>3, <1>4, <1>5, <1>6 DEF GateStep

(* Locks, marks and what is owed.                                            *)
LEMMA GatesStep ==
    ASSUME MintersOK, GatesOK, GateInv, cut \in [Gates -> BOOLEAN], NEW m \in Minters, GateStep(m)
    PROVE  GatesOK' /\ cut' \in [Gates -> BOOLEAN] /\ HeldInv' /\ MarkInv'
  <1> USE LargestIsNat DEF GateInv
  <1>0. gate[m] \in Gates
    BY DEF MintersOK
  <1>1. CASE Take(m)
    <2>1. GatesOK' /\ cut' \in [Gates -> BOOLEAN] /\ MarkInv'
      BY <1>1 DEF Take, GatesOK, MarkInv
    <2>2. HeldInv'
      BY <1>0, <1>1 DEF Take, To, Sleeps, MintersOK, GatesOK, HeldInv
    <2> QED
      BY <2>1, <2>2
  <1>2. ASSUME Awake(m, "held"), place'[m] # "held", Free(m), UNCHANGED <<owed, cut>>,
               \A o \in Minters \ {m} : /\ place'[o] = place[o] /\ gate'[o] = gate[o]
                                         /\ timer'[o] = timer[o],
               \/ UNCHANGED <<mark, quiet>>
               \/ /\ mark' = [mark EXCEPT ![gate[m]] = Interval]
                  /\ quiet' = [quiet EXCEPT ![gate[m]] = 0]
        PROVE  GatesOK' /\ HeldInv' /\ MarkInv' /\ cut' \in [Gates -> BOOLEAN]
    <2>1. mark[gate[m]] = 0
      BY <1>0, <1>2 DEF Awake, HeldInv, GatesOK, MintersOK
    <2>2. GatesOK' /\ cut' \in [Gates -> BOOLEAN]
      BY <1>0, <1>2 DEF Free, GatesOK, Interval
    <2>3. HeldInv'
      <3> SUFFICES ASSUME NEW o \in Minters, place'[o] = "held"
                   PROVE  lock'[gate'[o]] = o /\ mark'[gate'[o]] <= timer'[o]
        BY DEF HeldInv
      <3>1. o # m /\ place[o] = "held" /\ gate'[o] = gate[o] /\ timer'[o] = timer[o]
        BY <1>2
      <3>2. lock[gate[o]] = o /\ lock[gate[m]] = m /\ mark[gate[o]] <= timer[o] /\ gate[o] \in Gates
        BY <3>1, <1>2 DEF HeldInv, Awake, MintersOK
      <3>3. gate[o] # gate[m]
        BY <3>1, <3>2
      <3> QED
        BY <1>0, <1>2, <3>1, <3>2, <3>3 DEF Free, GatesOK
    <2>4. MarkInv'
      BY <1>0, <1>2, <2>1 DEF MarkInv, GatesOK, Interval
    <2> QED
      BY <2>2, <2>3, <2>4
  <1>3. CASE Breaks(m) \/ CodeAnswered(m) \/ TokenAnswered(m)
    <2>1. Awake(m, "held") /\ Free(m) /\ UNCHANGED <<owed, cut>>
      BY <1>3 DEF Breaks, CodeAnswered, TokenAnswered, Answered
    <2>2. \/ UNCHANGED <<mark, quiet>>
          \/ /\ mark' = [mark EXCEPT ![gate[m]] = Interval]
             /\ quiet' = [quiet EXCEPT ![gate[m]] = 0]
      BY <1>3 DEF Breaks, CodeAnswered, TokenAnswered, Answered
    <2>3. /\ place'[m] # "held"
          /\ \A o \in Minters \ {m} : /\ place'[o] = place[o] /\ gate'[o] = gate[o]
                                        /\ timer'[o] = timer[o]
      BY <1>3 DEF Breaks, CodeAnswered, TokenAnswered, Again, Ends, Leaves, To, Sleeps, MintersOK
    <2> QED
      BY <1>2, <2>1, <2>2, <2>3
  <1>4. CASE Back(m)
    <2> DEFINE g == gate[m]
               wait == BackOff(IF g = "code" THEN turn[m] ELSE slow[m] + 1)
    <2>1. wait \in 1..BackOff(Largest)
      BY DEF MintersOK, TurnInv, BackOff, Gates
    <2>2. /\ place[m] = "refused" /\ lock[g] = None
          /\ mark' = [mark EXCEPT ![g] = wait]
          /\ owed' = [owed EXCEPT ![g] = IF @ > wait THEN @ ELSE wait]
          /\ cut' = [cut EXCEPT ![g] = @ \/ wait < owed[g]]
          /\ UNCHANGED <<lock, quiet>>
      BY <1>4 DEF Back
    <2>3. /\ place'[m] # "held"
          /\ \A o \in Minters \ {m} : /\ place'[o] = place[o] /\ gate'[o] = gate[o]
                                        /\ timer'[o] = timer[o]
      BY <1>4 DEF Back, Again, Ends, To, Sleeps, MintersOK
    <2> HIDE DEF wait
    <2>4. GatesOK'
      BY <1>0, <2>1, <2>2 DEF GatesOK
    <2>5. cut' \in [Gates -> BOOLEAN]
      <3>1. (cut[g] \/ wait < owed[g]) \in BOOLEAN
        BY Zenon
      <3> HIDE DEF g
      <3> QED
        BY <2>2, <3>1, Zenon
    <2>6. HeldInv'
      <3> SUFFICES ASSUME NEW o \in Minters, place'[o] = "held"
                   PROVE  lock'[gate'[o]] = o /\ mark'[gate'[o]] <= timer'[o]
        BY DEF HeldInv
      <3>1. place[o] = "held" /\ gate'[o] = gate[o] /\ timer'[o] = timer[o]
        BY <2>3
      <3>2. lock[gate[o]] = o /\ mark[gate[o]] <= timer[o] /\ gate[o] # g
        BY <2>2, <3>1 DEF HeldInv
      <3> QED
        BY <2>2, <3>1, <3>2 DEF MintersOK, GatesOK
    <2>7. MarkInv'
      <3> SUFFICES ASSUME NEW h \in Gates
                   PROVE  /\ mark'[h] = 0 => quiet'[h] = Interval
                          /\ owed'[h] > mark'[h] => cut'[h]
        BY DEF MarkInv
      <3>1. CASE h # g
        BY <2>2, <3>1, <1>0 DEF MarkInv, GatesOK
      <3>2. CASE h = g
        <4>1. mark'[g] = wait /\ wait > 0 /\ owed'[g] = IF owed[g] > wait THEN owed[g] ELSE wait
          BY <1>0, <2>1, <2>2 DEF GatesOK
        <4>2. owed'[g] > mark'[g] => wait < owed[g]
          BY <4>1, <2>1, <1>0 DEF GatesOK
        <4>3. cut'[g] <=> (cut[g] \/ wait < owed[g])
          BY <1>0, <2>2
        <4> QED
          BY <3>2, <4>1, <4>2, <4>3, <2>1
      <3> QED
        BY <3>1, <3>2
    <2> QED
      BY <2>4, <2>5, <2>6, <2>7
  <1>5. CASE Verify(m)
    <2>1. UNCHANGED <<lock, mark, quiet, owed, cut>> /\ place'[m] # "held"
      BY <1>5 DEF Verify, Ends, To, MintersOK
    <2>2. \A o \in Minters \ {m} : place'[o] = place[o] /\ gate'[o] = gate[o] /\ timer'[o] = timer[o]
      BY <1>5 DEF Verify, Ends, To, Sleeps, MintersOK
    <2> QED
      BY <2>1, <2>2 DEF GatesOK, HeldInv, MarkInv
  <1> QED
    BY <1>1, <1>3, <1>4, <1>5 DEF GateStep

(* Time passes.                                                              *)
LEMMA TickKeeps ==
    ASSUME MintersOK, GatesOK, GateInv, cut \in [Gates -> BOOLEAN], Tick
    PROVE  MintersOK' /\ GatesOK' /\ cut' \in [Gates -> BOOLEAN] /\ GateInv'
  <1> USE LargestIsNat DEF GateInv
  <1>1. MintersOK' /\ TurnInv'
    BY DEF Tick, Less, MintersOK, TurnInv
  <1>2. GatesOK'
    <2>1. /\ mark' = [g \in Gates |-> Less(mark[g])] /\ owed' = [g \in Gates |-> Less(owed[g])]
          /\ quiet' = [g \in Gates |-> Interval] /\ lock' = lock
      BY DEF Tick
    <2>2. \A n \in 0..BackOff(Largest) : Less(n) \in 0..BackOff(Largest)
      BY DEF Less
    <2> QED
      BY <2>1, <2>2 DEF GatesOK, Interval
  <1>3. cut' \in [Gates -> BOOLEAN]
    BY Zenon DEF Tick
  <1>4. HeldInv'
    BY DEF Tick, Less, HeldInv, MintersOK, GatesOK
  <1>5. MarkInv'
    <2> SUFFICES ASSUME NEW g \in Gates
                 PROVE  quiet'[g] = Interval /\ (owed'[g] > mark'[g] => cut'[g])
      BY DEF MarkInv
    <2>1. /\ mark'[g] = Less(mark[g]) /\ owed'[g] = Less(owed[g]) /\ quiet'[g] = Interval
          /\ cut'[g] <=> (cut[g] /\ owed'[g] > 0)
      BY DEF Tick
    <2>2. owed'[g] > mark'[g] => owed[g] > mark[g] /\ owed'[g] > 0
      BY <2>1 DEF Less, GatesOK
    <2> QED
      BY <2>1, <2>2 DEF MarkInv
  <1> QED
    BY <1>1, <1>2, <1>3, <1>4, <1>5

(* Every step, as far as the gates go: a mint at its gate, time, a mint that *)
(* begins, or nothing.                                                       *)
GateNext ==
    \/ \E m \in Minters : GateStep(m)
    \/ Tick
    \/ \E m \in Minters : /\ Begin(m)
                          /\ UNCHANGED <<gate, timer, turn, slow, granted, lock, mark, quiet, owed, cut>>
    \/ UNCHANGED gateVars

LEMMA FlowIsGateNext == [Next]_vars => GateNext
  <1> SUFFICES ASSUME [Next]_vars PROVE GateNext
    OBVIOUS
  <1>1. CASE Export
    BY <1>1 DEF Export, GateNext, gateVars
  <1>2. CASE ProtocolEnds \/ WriteFile
    BY <1>2 DEF ProtocolEnds, WriteFile, GateNext
  <1>3. CASE Request \/ AcquireBrowser \/ Open \/ Stopped \/ Continue \/ Dismiss \/ Allow \/ Login
             \/ AuthError \/ NoTurnstile \/ TimesOut \/ Join \/ LogFailure \/ Return \/ PollEnds
    BY <1>3 DEF Request, AcquireBrowser, Open, Stopped, Continue, Dismiss, Allow, Login, AuthError,
       NoTurnstile, TimesOut, Abandons, Join, LogFailure, Return, PollEnds, Elsewhere, GateNext
  <1>4. CASE Clock
    BY <1>4 DEF Clock, GateNext
  <1>5. ASSUME NEW m \in Minters, Gate(m) \/ OthersMint(m) PROVE GateNext
    BY <1>5 DEF Gate, OthersMint, GateNext
  <1>6. ASSUME NEW c \in Callers, Publishing(c) PROVE GateNext
    BY <1>6 DEF Publishing, GateNext
  <1>7. CASE Finished \/ UNCHANGED vars
    BY <1>7 DEF Finished, vars, gateVars, GateNext
  <1>8. CASE Mint
    BY <1>1, <1>2, <1>3, <1>8 DEF Mint
  <1>9. CASE \E m \in Minters : Gate(m) \/ OthersMint(m)
    BY <1>5, <1>9
  <1>10. CASE \E c \in Callers : Publishing(c)
    BY <1>6, <1>10
  <1> QED
    BY <1>3, <1>4, <1>7, <1>8, <1>9, <1>10 DEF Next

LEMMA GateKeeps == GatePart /\ GateNext => GatePart'
  <1> SUFFICES ASSUME GatePart, GateNext PROVE GatePart'
    OBVIOUS
  <1>1. ASSUME NEW m \in Minters, GateStep(m) PROVE GatePart'
    <2>1. MintersOK /\ GatesOK /\ GateInv /\ TurnInv /\ cut \in [Gates -> BOOLEAN]
      BY DEF GatePart, GateInv
    <2>2. MintersOK' /\ TurnInv'
      BY <1>1, <2>1, MintersStep
    <2>3. GatesOK' /\ HeldInv' /\ MarkInv' /\ cut' \in [Gates -> BOOLEAN]
      BY <1>1, <2>1, GatesStep
    <2> QED
      BY <2>2, <2>3 DEF GatePart, GateInv
  <1>2. CASE Tick
    BY <1>2, TickKeeps DEF GatePart
  <1>3. ASSUME NEW m \in Minters, Begin(m),
               UNCHANGED <<gate, timer, turn, slow, granted, lock, mark, quiet, owed, cut>>
        PROVE  GatePart'
    <2>1. MintersOK' /\ TurnInv'
      BY <1>3 DEF GatePart, GateInv, MintersOK, TurnInv, Begin, To
    <2>2. GatesOK' /\ MarkInv' /\ cut' \in [Gates -> BOOLEAN]
      BY <1>3 DEF GatePart, GateInv, GatesOK, MarkInv
    <2>3. HeldInv'
      BY <1>3 DEF GatePart, GateInv, HeldInv, MintersOK, Begin, To
    <2> QED
      BY <2>1, <2>2, <2>3 DEF GatePart, GateInv
  <1>4. CASE UNCHANGED gateVars
    BY <1>4 DEF gateVars, GatePart, MintersOK, GatesOK, GateInv, HeldInv, MarkInv, TurnInv
  <1> QED
    BY <1>1, <1>2, <1>3, <1>4 DEF GateNext

(* A lock that is taken is taken by a mint that is inside this very gate.    *)
Holds(g) == /\ lock[g] \in Minters
            /\ place[lock[g]] = "held" /\ gate[lock[g]] = g

HolderInv == \A g \in Gates : lock[g] # None => Holds(g)

LEMMA HolderKeeps == GatePart /\ HolderInv /\ GateNext => HolderInv'
  <1> SUFFICES ASSUME GatePart, HolderInv, GateNext, NEW g \in Gates, lock'[g] # None
               PROVE  Holds(g)'
    BY DEF HolderInv
  <1>0. MintersOK /\ GatesOK
    BY DEF GatePart
  <1>1. ASSUME NEW m \in Minters, GateStep(m) PROVE Holds(g)'
    <2>1. CASE Take(m)
      <3>1. /\ lock' = [lock EXCEPT ![gate[m]] = m] /\ place' = [place EXCEPT ![m] = "held"]
            /\ gate' = gate /\ place[m] # "held"
        BY <2>1 DEF Take, To, Awake
      <3> QED
        BY <1>0, <3>1 DEF HolderInv, Holds, MintersOK, GatesOK
    <2>2. CASE Breaks(m) \/ CodeAnswered(m) \/ TokenAnswered(m)
      <3>1. place[m] = "held" /\ lock' = [lock EXCEPT ![gate[m]] = None]
        BY <2>2 DEF Breaks, CodeAnswered, TokenAnswered, Answered, Awake, Free
      <3>2. \A o \in Minters \ {m} : place'[o] = place[o] /\ gate'[o] = gate[o]
        BY <1>0, <2>2 DEF Breaks, CodeAnswered, TokenAnswered, Again, Ends, Leaves, To, MintersOK
      <3>3. g # gate[m] /\ lock'[g] = lock[g] /\ Holds(g)
        BY <1>0, <3>1 DEF HolderInv, MintersOK, GatesOK
      <3> QED
        BY <3>2, <3>3 DEF Holds
    <2>3. CASE Back(m) \/ Verify(m)
      <3>1. place[m] # "held" /\ lock' = lock
        BY <2>3 DEF Back, Verify
      <3>2. \A o \in Minters \ {m} : place'[o] = place[o] /\ gate'[o] = gate[o]
        BY <1>0, <2>3 DEF Back, Verify, Again, Ends, To, MintersOK
      <3> QED
        BY <3>1, <3>2 DEF HolderInv, Holds
    <2> QED
      BY <1>1, <2>1, <2>2, <2>3 DEF GateStep
  <1>2. CASE Tick \/ UNCHANGED gateVars
    BY <1>2 DEF Tick, gateVars, HolderInv, Holds
  <1>3. ASSUME NEW m \in Minters, Begin(m), UNCHANGED <<gate, lock>> PROVE Holds(g)'
    BY <1>0, <1>3 DEF Begin, To, HolderInv, Holds, MintersOK
  <1> QED
    BY <1>1, <1>2, <1>3 DEF GateNext

(* Who sends has slept, so the mark is over, and with it the interval and    *)
(* any back-off that was not replaced.                                       *)
LEMMA GatePaced == GatePart /\ GateNext => Paced
  <1> SUFFICES ASSUME GatePart, GateNext, NEW m \in Minters, Sends(m)
               PROVE  /\ quiet[gate[m]] = Interval
                      /\ owed[gate[m]] > 0 => cut[gate[m]]
    BY DEF Paced
  <1>1. place[m] = "held" /\ place'[m] # "held"
    BY DEF Sends
  <1>2. timer[m] = 0
    <2>1. ASSUME NEW o \in Minters, GateStep(o) PROVE timer[m] = 0
      <3>1. o # m => place'[m] = place[m]
        BY <2>1 DEF GateStep, Take, Breaks, CodeAnswered, TokenAnswered, Back, Verify, Again, Ends,
           Leaves, To, GatePart, MintersOK
      <3>2. o = m
        BY <1>1, <3>1
      <3> QED
        BY <1>1, <2>1, <3>2 DEF GateStep, Take, Breaks, CodeAnswered, TokenAnswered, Answered, Back,
           Verify, Awake
    <2>2. ASSUME NEW o \in Minters, Begin(o) PROVE FALSE
      BY <1>1, <2>2 DEF Begin, To, GatePart, MintersOK
    <2>3. CASE Tick \/ UNCHANGED gateVars
      BY <1>1, <2>3 DEF Tick, gateVars
    <2> QED
      BY <2>1, <2>2, <2>3 DEF GateNext
  <1>3. gate[m] \in Gates /\ mark[gate[m]] = 0
    BY <1>1, <1>2 DEF GatePart, MintersOK, GatesOK, GateInv, HeldInv
  <1> QED
    BY <1>3 DEF GatePart, GateInv, MarkInv

(* The steps of the flow that touch neither the gates nor the file.          *)
LEMMA BrowserStep ==
    ASSUME FlowPart, Elsewhere,
           \/ Request \/ AcquireBrowser \/ Open \/ Stopped \/ Continue \/ Dismiss \/ Allow \/ Login
           \/ Abandons \/ Join \/ LogFailure \/ Return \/ PollEnds
    PROVE  FlowPart'
  <1> USE DEF FlowPart, Goes, Fails, Leads
  <1>0. UNCHANGED <<place, file, called, published, always, refused, async>>
    BY DEF Elsewhere, gateVars, pubVars
  <1>1. FlowDataOK'
    <2>1. CASE Request \/ Login
      BY <2>1 DEF FlowDataOK, FlowInv, WayInv, Request, Login
    <2>2. CASE AcquireBrowser \/ Open \/ Abandons \/ Join \/ PollEnds
      BY <2>2 DEF FlowDataOK, AcquireBrowser, StartsChromium, Open, Abandons, Join, PollEnds
    <2>3. CASE Continue \/ Dismiss \/ Allow
      <3>1. UNCHANGED <<flow, asked, logins, poll>> /\ shows' \in Pages
        BY <2>3 DEF Continue, Dismiss, Allow, Pages
      <3> QED
        BY <3>1 DEF FlowDataOK
    <2>4. CASE Stopped \/ LogFailure \/ Return
      BY <2>4 DEF FlowDataOK, Stopped, LogFailure, Return, browserVars
    <2> QED
      BY <2>1, <2>2, <2>3, <2>4
  <1>2. Flags'
    <2>0. PubTypeOK'
      BY <1>0 DEF Flags, PubTypeOK
    <2>1. CASE AcquireBrowser \/ Open \/ Abandons \/ Join
      <3>1. UNCHANGED <<allowed, good, logged, threw, raised>>
        BY <2>1 DEF AcquireBrowser, Open, Abandons, Join, endVars
      <3>2. browser' = TRUE \/ browser' = FALSE \/ UNCHANGED browser
        BY <2>1 DEF AcquireBrowser, StartsChromium, Open, Abandons, Join
      <3>3. abandoned' = TRUE \/ UNCHANGED abandoned
        BY <2>1 DEF AcquireBrowser, Open, Abandons, Join, endVars
      <3> QED
        BY <1>0, <2>0, <3>1, <3>2, <3>3 DEF Flags, FlowFlagsOK
    <2>2. CASE Request \/ Stopped \/ Login
      <3>1. /\ UNCHANGED <<browser, good, logged, threw, abandoned, raised>>
            /\ allowed' \in BOOLEAN
        BY <2>2 DEF Flags, FlowFlagsOK, Request, Stopped, Login, browserVars, endVars
      <3> QED
        BY <1>0, <3>1 DEF Flags, PubTypeOK, FlowFlagsOK
    <2>4. CASE Continue \/ Dismiss \/ Allow
      <3>1. /\ UNCHANGED <<browser, good, logged, threw, abandoned, raised>>
            /\ allowed' \in BOOLEAN
        BY <2>4 DEF Flags, FlowFlagsOK, Continue, Dismiss, Allow, browserVars, endVars
      <3> QED
        BY <1>0, <3>1 DEF Flags, PubTypeOK, FlowFlagsOK
    <2>3. CASE LogFailure \/ Return \/ PollEnds
      <3>1. /\ UNCHANGED <<browser, allowed, good, abandoned, raised>>
            /\ logged' = TRUE \/ UNCHANGED logged
            /\ threw' \in BOOLEAN \/ UNCHANGED threw
        BY <2>3 DEF LogFailure, Return, PollEnds, browserVars, endVars
      <3> QED
        BY <1>0, <2>0, <3>1 DEF Flags, FlowFlagsOK
    <2> QED
      BY <2>1, <2>2, <2>3, <2>4
  <1>3. WayInv'
    BY <1>0 DEF FlowInv, WayInv, Request, AcquireBrowser, StartsChromium, Open, Stopped, Continue,
       Dismiss, Allow, Login, Abandons, Join, LogFailure, Return, PollEnds, browserVars, Confirming
  <1>4. PollInv'
    BY <1>0 DEF FlowInv, WayInv, PollInv, Request, AcquireBrowser, StartsChromium, Open, Stopped,
       Continue, Dismiss, Allow, Login, Abandons, Join, LogFailure, Return, PollEnds, browserVars,
       endVars, Confirming
  <1>5. KeptInv'
    BY <1>0 DEF FlowInv, KeptInv, Request, AcquireBrowser, StartsChromium, Open, Stopped, Continue,
       Dismiss, Allow, Login, Abandons, Join, LogFailure, Return, PollEnds, browserVars, endVars,
       Confirming
  <1>6. BrowserClosed' /\ CopiedAsFallback'
    BY <1>0 DEF FlowInv, BrowserClosed, CopiedAsFallback, Request, AcquireBrowser, StartsChromium, Open,
       Stopped, Continue, Dismiss, Allow, Login, Abandons, Join, LogFailure, Return, PollEnds,
       browserVars, endVars, Confirming
  <1> QED
    BY <1>1, <1>2, <1>3, <1>4, <1>5, <1>6 DEF FlowInv

(* The steps that write the auth file, or fail to.                           *)
LEMMA FileStep ==
    ASSUME FlowPart, ProtocolEnds \/ WriteFile
    PROVE  FlowPart'
  <1> USE DEF FlowPart, Goes
  <1>0. UNCHANGED <<place, called, published, always, refused, async, browserVars>>
    BY DEF ProtocolEnds, WriteFile, gateVars
  <1>1. FlowDataOK'
    BY <1>0 DEF FlowDataOK, ProtocolEnds, WriteFile, browserVars
  <1>2. Flags'
    <2>1. UNCHANGED <<browser, allowed, logged, abandoned>>
      BY DEF ProtocolEnds, WriteFile, browserVars
    <2>2. /\ file' \in BOOLEAN /\ good' \in BOOLEAN
          /\ threw' = TRUE \/ UNCHANGED threw
          /\ raised' \in BOOLEAN
      <3>1. CASE ProtocolEnds
        BY <3>1 DEF Flags, PubTypeOK, FlowFlagsOK, ProtocolEnds
      <3>2. CASE WriteFile
        BY <3>2 DEF Flags, PubTypeOK, FlowFlagsOK, WriteFile
      <3> QED
        BY <3>1, <3>2
    <2>3. PubTypeOK'
      BY <1>0, <2>2 DEF Flags, PubTypeOK
    <2> QED
      BY <1>0, <2>1, <2>2, <2>3 DEF Flags, FlowFlagsOK
  <1>3. WayInv'
    BY <1>0 DEF FlowInv, WayInv, ProtocolEnds, WriteFile, browserVars
  <1>4. PollInv'
    BY <1>0 DEF FlowInv, WayInv, PollInv, ProtocolEnds, WriteFile, browserVars
  <1>5. KeptInv'
    <2>1. CASE ProtocolEnds
      <3>1. \/ place[me] # "minted" /\ flow' = "request" /\ UNCHANGED <<file, good>>
            \/ /\ flow' = (IF file' THEN "publish" ELSE "request")
               /\ (good' <=> file') /\ (raised' <=> ~file')
        BY <2>1 DEF ProtocolEnds
      <3> QED
        BY <1>0, <3>1 DEF FlowInv, KeptInv
    <2>2. CASE WriteFile
      BY <1>0, <2>2 DEF FlowInv, KeptInv, WriteFile
    <2> QED
      BY <2>1, <2>2
  <1>6. BrowserClosed' /\ CopiedAsFallback'
    <2>1. BrowserClosed'
      BY <1>0 DEF FlowInv, BrowserClosed, ProtocolEnds, WriteFile, browserVars
    <2>2. file => file'
      BY DEF FlowInv, WayInv, ProtocolEnds, WriteFile
    <2>3. CopiedAsFallback'
      BY <1>0, <2>2 DEF FlowInv, CopiedAsFallback
    <2> QED
      BY <2>1, <2>3
  <1> QED
    BY <1>1, <1>2, <1>3, <1>4, <1>5, <1>6 DEF FlowInv

(* A caller publishes what is written.                                       *)
LEMMA PublishStep ==
    ASSUME FlowPart, NEW c \in Callers, Publishing(c)
    PROVE  FlowPart'
  <1> USE DEF FlowPart
  <1>0. UNCHANGED <<place, always, file, async, flow, browserVars, endVars>>
    BY DEF Publishing, Publish, gateVars
  <1>1. FlowDataOK' /\ WayInv' /\ PollInv' /\ KeptInv' /\ BrowserClosed'
    BY <1>0 DEF FlowDataOK, FlowInv, WayInv, PollInv, KeptInv, BrowserClosed, browserVars, endVars
  <1>2. Flags' /\ CopiedAsFallback'
    <2>1. CASE file
      <3>1. PICK ok \in BOOLEAN, reached \in SUBSET Targets :
               /\ "hot" \in reached => always \/ ~ok
               /\ published' = published \union reached /\ refused' = (refused \/ ~ok)
               /\ called' = called \union {c}
        BY <2>1 DEF Publishing, Publish, Copies
      <3>2. Flags'
        BY <1>0, <3>1 DEF Flags, PubTypeOK, FlowFlagsOK, browserVars, endVars
      <3>3. CopiedAsFallback'
        BY <1>0, <2>1, <3>1 DEF FlowInv, CopiedAsFallback
      <3> QED
        BY <3>2, <3>3
    <2>2. CASE ~file
      <3>1. UNCHANGED <<published, refused>> /\ called' = called \union {c}
        BY <2>2 DEF Publishing, Publish
      <3> QED
        BY <1>0, <3>1 DEF Flags, PubTypeOK, FlowFlagsOK, FlowInv, CopiedAsFallback, browserVars, endVars
    <2> QED
      BY <2>1, <2>2
  <1> QED
    BY <1>1, <1>2 DEF FlowInv

(* At the gates: this account's mint moves only while the protocol runs.     *)
LEMMA GatesLeave ==
    ASSUME GatePart, FlowPart, Unmoved, flow # "protocol" => place'[me] = place[me]
    PROVE  FlowPart'
  <1>1. UNCHANGED <<file, called, published, always, refused, async, flow, browserVars, endVars>>
    BY DEF Unmoved, pubVars
  <1>2. FlowDataOK' /\ PollInv' /\ BrowserClosed' /\ CopiedAsFallback'
    BY <1>1 DEF FlowPart, FlowDataOK, FlowInv, PollInv, BrowserClosed, CopiedAsFallback, browserVars,
       endVars
  <1>3. Flags'
    BY <1>1 DEF FlowPart, Flags, PubTypeOK, FlowFlagsOK, browserVars, endVars
  <1>4. WayInv' /\ KeptInv'
    BY <1>1 DEF FlowPart, FlowInv, WayInv, KeptInv, browserVars, endVars
  <1> QED
    BY <1>2, <1>3, <1>4 DEF FlowPart, FlowInv

LEMMA FlowKeeps == IInv /\ [Next]_vars => FlowPart'
  <1> SUFFICES ASSUME GatePart, FlowPart, [Next]_vars PROVE FlowPart'
    BY DEF IInv
  <1>1. CASE Export
    <2>1. /\ flow = "off" /\ flow' \in {"protocol", "request", "bundle"}
          /\ flow' # "protocol" => place' = place
          /\ flow' = "bundle" => threw' = TRUE
          /\ threw' = TRUE \/ UNCHANGED threw
          /\ UNCHANGED <<file, called, published, always, refused, async, browserVars, good, logged,
                         abandoned, raised>>
      BY <1>1 DEF Export, Goes, pubVars
    <2>2. FlowDataOK' /\ WayInv' /\ PollInv' /\ KeptInv' /\ BrowserClosed' /\ CopiedAsFallback'
      BY <2>1 DEF FlowPart, FlowDataOK, FlowInv, WayInv, PollInv, KeptInv, BrowserClosed,
         CopiedAsFallback, browserVars, endVars
    <2>3. Flags'
      BY <2>1 DEF FlowPart, Flags, PubTypeOK, FlowFlagsOK, browserVars, endVars
    <2> QED
      BY <2>2, <2>3 DEF FlowPart, FlowInv
  <1>2. CASE ProtocolEnds \/ WriteFile
    BY <1>2, FileStep
  <1>3. CASE Request \/ AcquireBrowser \/ Open \/ Stopped \/ Continue \/ Dismiss \/ Allow \/ Login
             \/ AuthError \/ NoTurnstile \/ TimesOut \/ Join \/ LogFailure \/ Return \/ PollEnds
    <2>1. Elsewhere
      BY <1>3 DEF Request, AcquireBrowser, Open, Stopped, Continue, Dismiss, Allow, Login, AuthError,
         NoTurnstile, TimesOut, Abandons, Join, LogFailure, Return, PollEnds
    <2>2. Request \/ AcquireBrowser \/ Open \/ Stopped \/ Continue \/ Dismiss \/ Allow \/ Login
          \/ Abandons \/ Join \/ LogFailure \/ Return \/ PollEnds
      BY <1>3 DEF AuthError, NoTurnstile, TimesOut
    <2> QED
      BY <2>1, <2>2, BrowserStep
  <1>4. CASE Clock
    BY <1>4, GatesLeave DEF Clock, Tick
  <1>5. ASSUME NEW m \in Minters, Gate(m) PROVE FlowPart'
    <2>1. GateStep(m) /\ Unmoved
      BY <1>5 DEF Gate
    <2>2. place[m] \in {"wants", "held", "refused", "verify"}
      BY <2>1 DEF GateStep, Take, Breaks, CodeAnswered, TokenAnswered, Answered, Back, Verify, Awake
    <2>3. m # me => place'[me] = place[me]
      BY <2>1 DEF GateStep, Take, Breaks, CodeAnswered, TokenAnswered, Back, Verify, Again, Ends,
         Leaves, To, GatePart, MintersOK
    <2>4. flow # "protocol" => place[me] \in {"off", "minted", "failed"}
      BY DEF FlowPart, FlowInv, WayInv
    <2>5. flow # "protocol" => place'[me] = place[me]
      BY <2>2, <2>3, <2>4
    <2> QED
      BY <2>1, <2>5, GatesLeave
  <1>6. ASSUME NEW m \in Minters, OthersMint(m) PROVE FlowPart'
    <2>1. flow = "protocol" /\ Unmoved
      BY <1>6 DEF OthersMint
    <2> QED
      BY <2>1, GatesLeave
  <1>7. ASSUME NEW c \in Callers, Publishing(c) PROVE FlowPart'
    BY <1>7, PublishStep
  <1>8. CASE Finished \/ UNCHANGED vars
    <2>1. Unmoved /\ place' = place
      BY <1>8 DEF Finished, vars, Unmoved, gateVars
    <2> QED
      BY <2>1, GatesLeave
  <1>9. CASE Mint
    BY <1>1, <1>2, <1>3, <1>9 DEF Mint
  <1>10. CASE \E m \in Minters : Gate(m) \/ OthersMint(m)
    BY <1>5, <1>6, <1>10
  <1>11. CASE \E c \in Callers : Publishing(c)
    BY <1>7, <1>11
  <1> QED
    BY <1>3, <1>4, <1>8, <1>9, <1>10, <1>11 DEF Next

LEMMA Invariance == Spec => []IInv
  <1>1. IInv /\ [Next]_vars => IInv'
    BY FlowIsGateNext, GateKeeps, FlowKeeps DEF IInv
  <1> QED
    BY InitInvariant, <1>1, PTL DEF Spec

(* Whatever the mints and their helpers do, in every state a browser is open *)
(* only for the confirmation, a poll that is left running and tokens without *)
(* a file are explained, and so is a copy where an upload was asked for.     *)
THEOREM MintIsSettled == Spec => []MintSettled
  <1>1. IInv => MintSettled
    <2> SUFFICES ASSUME IInv PROVE MintSettled
      OBVIOUS
    <2>1. GateTypeOK /\ PubTypeOK /\ FlowTypeOK /\ BrowserClosed /\ CopiedAsFallback
      BY DEF IInv, GatePart, FlowPart, Flags, FlowInv, GateTypeOK, FlowTypeOK
    <2>2. PollLeftExplained
      BY DEF IInv, FlowPart, FlowInv, PollInv, PollLeftExplained
    <2>3. TokensKept
      BY DEF IInv, FlowPart, FlowInv, PollInv, KeptInv, TokensKept
    <2> QED
      BY <2>1, <2>2, <2>3 DEF MintSettled
  <1> QED
    BY <1>1, Invariance, PTL

(* The gates are never left locked, whether a request is answered, refused   *)
(* or raises: a lock is free or with a mint that is inside the gate and only *)
(* has to sleep till its mark, so the mints behind it get their turn.        *)
THEOREM GateIsWithASender == Spec => [](\A g \in Gates : lock[g] = None \/ Holds(g))
  <1>1. Init => HolderInv
    BY DEF Init, GateInit, HolderInv
  <1>2. IInv /\ HolderInv /\ [Next]_vars => HolderInv'
    BY HolderKeeps, FlowIsGateNext DEF IInv
  <1>3. HolderInv => \A g \in Gates : lock[g] = None \/ Holds(g)
    BY DEF HolderInv
  <1> QED
    BY <1>1, <1>2, <1>3, Invariance, PTL DEF Spec

(* Requests of all threads keep the interval and the back-offs, unless one   *)
(* thread's back-off has been replaced by a shorter one of another's.        *)
THEOREM RequestsArePaced == Spec => PacedRequests
  <1>1. IInv /\ [Next]_vars => [Paced]_gateVars
    BY FlowIsGateNext, GatePaced DEF IInv
  <1> QED
    BY <1>1, Invariance, PTL DEF Spec, PacedRequests
-----------------------------------------------------------------------------
(* How far a mint is from the end of its try, or of its poll.                *)
StepsAhead(m) == CASE place[m] = "wants" -> 3
                   [] place[m] = "held"  -> 2
                   [] OTHER              -> 1

Settled(m) == place[m] \in {"minted", "failed"}

MovesOn(m) == \/ ~Settled(m) /\ Settled(m)'
              \/ gate[m] = "code" /\ gate'[m] = "token"
              \/ gate'[m] = gate[m] /\ turn'[m] > turn[m]
              \/ gate'[m] = gate[m] /\ turn'[m] = turn[m] /\ StepsAhead(m)' < StepsAhead(m)

LEMMA GateMovesOn ==
    ASSUME MintersOK, TurnInv, NEW m \in Minters, GateStep(m) PROVE MovesOn(m)
  <1> USE DEF MovesOn, Settled, StepsAhead, MintersOK, To, Awake
  <1>0. turn[m] \in Nat
    BY LargestIsNat
  <1>1. ASSUME NEW rest, NEW slows, Again(m, rest, slows), ~Settled(m) PROVE MovesOn(m)
    BY <1>0, <1>1 DEF Again, Ends
  <1>2. ASSUME NEW p \in {"minted", "failed"}, Ends(m, p), ~Settled(m) PROVE MovesOn(m)
    BY <1>2 DEF Ends
  <1>3. CASE Take(m)
    BY <1>0, <1>3 DEF Take
  <1>4. CASE Breaks(m)
    BY <1>1, <1>2, <1>4 DEF Breaks
  <1>5. CASE CodeAnswered(m)
    BY <1>0, <1>2, <1>5 DEF CodeAnswered, Answered, Leaves
  <1>6. CASE TokenAnswered(m)
    BY <1>0, <1>1, <1>2, <1>6 DEF TokenAnswered, Answered, Leaves
  <1>7. CASE Back(m)
    BY <1>1, <1>7 DEF Back
  <1>8. CASE Verify(m)
    BY <1>2, <1>8 DEF Verify, TurnInv
  <1> QED
    BY <1>3, <1>4, <1>5, <1>6, <1>7, <1>8 DEF GateStep

(* Whatever x.ai answers, 429 and slow_down for ever included, a step of a   *)
(* mint ends it, takes it from the code to the tokens, counts one of its     *)
(* CodeTries tries or of its Polls, or brings the try nearer to its end.     *)
THEOREM EveryMintMovesOn ==
    Spec => [][\A m \in Minters : GateStep(m) => MovesOn(m)]_gateVars
  <1>1. IInv /\ [Next]_vars => [\A m \in Minters : GateStep(m) => MovesOn(m)]_gateVars
    BY GateMovesOn DEF IInv, GatePart, GateInv
  <1> QED
    BY <1>1, Invariance, PTL DEF Spec
=============================================================================
