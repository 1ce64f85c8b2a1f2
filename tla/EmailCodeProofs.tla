-------------------------- MODULE EmailCodeProofs --------------------------
(* For any number of mailboxes, accounts, codes and requests: what the       *)
(* shared counter makes a worker believe, that a mailbox made in time is the *)
(* one used, and when a second poll or a second code is started.             *)
EXTENDS EmailCode, TLAPS

USE EmailAssumption DEF EmailAssumption

Begins == {"restart", "reset", "capture", "account"}
Opens == {"open", "opened", "join"}
Submitted == {"submitted", "confirm", "sent", "unsure", "wait", "second", "type"}

(* The page asks for no code before the form is filled in; from a new        *)
(* browser on, what it shows and what on_request is to be told of are from   *)
(* requests for this mailbox.                                                *)
OwnRequests ==
    /\ place \in Begins \union Opens \union {"fill"} => ui = 0
    /\ place \notin {"restart", "reset", "done"} =>
           pending <= ui /\ (page \in {"sending", "otp"} => ui > 0)

(* The counter grows past seen_before without a request of the page only by  *)
(* another worker's.                                                         *)
Misled ==
    /\ place = "confirm" /\ ui = 0 /\ seen > before => foreign
    /\ MisledByOthersOnly

(* The mail thread's mailbox from its start to the join.                     *)
OwnerInv ==
    /\ place \in Begins => thread = "off"
    /\ place \in Begins \union Opens => owner = "none" /\ thread # "late"
    /\ place \in {"opened", "join"} => thread # "off"
    /\ place \in {"fill"} \union Submitted =>
           \/ thread = "made" /\ owner = "thread"
           \/ thread = "late" /\ owner = IF place = "fill" THEN "none" ELSE "page"

(* A page with the listener whose requests have all been told has been       *)
(* counted, unless the counter was set to 0 since.                           *)
Counted == ui > 0 /\ listens /\ pending = 0 /\ ~zeroed => seen > 0

Parts == OwnRequests /\ Misled /\ OwnerInv /\ Counted /\ SecondPollLate
IInv == TypeOK /\ Parts

LEMMA InitInvariant == Init => IInv
  <1> SUFFICES ASSUME Init PROVE IInv
    OBVIOUS
  <1>1. FlagsOK
    BY DEF Init, FlagsOK
  <1>2. DataOK
    BY DEF Init, DataOK, Young, Gone
  <1>3. Parts
    BY DEF Init, Parts, OwnRequests, Misled, MisledByOthersOnly, OwnerInv, Counted,
           SecondPollLate, Begins, Opens, Submitted
  <1> QED
    BY <1>1, <1>2, <1>3 DEF IInv, TypeOK

(* The mailbox a worker goes on with: its own, or a new one.                 *)
LEMMA NextTypes ==
    ASSUME DataOK, NextAccount \/ NextMailbox
    PROVE  /\ place' \in {"restart", "reset", "done"} /\ round' \in 1..Rounds /\ try' \in 1..Tries
           /\ thread' \in {"off", "running", "made", "failed", "late"}
           /\ owner' \in {"none", "thread", "page"}
           /\ poll' \in {"off", "polling", "code", "err"} /\ age' \in Young..Gone
           /\ ui' \in 0..MaxSends /\ proto' \in 0..1
  <1> USE DEF DataOK, NewMailbox, mailbox, Young, Gone
  <1>1. CASE NextAccount
    BY <1>1 DEF NextAccount
  <1>2. CASE NextMailbox /\ try < Tries /\ round < Rounds
    BY <1>2 DEF NextMailbox
  <1>3. CASE NextMailbox /\ ~(try < Tries /\ round < Rounds)
    BY <1>3 DEF NextMailbox, NextAccount
  <1> QED
    BY <1>1, <1>2, <1>3

(* A mailbox that is left has nothing to do with the next one.               *)
LEMMA NextParts ==
    ASSUME DataOK, Parts, NextAccount \/ NextMailbox,
           UNCHANGED <<seen, zeroed, listens, pending, foreign, before>>
    PROVE  Parts'
  <1> USE DEF DataOK, Parts, OwnRequests, Misled, MisledByOthersOnly, OwnerInv, Counted,
              SecondPollLate, Begins, Opens, Submitted
  <1>1. CASE UNCHANGED mailbox /\ place' = "done"
    BY <1>1 DEF mailbox
  <1>2. CASE NewMailbox /\ place' \in {"restart", "reset"}
    BY <1>2 DEF NewMailbox
  <1> QED
    BY <1>1, <1>2 DEF NextAccount, NextMailbox

LEMMA FlagsStep == FlagsOK /\ [Next]_vars => FlagsOK'
  <1> SUFFICES ASSUME FlagsOK, [Next]_vars PROVE FlagsOK'
    OBVIOUS
  <1> USE DEF FlagsOK, counter, pages, mailbox
  <1>1. CASE Worker
    BY <1>1, Zenon DEF Worker, Restart, SoftReset, Capture, StartMail, Open, Join, Fill, ReadBefore,
       Confirm, Prefetch, Wait, Second, Type
  <1>2. CASE Others
    BY <1>2 DEF Others, OthersCount, OthersForget, OthersCapture
  <1>3. CASE MailThread \/ Answer \/ Dispatch \/ Grow \/ Boost \/ PollEnds
    BY <1>3 DEF MailThread, Answer, Dispatch, Grow, Boost, PollEnds
  <1>4. CASE Finished \/ UNCHANGED vars
    BY <1>4 DEF Finished, vars
  <1> QED
    BY <1>1, <1>2, <1>3, <1>4 DEF Next

LEMMA DataStep == IInv /\ [Next]_vars => DataOK'
  <1> SUFFICES ASSUME DataOK, OwnRequests, [Next]_vars PROVE DataOK'
    BY DEF IInv, TypeOK, Parts
  <1> USE DEF DataOK, counter, pages, mailbox
  <1>1. CASE Restart \/ SoftReset \/ StartMail \/ Capture
    BY <1>1 DEF Restart, SoftReset, StartMail, Capture
  <1>2. CASE Open
    BY <1>2, NextTypes DEF Open
  <1>3. CASE Join
    BY <1>3, NextTypes DEF Join
  <1>4. CASE Fill
    BY <1>4, NextTypes DEF Fill, Sends, OwnRequests
  <1>5. CASE ReadBefore \/ Prefetch
    BY <1>5 DEF ReadBefore, Prefetch
  <1>6. CASE Confirm
    BY <1>6 DEF Confirm, Sends, OwnRequests
  <1>7. CASE Wait
    BY <1>7, NextTypes DEF Wait
  <1>8. CASE Second
    BY <1>8, NextTypes DEF Second, Sends, OwnRequests
  <1>9. CASE Type
    BY <1>9, NextTypes DEF Type
  <1>10. CASE Others
    BY <1>10 DEF Others, OthersCount, OthersForget, OthersCapture
  <1>11. CASE MailThread \/ Answer \/ Dispatch \/ Grow \/ Boost \/ PollEnds
    BY <1>11 DEF MailThread, Answer, Dispatch, Grow, Boost, MayBoost, PollEnds, Young, Gone
  <1>12. CASE Finished \/ UNCHANGED vars
    BY <1>12 DEF Finished, vars
  <1> QED
    BY <1>1, <1>2, <1>3, <1>4, <1>5, <1>6, <1>7, <1>8, <1>9, <1>10, <1>11, <1>12 DEF Next, Worker

(* The worker's own steps before the code.                                   *)
LEMMA BeginningKeeps ==
    IInv /\ (Restart \/ SoftReset \/ Capture \/ StartMail \/ Open \/ Join \/ Fill) => Parts'
  <1> SUFFICES ASSUME DataOK, Parts, Restart \/ SoftReset \/ Capture \/ StartMail \/ Open \/ Join \/ Fill
               PROVE  Parts'
    BY DEF IInv, TypeOK
  <1> USE DEF counter, pages, mailbox
  <1>1. CASE Open /\ ~NextAccount
    BY <1>1 DEF Open, DataOK, Parts, OwnRequests, Misled, MisledByOthersOnly, OwnerInv, Counted,
                SecondPollLate, Begins, Opens, Submitted
  <1>2. CASE (Open \/ Join \/ Fill) /\ NextAccount
    BY <1>2, NextParts, NextTypes DEF Open, Join, Fill
  <1>3. CASE Join /\ ~NextAccount
    BY <1>3 DEF Join, DataOK, Parts, OwnRequests, Misled, MisledByOthersOnly, OwnerInv, Counted,
                SecondPollLate, Begins, Opens, Submitted
  <1>4. CASE Fill /\ ~NextAccount
    BY <1>4 DEF Fill, Sends, DataOK, Parts, OwnRequests, Misled, MisledByOthersOnly, OwnerInv, Counted,
                SecondPollLate, Begins, Opens, Submitted
  <1>5. CASE Restart \/ SoftReset \/ StartMail
    BY <1>5 DEF Restart, SoftReset, StartMail, DataOK, Parts, OwnRequests, Misled, MisledByOthersOnly,
                OwnerInv, Counted, SecondPollLate, Begins, Opens, Submitted
  <1>6. CASE Capture
    BY <1>6 DEF Capture, DataOK, Parts, OwnRequests, Misled, MisledByOthersOnly,
                OwnerInv, Counted, SecondPollLate, Begins, Opens, Submitted
  <1> QED
    BY <1>1, <1>2, <1>3, <1>4, <1>5, <1>6
(* The worker's own steps from the submitted form on.                        *)
LEMMA EndingKeeps ==
    IInv /\ (ReadBefore \/ Confirm \/ Prefetch \/ Wait \/ Second \/ Type) => Parts'
  <1> SUFFICES ASSUME DataOK, Parts, ReadBefore \/ Confirm \/ Prefetch \/ Wait \/ Second \/ Type
               PROVE  Parts'
    BY DEF IInv, TypeOK
  <1> USE DEF counter, pages, mailbox
  <1>1. CASE ReadBefore
    BY <1>1 DEF ReadBefore, DataOK, Parts, OwnRequests, Misled, MisledByOthersOnly,
                OwnerInv, Counted, SecondPollLate, Begins, Opens, Submitted
  <1>2. CASE Confirm
    BY <1>2 DEF Confirm, Confirmed, Sends, DataOK, Parts, OwnRequests, Misled, MisledByOthersOnly,
                OwnerInv, Counted, SecondPollLate, Begins, Opens, Submitted
  <1>3. CASE Prefetch
    BY <1>3 DEF Prefetch, DataOK, Parts, OwnRequests, Misled, MisledByOthersOnly,
                OwnerInv, Counted, SecondPollLate, Begins, Opens, Submitted
  <1>4. CASE (Wait \/ Second \/ Type) /\ (NextAccount \/ NextMailbox)
    BY <1>4, NextParts, NextTypes DEF Wait, Second, Type
  <1>5. CASE Wait /\ ~NextMailbox
    BY <1>5 DEF Wait, Patience, Gone, DataOK, Parts, OwnRequests, Misled, MisledByOthersOnly,
                OwnerInv, Counted, SecondPollLate, Begins, Opens, Submitted
  <1>6. CASE Second /\ ~NextMailbox
    BY <1>6 DEF Second, Sends, DataOK, Parts, OwnRequests, Misled, MisledByOthersOnly,
                OwnerInv, Counted, SecondPollLate, Begins, Opens, Submitted
  <1>7. CASE Type /\ ~NextMailbox /\ ~NextAccount
    BY <1>7 DEF Type
  <1> QED
    BY <1>1, <1>2, <1>3, <1>4, <1>5, <1>6, <1>7

(* Everybody else's steps.                                                   *)
LEMMA EnvironmentKeeps ==
    IInv /\ (MailThread \/ Answer \/ Dispatch \/ Grow \/ Boost \/ PollEnds \/ Others) => Parts'
  <1> SUFFICES ASSUME DataOK, Parts,
                      MailThread \/ Answer \/ Dispatch \/ Grow \/ Boost \/ PollEnds \/ Others
               PROVE  Parts'
    BY DEF IInv, TypeOK
  <1> USE DEF counter, pages, mailbox
  <1>1. CASE MailThread
    BY <1>1 DEF MailThread, DataOK, Parts, OwnRequests, Misled, MisledByOthersOnly,
                OwnerInv, Counted, SecondPollLate, Begins, Opens, Submitted
  <1>2. CASE Answer
    BY <1>2 DEF Answer, DataOK, Parts, OwnRequests, Misled, MisledByOthersOnly,
                OwnerInv, Counted, SecondPollLate, Begins, Opens, Submitted
  <1>3. CASE Dispatch
    BY <1>3 DEF Dispatch, DataOK, Parts, OwnRequests, Misled, MisledByOthersOnly,
                OwnerInv, Counted, SecondPollLate, Begins, Opens, Submitted
  <1>4. CASE Grow \/ Boost \/ PollEnds
    BY <1>4 DEF Grow, Boost, PollEnds, Gone, DataOK, Parts, OwnRequests, Misled, MisledByOthersOnly,
                OwnerInv, Counted, SecondPollLate, Begins, Opens, Submitted
  <1>5. CASE OthersCount \/ OthersForget
    BY <1>5 DEF OthersCount, OthersForget, DataOK, Parts, OwnRequests, Misled, MisledByOthersOnly,
                OwnerInv, Counted, SecondPollLate, Begins, Opens, Submitted
  <1>6. CASE OthersCapture
    BY <1>6 DEF OthersCapture, DataOK, Parts, OwnRequests, Misled, MisledByOthersOnly,
                OwnerInv, Counted, SecondPollLate, Begins, Opens, Submitted
  <1> QED
    BY <1>1, <1>2, <1>3, <1>4, <1>5, <1>6 DEF Others

LEMMA NextKeeps == IInv /\ [Next]_vars => IInv'
  <1> SUFFICES ASSUME IInv, [Next]_vars PROVE IInv'
    OBVIOUS
  <1>1. FlagsOK' /\ DataOK'
    BY FlagsStep, DataStep DEF IInv, TypeOK
  <1>2. Parts'
    <2>1. CASE Finished \/ UNCHANGED vars
      BY <2>1 DEF Finished, vars, counter, pages, mailbox, IInv, DataOK, Parts, OwnRequests, Misled, MisledByOthersOnly,
                OwnerInv, Counted, SecondPollLate, Begins, Opens, Submitted
    <2> QED
      BY <2>1, BeginningKeeps, EndingKeeps, EnvironmentKeeps DEF Next, Worker
  <1> QED
    BY <1>1, <1>2 DEF IInv, TypeOK

LEMMA Invariance == Spec => []IInv
  <1> QED
    BY InitInvariant, NextKeeps, PTL DEF Spec

(* What the counter makes the worker believe is explained, its mailbox is    *)
(* the mail thread's if that was in time, and a second poll waits for the    *)
(* worker's patience to end.                                                 *)
THEOREM CountedAndPolledHolds == Spec => []CountedAndPolled
  <1>1. IInv => CountedAndPolled
    BY DEF IInv, Parts, Misled, OwnerInv, Begins, Opens, Submitted, CountedAndPolled, MailboxUsed
  <1> QED
    BY <1>1, Invariance, PTL

(* An early second code by the protocol follows only where the counter could *)
(* not know of the page's own request.                                       *)
THEOREM EarlyBoostIsExplained == Spec => EarlyBoostExplained
  <1> DEFINE Early == proto' > proto /\ ui > 0 /\ age = Mid
             Unknown == ~listens \/ pending > 0 \/ zeroed
  <1>1. IInv /\ [Next]_vars => [Early => Unknown]_vars
    <2> SUFFICES ASSUME DataOK, Parts, Next, Early PROVE Unknown
      BY DEF IInv, TypeOK
    <2>1. CASE Boost
      BY <2>1 DEF Boost, MayBoost, Mid, Late, DataOK, Parts, Counted
    <2>2. CASE UNCHANGED proto
      BY <2>2 DEF DataOK
    <2>3. CASE NewMailbox
      BY <2>3 DEF NewMailbox, DataOK
    <2>4. CASE Worker
      BY <2>2, <2>3, <2>4 DEF Worker, Restart, SoftReset, Capture, StartMail, Open, Join, Fill,
         ReadBefore, Confirm, Prefetch, Wait, Second, Type, NextAccount, NextMailbox, mailbox
    <2>5. CASE Others \/ Finished
      BY <2>2, <2>5 DEF Others, OthersCount, OthersForget, OthersCapture, Finished, vars, mailbox
    <2>6. CASE MailThread \/ Answer \/ Dispatch \/ Grow \/ PollEnds
      BY <2>2, <2>6 DEF MailThread, Answer, Dispatch, Grow, PollEnds, mailbox
    <2> QED
      BY <2>1, <2>4, <2>5, <2>6 DEF Next
  <1> QED
    BY <1>1, Invariance, PTL DEF Spec, EarlyBoostExplained
-----------------------------------------------------------------------------
(* How far the worker is from the end of its mailbox.                        *)
StepsAhead ==
    CASE place \in {"restart", "reset"} -> 15
      [] place = "capture"              -> 14
      [] place = "account"              -> 13
      [] place = "open"                 -> IF thread = "off" THEN 12 ELSE 11
      [] place = "opened"               -> 10
      [] place = "join"                 -> 9
      [] place = "fill"                 -> 8
      [] place = "submitted"            -> 7
      [] place = "confirm"              -> 6
      [] place \in {"sent", "unsure"}   -> 5
      [] place = "wait"                 -> 4
      [] place = "second"               -> 3
      [] place = "type"                 -> 2
      [] OTHER                          -> 1

MovesOn == \/ round' > round
           \/ round' = round /\ StepsAhead' < StepsAhead
           \/ UNCHANGED <<round, StepsAhead>> /\ ui' > ui

(* Whatever the mail provider and the other workers do, a step of the worker *)
(* moves it on to another mailbox or nearer to the end of this one, or has   *)
(* the page ask for a code once more, which it does finitely often.          *)
THEOREM EveryRoundMovesOn == Spec => [][Worker => MovesOn]_vars
  <1>1. IInv /\ [Next]_vars => [Worker => MovesOn]_vars
    <2> SUFFICES ASSUME DataOK, Worker PROVE MovesOn
      BY DEF IInv, TypeOK
    <2>0. round \in Nat /\ ui \in Nat
      BY DEF DataOK
    <2> USE DEF MovesOn, StepsAhead
    <2>1. ASSUME NextAccount \/ NextMailbox,
                 place \in {"open", "join", "fill", "wait", "second", "type"}
          PROVE  MovesOn
      BY <2>0, <2>1 DEF NextAccount, NextMailbox, mailbox
    <2>2. CASE Restart \/ SoftReset \/ Capture
      BY <2>0, <2>2 DEF Restart, SoftReset, Capture, mailbox
    <2>3. CASE StartMail \/ ReadBefore \/ Prefetch
      BY <2>0, <2>3 DEF StartMail, ReadBefore, Prefetch, mailbox
    <2>4. CASE Open
      BY <2>0, <2>1, <2>4 DEF Open, mailbox
    <2>5. CASE Join \/ Fill
      BY <2>0, <2>1, <2>5 DEF Join, Fill
    <2>6. CASE Confirm
      BY <2>0, <2>6 DEF Confirm, Sends
    <2>7. CASE Wait
      BY <2>0, <2>1, <2>7 DEF Wait, mailbox
    <2>8. CASE Second
      BY <2>0, <2>1, <2>8 DEF Second, Sends, mailbox
    <2>9. CASE Type
      BY <2>0, <2>1, <2>9 DEF Type
    <2> QED
      BY <2>2, <2>3, <2>4, <2>5, <2>6, <2>7, <2>8, <2>9 DEF Worker
  <1> QED
    BY <1>1, Invariance, PTL DEF Spec
=============================================================================
