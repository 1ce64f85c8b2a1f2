----------------------------- MODULE EmailCode -----------------------------
(* The first half of an account: mailbox, e-mail form and verification code, *)
(* for one worker with its page, its mail thread and the thread that polls   *)
(* for the code. The CreateEmail requests of all workers' pages are counted  *)
(* in one counter, _protocol_ctx: of the other workers the module has what   *)
(* they do to it, at any time. The settings are the defaults (hybrid mode,   *)
(* parallel_email_create, parallel_code_prefetch, cloak engine).             *)
EXTENDS Naturals

CONSTANTS Tries,         \* mailboxes per account (max_mail_retry, 3)
          Rounds,        \* model bound on the mailboxes of the worker
          MaxSends,      \* model bound on the codes the page asks for per mailbox
          MaxSeen        \* model bound on the counter

ASSUME EmailAssumption ==
    Tries \in Nat \ {0} /\ Rounds \in Nat \ {0} /\ MaxSends \in Nat \ {0} /\ MaxSeen \in Nat

VARIABLES others,      \* whether other workers run
          resends,     \* the provider's poll calls resend_callback (shiromail, cloudflare)
          seen,        \* create_email_seen
          installed,   \* capture_installed
          place,       \* where the worker is
          round, try,  \* its mailbox, and the mailbox's number in the account
          page,        \* its page
          listens,     \* whether on_request listens on its page
          pending,     \* requests of the page on_request is yet to be told of
          before,      \* seen_before
          thread,      \* the mail thread
          owner,       \* whose mailbox the account uses
          poll, age,   \* the poll of the mailbox, and how long it has run
          ui, proto,   \* codes the page and the protocol have asked for
          zeroed,      \* history: seen was set to 0 since the last own request was told
          foreign      \* history: another's request was counted since seen_before

counter == <<seen, installed, zeroed>>
pages == <<page, listens, pending>>
mailbox == <<round, try, thread, owner, poll, age, ui, proto>>
vars == <<others, resends, counter, place, pages, before, mailbox, foreign>>

(* How long a poll has run: below 8 s, 20 s, 180 s (its own deadline), 285 s *)
(* (the worker's patience), and more.                                        *)
Young == 1
Mid == 2
Late == 3
Over == 4
Gone == 5

FlagsOK ==
    /\ others \in BOOLEAN /\ resends \in BOOLEAN /\ installed \in BOOLEAN
    /\ listens \in BOOLEAN /\ zeroed \in BOOLEAN /\ foreign \in BOOLEAN

DataOK ==
    /\ seen \in 0..MaxSeen /\ before \in 0..MaxSeen
    /\ place \in {"restart", "reset", "capture", "account", "open", "opened", "join", "fill",
                  "submitted", "confirm", "sent", "unsure", "wait", "second", "type", "done"}
    /\ round \in 1..Rounds /\ try \in 1..Tries
    /\ page \in {"none", "form", "sending", "otp", "profile"}
    /\ pending \in 0..MaxSends
    /\ thread \in {"off", "running", "made", "failed", "late"}
    /\ owner \in {"none", "thread", "page"}
    /\ poll \in {"off", "polling", "code", "err"} /\ age \in Young..Gone
    /\ ui \in 0..MaxSends /\ proto \in 0..1

TypeOK == FlagsOK /\ DataOK

NewMailbox == /\ thread' = "off" /\ owner' = "none" /\ poll' = "off" /\ age' = Young
              /\ ui' = 0 /\ proto' = 0

Init ==
    /\ others \in BOOLEAN /\ resends \in BOOLEAN
    /\ seen = 0 /\ installed = FALSE /\ zeroed = FALSE
    /\ place = "restart" /\ round = 1 /\ try = 1
    /\ page = "none" /\ listens = FALSE /\ pending = 0
    /\ before = 0 /\ foreign = FALSE
    /\ thread = "off" /\ owner = "none" /\ poll = "off" /\ age = Young
    /\ ui = 0 /\ proto = 0
-----------------------------------------------------------------------------
(* Another worker's request is counted.                                      *)
OthersCount ==
    /\ others /\ seen < MaxSeen
    /\ seen' = seen + 1 /\ foreign' = TRUE
    /\ UNCHANGED <<others, resends, installed, zeroed, place, pages, before, mailbox>>

(* Another worker's soft reset, or its listener that cannot be registered.   *)
OthersForget ==
    /\ others /\ installed
    /\ installed' = FALSE
    /\ UNCHANGED <<others, resends, seen, zeroed, place, pages, before, mailbox, foreign>>

(* Another worker's page takes the listener.                                 *)
OthersCapture ==
    /\ others /\ ~installed
    /\ installed' = TRUE /\ seen' = 0 /\ zeroed' = TRUE
    /\ UNCHANGED <<others, resends, place, pages, before, mailbox, foreign>>

(* The browser is started, or closed and started again: a page without the   *)
(* listener, while capture_installed stays as it is.                         *)
Restart ==
    /\ place \in {"restart", "reset"} /\ place' = "capture"
    /\ page' = "none" /\ listens' = FALSE /\ pending' = 0
    /\ UNCHANGED <<others, resends, counter, before, mailbox, foreign>>

(* soft_reset_browser, between two accounts: a fresh page, and the capture   *)
(* of all workers is declared not installed.                                 *)
SoftReset ==
    /\ place = "reset" /\ place' = "capture"
    /\ page' = "none" /\ listens' = FALSE /\ pending' = 0
    /\ installed' = FALSE
    /\ UNCHANGED <<others, resends, seen, zeroed, before, mailbox, foreign>>

(* install_protocol_capture, with the new page, at an account's start and    *)
(* when the form is open: one page has the listener, whichever worker comes  *)
(* first; registering it may fail.                                           *)
Capture ==
    /\ \/ place = "capture" /\ place' = IF try = 1 THEN "account" ELSE "open"
       \/ place = "account" /\ place' = "open"
       \/ place = "opened" /\ place' = "join"
    /\ \/ installed /\ UNCHANGED <<counter, listens>>
       \/ /\ ~installed
          /\ seen' = 0 /\ zeroed' = TRUE
          /\ installed' \in BOOLEAN
          /\ listens' = (listens \/ installed')
    /\ UNCHANGED <<others, resends, page, pending, before, mailbox, foreign>>

(* The account is over, by success or failure: the next one, while the bound *)
(* on mailboxes allows. Threads it leaves behind touch nothing any more.     *)
NextAccount ==
    IF round < Rounds
    THEN round' = round + 1 /\ try' = 1 /\ place' = "reset" /\ NewMailbox
    ELSE place' = "done" /\ UNCHANGED mailbox

(* No code came, or it was refused: another mailbox in a new browser, while  *)
(* mail_try < max_mail_retry.                                                *)
NextMailbox ==
    IF try < Tries /\ round < Rounds
    THEN round' = round + 1 /\ try' = try + 1 /\ place' = "restart" /\ NewMailbox
    ELSE NextAccount

(* The mail thread is started and the form is opened by open_signup_page,    *)
(* which may restart the browser on the way, or give up.                     *)
StartMail ==
    /\ place = "open" /\ thread = "off"
    /\ thread' = "running"
    /\ UNCHANGED <<others, resends, counter, place, pages, before, round, try, owner, poll,
                   age, ui, proto, foreign>>

Open ==
    /\ place = "open" /\ thread # "off"
    /\ \/ /\ place' = "opened"
          /\ page' = "form" /\ pending' = 0
          /\ \E restarted \in BOOLEAN : listens' = (listens /\ ~restarted)
          /\ UNCHANGED mailbox
       \/ NextAccount /\ UNCHANGED pages
    /\ UNCHANGED <<others, resends, counter, before, foreign>>

MailThread ==
    /\ thread = "running"
    /\ thread' \in {"made", "failed"}
    /\ UNCHANGED <<others, resends, counter, place, pages, before, round, try, owner, poll,
                   age, ui, proto, foreign>>

(* Mutant: the mailbox of the thread is not taken.                           *)
JoinNot ==
    /\ place = "join"
    /\ \/ thread = "failed" /\ NextAccount
       \/ thread # "failed" /\ place' = "fill" /\ UNCHANGED mailbox
    /\ UNCHANGED <<others, resends, counter, pages, before, foreign>>

(* mail_thread.join(timeout=45): the thread's mailbox or its error, or       *)
(* nothing: what the thread makes later is heard by nobody.                  *)
Join ==
    /\ place = "join"
    /\ \/ thread = "failed" /\ NextAccount
       \/ /\ thread = "made" /\ place' = "fill" /\ owner' = "thread" /\ UNCHANGED thread
          /\ UNCHANGED <<round, try, poll, age, ui, proto>>
       \/ /\ thread = "running" /\ place' = "fill" /\ thread' = "late"
          /\ UNCHANGED <<round, try, owner, poll, age, ui, proto>>
    /\ UNCHANGED <<others, resends, counter, pages, before, foreign>>

(* The page asks x.ai for a code, by a click that counts.                    *)
Sends ==
    /\ ui < MaxSends /\ ui' = ui + 1
    /\ page' = IF page = "form" THEN "sending" ELSE page
    /\ pending' = IF listens THEN pending + 1 ELSE pending

(* fill_email_and_submit up to the click: without an address it creates a    *)
(* mailbox itself; the form may never come, and the click may be lost.       *)
Fill ==
    /\ place = "fill"
    /\ \/ /\ place' = "submitted"
          /\ owner' = IF owner = "none" THEN "page" ELSE owner
          /\ Sends \/ UNCHANGED <<ui, page, pending>>
          /\ UNCHANGED <<round, try, thread, poll, age, proto>>
       \/ NextAccount /\ UNCHANGED <<page, pending>>
    /\ UNCHANGED <<others, resends, counter, listens, before, foreign>>

(* x.ai answers the page's request: the code's field, or the form again.     *)
Answer ==
    /\ page = "sending"
    /\ page' \in {"otp", "form"}
    /\ UNCHANGED <<others, resends, counter, place, listens, pending, before, mailbox, foreign>>

(* on_request runs while the worker waits in a call of its page.             *)
Dispatch ==
    /\ pending > 0 /\ place \in {"submitted", "confirm", "second", "type"}
    /\ seen < MaxSeen
    /\ seen' = seen + 1 /\ pending' = pending - 1 /\ zeroed' = FALSE
    /\ UNCHANGED <<others, resends, installed, place, page, listens, before, mailbox, foreign>>

(* seen_before, read after the click.                                        *)
ReadBefore ==
    /\ place = "submitted" /\ place' = "confirm"
    /\ before' = seen /\ foreign' = FALSE
    /\ UNCHANGED <<others, resends, counter, pages, mailbox>>

(* Mutant: a counter that differs is taken for one that grew.                *)
ConfirmedOther == seen # before \/ (page = "otp" /\ pending = 0)

(* The counter grew, or the page shows the code's field (of its request      *)
(* on_request was then told before).                                         *)
Confirmed == seen > before \/ (page = "otp" /\ pending = 0)

(* Mutant: the page is asked until it has an answer.                         *)
ConfirmForever ==
    /\ place = "confirm"
    /\ \/ Confirmed /\ place' = "sent" /\ UNCHANGED <<page, pending, ui>>
       \/ ~Confirmed /\ UNCHANGED <<place, page, pending, ui>>
       \/ page = "form" /\ Sends /\ UNCHANGED place
    /\ UNCHANGED <<others, resends, counter, listens, before, round, try, thread, owner, poll,
                   age, proto, foreign>>

(* The loop after the click ends, confirmed or after 12 or 18 s; a form that *)
(* is still there is clicked again.                                          *)
Confirm ==
    /\ place = "confirm"
    /\ \/ Confirmed /\ place' = "sent" /\ UNCHANGED <<page, pending, ui>>
       \/ place' = "unsure" /\ UNCHANGED <<page, pending, ui>>
       \/ page = "form" /\ Sends /\ UNCHANGED place
    /\ UNCHANGED <<others, resends, counter, listens, before, round, try, thread, owner, poll,
                   age, proto, foreign>>

(* start_code_prefetch: a thread polls the mailbox.                          *)
Prefetch ==
    /\ place \in {"sent", "unsure"} /\ place' = "wait"
    /\ poll' = "polling"
    /\ UNCHANGED <<others, resends, counter, pages, before, round, try, thread, owner, age, ui,
                   proto, foreign>>

(* Time passes for the poll.                                                 *)
Grow ==
    /\ poll = "polling" /\ age < Gone
    /\ age' = age + 1
    /\ UNCHANGED <<others, resends, counter, place, pages, before, round, try, thread, owner,
                   poll, ui, proto, foreign>>

(* Mutant: the counter is not asked.                                         *)
MayBoostBlind == proto = 0 /\ age >= Mid

(* _maybe_proto_boost: once, after 8 s, and within 20 s only if the counter  *)
(* tells of no request.                                                      *)
MayBoost == proto = 0 /\ age >= Mid /\ (seen > 0 => age >= Late)

(* The poll's callback sends a code by the protocol, which may fail. The     *)
(* page's own resend, which it tries next, finds no page in this thread.     *)
Boost ==
    /\ resends /\ poll = "polling" /\ MayBoost
    /\ proto' = proto + 1
    /\ UNCHANGED <<others, resends, counter, place, pages, before, round, try, thread, owner,
                   poll, age, ui, foreign>>

(* get_oai_code: a code that was asked for may arrive; after 180 s it gives  *)
(* up, where a single round of requests may take it far past that.           *)
PollEnds ==
    /\ poll = "polling"
    /\ \/ ui + proto > 0 /\ poll' = "code"
       \/ age >= Over /\ poll' = "err"
    /\ UNCHANGED <<others, resends, counter, place, pages, before, round, try, thread, owner,
                   age, ui, proto, foreign>>

(* Mutant: the worker's patience ends with the poll's own deadline.          *)
PatienceShort == Over

(* wait_code_prefetch: 240 s and 45 s more.                                  *)
Patience == Gone

Wait ==
    /\ place = "wait"
    /\ \/ poll = "code" /\ place' = "type" /\ UNCHANGED mailbox
       \/ poll = "err" /\ NextMailbox
       \/ poll = "polling" /\ age >= Patience /\ place' = "second" /\ UNCHANGED mailbox
    /\ UNCHANGED <<others, resends, counter, pages, before, foreign>>

(* The worker polls the mailbox itself; here the callback presses Resend.    *)
Second ==
    /\ place = "second"
    /\ \/ /\ resends /\ page = "otp" /\ Sends
          /\ UNCHANGED <<place, round, try, thread, owner, poll, age, proto>>
       \/ ui + proto > 0 /\ place' = "type" /\ UNCHANGED <<mailbox, page, pending>>
       \/ NextMailbox /\ UNCHANGED <<page, pending>>
    /\ UNCHANGED <<others, resends, counter, listens, before, foreign>>

(* fill_code_and_submit: the code is typed and accepted, or nothing is seen  *)
(* in time and the account goes on; or it is refused or finds no field.      *)
Type ==
    /\ place = "type"
    /\ \/ /\ page = "otp" /\ page' \in {"otp", "profile"}
          /\ NextAccount
       \/ NextMailbox /\ UNCHANGED page
    /\ UNCHANGED <<others, resends, counter, listens, pending, before, foreign>>

Worker == \/ Restart \/ SoftReset \/ Capture \/ StartMail \/ Open \/ Join \/ Fill \/ ReadBefore
          \/ Confirm \/ Prefetch \/ Wait \/ Second \/ Type
Others == OthersCount \/ OthersForget \/ OthersCapture
Finished == place = "done" /\ UNCHANGED vars

Next == Worker \/ MailThread \/ Answer \/ Dispatch \/ Grow \/ Boost \/ PollEnds \/ Others \/ Finished

(* Every wait of the worker and of its poll has a deadline.                  *)
Spec == Init /\ [][Next]_vars /\ WF_vars(Worker) /\ WF_vars(Grow) /\ WF_vars(PollEnds)
-----------------------------------------------------------------------------
(* "浏览器已发过 CreateEmail 则再等一会儿，避免协议/UI 双码把 OTP 弄废" (if the browser *)
(* has sent CreateEmail wait a while, lest two codes spoil each other): a    *)
(* code is sent by the protocol within 20 s on top of the page's own only if *)
(* the counter does not know of the page's: the page has no listener, the    *)
(* request was not told yet, or another worker has zeroed the counter.       *)
EarlyBoostExplained ==
    [][proto' > proto /\ ui > 0 /\ age = Mid => ~listens \/ pending > 0 \/ zeroed]_vars

(* A worker that believes its form was sent, while its page has sent none    *)
(* for this mailbox, was misled by the request of another worker.            *)
MisledByOthersOnly == place = "sent" /\ ui = 0 => foreign

(* "禁止立刻再开第二路轮询" (a second poll must not be opened at once): the worker  *)
(* polls a mailbox that its thread polls too only when that thread has       *)
(* overrun its own deadline by the worker's patience.                        *)
SecondPollLate == place \in {"second", "type"} /\ poll = "polling" => age = Gone

(* Each mailbox an account's mail thread has made in time is the one that    *)
(* the page submits and the poll asks: it makes a second one only when the   *)
(* thread outlived the 45 s of the join.                                     *)
MailboxUsed ==
    place \in {"submitted", "confirm", "sent", "unsure", "wait", "second", "type"} =>
           owner = IF thread = "late" THEN "page" ELSE "thread"

(* Safety of the counter and of the two threads.                             *)
CountedAndPolled == TypeOK /\ MisledByOthersOnly /\ SecondPollLate /\ MailboxUsed

(* Whatever the mail provider, x.ai and the other workers do, the worker     *)
(* comes to the end of its accounts.                                         *)
RoundsEnd == <>(place = "done")
=============================================================================
