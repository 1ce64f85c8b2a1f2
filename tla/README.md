# Verification of CPA-GrokRegister in TLA+

This directory models the concurrent and stateful parts of the repository in
TLA+, checks them with TLC on small instances and proves the main invariants
with TLAPS for every value of the constants.

## 1. Inventory

| Component | Where | State | Operations | Interacts with |
|---|---|---|---|---|
| Concurrent run | `worker/grok_register_ttk.py` 5374-5640 | `task_queue`, `stats`, worker threads, per-thread browser, `_cpa_async_threads` | start workers, take a slot, register, retry, recycle the browser, join, wait for mints, sum up | everything below |
| Sequential run (`concurrent_count` = 1) | 5543-5609 | `i`, `retry_count_for_slot`, `stats` | the same on the main thread | browser, stop controller |
| Stop controller | 5140-5166, 5176-5200 | `stop_requested`, `_sigint_count`, `_lock` | SIGINT handler, `stop`, `should_stop` | main thread (handler runs on it), all workers |
| Account files | 1073-1264 | `accounts_all.txt`, `tokens.txt`, `mail_credentials.txt`, `full/*.json`, `_io_lock` | upsert line, append line, merge and rewrite JSON | workers, mint threads |
| Token pools | 600-770 | local JSON pool, remote pool | add a token (local RMW under `_io_lock`; remote add with whole-map fallback) | workers |
| Mailbox pool | 2426-2531 | `_mail_pool`, `_mail_pool_stop`, rate-limit mark | background refill, take or create, start, stop and drain | workers, mail provider |
| Mail domain cache | 2214-2267 | cached domain, time | resolve the preferred domain | mail provider |
| Registration pipeline | 5168-5340 | page, mailbox, profile | clean the session, open the page, e-mail and code, profile, sso, save, pools | all of the worker's parts |
| Verification-code prefetch | 4142-4431, 5210-5270 | mail thread, polling thread, their results | create a mailbox beside the page, poll ahead, wait, resend | worker and two helper threads |
| Protocol capture context | 145-152, 1346-1480 | `_protocol_ctx` shared by all workers | install listener, count events, reset | all workers |
| Mint flow | `cpa_export.py`, `cpa_xai/*` | device code, pacing marks, poll thread, result boxes | protocol mint, browser mint fallback, poll, write auth file, publish | mint threads, provider |
| Auth file writer | `cpa_xai/writer.py` | `auths/xai-*.json` | write temp, fsync, replace | mint threads |
| Publication | 935-1065 | remote auth store | API, hot-load copy, SFTP | mint threads, workers |
| Speed logger | 232-300 | last tick, last success | periodic and final line | `stats` |
| Control plane | `control/register_control.py` | unit and drop-in, config file, log cursor, `_lock` | start, stop, status, config patch, log stream | systemd, the worker, plugin |
| Service unit | `host/grok-register.service` | unit state | `Restart=always`, stop timeout | worker process |
| Plugin | `plugin/go/main.go` | base URL and token, HTTP client | proxy to the control plane | control plane |
| Browser engines | `cloak_browser.py`, page scripts | processes, profiles | launch, drive pages | workers |

### What makes each component correct

- Concurrent run: no slot lost, shared or counted twice; counters equal what
  happened; a worker registers with a browser in hand; nothing leaves the queue
  for good after a stop; the run ends; mint threads are waited for.
- Sequential run: index, counters and retries agree with the accounts tried.
- Stop controller: the first Ctrl+C is graceful, the second one is counted as
  the second, and the lock is never waited for by its own holder.
- Account files: one line per account, no line lost to another writer, secrets
  and tokens kept through merges, the lock always released.
- Token pools: no token lost to another writer's rewrite, except where the code
  knowingly falls back on it.
- Registration pipeline: an account gets its own cookie; a spent Turnstile token
  is not the one its form is submitted with; the worker always comes to an end.
- Mailbox pool: each mailbox used once; never more than the target; ends.
- Domain cache: no request while an entry is good; no entry used when it is not.
- Code prefetch: one poll per mailbox at a time, no code used for another
  mailbox, no code lost to a timeout that just passed.
- Capture context: an event counts for the worker whose browser sent it.
- Mint flow: requests of all threads are paced, no consent is given for nothing,
  no browser and no poll is left behind, a failure is on record.
- Publication: an auth file is published only once it is written, and copied
  only where the API had no success.
- Control plane: what is answered is in force; a stop stays a stop; secrets
  survive a masked form; every request is answered.
- Log stream: every line once, in order.

Hard behaviours: worker threads that die of an exception inside `finally`; a
stop flag that is polled, never waited for; daemon threads killed at exit;
files rewritten in place by several threads; a helper thread racing the thread
that waits for it with a timeout; shared capture context; two processes (unit
and control plane) that both decide whether the worker runs.

## 2. Plan

Order: what decides how many accounts a run registers and reports first, then
what it leaves on disk, then the services around it, then the inside of one
account.

| Step | Modules | State |
|---|---|---|
| 1 | `SlotLedger`, `RegistrationRun`, `RegistrationRunMC`, `RegistrationRunProofs` | modelled, checked; every safety property, the progress of each step and the refinement of `SlotLedger` proved |
| 2 | `SingleRun`, `MainThreadProofs` | modelled, checked; `OutcomesExplained` and `TriedToTheEnd` proved |
| 3 | `StopController`, `MainThreadProofs` | modelled, checked; `DistinctCounts` proved |
| 4 | `AccountBook`, `AccountStore`, `AccountStoreProofs` | modelled, checked; both invariants and the refinement of `AccountBook` proved |
| 5 | `MailPool`, `MailProofs` | modelled, checked; `NeverTooMany` and `BoxesAccountedFor` proved |
| 6 | `DomainCache`, `MailProofs` | modelled, checked; `NoStorm` and `FreshHit` proved |
| 7 | `ControlPlane`, `LogCursor`, `LogCursorMC`, `ControlPlaneProofs` | modelled, checked; the three invariants of `ControlPlane` and the two of `LogCursor` proved |
| 8 | `EmailCode` (mailbox, prefetch, shared capture context), `EmailCodeProofs` | modelled, checked; `CountedAndPolled` and `EarlyBoostExplained` proved |
| 9 | `TokenPools`, `AccountPage` (page, profile, Turnstile, cookie, pools), `AccountPageProofs` | modelled, checked; `OwnCookieAndToken` and `TokensLostExplained` proved |
| 10 | `MintGate`, `AuthPublish`, `MintFlow` (both ways to mint, publication), `MintFlowProofs` | modelled, checked; `MintSettled` and `PacedRequests` proved |

Composition: `RegistrationRun` is the top: it takes one registration as its
outcome (success, retry, failure), one mint as a thread that ends some time,
and SIGINT as a flag. The modules below it open these up: `EmailCode` is the
first half of a registration (its `Email` step in `AccountPage` is the whole of
`EmailCode`), `AccountPage`, which extends `TokenPools`, the second; `MintFlow`,
which extends `MintGate` and `AuthPublish`, is the mint thread; `AccountStore`
what registration and mint write; `MailPool` and `DomainCache` where the mail
thread gets its mailbox; `StopController` the SIGINT. `ControlPlane` owns the
process as a whole and `LogCursor` its journal. `RegistrationRun` implements
`SlotLedger` (what a run promises) and `AccountStore` implements `AccountBook`
(what the account file promises); both are checked with TLC and proved. Every
safety property that a run checks is the statement of a theorem; what is left
to TLC alone are the properties under fairness (section 6).

## 3. The modules

Every `*.tla` file says at each action which code it stands for; PROJECT.json
gives the lines. Definitions with a comment that begins with "Mutant" are
deliberately wrong variants of the definition after them. They take part in no
specification and show that the properties can fail.

### SlotLedger, RegistrationRun (worker/grok_register_ttk.py 3109-3166, 5374-5640)

`RegistrationRun` is the concurrent run. `queue` is kept as `issued`, the last
slot taken out, because slots leave the queue in order. Per worker: `pc`, the
`slot` in hand, the `retry` count and whether it has a `browser`. Per slot: its
`fate` (a history variable) and its `mint` thread; `frozen` (history as well) is
the set of slots that were queued when the stop was first requested. The main thread spawns the
workers with a gap between them, joins them, enters the final block, waits for
the tracked mint threads with a deadline and publishes the summary. Worker
actions follow `_cli_worker_loop`: boot, outer check of the stop flag, take,
register, the three exception handlers (cancelled, stuck with a retry, failed),
the `finally` block that recycles the browser, pacing and close. Every call
that may raise is a disjunct: a browser that cannot be restarted kills the
worker, and a slot that was to be retried is then neither a success nor a
failure. SIGINT sets the flag, or interrupts the gap between two starts or the
wait for mint threads; a second one ends the process.

`SlotLedger` is the promise: a slot is queued, held by one worker, or ended
once; counters equal the ended slots; the published summary is the state of the
ledger when it is published.

### SingleRun (5543-5640)

The loop used for one worker. The interesting part is the index `i`, which the
success branch, two handlers and a periodic browser restart move, and the
`finally` block, which decides from it. `phantom` counts (as history) the
failures added by a failing periodic restart after an account was already
counted as a success. Every `CleanupEvery` successes the memory cleanup closes the
browser, and the recycling that follows starts it again. Without a limit the model stops taking accounts at
`IndexBound`, a bound of the model only, which the theorems leave open.

### StopController (5140-5200)

SIGINT handlers run on the main thread on top of whatever it does, another
handler included: `stack` holds them, `owner` is the non-reentrant lock. The
increment is a load and a store. `everyBytecode`, chosen in the initial state,
says whether the interpreter looks for signals between any two bytecodes
(CPython 3.9) or not inside these few lines. A handler that prints while the
interrupted code prints raises, and unwinds every frame.

### AccountStore, AccountBook (1073-1264, cpa_xai/writer.py)

One worker thread and one OAuth thread per account write `accounts_all.txt`,
`tokens.txt`, `full/<email>.json` and the auth file. Opening a file for writing
is a step of its own because it empties the file; `owner` is `_io_lock`. `Book`
is what a reader can count on: the file, or, while a thread inside the lock has
emptied it, what the file held before. The
old full record is read without the lock, as in the code. `async` and
`trouble`, chosen in the initial state, say whether the mint has a thread of
its own and what may go wrong: nothing, reads and writes that raise, or a
forced exit and restart between any two steps. The last two are not combined in
one behaviour.

### MailPool (139-142, 2426-2531)

The producer checks, creates and puts; workers take or create themselves with
up to three attempts; the main thread stops and drains. `held`, `lost` and
`drained` are history: where each created mailbox went.

### DomainCache (136, 2201-2267, 2441-2466)

The cached domain is looked up under its lock and fetched and stored outside
it, by several threads; the clock ticks in steps of ten minutes and the
lifetime is three of them (1800 s). `listed`, chosen in the initial state, says
whether the preferred domain is in the provider's list.

### ControlPlane (control/register_control.py 190-320, 354-412, host/grok-register.service)

HTTP handlers run in threads of their own: each client starts, stops, reads the
masked settings, or sends a patch with or without a restart. `_lock` is held
where the code holds it, `systemctl` may be given up after its timeout while
the job goes on, and the unit ends and is restarted by `Restart=always`.
A secret is a key, a mask that was stored as if it were one, or empty. The mask
of a long key shows which key it is, the mask of a short one (`ShortKeys`) is
asterisks, which never count as a change. A patch may leave the secret out,
clear it, or send back what the form shows; `raw` is the file as the patch read
it, empty if that read failed. `wanted`, `crossed` and `unread` are history:
what a client typed last, and whether since then an outdated form was sent or a
read failed.

### LogCursor (72, 108-146, 814-873)

A poll is four steps: the shared cursor is read, journalctl prints the newest
lines after it, a second journalctl gives the new cursor, the cursor is set and
the text is sent. Either command may fail. A start of the unit empties the
cursor at any time, and several viewers share it. `alone`, `failed`, `high` and
`redone` are history.

### EmailCode (145-152, 1411-1508, 2534-2717, 3193-3356, 3821-4431, 5217-5285)

One worker's mailbox, e-mail form and code, over up to `Tries` mailboxes per
account and several accounts. Four actors: the worker (`place`), its mail
thread (`thread`), the thread that polls for the code (`poll`, `age`), and the
page, whose listener reports each CreateEmail request some time after it was
sent (`pending`, `Dispatch`). The other workers are what they do to the shared
capture context: they count requests in, declare the capture not installed, or
take it over and zero the counter. `others`, chosen in the initial state, says
whether there are any, `resends` whether the mail provider's poll calls the
resend callback. `age` is the age of the poll in classes that the code's limits
separate: 8 s, 20 s, 180 s, 285 s. `foreign` and `zeroed` are history.

### TokenPools (586-768) and AccountPage (cloak_browser.py, 1576-1606, 3169-3818, 4434-5137, 5217-5371)

`TokenPools` adds one token to the local file and the remote pool: read and
write of the local file, two steps in one hold of `_io_lock` (`LocalFree`). A
directory that cannot be made or a file that cannot be opened leaves the pool as
it was; a read that fails, of an intact file too, counts as an empty pool, which
the write then puts in its place; a write that breaks off leaves no JSON. Then
come the remote add, and where it fails the read and the post of the whole map,
as separate requests, each of which may be lost or only seem so. `unread`,
`cut`, `put` and `fellBack` are history.

`AccountPage` takes one worker and its browser through its accounts: soft reset
or restart, clean session, opening the page, the profile form, the Turnstile
solver with its lock shared by all workers, the page-side creation by the
protocol, the submitted form and its answer, the wait for the sso cookie, the
save and the pools. `cookie` is the account whose sso the browser holds, so
that a cookie left over from an earlier account can be told apart; a Turnstile
token is `fresh` or `burnt` (x.ai has seen it), once in the page's input and
once in the widget. A soft reset is two steps, as in the code: the cookies are
cleared, then a fresh page is opened and the old ones are closed, and an error of
either is swallowed. `old` holds the earlier accounts whose submitted form is
still open and unanswered: its answer (`LateAnswer`) sets that account's cookie,
before or after any clearing. `slips` (history) says what went wrong since the
last account: the clearing of the reset, an old page left open, the clearing of
the session. `used` is history too.

### MintGate, AuthPublish, MintFlow (cpa_export.py, cpa_xai/protocol_mint.py, oauth_device.py, mint.py, browser_confirm.py; 908-1065, 5307-5369)

`MintGate` is the two gates of the protocol mint, one for device codes and one
for token polls: a lock held across wait and request, and a mark (the time
before which nothing is sent) that an answer sets to one interval and a refusal
to a back-off, the latter after the lock was released and taken again. Time is
counted down in intervals. `quiet`, `owed` and `cut` are history.

`AuthPublish` is `publish_auth_to_cpa`: API, hotload copy and SFTP, for three
callers that do not know of each other.

`MintFlow` composes them with the mint of one account: protocol first, then the
browser with a device code of its own, the confirmation page with its states,
the polling thread, join, auth file, list of failures, publication by export,
mint thread and worker. Other mints take part through the gates.

## 4. Runs

| Run | Question | Bounds and why they are enough |
|---|---|---|
| `run_safety` | Is the bookkeeping of a concurrent run right in every interleaving, does it implement `SlotLedger`, does every step of a worker use something up, does it end, are slots queued at the stop left alone? | 2 workers, 2 slots, 1 retry, mint threads, 2 SIGINT: a slot is queued while the other is held; each kind of crash can hit each worker. Larger instances are covered by the proofs |
| `run_loop_mode` | Does a stop end a run without a limit, mint threads that never end included? | the same with `SlotBound` = 2 slots taken before the bound |
| `single_safety` | Do index, counters, retries and browser of the sequential run agree; does it end? | 5 accounts, 2 retries, a restart and a memory cleanup every 2: each comes in the middle of the run and can meet the other, a retry, a failure and the last account |
| `store` | Do the files of two accounts come out right, and is the lock always released? | 2 accounts, so 4 threads; 1 forced exit |
| `pool_safety` | Is each mailbox in one place; does the pool stay within its target and end? | 2 workers, target 2, queue 2, 5 mailboxes: two more than queue and hands hold |
| `domain_cache` | Is the provider asked only when needed and is no stale entry used? | 2 threads, lifetime 3 of 7 ticks: an entry expires twice |
| `stop_safety` | Do nested handlers count apart; does a stop end the run? | 5 presses: handlers nest in each other and in the final block |
| `control_safety` | Do starts, stops and changes do what they answer; is every request answered? | 2 clients, 3 requests in all, 2 keys of which one is short: any two requests overlap and a third one follows |
| `log_safety` | Who gets a line twice, and why? | 2 viewers with 1 connection each, 3 lines, 2 lines per poll: a poll overflows, and one poll ends after a later one |
| `email_code` | What does the shared counter make a worker believe; are mail thread and poll used once; does the worker end? | 2 mailboxes per account, 3 in all (so a second account), 2 codes per page, counter up to 3: a page and two foreign requests |
| `account_page` | Does an account get its own cookie and a fresh token; which tokens are lost from the pools; does the worker end? | 2 accounts in one browser, 2 attempts to open the page, 2 mailboxes, 3 turns of each loop (`MaxLoops`), 3 tokens |
| `mint` | Are the requests of all mints paced; what is left behind when a mint fails; does it end? | 2 mints, 2 tries of a code, 2 polls, 2 requests and 3 logins in the browser: each back-off meets another mint's request |

Other bounds: `SlotBound` and `IndexBound` replace the endless loop mode,
`MaxPresses`, `MaxKills`, `MaxBoxes`, `MaxTime`, `MaxRequests`, `MaxLines`,
`MaxViews`, `MaxSends`, `MaxSeen`, `Rounds`, `Accounts` and `MaxLoops` bound
what the environment does or how often a loop turns before its deadline. `CodeTries` (9), `Polls` (30), `CodeRequests` (3), `Tries` (3),
`MailTries` (3) and `OpenTries` (3) are the code's own limits, smaller in the
runs. `CHECK_DEADLOCK FALSE` is set where the system does stop: a run that is
over, a bound that is used up.

Symmetry of the viewers is used in `log_safety`, which checks no liveness.

The `else` branch of `StartMint` (no mint thread) is not taken in the runs of
`RegistrationRun`, which have `MintAsync` TRUE; the proofs cover both.

### What was seen while modelling

These follow from the models, as histories that the properties name or as
values that the code does reach.

The run and the services:

- `save_config_patch` asks whether the unit is active after it released `_lock`
  and restarts it without the lock: a stop that comes in between is undone
  (`StopHolds` says that this is the only way);
- a fixed count overrides only `ExecStart` of a unit with `Restart=always`: when
  the accounts are done the worker is started again and registers as many again;
- a configuration that cannot be read counts as empty, and the next patch
  replaces it by one with that patch only (`unread`); a form loaded before
  another client changed a secret sends back an old mask, which is stored as
  the secret (`crossed`);
- a failing periodic restart after the last account makes the sequential run
  report more outcomes than accounts (`FailuresExplained` bounds them);
- in loop mode the run ends by itself when every worker has died of its
  browser;
- on interpreters that handle signals between any two bytecodes a second
  Ctrl+C inside the lock of the first one's handler waits for ever
  (`StopEndsRun` is stated for the others);
- several viewers share one log cursor, so that each gets a part of the lines;
  lines logged between the two journalctl calls of a poll are sent to nobody.

Files and mail:

- worker and mint thread of one account may both read the old full record
  before either writes, and the tokens are lost (`TokensLostByOverlapOnly`
  says: only then); a kill while `accounts_all.txt` is rewritten loses lines,
  and a read error of that file drops all other accounts (`trouble`);
- a mail pool target above 16, the size of the queue, makes the producer create
  mailboxes and throw them away (`NeverTooMany` says: only then);
- a preferred domain that is not in the provider's list is cached under the
  name of the fallback, so that every creation asks again (`NoStorm` is stated
  for a listed domain); the docstring's ten minutes are 1800 seconds.

Inside an account:

- the capture counter is one for all workers: a worker believes its form was
  sent when another's was (`MisledByOthersOnly`), and the poll sends a second
  code early when the counter was zeroed or the page has no listener
  (`EarlyBoostExplained`). After a full restart of the browser
  `capture_installed` stays TRUE and nobody listens; `reset_protocol_ctx` is
  never called;
- the resend by the page that the polling thread tries has no page in that
  thread and always fails, and so does the early Cloudflare check;
- a Turnstile token that the page-side creation has used is still returned by
  the widget and goes into the form (`FirstSubmitFresh`); an
  earlier account's sso cookie is taken after a soft reset that left an old page
  open, whose form is answered late, or whose clearing failed with that of the
  session after it (`SsoIsOwn`);
- worker/README.md (114, 250, 268) promises a full restart of the browser after
  each account, against exactly that. The code's default for
  `browser_restart_mode` is `soft` (grok_register_ttk.py 107, 1321, 3359-3381);
  by `SsoIsOwn` the promise would hold with `full`, and does not with the default;
- a token is lost from the remote pool when another worker's fall-back posts
  back a map read before, or read as empty (`TokensLostExplained`), and from the
  local file when a read of it fails once (613-618) or a write breaks off; the
  fall-back follows a lost answer although the add may have arrived;
- a shorter back-off replaces a longer one of the same gate (`cut`), and a
  request may be sent between a refusal and its mark;
- nearly every error of the confirmation is raised at once, so that
  the join of the poll, of max(timeout, 60) + 30 s, finds it ended and never waits,
  and a consent that was already given is wasted; the cap on
  soft HTTP errors in a row is unreachable because each turn resets it; a
  cancellation is never passed to the mint; the reuse of a mint browser never
  happens, since every mint closes its own;
- an auth file is published up to three times, and one that failed its probe is
  still published by `save_account_bundle`.

## 5. Fairness

- `RegistrationRun`: weak fairness of the main thread and of every worker, since
  the operating system schedules them and every call they make has a timeout.
  None for SIGINT and none for mint threads, which may hang: the main thread's
  wait for them has a deadline.
- `SingleRun`: weak fairness of the main thread.
- `StopController`: weak fairness of signal delivery, of the handler on top and,
  once stop is requested, of the main thread. None for the key presses.
- `AccountStore`: weak fairness of every thread after its start.
- `MailPool`: weak fairness of the producer and of the main thread; none for the
  workers.
- `ControlPlane`: weak fairness of every request that was received, whose
  commands have timeouts; none for clients, systemd or the worker.
- `EmailCode`: weak fairness of the worker, whose waits all have deadlines, of
  time passing for a poll (`Grow`) and of the poll's end, which has a deadline
  too. None for the mail thread (it may outlive its join), the page, x.ai and
  the other workers.
- `AccountPage`: weak fairness of the worker and of each request to the pools,
  by their timeouts. None for x.ai, the widget and other holders of the
  solver's lock.
- `MintFlow`: weak fairness of the mint's thread, its polling thread, the clock,
  every gate's request (30 s timeout) and every publication; and of `TimesOut`
  for itself, because the confirmation's deadline is reached however long the
  page goes round in circles.

## 6. What is proved

All theorems hold for every value of the constants: any number of workers,
accounts, mints and clients, any counts, retries and limits, with or without
mint threads. Each proof has an inductive invariant that is the property with
the parts named below, a lemma for the initial states, one for each group of
actions, and a theorem by temporal logic from these.

`RegistrationRunProofs`: the inductive invariant is
`TypeOK /\ PlacesInv /\ SlotsConserved`. `SlotsConserved` alone is not
inductive: a step that ends a slot needs to know that the worker holds one, and
what a worker holds follows from where it is; `PlacesInv` says so. From it
`TypeCorrect`, `SlotsAreConserved` and `BrowsersInHand`.

The second half of the module adds what relates the end of the run to what
happened before: `QuietInv` (without a stop the final block is entered only
when every worker has ended), `ShortfallInv` (each slot that was dropped is
dropped by a crashed worker, one each), `SummaryInv` (what is published),
`MintInv` (every live mint thread is tracked, or its worker is about to track
it). From them `ShortfallIsBounded`, `MintsAreAwaited` and
`RunImplementsLedger`: initial states map to initial states, every step of the
run is a step of the ledger or leaves it unchanged. `StopFreezesQueue` rests on
`FrozenInv`: the stop is set, and a slot in `frozen` is queued, dropped, or in
the hands of a worker that was past its own check and will drop it. Every step
keeps this of a slot (`FrozenStep`), and the first request, by SIGINT or by the
cancelled gap between two starts, finds each queued slot in nobody's hands
(`FrozenInvStep`).

`MainThreadProofs` is about what the main thread does itself: the accounts of a
sequential run and, on top of it, the SIGINT handlers.
- `SingleRun` (`RunInv`): `IndexInv` (an account is tried only below the limit,
  so that the index a phantom failure falls on exists), `TriesInv` (each retry
  was a registration, and nothing ahead of the index was tried), `PhantomInv`
  (a success that may get a phantom failure has none yet), `BrowserInv` and
  `EndInv` (why the loop was left). That the counters are sizes of sets of
  accounts needs the lemmas `OutcomesFinite` and `OutcomeCounted`: an account
  that gets its first outcome joins one of the sets and no other. From them
  `EveryOutcomeExplained` and `EndsTried`, for runs with and without a limit.
- `StopController` (`StopInv`): `LockInv` (the lock is not re-entrant, so all
  handlers above the one inside it wait to enter), `CountInv` (hence what the
  increment loaded is still the count when it stores, and the numbers given so
  far differ), `PressInv` (every handler has a Ctrl+C of its own, which bounds
  the count and the depth). From them `HandlersCountApart`, for interpreters
  that handle signals between any two bytecodes and for those that do not.

`MailProofs`, the mailbox pool: the pool stays within its target because only the producer
fills it. `RoomInv` says that a producer on its way to put has seen room and
that it is still there; `BoxInv` ties the mailbox in its hand to its place;
`LostInv` is the consequence. From them `PoolTypeCorrect` and
`PoolNeverOverfills`. That each mailbox is in one place (`EachBoxIsUsedOnce`)
is a sum of sizes that no step keeps by itself; what every step keeps is that
the places share no mailbox and together are all of them (`PartInv`) and that
the queue holds none twice (`QueueInv`), and the sum follows from these with
the facts on finite sets. `EndInv` says that after the drain only a producer
that was past its check when the flag was set can still put.

`MailProofs`, the domain cache (`CacheInv`): `AgeInv` (the entry is the
last answer stored, and no thread's own answer is younger than it) and `AnswerInv` (where the preferred domain exists, every answer
on its way is that domain). A thread that fetches has seen an entry past its
lifetime, and its own answer is no younger than the entry: `NoRequestStorm`.
`HitsAreFresh` is the action property of the look-up.

`AccountStoreProofs`: `LockInv` (a thread is between opening a file and writing
it just when it has `_io_lock`), `WayInv` (which thread does what), `LinesInv` (an account is
not in `tokens.txt` twice, and is missing there while its thread is about to
append it), `SecretInv` and `MergedInv`. The last one is the reason that lost
tokens have one cause: if both threads of an account are between reading the
record and writing it, that is an overlap; and without one, whoever comes
second has read what the first one left. From them `SavedAccountsAreKept` and
`TokensLostOnlyByOverlap`.

`AccountsFileIsABook` is the refinement of `AccountBook`. It adds `BookInv`: a
thread that has emptied the file holds the lines that were in it with its own
account after them, and no account is in the book before its worker has passed
the file. The lock makes it inductive: a step of another thread neither takes
nor leaves the lock (`BookStep`), so that the book stays. So opening the file
is a stutter of the book, writing it is one new line, and every other step
leaves it.

`ControlPlaneProofs`, the control plane: `LockInv` (`_lock` belongs to the request
that is served under it); `WishInv` (under the lock, drop-in, loaded unit
and worker follow the wish one after the other); `SavedInv` (a worker that came
up after a restart was asked for has read the version saved before); `StopInv`
(after a stop that nobody has undone, systemd knows of no restart); `FormInv` (a
form as old as the file shows the mask of the secret in it). From them
`AnswersAlwaysHold`, `StopsHold` and `SecretStaysAsTyped`.

`ControlPlaneProofs`, the log stream (`LogInv`): `PollInv` (what a poll has in
hand), `StepBackInv` (a line that was sent and not put back before is behind
the shared cursor and behind what every poll under way has read) and
`AloneInv`: nobody else is connected, and for a lone viewer whose refreshes all
worked the cursor is past the snapshot and past all that was sent, at each
place of a poll (`OnceInv`, `Behind`). From them `LoneViewerGetsLinesOnce` and
`LinesTwiceOnlyAfterStepBack`.

`EmailCodeProofs`: `OwnRequests` (from a new browser on, what the page shows and
what its listener has still to tell come from requests for this mailbox),
`Misled` (the counter grows past what was noted before the form only by a
request of the page or of another worker), `OwnerInv` (whose mailbox the page
uses) and `Counted` (a listening page whose requests were all told has been
counted, unless the counter was zeroed). From them `CountedAndPolledHolds` and
`EarlyBoostIsExplained`.

`AccountPageProofs`: `CookieInv` (another account's cookie, or an old form that can
still bring one, is there only before the clearings or as far as they failed),
`LocalInv` (who has read the local file under the lock has read what is in it,
unless a read failed, and is alone), `BurntInv` (a used Turnstile
token is in the page only after a submission or the page-side creation) and
`BackInv` (who may post the whole map has fallen back), with the parts of
`OwnCookieAndToken`. From them `CookieAndTokenAreOwn` and `LostTokensExplained`.

`MintFlowProofs`: for the gates `HeldInv` (who sends holds the lock and sleeps
until the mark at least), `MarkInv` (the mark covers the interval and the
back-off, unless it was cut) and `TurnInv` (no more back-offs than turns, which
bounds them); for the mint `WayInv`, `PollInv` and `KeptInv`, which say what
there is of a mint at each place of its way. The flow takes part in the gates
only by their own steps, so that the pacing is proved for the gates and holds
in the composition. From them `MintIsSettled` and `RequestsArePaced`.

Progress. The properties under fairness have a part that needs none: that no
loop goes round without using something up. For it there are action properties
with a measure, which the proofs establish for every value of the constants:
- `TurnsAreUsedUp` (`RegistrationRun`, a counted run): a worker's step takes a
  slot, or spends one of its retries, or lowers `StepsLeft`;
- `EveryStepMovesOn` (`SingleRun`): the index, a retry, or the steps ahead;
- `EveryRoundMovesOn` (`EmailCode`): the mailbox, the steps ahead, or one of the
  codes a page can still ask for;
- `EveryTurnMovesOn` (`AccountPage`): account, mailbox, part of the account, turn
  of its loop, or steps ahead. The profile's loop, the page-side creation and the
  submission all call the solver, and each of them may lead back to another; the
  measure shows that no way round them avoids a counted turn;
- `EveryMintMovesOn` (`MintFlow`, the protocol way): from code to tokens, a try
  or a poll, or the steps ahead.

What they count is bounded by the type invariants, so that these processes take
finitely many steps. Slots, retries, mailboxes, tries and polls are counted by
the code itself; the turns of a page's loop (`MaxLoops`) and the codes a page
asks for (`MaxSends`) are limited by deadlines in the code, and there the
theorems say that nothing else needs one. The confirmation page of a mint has no
such measure: it can go round until its deadline. What remains for TLC is that a
step is always possible and that the scheduler takes it.

Locks. A thread that waits for a lock is waiting for somebody who is not
waiting himself: `LockIsWithAWriter` (`_io_lock` of the account files, with
failed writes and forced exits), `LockIsWithARequest` (the control plane) and
`GateIsWithASender` (`HolderInv`; the mint gates). The invariants are
equivalences, because that a holder is at such a place is not inductive without
its converse: the steps at these places leave the lock, and must be those of
the thread that holds it.

The assumptions are the named ones of the modules: counts and sizes are natural
numbers, limits of the code are not 0, flags are Boolean, the workers of a run
are a finite set, the account's own mint is one of the mints and its own adder
one of the adders, and no client or mint has the name that stands for nobody.

Only model-checked: liveness (`CountedRunEnds`, `RunEnds`, `StopEndsRun` of the
concurrent run in loop mode and of the controller, `PoolEnds`, `SavesEnd`,
`RequestsEnd`, `RoundsEnd`, `AccountsEnd`, `MintOver`), which the proof system
does not reach. Two components share a proof module where both are small and
belong to the same thread or service; the names of the smaller one
(`CacheSpec`, `LogSpec`, `StopSpec` ...) keep them apart, and their states do
not meet.

## 7. What is not modelled

- The mail rate-limit mark (2178-2193): it is read once and the wait is capped
  at 60 s, but the code only sets marks of up to 45 s, so that the cap never
  binds and nothing else depends on it.
- Contents: parsing of the mail providers' messages, probes and formats of the
  auth file, the encoding of the protocol client, scripts run inside pages,
  element handles, mouse paths, screenshots. What a page shows is a member of a
  small set, and a click leads to any of them.
- The DrissionPage engine (the cloak engine is the default), a registration page
  without a Turnstile, the export switched off or its package failing to
  import.
- Speed logger (reads counters), plugin (a proxy with HTML), installers and
  deployment scripts (run once by an operator), status and log pages and status
  events (read only).
- In the modelled components: `cpa_mint_required`, off by default, which lets an
  export raise after the auth file was written (cpa_export.py 258-263), is in
  `MintFlow` but not in `AccountStore`; cancellation during a mailbox or a code,
  which `EmailCode` leaves to the run modules; SIGINT after the handler is restored; a failing
  `daemon-reload`; systemd's start limit, not reached with a restart delay of
  15 s; `mail_credentials.txt`; an empty `shiromail_domain`, for which any entry
  of the cache counts.
