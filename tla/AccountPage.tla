---------------------------- MODULE AccountPage ----------------------------
(* The rest of an account, for one worker: browser and registration page,    *)
(* the profile with its Turnstile token and the two ways to create the       *)
(* account, the sso cookie, and the token pools. Of the other workers the    *)
(* module has what they do to _turnstile_solve_lock, and their tokens.       *)
EXTENDS TokenPools

CONSTANTS Accounts,      \* accounts of this worker, numbered from 1
          OpenTries,     \* attempts to open the registration page (3)
          MailTries,     \* mailboxes per account (max_mail_retry, 3)
          MaxLoops       \* model bound: turns of a loop before its deadline

ASSUME PageAssumption ==
    /\ Accounts \in Nat \ {0} /\ OpenTries \in Nat \ {0}
    /\ MailTries \in Nat \ {0} /\ MaxLoops \in Nat \ {0}
    /\ 1..Accounts \subseteq Adders

VARIABLES hybrid,      \* protocol_create_user
          soft,        \* browser_restart_mode
          place, back, \* where the worker is, and where it returns to with a token
          acct, mail,  \* its account, and the account's mailbox
          attempt,     \* at opening the page, then turns of the loop it is in
          browser,     \* whether it has a browser
          page,        \* the page the browser shows
          cookie,      \* the account whose sso cookie the browser has, or 0
          input,       \* the token in the page's cf-turnstile-response
          widget,      \* the token turnstile.getResponse() returns
          lock,        \* _turnstile_solve_lock
          filled,      \* form_filled_once
          tried,       \* hybrid_create_tried
          user,        \* whether x.ai has the account
          sent,        \* the token the form was submitted with, until x.ai answers
          old,         \* earlier accounts whose submitted form is still open, unanswered
          got,         \* the account whose sso the worker took
          slips,       \* history: what went wrong with the cookies since the last account
          used         \* history: what the form was first submitted with

pageVars == <<browser, page, cookie, input, widget, sent, old>>
setting == <<hybrid, soft>>
mine == <<filled, tried, got, used>>
vars == <<setting, place, back, acct, mail, attempt, pageVars, lock, mine, user, slips, poolVars>>

Tokens == {"none", "fresh", "burnt"}

FlagsOK ==
    /\ hybrid \in BOOLEAN /\ soft \in BOOLEAN /\ browser \in BOOLEAN
    /\ filled \in BOOLEAN /\ tried \in BOOLEAN /\ user \in BOOLEAN

PlaceOK ==
    /\ place \in {"next", "reset", "clean", "visit", "click", "email", "profile", "create", "submit",
                  "solve", "waiting", "solving", "sso", "have", "pools", "stop", "done"}
    /\ back \in {"profile", "submit", "sso"}
    /\ acct \in 1..Accounts /\ mail \in 1..MailTries /\ attempt \in 1..OpenTries + MaxLoops

PageOK ==
    /\ page \in {"none", "blank", "signup", "profile", "final"}
    /\ input \in Tokens /\ widget \in Tokens /\ sent \in Tokens /\ used \in Tokens
    /\ lock \in {"free", "me", "other"}

CookieOK ==
    /\ cookie \in 0..Accounts /\ got \in 0..Accounts /\ old \subseteq 1..Accounts
    /\ slips \subseteq {"reset", "page", "session"}

TypeOK == PoolTypeOK /\ FlagsOK /\ PlaceOK /\ PageOK /\ CookieOK

Init ==
    /\ PoolInit
    /\ hybrid \in BOOLEAN /\ soft \in BOOLEAN
    /\ place = "next" /\ back = "profile" /\ acct = 1 /\ mail = 1 /\ attempt = 1
    /\ browser = FALSE /\ page = "none" /\ cookie = 0
    /\ input = "none" /\ widget = "none" /\ sent = "none" /\ old = {}
    /\ lock = "free"
    /\ filled = FALSE /\ tried = FALSE /\ got = 0 /\ used = "none"
    /\ user = FALSE /\ slips = {}
-----------------------------------------------------------------------------
(* A new document in the page.                                               *)
Shows(p) == page' = p /\ input' = "none" /\ widget' = "none" /\ sent' = "none"

(* restart_browser: closed, if there is one, and started with an empty       *)
(* profile by start_cloak_browser, in up to three attempts of each of        *)
(* start_browser's four; or given up.                                        *)
Restarted(ok) ==
    /\ browser' = ok /\ cookie' = 0 /\ old' = {}
    /\ Shows(IF ok THEN "blank" ELSE "none")

(* The account is over, by success or failure.                               *)
Forget == /\ attempt' = 1 /\ filled' = FALSE /\ tried' = FALSE /\ used' = "none"
          /\ back' = "profile"

AccountOver ==
    /\ IF acct < Accounts THEN place' = "next" /\ acct' = acct + 1
                          ELSE place' = "stop" /\ UNCHANGED acct
    /\ mail' = 1 /\ got' = 0 /\ user' = FALSE /\ slips' = {} /\ Forget

(* So it is with the browser left as it is: a form of the account may still  *)
(* be answered.                                                              *)
Leaves ==
    /\ AccountOver
    /\ old' = IF sent = "fresh" /\ ~user THEN old \union {acct} ELSE old
    /\ sent' = "none" /\ UNCHANGED <<browser, page, cookie, input, widget>>

Goes(p) == place' = p /\ UNCHANGED <<back, acct, mail, attempt, mine, user, slips>>

(* soft_reset_browser first clears the cookies; an error is swallowed.       *)
ResetCookies ==
    /\ place = "next" /\ soft /\ browser
    /\ place' = "reset"
    /\ \/ cookie' = 0 /\ UNCHANGED slips
       \/ cookie # 0 /\ slips' = slips \union {"reset"} /\ UNCHANGED cookie
    /\ UNCHANGED <<browser, page, input, widget, sent, old, back, acct, mail, attempt, mine, user>>

(* Mutant: the old pages stay open.                                          *)
SoftResetPagesStay ==
    /\ place = "reset"
    /\ Shows("blank") /\ place' = "clean"
    /\ UNCHANGED <<browser, cookie, old, slips, back, acct, mail, attempt, mine, user>>

(* Then it opens a fresh page and closes the old ones; an error of closing   *)
(* is swallowed.                                                             *)
SoftReset ==
    /\ place = "reset"
    /\ Shows("blank") /\ place' = "clean"
    /\ old' \in SUBSET old
    /\ slips' = IF old' = {} THEN slips ELSE slips \union {"page"}
    /\ UNCHANGED <<browser, cookie, back, acct, mail, attempt, mine, user>>

(* prepare_next_account_browser: soft, or a restart by the setting, after a  *)
(* hard failure, where there is no browser, and where the soft reset raises. *)
PrepareNext ==
    /\ \/ ResetCookies
       \/ SoftReset
       \/ /\ place \in {"next", "reset"}
          /\ (Restarted(TRUE) /\ Goes("clean")) \/ (Restarted(FALSE) /\ AccountOver)
    /\ UNCHANGED <<setting, lock, poolVars>>

(* Mutant: the session is taken as clean.                                    *)
CleanPageOnly ==
    /\ place = "clean" /\ place' = "visit" /\ attempt' = 1
    /\ Shows("blank")
    /\ UNCHANGED <<setting, back, acct, mail, browser, cookie, old, lock, mine, user, slips, poolVars>>

(* prepare_clean_browser_session, first in open_signup_page: the cookies are *)
(* cleared through the browser and through the page, unless both fail.       *)
Clean ==
    /\ place = "clean" /\ place' = "visit" /\ attempt' = 1
    /\ \/ cookie' = 0 /\ UNCHANGED slips
       \/ cookie # 0 /\ slips' = slips \union {"session"} /\ UNCHANGED cookie
    /\ Shows("blank")
    /\ UNCHANGED <<setting, back, acct, mail, browser, old, lock, mine, user, poolVars>>

(* An attempt to open the page: where it fails, or Cloudflare blocks it, the *)
(* browser is restarted.                                                     *)
Visit ==
    /\ place = "visit"
    /\ \/ Shows("signup") /\ browser' = TRUE /\ cookie' = (IF browser THEN cookie ELSE 0)
          /\ Goes("click") /\ UNCHANGED old
       \/ /\ attempt < OpenTries /\ \E ok \in BOOLEAN : Restarted(ok)
          /\ attempt' = attempt + 1
          /\ UNCHANGED <<place, back, acct, mail, mine, user, slips>>
       \/ /\ attempt = OpenTries /\ \E ok \in BOOLEAN : Restarted(ok)
          /\ AccountOver
    /\ UNCHANGED <<setting, lock, poolVars>>

(* click_email_signup_button: the form, or no button in 18 s or a block.     *)
Click ==
    /\ place = "click"
    /\ (Goes("email") /\ UNCHANGED pageVars) \/ Leaves
    /\ UNCHANGED <<setting, lock, poolVars>>

(* Mailbox and code, the module EmailCode: the profile's form, possibly      *)
(* late; another mailbox in a new browser; or failure.                       *)
Email ==
    /\ place = "email"
    /\ \/ /\ \E p \in {"signup", "profile"} : Shows(p)
          /\ UNCHANGED <<browser, cookie, old>>
          /\ place' = "profile" /\ attempt' = 1
          /\ UNCHANGED <<back, acct, mail, mine, user, slips>>
       \/ /\ mail < MailTries /\ mail' = mail + 1
          /\ Restarted(TRUE) /\ place' = "clean"
          /\ UNCHANGED <<back, acct, attempt, mine, user, slips>>
       \/ mail < MailTries /\ Restarted(FALSE) /\ AccountOver
       \/ Leaves
    /\ UNCHANGED <<setting, lock, poolVars>>

(* The profile's form comes up late.                                         *)
FormComes ==
    /\ place = "profile" /\ page = "signup"
    /\ Shows("profile")
    /\ UNCHANGED <<setting, place, back, acct, mail, attempt, browser, cookie, old, lock, mine,
                   user, slips, poolVars>>

(* What happens in the page counts while the worker looks at it.             *)
Looks == place \notin {"have", "pools", "stop", "done"}

(* The widget solves itself and sets the page's input, or expires.           *)
WidgetSolves ==
    /\ Looks /\ page \in {"profile", "final"} /\ input = "none" /\ widget = "none"
    /\ input' = "fresh" /\ widget' = "fresh"
    /\ UNCHANGED <<setting, place, back, acct, mail, attempt, browser, page, cookie, sent, old,
                   lock, mine, user, slips, poolVars>>

WidgetExpires ==
    /\ Looks /\ widget = "burnt"
    /\ input' = "none" /\ widget' = "none"
    /\ UNCHANGED <<setting, place, back, acct, mail, attempt, browser, page, cookie, sent, old,
                   lock, mine, user, slips, poolVars>>

(* _read_turnstile_token_js: the input's token, else the widget's.           *)
Token == IF input # "none" THEN input ELSE widget

(* getTurnstileToken is called, to return to place b.                        *)
Solve(b) == place' = "solve" /\ back' = b /\ UNCHANGED <<acct, mail, mine, user, slips>>

(* It returns, with a token that is then written to the page's input, or     *)
(* with none: every caller goes on without.                                  *)
Returns(token) ==
    /\ place' = back
    /\ IF token = "none" THEN UNCHANGED <<input, widget>>
       ELSE /\ input' = token
            /\ widget' = IF Token = "none" THEN token ELSE widget
    /\ UNCHANGED <<back, acct, mail, attempt, mine, user, slips, browser, page, cookie, sent, old>>

(* A token that is there is returned; else the lock is tried, without        *)
(* waiting.                                                                  *)
Enter ==
    /\ place = "solve"
    /\ \/ Token # "none" /\ Returns(Token) /\ UNCHANGED lock
       \/ /\ Token = "none" /\ lock = "free" /\ lock' = "me"
          /\ Goes("solving") /\ UNCHANGED pageVars
       \/ /\ Token = "none" /\ lock # "free" /\ UNCHANGED lock
          /\ Goes("waiting") /\ UNCHANGED pageVars
    /\ UNCHANGED <<setting, poolVars>>

(* Mutant: the other holder is waited for without a limit.                   *)
AwaitLockForever ==
    /\ place = "waiting"
    /\ \/ Token # "none" /\ Returns(Token) /\ UNCHANGED lock
       \/ Token = "none" /\ lock = "free" /\ lock' = "me" /\ Goes("solving") /\ UNCHANGED pageVars
    /\ UNCHANGED <<setting, poolVars>>

(* The lock is another's: up to 20 s for a token or for the lock.            *)
AwaitLock ==
    /\ place = "waiting"
    /\ \/ Token # "none" /\ Returns(Token) /\ UNCHANGED lock
       \/ Token = "none" /\ lock = "free" /\ lock' = "me" /\ Goes("solving") /\ UNCHANGED pageVars
       \/ Token = "none" /\ Returns("none") /\ UNCHANGED lock
    /\ UNCHANGED <<setting, poolVars>>

(* click_turnstile_widget, on the box of the widget or in its frame: what    *)
(* the page's token may be then.                                             *)
Clicked == IF Token = "none" THEN {"none", "fresh"} ELSE {Token}

(* Mutant: a solver that gets no token keeps the lock.                       *)
SolveEndsKept ==
    /\ place = "solving"
    /\ \E token \in Clicked :
          Returns(token) /\ lock' = IF token = "none" THEN lock ELSE "free"
    /\ UNCHANGED <<setting, poolVars>>

(* The widget is clicked until there is a token, or time is up; the lock is  *)
(* released in any case.                                                     *)
SolveEnds ==
    /\ place = "solving"
    /\ \E token \in Clicked : Returns(token)
    /\ lock' = "free"
    /\ UNCHANGED <<setting, poolVars>>

(* fill_profile_and_submit, the top of its loop, up to the deadline: looking *)
(* for the form may restart the browser, as refresh_active_page does; once   *)
(* the form is there it is filled in, and a token is got where none is.      *)
Profile ==
    /\ place = "profile"
    /\ \/ Leaves
       \/ ~filled /\ Restarted(FALSE) /\ AccountOver
       \/ /\ ~filled /\ Restarted(TRUE)
          /\ attempt < MaxLoops /\ attempt' = attempt + 1
          /\ UNCHANGED <<place, back, acct, mail, mine, user, slips>>
       \/ /\ attempt < MaxLoops /\ attempt' = attempt + 1
          /\ UNCHANGED <<acct, mail, user, slips, pageVars, tried, got, used>>
          /\ \/ page # "profile" /\ ~filled /\ UNCHANGED <<place, back, filled>>
             \/ /\ page = "profile" /\ ~filled /\ filled' = TRUE
                /\ IF input = "none" THEN place' = "solve" /\ back' = "profile"
                                     ELSE place' = "create" /\ UNCHANGED back
             \/ filled /\ place' = "create" /\ UNCHANGED <<back, filled>>
    /\ UNCHANGED <<setting, lock, poolVars>>

Spent(token, reached) == IF reached /\ token # "none" THEN "burnt" ELSE token

(* protocol_create_user_via_action, with the page's token: x.ai may refuse,  *)
(* or create the account and set its cookie, whatever answer comes back. Any *)
(* sso cookie of the browser counts; without one the input is emptied, if    *)
(* that works, and a token is asked for again.                               *)
Create ==
    /\ place = "create"
    /\ IF hybrid /\ ~tried /\ Token # "none"
       THEN /\ tried' = TRUE
            /\ \E reached \in BOOLEAN :
               \E made \in IF reached /\ Token = "fresh" /\ ~user THEN BOOLEAN ELSE {FALSE} :
                  /\ user' = (user \/ made)
                  /\ \E told \in {cookie} \union (IF made THEN {acct} ELSE {}) :
                        /\ cookie' = told
                        /\ got' = told
                        /\ place' = IF told # 0 THEN "have" ELSE "solve"
                  /\ widget' = Spent(widget, reached)
                  /\ input' \in {"none", Spent(input, reached)}
            /\ back' = "submit"
            /\ UNCHANGED <<acct, mail, attempt, filled, used, slips, browser, page, sent, old>>
       ELSE Goes("submit") /\ UNCHANGED pageVars
    /\ UNCHANGED <<setting, lock, poolVars>>

(* The form is submitted with the token in its input, which is used up; of   *)
(* several requests that wait for an answer the one that can succeed counts. *)
Submits ==
    /\ page' = "final" /\ sent' = (IF sent = "fresh" THEN "fresh" ELSE input)
    /\ input' = "burnt" /\ UNCHANGED old
    /\ widget' = IF widget = input THEN "burnt" ELSE widget

(* The submission: no token yet, or clicked, or no button is found.          *)
Submit ==
    /\ place = "submit"
    /\ \/ input = "none" /\ Solve("profile") /\ UNCHANGED <<attempt, pageVars>>
       \/ /\ input # "none" /\ Submits /\ used' = input
          /\ place' = "sso" /\ attempt' = 1
          /\ UNCHANGED <<back, acct, mail, filled, tried, got, user, slips, browser, cookie>>
       \/ input # "none" /\ Goes("profile") /\ UNCHANGED pageVars
    /\ UNCHANGED <<setting, lock, poolVars>>

(* x.ai answers the form: refused, or created and its cookie set.            *)
Answer ==
    /\ Looks /\ sent # "none" /\ sent' = "none"
    /\ \/ /\ sent = "fresh" /\ ~user /\ user' = TRUE
          /\ cookie' = acct /\ page' = "blank" /\ UNCHANGED <<input, widget>>
       \/ UNCHANGED <<user, cookie, page, input, widget>>
    /\ UNCHANGED <<setting, place, back, acct, mail, attempt, browser, old, lock, mine, slips,
                   poolVars>>

(* So it answers the form of an earlier account, in a page of the browser    *)
(* that is still open: the browser has that account's cookie then, and where *)
(* that comes between the parts of a soft reset its clearing was in vain.    *)
LateAnswer(a) ==
    /\ Looks /\ a \in old /\ old' = old \ {a}
    /\ cookie' = a
    /\ slips' = IF place = "reset" THEN slips \union {"reset"} ELSE slips
    /\ UNCHANGED <<setting, place, back, acct, mail, attempt, browser, page, input, widget, sent,
                   lock, mine, user, poolVars>>

(* refresh_active_page, where the browser's tabs cannot be listed.           *)
RefreshPage == \E ok \in BOOLEAN : Restarted(ok)

(* wait_for_sso_cookie, a turn of its loop: refresh_active_page may restart  *)
(* the browser; a final page still there is submitted again, or asks for a   *)
(* token; the first sso cookie is taken. The account is given up at the      *)
(* deadline, or without a button for 25 s.                                   *)
Sso ==
    /\ place = "sso"
    /\ \/ Leaves
       \/ /\ attempt < MaxLoops /\ attempt' = attempt + 1
          /\ \/ /\ RefreshPage
                /\ UNCHANGED <<place, back, acct, mail, mine, user, slips>>
             \/ /\ page = "final" /\ input # "none" /\ Submits
                /\ UNCHANGED <<browser, cookie, place, back, acct, mail, mine, user, slips>>
             \/ /\ page = "final" /\ input = "none" /\ Solve("sso")
                /\ UNCHANGED pageVars
             \/ /\ cookie = 0
                /\ UNCHANGED <<pageVars, place, back, acct, mail, mine, user, slips>>
       \/ /\ browser /\ cookie # 0 /\ got' = cookie /\ place' = "have"
          /\ UNCHANGED <<pageVars, back, acct, mail, attempt, filled, tried, used, user, slips>>
    /\ UNCHANGED <<setting, lock, poolVars>>

(* NSFW, whatever comes of it, and save_account_bundle, which may raise:     *)
(* then the pools get no token. Only the last account's token is added here, *)
(* those of earlier accounts are among the others'.                          *)
Have ==
    /\ place = "have"
    /\ \/ /\ acct = Accounts /\ place' = "pools" /\ StepTo(got, "local")
          /\ Forget /\ UNCHANGED <<acct, mail, got, user, slips>>
          /\ UNCHANGED pageVars
       \/ Leaves /\ UNCHANGED step
    /\ UNCHANGED <<setting, lock, local, remote, current, unread, cut, put, fellBack>>

PoolsDone ==
    /\ place = "pools" /\ step[got] \in {"added", "failed"}
    /\ Leaves
    /\ UNCHANGED <<setting, lock, poolVars>>

(* The worker ends with stop_browser.                                        *)
StopBrowser ==
    /\ place = "stop"
    /\ Restarted(FALSE) /\ Goes("done")
    /\ UNCHANGED <<setting, lock, poolVars>>

Worker ==
    \/ PrepareNext \/ Clean \/ Visit \/ Click \/ Email \/ Enter \/ AwaitLock \/ SolveEnds
    \/ Profile \/ Create \/ Submit \/ Sso \/ Have \/ PoolsDone
    \/ StopBrowser

(* Another worker takes the lock or releases it.                             *)
OthersLock ==
    /\ Looks
    /\ \/ lock = "free" /\ lock' = "other"
       \/ lock = "other" /\ lock' = "free"
    /\ UNCHANGED <<setting, place, back, acct, mail, attempt, pageVars, mine, user, slips, poolVars>>

(* Another token is added, while or after this worker adds its own.          *)
OthersToken(a) ==
    /\ place \in {"pools", "done"} /\ a \notin 1..Accounts
    /\ step[a] = "off" /\ StepTo(a, "local")
    /\ UNCHANGED <<setting, place, back, acct, mail, attempt, pageVars, lock, mine, user, slips,
                   local, remote, current, unread, cut, put, fellBack>>

PoolStep(a) ==
    /\ Adds(a)
    /\ UNCHANGED <<setting, place, back, acct, mail, attempt, pageVars, lock, mine, user, slips>>

Finished == place = "done" /\ UNCHANGED vars

Next ==
    \/ Worker \/ FormComes \/ WidgetSolves \/ WidgetExpires \/ Answer \/ OthersLock \/ Finished
    \/ \E a \in 1..Accounts : LateAnswer(a)
    \/ \E a \in Adders : OthersToken(a) \/ PoolStep(a)

(* Every wait of the worker and every request has a deadline.                *)
Spec == Init /\ [][Next]_vars /\ WF_vars(Worker) /\ \A a \in Adders : WF_vars(PoolStep(a))
-----------------------------------------------------------------------------
(* The sso a worker takes is its account's, not one that an earlier account  *)
(* left in the browser: never where the browser is restarted between the     *)
(* accounts, as worker/README.md promises ("每个账号结束后完整重启浏览器"), and      *)
(* after the soft reset, the default, only if an old page could not be       *)
(* closed, or the session's cookies could not be cleared after the reset     *)
(* failed to, or after an old form was answered before its page was closed.  *)
SsoIsOwn ==
    got \notin {0, acct} =>
        /\ soft
        /\ "page" \in slips \/ ("reset" \in slips /\ "session" \in slips)

(* The lock of the solver is held by the worker that solves, exactly as long *)
(* as it does.                                                               *)
SolverHeld == (lock = "me") = (place = "solving")

(* "Failed create likely burned one-shot Turnstile — re-solve for UI": an    *)
(* account's form is first submitted with a token x.ai has already seen only *)
(* after a page-side creation, when the widget still returns that token.     *)
FirstSubmitFresh == used = "burnt" => hybrid /\ tried

(* What the page's part relies on: whose cookie is taken, who holds the      *)
(* solver, and which token goes into the form.                               *)
OwnCookieAndToken == TypeOK /\ SsoIsOwn /\ SolverHeld /\ FirstSubmitFresh

(* Whoever keeps the lock of the solver, and whatever fails, the worker      *)
(* comes to the end of its accounts.                                         *)
AccountsEnd == <>(place = "done")
=============================================================================
