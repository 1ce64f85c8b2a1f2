------------------------------ MODULE MintFlow ------------------------------
(* The mint of one account: export_cpa_xai_for_account, by the protocol or,  *)
(* failing that, by mint_and_export with a browser, a device code of its own *)
(* and a thread that polls for the token; then the publication of the auth   *)
(* file, by the mint's thread and by the worker's. Mint me is this account's,*)
(* the other mints are other accounts' and only the gates are shared.        *)
EXTENDS MintGate, AuthPublish

CONSTANTS me,            \* this account's mint
          CodeRequests,  \* attempts of the browser's way to get a code (3)
          Logins         \* logins on the confirmation page (3)

ASSUME FlowAssumption == me \in Minters /\ CodeRequests \in Nat \ {0} /\ Logins \in Nat \ {0}

VARIABLES async,       \* cpa_mint_async: a thread of its own, and no page to reuse
          flow,        \* where the mint is
          asked,       \* attempts to get a device code
          browser,     \* whether a browser of the mint's is open
          shows,       \* what the confirmation page shows
          logins,      \* login_attempts
          allowed,     \* whether x.ai has the consent
          poll,        \* the thread that polls: its answer sets stop_event
          good,        \* result["ok"] and a path
          logged,      \* a line in cpa_auth_failed.txt
          threw,       \* the export raised: its caller saves nothing
          abandoned,   \* history: the confirmation raised
          raised       \* history: writing the auth file raised

browserVars == <<asked, browser, shows, logins, allowed, poll>>
endVars == <<good, logged, threw, abandoned, raised>>
vars == <<gateVars, pubVars, async, flow, browserVars, endVars>>

Pages == {"device", "email", "password", "consent", "done", "error", "other"}

FlowFlagsOK ==
    /\ async \in BOOLEAN /\ browser \in BOOLEAN /\ allowed \in BOOLEAN
    /\ good \in BOOLEAN /\ logged \in BOOLEAN /\ threw \in BOOLEAN
    /\ abandoned \in BOOLEAN /\ raised \in BOOLEAN

FlowDataOK ==
    /\ flow \in {"off", "protocol", "request", "acquire", "open", "confirm", "join", "write",
                 "publish", "failed", "bundle", "over"}
    /\ asked \in 0..CodeRequests /\ logins \in 0..Logins /\ shows \in Pages
    /\ poll \in {"off", "polling", "token", "err"}

FlowTypeOK == FlowFlagsOK /\ FlowDataOK

Init ==
    /\ GateInit /\ PubInit
    /\ async \in BOOLEAN
    /\ flow = "off" /\ asked = 0 /\ browser = FALSE /\ shows = "other" /\ logins = 0
    /\ allowed = FALSE /\ poll = "off"
    /\ good = FALSE /\ logged = FALSE /\ threw = FALSE /\ abandoned = FALSE /\ raised = FALSE
-----------------------------------------------------------------------------
Goes(f) == flow' = f

(* The export is called: by the protocol when there is an sso and the        *)
(* setting, else at once by the browser; unless the directory of the auth    *)
(* files cannot be made.                                                     *)
Export ==
    /\ flow = "off"
    /\ \/ Goes("protocol") /\ Begin(me) /\ UNCHANGED threw
       \/ Goes("request") /\ UNCHANGED <<place, threw>>
       \/ Goes("bundle") /\ threw' = TRUE /\ UNCHANGED place
    /\ UNCHANGED <<gate, timer, turn, slow, granted, lock, mark, quiet, owed, cut, pubVars, async,
                   browserVars, good, logged, abandoned, raised>>

(* The other mints are over and the gates at rest: from here on this account *)
(* and the gates have nothing to do with each other, so this may be awaited. *)
AtRest ==
    /\ \A m \in Minters : place[m] \in {"off", "minted", "failed"}
    /\ \A g \in Gates : mark[g] = 0 /\ owed[g] = 0 /\ quiet[g] = Interval

(* mint_and_export_protocol ends: any failure falls back on the browser.     *)
ProtocolEnds ==
    /\ flow = "protocol" /\ AtRest
    /\ \/ place[me] = "failed" /\ Goes("request") /\ UNCHANGED <<file, good, raised>>
       \/ /\ place[me] = "minted" /\ file' \in BOOLEAN
          /\ good' = file' /\ raised' = ~file'
          /\ Goes(IF file' THEN "publish" ELSE "request")
    /\ UNCHANGED <<gateVars, always, called, published, refused, async, browserVars,
                   logged, threw, abandoned>>

(* Nothing but the flow of this mint changes.                                *)
Elsewhere == UNCHANGED <<gateVars, pubVars, async>>

(* request_device_code, outside the gates.                                   *)
Request ==
    /\ flow = "request" /\ asked' = asked + 1
    /\ \/ Goes("acquire")
       \/ Goes(IF asked' < CodeRequests THEN "request" ELSE "failed")
    /\ Elsewhere /\ UNCHANGED <<browser, shows, logins, allowed, poll, endVars>>

(* create_standalone_page: a Chromium, in up to three attempts, or none.     *)
StartsChromium == \/ Goes("open") /\ browser' = TRUE
                  \/ Goes("failed") /\ UNCHANGED browser

(* acquire_mint_browser, unless the worker's page was passed. No browser is  *)
(* ever found from an earlier mint: each mint closes its own.                *)
AcquireBrowser ==
    /\ flow = "acquire"
    /\ IF async THEN StartsChromium ELSE Goes("open") /\ UNCHANGED browser
    /\ Elsewhere /\ UNCHANGED <<asked, shows, logins, allowed, poll, endVars>>

(* mint_with_browser raises; its `finally` closes the mint's own browser.    *)
Fails == Goes("failed") /\ browser' = FALSE

(* Cookies are injected as far as that works, the poll's thread is started   *)
(* and the confirmation page opened.                                         *)
Open ==
    /\ flow = "open"
    /\ poll' = "polling"
    /\ \/ Goes("confirm") /\ shows' \in Pages /\ UNCHANGED <<browser, abandoned>>
       \/ Fails /\ abandoned' = TRUE /\ UNCHANGED shows
    /\ Elsewhere /\ UNCHANGED <<asked, logins, allowed, good, logged, threw, raised>>

(* The poll's thread ends: with tokens once x.ai has the consent, or with an *)
(* error: denied, expired, too many network errors, its deadline.            *)
PollEnds ==
    /\ poll = "polling"
    /\ \/ allowed /\ poll' = "token"
       \/ poll' = "err"
    /\ Elsewhere /\ UNCHANGED <<flow, asked, browser, shows, logins, allowed, endVars>>

Confirming == flow = "confirm" /\ poll = "polling"

(* Mutant: the page that says it is done ends the confirmation.              *)
StoppedByDone ==
    /\ flow = "confirm" /\ (poll # "polling" \/ shows = "done")
    /\ Goes("join")
    /\ Elsewhere /\ UNCHANGED <<browserVars, endVars>>

(* approve_device_code: each turn looks first whether the poll has ended.    *)
Stopped ==
    /\ flow = "confirm" /\ poll # "polling"
    /\ Goes("join")
    /\ Elsewhere /\ UNCHANGED <<browserVars, endVars>>

(* Where a click on a button of the page, found by its label, leads to.      *)
Leads == shows' \in Pages

(* Continue with the user code, through a redirect, or by e-mail.            *)
Continue ==
    /\ Confirming /\ shows \in {"device", "email"}
    /\ Leads
    /\ Elsewhere /\ UNCHANGED <<flow, asked, browser, logins, allowed, poll, endVars>>

(* The cookie banner lies over the page and is dismissed; what shows nothing *)
(* known is looked at again.                                                 *)
Dismiss ==
    /\ Confirming /\ shows = "other"
    /\ Leads
    /\ Elsewhere /\ UNCHANGED <<flow, asked, browser, logins, allowed, poll, endVars>>

(* Allow, or the form's own submit.                                          *)
Allow ==
    /\ Confirming /\ shows = "consent"
    /\ \/ allowed' = TRUE /\ shows' \in {"done", "other"}
       \/ Leads /\ UNCHANGED allowed
    /\ Elsewhere /\ UNCHANGED <<flow, asked, browser, logins, poll, endVars>>

(* A login, that leads somewhere: if the page still asks for the password    *)
(* after the second one, that is raised.                                     *)
Login ==
    /\ Confirming /\ shows = "password" /\ logins < Logins
    /\ logins' = logins + 1 /\ Leads
    /\ shows' = "password" => logins' < 2
    /\ Elsewhere /\ UNCHANGED <<flow, asked, browser, allowed, poll, endVars>>

(* approve_device_code raises, even where the consent was given and the poll *)
(* is to answer.                                                             *)
Abandons ==
    /\ flow = "confirm"
    /\ Fails /\ abandoned' = TRUE
    /\ Elsewhere /\ UNCHANGED <<asked, shows, logins, allowed, poll, good, logged, threw, raised>>

(* The page tells of a wrong password or a block.                            *)
AuthError == shows = "error" /\ Abandons

(* The login's Turnstile does not come, or no login is left.                 *)
NoTurnstile == shows = "password" /\ Abandons

(* The deadline of the confirmation, or a page that is gone.                 *)
TimesOut == Abandons

(* t.join, for the longer of the time-out and a minute, and 30 s more: the   *)
(* poll has ended before the confirmation did, with tokens or an error.      *)
Join ==
    /\ flow = "join"
    /\ IF poll = "token" THEN Goes("write") /\ browser' = FALSE ELSE Fails
    /\ Elsewhere /\ UNCHANGED <<asked, shows, logins, allowed, poll, endVars>>

(* The auth file is written and, if asked for, its token probed.             *)
WriteFile ==
    /\ flow = "write"
    /\ \/ /\ file' = TRUE /\ good' \in BOOLEAN /\ UNCHANGED raised
          /\ Goes(IF good' THEN "publish" ELSE "failed")
          /\ UNCHANGED threw
       \/ raised' = TRUE /\ threw' = TRUE /\ Goes("bundle") /\ UNCHANGED <<file, good>>
    /\ UNCHANGED <<gateVars, always, called, published, refused, async, browserVars,
                   logged, abandoned>>

(* cpa_auth_failed.txt, whose writing may raise; after it the export may     *)
(* raise too, if a mint is required.                                         *)
LogFailure ==
    /\ flow = "failed" /\ Goes("bundle")
    /\ \/ logged' = TRUE /\ threw' \in BOOLEAN
       \/ threw' = TRUE /\ UNCHANGED logged
    /\ Elsewhere /\ UNCHANGED <<browserVars, good, abandoned, raised>>

(* Publication by caller c, where it is due: the mint's thread saves the     *)
(* bundle after an export that returned, and so does a worker that has       *)
(* waited for the export; with a mint's thread it saves it at any time.      *)
Due(c) ==
    CASE c = "export" -> flow = "publish"
      [] c = "bundle" -> flow = "bundle" /\ async /\ ~threw
      [] c = "worker" -> IF async THEN flow # "off" ELSE flow = "bundle" /\ ~threw

Publishing(c) ==
    /\ Due(c) /\ Publish(c)
    /\ UNCHANGED <<gateVars, async, flow, browserVars, endVars>>

(* The export returns, and the mint's thread is over.                        *)
Return ==
    /\ \/ flow = "publish" /\ "export" \in called /\ Goes("bundle")
       \/ flow = "bundle" /\ {c \in Callers : Due(c)} \subseteq called /\ Goes("over")
    /\ Elsewhere /\ UNCHANGED <<browserVars, endVars>>

Mint ==
    \/ Export \/ ProtocolEnds \/ Request \/ AcquireBrowser \/ Open \/ Stopped \/ Continue
    \/ Dismiss \/ Allow \/ Login \/ AuthError \/ NoTurnstile \/ TimesOut \/ Join
    \/ WriteFile \/ LogFailure \/ Return

Unmoved == UNCHANGED <<pubVars, async, flow, browserVars, endVars>>
Clock == Tick /\ Unmoved
Gate(m) == GateStep(m) /\ Unmoved
OthersMint(m) == /\ flow = "protocol" /\ m # me /\ Begin(m)
                 /\ UNCHANGED <<gate, timer, turn, slow, granted, lock, mark, quiet, owed, cut>>
                 /\ Unmoved
Finished == flow = "over" /\ poll # "polling" /\ UNCHANGED vars

Next ==
    \/ Mint \/ PollEnds \/ Clock \/ Finished
    \/ \E m \in Minters : Gate(m) \/ OthersMint(m)
    \/ \E c \in Callers : Publishing(c)

(* Threads run, requests and waits have deadlines, and the confirmation's    *)
(* comes however long its page goes round.                                   *)
Spec ==
    /\ Init /\ [][Next]_vars
    /\ WF_vars(Mint) /\ WF_vars(TimesOut) /\ WF_vars(PollEnds) /\ WF_vars(Clock)
    /\ (\A m \in Minters : WF_vars(Gate(m))) /\ (\A c \in Callers : WF_vars(Publishing(c)))
-----------------------------------------------------------------------------
(* A browser is open for the confirmation only, whatever fails in it.        *)
BrowserClosed == browser => flow \in {"open", "confirm", "join"}

(* The poll's thread outlives the browser's way, and its answer is lost,     *)
(* only where the confirmation raised: nobody stops that thread then. In     *)
(* every other case the join does not wait.                                  *)
PollLeftExplained ==
    flow \in {"join", "write", "publish", "failed", "bundle", "over"} /\ poll = "polling" =>
        abandoned

(* An account whose consent has been turned into tokens has its auth file,   *)
(* unless the confirmation or the writing raised; one without a file that is *)
(* good has a line in the list of failures, unless the export raised.        *)
TokensKept ==
    flow \in {"bundle", "over"} =>
        /\ poll = "token" \/ place[me] = "minted" => file \/ abandoned \/ raised
        /\ good \/ logged \/ threw
        /\ good => file

(* What a mint leaves behind, whichever way it went and whatever raised in   *)
(* it: no browser, no unexplained poll, no lost tokens, no needless copy.    *)
MintSettled ==
    /\ GateTypeOK /\ PubTypeOK /\ FlowTypeOK
    /\ BrowserClosed /\ PollLeftExplained /\ TokensKept /\ CopiedAsFallback

(* Whatever x.ai, the browser and the other mints do, the mint and its poll  *)
(* come to an end.                                                           *)
MintOver == <>(flow = "over" /\ poll # "polling")
=============================================================================
