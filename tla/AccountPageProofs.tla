-------------------------- MODULE AccountPageProofs -------------------------
(* For any number of accounts, attempts and turns: whose cookie a worker     *)
(* takes, who holds the solver's lock, which token goes into the form, and   *)
(* by whom a token that was added can have been lost.                        *)
EXTENDS AccountPage, TLAPS

USE PageAssumption DEF PageAssumption

(* The worker is at an account, past what is done between the accounts.      *)
AtAccount == place \notin {"next", "reset", "clean", "stop", "done"}

(* What can have left an earlier account's cookie in the browser.            *)
Slipped == "page" \in slips \/ ("reset" \in slips /\ "session" \in slips)

(* Another account's cookie is in the browser only before the clearings, or  *)
(* as far as they were in vain; an earlier account's form is still open only *)
(* where its page could not be closed; and a restart leaves neither.         *)
CookieInv ==
    /\ cookie \notin {0, acct} =>
           /\ place = "reset" => "reset" \in slips
           /\ place = "clean" => "page" \in slips \/ "reset" \in slips
           /\ AtAccount => Slipped
    /\ old # {} /\ (AtAccount \/ place = "clean") => "page" \in slips
    /\ ~soft /\ (AtAccount \/ place \in {"reset", "clean"}) => cookie \in {0, acct} /\ old = {}

(* A used token is in the page only after the form's submission or the       *)
(* page-side creation.                                                       *)
BurntInv ==
    input = "burnt" \/ widget = "burnt" =>
        \/ hybrid /\ tried
        \/ place \in {"sso", "have", "pools", "next", "reset", "stop", "done"}
        \/ place \in {"solve", "waiting", "solving"} /\ back = "sso"

CookiePart == CookieOK /\ CookieInv /\ SsoIsOwn

PageInv == CookiePart /\ BurntInv /\ SolverHeld /\ FirstSubmitFresh

(* Who has read or may post the whole map has fallen back.                   *)
BackInv == \A a \in Adders : step[a] \in {"read", "save"} => a \in fellBack

(* One adder has the lock of the local file, and what it has read there is   *)
(* still all of it, unless the read failed.                                  *)
LocalInv ==
    /\ \A a, b \in Adders : step[a] = "write" /\ step[b] = "write" => a = b
    /\ \A a \in Adders : step[a] = "write" => unread \/ local \subseteq current[a]

PagePart == FlagsOK /\ PlaceOK /\ PageOK /\ PageInv
PoolPart == PoolTypeOK /\ BackInv /\ LocalInv /\ TokensLostExplained
IInv == PagePart /\ PoolPart

LEMMA InitInvariant == Init => IInv
  <1> SUFFICES ASSUME Init PROVE IInv
    OBVIOUS
  <1>1. FlagsOK /\ PageOK
    BY DEF Init, FlagsOK, PageOK, Tokens
  <1>2. PlaceOK
    BY DEF Init, PlaceOK
  <1>3. PageInv
    BY DEF Init, PageInv, CookiePart, CookieOK, CookieInv, AtAccount, BurntInv, SsoIsOwn,
       SolverHeld, FirstSubmitFresh
  <1>4. PoolPart
    BY DEF Init, PoolInit, PoolPart, PoolTypeOK, BackInv, LocalInv, TokensLostExplained
  <1> QED
    BY <1>1, <1>2, <1>3, <1>4 DEF IInv, PagePart

-----------------------------------------------------------------------------
(* The token pools, by the steps of an adder and by those that start one.    *)
LEMMA PoolStepKeeps ==
    ASSUME PoolPart, NEW a \in Adders, Adds(a)
    PROVE  PoolPart'
  <1> USE DEF PoolPart, StepTo
  <1>1. CASE ReadLocal(a)
    <2>1. PoolTypeOK'
      BY <1>1 DEF ReadLocal, PoolTypeOK
    <2>2. BackInv'
      BY <1>1 DEF ReadLocal, PoolTypeOK, BackInv
    <2>3. LocalInv'
      BY <1>1 DEF ReadLocal, LocalFree, PoolTypeOK, LocalInv
    <2>4. TokensLostExplained'
      BY <1>1 DEF ReadLocal, PoolTypeOK, BackInv, LocalInv, TokensLostExplained
    <2> QED
      BY <2>1, <2>2, <2>3, <2>4
  <1>2. CASE WriteLocal(a)
    <2>1. PoolTypeOK'
      BY <1>2 DEF WriteLocal, PoolTypeOK
    <2>2. BackInv'
      BY <1>2 DEF WriteLocal, PoolTypeOK, BackInv
    <2>3. LocalInv'
      BY <1>2 DEF WriteLocal, PoolTypeOK, LocalInv
    <2>4. TokensLostExplained'
      BY <1>2 DEF WriteLocal, PoolTypeOK, BackInv, LocalInv, TokensLostExplained
    <2> QED
      BY <2>1, <2>2, <2>3, <2>4
  <1>3. CASE AddRemote(a)
    <2>1. PoolTypeOK'
      BY <1>3 DEF AddRemote, PoolTypeOK
    <2>2. BackInv'
      BY <1>3 DEF AddRemote, PoolTypeOK, BackInv
    <2>3. LocalInv'
      BY <1>3 DEF AddRemote, PoolTypeOK, LocalInv
    <2>4. TokensLostExplained'
      BY <1>3 DEF AddRemote, PoolTypeOK, BackInv, LocalInv, TokensLostExplained
    <2> QED
      BY <2>1, <2>2, <2>3, <2>4
  <1>4. CASE ReadRemote(a)
    <2>1. PoolTypeOK'
      BY <1>4 DEF ReadRemote, PoolTypeOK
    <2>2. BackInv'
      BY <1>4 DEF ReadRemote, PoolTypeOK, BackInv
    <2>3. LocalInv'
      BY <1>4 DEF ReadRemote, PoolTypeOK, LocalInv
    <2>4. TokensLostExplained'
      BY <1>4 DEF ReadRemote, PoolTypeOK, BackInv, LocalInv, TokensLostExplained
    <2> QED
      BY <2>1, <2>2, <2>3, <2>4
  <1>5. CASE SaveRemote(a)
    <2>1. PoolTypeOK'
      BY <1>5 DEF SaveRemote, PoolTypeOK
    <2>2. BackInv'
      BY <1>5 DEF SaveRemote, PoolTypeOK, BackInv
    <2>3. LocalInv'
      BY <1>5 DEF SaveRemote, PoolTypeOK, LocalInv
    <2>4. TokensLostExplained'
      BY <1>5 DEF SaveRemote, PoolTypeOK, BackInv, LocalInv, TokensLostExplained
    <2> QED
      BY <2>1, <2>2, <2>3, <2>4
  <1> QED
    BY <1>1, <1>2, <1>3, <1>4, <1>5 DEF Adds

LEMMA PoolStartKeeps ==
    ASSUME PoolPart, NEW a, StepTo(a, "local"),
           UNCHANGED <<local, remote, current, unread, cut, put, fellBack>>
    PROVE  PoolPart'
  BY DEF PoolPart, StepTo, PoolTypeOK, BackInv, LocalInv, TokensLostExplained

LEMMA PoolStays ==
    ASSUME PoolPart, UNCHANGED poolVars PROVE PoolPart'
  BY DEF PoolPart, poolVars, PoolTypeOK, BackInv, LocalInv, TokensLostExplained

-----------------------------------------------------------------------------
(* Whose cookie there is, by what a step does to it. Within an account the   *)
(* browser may lose it, or get the account's own, ...                        *)
LEMMA AccountGoesOn ==
    ASSUME CookiePart, PlaceOK, AtAccount, AtAccount', UNCHANGED <<setting, acct, slips>>,
           old' \in {old, {}}, cookie' \in {cookie, 0, acct}, got' \in {got, cookie'}
    PROVE  CookiePart'
  <1>1. CookieOK'
    BY DEF PlaceOK, CookiePart, CookieOK
  <1>2. CookieInv'
    <2>1. cookie' \notin {0, acct'} => Slipped'
      BY DEF CookiePart, CookieInv, AtAccount, Slipped
    <2>2. old' # {} => "page" \in slips'
      BY DEF CookiePart, CookieInv, AtAccount
    <2>3. ~soft' => cookie' \in {0, acct'} /\ old' = {}
      BY DEF CookiePart, CookieInv, AtAccount, setting
    <2> QED
      BY <2>1, <2>2, <2>3 DEF CookieInv, AtAccount
  <1>3. SsoIsOwn'
    BY DEF CookiePart, CookieInv, AtAccount, Slipped, SsoIsOwn, setting
  <1> QED
    BY <1>1, <1>2, <1>3 DEF CookiePart

(* ... with the account its sso is forgotten, ...                            *)
LEMMA AccountEnds ==
    ASSUME CookiePart, PlaceOK, AccountOver, UNCHANGED setting,
           cookie' \in {cookie, 0}, old' \subseteq old \union {acct}
    PROVE  CookiePart'
  BY DEF PlaceOK, CookiePart, CookieOK, CookieInv, AtAccount, SsoIsOwn, AccountOver

(* ... and a new browser has no cookie and no old page.                      *)
LEMMA RestartedClean ==
    ASSUME CookiePart, PlaceOK, Restarted(TRUE), place' = "clean",
           UNCHANGED <<setting, acct, slips, got>>
    PROVE  CookiePart'
  BY DEF PlaceOK, CookiePart, CookieOK, CookieInv, AtAccount, SsoIsOwn, Restarted, setting

LEMMA CookieStays ==
    ASSUME CookiePart, UNCHANGED <<setting, place, acct, slips, old, cookie, got>>
    PROVE  CookiePart'
  BY DEF CookiePart, CookieOK, CookieInv, AtAccount, Slipped, SsoIsOwn, setting

-----------------------------------------------------------------------------
(* The page's part of a step. Before the profile: browser, cookies,          *)
(* registration page, mailbox and code.                                      *)
LEMMA OpeningStep ==
    ASSUME PagePart, PrepareNext \/ Clean \/ Visit \/ Click \/ Email
    PROVE  PagePart'
  <1> USE DEF PagePart, PageInv, Tokens, mine, pageVars, setting
  <1>1. FlagsOK'
    BY DEF PrepareNext, ResetCookies, SoftReset, Restarted, Shows, Goes, AccountOver, Leaves,
       Forget, Clean, Visit, Click, Email, FlagsOK
  <1>2. PlaceOK'
    BY DEF PrepareNext, ResetCookies, SoftReset, Restarted, Shows, Goes, AccountOver, Leaves,
       Forget, Clean, Visit, Click, Email, PlaceOK, PageOK
  <1>3. PageOK'
    BY DEF PrepareNext, ResetCookies, SoftReset, Restarted, Shows, Goes, AccountOver, Leaves,
       Forget, Clean, Visit, Click, Email, PageOK
  <1>4. CookiePart'
    <2>1. CASE PrepareNext
      <3>1. CASE ResetCookies
        <4>1. CookieOK'
          <5>1. slips' \in {slips, slips \union {"reset"}}
            BY <3>1 DEF ResetCookies
          <5>2. cookie' \in {0, cookie} /\ UNCHANGED <<got, old>>
            BY <3>1 DEF ResetCookies
          <5> QED
            BY <5>1, <5>2 DEF CookiePart, CookieOK
        <4>2. CookieInv'
          BY <2>1, <3>1 DEF PrepareNext, ResetCookies, CookiePart, CookieInv, AtAccount
        <4>3. SsoIsOwn'
          BY <2>1, <3>1 DEF PrepareNext, ResetCookies, CookiePart, SsoIsOwn
        <4> QED
          BY <4>1, <4>2, <4>3 DEF CookiePart
      <3>2. CASE SoftReset
        BY <2>1, <3>2 DEF PrepareNext, SoftReset, CookiePart, CookieOK, CookieInv, AtAccount,
           SsoIsOwn
      <3>3. CASE Restarted(TRUE) /\ Goes("clean")
        BY <2>1, <3>3, RestartedClean DEF PrepareNext, Goes
      <3>4. CASE Restarted(FALSE) /\ AccountOver
        BY <2>1, <3>4, AccountEnds DEF PrepareNext, Restarted
      <3> QED
        BY <2>1, <3>1, <3>2, <3>3, <3>4 DEF PrepareNext
    <2>2. CASE Clean
      <3>1. CookieOK'
        <4>1. slips' \in {slips, slips \union {"session"}}
          BY <2>2 DEF Clean
        <4>2. cookie' \in {0, cookie} /\ UNCHANGED <<got, old>>
          BY <2>2 DEF Clean
        <4> QED
          BY <4>1, <4>2 DEF CookiePart, CookieOK
      <3>2. CookieInv'
        BY <2>2 DEF Clean, CookiePart, CookieInv, AtAccount, Slipped
      <3>3. SsoIsOwn'
        BY <2>2 DEF Clean, CookiePart, SsoIsOwn
      <3> QED
        BY <3>1, <3>2, <3>3 DEF CookiePart
    <2>3. CASE Visit
      <3>1. CASE AccountOver
        BY <2>3, <3>1, AccountEnds DEF Visit, Restarted, Goes, AccountOver
      <3>2. CASE ~AccountOver
        BY <2>3, <3>2, AccountGoesOn DEF Visit, Restarted, Goes, AtAccount
      <3> QED
        BY <3>1, <3>2
    <2>4. CASE Click
      BY <2>4, AccountEnds, AccountGoesOn DEF Click, Leaves, Goes, AtAccount
    <2>5. CASE Email
      <3>1. CASE AccountOver
        BY <2>5, <3>1, AccountEnds DEF Email, Restarted, Leaves, AccountOver
      <3>2. CASE place' = "clean"
        BY <2>5, <3>2, RestartedClean DEF Email, Leaves, AccountOver
      <3>3. CASE place' = "profile"
        BY <2>5, <3>3, AccountGoesOn DEF Email, Leaves, AccountOver, AtAccount
      <3> QED
        BY <2>5, <3>1, <3>2, <3>3 DEF Email, Leaves
    <2> QED
      BY <2>1, <2>2, <2>3, <2>4, <2>5
  <1>5. BurntInv'
    BY DEF PrepareNext, ResetCookies, SoftReset, Restarted, Shows, Goes, AccountOver, Leaves,
       Forget, Clean, Visit, Click, Email, PageOK, BurntInv
  <1>6. FirstSubmitFresh'
    BY DEF PrepareNext, ResetCookies, SoftReset, Restarted, Shows, Goes, AccountOver, Leaves,
       Forget, Clean, Visit, Click, Email, BurntInv, FirstSubmitFresh
  <1>7. SolverHeld'
    BY DEF PrepareNext, ResetCookies, SoftReset, Restarted, Shows, Goes, AccountOver, Leaves,
       Forget, Clean, Visit, Click, Email, PlaceOK, PageOK, SolverHeld
  <1> QED
    BY <1>1, <1>2, <1>3, <1>4, <1>5, <1>6, <1>7 DEF PageInv

(* The page, x.ai and the other workers.                                     *)
LEMMA OutsideStep ==
    ASSUME PagePart, FormComes \/ WidgetSolves \/ WidgetExpires \/ Answer \/ OthersLock
                         \/ \E a \in 1..Accounts : LateAnswer(a)
    PROVE  PagePart'
  <1> USE DEF PagePart, PageInv, Tokens, mine, pageVars, setting
  <1>1. FlagsOK'
    BY DEF FormComes, Shows, WidgetSolves, WidgetExpires, Answer, LateAnswer, Looks, OthersLock,
       FlagsOK
  <1>2. PlaceOK'
    BY DEF FormComes, Shows, WidgetSolves, WidgetExpires, Answer, LateAnswer, Looks, OthersLock,
       PlaceOK, PageOK
  <1>3. PageOK'
    BY DEF FormComes, Shows, WidgetSolves, WidgetExpires, Answer, LateAnswer, Looks, OthersLock,
       PageOK
  <1>4. CookiePart'
    <2>1. CASE FormComes \/ WidgetSolves \/ WidgetExpires \/ OthersLock
      BY <2>1, CookieStays DEF FormComes, WidgetSolves, WidgetExpires, OthersLock
    <2>2. CASE Answer
      <3>1. cookie' \in {cookie, acct} /\ UNCHANGED <<setting, place, acct, slips, old, got>>
        BY <2>2 DEF Answer
      <3> QED
        BY <3>1 DEF PlaceOK, CookiePart, CookieOK, CookieInv, AtAccount, Slipped, SsoIsOwn
    <2>3. ASSUME NEW a \in 1..Accounts, LateAnswer(a) PROVE CookiePart'
      BY <2>3 DEF LateAnswer, Looks, PlaceOK, CookiePart, CookieOK, CookieInv, AtAccount, Slipped,
         SsoIsOwn
    <2> QED
      BY <2>1, <2>2, <2>3
  <1>5. BurntInv'
    BY DEF FormComes, Shows, WidgetSolves, WidgetExpires, Answer, LateAnswer, Looks, OthersLock,
       PageOK, BurntInv
  <1>6. FirstSubmitFresh'
    BY DEF FormComes, Shows, WidgetSolves, WidgetExpires, Answer, LateAnswer, Looks, OthersLock,
       BurntInv, FirstSubmitFresh
  <1>7. SolverHeld'
    BY DEF FormComes, Shows, WidgetSolves, WidgetExpires, Answer, LateAnswer, Looks, OthersLock,
       PlaceOK, PageOK, SolverHeld
  <1> QED
    BY <1>1, <1>2, <1>3, <1>4, <1>5, <1>6, <1>7 DEF PageInv

(* getTurnstileToken.                                                        *)
LEMMA SolverStep ==
    ASSUME PagePart, Enter \/ AwaitLock \/ SolveEnds
    PROVE  PagePart'
  <1> USE DEF PagePart, PageInv, Tokens, mine, pageVars, setting
  <1>1. FlagsOK'
    BY DEF Enter, Returns, Goes, Token, AwaitLock, SolveEnds, Clicked, FlagsOK
  <1>2. PlaceOK'
    BY DEF Enter, Returns, Goes, Token, AwaitLock, SolveEnds, Clicked, PlaceOK, PageOK
  <1>3. PageOK'
    BY DEF Enter, Returns, Goes, Token, AwaitLock, SolveEnds, Clicked, PageOK
  <1>4. CookiePart'
    <2>1. AtAccount /\ AtAccount'
      BY DEF Enter, Returns, Goes, AwaitLock, SolveEnds, PlaceOK, AtAccount
    <2>2. UNCHANGED <<setting, acct, slips, old, cookie, got>>
      BY DEF Enter, Returns, Goes, AwaitLock, SolveEnds
    <2> QED
      BY <2>1, <2>2, AccountGoesOn
  <1>5. BurntInv'
    BY DEF Enter, Returns, Goes, Token, AwaitLock, SolveEnds, Clicked, PageOK, BurntInv
  <1>6. FirstSubmitFresh'
    BY DEF Enter, Returns, Goes, Token, AwaitLock, SolveEnds, Clicked, BurntInv, FirstSubmitFresh
  <1>7. SolverHeld'
    BY DEF Enter, Returns, Goes, Token, AwaitLock, SolveEnds, Clicked, PlaceOK, PageOK, PageInv,
       SolverHeld
  <1> QED
    BY <1>1, <1>2, <1>3, <1>4, <1>5, <1>6, <1>7 DEF PageInv

(* The profile's form.                                                       *)
LEMMA FormStep ==
    ASSUME PagePart, Profile \/ Create \/ Submit
    PROVE  PagePart'
  <1> USE DEF PagePart, PageInv, Tokens, mine, pageVars, setting
  <1>1. FlagsOK'
    BY DEF Profile, AccountOver, Leaves, Forget, Restarted, Shows, Create, Spent, Goes, Token,
       Submit, Solve, Submits, FlagsOK
  <1>2. PlaceOK'
    <2>1. CASE Profile
      BY <2>1 DEF Profile, AccountOver, Leaves, Forget, Restarted, Shows, PlaceOK, PageOK
    <2>2. CASE Create
      <3>1. /\ cookie' \in {cookie, acct} /\ got' \in {got, cookie, acct}
            /\ place' \in {"have", "solve", "submit"} /\ back' \in {"submit", back}
            /\ UNCHANGED <<acct, mail, attempt, slips>>
        BY <2>2 DEF Create, Goes
      <3> QED
        BY <3>1 DEF PlaceOK
    <2>3. CASE Submit
      BY <2>3 DEF Submit, Solve, Submits, Goes, PlaceOK, PageOK
    <2> QED
      BY <2>1, <2>2, <2>3
  <1>3. PageOK'
    <2>1. CASE Profile
      BY <2>1 DEF Profile, AccountOver, Leaves, Forget, Restarted, Shows, PageOK
    <2>2. CASE Create
      BY <2>2 DEF Create, Spent, Goes, Token, PageOK
    <2>3. CASE Submit
      BY <2>3 DEF Submit, Solve, Submits, Goes, PageOK
    <2> QED
      BY <2>1, <2>2, <2>3
  <1>4. CookiePart'
    <2>1. CASE Profile
      <3>1. CASE AccountOver
        BY <2>1, <3>1, AccountEnds DEF Profile, Restarted, Leaves, AccountOver
      <3>2. CASE ~AccountOver
        BY <2>1, <3>2, AccountGoesOn DEF Profile, Restarted, Leaves, AtAccount
      <3> QED
        BY <3>1, <3>2
    <2>2. CASE Create
      BY <2>2, AccountGoesOn DEF Create, Goes, AtAccount
    <2>3. CASE Submit
      BY <2>3, AccountGoesOn DEF Submit, Submits, Solve, Goes, AtAccount
    <2> QED
      BY <2>1, <2>2, <2>3
  <1>5. BurntInv'
    BY DEF Profile, AccountOver, Leaves, Forget, Restarted, Shows, Create, Spent, Goes, Token,
       Submit, Solve, Submits, PageOK, BurntInv
  <1>6. FirstSubmitFresh'
    BY DEF Profile, AccountOver, Leaves, Forget, Restarted, Shows, Create, Spent, Goes, Token,
       Submit, Solve, Submits, BurntInv, FirstSubmitFresh
  <1>7. SolverHeld'
    BY DEF Profile, AccountOver, Leaves, Forget, Restarted, Shows, Create, Spent, Goes, Token,
       Submit, Solve, Submits, PlaceOK, PageOK, SolverHeld
  <1> QED
    BY <1>1, <1>2, <1>3, <1>4, <1>5, <1>6, <1>7 DEF PageInv

(* The cookie, the pools and the end of the worker.                          *)
LEMMA EndStep ==
    ASSUME PagePart, Sso \/ Have \/ PoolsDone \/ StopBrowser
    PROVE  PagePart'
  <1> USE DEF PagePart, PageInv, Tokens, mine, pageVars, setting
  <1>1. FlagsOK'
    BY DEF Sso, AccountOver, Leaves, Forget, RefreshPage, Restarted, Shows, Submits, Solve, Have,
       PoolsDone, StopBrowser, Goes, FlagsOK
  <1>2. PlaceOK'
    BY DEF Sso, AccountOver, Leaves, Forget, RefreshPage, Restarted, Shows, Submits, Solve, Have,
       PoolsDone, StopBrowser, Goes, PlaceOK, PageOK
  <1>3. PageOK'
    BY DEF Sso, AccountOver, Leaves, Forget, RefreshPage, Restarted, Shows, Submits, Solve, Have,
       PoolsDone, StopBrowser, Goes, PageOK
  <1>4. CookiePart'
    <2>1. CASE AccountOver
      BY <2>1, AccountEnds DEF Sso, Have, PoolsDone, StopBrowser, Leaves, Restarted, RefreshPage,
         Submits, AccountOver
    <2>2. CASE Sso /\ ~AccountOver
      BY <2>2, AccountGoesOn DEF Sso, Leaves, RefreshPage, Restarted, Submits, Solve, AtAccount
    <2>3. CASE Have /\ ~AccountOver
      BY <2>3, AccountGoesOn DEF Have, Leaves, AtAccount
    <2>4. CASE StopBrowser
      BY <2>4 DEF StopBrowser, Restarted, Goes, CookiePart, CookieOK, CookieInv, AtAccount,
         SsoIsOwn
    <2> QED
      BY <2>1, <2>2, <2>3, <2>4 DEF PoolsDone, Leaves
  <1>5. BurntInv'
    BY DEF Sso, AccountOver, Leaves, Forget, RefreshPage, Restarted, Shows, Submits, Solve, Have,
       PoolsDone, StopBrowser, Goes, PageOK, BurntInv
  <1>6. FirstSubmitFresh'
    BY DEF Sso, AccountOver, Leaves, Forget, RefreshPage, Restarted, Shows, Submits, Solve, Have,
       PoolsDone, StopBrowser, Goes, BurntInv, FirstSubmitFresh
  <1>7. SolverHeld'
    BY DEF Sso, AccountOver, Leaves, Forget, RefreshPage, Restarted, Shows, Submits, Solve, Have,
       PoolsDone, StopBrowser, Goes, PlaceOK, PageOK, SolverHeld
  <1> QED
    BY <1>1, <1>2, <1>3, <1>4, <1>5, <1>6, <1>7 DEF PageInv

-----------------------------------------------------------------------------
(* Steps that leave the page alone.                                          *)
LEMMA PageStays ==
    ASSUME PagePart,
           UNCHANGED <<setting, place, back, acct, mail, attempt, pageVars, lock, mine, user, slips>>
    PROVE  PagePart'
  <1>1. CookiePart'
    BY CookieStays DEF PagePart, PageInv, pageVars, mine
  <1> QED
    BY <1>1 DEF PagePart, PageInv, FlagsOK, PlaceOK, PageOK, BurntInv, SolverHeld,
       FirstSubmitFresh, setting, pageVars, mine

LEMMA Invariance == Spec => []IInv
  <1>1. IInv /\ [Next]_vars => IInv'
    <2> SUFFICES ASSUME PagePart, PoolPart, [Next]_vars PROVE IInv'
      BY DEF IInv
    <2>1. CASE PrepareNext \/ Clean \/ Visit \/ Click \/ Email
      <3>1. UNCHANGED poolVars
        BY <2>1 DEF PrepareNext, Clean, Visit, Click, Email
      <3> QED
        BY <2>1, <3>1, OpeningStep, PoolStays DEF IInv
    <2>2. CASE \/ FormComes \/ WidgetSolves \/ WidgetExpires \/ Answer \/ OthersLock
               \/ \E a \in 1..Accounts : LateAnswer(a)
      <3>1. UNCHANGED poolVars
        BY <2>2 DEF FormComes, WidgetSolves, WidgetExpires, Answer, OthersLock, LateAnswer
      <3> QED
        BY <2>2, <3>1, OutsideStep, PoolStays DEF IInv
    <2>3. CASE Enter \/ AwaitLock \/ SolveEnds
      <3>1. UNCHANGED poolVars
        BY <2>3 DEF Enter, AwaitLock, SolveEnds
      <3> QED
        BY <2>3, <3>1, SolverStep, PoolStays DEF IInv
    <2>4. CASE Profile \/ Create \/ Submit
      <3>1. UNCHANGED poolVars
        BY <2>4 DEF Profile, Create, Submit
      <3> QED
        BY <2>4, <3>1, FormStep, PoolStays DEF IInv
    <2>5. CASE Sso \/ Have \/ PoolsDone \/ StopBrowser
      <3>1. PagePart'
        BY <2>5, EndStep
      <3>2. ASSUME StepTo(got, "local"), Have PROVE PoolPart'
        BY <3>2, PoolStartKeeps DEF Have
      <3>3. ASSUME ~(StepTo(got, "local") /\ Have) PROVE PoolPart'
        <4>1. UNCHANGED poolVars
          BY <2>5, <3>3 DEF Sso, Have, PoolsDone, StopBrowser, poolVars
        <4> QED
          BY <4>1, PoolStays
      <3> QED
        BY <3>1, <3>2, <3>3 DEF IInv
    <2>6. ASSUME NEW a \in Adders, OthersToken(a) PROVE IInv'
      <3>1. PoolPart'
        BY <2>6, PoolStartKeeps DEF OthersToken
      <3> QED
        BY <2>6, <3>1, PageStays DEF OthersToken, IInv
    <2>7. ASSUME NEW a \in Adders, PoolStep(a) PROVE IInv'
      BY <2>7, PoolStepKeeps, PageStays DEF PoolStep, IInv
    <2>8. CASE Finished \/ UNCHANGED vars
      <3>1. /\ UNCHANGED poolVars
            /\ UNCHANGED <<setting, place, back, acct, mail, attempt, pageVars, lock, mine, user,
                           slips>>
        BY <2>8 DEF Finished, vars
      <3> QED
        BY <3>1, PageStays, PoolStays DEF IInv
    <2>9. CASE Worker
      BY <2>1, <2>3, <2>4, <2>5, <2>9 DEF Worker
    <2> QED
      BY <2>2, <2>6, <2>7, <2>8, <2>9 DEF Next
  <1> QED
    BY InitInvariant, <1>1, PTL DEF Spec

(* For any accounts, attempts and turns, and however late x.ai answers: the  *)
(* sso a worker takes is its account's, but for a soft reset that left an    *)
(* old page open or whose clearing was in vain and the session's after it    *)
(* failed; the solver's lock is held exactly while it solves, and a form is  *)
(* first submitted with a used token only after a page-side creation.        *)
THEOREM CookieAndTokenAreOwn == Spec => []OwnCookieAndToken
  <1>1. IInv => OwnCookieAndToken
    BY DEF IInv, PagePart, PoolPart, PageInv, CookiePart, OwnCookieAndToken, TypeOK
  <1> QED
    BY <1>1, Invariance, PTL

(* For any adders: a token reported as added is missing from the remote pool *)
(* only where another adder posted the whole map, and from the local file    *)
(* only where a file with tokens could once not be read or a write over one  *)
(* broke off: never because two adders wrote at once.                        *)
THEOREM LostTokensExplained == Spec => []TokensLostExplained
  <1>1. IInv => TokensLostExplained
    BY DEF IInv, PoolPart
  <1> QED
    BY <1>1, Invariance, PTL
-----------------------------------------------------------------------------
(* How far the worker is: the part of the account it is in, ...              *)
Solves == place \in {"solve", "waiting", "solving"}

Phase == CASE place \in {"next", "reset", "clean"}               -> 0
           [] place \in {"visit", "click", "email"}              -> 1
           [] place = "sso" \/ (Solves /\ back = "sso")           -> 3
           [] place = "have"                                     -> 4
           [] place = "pools"                                    -> 5
           [] OTHER                                              -> 2

(* ... and the steps to the end of a turn of that part's loop.               *)
StepsAhead ==
    LET after == IF back = "submit" THEN 5 ELSE 1
    IN  CASE place = "create"                    -> 9
          [] place = "solve"                     -> after + 3
          [] place = "waiting"                   -> after + 2
          [] place = "solving"                   -> after + 1
          [] place = "submit"                    -> 5
          [] place \in {"visit", "next"}          -> 3
          [] place \in {"reset", "click", "stop"} -> 2
          [] OTHER                               -> 1

Ended == place \in {"stop", "done"}

MovesOn ==
    \/ ~Ended /\ Ended'
    \/ acct' > acct
    \/ acct' = acct /\ mail' > mail
    \/ UNCHANGED <<acct, mail>> /\ Phase' > Phase
    \/ UNCHANGED <<acct, mail, Phase>> /\ attempt' > attempt
    \/ UNCHANGED <<acct, mail, Phase, attempt>> /\ StepsAhead' < StepsAhead

LEMMA WorkerMovesOn == PlaceOK /\ Worker => MovesOn
  <1> SUFFICES ASSUME PlaceOK, Worker PROVE MovesOn
    OBVIOUS
  <1>0. acct \in Nat /\ mail \in Nat /\ attempt \in Nat
    BY DEF PlaceOK
  <1> USE DEF MovesOn, Ended, Phase, StepsAhead, Solves
  <1>1. ASSUME AccountOver, place \notin {"stop", "done"} PROVE MovesOn
    BY <1>0, <1>1 DEF AccountOver
  <1>2. CASE PrepareNext
    <2>1. \/ /\ place \in {"next", "reset"}
             /\ AccountOver \/ (place' = "clean" /\ UNCHANGED <<back, acct, mail, attempt>>)
          \/ place = "next" /\ place' = "reset" /\ UNCHANGED <<back, acct, mail, attempt>>
      BY <1>2 DEF PrepareNext, ResetCookies, SoftReset, Goes
    <2> QED
      BY <1>0, <1>1, <2>1
  <1>3. CASE Clean \/ StopBrowser
    <2>1. /\ UNCHANGED <<back, acct, mail>>
          /\ \/ place = "clean" /\ place' = "visit"
             \/ place = "stop" /\ place' = "done" /\ UNCHANGED attempt
      BY <1>3 DEF Clean, StopBrowser, Goes
    <2> QED
      BY <1>0, <2>1
  <1>4. CASE Visit \/ Click
    BY <1>0, <1>1, <1>4 DEF Visit, Click, Leaves, Goes
  <1>5. CASE Email
    <2>1. /\ place = "email"
          /\ \/ AccountOver
             \/ mail' = mail + 1 /\ UNCHANGED acct
             \/ place' = "profile" /\ UNCHANGED <<acct, mail>>
      BY <1>5 DEF Email, Leaves
    <2> QED
      BY <1>0, <1>1, <2>1
  <1>6. CASE Enter \/ AwaitLock \/ SolveEnds
    <2>1. \/ place' = back
          \/ place = "solve" /\ place' \in {"waiting", "solving"}
          \/ place = "waiting" /\ place' = "solving"
      BY <1>6 DEF Enter, AwaitLock, SolveEnds, Returns, Goes
    <2>2. UNCHANGED <<back, acct, mail, attempt>>
      BY <1>6 DEF Enter, AwaitLock, SolveEnds, Returns, Goes
    <2>3. Solves /\ back \in {"profile", "submit", "sso"}
      BY <1>6 DEF Enter, AwaitLock, SolveEnds, PlaceOK
    <2> QED
      BY <1>0, <2>1, <2>2, <2>3
  <1>7. CASE Profile
    <2>1. /\ place = "profile"
          /\ \/ AccountOver
             \/ /\ attempt' = attempt + 1 /\ UNCHANGED <<acct, mail>>
                /\ \/ place' = "profile" \/ place' = "create"
                   \/ place' = "solve" /\ back' = "profile"
      BY <1>7 DEF Profile, Leaves
    <2> QED
      BY <1>0, <1>1, <2>1
  <1>8. CASE Create
    <2>1. /\ place = "create" /\ UNCHANGED <<acct, mail, attempt>>
          /\ place' \in {"have", "submit"} \/ (place' = "solve" /\ back' = "submit")
      BY <1>8 DEF Create, Goes
    <2> QED
      BY <1>0, <2>1
  <1>9. CASE Submit
    BY <1>0, <1>9 DEF Submit, Solve, Goes
  <1>10. CASE Sso
    BY <1>0, <1>1, <1>10 DEF Sso, Leaves, Solve
  <1>11. CASE Have \/ PoolsDone
    BY <1>0, <1>1, <1>11 DEF Have, PoolsDone, Leaves
  <1> QED
    BY <1>2, <1>3, <1>4, <1>5, <1>6, <1>7, <1>8, <1>9, <1>10, <1>11 DEF Worker

(* Whoever holds the solver's lock and whatever the page shows, a step of    *)
(* the worker moves it on to the next account, mailbox or part of the        *)
(* account, or uses up a turn of the loop it is in, or brings the turn       *)
(* nearer to its end: the loops nested in an account cannot feed each other  *)
(* for ever.                                                                 *)
THEOREM EveryTurnMovesOn == Spec => [][Worker => MovesOn]_vars
  <1>1. IInv /\ [Next]_vars => [Worker => MovesOn]_vars
    BY WorkerMovesOn DEF IInv, PagePart
  <1> QED
    BY <1>1, Invariance, PTL DEF Spec
=============================================================================
