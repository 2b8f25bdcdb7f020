----------------------------- MODULE WebAccount -----------------------------
(* The pages of the web client that are about the person who uses it: signing *)
(* in and out, the settings, buying a plan, the admin console and its grid.   *)
(* Each keeps its own state, so a behaviour is one of the page that is open   *)
(* at the start.                                                              *)
EXTENDS Integers, Sequences

CONSTANTS
    Accounts, Admins, Keys, CaptchaOn, SessionMoves,
    Watched, SettingsMoves,
    POLL_ATTEMPTS, MaxPayments, CheckoutMoves,
    Consoles, MaxRequests, MaxFetches, TurnstileOn, AdminMoves,
    Releases, GridTabs, GridMoves

VARIABLES
    at,         \* the page that is open
    ssCookie, ssPage, ssAuth, ssForm, ssLate, ssGuard, ssDisk, ssMem, ssSpent, ssWho,
    ssParting, ssMixed, ssMoves,
    stPrefs, stPrefsDisk, stProfile, stProfileDisk, stParted, stPanel, stTouched, stMoves,
    coPage, coUser, coPlan, coPayments, coView, coInfo, coPolls, coClicks, coToasts, coMoves,
    adRegistry, adChanges, adAccounts, adForm, adSpent, adCon, adTold, adMoves,
    wgRelease, wgStored, wgTabs, wgBroken, wgMoves

ssVars == <<ssCookie, ssPage, ssAuth, ssForm, ssLate, ssGuard, ssDisk, ssMem, ssSpent, ssWho,
    ssParting, ssMixed, ssMoves>>
stVars == <<stPrefs, stPrefsDisk, stProfile, stProfileDisk, stParted, stPanel, stTouched,
    stMoves>>
coVars == <<coPage, coUser, coPlan, coPayments, coView, coInfo, coPolls, coClicks, coToasts,
    coMoves>>
adVars == <<adRegistry, adChanges, adAccounts, adForm, adSpent, adCon, adTold, adMoves>>
wgVars == <<wgRelease, wgStored, wgTabs, wgBroken, wgMoves>>
vars == <<at, ssVars, stVars, coVars, adVars, wgVars>>

\* The state of a page that is not open.
Closed == 0

Session == INSTANCE Session WITH MaxMoves <- SessionMoves, cookie <- ssCookie,
    page <- ssPage, auth <- ssAuth, form <- ssForm, late <- ssLate, guard <- ssGuard,
    disk <- ssDisk, mem <- ssMem, spent <- ssSpent, who <- ssWho, parting <- ssParting,
    mixed <- ssMixed, moves <- ssMoves
Settings == INSTANCE Settings WITH MaxMoves <- SettingsMoves, prefs <- stPrefs,
    prefsDisk <- stPrefsDisk, profile <- stProfile, profileDisk <- stProfileDisk,
    parted <- stParted, panel <- stPanel, touched <- stTouched, moves <- stMoves
Checkout == INSTANCE Checkout WITH MaxMoves <- CheckoutMoves, page <- coPage, user <- coUser,
    plan <- coPlan, payments <- coPayments, view <- coView, info <- coInfo, polls <- coPolls,
    clicks <- coClicks, toasts <- coToasts, moves <- coMoves
Admin == INSTANCE Admin WITH MaxMoves <- AdminMoves, registry <- adRegistry,
    changes <- adChanges, accounts <- adAccounts, form <- adForm, spent <- adSpent,
    con <- adCon, told <- adTold, moves <- adMoves
Grid == INSTANCE WidgetGrid WITH Tabs <- GridTabs, MaxMoves <- GridMoves,
    release <- wgRelease, stored <- wgStored, tabs <- wgTabs, broken <- wgBroken,
    moves <- wgMoves

\* "Nobody" and "cold" name no account, and the profile is one of the stores.
ASSUME SessionAssumption ==
    /\ Admins \subseteq Accounts
    /\ Session!Nobody \notin Accounts /\ "cold" \notin Accounts
    /\ "profile" \in Keys
ASSUME SettingsAssumption == Watched \subseteq Settings!Fields /\ SettingsMoves \in Nat
ASSUME CheckoutAssumption == MaxPayments \in Nat /\ POLL_ATTEMPTS \in Nat \ {0}
ASSUME AdminAssumption == MaxRequests \in Nat /\ MaxFetches \in Nat \ {0}
\* Some release was served, and each has its widgets once.
ASSUME GridAssumption ==
    /\ Len(Releases) \in Nat \ {0} /\ DOMAIN Releases = 1..Len(Releases)
    /\ \A n \in DOMAIN Releases :
        /\ Releases[n] \in Seq(Grid!Widgets)
        /\ \A i, j \in DOMAIN Releases[n] : Releases[n][i] = Releases[n][j] => i = j

\* A page that is not open keeps no state.
ssOff == ssCookie = Closed /\ ssPage = Closed /\ ssAuth = Closed /\ ssForm = Closed /\
    ssLate = Closed /\ ssGuard = Closed /\ ssDisk = Closed /\ ssMem = Closed /\
    ssSpent = Closed /\ ssWho = Closed /\ ssParting = Closed /\ ssMixed = Closed /\
    ssMoves = Closed
stOff == stPrefs = Closed /\ stPrefsDisk = Closed /\ stProfile = Closed /\
    stProfileDisk = Closed /\ stParted = Closed /\ stPanel = Closed /\ stTouched = Closed /\
    stMoves = Closed
coOff == coPage = Closed /\ coUser = Closed /\ coPlan = Closed /\ coPayments = Closed /\
    coView = Closed /\ coInfo = Closed /\ coPolls = Closed /\ coClicks = Closed /\
    coToasts = Closed /\ coMoves = Closed
adOff == adRegistry = Closed /\ adChanges = Closed /\ adAccounts = Closed /\ adForm = Closed /\
    adSpent = Closed /\ adCon = Closed /\ adTold = Closed /\ adMoves = Closed
wgOff == wgRelease = Closed /\ wgStored = Closed /\ wgTabs = Closed /\ wgBroken = Closed /\
    wgMoves = Closed

Init ==
    /\ at \in {"session", "settings", "checkout", "admin", "grid"}
    /\ IF at = "session" THEN Session!Init ELSE ssOff
    /\ IF at = "settings" THEN Settings!Init ELSE stOff
    /\ IF at = "checkout" THEN Checkout!Init ELSE coOff
    /\ IF at = "admin" THEN Admin!Init ELSE adOff
    /\ IF at = "grid" THEN Grid!Init ELSE wgOff

Signing == at = "session" /\ Session!Next /\ UNCHANGED <<at, stVars, coVars, adVars, wgVars>>
Adjusting == at = "settings" /\ Settings!Next /\ UNCHANGED <<at, ssVars, coVars, adVars,
    wgVars>>
Buying == at = "checkout" /\ Checkout!Next /\ UNCHANGED <<at, ssVars, stVars, adVars, wgVars>>
Reviewing == at = "admin" /\ Admin!Next /\ UNCHANGED <<at, ssVars, stVars, coVars, wgVars>>
Arranging == at = "grid" /\ Grid!Next /\ UNCHANGED <<at, ssVars, stVars, coVars, adVars>>
Next == Signing \/ Adjusting \/ Buying \/ Reviewing \/ Arranging

\* On the checkout page timers fire and the backend answers.
OnCheckout(A) == at = "checkout" /\ A /\ UNCHANGED <<at, ssVars, stVars, adVars, wgVars>>
Fairness == \A i \in 1..MaxPayments :
    WF_vars(OnCheckout(Checkout!PollWakes(i))) /\ WF_vars(OnCheckout(Checkout!PollAnswers(i)))
Spec == Init /\ [][Next]_vars /\ Fairness
-----------------------------------------------------------------------------
\* The type invariant of the page that is open.
PagesAreTyped ==
    CASE at = "session" -> Session!TypeOK
      [] at = "settings" -> Settings!TypeOK
      [] at = "checkout" -> Checkout!TypeOK
      [] at = "admin" -> Admin!TypeOK
      [] at = "grid" -> Grid!TypeOK

\* Signing out clears the browser: who signs in next meets nothing of the person
\* before, on disk or in the modules, as long as nothing was under way and the tab
\* was loaded again. And the console is shown to administrators only.
AccountsStayApart ==
    at = "session" => Session!NothingIsLeftBehind /\ Session!ConsoleIsForAdmins

\* A challenge token is single-use: no form that can be sent holds a spent one.
TokensAreFresh == at = "session" => Session!TokensAreFresh

\* The preferences and the profile in memory are those a reload would find, each unless
\* its last write failed or a sign-out has emptied the storage under it.
StoresAgree == at = "settings" => Settings!StoresAgree

\* What a page reports as done is done: the checkout announces only a payment that
\* settled and activated, and the request form thanks only for a request on record.
SuccessIsReal ==
    /\ at = "checkout" => Checkout!PaidMeansActive
    /\ at = "admin" => Admin!ThankedIsRegistered

\* A payment that settles while it is polled for is activated, unless the tab is
\* loaded again, and no more answers can be lost than the poll has attempts.
Awaited(i) ==
    /\ at = "checkout" /\ Checkout!Settled(i)
    /\ coPolls[i].at = "sleeping" /\ coPolls[i].left > CheckoutMoves - coMoves
Served(i) == at = "checkout" /\ (Checkout!Active(i) \/ coPolls[i].at = "none")
CaughtWhilePolling == \A i \in 1..MaxPayments : Awaited(i) ~> Served(i)

\* Overlapping refreshes never put an older list in the place of a newer one.
ListGoesForward ==
    [][at = "admin" => \A c \in Consoles :
        adCon'[c].page = adCon[c].page /\ adCon'[c].data # Admin!NoData =>
            adCon'[c].data.at >= adCon[c].data.at]_adVars

\* Each tab's grid shows every widget of its release once, whatever order was saved.
EveryWidgetOnce == at = "grid" => Grid!EveryWidgetOnce
=============================================================================
