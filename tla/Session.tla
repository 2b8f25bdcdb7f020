------------------------------- MODULE Session -------------------------------
(* Who is signed in, as the web client sees it: the token cookie that the    *)
(* middleware reads on every navigation, the user that AuthProvider asks the *)
(* backend for once per load of the tab, the sign-in forms with their        *)
(* challenge, the guard of the admin console, and the per-user data kept in  *)
(* localStorage and in the memory of the modules that read it.               *)
EXTENDS Integers, FiniteSets

CONSTANTS
    Accounts,       \* people who use this browser
    Admins,         \* those the backend's allowlist names
    Keys,           \* user-scoped stores; "profile" is the one AuthProvider writes
    CaptchaOn,      \* RECAPTCHA_SITE_KEY is set
    MaxMoves        \* bound on what people and networks do

VARIABLES
    cookie,         \* whose token pkay_token holds
    page,           \* the route that is shown
    auth,           \* AuthProvider: user, loading, prev, and the account whose token /me checks
    form,           \* LoginForm or RegisterForm, with its challenge
    guard,          \* AdminGuard
    disk, mem,      \* whose data each store holds, on disk and in its module
    late,           \* sign-ins under way whose form was left
    spent,          \* challenge tokens that were sent to the backend
    who,            \* the person in front of the browser: the last to have signed in
    parting,        \* how the last session ended, once it has
    mixed,          \* somebody signed in after a session that did not end properly
    moves

vars == <<cookie, page, auth, form, late, guard, disk, mem, spent, who, parting, mixed, moves>>
stores == <<disk, mem>>
history == <<who, parting, mixed>>

Nobody == "nobody"
Cold == {"cold"}    \* a module that has not read its store yet

Public == {"home", "login", "register"}
AuthPages == {"login", "register"}
Pages == Public \cup {"console", "admin"}

\* The gate before every page.
Middleware(c, p) ==
    IF c = Nobody /\ p \notin Public THEN "login"
    ELSE IF c # Nobody /\ p \in AuthPages THEN "console" ELSE p

Empty == [k \in Keys |-> {}]
\* The console's header reads the stores; the public pages do not.
Warm(m, p) ==
    IF p # "console" THEN m ELSE [k \in Keys |-> IF m[k] = Cold THEN disk[k] ELSE m[k]]

\* Mutant: the form keeps its token.
KeptForm(n) == [at |-> "editing", token |-> n, drawn |-> n]
NewForm(n) == [at |-> "editing", token |-> 0, drawn |-> n]
Checking == [status |-> "checking", asked |-> FALSE]
\* What a load of the tab finds: a token is checked, and without one there is nothing to wait for.
Loaded(c) ==
    [user |-> Nobody, prev |-> Nobody, asked |-> c, loading |-> c # Nobody]

Init ==
    /\ cookie = Nobody /\ page = "login" /\ auth = Loaded(Nobody)
    /\ form = NewForm(0) /\ late = 0 /\ guard = Checking
    /\ disk = Empty /\ mem = [k \in Keys |-> Cold] /\ spent = {}
    /\ who = Nobody /\ parting = "reloaded" /\ mixed = FALSE /\ moves = 0

OnForm == page \in AuthPages
Move == moves < MaxMoves /\ moves' = moves + 1
\* Entering a page mounts its form or its guard afresh; staying keeps them.
Enter(c, p) ==
    /\ page' = Middleware(c, p)
    /\ form' = IF page' = page THEN form ELSE NewForm(form.drawn)
    /\ guard' = IF page' = page THEN guard ELSE Checking
\* What a form has sent goes on without it.
Left == IF page' # page /\ form.at = "sent" THEN 1 ELSE 0
Show(c, p) == Enter(c, p) /\ late' = late + Left

-----------------------------------------------------------------------------
\* Loads and navigations.

\* A load of the tab starts every module over; Google sign-in comes back with one.
LoadAs(c, p) ==
    /\ page' = Middleware(c, p) /\ auth' = Loaded(c)
    /\ form' = NewForm(form.drawn) /\ late' = 0 /\ guard' = Checking
    /\ mem' = Warm([k \in Keys |-> Cold], page') /\ UNCHANGED <<disk, spent>>
Reload(p) ==
    /\ Move /\ LoadAs(cookie, p)
    /\ parting' = IF parting = "logout" THEN "reloaded" ELSE parting
    /\ UNCHANGED <<cookie, who, mixed>>
Navigate(p) ==
    /\ Move /\ Show(cookie, p) /\ mem' = Warm(mem, page')
    /\ UNCHANGED <<cookie, auth, disk, spent>> /\ UNCHANGED history
\* The cookie reaches its max-age, or is cleared elsewhere: nobody is told.
Expire ==
    /\ Move /\ cookie # Nobody /\ cookie' = Nobody /\ parting' = "unnoticed"
    /\ UNCHANGED <<page, auth, form, late, guard, stores, spent, who, mixed>>

-----------------------------------------------------------------------------
\* AuthProvider.

\* Mutant: only the profile is cleared.
WipedProfile == [disk EXCEPT !["profile"] = {}]
\* clearUserScopedStorage: the stores on disk, not the modules that have read them.
Wiped == Empty
\* The effect on signedInAs: a change of identity within one load wipes the disk.
Identify(u, d) ==
    /\ auth' = [auth EXCEPT !.user = u, !.prev = u, !.asked = Nobody, !.loading = FALSE]
    /\ disk' = IF auth.prev # Nobody /\ auth.prev # u THEN Wiped ELSE d
\* saveProfile writes name and email; username and the other stores are left as they are.
\* A write that throws is taken for a refusal of the token, with the user set already.
MeAnswers ==
    /\ auth.asked # Nobody /\ mem' = [mem EXCEPT !["profile"] = {auth.asked}]
    /\ \/ /\ Identify(auth.asked, [disk EXCEPT !["profile"] = {auth.asked}])
          /\ parting' = IF parting \in {"logout", "reloaded"} THEN "unnoticed" ELSE parting
          /\ UNCHANGED <<cookie, moves>>
       \/ Move /\ Identify(auth.asked, disk) /\ cookie' = Nobody /\ parting' = "unnoticed"
    /\ UNCHANGED <<page, form, late, guard, spent, who, mixed>>
\* Refused or unreachable: whatever cookie there is by now is cleared.
MeFails ==
    /\ auth.asked # Nobody /\ Move /\ cookie' = Nobody
    /\ auth' = [auth EXCEPT !.asked = Nobody, !.loading = FALSE]
    /\ parting' = "unnoticed"
    /\ UNCHANGED <<page, form, late, guard, stores, spent, who, mixed>>

\* The profile menu of the console always offers it, the marketing header to a known user.
SignsOut == page = "console"
SignOutShown == auth.user # Nobody /\ ~OnForm
\* A check of the token may still be under way.
Logout ==
    /\ Move /\ (SignsOut \/ SignOutShown)
    /\ cookie' = Nobody /\ disk' = Wiped
    /\ auth' = [auth EXCEPT !.user = Nobody, !.prev = Nobody]
    /\ Show(Nobody, "login")
    /\ parting' = IF auth.asked = Nobody /\ parting # "unnoticed" THEN "logout" ELSE "unnoticed"
    /\ UNCHANGED <<mem, spent, who, mixed>>

\* A watchlist, a preference, a draft: the module is changed and written to disk, if that
\* has room.
UseStore(k) ==
    /\ Move /\ page = "console" /\ mem' = [mem EXCEPT ![k] = @ \cup {who}]
    /\ disk' \in {disk, [disk EXCEPT ![k] = mem[k] \cup {who}]}
    /\ UNCHANGED <<cookie, page, auth, form, late, guard, spent>> /\ UNCHANGED history

-----------------------------------------------------------------------------
\* The sign-in and registration forms.

Solve ==
    /\ Move /\ OnForm /\ CaptchaOn /\ form.token = 0 /\ form.at = "editing"
    /\ form' = [form EXCEPT !.token = form.drawn + 1, !.drawn = @ + 1]
    /\ UNCHANGED <<cookie, page, auth, late, guard, stores, spent>> /\ UNCHANGED history
ChallengeExpires ==
    /\ OnForm /\ form.token # 0 /\ form' = [form EXCEPT !.token = 0]
    /\ UNCHANGED <<cookie, page, auth, late, guard, stores, spent, moves>> /\ UNCHANGED history
NeedsVerification == CaptchaOn /\ form.token = 0
\* A registration with a short password is refused here and sends nothing.
Submit ==
    /\ Move /\ OnForm /\ form.at = "editing" /\ ~NeedsVerification
    /\ \/ form' = [form EXCEPT !.at = "sent"] /\ spent' = spent \cup ({form.token} \ {0})
       \/ page = "register" /\ UNCHANGED <<form, spent>>
    /\ UNCHANGED <<cookie, page, auth, late, guard, stores>> /\ UNCHANGED history
\* Refused, or no answer: the token is single-use, so a new challenge is drawn.
Refused ==
    /\ OnForm /\ form.at = "sent" /\ form' = NewForm(form.drawn)
    /\ UNCHANGED <<cookie, page, auth, late, guard, stores, spent, moves>> /\ UNCHANGED history
\* The same for a form that was left: nobody is there to be told.
RefusedLate ==
    /\ late > 0 /\ late' = late - 1
    /\ UNCHANGED <<cookie, page, auth, form, guard, stores, spent, moves>> /\ UNCHANGED history

SignsIn(a) ==
    /\ who' = a /\ cookie' = a
    /\ mixed' = (mixed \/ (who \notin {a, Nobody} /\ parting # "reloaded"))
    /\ parting' = "none"
\* The form writes the cookie and goes on; AuthProvider, mounted above, is not told.
SignedIn(a) ==
    /\ OnForm /\ form.at = "sent" /\ SignsIn(a) /\ Enter(a, "console")
    /\ mem' = Warm(mem, page') /\ UNCHANGED <<auth, late, disk, spent, moves>>
\* The answer of a form that was left does the same, wherever the user has gone since.
SignedInLate(a) ==
    /\ late > 0 /\ SignsIn(a) /\ Enter(a, "console") /\ late' = late - 1 + Left
    /\ mem' = Warm(mem, page') /\ UNCHANGED <<auth, disk, spent, moves>>
\* The button appears once the backend says that Google is configured; the callback
\* page writes the cookie and replaces itself by a load of the console.
GoogleSignIn(a) ==
    /\ Move /\ OnForm /\ form.at = "editing" /\ SignsIn(a) /\ LoadAs(a, "console")

-----------------------------------------------------------------------------
\* The admin console's guard: an effect of loading and user.

GuardAsks ==
    /\ page = "admin" /\ ~auth.loading /\ auth.user # Nobody
    /\ guard.status = "checking" /\ ~guard.asked /\ guard' = [guard EXCEPT !.asked = TRUE]
    /\ UNCHANGED <<cookie, page, auth, form, late, stores, spent, moves>> /\ UNCHANGED history
GuardLeaves ==
    /\ page = "admin" /\ ~auth.loading /\ auth.user = Nobody /\ Show(cookie, "login")
    /\ mem' = Warm(mem, page')
    /\ UNCHANGED <<cookie, auth, disk, spent, moves>> /\ UNCHANGED history
\* Mutant: a denial is not shown.
GuardAnswersYes ==
    /\ page = "admin" /\ guard.asked /\ cookie \in Admins
    /\ guard' = [asked |-> FALSE, status |-> "authorized"]
    /\ UNCHANGED <<cookie, page, auth, form, late, stores, spent, moves>> /\ UNCHANGED history
\* The backend answers for the token it is sent.
GuardAnswers ==
    /\ page = "admin" /\ guard.asked
    /\ \E ok \in {FALSE, (cookie \in Admins)} :
         guard' = [asked |-> FALSE, status |-> IF ok THEN "authorized" ELSE "denied"]
    /\ UNCHANGED <<cookie, page, auth, form, late, stores, spent, moves>> /\ UNCHANGED history

Next ==
    \/ \E p \in Pages : Reload(p) \/ Navigate(p)
    \/ Expire \/ MeAnswers \/ MeFails \/ Logout \/ \E k \in Keys : UseStore(k)
    \/ Solve \/ ChallengeExpires \/ Submit \/ Refused \/ RefusedLate
    \/ \E a \in Accounts : SignedIn(a) \/ SignedInLate(a) \/ GoogleSignIn(a)
    \/ GuardAsks \/ GuardLeaves \/ GuardAnswers
Fairness ==
    /\ WF_vars(MeAnswers) /\ WF_vars(Refused \/ \E a \in Accounts : SignedIn(a))
    /\ WF_vars(GuardAsks) /\ WF_vars(GuardLeaves) /\ WF_vars(GuardAnswers)
Spec == Init /\ [][Next]_vars /\ Fairness

-----------------------------------------------------------------------------
TypeOK ==
    /\ {cookie, who, auth.user, auth.prev, auth.asked} \subseteq Accounts \cup {Nobody}
    /\ page \in Pages /\ guard.status \in {"checking", "authorized", "denied"}
    /\ \A k \in Keys : disk[k] \subseteq Accounts /\ (mem[k] = Cold \/ mem[k] \subseteq Accounts)
    /\ late \in Nat

\* Somebody who signs in meets none of the data of those who used the browser
\* before, on disk or in memory, provided each of them signed out, with no check
\* of the token under way, and the tab was loaded again before the next came.
Held(k) == disk[k] \cup (mem[k] \ Cold)
NothingIsLeftBehind ==
    ~mixed /\ cookie # Nobody => \A k \in Keys : Held(k) \subseteq {cookie}

\* Not kept by the code, see the README.
\* The same without the proviso: what user-storage.ts promises.
OwnDataOnly == cookie # Nobody => \A k \in Keys : disk[k] \subseteq {cookie}

\* The form never holds a challenge token that was sent before: it is single-use.
TokensAreFresh == OnForm /\ form.at = "editing" => form.token \notin spent

\* The console's pages are drawn only for somebody on the allowlist.
ConsoleIsForAdmins == page = "admin" /\ guard.status = "authorized" => who \in Admins

\* The guard comes to a decision: it lets in, denies, or leaves for the sign-in page.
GuardDecides == page = "admin" ~> page # "admin" \/ guard.status # "checking"

\* A form that was sent is answered: it does not stay disabled.
FormReturns == form.at = "sent" ~> form.at = "editing"

\* Not kept by the code, see the README.
\* Who has signed in is noticed without a reload.
SignInIsNoticed == page = "console" /\ cookie # Nobody ~> auth.user = cookie \/ cookie = Nobody
=============================================================================
