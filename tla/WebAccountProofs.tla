--------------------------- MODULE WebAccountProofs ---------------------------
(***************************************************************************)
(* Proofs about the pages of the person who uses the client, for any       *)
(* accounts, stores, fields, payments, consoles, requests and moves.       *)
(***************************************************************************)
EXTENDS WebAccount, DataLemmas

-------------------------------------------------------------------------------
\* Signing in and out: whose data the browser keeps, and what lets whom in.

\* The kinds of what the tab keeps.
People == Accounts \cup {Session!Nobody}
SessionTypes ==
    /\ ssCookie \in People /\ ssWho \in People /\ ssPage \in Session!Pages
    /\ ssAuth \in [user : People, prev : People, asked : People, loading : BOOLEAN]
    /\ ssForm \in [at : {"editing", "sent"}, token : Nat, drawn : Nat]
    /\ ssGuard \in [status : {"checking", "authorized", "denied"}, asked : BOOLEAN]
    /\ ssDisk \in [Keys -> SUBSET Accounts]
    /\ ssMem \in [Keys -> {Session!Cold} \cup SUBSET Accounts]
    /\ ssMixed \in BOOLEAN /\ ssLate \in Nat

\* The cookie is of the last who signed in, a page that needs one was entered with one,
\* and the console has read its stores.
PagesKnowWho ==
    /\ ssCookie \in {Session!Nobody, ssWho}
    /\ ssPage \notin Session!Public => ssWho \in Accounts
    /\ ssPage = "console" => \A k \in Keys : ssMem[k] # Session!Cold

\* Until sessions mix, all data is of the last who signed in; a session that was signed
\* out of has left none on disk, and one that was reloaded since has left none at all.
DataIsTheirs ==
    /\ ~ssMixed => /\ ssAuth.asked \in {Session!Nobody, ssWho}
                   /\ \A k \in Keys : Session!Held(k) \subseteq {ssWho}
    /\ ssParting \in {"logout", "reloaded"} =>
        /\ ssCookie = Session!Nobody /\ ssAuth.asked = Session!Nobody
        /\ ssPage \in Session!Public
        /\ \A k \in Keys : ssDisk[k] = {}
    /\ ssParting = "reloaded" => \A k \in Keys : ssMem[k] = Session!Cold

\* Tokens are numbered in the order they are drawn, and the last one alone can be unspent.
TokensAreDrawn ==
    /\ ssSpent \subseteq 1 .. ssForm.drawn
    /\ ssForm.token \in {0, ssForm.drawn}
    /\ ssForm.at = "editing" => ssForm.token \notin ssSpent

SessionInv ==
    /\ SessionTypes /\ PagesKnowWho /\ DataIsTheirs /\ TokensAreDrawn
    /\ Session!ConsoleIsForAdmins

LEMMA SessionInit == Session!Init => SessionInv
<1> SUFFICES ASSUME Session!Init PROVE SessionInv
  OBVIOUS
<1> USE SessionAssumption DEF Session!Init
<1>1. SessionTypes
  BY DEF SessionTypes, People, Session!Loaded, Session!NewForm, Session!Checking,
           Session!Empty, Session!Pages, Session!Public, Session!Cold
<1>2. PagesKnowWho
  BY DEF PagesKnowWho, Session!Public
<1>3. DataIsTheirs
  BY DEF DataIsTheirs, Session!Held, Session!Empty, Session!Loaded, Session!Cold, Session!Public
<1>4. TokensAreDrawn /\ Session!ConsoleIsForAdmins
  BY DEF TokensAreDrawn, Session!NewForm, Session!ConsoleIsForAdmins
<1> QED BY <1>1, <1>2, <1>3, <1>4 DEF SessionInv

\* What the middleware does with a page.
LEMMA MiddlewareIs ==
    ASSUME NEW c, NEW p \in Session!Pages
    PROVE  /\ Session!Middleware(c, p) \in Session!Pages
           /\ c = Session!Nobody => Session!Middleware(c, p) \in Session!Public
           /\ c # Session!Nobody => Session!Middleware(c, p) \notin Session!AuthPages
BY DEF Session!Middleware, Session!Pages, Session!Public, Session!AuthPages

\* What a render of a page reads.
LEMMA WarmIs ==
    ASSUME NEW m \in [Keys -> {Session!Cold} \cup SUBSET Accounts], NEW p,
           ssDisk \in [Keys -> SUBSET Accounts]
    PROVE  /\ Session!Warm(m, p) \in [Keys -> {Session!Cold} \cup SUBSET Accounts]
           /\ p # "console" => Session!Warm(m, p) = m
           /\ p = "console" => \A k \in Keys : Session!Warm(m, p)[k] # Session!Cold
           /\ \A k \in Keys : Session!Warm(m, p)[k] \in {m[k], ssDisk[k]}
<1>1. \A k \in Keys : ssDisk[k] # Session!Cold
  BY SessionAssumption DEF Session!Cold
<1> QED BY <1>1 DEF Session!Warm

\* A challenge and its form.
LEMMA FormKeepsSession ==
    ASSUME SessionInv, Session!Solve \/ Session!ChallengeExpires \/ Session!Submit \/
             Session!Refused \/ Session!RefusedLate
    PROVE  SessionInv'
<1>1. SessionTypes
  BY DEF SessionInv
<1>2. /\ UNCHANGED << ssCookie, ssPage, ssAuth, ssGuard, ssDisk, ssMem, ssWho, ssParting,
           ssMixed >>
      /\ ssLate' \in Nat
  <2>1. CASE Session!RefusedLate
    BY <1>1, <2>1 DEF Session!RefusedLate, SessionTypes, Session!stores, Session!history
  <2>2. CASE ~Session!RefusedLate
    BY <1>1, <2>2 DEF Session!Solve, Session!ChallengeExpires, Session!Submit,
         Session!Refused, SessionTypes, Session!stores, Session!history
  <2> QED BY <2>1, <2>2
<1>3. /\ ssForm' \in [at : {"editing", "sent"}, token : Nat, drawn : Nat]
      /\ TokensAreDrawn'
  <2>1. /\ ssForm \in [at : {"editing", "sent"}, token : Nat, drawn : Nat]
        /\ TokensAreDrawn
    BY <1>1 DEF SessionTypes, SessionInv
  <2>2. CASE Session!Solve
    <3>1. /\ ssForm' = [ssForm EXCEPT !.token = ssForm.drawn + 1, !.drawn = ssForm.drawn + 1]
          /\ ssSpent' = ssSpent
      BY <2>2 DEF Session!Solve, Session!stores
    <3>2. /\ ssForm' \in [at : {"editing", "sent"}, token : Nat, drawn : Nat]
          /\ ssForm'.drawn = ssForm.drawn + 1 /\ ssForm'.token = ssForm'.drawn
          /\ ssForm.drawn \in Nat
      <4>1. ssForm.drawn \in Nat /\ ssForm.drawn + 1 \in Nat
        BY <2>1
      <4> DEFINE n == ssForm.drawn + 1
      <4>2. ssForm' = [ssForm EXCEPT !.token = n, !.drawn = n] /\ n \in Nat /\
              n = ssForm.drawn + 1
        BY <3>1, <4>1
      <4> HIDE DEF n
      <4> QED BY <2>1, <4>1, <4>2
    <3>3. ssSpent' \subseteq 1 .. ssForm'.drawn /\ ssForm'.token \notin ssSpent'
      BY <2>1, <3>1, <3>2 DEF TokensAreDrawn
    <3> QED BY <3>2, <3>3 DEF TokensAreDrawn
  <2>3. CASE Session!ChallengeExpires
    BY <2>1, <2>3 DEF Session!ChallengeExpires, TokensAreDrawn, Session!stores
  <2>4. CASE Session!Submit
    <3>1. CASE /\ ssForm' = [ssForm EXCEPT !.at = "sent"]
               /\ ssSpent' = ssSpent \cup ({ssForm.token} \ {0})
      BY <2>1, <3>1 DEF TokensAreDrawn
    <3>2. CASE UNCHANGED << ssForm, ssSpent >>
      BY <2>1, <3>2 DEF TokensAreDrawn
    <3> QED BY <2>4, <3>1, <3>2 DEF Session!Submit
  <2>5. CASE Session!Refused
    BY <2>1, <2>5 DEF Session!Refused, TokensAreDrawn, Session!NewForm, Session!stores
  <2>6. CASE Session!RefusedLate
    BY <2>1, <2>6 DEF Session!RefusedLate, TokensAreDrawn
  <2> QED BY <2>2, <2>3, <2>4, <2>5, <2>6
<1>4. SessionTypes' /\ PagesKnowWho' /\ DataIsTheirs' /\ Session!ConsoleIsForAdmins'
  BY <1>2, <1>3 DEF SessionInv, SessionTypes, PagesKnowWho, DataIsTheirs, Session!Held,
       Session!ConsoleIsForAdmins
<1> QED BY <1>3, <1>4 DEF SessionInv

\* The guard lets in whom the backend knows as an administrator.
LEMMA GuardKeepsSession ==
    ASSUME SessionInv, Session!GuardAsks \/ Session!GuardAnswers
    PROVE  SessionInv'
<1>1. /\ UNCHANGED << ssCookie, ssPage, ssAuth, ssForm, ssLate, ssDisk, ssMem, ssSpent,
           ssWho, ssParting, ssMixed >>
      /\ \/ ssGuard' = [ssGuard EXCEPT !.asked = TRUE] /\ ssGuard.status = "checking"
         \/ ssGuard' = [asked |-> FALSE, status |-> "denied"]
         \/ ssGuard' = [asked |-> FALSE, status |-> "authorized"] /\ ssCookie \in Admins
  <2>1. CASE Session!GuardAsks
    BY <2>1 DEF Session!GuardAsks, Session!stores, Session!history
  <2>2. CASE Session!GuardAnswers
    <3>1. PICK ok \in {FALSE, (ssCookie \in Admins)} :
            ssGuard' = [asked |-> FALSE, status |-> IF ok THEN "authorized" ELSE "denied"]
      BY <2>2 DEF Session!GuardAnswers
    <3>2. ok => ssCookie \in Admins
      BY <3>1, Zenon
    <3> QED BY <2>2, <3>1, <3>2 DEF Session!GuardAnswers, Session!stores, Session!history
  <2> QED BY <2>1, <2>2
<1>2. /\ ssGuard' \in [status : {"checking", "authorized", "denied"}, asked : BOOLEAN]
      /\ ssGuard'.status = "authorized" => ssCookie \in Admins
  <2>1. ssGuard \in [status : {"checking", "authorized", "denied"}, asked : BOOLEAN]
    BY DEF SessionInv, SessionTypes
  <2>2. CASE ssGuard' = [ssGuard EXCEPT !.asked = TRUE] /\ ssGuard.status = "checking"
    BY <2>1, <2>2
  <2>3. CASE ssGuard' = [asked |-> FALSE, status |-> "denied"]
    BY <2>3
  <2>4. CASE ssGuard' = [asked |-> FALSE, status |-> "authorized"] /\ ssCookie \in Admins
    BY <2>4
  <2> QED BY <1>1, <2>2, <2>3, <2>4
<1>3. ssCookie \in Admins => ssWho \in Admins
  BY SessionAssumption DEF SessionInv, PagesKnowWho
<1>4. SessionTypes' /\ PagesKnowWho' /\ DataIsTheirs' /\ TokensAreDrawn'
  BY <1>1, <1>2 DEF SessionInv, SessionTypes, PagesKnowWho, DataIsTheirs, Session!Held,
       TokensAreDrawn
<1>5. Session!ConsoleIsForAdmins'
  BY <1>1, <1>2, <1>3 DEF Session!ConsoleIsForAdmins
<1> QED BY <1>4, <1>5 DEF SessionInv

\* Entering a page: its form holds no token, its guard has let nobody in, and what it
\* reads was on disk.
Enters(c, p) ==
    /\ ssPage' = Session!Middleware(c, p)
    /\ ssForm' = Session!NewForm(ssForm.drawn) \/ UNCHANGED << ssPage, ssForm >>
    /\ ssGuard' = Session!Checking \/ UNCHANGED << ssPage, ssGuard >>
    /\ ssSpent' = ssSpent

LEMMA EnterKeeps ==
    ASSUME SessionInv, NEW c \in People, NEW p \in Session!Pages, Enters(c, p)
    PROVE  /\ ssPage' \in Session!Pages
           /\ ssForm' \in [at : {"editing", "sent"}, token : Nat, drawn : Nat]
           /\ ssGuard' \in [status : {"checking", "authorized", "denied"}, asked : BOOLEAN]
           /\ TokensAreDrawn'
           /\ ssWho' = ssWho => Session!ConsoleIsForAdmins'
           /\ ssGuard'.status # "authorized" => Session!ConsoleIsForAdmins'
<1>1. ssPage' \in Session!Pages
  BY MiddlewareIs DEF Enters
<1>2. /\ ssForm \in [at : {"editing", "sent"}, token : Nat, drawn : Nat]
      /\ ssGuard \in [status : {"checking", "authorized", "denied"}, asked : BOOLEAN]
  BY DEF SessionInv, SessionTypes
<1>3. ssForm' \in [at : {"editing", "sent"}, token : Nat, drawn : Nat] /\ TokensAreDrawn'
  <2>1. CASE ssForm' = Session!NewForm(ssForm.drawn)
    BY <1>2, <2>1 DEF Enters, SessionInv, TokensAreDrawn, Session!NewForm
  <2>2. CASE ssForm' = ssForm
    BY <1>2, <2>2 DEF Enters, SessionInv, TokensAreDrawn
  <2> QED BY <2>1, <2>2 DEF Enters
<1>4. /\ ssGuard' \in [status : {"checking", "authorized", "denied"}, asked : BOOLEAN]
      /\ ssGuard'.status = "authorized" => ssGuard' = ssGuard /\ ssPage' = ssPage
  <2>1. CASE ssGuard' = Session!Checking
    BY <2>1 DEF Session!Checking
  <2>2. CASE UNCHANGED << ssPage, ssGuard >>
    BY <1>2, <2>2
  <2> QED BY <2>1, <2>2 DEF Enters
<1> QED BY <1>1, <1>3, <1>4 DEF SessionInv, Session!ConsoleIsForAdmins

\* A navigation, and a load of the tab by somebody who stays.
LEMMA MoveKeepsSession ==
    ASSUME SessionInv,
           \/ \E p \in Session!Pages : Session!Reload(p) \/ Session!Navigate(p)
           \/ Session!GuardLeaves
    PROVE  SessionInv'
<1>1. /\ UNCHANGED << ssCookie, ssDisk, ssWho, ssMixed >>
      /\ ssLate' = ssLate + Session!Left \/ ssLate' = 0
      /\ \E p \in Session!Pages : Enters(ssCookie, p)
      /\ \/ ssAuth' = ssAuth /\ ssMem' = Session!Warm(ssMem, ssPage') /\ ssParting' = ssParting
         \/ /\ ssAuth' = Session!Loaded(ssCookie)
            /\ ssMem' = Session!Warm([k \in Keys |-> Session!Cold], ssPage')
            /\ ssParting' = IF ssParting = "logout" THEN "reloaded" ELSE ssParting
  <2>1. ASSUME NEW p \in Session!Pages, Session!Reload(p) PROVE <1>1
    BY <2>1 DEF Session!Reload, Session!LoadAs, Enters
  <2>2. ASSUME NEW p \in Session!Pages, Session!Navigate(p) PROVE <1>1
    BY <2>2 DEF Session!Navigate, Session!Show, Session!Enter, Enters, Session!history
  <2>3. CASE Session!GuardLeaves
    <3>1. "login" \in Session!Pages
      BY DEF Session!Pages, Session!Public
    <3> QED BY <2>3, <3>1 DEF Session!GuardLeaves, Session!Show, Session!Enter, Enters,
              Session!history
  <2> QED BY <2>1, <2>2, <2>3
<1> DEFINE cold == [k \in Keys |-> Session!Cold]
<1>2. /\ SessionTypes /\ PagesKnowWho /\ DataIsTheirs
      /\ ssCookie \in People /\ ssDisk \in [Keys -> SUBSET Accounts]
      /\ ssMem \in [Keys -> {Session!Cold} \cup SUBSET Accounts]
      /\ cold \in [Keys -> {Session!Cold} \cup SUBSET Accounts]
      /\ \A k \in Keys : cold[k] = Session!Cold
  BY DEF SessionInv, SessionTypes
<1>3. /\ ssPage' \in Session!Pages
      /\ ssForm' \in [at : {"editing", "sent"}, token : Nat, drawn : Nat]
      /\ ssGuard' \in [status : {"checking", "authorized", "denied"}, asked : BOOLEAN]
      /\ TokensAreDrawn' /\ Session!ConsoleIsForAdmins'
  BY <1>1, <1>2, EnterKeeps
<1>4. ssCookie = Session!Nobody => ssPage' \in Session!Public
  BY <1>1, MiddlewareIs DEF Enters
<1>5. /\ ssMem' \in [Keys -> {Session!Cold} \cup SUBSET Accounts]
      /\ ssPage' = "console" => \A k \in Keys : ssMem'[k] # Session!Cold
      /\ \A k \in Keys : ssMem'[k] \in {ssMem[k], Session!Cold, ssDisk[k]}
      /\ ssPage' # "console" => ssMem' \in {ssMem, cold}
  <2>1. CASE ssMem' = Session!Warm(ssMem, ssPage')
    BY <1>2, <2>1, WarmIs
  <2>2. CASE ssMem' = Session!Warm(cold, ssPage')
    BY <1>2, <2>2, WarmIs
  <2> QED BY <1>1, <2>1, <2>2
<1> HIDE DEF cold
<1>6. SessionTypes'
  <2>1. ssAuth' \in [user : People, prev : People, asked : People, loading : BOOLEAN]
    <3>1. Session!Loaded(ssCookie) \in [user : People, prev : People, asked : People,
            loading : BOOLEAN]
      BY <1>2 DEF Session!Loaded, People
    <3> QED BY <1>1, <1>2, <3>1 DEF SessionTypes
  <2>2. ssLate' \in Nat
    BY <1>1, <1>2 DEF SessionTypes, Session!Left
  <2> QED BY <1>1, <1>2, <1>3, <1>5, <2>1, <2>2 DEF SessionTypes
<1>7. PagesKnowWho'
  BY <1>1, <1>2, <1>4, <1>5, SessionAssumption DEF PagesKnowWho, SessionTypes, People
<1>8. DataIsTheirs'
  <2>1. \A k \in Keys : Session!Held(k)' \subseteq Session!Held(k)
    BY <1>1, <1>2, <1>5 DEF Session!Held
  <2>2. ~ssMixed' => /\ ssAuth'.asked \in {Session!Nobody, ssWho'}
                     /\ \A k \in Keys : Session!Held(k)' \subseteq {ssWho'}
    BY <1>1, <1>2, <2>1 DEF DataIsTheirs, PagesKnowWho, Session!Loaded
  <2>3. ssParting' \in {"logout", "reloaded"} =>
          /\ ssCookie' = Session!Nobody /\ ssAuth'.asked = Session!Nobody
          /\ ssPage' \in Session!Public
          /\ \A k \in Keys : ssDisk'[k] = {}
    BY <1>1, <1>2, <1>4 DEF DataIsTheirs, Session!Loaded
  <2>4. ssParting' = "reloaded" => \A k \in Keys : ssMem'[k] = Session!Cold
    <3>1. ASSUME ssParting' = "reloaded" PROVE ssMem' \in {ssMem, cold} /\ ssPage' # "console"
      BY <1>5, <2>3, <3>1 DEF Session!Public
    <3>2. ASSUME ssParting' = "reloaded", ssParting # "reloaded" PROVE ssMem' = cold
      <4>1. ssMem' = Session!Warm(cold, ssPage')
        BY <1>1, <3>2 DEF cold
      <4> QED BY <1>2, <3>1, <3>2, <4>1, WarmIs
    <3> QED BY <1>2, <3>1, <3>2 DEF DataIsTheirs
  <2> QED BY <2>2, <2>3, <2>4 DEF DataIsTheirs
<1> QED BY <1>3, <1>6, <1>7, <1>8 DEF SessionInv

\* The cookie goes, and nobody is told.
LEMMA ExpiryKeepsSession ==
    ASSUME SessionInv, Session!Expire \/ Session!MeFails
    PROVE  SessionInv'
<1>1. /\ UNCHANGED << ssPage, ssForm, ssLate, ssGuard, ssDisk, ssMem, ssSpent, ssWho,
           ssMixed >>
      /\ ssCookie' = Session!Nobody /\ ssParting' = "unnoticed"
      /\ ssAuth' = ssAuth \/ ssAuth' = [ssAuth EXCEPT !.asked = Session!Nobody,
           !.loading = FALSE]
  BY DEF Session!Expire, Session!MeFails, Session!stores
<1>2. SessionTypes /\ PagesKnowWho /\ DataIsTheirs
  BY DEF SessionInv
<1>3. /\ ssAuth' \in [user : People, prev : People, asked : People, loading : BOOLEAN]
      /\ ssAuth'.asked \in {ssAuth.asked, Session!Nobody}
  <2>1. ssAuth \in [user : People, prev : People, asked : People, loading : BOOLEAN]
        /\ Session!Nobody \in People
    BY <1>2 DEF SessionTypes, People
  <2> QED BY <1>1, <2>1
<1>4. SessionTypes'
  BY <1>1, <1>2, <1>3 DEF SessionTypes, People
<1>5. PagesKnowWho' /\ TokensAreDrawn' /\ Session!ConsoleIsForAdmins'
  BY <1>1 DEF SessionInv, PagesKnowWho, TokensAreDrawn, Session!ConsoleIsForAdmins
<1>6. DataIsTheirs'
  BY <1>1, <1>2, <1>3 DEF DataIsTheirs, Session!Held
<1> QED BY <1>4, <1>5, <1>6 DEF SessionInv

\* The backend knows whose token it is: a check under way is of the last who signed in.
LEMMA AnswerKeepsSession ==
    ASSUME SessionInv, Session!MeAnswers
    PROVE  SessionInv'
<1> DEFINE u == ssAuth.asked
           kept == [ssDisk EXCEPT !["profile"] = {u}]
<1>1. /\ UNCHANGED << ssPage, ssForm, ssLate, ssGuard, ssSpent, ssWho, ssMixed >>
      /\ ssCookie' \in {ssCookie, Session!Nobody}
      /\ u # Session!Nobody
      /\ ssMem' = [ssMem EXCEPT !["profile"] = {u}]
      /\ ssDisk' \in {Session!Wiped, kept, ssDisk}
      /\ ssAuth' = [ssAuth EXCEPT !.user = u, !.prev = u, !.asked = Session!Nobody,
           !.loading = FALSE]
      /\ ssParting' \in {ssParting, "unnoticed"} \ {"logout", "reloaded"}
  BY DEF Session!MeAnswers, Session!Identify
<1>2. SessionTypes /\ PagesKnowWho /\ DataIsTheirs
  BY DEF SessionInv
<1>3. /\ ssAuth \in [user : People, prev : People, asked : People, loading : BOOLEAN]
      /\ ssDisk \in [Keys -> SUBSET Accounts]
      /\ ssMem \in [Keys -> {Session!Cold} \cup SUBSET Accounts]
      /\ Session!Nobody \in People
  BY <1>2 DEF SessionTypes, People
<1>4. u \in Accounts
  BY <1>1, <1>3 DEF People
<1>5. ssAuth' \in [user : People, prev : People, asked : People, loading : BOOLEAN]
      /\ ssAuth'.asked = Session!Nobody
  BY <1>1, <1>3
<1>6. /\ ssDisk' \in [Keys -> SUBSET Accounts]
      /\ ssMem' \in [Keys -> {Session!Cold} \cup SUBSET Accounts]
      /\ \A k \in Keys : ssDisk'[k] \subseteq ssDisk[k] \cup {u}
      /\ \A k \in Keys : ssMem'[k] = ssMem[k] \/ ssMem'[k] = {u}
  <2>1. /\ ssMem' \in [Keys -> {Session!Cold} \cup SUBSET Accounts]
        /\ \A k \in Keys : ssMem'[k] = ssMem[k] \/ ssMem'[k] = {u}
    BY <1>1, <1>3, <1>4
  <2>2. CASE ssDisk' = Session!Wiped
    BY <2>1, <2>2 DEF Session!Wiped, Session!Empty
  <2>3. CASE ssDisk' = kept
    BY <1>3, <1>4, <2>1, <2>3
  <2>4. CASE ssDisk' = ssDisk
    BY <1>3, <2>1, <2>4
  <2> QED BY <1>1, <2>2, <2>3, <2>4
<1>7. {u} # Session!Cold
  BY <1>4, SessionAssumption DEF Session!Cold
<1> HIDE DEF kept
<1>8. SessionTypes'
  BY <1>1, <1>2, <1>3, <1>5, <1>6 DEF SessionTypes
<1>9. PagesKnowWho' /\ TokensAreDrawn' /\ Session!ConsoleIsForAdmins'
  BY <1>1, <1>6, <1>7 DEF SessionInv, PagesKnowWho, TokensAreDrawn, Session!ConsoleIsForAdmins
<1>10. DataIsTheirs'
  <2>1. \A k \in Keys : Session!Held(k)' \subseteq Session!Held(k) \cup {u}
    BY <1>6 DEF Session!Held
  <2>2. ~ssMixed => u = ssWho
    BY <1>1, <1>2 DEF DataIsTheirs
  <2>3. ssParting' \notin {"logout", "reloaded"}
    BY <1>1
  <2> QED BY <1>1, <1>2, <1>5, <2>1, <2>2, <2>3 DEF DataIsTheirs
<1> QED BY <1>8, <1>9, <1>10 DEF SessionInv

\* Signing out wipes the disk, and the modules keep what they have read.
LEMMA LogoutKeepsSession == ASSUME SessionInv, Session!Logout PROVE SessionInv'
<1>1. /\ UNCHANGED << ssMem, ssSpent, ssWho, ssMixed >>
      /\ ssCookie' = Session!Nobody /\ ssDisk' = Session!Wiped
      /\ ssAuth' = [ssAuth EXCEPT !.user = Session!Nobody, !.prev = Session!Nobody]
      /\ Enters(Session!Nobody, "login")
      /\ ssLate' = ssLate + Session!Left
      /\ ssParting' = IF ssAuth.asked = Session!Nobody /\
           ssParting # "unnoticed" THEN "logout" ELSE "unnoticed"
  BY DEF Session!Logout, Session!Show, Session!Enter, Enters
<1>2. SessionTypes /\ PagesKnowWho /\ DataIsTheirs /\ Session!Nobody \in People /\
        "login" \in Session!Pages
  BY DEF SessionInv, People, Session!Pages, Session!Public
<1>3. ssAuth' \in [user : People, prev : People, asked : People, loading : BOOLEAN]
      /\ ssAuth'.asked = ssAuth.asked
  <2>1. ssAuth \in [user : People, prev : People, asked : People, loading : BOOLEAN]
    BY <1>2 DEF SessionTypes
  <2> QED BY <1>1, <1>2, <2>1
<1>4. ssDisk' \in [Keys -> SUBSET Accounts] /\ \A k \in Keys : ssDisk'[k] = {}
  BY <1>1 DEF Session!Wiped, Session!Empty
<1>5. /\ ssPage' \in Session!Public
      /\ ssForm' \in [at : {"editing", "sent"}, token : Nat, drawn : Nat]
      /\ ssGuard' \in [status : {"checking", "authorized", "denied"}, asked : BOOLEAN]
      /\ TokensAreDrawn' /\ Session!ConsoleIsForAdmins'
  BY <1>1, <1>2, EnterKeeps, MiddlewareIs DEF Enters
<1>6. SessionTypes'
  <2>1. ssLate' \in Nat
    BY <1>1, <1>2 DEF SessionTypes, Session!Left
  <2> QED BY <1>1, <1>2, <1>3, <1>4, <1>5, <2>1 DEF SessionTypes, Session!Pages
<1>7. PagesKnowWho'
  BY <1>1, <1>5 DEF PagesKnowWho, Session!Public
<1>8. DataIsTheirs'
  <2>1. \A k \in Keys : Session!Held(k)' \subseteq Session!Held(k)
    BY <1>1, <1>4 DEF Session!Held
  <2> QED BY <1>1, <1>2, <1>3, <1>4, <1>5, <2>1 DEF DataIsTheirs
<1> QED BY <1>5, <1>6, <1>7, <1>8 DEF SessionInv

\* A store is written for the person in front of the browser, and saved if it can be.
LEMMA UseKeepsSession ==
    ASSUME SessionInv, NEW k \in Keys, Session!UseStore(k)
    PROVE  SessionInv'
<1>1. /\ UNCHANGED << ssCookie, ssPage, ssAuth, ssForm, ssLate, ssGuard, ssSpent, ssWho,
           ssParting, ssMixed >>
      /\ ssPage = "console"
      /\ ssMem' = [ssMem EXCEPT ![k] = ssMem[k] \cup {ssWho}]
      /\ ssDisk' \in {ssDisk, [ssDisk EXCEPT ![k] = ssMem[k] \cup {ssWho}]}
  BY DEF Session!UseStore, Session!history
<1>2. SessionTypes /\ PagesKnowWho /\ DataIsTheirs
  BY DEF SessionInv
<1>3. /\ ssWho \in Accounts /\ ssMem[k] # Session!Cold /\ ssPage \notin Session!Public
      /\ ssDisk \in [Keys -> SUBSET Accounts]
      /\ ssMem \in [Keys -> {Session!Cold} \cup SUBSET Accounts]
  BY <1>1, <1>2 DEF SessionTypes, PagesKnowWho, Session!Public
<1>4. ssMem[k] \cup {ssWho} \in SUBSET Accounts /\ ssMem[k] \cup {ssWho} # Session!Cold
  BY <1>3, SessionAssumption DEF Session!Cold
<1>5. /\ ssDisk' \in [Keys -> SUBSET Accounts]
      /\ ssMem' \in [Keys -> {Session!Cold} \cup SUBSET Accounts]
      /\ \A l \in Keys : ssMem'[l] # Session!Cold \/ ssMem'[l] = ssMem[l]
  BY <1>1, <1>3, <1>4
<1>6. SessionTypes' /\ PagesKnowWho'
  BY <1>1, <1>2, <1>5 DEF SessionTypes, PagesKnowWho
<1>7. DataIsTheirs'
  <2>1. ssMem[k] \subseteq Session!Held(k)
    <3>1. "cold" \notin ssMem[k]
      BY <1>3, SessionAssumption
    <3> QED BY <3>1 DEF Session!Held, Session!Cold
  <2>2. \A l \in Keys : Session!Held(l)' \subseteq Session!Held(l) \cup {ssWho}
    BY <1>1, <1>3, <2>1 DEF Session!Held
  <2>3. ssParting \notin {"logout", "reloaded"}
    BY <1>2, <1>3 DEF DataIsTheirs
  <2> QED BY <1>1, <1>2, <2>2, <2>3 DEF DataIsTheirs
<1>8. TokensAreDrawn' /\ Session!ConsoleIsForAdmins'
  BY <1>1 DEF SessionInv, TokensAreDrawn, Session!ConsoleIsForAdmins
<1> QED BY <1>6, <1>7, <1>8 DEF SessionInv

\* Somebody signs in: the same person, or one who finds the browser empty, or the
\* sessions have mixed.
LEMMA SignInKeepsSession ==
    ASSUME SessionInv, NEW a \in Accounts,
           Session!SignedIn(a) \/ Session!SignedInLate(a) \/ Session!GoogleSignIn(a)
    PROVE  SessionInv'
<1>1. /\ ssWho' = a /\ ssCookie' = a /\ ssParting' = "none" /\ ssDisk' = ssDisk
      /\ ssMixed' = (ssMixed \/ (ssWho \notin {a, Session!Nobody} /\ ssParting # "reloaded"))
      /\ Enters(a, "console")
      /\ ssLate' \in Nat
      /\ \/ ssAuth' = ssAuth /\ ssMem' = Session!Warm(ssMem, ssPage')
         \/ ssAuth' = Session!Loaded(a) /\
              ssMem' = Session!Warm([k \in Keys |-> Session!Cold], ssPage')
  <2>1. ssLate \in Nat
    BY DEF SessionInv, SessionTypes
  <2>2. CASE Session!SignedIn(a)
    BY <2>1, <2>2 DEF Session!SignedIn, Session!SignsIn, Session!Enter, Enters
  <2>3. CASE Session!SignedInLate(a)
    BY <2>1, <2>3 DEF Session!SignedInLate, Session!SignsIn, Session!Enter, Session!Left, Enters
  <2>4. CASE Session!GoogleSignIn(a)
    BY <2>4 DEF Session!GoogleSignIn, Session!SignsIn, Session!LoadAs, Enters
  <2> QED BY <2>2, <2>3, <2>4
<1> DEFINE cold == [k \in Keys |-> Session!Cold]
<1>2. /\ SessionTypes /\ PagesKnowWho /\ DataIsTheirs
      /\ a \in People /\ a # Session!Nobody /\ "console" \in Session!Pages /\ ssWho \in People
      /\ ssDisk \in [Keys -> SUBSET Accounts]
      /\ ssMem \in [Keys -> {Session!Cold} \cup SUBSET Accounts]
      /\ cold \in [Keys -> {Session!Cold} \cup SUBSET Accounts]
      /\ \A k \in Keys : cold[k] = Session!Cold
  BY SessionAssumption DEF SessionInv, SessionTypes, People, Session!Pages
<1>3. /\ ssPage' = "console"
      /\ ssForm' \in [at : {"editing", "sent"}, token : Nat, drawn : Nat]
      /\ ssGuard' \in [status : {"checking", "authorized", "denied"}, asked : BOOLEAN]
      /\ TokensAreDrawn'
  BY <1>1, <1>2, EnterKeeps DEF Enters, Session!Middleware, Session!AuthPages, Session!Public
<1>4. Session!ConsoleIsForAdmins'
  BY <1>3 DEF Session!ConsoleIsForAdmins
<1>5. /\ ssMem' \in [Keys -> {Session!Cold} \cup SUBSET Accounts]
      /\ \A k \in Keys : ssMem'[k] # Session!Cold /\ ssMem'[k] \in {ssMem[k], Session!Cold,
           ssDisk[k]}
  <2>1. CASE ssMem' = Session!Warm(ssMem, ssPage')
    BY <1>2, <1>3, <2>1, WarmIs
  <2>2. CASE ssMem' = Session!Warm(cold, ssPage')
    BY <1>2, <1>3, <2>2, WarmIs
  <2> QED BY <1>1, <2>1, <2>2
<1> HIDE DEF cold
<1>6. SessionTypes'
  <2>1. ssAuth' \in [user : People, prev : People, asked : People, loading : BOOLEAN]
    <3>1. Session!Loaded(a) \in [user : People, prev : People, asked : People,
            loading : BOOLEAN]
      BY <1>2 DEF Session!Loaded, People
    <3> QED BY <1>1, <1>2, <3>1 DEF SessionTypes
  <2>2. ssMixed' \in BOOLEAN
    BY <1>1
  <2> QED BY <1>1, <1>2, <1>3, <1>5, <2>1, <2>2 DEF SessionTypes
<1>7. PagesKnowWho'
  BY <1>1, <1>5 DEF PagesKnowWho
<1>8. DataIsTheirs'
  <2> SUFFICES ASSUME ~ssMixed'
               PROVE  /\ ssAuth'.asked \in {Session!Nobody, ssWho'}
                      /\ \A k \in Keys : Session!Held(k)' \subseteq {ssWho'}
    BY <1>1 DEF DataIsTheirs
  <2>1. ~ssMixed /\ (ssWho \in {a, Session!Nobody} \/ ssParting = "reloaded")
    BY <1>1
  <2>2. \A k \in Keys : Session!Held(k)' \subseteq Session!Held(k)
    BY <1>1, <1>5 DEF Session!Held
  <2>3. CASE ssWho = a
    BY <1>1, <1>2, <2>1, <2>2, <2>3 DEF DataIsTheirs, Session!Loaded
  <2>4. CASE ssParting = "reloaded"
    <3>1. \A k \in Keys : Session!Held(k) = {}
      BY <1>2, <2>4 DEF DataIsTheirs, Session!Held
    <3> QED BY <1>1, <1>2, <2>2, <2>4, <3>1 DEF DataIsTheirs, Session!Loaded
  <2>5. CASE ssWho = Session!Nobody
    <3>1. \A k \in Keys : Session!Held(k) = {}
      <4>1. \A k \in Keys : Session!Nobody \notin Session!Held(k)
        BY <1>2, SessionAssumption DEF Session!Held, Session!Cold
      <4> QED BY <1>2, <2>1, <2>5, <4>1 DEF DataIsTheirs
    <3> QED BY <1>1, <1>2, <2>1, <2>2, <2>5, <3>1 DEF DataIsTheirs, Session!Loaded
  <2> QED BY <2>1, <2>3, <2>4, <2>5
<1> QED BY <1>3, <1>4, <1>6, <1>7, <1>8 DEF SessionInv

LEMMA SessionKept == SessionInv /\ [Session!Next]_(Session!vars) => SessionInv'
<1> SUFFICES ASSUME SessionInv, [Session!Next]_(Session!vars) PROVE SessionInv'
  OBVIOUS
<1>1. CASE UNCHANGED Session!vars
  BY <1>1 DEF Session!vars, SessionInv, SessionTypes, PagesKnowWho, DataIsTheirs,
       Session!Held, TokensAreDrawn,
              Session!ConsoleIsForAdmins
<1>2. CASE Session!Next
  BY <1>2, FormKeepsSession, GuardKeepsSession, MoveKeepsSession, ExpiryKeepsSession,
     AnswerKeepsSession, LogoutKeepsSession, UseKeepsSession,
         SignInKeepsSession DEF Session!Next
<1> QED BY <1>1, <1>2

LEMMA SessionIsSound ==
    SessionInv => Session!TypeOK /\ Session!NothingIsLeftBehind /\ Session!TokensAreFresh /\
        Session!ConsoleIsForAdmins
<1> SUFFICES ASSUME SessionInv
             PROVE  Session!TypeOK /\ Session!NothingIsLeftBehind /\ Session!TokensAreFresh /\
                      Session!ConsoleIsForAdmins
  OBVIOUS
<1>1. Session!TypeOK
  BY DEF SessionInv, SessionTypes, Session!TypeOK, People
<1>2. Session!NothingIsLeftBehind
  BY DEF SessionInv, Session!NothingIsLeftBehind, DataIsTheirs, PagesKnowWho
<1>3. Session!TokensAreFresh
  BY DEF SessionInv, Session!TokensAreFresh, TokensAreDrawn
<1> QED BY <1>1, <1>2, <1>3 DEF SessionInv

-------------------------------------------------------------------------------
\* The settings panel and the two stores it writes.

\* Preferences are a function on what is watched, a profile has three fields, and a
\* panel that is open edits one of each.
Topics == {"news", "volume"}
Values == {"default", "other"} \cup SUBSET Topics
Forms == {p \in [Watched -> Values] : "aiFocus" \in Watched => p["aiFocus"] \in SUBSET Topics}
Profiles ==
    [name : {"default", "account", "typed"}, username : {"default", "typed"},
     avatar : {"none", "url", "file"}]
Panels ==
    [at : {"open"}, form : Forms, draft : Profiles, saved : Nat, profileSaved : Nat,
     clearOpen : BOOLEAN, reading : BOOLEAN, cleared : BOOLEAN, hard : BOOLEAN]

SettingsInv ==
    /\ stPrefs \in Forms /\ (stPrefsDisk = Settings!Nothing \/ stPrefsDisk \in Forms)
    /\ stProfile \in Profiles /\ (stProfileDisk = Settings!Nothing \/
         stProfileDisk \in Profiles)
    /\ stPanel \in Panels \cup {Settings!Unmounted} /\ stMoves \in 0 .. SettingsMoves
    /\ stParted \subseteq {"prefs", "profile"} /\ Settings!StoresAgree

\* Neither store is ever taken for an empty one.
LEMMA StoredIsSomething ==
    /\ \A p \in Forms : p # Settings!Nothing
    /\ \A p \in Profiles : p # Settings!Nothing
<1>1. ASSUME NEW p \in Forms, p = Settings!Nothing PROVE FALSE
  <2>1. DOMAIN p = Watched /\ DOMAIN p = {"stored"}
    BY <1>1 DEF Forms, Settings!Nothing
  <2>2. "stored" \notin Settings!Fields
    BY DEF Settings!Fields, Settings!Analysis, Settings!Display, Settings!Charts,
             Settings!Notifications, Settings!Channels, Settings!Quiet, Settings!Appearance,
           Settings!Behaviour, Settings!Privacy
  <2> QED BY <2>1, <2>2, SettingsAssumption
<1>2. ASSUME NEW p \in Profiles, p = Settings!Nothing PROVE FALSE
  <2>1. DOMAIN p = {"name", "username", "avatar"} /\ DOMAIN p = {"stored"}
    BY <1>2 DEF Profiles, Settings!Nothing
  <2> QED BY <2>1
<1> QED BY <1>1, <1>2

LEMMA DefaultsAre ==
    /\ Settings!DEFAULT_SETTINGS \in Forms /\ Settings!DEFAULT_PROFILE \in Profiles
BY DEF Forms, Values, Topics, Settings!DEFAULT_SETTINGS, Profiles, Settings!DEFAULT_PROFILE

LEMMA SettingsInit == Settings!Init => SettingsInv
BY DefaultsAre, SettingsAssumption DEF Settings!Init, SettingsInv, Settings!StoresAgree,
     Settings!Read, Settings!Nothing

LEMMA PanelIs ==
    ASSUME NEW d \in Profiles, NEW f \in Forms
    PROVE  /\ Settings!Mounted(d, f) \in Panels
           /\ [Settings!Mounted(d, f) EXCEPT !.hard = TRUE] \in Panels
BY DEF Panels, Settings!Mounted

LEMMA PanelFields ==
    ASSUME stPanel \in Panels \cup {Settings!Unmounted}
    PROVE  /\ stPanel.at = "open" <=> stPanel \in Panels
           /\ stPanel # Settings!Unmounted <=> stPanel \in Panels
BY DEF Panels, Settings!Unmounted, Settings!Gone

\* What is under way in the panel leaves both stores alone.
LEMMA PanelKeepsSettings ==
    ASSUME SettingsInv, stPanel' \in Panels \cup {Settings!Unmounted},
             stMoves' \in 0 .. SettingsMoves,
           UNCHANGED << stPrefs, stPrefsDisk, stProfile, stProfileDisk, stParted >>
    PROVE  SettingsInv'
BY DEF SettingsInv, Settings!StoresAgree

\* The edits of the panel.
LEMMA EditKeepsPanel ==
    ASSUME SettingsInv, Settings!Editing
    PROVE  /\ stPanel' \in Panels /\ stMoves' \in 0 .. SettingsMoves
           /\ UNCHANGED << stPrefs, stPrefsDisk, stProfile, stProfileDisk, stParted >>
<1>1. ASSUME NEW p, NEW what, Settings!Edit(p, what)
      PROVE  /\ stPanel' = p /\ stMoves' \in 0 .. SettingsMoves
             /\ UNCHANGED << stPrefs, stPrefsDisk, stProfile, stProfileDisk, stParted >>
  BY <1>1, SettingsAssumption DEF SettingsInv, Settings!Edit, Settings!Move,
       Settings!stores
<1>2. ASSUME stPanel.at = "open" PROVE stPanel \in Panels
  BY <1>2, PanelFields DEF SettingsInv
<1>3. ASSUME NEW f \in Watched \ {"aiFocus"}, NEW v \in {"default", "other"}, Settings!Set(f, v)
      PROVE  /\ stPanel' \in Panels /\ stMoves' \in 0 .. SettingsMoves
             /\ UNCHANGED << stPrefs, stPrefsDisk, stProfile, stProfileDisk, stParted >>
  <2>1. stPanel \in Panels /\ Settings!Edit([stPanel EXCEPT !.form[f] = v], {f})
    BY <1>2, <1>3 DEF Settings!Set
  <2>2. [stPanel.form EXCEPT ![f] = v] \in Forms
    BY <2>1 DEF Panels, Forms, Values
  <2>3. [stPanel EXCEPT !.form[f] = v] \in Panels
    BY <2>1, <2>2 DEF Panels
  <2> QED BY <1>1, <2>1, <2>3
<1>4. ASSUME "aiFocus" \in Watched, NEW topic \in {"news", "volume"},
               Settings!ToggleFocus(topic)
      PROVE  /\ stPanel' \in Panels /\ stMoves' \in 0 .. SettingsMoves
             /\ UNCHANGED << stPrefs, stPrefsDisk, stProfile, stProfileDisk, stParted >>
  <2> DEFINE now == stPanel.form["aiFocus"]
             then == IF topic \in now THEN now \ {topic} ELSE now \cup {topic}
  <2>1. stPanel \in Panels /\ Settings!Edit([stPanel EXCEPT !.form["aiFocus"] = then],
          {"aiFocus"})
    BY <1>2, <1>4 DEF Settings!ToggleFocus
  <2>2. stPanel.form \in Forms /\ now \in SUBSET Topics
    BY <1>4, <2>1 DEF Panels, Forms
  <2>3. then \in SUBSET Topics
    BY <2>2 DEF Topics
  <2> HIDE DEF then
  <2>4. [stPanel.form EXCEPT !["aiFocus"] = then] \in Forms
    BY <2>2, <2>3 DEF Forms, Values
  <2>5. [stPanel EXCEPT !.form["aiFocus"] = then] \in Panels
    BY <2>1, <2>4 DEF Panels
  <2> QED BY <1>1, <2>1, <2>5
<1>5. CASE Settings!TypeName \/ Settings!TypeUsername \/ Settings!TypeAvatar \/
             Settings!RemoveAvatar
  <2>1. /\ stPanel \in Panels
        /\ \E d, what : /\ Settings!Edit([stPanel EXCEPT !.draft = d], what)
                        /\ d \in {[stPanel.draft EXCEPT !.name = "typed"],
                                  [stPanel.draft EXCEPT !.username = "typed"],
                                  [stPanel.draft EXCEPT !.avatar = "url"],
                                  [stPanel.draft EXCEPT !.avatar = "none"]}
    BY <1>2, <1>5 DEF Settings!TypeName, Settings!TypeUsername, Settings!TypeAvatar,
         Settings!RemoveAvatar
  <2>2. PICK d, what : /\ Settings!Edit([stPanel EXCEPT !.draft = d], what)
                       /\ d \in {[stPanel.draft EXCEPT !.name = "typed"],
                                 [stPanel.draft EXCEPT !.username = "typed"],
                                 [stPanel.draft EXCEPT !.avatar = "url"],
                                 [stPanel.draft EXCEPT !.avatar = "none"]}
    BY <2>1
  <2>3. stPanel.draft \in Profiles
    BY <2>1 DEF Panels
  <2>4. d \in Profiles
    BY <2>2, <2>3 DEF Profiles
  <2>5. [stPanel EXCEPT !.draft = d] \in Panels
    BY <2>1, <2>4 DEF Panels
  <2> QED BY <1>1, <2>2, <2>5
<1>6. CASE Settings!PickAvatar
  <2>1. stPanel \in Panels /\ Settings!Edit([stPanel EXCEPT !.reading = TRUE], {"avatar"})
    BY <1>2, <1>6 DEF Settings!PickAvatar
  <2>2. [stPanel EXCEPT !.reading = TRUE] \in Panels
    BY <2>1 DEF Panels
  <2> QED BY <1>1, <2>1, <2>2
<1>7. CASE Settings!AvatarRead
  <2>1. /\ stPanel \in Panels
        /\ stPanel' = [stPanel EXCEPT !.reading = FALSE, !.draft.avatar = "file"]
        /\ UNCHANGED << stPrefs, stPrefsDisk, stProfile, stProfileDisk, stParted, stMoves >>
    BY <1>2, <1>7 DEF Settings!AvatarRead, Settings!stores
  <2>2. [stPanel.draft EXCEPT !.avatar = "file"] \in Profiles
    BY <2>1 DEF Panels, Profiles
  <2>3. stPanel' \in Panels
    BY <2>1, <2>2 DEF Panels
  <2> QED BY <2>1, <2>3 DEF SettingsInv
<1> QED BY <1>3, <1>4, <1>5, <1>6, <1>7 DEF Settings!Editing

\* The profile is changed in memory, and where the storage takes it, there too.
LEMMA ProfileIsSaved ==
    ASSUME SettingsInv, NEW p \in Profiles, NEW ok \in BOOLEAN, Settings!SavesProfile(p, ok),
           UNCHANGED << stPrefs, stPrefsDisk >>, stPanel' \in Panels \cup {Settings!Unmounted},
           stMoves' \in 0 .. SettingsMoves
    PROVE  SettingsInv'
BY StoredIsSomething DEF Settings!SavesProfile, Settings!Parted, SettingsInv,
     Settings!StoresAgree, Settings!Read

\* Loads, navigations, signing out, the answer about the account and the clearing of the
\* storage.
LEMMA LoadKeepsSettings ==
    ASSUME SettingsInv, Settings!Load \/ Settings!Open \/ Settings!Leave \/
             Settings!SignOut \/ Settings!MeAnswers \/ Settings!ClearData
    PROVE  SettingsInv'
<1>1. CASE Settings!Load
  <2>1. stPrefs' \in Forms /\ stProfile' \in Profiles
    BY <1>1, DefaultsAre DEF Settings!Load, SettingsInv, Settings!Read
  <2>2. stPanel' \in Panels
    BY <1>1, DefaultsAre, PanelIs DEF Settings!Load
  <2> QED BY <1>1, <2>1, <2>2, SettingsAssumption
      DEF Settings!Load, Settings!Move, SettingsInv, Settings!StoresAgree, Settings!Read
<1>2. CASE Settings!Open
  <2>1. stPanel' \in Panels
    BY <1>2, PanelIs DEF Settings!Open, SettingsInv
  <2> QED BY <1>2, <2>1, PanelKeepsSettings, SettingsAssumption
          DEF Settings!Open, Settings!Move, SettingsInv, Settings!stores
<1>3. CASE Settings!Leave
  BY <1>3, PanelKeepsSettings DEF Settings!Leave, SettingsInv, Settings!stores
<1>4. CASE Settings!MeAnswers
  <2>1. [stProfile EXCEPT !.name = "account", !.avatar = "none"] \in Profiles
    BY DEF SettingsInv, Profiles
  <2>2. stPanel' \in Panels \cup {Settings!Unmounted} /\ stMoves' \in 0 .. SettingsMoves
    BY <1>4, SettingsAssumption DEF Settings!MeAnswers, Settings!Move, SettingsInv
  <2> QED BY <1>4, <2>1, <2>2, ProfileIsSaved DEF Settings!MeAnswers
<1>5. CASE Settings!ClearData
  <2>1. stPanel \in Panels
    BY <1>5, PanelFields DEF Settings!ClearData, SettingsInv
  <2>2. stPanel' \in Panels
    BY <1>5, <2>1 DEF Settings!ClearData, Panels, SettingsInv
  <2> QED BY <1>5, <2>2, DefaultsAre DEF Settings!ClearData, Settings!Parted, SettingsInv,
        Settings!StoresAgree, Settings!Read
<1>6. CASE Settings!SignOut
  BY <1>6, SettingsAssumption DEF Settings!SignOut, Settings!Move, SettingsInv,
       Settings!StoresAgree
<1> QED BY <1>1, <1>2, <1>3, <1>4, <1>5, <1>6

\* The saves, which put what the panel has in both modules, and in the storage if they can.
LEMMA SaveKeepsSettings ==
    ASSUME SettingsInv, Settings!Save \/ Settings!SaveProfile
    PROVE  SettingsInv'
<1>1. stPanel \in Panels /\ stMoves' \in 0 .. SettingsMoves
  BY PanelFields, SettingsAssumption DEF Settings!Save, Settings!SaveProfile, Settings!Active,
       Settings!Move, SettingsInv
<1>2. stPanel.form \in Forms /\ stPanel.draft \in Profiles
  BY <1>1 DEF Panels
<1>3. stPanel' \in Panels
  <2>1. Settings!Flagged(stPanel) \in Panels
    BY <1>1 DEF Settings!Flagged, Panels
  <2>2. [Settings!Flagged(stPanel) EXCEPT !.saved = @ + 1] \in Panels
    BY <2>1 DEF Panels
  <2> QED BY <1>1, <2>1, <2>2 DEF Settings!Save, Settings!SaveProfile
<1>4. CASE Settings!SaveProfile
  BY <1>1, <1>2, <1>3, <1>4, ProfileIsSaved DEF Settings!SaveProfile
<1>5. CASE Settings!Save
  BY <1>1, <1>2, <1>3, <1>5, StoredIsSomething
     DEF Settings!Save, SettingsInv, Settings!StoresAgree, Settings!Read
<1> QED BY <1>4, <1>5

LEMMA SettingsKept == SettingsInv /\ [Settings!Next]_(Settings!vars) => SettingsInv'
<1> SUFFICES ASSUME SettingsInv, [Settings!Next]_(Settings!vars) PROVE SettingsInv'
  OBVIOUS
<1>1. CASE UNCHANGED Settings!vars
  BY <1>1 DEF Settings!vars, SettingsInv, Settings!StoresAgree
<1>2. CASE Settings!Editing
  BY <1>2, EditKeepsPanel, PanelKeepsSettings
<1>3. CASE Settings!FlagEnds \/ Settings!CancelClear \/ Settings!AskClear
  <2>1. stPanel \in Panels
    BY <1>3, PanelFields DEF Settings!FlagEnds, Settings!CancelClear, Settings!AskClear,
         SettingsInv
  <2>2. /\ stPanel' \in Panels /\ stMoves' \in 0 .. SettingsMoves
        /\ UNCHANGED << stPrefs, stPrefsDisk, stProfile, stProfileDisk, stParted >>
    <3>1. CASE Settings!FlagEnds
      BY <2>1, <3>1 DEF Settings!FlagEnds, Panels, SettingsInv, Settings!stores
    <3>2. CASE Settings!CancelClear
      BY <2>1, <3>2 DEF Settings!CancelClear, Panels, SettingsInv, Settings!stores
    <3>3. CASE Settings!AskClear
      <4>1. /\ stPanel' = [stPanel EXCEPT !.clearOpen = TRUE] /\ stMoves < SettingsMoves
            /\ stMoves' = stMoves + 1
            /\ UNCHANGED << stPrefs, stPrefsDisk, stProfile, stProfileDisk, stParted >>
        BY <3>3 DEF Settings!AskClear, Settings!Edit, Settings!Move, Settings!stores
      <4>2. stPanel' \in Panels
        BY <2>1, <4>1 DEF Panels
      <4> QED BY <4>1, <4>2, SettingsAssumption DEF SettingsInv
    <3> QED BY <1>3, <3>1, <3>2, <3>3
  <2> QED BY <2>2, PanelKeepsSettings
<1> QED BY <1>1, <1>2, <1>3, LoadKeepsSettings, SaveKeepsSettings DEF Settings!Next

\* What differs in the form from the settings was edited, in a panel that was opened by a
\* navigation and in which nothing was cleared.
TouchedInv ==
    Settings!InTouch => \A f \in Watched : stPanel.form[f] # stPrefs[f] => f \in stTouched

LEMMA EditIsTouched ==
    ASSUME SettingsInv, TouchedInv, Settings!Editing
    PROVE  TouchedInv' /\ stPrefs' = stPrefs
<1>1. ASSUME NEW p, NEW what, Settings!Edit(p, what),
             p.at = stPanel.at, p.hard = stPanel.hard, p.cleared = stPanel.cleared,
             \A f \in Watched : p.form[f] # stPanel.form[f] => f \in what
      PROVE  TouchedInv' /\ stPrefs' = stPrefs
  BY <1>1 DEF Settings!Edit, TouchedInv, Settings!InTouch, Settings!stores
<1>2. ASSUME stPanel.at = "open" PROVE stPanel \in Panels
  BY <1>2, PanelFields DEF SettingsInv
<1>3. ASSUME NEW g, NEW x, Settings!Edit([stPanel EXCEPT !.form[g] = x], {g}),
             stPanel.at = "open"
      PROVE  TouchedInv' /\ stPrefs' = stPrefs
  <2> DEFINE p == [stPanel EXCEPT !.form[g] = x]
  <2>1. stPanel \in Panels
    BY <1>2, <1>3
  <2>2. /\ p.at = stPanel.at /\ p.hard = stPanel.hard /\ p.cleared = stPanel.cleared
        /\ p.form = [stPanel.form EXCEPT ![g] = x]
    BY <2>1 DEF Panels
  <2> HIDE DEF p
  <2>3. \A f \in Watched : p.form[f] # stPanel.form[f] => f \in {g}
    BY <2>1, <2>2 DEF Panels, Forms
  <2> QED BY <1>1, <1>3, <2>2, <2>3 DEF p
<1>4. ASSUME NEW g \in Watched \ {"aiFocus"}, NEW x \in {"default", "other"}, Settings!Set(g, x)
      PROVE  TouchedInv' /\ stPrefs' = stPrefs
  BY <1>3, <1>4 DEF Settings!Set
<1>5. ASSUME NEW topic \in {"news", "volume"}, Settings!ToggleFocus(topic)
      PROVE  TouchedInv' /\ stPrefs' = stPrefs
  BY <1>3, <1>5 DEF Settings!ToggleFocus
<1>6. CASE Settings!TypeName \/ Settings!TypeUsername \/ Settings!TypeAvatar \/
             Settings!RemoveAvatar
  <2>1. stPanel.at = "open" /\ \E d, what : Settings!Edit([stPanel EXCEPT !.draft = d], what)
    BY <1>2, <1>6 DEF Settings!TypeName, Settings!TypeUsername, Settings!TypeAvatar,
         Settings!RemoveAvatar
  <2>2. PICK d, what : Settings!Edit([stPanel EXCEPT !.draft = d], what)
    BY <2>1
  <2> DEFINE p == [stPanel EXCEPT !.draft = d]
  <2>3. stPanel \in Panels
    BY <1>2, <2>1
  <2>4. /\ p.at = stPanel.at /\ p.hard = stPanel.hard /\ p.cleared = stPanel.cleared
        /\ p.form = stPanel.form
    BY <2>3 DEF Panels
  <2> HIDE DEF p
  <2> QED BY <1>1, <2>2, <2>4 DEF p
<1>7. CASE Settings!PickAvatar
  <2> DEFINE p == [stPanel EXCEPT !.reading = TRUE]
  <2>1. stPanel \in Panels /\ Settings!Edit(p, {"avatar"})
    BY <1>2, <1>7 DEF Settings!PickAvatar
  <2>2. /\ p.at = stPanel.at /\ p.hard = stPanel.hard /\ p.cleared = stPanel.cleared
        /\ p.form = stPanel.form
    BY <2>1 DEF Panels
  <2> HIDE DEF p
  <2> QED BY <1>1, <2>1, <2>2
<1>8. CASE Settings!AvatarRead
  <2>1. /\ stPanel \in Panels /\ UNCHANGED <<stPrefs, stTouched>>
        /\ stPanel' = [stPanel EXCEPT !.reading = FALSE, !.draft.avatar = "file"]
    BY <1>2, <1>8 DEF Settings!AvatarRead, Settings!stores
  <2>2. /\ stPanel'.at = stPanel.at /\ stPanel'.hard = stPanel.hard
        /\ stPanel'.cleared = stPanel.cleared /\ stPanel'.form = stPanel.form
    BY <2>1 DEF Panels
  <2> QED BY <2>1, <2>2 DEF TouchedInv, Settings!InTouch
<1> QED BY <1>4, <1>5, <1>6, <1>7, <1>8 DEF Settings!Editing

\* A step changes no preference but those that were edited.
LEMMA TouchedStep ==
    ASSUME SettingsInv, SettingsInv', TouchedInv, [Settings!Next]_(Settings!vars)
    PROVE  /\ TouchedInv'
           /\ Settings!InTouch /\ Settings!InTouch' =>
                \A f \in Watched : stPrefs'[f] # stPrefs[f] => f \in stTouched
<1>1. ASSUME stPrefs' = stPrefs, stTouched' = stTouched, Settings!InTouch' => Settings!InTouch,
             Settings!InTouch => stPanel'.form = stPanel.form
      PROVE  TouchedInv' /\ stPrefs' = stPrefs
  BY <1>1 DEF TouchedInv
<1>2. stPanel.at = "open" => stPanel \in Panels
  BY PanelFields DEF SettingsInv
<1>3. CASE UNCHANGED Settings!vars
  BY <1>1, <1>3 DEF Settings!vars, Settings!InTouch
<1>4. CASE Settings!Load
  <2>1. stPanel'.hard
    BY <1>4 DEF Settings!Load, Settings!Mounted
  <2> QED BY <2>1 DEF TouchedInv, Settings!InTouch
<1>5. CASE Settings!Open
  BY <1>5 DEF Settings!Open, Settings!Mounted, Settings!stores, TouchedInv
<1>6. CASE Settings!Leave \/ Settings!SignOut
  <2>1. stPanel'.at # "open"
    BY <1>6 DEF Settings!Leave, Settings!SignOut, Settings!Unmounted, Settings!Gone
  <2> QED BY <2>1 DEF TouchedInv, Settings!InTouch
<1>7. CASE Settings!MeAnswers
  BY <1>1, <1>7 DEF Settings!MeAnswers, Settings!InTouch
<1>8. CASE Settings!Editing
  BY <1>8, EditIsTouched
<1>9. CASE Settings!SaveProfile
  <2>1. stPanel \in Panels /\ stPanel' \in {Settings!Flagged(stPanel), stPanel}
        /\ UNCHANGED <<stPrefs, stTouched>>
    BY <1>2, <1>9 DEF Settings!SaveProfile, Settings!Active
  <2>2. /\ stPanel'.at = stPanel.at /\ stPanel'.hard = stPanel.hard
        /\ stPanel'.cleared = stPanel.cleared /\ stPanel'.form = stPanel.form
    BY <2>1 DEF Settings!Flagged, Panels
  <2> QED BY <1>1, <2>1, <2>2 DEF Settings!InTouch
<1>10. CASE Settings!Save
  <2>1. /\ stPanel \in Panels /\ stPrefs' = stPanel.form /\ stTouched' = stTouched
        /\ stPanel' = [Settings!Flagged(stPanel) EXCEPT !.saved = @ + 1]
    BY <1>2, <1>10 DEF Settings!Save, Settings!Active
  <2>2. stPanel'.form = stPanel.form
    BY <2>1 DEF Settings!Flagged, Panels
  <2> QED BY <2>1, <2>2 DEF TouchedInv
<1>11. CASE Settings!FlagEnds
  <2>1. /\ stPanel \in Panels /\ UNCHANGED <<stPrefs, stTouched>>
        /\ stPanel' = [stPanel EXCEPT !.saved = 0, !.profileSaved = 0]
    BY <1>2, <1>11 DEF Settings!FlagEnds, Settings!stores
  <2>2. /\ stPanel'.at = stPanel.at /\ stPanel'.hard = stPanel.hard
        /\ stPanel'.cleared = stPanel.cleared /\ stPanel'.form = stPanel.form
    BY <2>1 DEF Panels
  <2> QED BY <1>1, <2>1, <2>2 DEF Settings!InTouch
<1>12. CASE Settings!AskClear \/ Settings!CancelClear
  <2>1. /\ stPanel \in Panels /\ stPrefs' = stPrefs /\ stTouched' = stTouched
        /\ \E c \in BOOLEAN : stPanel' = [stPanel EXCEPT !.clearOpen = c]
    BY <1>2, <1>12 DEF Settings!AskClear, Settings!CancelClear, Settings!Edit, Settings!stores
  <2>2. /\ stPanel'.at = stPanel.at /\ stPanel'.hard = stPanel.hard
        /\ stPanel'.cleared = stPanel.cleared /\ stPanel'.form = stPanel.form
    BY <2>1 DEF Panels
  <2> QED BY <1>1, <2>1, <2>2 DEF Settings!InTouch
<1>13. CASE Settings!ClearData
  <2>1. stPanel'.cleared
    BY <1>2, <1>13 DEF Settings!ClearData, Panels
  <2> QED BY <2>1 DEF TouchedInv, Settings!InTouch
<1> QED BY <1>3, <1>4, <1>5, <1>6, <1>7, <1>8, <1>9, <1>10, <1>11, <1>12, <1>13
        DEF Settings!Next

LEMMA SettingsAreSound == SettingsInv => Settings!TypeOK /\ Settings!StoresAgree
<1> SUFFICES ASSUME SettingsInv PROVE Settings!TypeOK
  BY DEF SettingsInv
<1>1. stPanel.at \in {"open", Settings!Gone}
  BY DEF SettingsInv, Panels, Settings!Unmounted
<1> QED BY <1>1, SettingsAssumption DEF SettingsInv, Settings!TypeOK, Forms

-------------------------------------------------------------------------------
\* Buying a plan: what the page says of a payment is true.

Payment == [plan : Checkout!PLANS, settled : BOOLEAN, active : BOOLEAN]
Views ==
    [at : {"unmounted", "no user", "creating", "shown", "failed"}, id : Checkout!Ids \cup {0},
     checking : BOOLEAN, paid : BOOLEAN]
\* A loop that is not over has attempts left.
Polls ==
    {p \in [left : 0 .. POLL_ATTEMPTS, at : {"none", "sleeping", "asking", "over"}] :
        p.at \in {"sleeping", "asking"} => p.left > 0}
Made(i) == i \in 1..Len(coPayments)

\* The kinds of the state that the invariant speaks of.
PaymentTypes ==
    /\ coPayments \in Seq(Payment) /\ Len(coPayments) <= MaxPayments
    /\ coPlan \in Checkout!PLANS
    /\ coView \in Views
    /\ coPolls \in [Checkout!Ids -> Polls]
    /\ coClicks \in [Checkout!Ids -> Nat] /\ coToasts \in [Checkout!Ids -> Nat]

\* Whoever asks about a payment, or has heard of one, has one that was made.
AsksAreMade ==
    /\ coView.id # 0 => Made(coView.id) /\ coView.at # "creating"
    /\ \A i \in Checkout!Ids : coPolls[i].at # "none" \/ coClicks[i] > 0 => Made(i)

\* Success is shown, and announced, of payments that are active.
SaysAreTrue ==
    /\ coView.paid => Made(coView.id) /\ coPayments[coView.id].active
    /\ \A i \in Checkout!Ids : coToasts[i] > 0 => Made(i) /\ coPayments[i].active
    /\ \A i \in 1..Len(coPayments) : coPayments[i].active => coPayments[i].settled

PaymentsInv == PaymentTypes /\ AsksAreMade /\ SaysAreTrue

Blank(v) == v \in Views /\ v.id = 0 /\ ~v.paid

\* A page that was just mounted, or none, shows no payment.
LEMMA FreshViews == Blank(Checkout!NoView) /\ \A u : Blank(Checkout!FreshView(u))
<1>1. Blank(Checkout!NoView)
  BY DEF Blank, Views, Checkout!NoView
<1>2. ASSUME NEW u PROVE Blank(Checkout!FreshView(u))
  BY DEF Checkout!FreshView, Blank, Views, Checkout!NoView
<1> QED BY <1>1, <1>2

\* Before anything is bought.
LEMMA PaymentsInit == ASSUME Checkout!Init PROVE PaymentsInv
<1>1. PaymentTypes /\ Blank(coView)
  BY FreshViews, CheckoutAssumption DEF Checkout!Init, PaymentTypes, Blank, Checkout!NoPoll,
       Polls, Checkout!PLANS
<1>2. AsksAreMade
  BY <1>1 DEF AsksAreMade, Blank, Checkout!Init, Checkout!NoPoll, Checkout!Ids
<1>3. SaysAreTrue
  BY <1>1 DEF SaysAreTrue, Blank, Checkout!Init, Checkout!Ids
<1> QED BY <1>1, <1>2, <1>3 DEF PaymentsInv

\* Whatever mounts a page anew, and leaves the payments and what is known of them,
\* keeps the invariant: the loops that run, or none of them.
LEMMA MountKeeps ==
    ASSUME PaymentsInv, UNCHANGED <<coPlan, coPayments, coToasts>>, Blank(coView'),
           \/ UNCHANGED <<coPolls, coClicks>>
           \/ coPolls' = [i \in Checkout!Ids |-> Checkout!NoPoll] /\
                coClicks' = [i \in Checkout!Ids |-> 0]
    PROVE  PaymentsInv'
<1>1. PaymentTypes'
  <2>1. Checkout!NoPoll \in Polls
    BY CheckoutAssumption DEF Checkout!NoPoll, Polls
  <2> QED BY <2>1 DEF PaymentsInv, PaymentTypes, Blank
<1>2. AsksAreMade'
  BY DEF PaymentsInv, AsksAreMade, Made, Blank, Checkout!NoPoll
<1>3. SaysAreTrue'
  BY DEF PaymentsInv, SaysAreTrue, Made, Blank
<1> QED BY <1>1, <1>2, <1>3 DEF PaymentsInv

\* Steps that change neither payments nor what is known of them.
LEMMA PaymentsStay ==
    ASSUME PaymentsInv, UNCHANGED <<coPlan, coPayments, coView, coPolls, coClicks, coToasts>>
    PROVE  PaymentsInv'
BY DEF PaymentsInv, PaymentTypes, AsksAreMade, SaysAreTrue, Made

\* Sessions, links and loads.
LEMMA MountsKeep ==
    ASSUME PaymentsInv, Checkout!AuthAnswers \/ Checkout!Redirect \/ Checkout!SignIn \/
             Checkout!GoogleSignIn \/ Checkout!Reload \/ \E p \in Checkout!Pages : Checkout!Leave(p)
    PROVE  PaymentsInv'
<1>1. CASE Checkout!AuthAnswers /\ coPage # "checkout"
  BY <1>1, PaymentsStay DEF Checkout!AuthAnswers, Checkout!money, Checkout!asks
<1>2. CASE Checkout!AuthAnswers /\ coPage = "checkout"
  BY <1>2, FreshViews, MountKeeps DEF Checkout!AuthAnswers, Checkout!money, Checkout!asks
<1>3. CASE Checkout!Redirect
  BY <1>3, FreshViews, MountKeeps DEF Checkout!Redirect, Checkout!Show, Checkout!money,
       Checkout!asks
<1>4. CASE Checkout!SignIn
  BY <1>4, FreshViews, MountKeeps DEF Checkout!SignIn, Checkout!Show, Checkout!money,
       Checkout!asks
<1>5. CASE Checkout!Reload
  BY <1>5, FreshViews, MountKeeps DEF Checkout!Reload, Checkout!money
<1>6. CASE \E p \in Checkout!Pages : Checkout!Leave(p)
  BY <1>6, FreshViews, MountKeeps DEF Checkout!Leave, Checkout!Show, Checkout!money,
       Checkout!asks
<1>7. CASE Checkout!GoogleSignIn
  BY <1>7, FreshViews, MountKeeps DEF Checkout!GoogleSignIn, Checkout!money
<1> QED BY <1>1, <1>2, <1>3, <1>4, <1>5, <1>6, <1>7

\* A payment is created, and the page that asked for it polls for it.
LEMMA CreatedKeeps == ASSUME PaymentsInv, Checkout!Created PROVE PaymentsInv'
<1>1. PICK p \in {"pro", "ultra"}, i \in Checkout!Ids :
        /\ coPayments' = Append(coPayments, [plan |-> p, settled |-> FALSE, active |-> FALSE])
        /\ i = Len(coPayments')
        /\ coView' = [coView EXCEPT !.at = "shown", !.id = i]
        /\ coPolls' = [coPolls EXCEPT ![i] = [left |-> POLL_ATTEMPTS, at |-> "sleeping"]]
  BY DEF Checkout!Created, Checkout!Put
<1>2. UNCHANGED <<coPlan, coClicks, coToasts>> /\ coView.at = "creating"
  BY DEF Checkout!Created
<1>3. i = Len(coPayments) + 1 /\ Len(coPayments') = i
  BY <1>1 DEF PaymentsInv, PaymentTypes, Payment, Checkout!PLANS
<1>4. \A k \in 1..Len(coPayments) : coPayments'[k] = coPayments[k]
  BY <1>1, <1>3 DEF PaymentsInv, PaymentTypes, Payment
<1>5. ~coPayments'[i].active
  BY <1>1, <1>3 DEF PaymentsInv, PaymentTypes, Payment
<1>6. coView'.id = i /\ coView'.at = "shown" /\ coView'.paid = coView.paid
  BY <1>1 DEF PaymentsInv, PaymentTypes, Views
<1>7. PaymentTypes'
  <2>1. coPayments' \in Seq(Payment)
    BY <1>1 DEF PaymentsInv, PaymentTypes, Payment, Checkout!PLANS
  <2>2. coView' \in Views
    BY <1>1 DEF PaymentsInv, PaymentTypes, Views
  <2>3. coPolls' \in [Checkout!Ids -> Polls]
    BY <1>1, CheckoutAssumption DEF PaymentsInv, PaymentTypes, Polls
  <2>4. Len(coPayments') <= MaxPayments
    BY <1>1, <1>3, CheckoutAssumption DEF Checkout!Ids
  <2> QED BY <2>1, <2>2, <2>3, <2>4, <1>2 DEF PaymentsInv, PaymentTypes
<1>8. \A k : Made(k) => Made(k)' /\ k # i /\ coPayments'[k] = coPayments[k]
  BY <1>3, <1>4 DEF PaymentsInv, PaymentTypes, Made
<1>9. AsksAreMade'
  <2>1. Made(i)'
    BY <1>3 DEF PaymentsInv, PaymentTypes, Made
  <2>2. ASSUME NEW k \in Checkout!Ids, k # i PROVE coPolls'[k] = coPolls[k]
    BY <1>1, <2>2 DEF PaymentsInv, PaymentTypes
  <2> QED BY <1>6, <2>1, <2>2, <1>2, <1>8 DEF PaymentsInv, AsksAreMade
<1>10. SaysAreTrue'
  <2>1. ~coView'.paid
    BY <1>6, <1>2 DEF PaymentsInv, AsksAreMade, SaysAreTrue, Made, PaymentTypes
  <2>2. \A k \in Checkout!Ids : coToasts'[k] > 0 => Made(k)' /\ coPayments'[k].active
    BY <1>2, <1>8 DEF PaymentsInv, SaysAreTrue
  <2>3. ASSUME NEW k \in 1..Len(coPayments') PROVE coPayments'[k].active =>
                 coPayments'[k].settled
    <3>1. CASE k = i
      BY <1>5, <3>1
    <3>2. CASE k # i
      <4>1. k \in 1..Len(coPayments)
        BY <1>3, <3>2 DEF PaymentsInv, PaymentTypes
      <4> QED BY <1>4, <4>1 DEF PaymentsInv, SaysAreTrue
    <3> QED BY <3>1, <3>2
  <2> QED BY <2>1, <2>2, <2>3 DEF SaysAreTrue
<1> QED BY <1>7, <1>9, <1>10 DEF PaymentsInv

\* No step takes an activation back, or activates what has not settled.
MoneyGrows ==
    /\ coPayments' \in Seq(Payment) /\ Len(coPayments') = Len(coPayments)
    /\ coPlan' \in Checkout!PLANS
    /\ \A k \in 1..Len(coPayments) :
         /\ coPayments[k].active => coPayments'[k].active
         /\ coPayments'[k].active => coPayments'[k].settled

\* The page still shows the payment it showed, as paid only where it is active.
SameView ==
    /\ coView' \in Views /\ coView'.id = coView.id /\ coView'.at \in {coView.at, "failed"}
    /\ coView'.paid => coView.paid \/ (Made(coView.id) /\ coPayments'[coView.id].active)

\* Whoever asks, or has heard, asks about a payment that was made.
SoundAsks ==
    /\ coPolls' \in [Checkout!Ids -> Polls]
    /\ coClicks' \in [Checkout!Ids -> Nat] /\ coToasts' \in [Checkout!Ids -> Nat]
    /\ \A k \in Checkout!Ids : coPolls'[k].at # "none" \/ coClicks'[k] > 0 => Made(k)
    /\ \A k \in Checkout!Ids : coToasts'[k] > 0 => coToasts[k] > 0 \/ (Made(k) /\
         coPayments'[k].active)

\* Steps that only add to what is paid and known keep the invariant.
LEMMA GrowthKeeps == ASSUME PaymentsInv, MoneyGrows, SameView, SoundAsks PROVE PaymentsInv'
<1>1. PaymentTypes'
  BY DEF PaymentsInv, MoneyGrows, SameView, SoundAsks, PaymentTypes
<1>2. \A k : Made(k) => Made(k)' /\ (coPayments[k].active => coPayments'[k].active)
  BY DEF MoneyGrows, Made
<1>3. AsksAreMade'
  <2>1. coView'.id # 0 => Made(coView.id)' /\ coView'.at # "creating"
    BY <1>2 DEF PaymentsInv, AsksAreMade, SameView
  <2> QED BY <2>1, <1>2 DEF SoundAsks, AsksAreMade
<1>4. SaysAreTrue'
  <2>1. coView'.paid => Made(coView.id)' /\ coPayments'[coView'.id].active
    BY <1>2 DEF PaymentsInv, SaysAreTrue, SameView
  <2>2. \A k \in Checkout!Ids : coToasts'[k] > 0 => Made(k)' /\ coPayments'[k].active
    BY <1>2 DEF PaymentsInv, SaysAreTrue, SoundAsks
  <2>3. \A k \in 1..Len(coPayments') : coPayments'[k].active => coPayments'[k].settled
    BY DEF MoneyGrows
  <2> QED BY <2>1, <2>2, <2>3 DEF SaysAreTrue
<1> QED BY <1>1, <1>3, <1>4 DEF PaymentsInv

\* Money that stays as it is does grow.
LEMMA SameMoney == ASSUME PaymentsInv, UNCHANGED Checkout!money PROVE MoneyGrows
BY DEF PaymentsInv, PaymentTypes, SaysAreTrue, MoneyGrows, Checkout!money

\* A change of one payment changes no other.
LEMMA OnePayment ==
    ASSUME coPayments \in Seq(Payment), NEW i \in 1..Len(coPayments), NEW p \in Payment,
           coPayments' = [coPayments EXCEPT ![i] = p]
    PROVE  /\ coPayments' \in Seq(Payment) /\ Len(coPayments') = Len(coPayments)
           /\ \A k \in 1..Len(coPayments) : coPayments'[k] = IF k = i THEN p ELSE coPayments[k]
BY ExceptSeq

\* The first who asks about a payment that has settled activates its plan.
LEMMA ActivateGrows ==
    ASSUME PaymentsInv, NEW i \in Checkout!Ids, Made(i), coPayments[i].settled,
             Checkout!Activate(i)
    PROVE  MoneyGrows /\ coPayments'[i].active
<1>1. CASE coPayments[i].active
  BY <1>1, SameMoney DEF Checkout!Activate, Checkout!money
<1>2. CASE ~coPayments[i].active
  <2> DEFINE p == [coPayments[i] EXCEPT !.active = TRUE]
  <2>1. coPayments \in Seq(Payment) /\ i \in 1..Len(coPayments) /\ coPayments[i] \in Payment
    BY DEF PaymentsInv, PaymentTypes, Made
  <2>2. p \in Payment /\ p.active /\ p.settled
    BY <2>1 DEF Payment
  <2>3. coPayments' = [coPayments EXCEPT ![i] = p] /\ coPlan' = coPayments[i].plan
    BY <1>2 DEF Checkout!Activate
  <2> HIDE DEF p
  <2>4. /\ coPayments' \in Seq(Payment) /\ Len(coPayments') = Len(coPayments)
        /\ \A k \in 1..Len(coPayments) : coPayments'[k] = IF k = i THEN p ELSE coPayments[k]
    BY <2>1, <2>2, <2>3, OnePayment
  <2>5. coPlan' \in Checkout!PLANS
    BY <2>1, <2>3 DEF Payment
  <2> QED BY <2>1, <2>2, <2>4, <2>5 DEF PaymentsInv, SaysAreTrue, MoneyGrows
<1> QED BY <1>1, <1>2

\* The customer pays.
LEMMA SettleGrows ==
    ASSUME PaymentsInv, NEW i \in Checkout!Ids, Checkout!Settle(i)
    PROVE  MoneyGrows
<1> DEFINE p == [coPayments[i] EXCEPT !.settled = TRUE]
<1>1. coPayments \in Seq(Payment) /\ i \in 1..Len(coPayments) /\ coPayments[i] \in Payment
  BY DEF PaymentsInv, PaymentTypes, Checkout!Settle
<1>2. p \in Payment /\ p.settled /\ p.active = coPayments[i].active
  BY <1>1 DEF Payment
<1>3. coPayments' = [coPayments EXCEPT ![i] = p] /\ coPlan' = coPlan
  BY DEF Checkout!Settle
<1> HIDE DEF p
<1>4. /\ coPayments' \in Seq(Payment) /\ Len(coPayments') = Len(coPayments)
      /\ \A k \in 1..Len(coPayments) : coPayments'[k] = IF k = i THEN p ELSE coPayments[k]
  BY <1>1, <1>2, <1>3, OnePayment
<1> QED BY <1>2, <1>3, <1>4 DEF PaymentsInv, PaymentTypes, SaysAreTrue, MoneyGrows

\* What is asked, and known, stays as it is where a step leaves it alone.
LEMMA SameAsks == ASSUME PaymentsInv, UNCHANGED Checkout!asks PROVE SoundAsks
BY DEF PaymentsInv, PaymentTypes, AsksAreMade, SoundAsks, Checkout!asks

\* The button of the page that shows a payment is disabled, or enabled.
LEMMA AskingIsSame ==
    ASSUME PaymentsInv, NEW i, NEW b \in BOOLEAN, Checkout!Asking(i, b)
    PROVE  SameView
<1>1. CASE coView.id = i
  BY <1>1 DEF PaymentsInv, PaymentTypes, Views, Checkout!Asking, SameView
<1>2. CASE coView.id # i
  BY <1>2 DEF PaymentsInv, PaymentTypes, Checkout!Asking, SameView
<1> QED BY <1>1, <1>2

\* A poll goes on from one of its stages to another, for a payment that was made.
LEMMA PollIsSound ==
    ASSUME PaymentsInv, NEW i \in Checkout!Ids, Made(i), NEW p \in Polls,
             coPolls' = [coPolls EXCEPT ![i] = p]
    PROVE  coPolls' \in [Checkout!Ids -> Polls] /\
             \A k \in Checkout!Ids : coPolls'[k].at # "none" => Made(k)
<1>1. coPolls' \in [Checkout!Ids -> Polls]
  BY DEF PaymentsInv, PaymentTypes
<1>2. \A k \in Checkout!Ids : k # i => coPolls'[k] = coPolls[k]
  BY DEF PaymentsInv, PaymentTypes
<1> QED BY <1>1, <1>2 DEF PaymentsInv, AsksAreMade

\* A delay ends, and the loop asks.
LEMMA WakesKeep ==
    ASSUME PaymentsInv, NEW i \in Checkout!Ids, Checkout!PollWakes(i)
    PROVE  PaymentsInv'
<1> DEFINE p == [coPolls[i] EXCEPT !.at = "asking"]
<1>1. Made(i)
  BY DEF Checkout!PollWakes, PaymentsInv, AsksAreMade
<1>2. p \in Polls /\ coPolls' = [coPolls EXCEPT ![i] = p]
  BY DEF Checkout!PollWakes, PaymentsInv, PaymentTypes, Polls
<1> HIDE DEF p
<1>3. SoundAsks
  BY <1>1, <1>2, PollIsSound DEF Checkout!PollWakes, PaymentsInv, PaymentTypes, AsksAreMade,
       SoundAsks
<1>4. SameView /\ MoneyGrows
  BY AskingIsSame, SameMoney DEF Checkout!PollWakes
<1> QED BY <1>3, <1>4, GrowthKeeps

\* The button is pressed.
LEMMA CheckKeeps ==
    ASSUME PaymentsInv, NEW i \in Checkout!Ids, Checkout!Check(i)
    PROVE  PaymentsInv'
<1>1. Made(i)
  BY DEF Checkout!Check, PaymentsInv, AsksAreMade
<1>2. SoundAsks
  BY <1>1 DEF Checkout!Check, PaymentsInv, PaymentTypes, AsksAreMade, SoundAsks
<1>3. SameView /\ MoneyGrows
  BY AskingIsSame, SameMoney DEF Checkout!Check
<1> QED BY <1>2, <1>3, GrowthKeeps

\* The two ways a verification can end, for a loop and for the button.
LEMMA FoundGrows ==
    ASSUME PaymentsInv, NEW i \in Checkout!Ids, Made(i), Checkout!Found(i)
    PROVE  /\ MoneyGrows /\ SameView /\ coPayments'[i].active
           /\ coToasts' = [coToasts EXCEPT ![i] = @ + 1]
<1>1. MoneyGrows /\ coPayments'[i].active /\ coToasts' = [coToasts EXCEPT ![i] = @ + 1]
  BY ActivateGrows DEF Checkout!Found
<1>2. CASE coView.id = i
  BY <1>1, <1>2 DEF Checkout!Found, PaymentsInv, PaymentTypes, Views, SameView
<1>3. CASE coView.id # i
  <2>1. coView' = coView
    BY <1>3 DEF Checkout!Found
  <2> QED BY <1>1, <2>1 DEF PaymentsInv, PaymentTypes, SameView
<1> QED BY <1>1, <1>2, <1>3
LEMMA NotFoundGrows ==
    ASSUME PaymentsInv, NEW i \in Checkout!Ids, Made(i), Checkout!NotFound(i)
    PROVE  MoneyGrows /\ SameView /\ UNCHANGED coToasts
BY AskingIsSame, SameMoney, ActivateGrows DEF Checkout!NotFound, Checkout!money

\* Success is announced of a payment that is active.
LEMMA AnnouncedSoundly ==
    ASSUME PaymentsInv, NEW i \in Checkout!Ids, Made(i), coPayments'[i].active,
           coToasts' = [coToasts EXCEPT ![i] = @ + 1],
           coPolls' \in [Checkout!Ids -> Polls],
           coClicks' \in [Checkout!Ids -> Nat],
           \A k \in Checkout!Ids : coPolls'[k].at # "none" \/ coClicks'[k] > 0 => Made(k)
    PROVE  SoundAsks
<1>1. /\ coToasts' \in [Checkout!Ids -> Nat]
      /\ \A k \in Checkout!Ids : k # i => coToasts'[k] = coToasts[k]
  BY DEF PaymentsInv, PaymentTypes
<1>2. ASSUME NEW k \in Checkout!Ids, coToasts'[k] > 0
      PROVE  coToasts[k] > 0 \/ (Made(k) /\ coPayments'[k].active)
  BY <1>1, <1>2
<1> QED BY <1>1, <1>2 DEF SoundAsks

\* A loop hears that its payment is paid, or goes on, or gives up.
LEMMA PollAnswersKeep ==
    ASSUME PaymentsInv, NEW i \in Checkout!Ids, Checkout!PollAnswers(i)
    PROVE  PaymentsInv'
<1>1. Made(i) /\ coPolls[i].left \in 1 .. POLL_ATTEMPTS /\ UNCHANGED coClicks
  BY CheckoutAssumption DEF Checkout!PollAnswers, PaymentsInv, PaymentTypes, AsksAreMade, Polls
<1>2. CASE Checkout!Found(i) /\ coPolls' = [coPolls EXCEPT ![i].at = "over"]
  <2> DEFINE p == [coPolls[i] EXCEPT !.at = "over"]
  <2>1. p \in Polls /\ coPolls' = [coPolls EXCEPT ![i] = p]
    BY <1>2 DEF PaymentsInv, PaymentTypes, Polls
  <2> HIDE DEF p
  <2>2. coPolls' \in [Checkout!Ids -> Polls] /\
          \A k \in Checkout!Ids : coPolls'[k].at # "none" => Made(k)
    BY <1>1, <2>1, PollIsSound
  <2>3. /\ coClicks' \in [Checkout!Ids -> Nat]
        /\ \A k \in Checkout!Ids : coClicks'[k] > 0 => Made(k)
    BY <1>1 DEF PaymentsInv, PaymentTypes, AsksAreMade
  <2> QED BY <1>1, <1>2, <2>2, <2>3, FoundGrows, AnnouncedSoundly, GrowthKeeps
<1>3. CASE Checkout!NotFound(i) /\ Checkout!Spent(i)
  <2> DEFINE p == [left |-> coPolls[i].left - 1,
                   at |-> IF coPolls[i].left = 1 THEN "over" ELSE "sleeping"]
  <2>1. p \in Polls
    <3>1. p.left > 0 \/ p.at = "over"
      BY <1>1, CheckoutAssumption
    <3>2. p.left \in 0 .. POLL_ATTEMPTS /\ p.at \in {"sleeping", "over"}
      BY <1>1, CheckoutAssumption
    <3> QED BY <3>1, <3>2 DEF Polls
  <2>2. coPolls' = [coPolls EXCEPT ![i] = p]
    BY <1>3 DEF Checkout!Spent
  <2> HIDE DEF p
  <2>3. coPolls' \in [Checkout!Ids -> Polls] /\
          \A k \in Checkout!Ids : coPolls'[k].at # "none" => Made(k)
    BY <1>1, <2>1, <2>2, PollIsSound
  <2>4. SoundAsks
    BY <1>1, <1>3, <2>3, NotFoundGrows DEF PaymentsInv, PaymentTypes, AsksAreMade, SoundAsks
  <2> QED BY <1>1, <1>3, <2>4, NotFoundGrows, GrowthKeeps
<1> QED BY <1>2, <1>3 DEF Checkout!PollAnswers

\* The button's verification ends.
LEMMA CheckAnswersKeep ==
    ASSUME PaymentsInv, NEW i \in Checkout!Ids, Checkout!CheckAnswers(i)
    PROVE  PaymentsInv'
<1>1. Made(i)
  BY DEF Checkout!CheckAnswers, PaymentsInv, AsksAreMade
<1>2. /\ coClicks' \in [Checkout!Ids -> Nat]
      /\ \A k \in Checkout!Ids : coClicks'[k] > 0 => coClicks[k] > 0
  BY DEF Checkout!CheckAnswers, PaymentsInv, PaymentTypes
<1>3. coPolls' \in [Checkout!Ids -> Polls]
  BY DEF Checkout!CheckAnswers, PaymentsInv, PaymentTypes
<1>4. \A k \in Checkout!Ids : coPolls'[k].at # "none" \/ coClicks'[k] > 0 => Made(k)
  BY <1>2 DEF Checkout!CheckAnswers, PaymentsInv, AsksAreMade
<1>5. CASE Checkout!Found(i)
  BY <1>1, <1>2, <1>3, <1>4, <1>5, FoundGrows, AnnouncedSoundly, GrowthKeeps
<1>6. CASE Checkout!NotFound(i)
  <2>1. SoundAsks
    BY <1>1, <1>2, <1>3, <1>4, <1>6, NotFoundGrows DEF PaymentsInv, PaymentTypes, SoundAsks
  <2> QED BY <1>1, <1>6, <2>1, NotFoundGrows, GrowthKeeps
<1> QED BY <1>5, <1>6 DEF Checkout!CheckAnswers

\* The payment service reports a payment by itself, or its customer pays it.
LEMMA MoneyKeeps ==
    ASSUME PaymentsInv, NEW i \in Checkout!Ids, Checkout!Settle(i) \/ Checkout!Webhook(i)
    PROVE  PaymentsInv'
<1>1. SoundAsks
  BY SameAsks DEF Checkout!Settle, Checkout!Webhook
<1>2. SameView
  BY DEF Checkout!Settle, Checkout!Webhook, PaymentsInv, PaymentTypes, SameView
<1>3. MoneyGrows
  BY SettleGrows, ActivateGrows DEF Checkout!Webhook, Checkout!Settled, Made
<1> QED BY <1>1, <1>2, <1>3, GrowthKeeps

\* A payment that could not be created.
LEMMA FailsKeep == ASSUME PaymentsInv, Checkout!CreateFails PROVE PaymentsInv'
<1>1. SameView
  BY DEF Checkout!CreateFails, PaymentsInv, PaymentTypes, Views, SameView
<1> QED BY <1>1, SameMoney, SameAsks, GrowthKeeps DEF Checkout!CreateFails

\* One step per action.
LEMMA PaymentsKept == ASSUME PaymentsInv, [Checkout!Next]_(Checkout!vars) PROVE PaymentsInv'
<1>1. CASE Checkout!AuthAnswers \/ Checkout!Redirect \/ Checkout!SignIn \/
             Checkout!GoogleSignIn \/ Checkout!Reload \/ \E p \in Checkout!Pages : Checkout!Leave(p)
  BY <1>1, MountsKeep
<1>2. CASE Checkout!PlanAnswers \/ Checkout!PlanFails
  BY <1>2, PaymentsStay DEF Checkout!PlanAnswers, Checkout!PlanFails, Checkout!money,
       Checkout!asks
<1>3. CASE \E p \in Checkout!PLANS : Checkout!ChoosePlan(p)
  BY <1>3, MountsKeep DEF Checkout!ChoosePlan, Checkout!Pages
<1>4. CASE Checkout!Created
  BY <1>4, CreatedKeeps
<1>5. CASE Checkout!CreateFails
  BY <1>5, FailsKeep
<1>6. CASE \E i \in Checkout!Ids : Checkout!Settle(i) \/ Checkout!Webhook(i) \/
             Checkout!PollWakes(i) \/ Checkout!Check(i)
  BY <1>6, MoneyKeeps, WakesKeep, CheckKeeps
<1>7. CASE \E i \in Checkout!Ids : Checkout!PollAnswers(i) \/ Checkout!CheckAnswers(i)
  BY <1>7, PollAnswersKeep, CheckAnswersKeep
<1>8. CASE UNCHANGED Checkout!vars
  BY <1>8, PaymentsStay DEF Checkout!vars
<1> QED BY <1>1, <1>2, <1>3, <1>4, <1>5, <1>6, <1>7, <1>8 DEF Checkout!Next

\* The route and the user, which the rest does not depend on.
Routes ==
    coPage \in Checkout!Pages /\ coUser \in Checkout!PLANS \cup {"loading", "out", "untold"}
CheckoutInv == PaymentsInv /\ Routes

LEMMA CheckoutInit == Checkout!Init => CheckoutInv
<1> SUFFICES ASSUME Checkout!Init PROVE CheckoutInv
  OBVIOUS
<1>1. Routes
  BY DEF Checkout!Init, Routes
<1> QED BY <1>1, PaymentsInit DEF CheckoutInv

LEMMA RoutesKept == ASSUME CheckoutInv, Checkout!Next PROVE Routes'
<1>1. Routes /\ coPlan \in Checkout!PLANS
  BY DEF CheckoutInv, PaymentsInv, PaymentTypes
<1>2. CASE Checkout!AuthAnswers \/ Checkout!Redirect \/ Checkout!SignIn \/
             Checkout!GoogleSignIn \/ Checkout!Reload
  BY <1>1, <1>2 DEF Checkout!AuthAnswers, Checkout!Redirect, Checkout!SignIn,
       Checkout!GoogleSignIn, Checkout!Reload, Checkout!Show, Routes, Checkout!Pages
<1>3. CASE \/ \E p \in Checkout!Pages : Checkout!Leave(p)
           \/ \E p \in Checkout!PLANS : Checkout!ChoosePlan(p)
  BY <1>1, <1>3 DEF Checkout!Leave, Checkout!ChoosePlan, Checkout!Show, Routes, Checkout!Pages
<1>4. CASE \/ Checkout!PlanAnswers \/ Checkout!PlanFails \/ Checkout!Created \/
                Checkout!CreateFails
           \/ \E i \in Checkout!Ids : Checkout!Settle(i) \/ Checkout!Webhook(i) \/
                Checkout!PollWakes(i) \/ Checkout!Check(i)
           \/ \E i \in Checkout!Ids : Checkout!PollAnswers(i) \/ Checkout!CheckAnswers(i)
  <2>1. UNCHANGED << coPage, coUser >>
    BY <1>4 DEF Checkout!PlanAnswers, Checkout!PlanFails, Checkout!Created,
         Checkout!CreateFails, Checkout!Settle, Checkout!Webhook, Checkout!PollWakes,
             Checkout!Check,
                Checkout!PollAnswers, Checkout!CheckAnswers
  <2> QED BY <1>1, <2>1 DEF Routes
<1> QED BY <1>2, <1>3, <1>4 DEF Checkout!Next

LEMMA CheckoutKept == CheckoutInv /\ [Checkout!Next]_(Checkout!vars) => CheckoutInv'
<1>1. CheckoutInv /\ [Checkout!Next]_(Checkout!vars) => Routes'
  BY RoutesKept DEF CheckoutInv, Routes, Checkout!vars
<1> QED BY <1>1, PaymentsKept DEF CheckoutInv

LEMMA CheckoutIsSound == CheckoutInv => Checkout!TypeOK /\ Checkout!PaidMeansActive
<1> SUFFICES ASSUME CheckoutInv PROVE Checkout!TypeOK /\ Checkout!PaidMeansActive
  OBVIOUS
<1>1. PaymentsInv
  BY DEF CheckoutInv
<1>2. \A i \in 1..Len(coPayments) : i \in Checkout!Ids
  BY <1>1, CheckoutAssumption DEF PaymentsInv, PaymentTypes, Checkout!Ids
<1>3. Checkout!PaidMeansActive
  BY <1>1, <1>2 DEF PaymentsInv, SaysAreTrue, Checkout!PaidMeansActive
<1>4. Len(coPayments) <= MaxPayments /\ coView.id \in 0..Len(coPayments)
  <2>1. Len(coPayments) \in Nat /\ Len(coPayments) <= MaxPayments
    BY <1>1 DEF PaymentsInv, PaymentTypes
  <2>2. coView.id # 0 => coView.id \in 1..Len(coPayments)
    BY <1>1 DEF PaymentsInv, AsksAreMade, Made
  <2> QED BY <2>1, <2>2
<1>5. \A i \in Checkout!Ids : coPolls[i].left \in 0..POLL_ATTEMPTS
  BY <1>1 DEF PaymentsInv, PaymentTypes, Polls
<1> QED BY <1>1, <1>3, <1>4, <1>5 DEF CheckoutInv, Routes, PaymentsInv, PaymentTypes,
      Checkout!TypeOK

-------------------------------------------------------------------------------
\* The admin console and the access requests.

\* What the consoles hold.
Statuses == {Admin!None, "pending", "approved", "rejected"}
Row == [status : Statuses, token : BOOLEAN]
Rows == [Admin!Ids -> Row]
Counts == [Admin!Plans -> Nat]
Data == [requests : Rows, at : Nat \cup {-1}, accounts : Counts]
Fetches == [n : Nat, data : Data]
Console ==
    [page : Admin!Tabs \cup {"detail"}, id : Admin!Ids \cup {0}, data : Data,
        settled : BOOLEAN, error : BOOLEAN,
     nonce : 1 .. MaxFetches, fetches : SUBSET Fetches, filter : Admin!Filters, updated : Row,
     acting : {Admin!None, "approved", "rejected"}]
AdminTypes ==
    /\ adRegistry \in Rows /\ adChanges \in Nat /\ adAccounts \in Counts
    /\ adForm \in [at : {"editing", "sent", "submitted"}, token : Nat, drawn : Nat,
         error : BOOLEAN]
    /\ adCon \in [Consoles -> Console]

\* A console's list and its fetches: none is newer than the registry, each has a number
\* of its own, and the one that counts brings nothing older than what is shown.
ListIsSound(v, n) ==
    /\ v.data.at <= n
    /\ \A f \in v.fetches : f.n <= v.nonce /\ f.data.at <= n
    /\ \A f, g \in v.fetches : f.n = g.n => f = g
    /\ \A f \in v.fetches : f.n = v.nonce /\ f.data # Admin!NoData => f.data.at >= v.data.at
\* What a mounted page shows next.
Forward(v, w) == w.page = v.page /\ w.data # Admin!NoData => w.data.at >= v.data.at

AdminInv ==
    /\ AdminTypes
    /\ \A c \in Consoles : ListIsSound(adCon[c], adChanges)
    /\ Admin!ThankedIsRegistered

LEMMA AdminConstants ==
    /\ Admin!Unmade \in Row /\ Admin!NoData \in Data /\ Admin!NoData.at = -1
    /\ 1 \in 1 .. MaxFetches
BY AdminAssumption DEF Admin!Unmade, Row, Statuses, Admin!NoData, Data, Rows, Counts

LEMMA PageIs ==
    ASSUME NEW page \in Admin!Tabs \cup {"detail"}, NEW i \in Admin!Ids \cup {0}
    PROVE  /\ Admin!Mounted(page, i) \in Console
           /\ Admin!Mounted(page, i).data = Admin!NoData
           /\ \A n \in Nat : ListIsSound(Admin!Mounted(page, i), n)
<1>1. Admin!Fetch(1) \in Fetches
  BY AdminConstants DEF Admin!Fetch, Fetches
<1>2. Admin!Mounted(page, i) \in Console
  BY <1>1, AdminConstants DEF Admin!Mounted, Console, Admin!Filters
<1>3. \A n \in Nat : ListIsSound(Admin!Mounted(page, i), n)
  BY AdminConstants, SMTT(30) DEF Admin!Mounted, ListIsSound, Admin!Fetch
<1> QED BY <1>2, <1>3 DEF Admin!Mounted

LEMMA AdminInit == Admin!Init => AdminInv
<1> SUFFICES ASSUME Admin!Init PROVE AdminInv
  OBVIOUS
<1>1. adRegistry \in Rows
  <2>1. PICK s \in {Admin!None, "pending"} :
          adRegistry = [i \in Admin!Ids |->
              [Admin!Unmade EXCEPT !.status = IF i = 1 THEN s ELSE Admin!None]]
    BY DEF Admin!Init
  <2>2. \A i \in Admin!Ids :
          [Admin!Unmade EXCEPT !.status = IF i = 1 THEN s ELSE Admin!None] \in Row
    BY <2>1, AdminConstants DEF Row, Statuses
  <2> QED BY <2>1, <2>2 DEF Rows
<1>2. adAccounts \in Counts
  BY DEF Admin!Init, Counts
<1>3. adForm \in [at : {"editing", "sent", "submitted"}, token : Nat, drawn : Nat,
        error : BOOLEAN]
      /\ adForm.at # "submitted"
  BY DEF Admin!Init, Admin!NewForm
<1>4. adCon \in [Consoles -> Console] /\ \A c \in Consoles : ListIsSound(adCon[c], adChanges)
  <2>1. "overview" \in Admin!Tabs
    BY DEF Admin!Tabs
  <2> QED BY <2>1, PageIs DEF Admin!Init
<1> QED BY <1>1, <1>2, <1>3, <1>4 DEF Admin!Init, AdminInv, AdminTypes,
      Admin!ThankedIsRegistered

\* What a step of a console may do to the backend: the registry changes, and forgets
\* nobody.
RegistryGrows ==
    /\ adRegistry' \in Rows /\ adChanges' \in Nat /\ adChanges' >= adChanges
    /\ adAccounts' \in Counts
    /\ \A i \in Admin!Ids : adRegistry[i].status # Admin!None =>
         adRegistry'[i].status # Admin!None

LEMMA GrowsOrStays ==
    ASSUME AdminInv, NEW i, NEW row \in Row, row.status # Admin!None,
           \/ UNCHANGED << adRegistry, adChanges, adAccounts >>
           \/ Admin!Change([adRegistry EXCEPT ![i] = row])
    PROVE  RegistryGrows
<1>1. adRegistry \in Rows /\ adChanges \in Nat /\ adAccounts \in Counts
  BY DEF AdminInv, AdminTypes
<1>2. [adRegistry EXCEPT ![i] = row] \in Rows
  BY <1>1 DEF Rows
<1>3. \A j \in Admin!Ids : [adRegistry EXCEPT ![i] = row][j] \in {adRegistry[j], row}
  BY <1>1 DEF Rows
<1>4. adRegistry' \in {adRegistry, [adRegistry EXCEPT ![i] = row]}
      /\ adChanges' \in Nat /\ adChanges' >= adChanges /\ adAccounts' \in Counts
  BY <1>1 DEF Admin!Change
<1>5. \A j \in Admin!Ids : adRegistry'[j] \in {adRegistry[j], row}
  BY <1>3, <1>4
<1> QED BY <1>1, <1>2, <1>4, <1>5 DEF RegistryGrows

LEMMA ConsoleFields ==
    ASSUME AdminInv, NEW c \in Consoles
    PROVE  /\ adCon[c] \in Console /\ ListIsSound(adCon[c], adChanges) /\ adChanges \in Nat
           /\ adCon[c].data \in Data /\ adCon[c].data.at \in Nat \cup {-1}
           /\ adCon[c].fetches \in SUBSET Fetches
           /\ adCon[c].nonce \in 1 .. MaxFetches
           /\ adCon[c].id \in Admin!Ids \cup {0}
           /\ adCon[c].acting \in {Admin!None, "approved", "rejected"}
           /\ \A f \in adCon[c].fetches : f.n \in Nat /\ f.data \in Data /\
                f.data.at \in Nat \cup {-1}
<1>1. adCon[c] \in Console /\ ListIsSound(adCon[c], adChanges) /\ adChanges \in Nat
  BY DEF AdminInv, AdminTypes
<1>2. adCon[c].data \in Data /\ adCon[c].fetches \in SUBSET Fetches
      /\ adCon[c].nonce \in 1 .. MaxFetches /\ adCon[c].id \in Admin!Ids \cup {0}
      /\ adCon[c].acting \in {Admin!None, "approved", "rejected"}
  BY <1>1 DEF Console
<1>3. \A f \in adCon[c].fetches : f.n \in Nat /\ f.data \in Data
  BY <1>2 DEF Fetches
<1> QED BY <1>1, <1>2, <1>3 DEF Data

LEMMA SoundLater ==
    ASSUME AdminInv, NEW c \in Consoles, NEW n \in Nat, n >= adChanges
    PROVE  ListIsSound(adCon[c], n)
BY ConsoleFields DEF ListIsSound

\* The form: whoever is thanked is registered by the same step.
LEMMA FormKeepsAdmin ==
    ASSUME AdminInv, Admin!Solve \/ Admin!TokenGoes \/ Admin!Submit \/ Admin!Applied \/
             Admin!ApplyFails
    PROVE  AdminInv' /\ adCon' = adCon
<1>1. /\ adRegistry \in Rows /\ adChanges \in Nat /\ adAccounts \in Counts
      /\ adForm \in [at : {"editing", "sent", "submitted"}, token : Nat, drawn : Nat,
           error : BOOLEAN]
      /\ adCon \in [Consoles -> Console]
  BY DEF AdminInv, AdminTypes
<1>2. ASSUME NEW i \in Admin!Ids, Admin!Registered(i)
      PROVE  RegistryGrows /\ adRegistry'[i].status # Admin!None
  <2> DEFINE row == [adRegistry[i] EXCEPT !.status = "pending"]
  <2>1. row \in Row /\ row.status = "pending"
    BY <1>1 DEF Rows, Row, Statuses
  <2>2. Admin!Change([adRegistry EXCEPT ![i] = row])
    BY <1>2 DEF Admin!Registered
  <2>3. RegistryGrows
    BY <2>1, <2>2, GrowsOrStays DEF Admin!None
  <2>4. adRegistry'[i] = row
    BY <1>1, <2>2 DEF Admin!Change, Rows
  <2> QED BY <2>1, <2>3, <2>4 DEF Admin!None
<1>3. RegistryGrows
  <2>1. UNCHANGED << adRegistry, adChanges, adAccounts >> \/
                    \E i \in Admin!Ids : Admin!Registered(i)
    BY DEF Admin!Solve, Admin!TokenGoes, Admin!Submit, Admin!Applied, Admin!ApplyFails,
             Admin!backend
  <2>2. CASE UNCHANGED << adRegistry, adChanges, adAccounts >>
    BY <1>1, <2>2 DEF RegistryGrows
  <2> QED BY <1>2, <2>1, <2>2
<1>4. /\ adCon' = adCon
      /\ adForm' \in [at : {"editing", "sent", "submitted"}, token : Nat, drawn : Nat,
                      error : BOOLEAN]
      /\ adForm'.at = "submitted" => adForm.at = "submitted" \/
           \E i \in Admin!Ids : Admin!Registered(i)
  <2>1. CASE Admin!Solve
    <3> DEFINE n == adForm.drawn + 1
    <3>1. n \in Nat
      BY <1>1
    <3>2. adForm' = [adForm EXCEPT !.token = n, !.drawn = n, !.error = FALSE]
          /\ adCon' = adCon /\ adForm.at = "editing"
      BY <2>1 DEF Admin!Solve
    <3> HIDE DEF n
    <3> QED BY <1>1, <3>1, <3>2
  <2>2. CASE Admin!TokenGoes
    BY <1>1, <2>2 DEF Admin!TokenGoes
  <2>3. CASE Admin!Submit
    BY <1>1, <2>3 DEF Admin!Submit
  <2>4. CASE Admin!Applied
    BY <1>1, <2>4 DEF Admin!Applied
  <2>5. CASE Admin!ApplyFails
    BY <1>1, <2>5 DEF Admin!ApplyFails
  <2> QED BY <2>1, <2>2, <2>3, <2>4, <2>5
<1>5. Admin!ThankedIsRegistered'
  BY <1>2, <1>3, <1>4 DEF AdminInv, Admin!ThankedIsRegistered, RegistryGrows
<1>6. \A c \in Consoles : ListIsSound(adCon'[c], adChanges')
  BY <1>3, <1>4, SoundLater DEF RegistryGrows
<1> QED BY <1>1, <1>3, <1>4, <1>5, <1>6 DEF AdminInv, AdminTypes, RegistryGrows

\* What a console's step may do.
ConsoleStep(c) ==
    \E v \in Console :
        /\ adCon' = [adCon EXCEPT ![c] = v]
        /\ ListIsSound(v, adChanges')
        /\ Forward(adCon[c], v)

\* A page is mounted.
LEMMA OpenIs ==
    ASSUME AdminInv, NEW c \in Consoles, adChanges' = adChanges,
           \/ \E t \in Admin!Tabs : Admin!ChooseTab(c, t)
           \/ Admin!Back(c)
           \/ \E i \in Admin!Ids : Admin!Review(c, i)
    PROVE  ConsoleStep(c)
<1>1. PICK page \in Admin!Tabs \cup {"detail"}, i \in Admin!Ids \cup {0} :
        adCon' = [adCon EXCEPT ![c] = Admin!Mounted(page, i)]
  <2>1. ASSUME NEW t \in Admin!Tabs, Admin!ChooseTab(c, t)
        PROVE  adCon' = [adCon EXCEPT ![c] = Admin!Mounted(t, 0)]
    BY <2>1 DEF Admin!ChooseTab, Admin!Open, Admin!Set
  <2>2. CASE Admin!Back(c)
    <3>1. adCon' = [adCon EXCEPT ![c] = Admin!Mounted("overview", 0)] /\
            "overview" \in Admin!Tabs
      BY <2>2 DEF Admin!Back, Admin!Open, Admin!Set, Admin!Tabs
    <3> QED BY <3>1
  <2>3. ASSUME NEW i \in Admin!Ids, Admin!Review(c, i)
        PROVE  adCon' = [adCon EXCEPT ![c] = Admin!Mounted("detail", i)]
    BY <2>3 DEF Admin!Review, Admin!Open, Admin!Set
  <2> QED BY <2>1, <2>2, <2>3
<1>2. adChanges \in Nat
  BY ConsoleFields
<1>3. Admin!Mounted(page, i) \in Console /\ ListIsSound(Admin!Mounted(page, i), adChanges')
      /\ Forward(adCon[c], Admin!Mounted(page, i))
  BY <1>2, PageIs DEF Forward
<1> QED BY <1>1, <1>3 DEF ConsoleStep

\* The fetches of a tab: asked for, served, received or lost.
LEMMA RefreshIs ==
    ASSUME AdminInv, NEW c \in Consoles, adChanges' = adChanges, Admin!Refresh(c)
    PROVE  ConsoleStep(c)
<1> DEFINE n == adCon[c].nonce + 1
           v == [adCon[c] EXCEPT !.nonce = n,
                               !.fetches = adCon[c].fetches \cup {Admin!Fetch(n)}]
<1>1. adCon' = [adCon EXCEPT ![c] = v] /\ adCon[c].nonce < MaxFetches
  BY DEF Admin!Refresh, Admin!Set
<1>2. n \in 1 .. MaxFetches /\ n \in Nat
  BY <1>1, ConsoleFields, AdminAssumption
<1>3. Admin!Fetch(n) \in Fetches /\ Admin!Fetch(n).n = n /\ Admin!Fetch(n).data = Admin!NoData
  BY <1>2, AdminConstants DEF Admin!Fetch, Fetches
<1>4. adCon[c].fetches \cup {Admin!Fetch(n)} \in SUBSET Fetches
  BY <1>3, ConsoleFields
<1> HIDE DEF n
<1>5. v \in Console /\ v.nonce = n /\ v.fetches = adCon[c].fetches \cup {Admin!Fetch(n)}
      /\ v.data = adCon[c].data
  BY <1>2, <1>4, ConsoleFields DEF Console
<1>6. \A f \in adCon[c].fetches : f.n < n
  BY <1>2, ConsoleFields DEF ListIsSound, n
<1> HIDE DEF v
<1>7. ListIsSound(v, adChanges')
  <2>1. v.data.at <= adChanges'
    BY <1>5, ConsoleFields DEF ListIsSound
  <2>2. \A f \in v.fetches : f.n <= v.nonce /\ f.data.at <= adChanges'
    BY <1>2, <1>3, <1>5, <1>6, ConsoleFields, AdminConstants DEF ListIsSound
  <2>3. \A f, g \in v.fetches : f.n = g.n => f = g
    <3>1. \A f, g \in adCon[c].fetches : f.n = g.n => f = g
      BY ConsoleFields DEF ListIsSound
    <3>2. \A f \in adCon[c].fetches : f.n # n
      BY <1>2, <1>6, ConsoleFields
    <3> QED BY <1>3, <1>5, <3>1, <3>2
  <2>4. \A f \in v.fetches : f.n = v.nonce /\ f.data # Admin!NoData => f.data.at >= v.data.at
    <3>1. \A f \in adCon[c].fetches : f.n # n
      BY <1>2, <1>6, ConsoleFields
    <3> QED BY <1>3, <1>5, <3>1
  <2> QED BY <2>1, <2>2, <2>3, <2>4 DEF ListIsSound
<1>8. Forward(adCon[c], v)
  BY <1>5, ConsoleFields DEF Forward
<1> QED BY <1>1, <1>5, <1>7, <1>8 DEF ConsoleStep

LEMMA ServeIs ==
    ASSUME AdminInv, NEW c \in Consoles, adChanges' = adChanges, Admin!Serve(c)
    PROVE  ConsoleStep(c)
<1>1. PICK f \in adCon[c].fetches :
        adCon' = [adCon EXCEPT ![c] = [adCon[c] EXCEPT !.fetches =
                    (adCon[c].fetches \ {f}) \cup {[f EXCEPT !.data = Admin!Snapshot]}]]
  BY DEF Admin!Serve, Admin!Set
<1> DEFINE h == [f EXCEPT !.data = Admin!Snapshot]
           served == (adCon[c].fetches \ {f}) \cup {h}
           v == [adCon[c] EXCEPT !.fetches = served]
<1>2. Admin!Snapshot \in Data /\ Admin!Snapshot.at = adChanges
  BY DEF Admin!Snapshot, Data, AdminInv, AdminTypes
<1>3. f \in Fetches
  BY <1>1, ConsoleFields
<1>4. h \in Fetches /\ h.n = f.n /\ h.data = Admin!Snapshot
  BY <1>2, <1>3 DEF Fetches
<1> HIDE DEF h
<1>5. served \in SUBSET Fetches
  BY <1>4, ConsoleFields
<1>6. v \in Console /\ v.nonce = adCon[c].nonce /\ v.fetches = served /\ v.data = adCon[c].data
      /\ v.page = adCon[c].page
  BY <1>5, ConsoleFields DEF Console
<1>7. adCon' = [adCon EXCEPT ![c] = v]
  BY <1>1 DEF h
<1> HIDE DEF v
<1>8. ListIsSound(v, adChanges')
  <2>1. v.data.at <= adChanges'
    BY <1>6, ConsoleFields DEF ListIsSound
  <2>2. \A g \in v.fetches : g.n <= v.nonce /\ g.data.at <= adChanges'
    BY <1>1, <1>2, <1>4, <1>6, ConsoleFields DEF ListIsSound
  <2>3. \A g, k \in v.fetches : g.n = k.n => g = k
    BY <1>1, <1>4, <1>6, ConsoleFields DEF ListIsSound
  <2>4. \A g \in v.fetches : g.n = v.nonce /\ g.data # Admin!NoData => g.data.at >= v.data.at
    BY <1>2, <1>4, <1>6, ConsoleFields DEF ListIsSound
  <2> QED BY <2>1, <2>2, <2>3, <2>4 DEF ListIsSound
<1>9. Forward(adCon[c], v)
  BY <1>6, ConsoleFields DEF Forward
<1> QED BY <1>6, <1>7, <1>8, <1>9 DEF ConsoleStep

LEMMA ReceiveIs ==
    ASSUME AdminInv, NEW c \in Consoles, adChanges' = adChanges,
           Admin!Receive(c) \/ Admin!FetchFails(c)
    PROVE  ConsoleStep(c)
<1>1. PICK f \in adCon[c].fetches :
        \E v :
          /\ adCon' = [adCon EXCEPT ![c] = v]
          /\ \/ /\ f.data # Admin!NoData /\ f.n = adCon[c].nonce
                /\ v = [adCon[c] EXCEPT !.fetches = adCon[c].fetches \ {f}, !.data = f.data,
                                        !.settled = TRUE, !.error = FALSE]
             \/ v = [adCon[c] EXCEPT !.fetches = adCon[c].fetches \ {f}]
             \/ v = [adCon[c] EXCEPT !.fetches = adCon[c].fetches \ {f},
                                     !.settled = Admin!Live(c, f) \/ adCon[c].settled,
                                     !.error = Admin!Live(c, f) \/ adCon[c].error]
  <2>1. CASE Admin!Receive(c)
    BY <2>1 DEF Admin!Receive, Admin!Set, Admin!Live
  <2>2. CASE Admin!FetchFails(c)
    BY <2>2 DEF Admin!FetchFails, Admin!Set
  <2> QED BY <2>1, <2>2
<1> DEFINE rest == adCon[c].fetches \ {f}
<1>2. PICK v :
        /\ adCon' = [adCon EXCEPT ![c] = v]
        /\ \/ /\ f.data # Admin!NoData /\ f.n = adCon[c].nonce
              /\ v = [adCon[c] EXCEPT !.fetches = rest, !.data = f.data,
                                      !.settled = TRUE, !.error = FALSE]
           \/ v = [adCon[c] EXCEPT !.fetches = rest]
           \/ v = [adCon[c] EXCEPT !.fetches = rest,
                                   !.settled = Admin!Live(c, f) \/ adCon[c].settled,
                                   !.error = Admin!Live(c, f) \/ adCon[c].error]
  BY <1>1
<1>3. rest \in SUBSET Fetches /\ f.data \in Data
  BY ConsoleFields
<1> HIDE DEF rest
<1>4. v \in Console /\ v.nonce = adCon[c].nonce /\ v.page = adCon[c].page /\ v.fetches = rest
      /\ \/ v.data = adCon[c].data
         \/ v.data = f.data /\ f.data # Admin!NoData /\ f.n = adCon[c].nonce
  <2>1. CASE /\ f.data # Admin!NoData /\ f.n = adCon[c].nonce
             /\ v = [adCon[c] EXCEPT !.fetches = rest, !.data = f.data,
                                     !.settled = TRUE, !.error = FALSE]
    BY <1>3, <2>1, ConsoleFields DEF Console
  <2>2. CASE v = [adCon[c] EXCEPT !.fetches = rest]
    BY <1>3, <2>2, ConsoleFields DEF Console
  <2>3. CASE v = [adCon[c] EXCEPT !.fetches = rest,
                                  !.settled = Admin!Live(c, f) \/ adCon[c].settled,
                                  !.error = Admin!Live(c, f) \/ adCon[c].error]
    <3> DEFINE x == Admin!Live(c, f) \/ adCon[c].settled
               y == Admin!Live(c, f) \/ adCon[c].error
    <3>1. x \in BOOLEAN /\ y \in BOOLEAN
      OBVIOUS
    <3>2. v = [adCon[c] EXCEPT !.fetches = rest, !.settled = x, !.error = y]
      BY <2>3
    <3> HIDE DEF x, y
    <3> QED BY <1>3, <3>1, <3>2, ConsoleFields DEF Console
  <2> QED BY <1>2, <2>1, <2>2, <2>3
<1>5. /\ \A g \in rest : g \in adCon[c].fetches /\ g # f
      /\ f \in adCon[c].fetches
  BY <1>1 DEF rest
<1>6. ListIsSound(v, adChanges') /\ Forward(adCon[c], v)
  <2>1. /\ adCon[c].data.at <= adChanges
        /\ \A g \in adCon[c].fetches : g.n <= adCon[c].nonce /\ g.data.at <= adChanges
        /\ \A g, k \in adCon[c].fetches : g.n = k.n => g = k
        /\ \A g \in adCon[c].fetches : g.n = adCon[c].nonce /\ g.data # Admin!NoData
                                          => g.data.at >= adCon[c].data.at
    BY ConsoleFields DEF ListIsSound
  <2> QED BY <1>4, <1>5, <2>1, ConsoleFields DEF ListIsSound, Forward
<1> QED BY <1>2, <1>4, <1>6 DEF ConsoleStep

\* A decision, as the store keeps it.
LEMMA ReviewedIsRow ==
    ASSUME NEW i, NEW d \in {"approved", "rejected"}
    PROVE  Admin!Reviewed(i, d) \in Row /\ Admin!Reviewed(i, d).status # Admin!None
<1> DEFINE token == d = "approved" \/ adRegistry[i].token
<1>1. token \in BOOLEAN
  OBVIOUS
<1>2. Admin!Reviewed(i, d) = [status |-> d, token |-> token]
  BY DEF Admin!Reviewed
<1> HIDE DEF token
<1> QED BY <1>1, <1>2 DEF Row, Statuses, Admin!None

LEMMA ChooseIs ==
    ASSUME AdminInv, NEW c \in Consoles, adChanges' \in Nat, adChanges' >= adChanges,
           \/ \E f \in Admin!Filters : Admin!Choose(c, f)
           \/ \E d \in {"approved", "rejected"} : Admin!Decide(c, d)
           \/ Admin!DecisionAnswers(c)
           \/ Admin!DecisionFails(c)
    PROVE  ConsoleStep(c)
<1>1. PICK f \in Admin!Filters, d \in {Admin!None, "approved", "rejected"}, row \in Row :
        \E v :
          /\ adCon' = [adCon EXCEPT ![c] = v]
          /\ \/ v = [adCon[c] EXCEPT !.filter = f]
             \/ v = [adCon[c] EXCEPT !.acting = d]
             \/ v = [adCon[c] EXCEPT !.acting = Admin!None, !.updated = row]
  <2>1. "all" \in Admin!Filters /\ Admin!Unmade \in Row
    BY AdminConstants DEF Admin!Filters
  <2>2. ASSUME NEW f \in Admin!Filters, Admin!Choose(c, f)
        PROVE  adCon' = [adCon EXCEPT ![c] = [adCon[c] EXCEPT !.filter = f]]
    BY <2>2 DEF Admin!Choose, Admin!Set
  <2>3. ASSUME NEW d \in {"approved", "rejected"}, Admin!Decide(c, d)
        PROVE  adCon' = [adCon EXCEPT ![c] = [adCon[c] EXCEPT !.acting = d]]
    BY <2>3 DEF Admin!Decide, Admin!Set
  <2>4. CASE Admin!DecisionFails(c)
    BY <2>1, <2>4 DEF Admin!DecisionFails, Admin!Set
  <2>5. CASE Admin!DecisionAnswers(c)
    <3>1. adCon' = [adCon EXCEPT ![c] = [adCon[c] EXCEPT !.acting = Admin!None,
                                           !.updated = Admin!Reviewed(adCon[c].id,
                                                 adCon[c].acting)]]
          /\ adCon[c].acting \in {"approved", "rejected"}
      BY <2>5, ConsoleFields DEF Admin!DecisionAnswers, Admin!Set
    <3>2. Admin!Reviewed(adCon[c].id, adCon[c].acting) \in Row
      BY <3>1, ReviewedIsRow
    <3> QED BY <2>1, <3>1, <3>2
  <2> QED BY <2>1, <2>2, <2>3, <2>4, <2>5
<1>2. PICK v :
        /\ adCon' = [adCon EXCEPT ![c] = v]
        /\ \/ v = [adCon[c] EXCEPT !.filter = f]
           \/ v = [adCon[c] EXCEPT !.acting = d]
           \/ v = [adCon[c] EXCEPT !.acting = Admin!None, !.updated = row]
  BY <1>1
<1>3. v \in Console /\ v.page = adCon[c].page /\ v.data = adCon[c].data
      /\ v.fetches = adCon[c].fetches /\ v.nonce = adCon[c].nonce
  <2>1. CASE v = [adCon[c] EXCEPT !.filter = f]
    BY <2>1, ConsoleFields DEF Console
  <2>2. CASE v = [adCon[c] EXCEPT !.acting = d]
    BY <2>2, ConsoleFields DEF Console
  <2>3. CASE v = [adCon[c] EXCEPT !.acting = Admin!None, !.updated = row]
    BY <2>3, ConsoleFields DEF Console
  <2> QED BY <1>2, <2>1, <2>2, <2>3
<1>4. ListIsSound(v, adChanges')
  BY <1>3, SoundLater DEF ListIsSound
<1>5. Forward(adCon[c], v)
  BY <1>3, ConsoleFields DEF Forward
<1> QED BY <1>2, <1>3, <1>4, <1>5 DEF ConsoleStep

\* What a step of a console does to the backend.
LEMMA ConsoleBackend ==
    ASSUME AdminInv, NEW c \in Consoles,
           \/ \E t \in Admin!Tabs : Admin!ChooseTab(c, t)
           \/ Admin!Refresh(c) \/ Admin!Serve(c) \/ Admin!Receive(c) \/ Admin!FetchFails(c) \/
                Admin!Back(c)
           \/ \E f \in Admin!Filters : Admin!Choose(c, f)
           \/ \E i \in Admin!Ids : Admin!Review(c, i)
           \/ \E d \in {"approved", "rejected"} : Admin!Decide(c, d)
           \/ Admin!DecisionAnswers(c) \/ Admin!DecisionFails(c)
    PROVE  RegistryGrows /\ adForm' = adForm /\ ConsoleStep(c)
<1>1. CASE Admin!DecisionAnswers(c) \/ Admin!DecisionFails(c)
  <2> DEFINE row == Admin!Reviewed(adCon[c].id, adCon[c].acting)
  <2>1. /\ adCon[c].acting \in {"approved", "rejected"}
        /\ \/ UNCHANGED << adRegistry, adChanges, adAccounts >>
           \/ Admin!Change([adRegistry EXCEPT ![adCon[c].id] = row])
        /\ adForm' = adForm
    BY <1>1, ConsoleFields DEF Admin!DecisionAnswers, Admin!DecisionFails, Admin!Store,
         Admin!application, Admin!backend
  <2>2. row \in Row /\ row.status # Admin!None
    BY <2>1, ReviewedIsRow
  <2> HIDE DEF row
  <2>3. RegistryGrows
    BY <2>1, <2>2, GrowsOrStays
  <2>4. ConsoleStep(c)
    BY <1>1, <2>3, ChooseIs DEF RegistryGrows
  <2> QED BY <2>1, <2>3, <2>4
<1>2. CASE ~(Admin!DecisionAnswers(c) \/ Admin!DecisionFails(c))
  <2>1. UNCHANGED << adRegistry, adChanges, adAccounts, adForm >>
    BY <1>2 DEF Admin!ChooseTab, Admin!Refresh, Admin!Serve, Admin!Receive, Admin!FetchFails,
         Admin!Back, Admin!Choose, Admin!Review, Admin!Decide,
                Admin!backend, Admin!application
  <2>2. RegistryGrows
    BY <2>1 DEF RegistryGrows, AdminInv, AdminTypes
  <2>3. ConsoleStep(c)
    BY <1>2, <2>1, <2>2, OpenIs, RefreshIs, ServeIs, ReceiveIs, ChooseIs DEF RegistryGrows
  <2> QED BY <2>1, <2>2, <2>3
<1> QED BY <1>1, <1>2

LEMMA AdminKept ==
    ASSUME AdminInv, [Admin!Next]_(Admin!vars)
    PROVE  /\ AdminInv'
           /\ \A c \in Consoles : Forward(adCon[c], adCon'[c])
<1>1. adCon \in [Consoles -> Console]
  BY DEF AdminInv, AdminTypes
<1>2. \A c \in Consoles : Forward(adCon[c], adCon[c])
  BY ConsoleFields DEF Forward
<1>3. CASE UNCHANGED Admin!vars
  <2>1. UNCHANGED << adRegistry, adChanges, adAccounts, adForm, adCon >>
    BY <1>3 DEF Admin!vars
  <2>2. AdminInv'
    BY <2>1 DEF AdminInv, AdminTypes, Admin!ThankedIsRegistered
  <2> QED BY <1>2, <2>1, <2>2
<1>4. CASE Admin!Solve \/ Admin!TokenGoes \/ Admin!Submit \/ Admin!Applied \/ Admin!ApplyFails
  BY <1>2, <1>4, FormKeepsAdmin
<1>5. ASSUME NEW c \in Consoles, RegistryGrows /\ adForm' = adForm /\ ConsoleStep(c)
      PROVE  AdminInv' /\ \A d \in Consoles : Forward(adCon[d], adCon'[d])
  <2>1. PICK v \in Console : /\ adCon' = [adCon EXCEPT ![c] = v]
                             /\ ListIsSound(v, adChanges')
                             /\ Forward(adCon[c], v)
    BY <1>5 DEF ConsoleStep
  <2>2. adCon' \in [Consoles -> Console] /\ adCon'[c] = v
        /\ \A d \in Consoles \ {c} : adCon'[d] = adCon[d]
    BY <1>1, <2>1
  <2>3. \A d \in Consoles : ListIsSound(adCon'[d], adChanges')
    BY <1>5, <2>1, <2>2, SoundLater DEF RegistryGrows
  <2>4. Admin!ThankedIsRegistered'
    BY <1>5 DEF RegistryGrows, AdminInv, Admin!ThankedIsRegistered
  <2>5. AdminTypes'
    BY <1>5, <2>2 DEF RegistryGrows, AdminInv, AdminTypes
  <2>6. \A d \in Consoles : Forward(adCon[d], adCon'[d])
    BY <1>2, <2>1, <2>2
  <2> QED BY <2>3, <2>4, <2>5, <2>6 DEF AdminInv
<1> QED BY <1>3, <1>4, <1>5, ConsoleBackend DEF Admin!Next

\* On the page of a request, which fetches once: what it was told of is decided in what it
\* shows, the answer of its own decision before the row of the list.
Settles(r) == r.status \in {"approved", "rejected"}
ToldIsShown(v, t) ==
    v.page = "detail" =>
      /\ v.id \in Admin!Ids /\ \A f, g \in v.fetches : f = g
      /\ v.updated # Admin!Unmade => Settles(v.updated)
      /\ v.updated = Admin!Unmade =>
          /\ v.fetches # {} => v.id \notin t
          /\ v.id \in t => Settles(v.data.requests[v.id])
ToldInv ==
    /\ DOMAIN adTold = Consoles
    /\ \A c \in Consoles : ToldIsShown(adCon[c], adTold[c])

LEMMA ToldInit == Admin!Init => ToldInv
BY DEF Admin!Init, ToldInv, ToldIsShown, Admin!Mounted

\* A console's step, which starts no decision of what the page was told of.
ToldKept(c) ==
    /\ DOMAIN adTold' = Consoles /\ \A d \in Consoles \ {c} : adTold'[d] = adTold[d]
    /\ \E v : /\ adCon' = [adCon EXCEPT ![c] = v] /\ ToldIsShown(v, adTold'[c])
              /\ adCon[c].acting = Admin!None /\ v.acting # Admin!None =>
                    adCon[c].id \notin adTold[c]

LEMMA ConsoleIsTold ==
    ASSUME AdminInv, ToldInv, NEW c \in Consoles,
           \/ \E t \in Admin!Tabs : Admin!ChooseTab(c, t)
           \/ Admin!Refresh(c) \/ Admin!Serve(c) \/ Admin!Receive(c) \/ Admin!FetchFails(c)
           \/ Admin!Back(c)
           \/ \E f \in Admin!Filters : Admin!Choose(c, f)
           \/ \E i \in Admin!Ids : Admin!Review(c, i)
           \/ \E d \in {"approved", "rejected"} : Admin!Decide(c, d)
           \/ Admin!DecisionAnswers(c) \/ Admin!DecisionFails(c)
    PROVE  ToldKept(c)
<1> DEFINE v == adCon[c]
           t == adTold[c]
<1>1. /\ v \in Console /\ v.acting \in {Admin!None, "approved", "rejected"}
      /\ v.fetches \in SUBSET Fetches /\ ToldIsShown(v, t) /\ DOMAIN adTold = Consoles
  BY ConsoleFields DEF ToldInv
<1> HIDE DEF v, t
<1>2. ASSUME NEW w, adCon' = [adCon EXCEPT ![c] = w], adTold' = adTold, ToldIsShown(w, t),
             v.acting = Admin!None /\ w.acting # Admin!None => v.id \notin t
      PROVE  ToldKept(c)
  BY <1>1, <1>2 DEF ToldKept, v, t
<1>3. ASSUME NEW page \in Admin!Tabs \cup {"detail"}, NEW i, page = "detail" => i \in Admin!Ids,
             Admin!Open(c, page, i)
      PROVE  ToldKept(c)
  <2>1. ToldIsShown(Admin!Mounted(page, i), {}) /\ Admin!Mounted(page, i).acting = Admin!None
    BY <1>3 DEF ToldIsShown, Admin!Mounted
  <2> QED BY <1>1, <1>3, <2>1 DEF Admin!Open, Admin!Set, ToldKept
<1>4. ASSUME NEW s \in Admin!Tabs, Admin!ChooseTab(c, s) PROVE ToldKept(c)
  <2>1. s # "detail"
    BY DEF Admin!Tabs
  <2> QED BY <1>3, <1>4, <2>1 DEF Admin!ChooseTab
<1>5. CASE Admin!Back(c)
  BY <1>3, <1>5 DEF Admin!Back, Admin!Tabs
<1>6. ASSUME NEW i \in Admin!Ids, Admin!Review(c, i) PROVE ToldKept(c)
  BY <1>3, <1>6 DEF Admin!Review
<1>7. CASE Admin!Refresh(c)
  <2> DEFINE n == v.nonce + 1
             w == [v EXCEPT !.nonce = n, !.fetches = v.fetches \cup {Admin!Fetch(n)}]
  <2>1. adCon' = [adCon EXCEPT ![c] = w] /\ adTold' = adTold /\ v.page # "detail"
    BY <1>7 DEF Admin!Refresh, Admin!Set, Admin!Tabs, v
  <2>2. w.page = v.page /\ w.acting = v.acting
    BY <1>1 DEF Console
  <2> HIDE DEF w
  <2> QED BY <1>2, <2>1, <2>2 DEF ToldIsShown
<1>8. CASE Admin!Serve(c)
  <2>1. PICK f \in v.fetches :
          /\ adTold' = adTold
          /\ adCon' = [adCon EXCEPT ![c] = [v EXCEPT !.fetches =
                (v.fetches \ {f}) \cup {[f EXCEPT !.data = Admin!Snapshot]}]]
    BY <1>8 DEF Admin!Serve, Admin!Set, v
  <2> DEFINE w == [v EXCEPT !.fetches =
                        (v.fetches \ {f}) \cup {[f EXCEPT !.data = Admin!Snapshot]}]
  <2>2. /\ w.page = v.page /\ w.acting = v.acting /\ w.id = v.id /\ w.updated = v.updated
        /\ w.data = v.data
        /\ w.fetches = (v.fetches \ {f}) \cup {[f EXCEPT !.data = Admin!Snapshot]}
    BY <1>1 DEF Console
  <2> HIDE DEF w
  <2>3. ToldIsShown(w, t)
    <3>1. CASE \A x, y \in v.fetches : x = y
      <4>1. \A x, y \in w.fetches : x = y
        BY <2>2, <3>1
      <4> QED BY <1>1, <2>2, <4>1 DEF ToldIsShown
    <3>2. CASE v.page # "detail"
      BY <2>2, <3>2 DEF ToldIsShown
    <3> QED BY <1>1, <3>1, <3>2 DEF ToldIsShown
  <2> QED BY <1>2, <2>1, <2>2, <2>3 DEF w
<1>9. CASE Admin!Receive(c)
  <2>1. PICK f \in v.fetches :
        LET rest == [v EXCEPT !.fetches = @ \ {f}] IN
        IF Admin!Live(c, f)
        THEN /\ adCon' = [adCon EXCEPT ![c] =
                    [rest EXCEPT !.data = f.data, !.settled = TRUE, !.error = FALSE]]
             /\ adTold' = [adTold EXCEPT ![c] = t \cup Admin!Decided(f.data.requests)]
        ELSE adCon' = [adCon EXCEPT ![c] = rest] /\ adTold' = adTold
    BY <1>1, <1>9 DEF Admin!Receive, Admin!Set, v, t
  <2> DEFINE rest == [v EXCEPT !.fetches = @ \ {f}]
             w == [rest EXCEPT !.data = f.data, !.settled = TRUE, !.error = FALSE]
             u == t \cup Admin!Decided(f.data.requests)
  <2>2. /\ rest.page = v.page /\ rest.acting = v.acting /\ rest.id = v.id
        /\ rest.updated = v.updated /\ rest.data = v.data /\ rest.fetches = v.fetches \ {f}
        /\ w.page = v.page /\ w.acting = v.acting /\ w.id = v.id
        /\ w.updated = v.updated /\ w.data = f.data /\ w.fetches = v.fetches \ {f}
    BY <1>1 DEF Console
  <2>3. \A i \in Admin!Ids : i \in u => i \in t \/ Settles(f.data.requests[i])
    BY DEF Admin!Decided, Settles
  <2> HIDE DEF rest, w, u
  <2>4. ToldIsShown(rest, t) /\ ToldIsShown(w, u)
    BY <1>1, <2>2, <2>3 DEF ToldIsShown
  <2>5. CASE Admin!Live(c, f)
    <3>1. adCon' = [adCon EXCEPT ![c] = w] /\ adTold' = [adTold EXCEPT ![c] = u]
      BY <2>1, <2>5 DEF w, rest, u
    <3> QED BY <1>1, <2>2, <2>4, <3>1 DEF ToldKept, v
  <2>6. CASE ~Admin!Live(c, f)
    <3>1. adCon' = [adCon EXCEPT ![c] = rest] /\ adTold' = adTold
      BY <2>1, <2>6 DEF rest
    <3> QED BY <1>2, <2>2, <2>4, <3>1
  <2> QED BY <2>5, <2>6
<1>10. CASE Admin!FetchFails(c)
  <2>1. PICK f \in v.fetches :
          /\ adTold' = adTold
          /\ adCon' = [adCon EXCEPT ![c] =
                [v EXCEPT !.fetches = v.fetches \ {f},
                          !.settled = Admin!Live(c, f) \/ v.settled,
                          !.error = Admin!Live(c, f) \/ v.error]]
    BY <1>10 DEF Admin!FetchFails, Admin!Set, v
  <2> DEFINE a == Admin!Live(c, f) \/ v.settled
             b == Admin!Live(c, f) \/ v.error
             w == [v EXCEPT !.fetches = v.fetches \ {f}, !.settled = a, !.error = b]
  <2>2. /\ w.page = v.page /\ w.acting = v.acting /\ w.id = v.id /\ w.updated = v.updated
        /\ w.data = v.data /\ w.fetches = v.fetches \ {f}
    BY <1>1 DEF Console
  <2> HIDE DEF w
  <2>3. ToldIsShown(w, t)
    BY <1>1, <2>2 DEF ToldIsShown
  <2> QED BY <1>2, <2>1, <2>2, <2>3 DEF w
<1>11. ASSUME NEW f \in Admin!Filters, Admin!Choose(c, f) PROVE ToldKept(c)
  <2> DEFINE w == [v EXCEPT !.filter = f]
  <2>1. adCon' = [adCon EXCEPT ![c] = w] /\ adTold' = adTold /\ v.page # "detail"
    BY <1>11 DEF Admin!Choose, Admin!Set, v
  <2>2. w.page = v.page /\ w.acting = v.acting
    BY <1>1 DEF Console
  <2> HIDE DEF w
  <2> QED BY <1>2, <2>1, <2>2 DEF ToldIsShown
<1>12. ASSUME NEW a, adCon' = [adCon EXCEPT ![c] = [v EXCEPT !.acting = a]], adTold' = adTold,
              v.acting = Admin!None /\ a # Admin!None => v.id \notin t
       PROVE  ToldKept(c)
  <2> DEFINE w == [v EXCEPT !.acting = a]
  <2>1. /\ w.page = v.page /\ w.acting = a /\ w.id = v.id /\ w.updated = v.updated
        /\ w.data = v.data /\ w.fetches = v.fetches
    BY <1>1 DEF Console
  <2> HIDE DEF w
  <2>2. ToldIsShown(w, t)
    BY <1>1, <2>1 DEF ToldIsShown
  <2> QED BY <1>2, <1>12, <2>1, <2>2 DEF w
<1>13. ASSUME NEW d \in {"approved", "rejected"}, Admin!Decide(c, d) PROVE ToldKept(c)
  <2>1. /\ adCon' = [adCon EXCEPT ![c] = [v EXCEPT !.acting = d]] /\ adTold' = adTold
        /\ v.page = "detail" /\ Admin!Request(c).status = "pending"
    BY <1>13 DEF Admin!Decide, Admin!Set, v
  <2>2. v.id \notin t
    BY <1>1, <2>1 DEF Admin!Request, ToldIsShown, Settles, v
  <2> QED BY <1>12, <2>1, <2>2
<1>14. CASE Admin!DecisionFails(c)
  BY <1>12, <1>14 DEF Admin!DecisionFails, Admin!Set, v
<1>15. CASE Admin!DecisionAnswers(c)
  <2> DEFINE r == Admin!Reviewed(v.id, v.acting)
             w == [v EXCEPT !.acting = Admin!None, !.updated = r]
             u == t \cup {v.id}
  <2>1. /\ adCon' = [adCon EXCEPT ![c] = w] /\ adTold' = [adTold EXCEPT ![c] = u]
        /\ v.acting # Admin!None
    BY <1>1, <1>15 DEF Admin!DecisionAnswers, Admin!Set, v, t
  <2>2. Settles(r) /\ r # Admin!Unmade
    BY <1>1, <2>1 DEF Admin!Reviewed, Settles, Admin!Unmade, Admin!None
  <2>3. /\ w.page = v.page /\ w.acting = Admin!None /\ w.id = v.id /\ w.updated = r
        /\ w.data = v.data /\ w.fetches = v.fetches
    BY <1>1 DEF Console
  <2> HIDE DEF w, u, r
  <2>4. ToldIsShown(w, u)
    BY <1>1, <2>2, <2>3 DEF ToldIsShown
  <2> QED BY <1>1, <2>1, <2>3, <2>4 DEF ToldKept, v
<1> QED BY <1>4, <1>5, <1>6, <1>7, <1>8, <1>9, <1>10, <1>11, <1>13, <1>14, <1>15

\* A step starts no decision that its page was told of.
LEMMA ToldStep ==
    ASSUME AdminInv, ToldInv, [Admin!Next]_(Admin!vars)
    PROVE  /\ ToldInv'
           /\ \A c \in Consoles :
                adCon[c].acting = Admin!None /\ adCon'[c].acting # Admin!None =>
                    adCon[c].id \notin adTold[c]
<1>1. CASE UNCHANGED <<adCon, adTold>>
  BY <1>1 DEF ToldInv
<1>2. ASSUME NEW c \in Consoles, ToldKept(c)
      PROVE  /\ ToldInv'
             /\ \A d \in Consoles :
                  adCon[d].acting = Admin!None /\ adCon'[d].acting # Admin!None =>
                      adCon[d].id \notin adTold[d]
  BY <1>2 DEF ToldInv, ToldKept, AdminInv, AdminTypes
<1>3. CASE Admin!Solve \/ Admin!TokenGoes \/ Admin!Submit \/ Admin!Applied \/ Admin!ApplyFails
  <2>1. adTold' = adTold
    BY <1>3 DEF Admin!Solve, Admin!TokenGoes, Admin!Submit, Admin!Applied, Admin!ApplyFails
  <2> QED BY <1>1, <1>3, <2>1, FormKeepsAdmin
<1>4. CASE UNCHANGED Admin!vars
  BY <1>1, <1>4 DEF Admin!vars
<1> QED BY <1>2, <1>3, <1>4, ConsoleIsTold DEF Admin!Next

LEMMA AdminIsSound == AdminInv => Admin!TypeOK /\ Admin!ThankedIsRegistered
<1> SUFFICES ASSUME AdminInv PROVE Admin!TypeOK
  BY DEF AdminInv
<1>1. \A i \in Admin!Ids : adRegistry[i].status \in {Admin!None} \cup (Admin!Filters \ {"all"})
  BY DEF AdminInv, AdminTypes, Rows, Row, Statuses, Admin!Filters
<1>2. \A c \in Consoles : adCon[c].nonce \in 1..MaxFetches /\ adCon[c].data.at \in -1..adChanges
  BY ConsoleFields DEF ListIsSound
<1> QED BY <1>1, <1>2 DEF Admin!TypeOK

-------------------------------------------------------------------------------
\* The grid of widgets: every order that is kept or shown has each widget once.

Orders == Lists(Grid!Widgets)
Names == Grid!Widgets \cup {Grid!Foreign}
\* A cache, or the storage: nothing, or one order.
Kept == {<<>>} \cup {<<s>> : s \in Orders}
\* A tab runs a release that was served.
Page(n) == [release : 1..n, cache : Kept, drag : Names, over : Names]
GridInv ==
    /\ wgRelease \in 1..Len(Releases) /\ wgStored \in Kept
    /\ wgTabs \in [GridTabs -> Page(wgRelease)]

\* What filter() leaves of an order is one.
LEMMA ThoseAre ==
    ASSUME NEW s \in Orders, NEW keep
    PROVE  Grid!Those(s, keep) \in Orders /\ Range(Grid!Those(s, keep)) = Range(s) \cap keep
<1> DEFINE K == {i \in DOMAIN s : s[i] \in keep}
<1>1. Grid!Those(s, keep) = Only(s, K)
  BY DEF Grid!Those, Grid!Only, Only, Grid!Place, Place, Grid!Cardinality, Cardinality
<1>2. Only(s, K) \in Orders /\ Range(Only(s, K)) = {s[i] : i \in K}
  BY OnlyOfList DEF Orders
<1>3. {s[i] : i \in K} = Range(s) \cap keep
  BY DEF Range
<1> QED BY <1>1, <1>2, <1>3

LEMMA ReleasesAre ==
    ASSUME NEW n \in 1..Len(Releases) PROVE Releases[n] \in Orders
BY GridAssumption DEF Orders, Lists, IsInjective

LEMMA KeptIs ==
    ASSUME NEW c \in Kept
    PROVE  Len(c) <= 1 /\ (c # <<>> => c[1] \in Orders /\ c = <<c[1]>>)
<1>1. CASE c = <<>>
  BY <1>1
<1>2. CASE c # <<>>
  <2>1. PICK s \in Orders : c = <<s>>
    BY <1>2 DEF Kept
  <2>2. Len(c) = 1 /\ c[1] = s
    BY <2>1
  <2> QED BY <2>1, <2>2
<1> QED BY <1>1, <1>2

\* What a tab shows is an order of the widgets of its release.
LEMMA OrderIs ==
    ASSUME GridInv, NEW t \in GridTabs
    PROVE  /\ Grid!readOrder(t) \in Kept
           /\ Grid!defaultOrder(t) \in Orders /\ Grid!order(t) \in Orders
           /\ Range(Grid!order(t)) = Range(Grid!defaultOrder(t))
<1> DEFINE saved == Grid!readOrder(t)
           default == Grid!defaultOrder(t)
           filtered == Grid!Those(saved[1], Range(default))
           added == Grid!Those(default, Range(default) \ Range(filtered))
<1>1. wgTabs[t] \in Page(wgRelease)
  BY DEF GridInv
<1>2. saved \in Kept
  BY <1>1 DEF GridInv, Page, Grid!readOrder
<1>3. default \in Orders
  <2>1. wgTabs[t].release \in 1..Len(Releases)
    BY <1>1 DEF GridInv, Page
  <2> QED BY <2>1, ReleasesAre DEF Grid!defaultOrder
<1>4. Grid!order(t) = IF saved = <<>> THEN default ELSE filtered \o added
  BY DEF Grid!order, Grid!Range, Range
<1>5. CASE saved # <<>>
  <2>1. saved[1] \in Orders
    BY <1>2, <1>5, KeptIs
  <2> HIDE DEF saved, default
  <2>2. filtered \in Orders /\ Range(filtered) = Range(saved[1]) \cap Range(default)
    BY <2>1, ThoseAre
  <2> HIDE DEF filtered
  <2>3. added \in Orders /\
          Range(added) = Range(default) \cap (Range(default) \ Range(filtered))
    BY <1>3, ThoseAre
  <2> HIDE DEF added
  <2>4. Range(filtered) \cap Range(added) = {} /\ Range(filtered) \cup
          Range(added) = Range(default)
    BY <2>2, <2>3
  <2>5. filtered \o added \in Orders /\ Range(filtered \o added) = Range(default)
    BY <2>2, <2>3, <2>4, JoinOfLists DEF Orders
  <2> QED BY <1>2, <1>3, <1>4, <1>5, <2>5 DEF saved, default
<1> QED BY <1>2, <1>3, <1>4, <1>5

\* Taking a widget out and putting it in elsewhere loses none and doubles none.
LEMMA SplicedIs ==
    ASSUME NEW xs \in Orders, NEW from \in DOMAIN xs, NEW to \in DOMAIN xs
    PROVE  Grid!Spliced(xs, from, to) \in Orders
<1> DEFINE n == Len(xs)
           ys == Grid!RemoveAt(xs, from)
           zs == Grid!InsertAt(ys, to, xs[from])
<1>1. xs \in Seq(Grid!Widgets) /\ n \in Nat /\ DOMAIN xs = 1..n /\ IsInjective(xs)
  BY DEF Orders, Lists
<1>2. from \in 1..n /\ to \in 1..n /\ xs[from] \in Grid!Widgets
  BY <1>1
<1>3. /\ ys \in Seq(Grid!Widgets) /\ Len(ys) = n - 1
      /\ \A i \in 1..(n - 1) : ys[i] = IF i < from THEN xs[i] ELSE xs[i + 1]
  <2>1. ys = SubSeq(xs, 1, from - 1) \o SubSeq(xs, from + 1, n)
    BY DEF Grid!RemoveAt
  <2> DEFINE a == SubSeq(xs, 1, from - 1)
             b == SubSeq(xs, from + 1, n)
  <2>2. /\ a \in Seq(Grid!Widgets) /\ Len(a) = from - 1
        /\ \A i \in 1..(from - 1) : a[i] = xs[i]
    BY <1>1, <1>2
  <2>3. /\ b \in Seq(Grid!Widgets) /\ Len(b) = n - from
        /\ \A i \in 1..(n - from) : b[i] = xs[from + i]
    BY <1>1, <1>2
  <2> HIDE DEF a, b, n
  <2>4. a \o b \in Seq(Grid!Widgets) /\ Len(a \o b) = n - 1
    BY <1>1, <1>2, <2>2, <2>3
  <2>5. ASSUME NEW i \in 1..(n - 1) PROVE (a \o b)[i] = IF i < from THEN xs[i] ELSE xs[i + 1]
    <3>1. CASE i < from
      <4>1. i \in 1..(from - 1) /\ (a \o b)[i] = a[i]
        BY <1>1, <1>2, <2>2, <2>3, <3>1
      <4> QED BY <2>2, <3>1, <4>1
    <3>2. CASE ~(i < from)
      <4>0. i \in 1..(Len(a) + Len(b)) /\ ~(i <= Len(a)) /\ i - (from - 1) \in 1..(n - from)
        BY <1>1, <1>2, <2>2, <2>3, <3>2
      <4>3. (a \o b)[i] = b[i - Len(a)]
        BY <2>2, <2>3, <4>0, ConcatProperties
      <4>1. (a \o b)[i] = b[i - (from - 1)]
        BY <2>2, <4>3
      <4>2. b[i - (from - 1)] = xs[from + (i - (from - 1))] /\ from + (i - (from - 1)) = i + 1
        BY <1>1, <1>2, <2>3, <4>0
      <4> QED BY <3>2, <4>1, <4>2
    <3> QED BY <3>1, <3>2
  <2> QED BY <2>1, <2>4, <2>5 DEF a, b
<1> HIDE DEF ys
<1>4. /\ zs \in Seq(Grid!Widgets) /\ Len(zs) = n
      /\ \A i \in 1..n : zs[i] = IF i < to THEN ys[i] ELSE IF i = to THEN xs[from] ELSE ys[i - 1]
  <2>1. zs = SubSeq(ys, 1, to - 1) \o <<xs[from]>> \o SubSeq(ys, to, n - 1)
    BY <1>3 DEF Grid!InsertAt
  <2> DEFINE a == SubSeq(ys, 1, to - 1)
             b == SubSeq(ys, to, n - 1)
             c == a \o <<xs[from]>>
  <2>2. /\ a \in Seq(Grid!Widgets) /\ Len(a) = to - 1
        /\ \A i \in 1..(to - 1) : a[i] = ys[i]
    BY <1>1, <1>2, <1>3
  <2>3. /\ b \in Seq(Grid!Widgets) /\ Len(b) = n - to
        /\ \A i \in 1..(n - to) : b[i] = ys[to + i - 1]
    BY <1>1, <1>2, <1>3
  <2> HIDE DEF a, b, n
  <2>4. /\ c \in Seq(Grid!Widgets) /\ Len(c) = to
        /\ c[to] = xs[from] /\ \A i \in 1..(to - 1) : c[i] = ys[i]
    BY <1>1, <1>2, <2>2
  <2> HIDE DEF c
  <2>5. c \o b \in Seq(Grid!Widgets) /\ Len(c \o b) = n
    <3>1. c \o b \in Seq(Grid!Widgets) /\ Len(c \o b) = Len(c) + Len(b)
      BY <2>3, <2>4, ConcatProperties
    <3> QED BY <1>1, <1>2, <2>3, <2>4, <3>1
  <2>6. ASSUME NEW i \in 1..n
        PROVE  (c \o b)[i] = IF i < to THEN ys[i] ELSE IF i = to THEN xs[from] ELSE ys[i - 1]
    <3>1. CASE i <= to
      <4>1. (c \o b)[i] = c[i]
        BY <1>1, <1>2, <2>3, <2>4, <3>1
      <4>2. i \in 1..(to - 1) \/ i = to
        BY <1>1, <1>2, <3>1
      <4>3. i \in 1..(to - 1) => i < to
        BY <1>1, <1>2
      <4>4. i = to => ~(i < to)
        BY <1>1, <1>2
      <4> QED BY <2>4, <4>1, <4>2, <4>3, <4>4
    <3>2. CASE ~(i <= to)
      <4>1. i - to \in 1..(n - to) /\ (c \o b)[i] = b[i - to]
        BY <1>1, <1>2, <2>3, <2>4, <3>2
      <4>2. b[i - to] = ys[to + (i - to) - 1] /\ to + (i - to) - 1 = i - 1
        BY <1>1, <1>2, <2>3, <4>1
      <4>3. ~(i < to) /\ i # to
        BY <1>1, <1>2, <3>2
      <4> QED BY <4>1, <4>2, <4>3
    <3> QED BY <3>1, <3>2
  <2> QED BY <2>1, <2>5, <2>6 DEF a, b, c
<1> HIDE DEF zs, n
\* Where the widget at each place was.
<1> DEFINE was(i) == IF i = to THEN from
                     ELSE LET k == IF i < to THEN i ELSE i - 1 IN IF k < from THEN k ELSE k + 1
<1>5. ASSUME NEW i \in 1..n PROVE was(i) \in 1..n /\ zs[i] = xs[was(i)]
  <2>1. CASE i = to
    BY <1>1, <1>2, <1>4, <2>1
  <2>2. CASE i < to
    <3>1. i \in 1..(n - 1)
      BY <1>1, <1>2, <2>2
    <3>2. zs[i] = ys[i]
      BY <1>4, <2>2
    <3> QED BY <1>1, <1>2, <1>3, <2>2, <3>1, <3>2
  <2>3. CASE ~(i < to) /\ i # to
    <3>1. i - 1 \in 1..(n - 1)
      BY <1>1, <1>2, <2>3
    <3>2. zs[i] = ys[i - 1]
      BY <1>4, <2>3
    <3>3. zs[i] = IF i - 1 < from THEN xs[i - 1] ELSE xs[(i - 1) + 1]
      BY <1>3, <3>1, <3>2
    <3> QED BY <1>1, <1>2, <2>3, <3>1, <3>3
  <2> QED BY <1>2, <2>1, <2>2, <2>3
<1>6. ASSUME NEW i \in 1..n, NEW j \in 1..n, was(i) = was(j) PROVE i = j
  BY <1>1, <1>2, <1>6
<1> HIDE DEF was
<1>7. ASSUME NEW i \in 1..n, NEW j \in 1..n, zs[i] = zs[j] PROVE i = j
  <2>1. was(i) = was(j)
    BY <1>1, <1>5, <1>7 DEF IsInjective
  <2> QED BY <1>6, <2>1
<1>8. DOMAIN zs = 1..n
  BY <1>1, <1>4
<1>9. zs \in Orders
  BY <1>4, <1>7, <1>8 DEF Orders, Lists, IsInjective
<1> QED BY <1>9 DEF zs, ys, Grid!Spliced

LEMMA OneIsKept == ASSUME NEW s \in Orders PROVE <<s>> \in Kept
BY DEF Kept

LEMMA FreshIs == ASSUME NEW n \in Nat \ {0} PROVE Grid!Fresh(n) \in Page(n)
BY DEF Page, Grid!Fresh, Names, Kept

LEMMA GridInit == Grid!Init => GridInv
<1> SUFFICES ASSUME Grid!Init PROVE GridInv
  OBVIOUS
<1>1. wgRelease = 1 /\ wgRelease \in 1..Len(Releases) /\ wgStored \in Kept
  BY GridAssumption DEF Grid!Init, Kept
<1>2. Grid!Fresh(1) \in Page(1)
  BY FreshIs
<1> QED BY <1>1, <1>2 DEF Grid!Init, GridInv

\* One tab changes, and the storage holds one order.
TabStep(t) ==
    /\ wgRelease' = wgRelease /\ wgStored' \in Kept
    /\ \E v \in Page(wgRelease) : wgTabs' = [wgTabs EXCEPT ![t] = v]

LEMMA TabKeepsGrid == ASSUME GridInv, NEW t \in GridTabs, TabStep(t) PROVE GridInv'
BY DEF GridInv, TabStep

\* A tab whose page has read the order, and drags what it may.
LEMMA RenderedIs ==
    ASSUME GridInv, NEW t \in GridTabs, NEW d \in Names, NEW o \in Names
    PROVE  /\ [Grid!Rendered(t) EXCEPT !.drag = d, !.over = o] \in Page(wgRelease)
           /\ [Grid!Rendered(t) EXCEPT !.drag = d] \in Page(wgRelease)
           /\ [Grid!Rendered(t) EXCEPT !.over = o] \in Page(wgRelease)
<1>1. wgTabs[t] \in Page(wgRelease) /\ Grid!readOrder(t) \in Kept
  BY OrderIs DEF GridInv
<1>2. Grid!Rendered(t) \in Page(wgRelease)
  BY <1>1 DEF Grid!Rendered, Page
<1> QED BY <1>2 DEF Page

LEMMA WriteIs ==
    ASSUME GridInv, NEW t \in GridTabs, NEW next \in Orders, Grid!writeOrder(t, next),
           wgRelease' = wgRelease
    PROVE  TabStep(t)
<1> DEFINE v == [wgTabs[t] EXCEPT !.cache = <<next>>, !.drag = Grid!Foreign,
                                  !.over = Grid!Foreign]
<1>1. <<next>> \in Kept /\ wgTabs[t] \in Page(wgRelease) /\ wgStored \in Kept
  BY OneIsKept DEF GridInv
<1>2. v \in Page(wgRelease)
  BY <1>1 DEF Page, Names
<1>3. wgTabs' = [wgTabs EXCEPT ![t] = v] /\ wgStored' \in Kept
  BY <1>1 DEF Grid!writeOrder
<1> QED BY <1>2, <1>3 DEF TabStep

\* Both widgets of a drop are in the order.
LEMMA DropIs ==
    ASSUME GridInv, NEW t \in GridTabs, NEW w \in Names, Grid!Drop(t, w)
    PROVE  TabStep(t)
<1> DEFINE xs == Grid!order(t)
           over == wgTabs[t].over
<1>1. wgRelease' = wgRelease /\ wgStored \in Kept /\ Grid!Foreign \in Names
  BY DEF Grid!Drop, GridInv, Names
<1>2. CASE w = over \/ {w, over} \ Grid!Range(xs) # {}
  <2>1. /\ wgTabs' = [wgTabs EXCEPT ![t] = [Grid!Rendered(t) EXCEPT !.drag = Grid!Foreign,
                                                                   !.over = Grid!Foreign]]
        /\ wgStored' = wgStored
    BY <1>2 DEF Grid!Drop
  <2> QED BY <1>1, <2>1, RenderedIs DEF TabStep
<1>3. CASE ~(w = over \/ {w, over} \ Grid!Range(xs) # {})
  <2>1. xs \in Orders
    BY OrderIs
  <2>2. ASSUME NEW x \in Range(xs) PROVE Grid!indexOf(xs, x) \in DOMAIN xs
    <3>1. DOMAIN xs \subseteq Nat /\ IsInjective(xs)
      BY <2>1 DEF Orders, Lists
    <3>2. PICK i \in DOMAIN xs : xs[i] = x
      BY DEF Range
    <3>3. \A j \in 1..(i - 1) : j \in DOMAIN xs /\ j # i
      BY <2>1, <3>2 DEF Orders, Lists
    <3>4. \A j \in 1..(i - 1) : xs[j] # x
      BY <3>1, <3>2, <3>3 DEF IsInjective
    <3> QED BY <3>2, <3>4 DEF Grid!indexOf
  <2>3. w \in Range(xs) /\ over \in Range(xs)
    BY <1>3 DEF Grid!Range, Range
  <2>4. Grid!writeOrder(t, Grid!Spliced(xs, Grid!indexOf(xs, w), Grid!indexOf(xs, over)))
    BY <1>3 DEF Grid!Drop
  <2>5. Grid!Spliced(xs, Grid!indexOf(xs, w), Grid!indexOf(xs, over)) \in Orders
    BY <2>1, <2>2, <2>3, SplicedIs
  <2> QED BY <1>1, <2>4, <2>5, WriteIs
<1> QED BY <1>2, <1>3

LEMMA GridKept == GridInv /\ [Grid!Next]_(Grid!vars) => GridInv'
<1> SUFFICES ASSUME GridInv, [Grid!Next]_(Grid!vars) PROVE GridInv'
  OBVIOUS
<1>1. CASE UNCHANGED Grid!vars
  BY <1>1 DEF Grid!vars, GridInv
<1>2. CASE Grid!Released
  <2>1. wgRelease' \in 1..Len(Releases) /\ wgRelease' = wgRelease + 1 /\ wgTabs' = wgTabs
        /\ wgStored' = wgStored
    BY <1>2, GridAssumption DEF Grid!Released, GridInv
  <2>2. 1..wgRelease \subseteq 1..wgRelease'
    BY <2>1, SMT DEF GridInv
  <2>3. Page(wgRelease) \subseteq Page(wgRelease')
    BY <2>2 DEF Page
  <2> QED BY <2>1, <2>3 DEF GridInv
<1>3. ASSUME NEW t \in GridTabs, NEW w \in Names,
             \/ Grid!DragLeave(t) \/ Grid!DragEnd(t) \/ Grid!reset(t) \/ Grid!Reload(t)
             \/ w \in Grid!Widgets /\ (Grid!DragStart(t, w) \/ Grid!DragOver(t, w))
             \/ Grid!Drop(t, w)
      PROVE  TabStep(t)
  <2>1. wgStored \in Kept /\ Grid!Foreign \in Names
    BY DEF GridInv, Names
  <2>2. CASE Grid!DragLeave(t)
    BY <2>1, <2>2, RenderedIs DEF Grid!DragLeave, TabStep
  <2>3. CASE Grid!DragEnd(t)
    BY <2>1, <2>3, RenderedIs DEF Grid!DragEnd, TabStep
  <2>4. CASE Grid!DragStart(t, w)
    BY <2>1, <2>4, RenderedIs DEF Grid!DragStart, TabStep
  <2>5. CASE Grid!DragOver(t, w)
    BY <2>1, <2>5, RenderedIs DEF Grid!DragOver, TabStep
  <2>6. CASE Grid!reset(t)
    BY <2>6, OrderIs, WriteIs DEF Grid!reset
  <2>7. CASE Grid!Reload(t)
    <3>1. Grid!Fresh(wgRelease) \in Page(wgRelease)
      BY GridAssumption, FreshIs DEF GridInv
    <3>2. [Grid!Fresh(wgRelease) EXCEPT !.cache = wgStored] \in Page(wgRelease)
      BY <2>1, <3>1 DEF Page
    <3> QED BY <2>1, <2>7, <3>2 DEF Grid!Reload, TabStep
  <2>8. CASE Grid!Drop(t, w)
    BY <2>8, DropIs
  <2> QED BY <1>3, <2>2, <2>3, <2>4, <2>5, <2>6, <2>7, <2>8
<1>4. CASE Grid!Next /\ ~Grid!Released
  <2>1. PICK t \in GridTabs, w \in Names :
          \/ Grid!DragLeave(t) \/ Grid!DragEnd(t) \/ Grid!reset(t) \/ Grid!Reload(t)
          \/ w \in Grid!Widgets /\ (Grid!DragStart(t, w) \/ Grid!DragOver(t, w))
          \/ Grid!Drop(t, w)
    BY <1>4 DEF Grid!Next, Names
  <2> QED BY <1>3, <2>1, TabKeepsGrid
<1> QED BY <1>1, <1>2, <1>4

LEMMA GridIsSound == GridInv => Grid!TypeOK /\ Grid!EveryWidgetOnce
<1> SUFFICES ASSUME GridInv PROVE Grid!TypeOK /\ Grid!EveryWidgetOnce
  OBVIOUS
<1>1. Grid!TypeOK
  <2>1. DOMAIN Releases = 1..Len(Releases) /\ Len(wgStored) <= 1
    BY GridAssumption, KeptIs DEF GridInv
  <2>2. ASSUME NEW t \in GridTabs PROVE wgTabs[t].release <= wgRelease /\
                 Len(wgTabs[t].cache) <= 1
    <3>1. wgTabs[t].release \in 1..wgRelease /\ wgTabs[t].cache \in Kept
      BY DEF GridInv, Page
    <3> QED BY <3>1, KeptIs
  <2> QED BY <2>1, <2>2 DEF Grid!TypeOK, GridInv
<1>2. ASSUME NEW t \in GridTabs
      PROVE  /\ Grid!Range(Grid!order(t)) = Grid!Range(Grid!defaultOrder(t))
             /\ Len(Grid!order(t)) = Len(Grid!defaultOrder(t))
  BY OrderIs, ListsOfOneSet DEF Orders, Grid!Range, Range
<1> QED BY <1>1, <1>2 DEF Grid!EveryWidgetOnce

-------------------------------------------------------------------------------
\* The page that is open keeps its invariant, and the others do not run.

WebAccountInv ==
    /\ at \in {"session", "settings", "checkout", "admin", "grid"}
    /\ at = "session" => SessionInv
    /\ at = "settings" => SettingsInv /\ TouchedInv
    /\ at = "checkout" => CheckoutInv
    /\ at = "admin" => AdminInv /\ ToldInv
    /\ at = "grid" => GridInv

LEMMA WebAccountInit == Init => WebAccountInv
<1>1. Settings!Init => TouchedInv
  BY DEF Settings!Init, TouchedInv, Settings!InTouch, Settings!Unmounted, Settings!Gone
<1> QED BY <1>1, SessionInit, SettingsInit, CheckoutInit, AdminInit, ToldInit, GridInit
        DEF Init, WebAccountInv

LEMMA WebAccountKept == WebAccountInv /\ [Next]_vars => WebAccountInv'
<1> SUFFICES ASSUME WebAccountInv, [Next]_vars PROVE WebAccountInv'
  OBVIOUS
<1>1. at' = at
  BY DEF Next, Signing, Adjusting, Buying, Reviewing, Arranging, vars
<1>2. CASE at = "session"
  <2>1. [Session!Next]_(Session!vars)
    BY <1>2 DEF Next, Signing, Adjusting, Buying, Reviewing, Arranging, vars, ssVars, Session!vars
  <2> QED BY <1>1, <1>2, <2>1, SessionKept DEF WebAccountInv
<1>3. CASE at = "settings"
  <2>1. [Settings!Next]_(Settings!vars)
    BY <1>3 DEF Next, Signing, Adjusting, Buying, Reviewing, Arranging, vars, stVars, Settings!vars
  <2> QED BY <1>1, <1>3, <2>1, SettingsKept, TouchedStep DEF WebAccountInv
<1>4. CASE at = "checkout"
  <2>1. [Checkout!Next]_(Checkout!vars)
    BY <1>4 DEF Next, Signing, Adjusting, Buying, Reviewing, Arranging, vars, coVars, Checkout!vars
  <2> QED BY <1>1, <1>4, <2>1, CheckoutKept DEF WebAccountInv
<1>5. CASE at = "admin"
  <2>1. [Admin!Next]_(Admin!vars)
    BY <1>5 DEF Next, Signing, Adjusting, Buying, Reviewing, Arranging, vars, adVars, Admin!vars
  <2> QED BY <1>1, <1>5, <2>1, AdminKept, ToldStep DEF WebAccountInv
<1>6. CASE at = "grid"
  <2>1. [Grid!Next]_(Grid!vars)
    BY <1>6 DEF Next, Signing, Adjusting, Buying, Reviewing, Arranging, vars, wgVars, Grid!vars
  <2> QED BY <1>1, <1>6, <2>1, GridKept DEF WebAccountInv
<1> QED BY <1>2, <1>3, <1>4, <1>5, <1>6 DEF WebAccountInv

\* Whoever signs in, and whatever is asked for, the page that is open keeps its
\* invariant: every other theorem about it follows.
THEOREM PagesAreSound == Spec => []WebAccountInv
BY WebAccountInit, WebAccountKept, PTL DEF Spec

\* The page that is open keeps the kinds of its state.
THEOREM PagesKeepTheirTypes == Spec => []PagesAreTyped
<1>1. WebAccountInv => PagesAreTyped
  BY SessionIsSound, SettingsAreSound, CheckoutIsSound, AdminIsSound, GridIsSound
  DEF WebAccountInv, PagesAreTyped
<1> QED BY <1>1, PagesAreSound, PTL

\* Who signs in next meets nothing of the person before, once the tab was loaded again
\* (auth.logout, AUTH_STORAGE_KEYS), and the console is shown to administrators only
\* (AdminGuard).
THEOREM AccountsAreSeparate == Spec => []AccountsStayApart
<1>1. WebAccountInv => AccountsStayApart
  BY SessionIsSound DEF WebAccountInv, AccountsStayApart
<1> QED BY <1>1, PagesAreSound, PTL

\* No form that can be sent holds a challenge token that was sent before (useCaptcha).
THEOREM TokensServeOnce == Spec => []TokensAreFresh
<1>1. WebAccountInv => TokensAreFresh
  BY SessionIsSound DEF WebAccountInv, TokensAreFresh
<1> QED BY <1>1, PagesAreSound, PTL

\* The preferences and the profile in memory are those a reload would find, each unless
\* its last write failed or a sign-out has emptied the storage under it: a load, or a
\* write that succeeds, brings it back in step whatever came before (loadSettings,
\* saveSettings, saveProfile, clearUserScopedStorage).
THEOREM ReloadFindsTheSame == Spec => []StoresAgree
<1>1. WebAccountInv => StoresAgree
  BY SettingsAreSound DEF WebAccountInv, StoresAgree
<1> QED BY <1>1, PagesAreSound, PTL

\* A save changes no preference but those edited since the panel was opened, provided it
\* was opened by a navigation and nothing was cleared in it (SettingsPanels.save).
THEOREM SavesKeepToEdits == Spec /\ at = "settings" => Settings!SavesOnlyEdits
<1>1. at = "settings" /\ [Next]_vars => (at = "settings")'
  BY DEF Next, Signing, Adjusting, Buying, Reviewing, Arranging, vars
<1>2. WebAccountInv /\ at = "settings" /\ [Next]_vars =>
        [Settings!InTouch /\ Settings!InTouch' =>
            \A f \in Watched : stPrefs'[f] # stPrefs[f] => f \in stTouched]_(Settings!vars)
  <2> SUFFICES ASSUME WebAccountInv, at = "settings", [Next]_vars, Settings!InTouch,
                      Settings!InTouch', NEW f \in Watched, stPrefs'[f] # stPrefs[f]
               PROVE  f \in stTouched
    OBVIOUS
  <2>1. [Settings!Next]_(Settings!vars)
    BY DEF Next, Signing, Adjusting, Buying, Reviewing, Arranging, vars, stVars, Settings!vars
  <2> QED BY <2>1, SettingsKept, TouchedStep DEF WebAccountInv
<1> QED BY <1>1, <1>2, PagesAreSound, PTL DEF Spec, Settings!SavesOnlyEdits

\* "Payment confirmed - plan active" is shown and announced only for payments that
\* settled and activated, whichever loops and buttons ask and wherever the user is
\* (CheckoutPage.verify); and the request form thanks only for a request on record.
THEOREM WhatIsDoneIsDone == Spec => []SuccessIsReal
<1>1. WebAccountInv => SuccessIsReal
  BY CheckoutIsSound, AdminIsSound DEF WebAccountInv, SuccessIsReal
<1> QED BY <1>1, PagesAreSound, PTL

\* Every tab shows each widget of its release once and no other, whatever was dragged,
\* saved by another tab or another release, and read back (WidgetGrid, order, Drop).
THEOREM WidgetsAreShownOnce == Spec => []EveryWidgetOnce
<1>1. WebAccountInv => EveryWidgetOnce
  BY GridIsSound DEF WebAccountInv, EveryWidgetOnce
<1> QED BY <1>1, PagesAreSound, PTL

\* A list that a console page has shown is only replaced by one that was read as late
\* or later, in whatever order the answers of overlapping refreshes arrive
\* (useAdminData: an answer counts when its number is the last that was asked with).
THEOREM AnswersGoForward == Spec => ListGoesForward
<1>1. WebAccountInv /\ [Next]_vars =>
        [at = "admin" => \A c \in Consoles :
            adCon'[c].page = adCon[c].page /\ adCon'[c].data # Admin!NoData =>
                adCon'[c].data.at >= adCon[c].data.at]_adVars
  <2> SUFFICES ASSUME WebAccountInv, [Next]_vars, at = "admin", NEW c \in Consoles,
                      adCon'[c].page = adCon[c].page, adCon'[c].data # Admin!NoData
               PROVE  adCon'[c].data.at >= adCon[c].data.at
    OBVIOUS
  <2>1. AdminInv /\ [Admin!Next]_(Admin!vars)
    BY DEF WebAccountInv, Next, Signing, Adjusting, Buying, Reviewing, Arranging, vars, adVars,
           Admin!vars
  <2> QED BY <2>1, AdminKept DEF Forward
<1> QED BY <1>1, PagesAreSound, PTL DEF Spec, ListGoesForward

\* A decision that a request's page was told of, in its own answer or in the request it
\* fetched, is not decided again from that page (AdminRequestDetail: the buttons are offered
\* for a pending request only, and the answer is shown instead of the row).
THEOREM DecidedIsNotDecidedAgain == Spec /\ at = "admin" => Admin!DecidedIsLeftAlone
<1>1. at = "admin" /\ [Next]_vars => (at = "admin")'
  BY DEF Next, Signing, Adjusting, Buying, Reviewing, Arranging, vars
<1>2. WebAccountInv /\ at = "admin" /\ [Next]_vars =>
        [\A c \in Consoles : adCon[c].acting = Admin!None /\ adCon'[c].acting # Admin!None =>
            adCon[c].id \notin adTold[c]]_(Admin!vars)
  <2> SUFFICES ASSUME WebAccountInv, at = "admin", [Next]_vars, NEW c \in Consoles,
                      adCon[c].acting = Admin!None, adCon'[c].acting # Admin!None
               PROVE  adCon[c].id \notin adTold[c]
    OBVIOUS
  <2>1. [Admin!Next]_(Admin!vars)
    BY DEF Next, Signing, Adjusting, Buying, Reviewing, Arranging, vars, adVars, Admin!vars
  <2> QED BY <2>1, ToldStep DEF WebAccountInv
<1> QED BY <1>1, <1>2, PagesAreSound, PTL DEF Spec, Admin!DecidedIsLeftAlone
===============================================================================
