---------------------------- MODULE CommunityPage ----------------------------
(* The community page around the store: the skeleton and the simulated     *)
(* error, the tabs, the endless feed, the search and profile dialogs, the  *)
(* comment threads and the post composer with its attachments.             *)
EXTENDS Integers, FiniteSets

CONSTANTS
    Posts,        \* the posts of the store
    Authors,      \* who wrote them
    Matching,     \* Matching[tab]: the posts feedForTab keeps for a tab
    Tabs,         \* forYou, following, trending
    PageSize,     \* PAGE_SIZE
    MaxPage,      \* bound on page, past what the feed needs
    MaxMoves      \* bound on what the user does

VARIABLES
    tab, page, boot, error,      \* CommunityView
    observed,                    \* whether the sentinel on display is observed
    dialog,                      \* the search or profile dialog, and its own state
    thread,                      \* the thread that is open, and whether it has the focus
    draft,                       \* the PostComposer
    reading,                     \* a FileReader at work, and the draft it was started in
    sent,                        \* the last post made of a draft
    moves

vars == <<tab, page, boot, error, observed, dialog, thread, draft, reading, sent, moves>>
feedVars == <<tab, page, boot, error, observed>>
composerVars == <<draft, reading, sent>>

Closed == [at |-> "closed"]
Absent == "none"
NoSignal == [side |-> "none", entry |-> 0, target |-> 0, stop |-> 0]
Blank == [open |-> FALSE, text |-> "", image |-> Absent, market |-> FALSE, chart |-> FALSE,
          signal |-> NoSignal, emoji |-> FALSE]
Unsent == [text |-> "", image |-> Absent, market |-> FALSE, chart |-> FALSE, signal |-> NoSignal]

Init ==
    /\ tab = "forYou" /\ page = 1 /\ boot = TRUE /\ error = FALSE /\ observed = FALSE
    /\ dialog = Closed /\ thread = Closed /\ draft = Blank
    /\ reading = Absent /\ sent = Unsent /\ moves = 0

Move == moves < MaxMoves /\ moves' = moves + 1

-----------------------------------------------------------------------------
\* The feed.

Visible ==
    LET asked == page * PageSize
        found == Cardinality(Matching[tab])
    IN IF asked < found THEN asked ELSE found
\* Mutant: the last page is not asked for.
HasMoreEarly == Visible + PageSize < Cardinality(Posts)
HasMore == Visible < Cardinality(Posts)
Listed == ~error /\ ~boot /\ Visible > 0
\* The list comes with a sentinel of its own, which an effect observes that is run again
\* when one of these changes. It is not for a list that only takes an empty feed's place.
Dependencies == <<HasMore, error, boot, page>>
Observe ==
    observed' = IF Dependencies' # Dependencies THEN Listed' ELSE observed /\ Listed'
Stranded == Listed /\ ~observed

\* After 600 ms the skeleton goes; once in fifty times the page shows an error instead.
Booted ==
    /\ boot /\ boot' = FALSE /\ error' \in {error, TRUE}
    /\ UNCHANGED <<tab, page, dialog, thread, moves>> /\ Observe /\ UNCHANGED composerVars
\* The sentinel below the list is in view. Each page observes it afresh.
Intersect ==
    /\ Listed /\ observed /\ HasMore /\ page < MaxPage /\ page' = page + 1
    /\ UNCHANGED <<tab, boot, error, dialog, thread, moves>> /\ Observe
    /\ UNCHANGED composerVars
Retry ==
    /\ error /\ Move /\ error' = FALSE
    /\ UNCHANGED <<tab, page, boot, dialog, thread>> /\ Observe /\ UNCHANGED composerVars
ChooseTab(t) ==
    /\ Move /\ tab' = t /\ page' = 1 /\ UNCHANGED <<boot, error, dialog>> /\ Observe
    /\ thread' = Closed /\ UNCHANGED composerVars
\* The empty feed of the following tab leads to the trending one, at the same page.
Discover ==
    /\ Move /\ ~error /\ ~boot /\ Visible = 0 /\ tab = "following" /\ tab' = "trending"
    /\ UNCHANGED <<page, boot, error, dialog, thread>> /\ Observe /\ UNCHANGED composerVars

-----------------------------------------------------------------------------
\* Dialogs and threads.

OpenSearch ==
    /\ Move /\ dialog = Closed /\ dialog' = [at |-> "search", query |-> ""]
    /\ UNCHANGED feedVars /\ UNCHANGED thread /\ UNCHANGED composerVars
Query(q) ==
    /\ Move /\ dialog.at = "search" /\ dialog' = [dialog EXCEPT !.query = q]
    /\ UNCHANGED feedVars /\ UNCHANGED thread /\ UNCHANGED composerVars
\* Nothing is found for an empty query; a hit closes the dialog, a trader's opens the profile.
PickHit(a) ==
    /\ Move /\ dialog.at = "search" /\ dialog.query # ""
    /\ dialog' \in {Closed, [at |-> "profile", of |-> a, tab |-> "posts"]}
    /\ tab' \in {tab, "forYou"}
    /\ UNCHANGED <<page, boot, error, thread>> /\ Observe /\ UNCHANGED composerVars
OpenProfile(a) ==
    /\ Move /\ dialog = Closed /\ dialog' = [at |-> "profile", of |-> a, tab |-> "posts"]
    /\ UNCHANGED feedVars /\ UNCHANGED thread /\ UNCHANGED composerVars
ProfileTab(t) ==
    /\ Move /\ dialog.at = "profile" /\ dialog' = [dialog EXCEPT !.tab = t]
    /\ UNCHANGED feedVars /\ UNCHANGED thread /\ UNCHANGED composerVars
\* A post in the profile is a way back to the feed, not to the post.
OpenPost ==
    /\ Move /\ dialog.at = "profile" /\ dialog.tab # "replies"
    /\ dialog' = Closed /\ tab' = "forYou"
    /\ UNCHANGED <<page, boot, error, thread>> /\ Observe /\ UNCHANGED composerVars
CloseDialog ==
    /\ Move /\ dialog # Closed /\ dialog' = Closed
    /\ UNCHANGED feedVars /\ UNCHANGED thread /\ UNCHANGED composerVars

\* The comment button opens a thread with the focus in its composer, and closes it.
ToggleThread ==
    /\ Move /\ Listed
    /\ thread' = IF thread = Closed THEN [at |-> "open", focus |-> TRUE] ELSE Closed
    /\ UNCHANGED feedVars /\ UNCHANGED dialog /\ UNCHANGED composerVars
Reply ==
    /\ Move /\ thread # Closed /\ thread' = [thread EXCEPT !.focus = FALSE]
    /\ UNCHANGED feedVars /\ UNCHANGED dialog /\ UNCHANGED composerVars

-----------------------------------------------------------------------------
\* The composer.

Compose(new) ==
    /\ Move /\ draft' = new /\ UNCHANGED <<reading, sent>>
    /\ UNCHANGED feedVars /\ UNCHANGED <<dialog, thread>>
Expand == ~draft.open /\ Compose([draft EXCEPT !.open = TRUE])
Type == draft.open /\ \E t \in {"words", ""} : Compose([draft EXCEPT !.text = t])
\* A quote opens the composer, and is taken only by an empty one; the tab changes too.
Quote ==
    /\ Move /\ Listed /\ tab' = "forYou"
    /\ draft' = [draft EXCEPT !.open = TRUE, !.text = IF @ = "" THEN "quote" ELSE @]
    /\ UNCHANGED <<page, boot, error, dialog, thread, reading, sent>> /\ Observe
InsertEmoji ==
    draft.open /\ draft.emoji /\ Compose([draft EXCEPT !.text = "words", !.emoji = FALSE])
ShowEmoji ==
    draft.open /\ ~draft.market /\ Compose([draft EXCEPT !.emoji = ~@])

\* The image tools and the other attachments are offered while no market is attached.
PickFile ==
    /\ draft.open /\ ~draft.market /\ Move /\ reading = Absent /\ reading' = "own"
    /\ UNCHANGED <<draft, sent>> /\ UNCHANGED feedVars /\ UNCHANGED <<dialog, thread>>
\* reader.onload: the file lands in the composer as it is then.
FileRead ==
    /\ reading # Absent /\ draft' = [draft EXCEPT !.image = reading] /\ reading' = Absent
    /\ UNCHANGED <<sent, moves>> /\ UNCHANGED feedVars /\ UNCHANGED <<dialog, thread>>
ImportUrl == draft.open /\ ~draft.market /\ Compose([draft EXCEPT !.image = "own"])
DropImage == draft.open /\ draft.image # Absent /\ Compose([draft EXCEPT !.image = Absent])
AttachMarket == draft.open /\ ~draft.market /\ Compose([draft EXCEPT !.market = TRUE])
DropMarket == draft.open /\ draft.market /\ Compose([draft EXCEPT !.market = FALSE])
AttachChart == draft.open /\ ~draft.market /\ Compose([draft EXCEPT !.chart = TRUE])

\* Mutant: the stop is always the one of a purchase.
LevelsBelow(side) ==
    [side |-> side, entry |-> 0, target |-> IF side = "BUY" THEN 2 ELSE -2, stop |-> -1]
\* The levels are laid out for the side the signal has when it is attached (again).
Levels(side) ==
    IF side = "BUY" THEN [side |-> side, entry |-> 0, target |-> 2, stop |-> -1]
                    ELSE [side |-> side, entry |-> 0, target |-> -2, stop |-> 1]
AttachSignal ==
    /\ draft.open /\ ~draft.market
    /\ Compose([draft EXCEPT !.signal = Levels(IF @ = NoSignal THEN "BUY" ELSE @.side)])
\* The direction is changed in place; the levels stay.
TurnSignal(side) ==
    draft.open /\ draft.signal # NoSignal /\ Compose([draft EXCEPT !.signal.side = side])
DropSignal == draft.open /\ draft.signal # NoSignal /\ Compose([draft EXCEPT !.signal = NoSignal])

CanPost ==
    \/ draft.text # "" \/ draft.image # Absent
    \/ draft.market \/ draft.chart \/ draft.signal # NoSignal
Stale(r) == IF r = Absent THEN Absent ELSE "foreign"
\* A post carries what the draft had, closes the composer and goes to the first tab.
PostDraft ==
    /\ draft.open /\ CanPost /\ Move
    /\ sent' = [text |-> draft.text, image |-> draft.image, market |-> draft.market,
                chart |-> draft.chart, signal |-> draft.signal]
    /\ draft' = Blank /\ reading' = Stale(reading) /\ tab' = "forYou"
    /\ UNCHANGED <<page, boot, error, dialog, thread>> /\ Observe
CancelDraft ==
    /\ draft.open /\ Move /\ draft' = Blank /\ reading' = Stale(reading)
    /\ UNCHANGED sent /\ UNCHANGED feedVars /\ UNCHANGED <<dialog, thread>>

Browsing ==
    \/ Booted \/ Intersect \/ Retry \/ Discover \/ \E t \in Tabs : ChooseTab(t)
    \/ OpenSearch \/ CloseDialog \/ OpenPost \/ \E q \in {"", "gold"} : Query(q)
    \/ \E a \in Authors : OpenProfile(a) \/ PickHit(a)
    \/ \E t \in {"posts", "replies", "media", "saved"} : ProfileTab(t)
    \/ ToggleThread \/ Reply
Composing ==
    \/ Expand \/ Type \/ Quote \/ InsertEmoji \/ ShowEmoji
    \/ PickFile \/ FileRead \/ ImportUrl \/ DropImage
    \/ AttachMarket \/ DropMarket \/ AttachChart \/ AttachSignal \/ DropSignal
    \/ \E side \in {"BUY", "SELL"} : TurnSignal(side)
    \/ PostDraft \/ CancelDraft
Next == Browsing \/ Composing
Spec == Init /\ [][Next]_vars /\ WF_vars(Booted) /\ WF_vars(Intersect)

-----------------------------------------------------------------------------
TypeOK ==
    /\ tab \in Tabs /\ page \in 1 .. MaxPage /\ boot \in BOOLEAN /\ error \in BOOLEAN
    /\ observed \in BOOLEAN
    /\ draft.image \in {Absent, "own", "foreign"} /\ reading \in {Absent, "own", "foreign"}

\* A signal in a post has its stop and its target on opposite sides of the entry,
\* however it was attached, turned and attached again.
PostedSignalsAreBracketed ==
    sent.signal # NoSignal =>
      \/ sent.signal.stop < sent.signal.entry /\ sent.signal.entry < sent.signal.target
      \/ sent.signal.target < sent.signal.entry /\ sent.signal.entry < sent.signal.stop

\* Not kept by the code, see the README.
\* The target of a posted signal is on the side its direction names. Turning the
\* signal in the composer breaks it.
PostedSignalsFitTheirSide ==
    sent.signal # NoSignal =>
      (sent.signal.side = "BUY") = (sent.signal.entry < sent.signal.target)

\* Not kept by the code, see the README.
\* An image is posted with the draft it was picked for. A file that was still being
\* read when its draft ended lands in the next one.
ImagesStayInTheirDraft == sent.image # "foreign"

\* Unless the page shows its error, or a list whose sentinel is not observed, every post
\* of the tab is reached by scrolling.
EverythingIsReached ==
    <>[](error \/ Stranded \/ Visible = Cardinality(Matching[tab]))

\* Not kept by the code, see the README.
\* Every list on display is extended. One that takes the place of an empty feed is not.
ListsAreObserved == Listed => observed

\* Not kept by the code, see the README.
\* Scrolling comes to an end: the page says so when nothing more is to be loaded.
PagingSettles == <>[](error \/ ~ENABLED Intersect)
=============================================================================
