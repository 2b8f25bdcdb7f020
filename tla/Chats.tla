-------------------------------- MODULE Chats --------------------------------
(* The two conversation surfaces, /ai and Zenmux: the list of conversations,  *)
(* which is written to localStorage whenever it is set, the one that is       *)
(* active, the question that is under way, and the two composers - a text     *)
(* field on /ai, a library of phrases that stages one and waits on Zenmux.    *)
EXTENDS Integers, Sequences, Selection

CONSTANTS
    MAX_SESSIONS,   \* 20 on /ai and 30 on Zenmux
    Phrases,        \* the phrase library
    MaxMoves        \* bound on what the user does

VARIABLES
    surface,    \* "ai" or "zenmux"
    disk,       \* the conversations in localStorage
    unsaved,    \* the last write of them failed
    page,       \* the mounted view: chats, activeId, busy, and the list's rename
    composer,   \* what is staged or typed, the open menu, and the captured selection
    choice,     \* the model and timeframe of the next request
    request,    \* the question under way: where it belongs and what was sent along
    lost,       \* questions that were taken from the composer and went nowhere
    serial,     \* nextId
    moves

vars == <<surface, disk, unsaved, page, composer, choice, request, lost, serial, moves>>

None == "none"
Serials == 1..(MaxMoves + 2)
Apis == {"M5", "M15", "H1", "H4", "D1"}
\* The backend serves candles up to the daily ones.
toApiTimeframe(t) == IF t \in {"W1", "MN"} THEN "D1" ELSE t
ZENMUX_TIMEFRAMES == {"M5", "M15"}
Timeframes == IF surface = "zenmux" THEN ZENMUX_TIMEFRAMES ELSE {"M5", "W1"}
ZENMUX_MODELS == {"super", "flash"}

\* A conversation. Its age is what groupFor sees: one older than a week is in no group.
Session(id, old) == [id |-> id, title |-> "New chat", old |-> old, messages |-> <<>>]
User(q) == [role |-> "user", q |-> q, text |-> "question"]
Assistant(q, text) == [role |-> "assistant", q |-> q, text |-> text]

readChats == SubSeq(disk, 1, IF Len(disk) < MAX_SESSIONS THEN Len(disk) ELSE MAX_SESSIONS)
Mounted(chats) ==
    [at |-> "open", chats |-> chats, active |-> IF chats = <<>> THEN 0 ELSE chats[1].id,
     busy |-> FALSE, editing |-> 0, sidebar |-> FALSE]
Left == [Mounted(<<>>) EXCEPT !.at = "left"]
NewComposer == [text |-> None, from |-> None, menu |-> None, phrase |-> None]
NoRequest == [at |-> None, id |-> 0, q |-> 0, prior |-> <<>>, timeframe |-> "D1"]

\* Conversations of earlier visits, one of them perhaps from more than a week ago.
Earlier ==
    {[Session(1, old) EXCEPT !.title = "derived",
                             !.messages = <<User(0), Assistant(0, "answer")>>] : old \in BOOLEAN}
Init ==
    /\ surface \in {"ai", "zenmux"} /\ disk \in {<<>>} \cup {<<s>> : s \in Earlier}
    /\ unsaved = FALSE
    /\ page = Mounted(disk) /\ composer = NewComposer /\ request = NoRequest
    /\ choice = [model |-> "super", timeframe |-> "M5"] /\ lost = {} /\ serial = 2 /\ moves = 0

Open == page.at = "open"
Move == moves < MaxMoves /\ moves' = moves + 1
Fresh == serial' = serial + 1
\* setChats, and the effect that writes them unless the storage is full or denied.
Put(p) ==
    /\ page' = p
    /\ \E ok \in BOOLEAN : disk' = (IF ok THEN p.chats ELSE disk) /\ unsaved' = ~ok
\* The text field is keyed by the active chat, and starts anew with it.
Refocus(p) ==
    composer' = IF surface = "ai" /\ p.active # page.active THEN NewComposer ELSE composer
Set(p) == Put(p) /\ Refocus(p)
\* Anything else of the page changes, and nothing is written.
Turn(p) == page' = p /\ UNCHANGED <<disk, unsaved>> /\ Refocus(p)
Where(id, Change(_)) ==
    [i \in DOMAIN page.chats |->
        IF page.chats[i].id = id THEN Change(page.chats[i]) ELSE page.chats[i]]

-----------------------------------------------------------------------------
\* The list of conversations.

Ids == {page.chats[i].id : i \in DOMAIN page.chats}
Chat(id) == page.chats[CHOOSE i \in DOMAIN page.chats : page.chats[i].id = id]
\* Zenmux groups by day and leaves out what is older than a week; /ai lists all.
Listed == {id \in Ids : surface = "ai" \/ ~Chat(id).old}
\* The conversation that is shown: the active one, or else the first.
Active == IF page.active \in Ids THEN Chat(page.active).messages
          ELSE IF page.chats # <<>> THEN page.chats[1].messages ELSE <<>>

\* Mutant: old conversations are not dropped.
PrependAll(id) == <<Session(id, FALSE)>> \o page.chats
Prepend(id) ==
    LET all == <<Session(id, FALSE)>> \o page.chats IN
    SubSeq(all, 1, IF Len(all) < MAX_SESSIONS THEN Len(all) ELSE MAX_SESSIONS)
newChat ==
    /\ Open /\ Move /\ Fresh
    /\ Set([page EXCEPT !.chats = Prepend(serial), !.active = serial, !.sidebar = FALSE])
    /\ UNCHANGED <<surface, choice, request, lost>>
Select(id) ==
    /\ Open /\ Move /\ id \in Listed /\ page.editing # id
    /\ Turn([page EXCEPT !.active = id, !.sidebar = FALSE])
    /\ UNCHANGED <<surface, choice, request, lost, serial>>
deleteChat(id) ==
    /\ Open /\ Move /\ id \in Listed /\ page.editing # id
    /\ Set([page EXCEPT !.chats = Only(@, {i \in DOMAIN @ : @[i].id # id}),
                        !.active = IF @ = id THEN 0 ELSE @])
    /\ UNCHANGED <<surface, choice, request, lost, serial>>
StartRename(id) ==
    /\ Open /\ Move /\ surface = "zenmux" /\ id \in Listed
    /\ Turn([page EXCEPT !.editing = id]) /\ UNCHANGED <<surface, choice, request, lost, serial>>
\* Enter or the tick, with a name that is not blank; Escape or the cross leave the name.
EndRename ==
    /\ Open /\ Move /\ page.editing # 0
    /\ \/ Set([page EXCEPT !.editing = 0,
                !.chats = Where(page.editing, LAMBDA c : [c EXCEPT !.title = "given"])])
       \/ Turn([page EXCEPT !.editing = 0])
    /\ UNCHANGED <<surface, choice, request, lost, serial>>
Sidebar ==
    /\ Open /\ Move /\ Turn([page EXCEPT !.sidebar = ~@])
    /\ UNCHANGED <<surface, choice, request, lost, serial>>

-----------------------------------------------------------------------------
\* The composers.

Stay == UNCHANGED <<surface, disk, unsaved, page, request, lost, serial>>
Type ==
    /\ Open /\ Move /\ surface = "ai" /\ composer' = [composer EXCEPT !.text = "typed"]
    /\ Stay /\ UNCHANGED choice
\* A press on the button of the open menu closes it, as do Escape and a press elsewhere.
Menu(m) ==
    /\ Open /\ Move /\ surface = "zenmux"
    /\ composer' = [composer EXCEPT !.menu = IF @ = m THEN None ELSE m] /\ Stay /\ UNCHANGED choice
Pick(c) ==
    /\ Open /\ Move /\ c.timeframe \in Timeframes /\ choice' = c
    /\ composer' = [composer EXCEPT !.menu = None]
    /\ surface = "zenmux" => \/ composer.menu = "timeframe" /\ c.model = choice.model
                             \/ composer.menu = "model" /\ c.timeframe = choice.timeframe
    /\ surface = "ai" => c.model = choice.model
    /\ Stay
\* Mouse-up over a phrase, with or without a word selected inside it.
PhraseMouseUp(p, word) ==
    /\ Open /\ Move /\ composer.menu = "phrases"
    /\ composer' = [composer EXCEPT !.phrase = IF word THEN p ELSE None] /\ Stay /\ UNCHANGED choice
\* The word, if it was selected in the phrase that is tapped, or else the phrase.
Staged(p) == IF composer.phrase = p THEN "word" ELSE "phrase"
PhraseClick(p) ==
    /\ Open /\ Move /\ composer.menu = "phrases"
    /\ composer' = [text |-> Staged(p), from |-> p, menu |-> None, phrase |-> None]
    /\ Stay /\ UNCHANGED choice

-----------------------------------------------------------------------------
\* Asking.

LastEight(s) == SubSeq(s, IF Len(s) > 8 THEN Len(s) - 7 ELSE 1, Len(s))
Titled(c) == IF c.title = "New chat" THEN "derived" ELSE c.title
\* The question joins its chat, which is made if none is active; what is sent
\* along are the last turns of the chat that is shown.
Ask(q) ==
    LET id == IF page.active = 0 THEN q ELSE page.active
        made == IF page.active = 0 THEN Prepend(id) ELSE page.chats IN
    /\ Put([page EXCEPT !.active = id, !.busy = TRUE,
            !.chats = [i \in DOMAIN made |->
                IF made[i].id # id THEN made[i]
                ELSE [made[i] EXCEPT !.messages = Append(@, User(q)), !.title = Titled(made[i])]]])
    /\ request' = [at |-> "asked", id |-> id, q |-> q, prior |-> LastEight(Active),
                   timeframe |-> toApiTimeframe(choice.timeframe)]
\* The text field is cleared by a submit that is refused as well.
SubmitTyped ==
    /\ Open /\ Move /\ surface = "ai" /\ composer.text # None /\ Fresh
    /\ \/ ~page.busy /\ Ask(serial) /\ UNCHANGED lost
       \/ page.busy /\ lost' = lost \cup {serial} /\ UNCHANGED <<disk, unsaved, page, request>>
    /\ composer' = NewComposer /\ UNCHANGED <<surface, choice>>
\* Nothing is sent but by Enter, which is disabled while a reply is under way.
SendStaged ==
    /\ Open /\ Move /\ surface = "zenmux" /\ composer.text # None /\ ~page.busy /\ Fresh
    /\ Ask(serial) /\ composer' = [composer EXCEPT !.text = None, !.from = None]
    /\ UNCHANGED <<surface, choice, lost>>

\* Mutant: the reply joins the conversation that is shown by then.
ReplyHere(text) ==
    /\ Put([page EXCEPT !.busy = FALSE,
            !.chats = Where(page.active, LAMBDA c :
                [c EXCEPT !.messages = Append(@, Assistant(request.q, text))])])
    /\ request' = NoRequest /\ UNCHANGED <<surface, composer, choice, lost, serial, moves>>
\* The reply joins the conversation it was asked in, if that is still there.
Reply(text) ==
    /\ Put([page EXCEPT !.busy = FALSE,
            !.chats = Where(request.id, LAMBDA c :
                [c EXCEPT !.messages = Append(@, Assistant(request.q, text))])])
    /\ request' = NoRequest /\ UNCHANGED <<surface, composer, choice, lost, serial, moves>>
Answered == Open /\ request.at = "asked" /\ Reply("answer")
\* errorMessage: an ApiError has a message and no detail, which /ai looks for.
errorMessage(kind) ==
    IF surface = "ai" THEN "generic"
    ELSE IF kind = "refused" THEN "the server's reason" ELSE "unreachable"
Failed ==
    Open /\ request.at = "asked" /\ \E k \in {"refused", "no response"} : Reply(errorMessage(k))

\* Another page, or a load of the tab: the reply comes to nobody. A sign-out empties the
\* storage first.
Leave ==
    /\ Open /\ Move /\ page' = Left /\ composer' = NewComposer /\ request' = NoRequest
    /\ choice' = [model |-> "super", timeframe |-> "M5"]
    /\ disk' \in {disk, <<>>} /\ UNCHANGED <<surface, unsaved, lost, serial>>
\* The view shows what is stored, and its first effect writes the same back.
Return ==
    /\ ~Open /\ page' = Mounted(readChats) /\ unsaved' = FALSE
    /\ UNCHANGED <<surface, disk, composer, choice, request, lost, serial, moves>>

Next ==
    \/ newChat \/ EndRename \/ Sidebar \/ Type
    \/ \E id \in Serials : Select(id) \/ deleteChat(id) \/ StartRename(id)
    \/ \E m \in {"model", "timeframe", "phrases"} : Menu(m)
    \/ \E c \in [model : ZENMUX_MODELS, timeframe : {"M5", "M15", "W1"}] : Pick(c)
    \/ \E p \in Phrases : PhraseClick(p) \/ \E word \in BOOLEAN : PhraseMouseUp(p, word)
    \/ SubmitTyped \/ SendStaged \/ Answered \/ Failed \/ Leave \/ Return
Fairness == WF_vars(Answered \/ Failed)
Spec == Init /\ [][Next]_vars /\ Fairness

-----------------------------------------------------------------------------
TypeOK ==
    /\ page.active \in 0..serial /\ Len(page.chats) <= MAX_SESSIONS
    /\ \A i \in DOMAIN disk : disk[i].title \in {"New chat", "derived", "given"}
    /\ choice.timeframe \in Timeframes /\ request.timeframe \in Apis

\* Whatever is selected, renamed, made or deleted while a reply is under way, a
\* reply stands right behind its own question, on the page and in the storage.
RepliesFollowTheirQuestion ==
    \A cs \in {page.chats, disk} : \A i \in DOMAIN cs : LET m == cs[i].messages IN
        \A k \in DOMAIN m : m[k].role = "assistant" =>
            k > 1 /\ m[k - 1].role = "user" /\ m[k - 1].q = m[k].q

\* The page and the storage hold each conversation once, and they hold the same ones
\* unless the last write failed: one that succeeds makes up for those that did not.
EachConversationOnce ==
    /\ \A cs \in {page.chats, disk} : \A i, j \in DOMAIN cs : cs[i].id = cs[j].id => i = j
    /\ Open /\ ~unsaved => disk = page.chats

\* What is staged comes from the phrase that was tapped: a word that was selected
\* in another phrase is not taken for it.
TappedPhraseIsStaged ==
    [][\A p \in Phrases : PhraseClick(p) =>
        composer'.from = p /\ (composer'.text = "word" => composer.phrase = p)]_vars

\* A name that the user gave is kept by the questions that follow.
GivenNameIsKept ==
    [][\A i \in DOMAIN disk, j \in DOMAIN disk' :
        disk[i].id = disk'[j].id /\ disk[i].title = "given" => disk'[j].title = "given"]_vars

\* A question is replied to, or its conversation is gone, or the page was left.
ReplyComes == page.busy ~> ~page.busy

\* Not kept by the code, see the README.
\* Prior turns: the turns of the conversation that the question joins.
OwnHistoryOnly ==
    request.at = "asked" /\ request.id \in Ids => \A k \in DOMAIN request.prior :
        \E j \in DOMAIN Chat(request.id).messages : Chat(request.id).messages[j] = request.prior[k]

\* Not kept by the code, see the README.
\* "so the chat can say what actually went wrong": no reply is the generic one.
FailuresSayWhy ==
    \A i \in DOMAIN disk : \A k \in DOMAIN disk[i].messages : disk[i].messages[k].text # "generic"

\* Not kept by the code, see the README.
\* A question that was submitted is somewhere in the conversations.
NoQuestionIsLost == lost = {}

\* Not kept by the code, see the README.
\* The conversation that waits for its reply is not the one that makes room.
AwaitedIsKept ==
    [][page.busy /\ Open /\ page'.at = "open" /\ request.id \in Ids
        => \/ \E j \in DOMAIN page'.chats : page'.chats[j].id = request.id
           \/ deleteChat(request.id)]_vars
=============================================================================
