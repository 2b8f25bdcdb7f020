------------------------------- MODULE Settings -------------------------------
(* The settings page: the preferences store of lib/settings.ts, the local     *)
(* profile of lib/profile.ts, and SettingsPanels, which edits copies of both  *)
(* that it took when it was mounted.                                          *)
(*                                                                            *)
(* A load of the tab renders the page from the server's snapshot, which is    *)
(* the default of both stores, and useState keeps what that render gave it;   *)
(* only a panel mounted by a navigation starts from what is stored.           *)
EXTENDS Integers, FiniteSets

CONSTANTS
    Watched,     \* the preferences the run edits
    MaxMoves     \* bound on edits, saves and loads

VARIABLES
    prefs, prefsDisk,      \* the module's current settings, and pkay.preferences
    profile, profileDisk,  \* the same of the profile, and pkay.profile
    parted,                \* stores whose last write failed, or was wiped under its module
    panel,                 \* SettingsPanels: form, draft, and its dialogs and flags
    touched,               \* what the user edited since the panel was mounted
    moves

vars == <<prefs, prefsDisk, profile, profileDisk, parted, panel, touched, moves>>
stores == <<prefs, prefsDisk, profile, profileDisk, parted>>

-----------------------------------------------------------------------------
\* The preferences, by the section of the page that offers them.

Analysis == {"defaultSymbol", "defaultTimeframe", "defaultAnalysisType", "minConfidence"}
Display == {"showExplanations", "showConfidenceBreakdown", "showIndicators", "showLevels",
            "showMultiTimeframe", "showReasoning"}
Charts == {"chartType", "chartVolume", "chartEma", "chartRsi", "chartMacd", "chartLevels",
           "chartAutoRefresh"}
Notifications == {"notifyAnalysis", "notifyHighConfidence", "notifyTrendChange",
    "notifyMarketEvent", "notifyNewsSentiment", "notifyDailySummary", "notifyWeeklyReport"}
Channels == {"channelEmail", "channelTelegram", "channelPush", "channelInApp"}
Quiet == {"dndEnabled", "dndStart", "dndEnd"}
Appearance == {"theme", "density", "animations"}
Behaviour == {"explanationStyle", "analysisDetail", "aiFocus"}
Privacy == {"saveHistory", "personalizeAi", "saveSearches", "anonymousAnalytics"}
Fields == Analysis \cup Display \cup Charts \cup Notifications \cup Channels \cup Quiet
            \cup Appearance \cup {"language"} \cup Behaviour \cup Privacy

\* A value is the default one or not; the focus is a set, of which one topic is followed.
DEFAULT_SETTINGS == [f \in Watched |-> IF f = "aiFocus" THEN {"news"} ELSE "default"]
\* English is the only language, and the themes besides the dark one are disabled.
Choices(f) ==
    IF f \in {"language", "theme"} THEN {"default"} ELSE {"default", "other"}
\* The quiet hours are shown while they are enabled.
Offered(f) ==
    f \in {"dndStart", "dndEnd"} /\ "dndEnabled" \in Watched
        => panel.form["dndEnabled"] = "other"

\* name and email come from the backend on a load; the user edits them here as well.
DEFAULT_PROFILE == [name |-> "default", username |-> "default", avatar |-> "none"]
Gone == "closed"
Nothing == [stored |-> FALSE]

\* Mutant: a panel always starts from the default preferences.
MountedBlank(p, f) ==
    [at |-> "open", form |-> DEFAULT_SETTINGS, draft |-> p, saved |-> 0, profileSaved |-> 0,
     clearOpen |-> FALSE, reading |-> FALSE, cleared |-> FALSE, hard |-> FALSE]
Mounted(p, f) ==
    [at |-> "open", form |-> f, draft |-> p, saved |-> 0, profileSaved |-> 0,
     clearOpen |-> FALSE, reading |-> FALSE, cleared |-> FALSE, hard |-> FALSE]
Unmounted == [at |-> Gone]

Init ==
    /\ prefs = DEFAULT_SETTINGS /\ prefsDisk = Nothing
    /\ profile = DEFAULT_PROFILE /\ profileDisk = Nothing
    /\ parted = {} /\ panel = Unmounted /\ touched = {} /\ moves = 0

Move == moves < MaxMoves /\ moves' = moves + 1
Read(stored, default) == IF stored = Nothing THEN default ELSE stored
\* setItem and removeItem throw when the storage is full or denied.
Parted(store, ok) == parted' = IF ok THEN parted \ {store} ELSE parted \cup {store}

-----------------------------------------------------------------------------
\* Loads and navigations.

\* The tab is loaded on this page: the panel keeps the defaults of the server's snapshot.
Load ==
    /\ Move /\ touched' = {}
    /\ prefs' = Read(prefsDisk, DEFAULT_SETTINGS) /\ profile' = Read(profileDisk, DEFAULT_PROFILE)
    /\ panel' = [Mounted(DEFAULT_PROFILE, DEFAULT_SETTINGS) EXCEPT !.hard = TRUE]
    /\ parted' = {} /\ UNCHANGED <<prefsDisk, profileDisk>>
Open ==
    /\ Move /\ panel = Unmounted /\ panel' = Mounted(profile, prefs) /\ touched' = {}
    /\ UNCHANGED stores
Leave ==
    /\ panel # Unmounted /\ panel' = Unmounted /\ touched' = {}
    /\ UNCHANGED moves /\ UNCHANGED stores
\* clearUserScopedStorage empties the storage, and neither module is told.
SignOut ==
    /\ Move /\ panel' = Unmounted /\ touched' = {} /\ parted' = {"prefs", "profile"}
    /\ prefsDisk' \in {Nothing, prefsDisk} /\ profileDisk' \in {Nothing, profileDisk}
    /\ UNCHANGED <<prefs, profile>>
\* saveProfile: the module is changed, and then the storage, which may refuse.
SavesProfile(p, ok) ==
    /\ profile' = p /\ profileDisk' = IF ok THEN p ELSE profileDisk
    /\ Parted("profile", ok)
\* AuthProvider has the user's name: it is saved with the username, and without an avatar.
MeAnswers ==
    /\ Move /\ UNCHANGED <<prefs, prefsDisk, panel, touched>>
    /\ \E ok \in BOOLEAN :
        SavesProfile([profile EXCEPT !.name = "account", !.avatar = "none"], ok)

-----------------------------------------------------------------------------
\* Edits: they change the panel's copies and nothing else. The dialog that asks
\* before clearing is modal.
Active == panel.at = "open" /\ ~panel.clearOpen

Edit(p, what) ==
    /\ Move /\ Active /\ panel' = p /\ touched' = touched \cup what
    /\ UNCHANGED stores
\* Selects, toggles, the slider, the two faces of the Telegram button.
Set(f, v) ==
    /\ panel.at = "open" /\ Offered(f) /\ v \in Choices(f)
    /\ Edit([panel EXCEPT !.form[f] = v], {f})
ToggleFocus(topic) ==
    /\ panel.at = "open"
    /\ LET now == panel.form["aiFocus"] IN
       Edit([panel EXCEPT !.form["aiFocus"] =
                IF topic \in now THEN now \ {topic} ELSE now \cup {topic}], {"aiFocus"})
TypeName == panel.at = "open" /\ Edit([panel EXCEPT !.draft.name = "typed"], {"name"})
TypeUsername ==
    panel.at = "open" /\ Edit([panel EXCEPT !.draft.username = "typed"], {"username"})
TypeAvatar == panel.at = "open" /\ Edit([panel EXCEPT !.draft.avatar = "url"], {"avatar"})
RemoveAvatar ==
    /\ panel.at = "open" /\ panel.draft.avatar # "none"
    /\ Edit([panel EXCEPT !.draft.avatar = "none"], {"avatar"})
\* A file is picked; when it has been read it replaces whatever the avatar is then.
PickAvatar ==
    /\ panel.at = "open" /\ ~panel.reading
    /\ Edit([panel EXCEPT !.reading = TRUE], {"avatar"})
AvatarRead ==
    /\ panel.at = "open" /\ panel.reading
    /\ panel' = [panel EXCEPT !.reading = FALSE, !.draft.avatar = "file"]
    /\ UNCHANGED <<touched, moves>> /\ UNCHANGED stores

-----------------------------------------------------------------------------
\* Saving and clearing.

\* The button reads "Saved" until the first of the timers started for it ends.
Flagged(p) == [p EXCEPT !.profileSaved = @ + 1]
\* A write that throws ends saveProfileDraft, and save with it.
SaveProfile ==
    /\ Move /\ Active /\ UNCHANGED <<prefs, prefsDisk, touched>>
    /\ \E ok \in BOOLEAN :
        SavesProfile(panel.draft, ok) /\ panel' = IF ok THEN Flagged(panel) ELSE panel
\* saveSettings swallows its own failure and reports success.
Save ==
    /\ Move /\ Active /\ UNCHANGED touched
    /\ profile' = panel.draft /\ profileDisk' = profile' /\ prefs' = panel.form
    /\ panel' = [Flagged(panel) EXCEPT !.saved = @ + 1]
    /\ \E ok \in BOOLEAN :
        /\ prefsDisk' = IF ok THEN prefs' ELSE prefsDisk
        /\ parted' = IF ok THEN {} ELSE {"prefs"}
FlagEnds ==
    /\ panel.at = "open" /\ panel.saved + panel.profileSaved > 0
    /\ panel' = [panel EXCEPT !.saved = 0, !.profileSaved = 0]
    /\ UNCHANGED <<touched, moves>> /\ UNCHANGED stores
AskClear ==
    /\ panel.at = "open" /\ Edit([panel EXCEPT !.clearOpen = TRUE], {})
CancelClear ==
    /\ panel.at = "open" /\ panel.clearOpen
    /\ panel' = [panel EXCEPT !.clearOpen = FALSE]
    /\ UNCHANGED <<touched, moves>> /\ UNCHANGED stores
\* Mutant: the storage is cleared and the module's settings stay.
ClearDisk ==
    /\ panel.at = "open" /\ panel.clearOpen /\ prefsDisk' = Nothing /\ Parted("prefs", TRUE)
    /\ panel' = [panel EXCEPT !.form = prefs, !.clearOpen = FALSE, !.cleared = TRUE]
    /\ touched' = touched \ Fields /\ UNCHANGED <<prefs, profile, profileDisk, moves>>
\* The store goes back to the defaults; the form to the settings of the last render.
ClearData ==
    /\ panel.at = "open" /\ panel.clearOpen /\ prefs' = DEFAULT_SETTINGS
    /\ \E ok \in BOOLEAN :
        prefsDisk' = (IF ok THEN Nothing ELSE prefsDisk) /\ Parted("prefs", ok)
    /\ panel' = [panel EXCEPT !.form = prefs, !.clearOpen = FALSE, !.cleared = TRUE]
    /\ touched' = touched \ Fields /\ UNCHANGED <<profile, profileDisk, moves>>

Editing ==
    \/ \E f \in Watched \ {"aiFocus"} : \E v \in {"default", "other"} : Set(f, v)
    \/ "aiFocus" \in Watched /\ \E topic \in {"news", "volume"} : ToggleFocus(topic)
    \/ TypeName \/ TypeUsername \/ TypeAvatar \/ RemoveAvatar \/ PickAvatar \/ AvatarRead
Next ==
    \/ Load \/ Open \/ Leave \/ SignOut \/ MeAnswers \/ Editing
    \/ SaveProfile \/ Save \/ FlagEnds \/ AskClear \/ CancelClear \/ ClearData
Fairness == WF_vars(FlagEnds) /\ WF_vars(AvatarRead)
Spec == Init /\ [][Next]_vars /\ Fairness

-----------------------------------------------------------------------------
TypeOK ==
    /\ Watched \subseteq Fields /\ DOMAIN prefs = Watched
    /\ prefsDisk = Nothing \/ DOMAIN prefsDisk = Watched
    /\ panel.at \in {"open", Gone} /\ moves \in 0 .. MaxMoves
    /\ parted \subseteq {"prefs", "profile"}

\* What the program goes by is what a reload would give it back, store by store:
\* memory and storage part when a write fails and when a sign-out empties the storage,
\* and whatever comes after, a write that succeeds or a load brings them together.
StoresAgree ==
    /\ "prefs" \notin parted => prefs = Read(prefsDisk, DEFAULT_SETTINGS)
    /\ "profile" \notin parted => profile = Read(profileDisk, DEFAULT_PROFILE)

\* A save changes no preference but those edited since the panel was mounted,
\* provided it was opened by a navigation and nothing was cleared in it.
InTouch == panel.at = "open" /\ ~panel.hard /\ ~panel.cleared
SavesOnlyEdits ==
    [][InTouch /\ InTouch' => \A f \in Watched : prefs'[f] # prefs[f] => f \in touched]_vars

\* Not kept by the code, see the README.
\* "Settings saved successfully.": what the button reports as saved is in the storage.
SavedIsStored ==
    panel.at = "open" /\ panel.saved > 0 => prefs = Read(prefsDisk, DEFAULT_SETTINGS)

\* Not kept by the code, see the README.
\* What was stored stays stored until it is edited or cleared, in whatever way the
\* page was reached: what one expects of a page headed by one's own settings.
PreferencesAreKept ==
    [][\A f \in Watched : prefs'[f] # prefs[f] =>
        f \in touched \/ (panel.at = "open" /\ panel.clearOpen)]_vars

\* Not kept by the code, see the README.
\* "This removes your saved preferences from this browser": after the data was
\* cleared, only an edit brings a preference back.
ClearedStaysCleared ==
    [][panel.at = "open" /\ panel.cleared =>
        \A f \in Watched : prefs'[f] # prefs[f] => f \in touched]_vars

\* The button does not read "Saved" for ever, and a picked avatar arrives.
FlagsFall == panel.at = "open" /\ panel.saved + panel.profileSaved > 0
                ~> panel.at = Gone \/ panel.saved + panel.profileSaved = 0

\* Not kept by the code, see the README.
\* A picture that was saved is still there after the next load.
AvatarIsKept ==
    [][profile.avatar # "none" /\ "avatar" \notin touched => profile'.avatar = profile.avatar]_vars
=============================================================================
