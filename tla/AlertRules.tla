------------------------------- MODULE AlertRules -------------------------------
(* The alerts page: the rules a user keeps in the browser's storage, and the  *)
(* history of alerts. A tab reads the stored rules after it is mounted, and   *)
(* from then on writes its own list back with every change.                   *)
EXTENDS Naturals, FiniteSets

CONSTANTS
    Tabs,
    Ids,            \* the ids of rules that can be made
    Priorities,
    MaxMounts       \* bound on how often the page is opened

VARIABLES
    stored,     \* pkay.alertRules, none and [] alike
    tabs,       \* per tab: the list it shows, and where its effects are
    alerts,     \* per tab: useAlerts, and the priority that is selected
    mounts

vars == <<stored, tabs, alerts, mounts>>

Rule == [id : Ids, enabled : BOOLEAN]
Away == [st |-> "away", rules |-> {}, loaded |-> FALSE]
Asked == [st |-> "asked", priority |-> "all"]
Init ==
    /\ stored = {} /\ mounts = 0
    /\ tabs = [t \in Tabs |-> Away] /\ alerts = [t \in Tabs |-> Asked]

\* Mutant: the effect that saves does not wait for the load.
SaveAtOnce(t, tab) == tabs' = [tabs EXCEPT ![t] = tab] /\ stored' = tab.rules
\* The effect that saves runs with every commit, and does nothing before the load.
Save(t, tab) ==
    /\ tabs' = [tabs EXCEPT ![t] = tab]
    /\ stored' = IF tab.loaded THEN tab.rules ELSE stored
Mount(t) ==
    /\ tabs[t].st = "away" /\ mounts < MaxMounts /\ mounts' = mounts + 1
    /\ Save(t, [st |-> "open", rules |-> {}, loaded |-> FALSE])
    /\ alerts' = [alerts EXCEPT ![t] = Asked]
\* The rules are read in a microtask; the save that follows is a later task.
Load(t) ==
    /\ tabs[t].st = "open" /\ ~tabs[t].loaded
    /\ tabs' = [tabs EXCEPT ![t] = [st |-> "loaded", rules |-> stored, loaded |-> TRUE]]
    /\ UNCHANGED <<stored, alerts, mounts>>
Loaded(t) ==
    /\ tabs[t].st = "loaded" /\ Save(t, [tabs[t] EXCEPT !.st = "open"])
    /\ UNCHANGED <<alerts, mounts>>
Leave(t) ==
    /\ tabs[t].st # "away" /\ tabs' = [tabs EXCEPT ![t] = Away]
    /\ UNCHANGED <<stored, alerts, mounts>>

\* A click commits at once. Before the load it is seen, and then overwritten.
Change(t, rules) ==
    /\ tabs[t].st # "away" /\ rules # tabs[t].rules
    /\ Save(t, [tabs[t] EXCEPT !.rules = rules]) /\ UNCHANGED <<alerts, mounts>>
addRule(t, id) ==
    /\ \A r \in stored \cup UNION {tabs[u].rules : u \in Tabs} : r.id # id
    /\ Change(t, tabs[t].rules \cup {[id |-> id, enabled |-> TRUE]})
Toggle(t, id) ==
    Change(t, {IF r.id = id THEN [r EXCEPT !.enabled = ~@] ELSE r : r \in tabs[t].rules})
Delete(t, id) == Change(t, {r \in tabs[t].rules : r.id # id})

Answered(t) ==
    /\ tabs[t].st # "away" /\ alerts[t].st = "asked"
    /\ \E st \in {"here", "failed"} : alerts' = [alerts EXCEPT ![t].st = st]
    /\ UNCHANGED <<stored, tabs, mounts>>
setPriority(t, p) ==
    /\ tabs[t].st # "away" /\ alerts' = [alerts EXCEPT ![t].priority = p]
    /\ UNCHANGED <<stored, tabs, mounts>>

Next == \E t \in Tabs :
    \/ Mount(t) \/ Load(t) \/ Loaded(t) \/ Leave(t) \/ Answered(t)
    \/ \E id \in Ids : addRule(t, id) \/ Toggle(t, id) \/ Delete(t, id)
    \/ \E p \in Priorities \cup {"all"} : setPriority(t, p)
Spec == Init /\ [][Next]_vars

-------------------------------------------------------------------------------
TypeOK ==
    /\ stored \subseteq Rule /\ mounts \in 0..MaxMounts
    /\ \A t \in Tabs : tabs[t].rules \subseteq Rule

\* A rule leaves the storage when its user deletes it, and never because the page
\* is opened, left or opened again.
RulesAreKept ==
    [][\A r \in stored :
        (\A x \in stored' : x.id # r.id) => \E t \in Tabs : Delete(t, r.id)]_vars

\* The rules on the page are those that are stored, once they are loaded.
ShownIsStored == \A t \in Tabs : tabs[t].loaded => tabs[t].rules = stored
===============================================================================
