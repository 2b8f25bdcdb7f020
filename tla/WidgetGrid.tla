------------------------------- MODULE WidgetGrid -------------------------------
(* The grid of the admin console, whose widgets are reordered by dragging one *)
(* onto another. Their order is kept in the browser's storage, which outlives *)
(* the page and the release that wrote it, and in a module-level cache, which *)
(* outlives the page's components and hides what other tabs write.            *)
EXTENDS Integers, Sequences, SequencesExt, FiniteSets, Selection

CONSTANTS
    Releases,   \* a sequence: the widgets of each release, each in default order
    Tabs,
    MaxMoves    \* bound on the drags, resets, reloads and releases

VARIABLES
    release,    \* the release that is served
    stored,     \* pkay.admin.widgets: nothing, or one order
    tabs,       \* per tab: its release, its cache, and what is dragged
    broken,     \* the storage cannot be written
    moves

vars == <<release, stored, tabs, broken, moves>>

Widgets == UNION {Range(Releases[n]) : n \in DOMAIN Releases}
\* Something else than a widget: a text dragged in, or nothing at all.
Foreign == "foreign"
Fresh(n) == [release |-> n, cache |-> <<>>, drag |-> Foreign, over |-> Foreign]

\* An order is read from the cache, and from the storage where that is empty.
readOrder(t) == IF tabs[t].cache # <<>> THEN tabs[t].cache ELSE stored
defaultOrder(t) == Releases[tabs[t].release]
\* The widgets of an order that are among those to keep.
Those(xs, keep) == Only(xs, {i \in DOMAIN xs : xs[i] \in keep})
\* Mutant: widgets that are newer than the saved order are not appended.
KnownOnly(t) ==
    LET saved == readOrder(t)
    IN IF saved = <<>> THEN defaultOrder(t) ELSE Those(saved[1], Range(defaultOrder(t)))
\* The saved order without the widgets that are gone, and with the new ones.
order(t) ==
    LET saved == readOrder(t)
        known == Range(defaultOrder(t))
        filtered == Those(saved[1], known)
    IN IF saved = <<>> THEN defaultOrder(t)
       ELSE filtered \o Those(defaultOrder(t), known \ Range(filtered))
indexOf(xs, x) == CHOOSE i \in DOMAIN xs : xs[i] = x /\ \A j \in 1..(i - 1) : xs[j] # x
\* The dragged widget is taken out and put in where the other one was.
Spliced(xs, from, to) == InsertAt(RemoveAt(xs, from), to, xs[from])

Init ==
    /\ release = 1 /\ stored = <<>> /\ broken \in BOOLEAN /\ moves = 0
    /\ tabs = [t \in Tabs |-> Fresh(1)]

Move == moves < MaxMoves /\ moves' = moves + 1
\* A render has read the order: the cache holds what was stored then.
Rendered(t) == [tabs[t] EXCEPT !.cache = readOrder(t)]
writeOrder(t, next) ==
    /\ tabs' = [tabs EXCEPT ![t] = [@ EXCEPT !.cache = <<next>>, !.drag = Foreign,
                                             !.over = Foreign]]
    /\ stored' = IF broken THEN stored ELSE <<next>>
DragStart(t, w) ==
    /\ tabs[t].drag = Foreign /\ w \in Range(order(t)) /\ Move
    /\ tabs' = [tabs EXCEPT ![t] = [Rendered(t) EXCEPT !.drag = w]]
    /\ UNCHANGED <<release, stored, broken>>
DragOver(t, w) ==
    /\ w \in Range(order(t)) /\ tabs[t].over # w
    /\ tabs' = [tabs EXCEPT ![t] = [Rendered(t) EXCEPT !.over = w]]
    /\ UNCHANGED <<release, stored, broken, moves>>
DragLeave(t) ==
    /\ tabs[t].over # Foreign
    /\ tabs' = [tabs EXCEPT ![t] = [Rendered(t) EXCEPT !.over = Foreign]]
    /\ UNCHANGED <<release, stored, broken, moves>>
\* What is dropped is what the drag carries; only another widget moves anything.
Drop(t, from) ==
    /\ tabs[t].over # Foreign /\ from \in {tabs[t].drag, Foreign}
    /\ UNCHANGED <<release, broken, moves>>
    /\ LET xs == order(t)
           to == tabs[t].over
       IN IF from = to \/ {from, to} \ Range(xs) # {}
          THEN /\ tabs' = [tabs EXCEPT ![t] = [Rendered(t) EXCEPT !.drag = Foreign,
                                                                  !.over = Foreign]]
               /\ UNCHANGED stored
          ELSE writeOrder(t, Spliced(xs, indexOf(xs, from), indexOf(xs, to)))
DragEnd(t) ==
    /\ tabs[t].drag # Foreign
    /\ tabs' = [tabs EXCEPT ![t] = [Rendered(t) EXCEPT !.drag = Foreign, !.over = Foreign]]
    /\ UNCHANGED <<release, stored, broken, moves>>
reset(t) == Move /\ writeOrder(t, defaultOrder(t)) /\ UNCHANGED <<release, broken>>
Reload(t) ==
    /\ Move /\ tabs' = [tabs EXCEPT ![t] = [Fresh(release) EXCEPT !.cache = stored]]
    /\ UNCHANGED <<release, stored, broken>>
Released ==
    /\ Move /\ release < Len(Releases) /\ release' = release + 1
    /\ UNCHANGED <<stored, tabs, broken>>

Next ==
    \/ Released
    \/ \E t \in Tabs :
        \/ DragLeave(t) \/ DragEnd(t) \/ reset(t) \/ Reload(t)
        \/ \E w \in Widgets : DragStart(t, w) \/ DragOver(t, w)
        \/ \E w \in Widgets \cup {Foreign} : Drop(t, w)
Spec == Init /\ [][Next]_vars

-------------------------------------------------------------------------------
TypeOK ==
    /\ release \in DOMAIN Releases /\ Len(stored) <= 1
    /\ \A t \in Tabs : tabs[t].release <= release /\ Len(tabs[t].cache) <= 1

\* Whatever was dragged, saved by another tab or by another release, and read
\* back, each tab shows every widget of its release once, and no other.
EveryWidgetOnce ==
    \A t \in Tabs :
        /\ Range(order(t)) = Range(defaultOrder(t)) /\ Len(order(t)) = Len(defaultOrder(t))

\* Not kept by the code, see the README.
\* "the order is kept in `localStorage` so it survives reloads".
LayoutIsKept ==
    [][\A t \in Tabs :
        Reload(t) /\ tabs[t].release = release /\ ~broken => order(t)' = order(t)]_vars
===============================================================================
