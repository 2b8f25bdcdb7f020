------------------------------- MODULE DocsSearch -------------------------------
(* The command palette of the documentation. Its results follow the query,    *)
(* arrow keys and the mouse move the highlight, and Enter opens a result,     *)
(* whose section is scrolled to after a delay.                                *)
EXTENDS Integers, Sequences

CONSTANTS
    Matches,    \* per query: the results it gives, in their order
    Sections,   \* the results that have a section of their own
    MaxMoves    \* bound on the keys pressed

VARIABLES
    open,
    query,
    active,     \* index of the highlight, from 1; the code counts from 0
    at,         \* where the reader is: a result that was opened, and if there
    scrolls,    \* the sections whose delay is running
    moves

vars == <<open, query, active, at, scrolls, moves>>

Queries == DOMAIN Matches
Empty == "empty"
Results == UNION {{Matches[q][i] : i \in DOMAIN Matches[q]} : q \in Queries}
results == Matches[query]
least(a, b) == IF a < b THEN a ELSE b
most(a, b) == IF a > b THEN a ELSE b
\* "Defensive clamp": Enter opens this one.
activeIndex == least(active, most(Len(results), 1))

Init ==
    /\ open = FALSE /\ query = Empty /\ active = 1 /\ at = "start" /\ scrolls = {} /\ moves = 0

Move == moves < MaxMoves /\ moves' = moves + 1
\* The button of the bar, or the shortcut, which no text field gets.
Open == ~open /\ Move /\ open' = TRUE /\ UNCHANGED <<query, active, at, scrolls>>
\* Mutant: the highlight stays where it was.
TypedOn(q) == open /\ q # query /\ Move /\ query' = q /\ UNCHANGED <<open, active, at, scrolls>>
onQueryChange(q) ==
    /\ open /\ q # query /\ Move /\ query' = q /\ active' = 1
    /\ UNCHANGED <<open, at, scrolls>>
Closed == open' = FALSE /\ query' = Empty /\ active' = 1
handleOpenChange == open /\ Closed /\ UNCHANGED <<at, scrolls, moves>>

Highlight(i) == open /\ active' = i /\ UNCHANGED <<open, query, at, scrolls>>
ArrowDown == Move /\ Highlight(least(active + 1, Len(results)))
ArrowUp == Move /\ Highlight(most(active - 1, 1))
MouseEnter(i) == Move /\ i \in DOMAIN results /\ Highlight(i)
\* A result is opened, and its section is scrolled to once the page may be there.
Go(i) ==
    /\ open /\ i \in DOMAIN results /\ Closed /\ at' = results[i]
    /\ scrolls' = scrolls \cup ({results[i]} \cap Sections)
    /\ UNCHANGED moves
Enter == Go(activeIndex)
Click(i) == Go(i)
ScrollIntoView(s) ==
    /\ s \in scrolls /\ scrolls' = scrolls \ {s} /\ UNCHANGED <<open, query, active, at, moves>>

Next ==
    \/ Open \/ handleOpenChange \/ ArrowDown \/ ArrowUp \/ Enter
    \/ \E q \in Queries : onQueryChange(q)
    \/ \E i \in DOMAIN results : MouseEnter(i) \/ Click(i)
    \/ \E s \in Results : ScrollIntoView(s)
Spec == Init /\ [][Next]_vars

-------------------------------------------------------------------------------
TypeOK ==
    /\ query \in Queries /\ active \in 0..most(Len(results), 1)
    /\ at \in Results \cup {"start"} /\ scrolls \subseteq Sections

\* The highlight is drawn at one index and Enter opens another, a clamped one.
\* As long as there is a result they are the same one, whichever keys were pressed
\* on longer, shorter and empty lists before.
EnterOpensTheHighlight ==
    open /\ results # <<>> => active \in DOMAIN results /\ activeIndex = active

\* Not kept by the code, see the README.
\* What is scrolled to is a section of the page that was opened last.
ScrollsAreCurrent == scrolls \subseteq {at}
===============================================================================
