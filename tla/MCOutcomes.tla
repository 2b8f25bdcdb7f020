------------------------------ MODULE MCOutcomes ------------------------------
EXTENDS Outcomes

\* Calm bars at two prices, a target apart, and wide ones that reach from their
\* close to a stop, to a target, or to both.
SomeBars ==
    {[low |-> c, close |-> c, high |-> c] : c \in {10, 15}}
        \cup {[low |-> 7, close |-> 10, high |-> 15], [low |-> 10, close |-> 10, high |-> 15],
              [low |-> 7, close |-> 10, high |-> 10]}
=============================================================================
