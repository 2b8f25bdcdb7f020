--------------------------- MODULE MCTradingDesk ---------------------------
(* Symmetry and prices for the runs of TradingDesk. *)
EXTENDS TradingDesk, TLC

\* Multiples of 12600, so that the average entry of up to eight units is exact,
\* and a fifth apart, so that one adverse move breaches the limit of five percent.
UpAndDown == {63000, 50400}

CycleSymmetry == Permutations(Cycles)
DeskSymmetry == Permutations(Cycles) \cup Permutations(Symbols)
=============================================================================
