------------------------- MODULE MCHistoricalStore --------------------------
(* Symmetry of HistoricalStore for TLC: entities, values and handlers are    *)
(* interchangeable.                                                          *)
EXTENDS HistoricalStore, TLC

Symmetry == Permutations(Ids) \cup Permutations(Values) \cup Permutations(Writers)
=============================================================================
