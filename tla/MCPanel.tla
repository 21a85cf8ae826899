------------------------------- MODULE MCPanel -------------------------------
\* Panel for TLC: ids and titles are all alike.
EXTENDS Panel

Symmetry == Permutations(Ids) \cup Permutations(Titles)
=============================================================================
