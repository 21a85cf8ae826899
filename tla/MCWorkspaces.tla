----------------------------- MODULE MCWorkspaces -----------------------------
\* Workspaces for TLC: ids are all alike.
EXTENDS Workspaces

Symmetry == Permutations(Ids)
=============================================================================
