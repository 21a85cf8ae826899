----------------------------- MODULE MCSelections -----------------------------
\* Selections for TLC: the ids of offers are all alike, and a state is explored
\* further only while few requests wait for the compositor.
EXTENDS Selections, TLC

\* Bound: requests in flight in a state whose successors are explored.
MaxRequests == 3

FewRequests == Len(requests) <= MaxRequests

Symmetry == Permutations(OfferIds)
=============================================================================
