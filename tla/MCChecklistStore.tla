-------------------------- MODULE MCChecklistStore --------------------------
\* Small instances of ChecklistStore for TLC.
EXTENDS ChecklistStore, TLC

\* Item ids are interchangeable, and so are requests; users are not (Creator).
Symmetry == Permutations(ItemIds) \cup Permutations(Requests)
=============================================================================
