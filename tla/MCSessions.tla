----------------------------- MODULE MCSessions -----------------------------
\* Small instances of Sessions for TLC.
EXTENDS Sessions, TLC

\* Tokens are drawn at random and requests are alike.
Symmetry == Permutations(Tokens) \cup Permutations(Requests)
=============================================================================
