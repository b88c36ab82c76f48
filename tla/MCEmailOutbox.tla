--------------------------- MODULE MCEmailOutbox ---------------------------
\* Small instances of EmailOutbox for TLC.
EXTENDS EmailOutbox, TLC
=============================================================================
