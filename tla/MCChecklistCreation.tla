------------------------ MODULE MCChecklistCreation ------------------------
\* Small instances of ChecklistCreation for TLC.
EXTENDS ChecklistCreation, TLC
=============================================================================
