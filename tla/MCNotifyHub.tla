---------------------------- MODULE MCNotifyHub ----------------------------
\* Small instances of NotifyHub for TLC.
EXTENDS NotifyHub, TLC
=============================================================================
