---------------------------- MODULE MCInspector ----------------------------
\* Small instances of Inspector for TLC: a history and a channel of two records,
\* which two requests and two frames overrun.
EXTENDS Inspector
============================================================================
