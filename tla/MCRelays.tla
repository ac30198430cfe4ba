----------------------------- MODULE MCRelays ------------------------------
\* Small instances of Relays for TLC: one frame per socket buffer, so that
\* every send can find its buffer full.
EXTENDS Relays
============================================================================
