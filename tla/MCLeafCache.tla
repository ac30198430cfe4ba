---------------------------- MODULE MCLeafCache ----------------------------
\* Small instances of LeafCache for TLC: MaxForge exceeds the number of tasks
\* times that of hosts with a DNS name, so the bound never stops a call.
EXTENDS LeafCache
============================================================================
