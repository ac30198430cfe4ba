-------------------------- MODULE MCProxyPipeline --------------------------
\* Small instances of ProxyPipeline for TLC.
EXTENDS ProxyPipeline, TLC

Symmetry == Permutations(Conn)       \* for the runs without liveness

OnlyTls == {443}
TlsAndOther == {443, 8443}
============================================================================
