----------------------------- MODULE MCCaStore -----------------------------
\* Small instances of CaStore for TLC.  Two processes hold at most two keys, the
\* files two more and the browser one: with six, a fresh one is always left.
EXTENDS CaStore
============================================================================
