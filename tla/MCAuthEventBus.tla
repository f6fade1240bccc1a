---------------------------- MODULE MCAuthEventBus ----------------------------
\* Small instances of AuthEventBus for TLC.
EXTENDS AuthEventBus

Symmetry == Permutations(Handlers) \cup Permutations(Bundles)

=============================================================================
