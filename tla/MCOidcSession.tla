----------------------------- MODULE MCOidcSession -----------------------------
\* Small instances of OidcSession for TLC.
EXTENDS OidcSession, TLC

\* Too short-lived to be fresh, fresh for a while, without expires_at.
MCLifetimes == {1, 3, NoExpiry}

Symmetry == Permutations(Calls)

=============================================================================
