--------------------------- MODULE MCSessionStore ---------------------------
\* An instance of SessionStore for TLC: see MCSessionStore.cfg, and
\* MCSessionStoreCookie.cfg, where no client rewrites its cookie.
EXTENDS SessionStore

CONSTANTS c1, c2, k1, k2, k3

\* Two connections of one client, one of another.
MCOwner == [k \in {k1, k2, k3} |-> IF k = k3 THEN c2 ELSE c1]
=============================================================================
