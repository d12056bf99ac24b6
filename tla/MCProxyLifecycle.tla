-------------------------- MODULE MCProxyLifecycle --------------------------
(***************************************************************************)
(* Instances of ProxyLifecycle for TLC: the default address, another       *)
(* loopback port, and the default port on every interface.                 *)
(***************************************************************************)
EXTENDS ProxyLifecycle

CONSTANTS loop8080, loop9090, all8080, tok1, tok2

MCAddr == {loop8080, loop9090, all8080}
MCLoopback == {loop8080, loop9090}

\* Every address collides with itself, and the default port on every interface
\* with the default port on loopback (Linux).
MCWildcard == {<<x, x>> : x \in Addr}
                \cup {<<loop8080, all8080>>, <<all8080, loop8080>>}

MCTokens == {tok1, tok2}

\* "" is the token of a hand-edited file.
MCDiskTokens == {NoToken, tok1, ""}
=============================================================================
