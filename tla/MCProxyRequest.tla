--------------------------- MODULE MCProxyRequest ---------------------------
(***************************************************************************)
(* Instances of ProxyRequest for TLC: a first run, two endpoints of        *)
(* different APIs with one model each, two requests, a real token and "";  *)
(* and one endpoint with two requests and nothing else.                    *)
(***************************************************************************)
EXTENDS ProxyRequest, TLC

CONSTANTS a, b, first_run, m1, m2, t1, r1, r2

MCOffers == a :> {<<m1>>} @@ b :> {<<m2>>} @@ first_run :> {}
MCModels == {m1, m2}
MCNoCuration == {}
MCNoTokens == {NoOverride}
MCTokens == {"", "secret"}
MCStatus == {200, 500}
MCOneStatus == {200}
MCMixed == [e \in Endpoint |-> IF e = b THEN "messages" ELSE "chat"]
MCKeys == {"ok"}

\* Clients on another machine: Claude Code with a token, and one with an empty
\* token.  A local client differs from the first in passing the gateway always.
MCClients == {[peer |-> "remote", auth |-> "secret", field |-> Subagent],
              [peer |-> "remote", auth |-> "", field |-> "absent"]}
MCLoopbackOnly == {[peer |-> "loopback", auth |-> NoToken, field |-> "absent"]}

\* No endpoint is configured yet, and config.json was found with an empty token.
FirstRun == ProxyInit /\ endpoint = Unconfigured /\ proxy_token = ""
FirstRunSpec == FirstRun /\ [][ProxyNext]_allVars

\* The requests are interchangeable.
MCRequestSymmetry == Permutations(Request)
=============================================================================
