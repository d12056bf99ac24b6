----------------------------- MODULE MCWebview -----------------------------
(***************************************************************************)
(* Instances of Webview for TLC: the endpoint a serves chat and may lose   *)
(* the model m1, b serves messages.  The first model of a catalog need not *)
(* be a chat model, and a curation may hide every model.                   *)
(***************************************************************************)
EXTENDS Webview, TLC

CONSTANTS a, b, first_run, m1, m2, opus, t1

MCOffers == a :> {<<m1, m2>>, <<m2>>} @@ b :> {<<m2>>} @@ first_run :> {}
MCStableOffers == a :> {<<m1, m2>>} @@ first_run :> {}
MCApiOf == a :> "chat" @@ b :> "messages"
MCChat == a :> "chat"
MCNoTokens == {NoOverride}
MCCuration == {{}}
MCNoCuration == {}

\* The window alone: nobody clicks on the tray.
WindowNext == \/ Window \/ WindowStep \/ PollRead \/ PollAdopt
              \/ \E p \in Proc : UpstreamAnswer(p) \/ Run(p)
              \/ WebRestart

WindowSpec == WebInit /\ [][WindowNext]_webVars
=============================================================================
