----------------------------- MODULE MCAppState -----------------------------
(***************************************************************************)
(* Instances of AppState for TLC: two endpoints that share the model m2,   *)
(* catalogs that gain and lose a model, one fixed slot and the subagent.   *)
(***************************************************************************)
EXTENDS AppState, TLC

CONSTANTS a, b, first_run, m1, m2, m3, limit, opus, t1, t2

\* a loses m2 or keeps it; b has a first model of its own.
MCOffers == a :> {<<m1, m2>>, <<m1>>} @@ b :> {<<m3, m2>>}

\* The same, started without an endpoint.
MCFirstRunOffers == MCOffers @@ first_run :> {}

\* A catalog of one model each, for the instance with every command.
MCSmallOffers == a :> {<<m1>>} @@ b :> {<<m2>>}

MCModels == {m1, m2, m3}
MCSmallModels == {m1, m2}
MCCuration == {{m1}}
MCTokens == {NoOverride, limit}
MCNoTokens == {NoOverride}
MCNoCuration == {}

\* The async tasks are interchangeable.
MCTaskSymmetry == Permutations(Task)
=============================================================================
