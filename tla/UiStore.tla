------------------------------ MODULE UiStore ------------------------------
(***************************************************************************)
(* What the preference file promises to its writers: it is a map from      *)
(* endpoints to preferences in which one write replaces one preference of  *)
(* one endpoint and leaves every other entry alone.  No write is lost and  *)
(* none is torn.  AppState is shown to implement this although each of its *)
(* writers loads the whole file, edits its copy and writes it all back.    *)
(***************************************************************************)
CONSTANTS
    Endpoint,       \* the keys of the map
    Preferences,    \* the entries: records with the four fields below
    NoPreferences   \* what a missing entry reads as

VARIABLE store      \* the preferences stored for each endpoint

Init == store = [e \in Endpoint |-> NoPreferences]

\* An entry that differs from `entry` in at most one preference.
OneWrite(entry, new) ==
    \/ /\ new.visible = entry.visible /\ new.tokens = entry.tokens
       /\ new.slots = entry.slots
    \/ /\ new.selected = entry.selected /\ new.tokens = entry.tokens
       /\ new.slots = entry.slots
    \/ /\ new.selected = entry.selected /\ new.visible = entry.visible
       /\ new.slots = entry.slots
    \/ /\ new.selected = entry.selected /\ new.visible = entry.visible
       /\ new.tokens = entry.tokens

Put(e) == \E new \in Preferences :
            /\ OneWrite(store[e], new)
            /\ store' = [store EXCEPT ![e] = new]

Next == \E e \in Endpoint : Put(e)

Spec == Init /\ [][Next]_store
=============================================================================
