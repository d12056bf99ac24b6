---------------------------- MODULE ClaudeSlots ----------------------------
(***************************************************************************)
(* The Claude Code slot configuration of one endpoint: `CcSlots` of        *)
(* proxy-core/src/ui_state.rs.  A slot holds a catalog id or nothing; the  *)
(* subagent slot may instead be set to inherit.  The module is pure: it    *)
(* has no state, and AppState and ProxyRequest are built on it.            *)
(***************************************************************************)
EXTENDS Naturals, FiniteSets

CONSTANTS
    Model,      \* catalog ids
    NoModel,    \* `None` in a slot; also the empty selected model
    FixedSlot,  \* the slots that take a model and nothing else
    Subagent    \* the slot that can inherit

ASSUME SlotAssumption == /\ NoModel \notin Model
                         /\ Subagent \notin FixedSlot

Slot == FixedSlot \cup {Subagent}

CcSlots == [model : [Slot -> Model \cup {NoModel}], inherit : BOOLEAN]

EmptySlots == [model |-> [s \in Slot |-> NoModel], inherit |-> FALSE]

ModelFor(slots, s) == slots.model[s]

\* The subagent holds a model or inherits, never both; `inherit` is ignored
\* for every other slot.
SetSlot(slots, s, m, inherit) ==
    IF s = Subagent
    THEN [model |-> [slots.model EXCEPT ![s] = IF inherit THEN NoModel ELSE m],
          inherit |-> inherit]
    ELSE [slots EXCEPT !.model[s] = m]

\* Mutant: the subagent slot is forgotten.
PruneFixed(slots, ids) ==
    [slots EXCEPT !.model = [s \in Slot |->
        IF s = Subagent \/ slots.model[s] \in ids THEN slots.model[s] ELSE NoModel]]

\* Every slot whose model is not in the set `ids` is emptied; `inherit` stays.
PruneToCatalog(slots, ids) ==
    [slots EXCEPT !.model = [s \in Slot |-> IF slots.model[s] \in ids
                                            THEN slots.model[s] ELSE NoModel]]

\* The ids a configuration names.
SlotModels(slots) == {slots.model[s] : s \in Slot} \ {NoModel}

\* Whether a slot is configured: it has a model, or is the subagent and inherits.
Configured(slots, s) == slots.model[s] # NoModel \/ (s = Subagent /\ slots.inherit)

\* The gate of a Claude Code launch.
IsComplete(slots) == \A s \in Slot : Configured(slots, s)

ConfiguredCount(slots) == Cardinality({s \in Slot : Configured(slots, s)})
=============================================================================
