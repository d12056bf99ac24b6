--------------------------- MODULE AppStateProofs ---------------------------
(***************************************************************************)
(* What TLAPS proves of AppState, for every set of endpoints, models,      *)
(* slots and tasks and every catalog an endpoint may answer with.          *)
(***************************************************************************)
EXTENDS AppState, TLAPS, SequenceTheorems

SetterCall == SelectCall \cup SlotCall \cup VisibleCall \cup TokenCall

FetchLabel == {"fetch", "swap", "snapshot", "save_config", "restore", "select",
               "models", "reload_key", "reload_file", "reload_visible",
               "reload_tokens", "reload_slots", "catalog", "prune"}

PersistLabel == {"persist", "load", "save"}

\* The command of a process is of the kind its program counter says.
CallOK ==
    \A p \in Proc : /\ pc[p] \in FetchLabel => loc[p].call \in FetchCall
                    /\ pc[p] = "apply" => loc[p].call \in SetterCall
                    /\ pc[p] \in PersistLabel => loc[p].call \in Call

TypeInv == TypeOK /\ CallOK
-----------------------------------------------------------------------------
(* Slot operations keep a configuration well formed.                       *)

\* SetSlot yields a configuration.
LEMMA SetSlotType ==
    ASSUME NEW c \in CcSlots, NEW s \in Slot, NEW m \in Model \cup {NoModel},
           NEW i \in BOOLEAN
    PROVE  SetSlot(c, s, m, i) \in CcSlots
BY DEF SetSlot, CcSlots

\* PruneToCatalog yields a configuration whose models are all in the catalog.
LEMMA PruneType ==
    ASSUME NEW c \in CcSlots, NEW S
    PROVE  /\ PruneToCatalog(c, S) \in CcSlots
           /\ SlotModels(PruneToCatalog(c, S)) \subseteq S
BY SlotAssumption DEF PruneToCatalog, CcSlots, SlotModels

\* The empty configuration is one.
LEMMA EmptySlotsType == EmptySlots \in CcSlots
BY DEF EmptySlots, CcSlots
-----------------------------------------------------------------------------
(* Selections and catalogs.                                                *)

\* The ids of a catalog are models.
LEMMA IdsType == ASSUME NEW c \in Seq(Model) PROVE Ids(c) \subseteq Model
BY DEF Ids

\* What is selected after a catalog arrives is in it, or both are empty.
LEMMA PickInCatalog ==
    ASSUME NEW c \in Seq(Model), NEW r
    PROVE  IF c = <<>> THEN KeepOrPick(c, r) = NoModel
                       ELSE KeepOrPick(c, r) \in Ids(c)
<1>1. CASE c = <<>>
  <2>1. Ids(c) = {}
    BY <1>1 DEF Ids
  <2> QED BY <1>1, <2>1 DEF KeepOrPick, PickSelection
<1>2. CASE c # <<>>
  <2>1. Head(c) = c[1] /\ 1 \in 1..Len(c)
    BY <1>2
  <2>2. Head(c) \in Ids(c)
    BY <2>1 DEF Ids
  <2> QED BY <1>2, <2>2 DEF KeepOrPick, PickSelection
<1> QED BY <1>1, <1>2

\* So it is a model or nothing.
LEMMA PickType ==
    ASSUME NEW c \in Seq(Model), NEW r
    PROVE  KeepOrPick(c, r) \in Model \cup {NoModel}
BY PickInCatalog, IdsType
-----------------------------------------------------------------------------
(* Type correctness.                                                       *)

\* The locals of an idle process are well typed.
LEMMA NoLocalsType ==
    ASSUME Endpoint # {} PROVE NoLocals \in Locals
<1>1. NoPreferences \in Preferences
  BY ConstantAssumption, EmptySlotsType DEF NoPreferences, Preferences
<1>2. (CHOOSE e \in Endpoint : TRUE) \in Endpoint
  OBVIOUS
<1> QED BY <1>1, <1>2 DEF NoLocals, Locals, UiFile

\* Init establishes the type invariant.
LEMMA InitType == Init => TypeInv
<1> SUFFICES ASSUME Init PROVE TypeInv
  OBVIOUS
<1>1. NoLocals \in Locals
  BY NoLocalsType DEF Init
<1>2. NoPreferences \in Preferences
  BY ConstantAssumption, EmptySlotsType DEF NoPreferences, Preferences
<1> QED
  BY <1>1, <1>2, ConstantAssumption, EmptySlotsType
  DEF Init, TypeInv, TypeOK, CallOK, UiFile, Label, FetchLabel, PersistLabel

\* A command begins with arguments of the right types.
LEMMA BeginType ==
    ASSUME TypeInv, NEW p \in Proc, NEW c \in Call,
           NEW label \in {"fetch", "apply"}, Begin(p, c, label),
           label = "fetch" => c \in FetchCall,
           label = "apply" => c \in SetterCall
    PROVE  TypeInv'
<1>1. TypeOK'
  <2>1. loc' \in [Proc -> Locals]
    BY DEF Begin, TypeInv, TypeOK, Locals
  <2>2. pc' \in [Proc -> Label]
    BY DEF Begin, Goto, TypeInv, TypeOK, Label
  <2>3. calls' \in 0..MaxCalls
    BY ConstantAssumption DEF Begin, TypeInv, TypeOK
  <2> QED
    BY <2>1, <2>2, <2>3 DEF Begin, TypeInv, TypeOK, memory, disk
<1>2. CallOK'
  BY DEF Begin, Goto, TypeInv, TypeOK, CallOK, Locals, FetchLabel, PersistLabel
<1> QED BY <1>1, <1>2 DEF TypeInv

\* A process that returns, and nothing else about the processes.
LEMMA ReturnType ==
    ASSUME TypeInv, NEW p \in Proc, Return(p)
    PROVE  pc' \in [Proc -> Label] /\ loc' \in [Proc -> Locals] /\ CallOK'
<1>1. NoLocals \in Locals
  BY NoLocalsType DEF TypeInv, TypeOK
<1> QED
  BY <1>1 DEF Return, Goto, TypeInv, TypeOK, CallOK, Label, FetchLabel, PersistLabel

\* A process that moves on and keeps its command.
LEMMA GotoType ==
    ASSUME TypeInv, NEW p \in Proc, NEW label \in Label, Goto(p, label),
           loc' \in [Proc -> Locals],
           \A q \in Proc : loc'[q].call = loc[q].call,
           label \in FetchLabel => loc[p].call \in FetchCall,
           label = "apply" => loc[p].call \in SetterCall,
           label \in PersistLabel => loc[p].call \in Call
    PROVE  pc' \in [Proc -> Label] /\ CallOK'
BY DEF Goto, TypeInv, TypeOK, CallOK

\* Every step keeps the type invariant.
LEMMA NextType == TypeInv /\ [Next]_vars => TypeInv'
<1> SUFFICES ASSUME TypeInv, [Next]_vars PROVE TypeInv'
  OBVIOUS
<1> USE DEF TypeInv
<1>1. CASE Issue
  <2>1. Main \in Proc /\ Task \subseteq Proc
    BY DEF Proc
  <2>2. ASSUME NEW t \in Task, SetEndpoint(t) PROVE TypeInv'
    <3>1. PICK e \in Endpoint \ {Unconfigured} :
            Begin(t, [op |-> "set_endpoint", base |-> e], "fetch")
      BY <2>2 DEF SetEndpoint
    <3>2. [op |-> "set_endpoint", base |-> e] \in FetchCall
      BY DEF FetchCall
    <3> QED BY <2>1, <3>1, <3>2, BeginType DEF Call
  <2>3. ASSUME NEW t \in Task, RefreshModels(t) PROVE TypeInv'
    <3>1. [op |-> "refresh_models", base |-> endpoint] \in FetchCall
      BY DEF TypeOK, FetchCall
    <3> QED BY <2>1, <2>3, <3>1, BeginType DEF RefreshModels, Call
  <2>4. CASE SetModel(Main)
    <3>1. PICK m \in Ids(models) :
            Begin(Main, [op |-> "set_model", model |-> m], "apply")
      BY <2>4 DEF SetModel
    <3>2. m \in Model
      BY IdsType DEF TypeOK
    <3>3. [op |-> "set_model", model |-> m] \in SelectCall
      BY <3>2 DEF SelectCall
    <3> QED BY <2>1, <3>1, <3>3, BeginType DEF SetterCall, Call
  <2>5. CASE SetCcSlot(Main)
    <3>1. PICK s \in Slot, m \in Ids(models) \cup {NoModel}, i \in BOOLEAN :
            Begin(Main, [op |-> "set_cc_slot", slot |-> s, model |-> m,
                         inherit |-> i], "apply")
      BY <2>5 DEF SetCcSlot
    <3>2. m \in Model \cup {NoModel}
      BY IdsType DEF TypeOK
    <3> QED BY <2>1, <3>1, <3>2, BeginType DEF SlotCall, SetterCall, Call
  <2>6. CASE SetVisibleModels(Main)
    BY <2>1, <2>6, BeginType DEF SetVisibleModels, VisibleCall, SetterCall, Call
  <2>7. CASE SetTokenLimits(Main)
    BY <2>1, <2>7, BeginType DEF SetTokenLimits, TokenCall, SetterCall, Call
  <2> QED BY <1>1, <2>2, <2>3, <2>4, <2>5, <2>6, <2>7 DEF Issue
<1>2. ASSUME NEW p \in Proc, Answer(p) PROVE TypeInv'
  <2>1. pc[p] = "fetch" /\ loc[p].call \in FetchCall
    BY <1>2 DEF Answer, ProbeAnswered, FetchAnswered, FetchFailed, CallOK,
                FetchLabel, TypeOK
  <2>2. loc[p].call.base \in Endpoint
    BY <2>1 DEF FetchCall
  <2>3. \A c \in Offers[loc[p].call.base] \cup {<<>>} : c \in Seq(Model)
    <3>1. \A c \in Offers[loc[p].call.base] : c \in Seq(Model)
      BY <2>2, ConstantAssumption
    <3>2. <<>> \in Seq(Model)
      OBVIOUS
    <3> QED BY <3>1, <3>2
  <2>4. CASE ProbeAnswered(p)
    <3>1. ui_state[loc[p].call.base].selected \in Model \cup {NoModel}
      BY <2>2 DEF TypeOK, UiFile, Preferences
    <3>2. /\ loc' \in [Proc -> Locals]
          /\ \A q \in Proc : loc'[q].call = loc[q].call
      <4>1. PICK c \in Seq(Model) : loc' =
              [loc EXCEPT ![p].fetched = c,
                          ![p].restored = ui_state[loc[p].call.base].selected]
        BY <2>3, <2>4 DEF ProbeAnswered
      <4> QED BY <3>1, <4>1 DEF TypeOK, Locals
    <3>3. "swap" \in Label
      BY DEF Label
    <3> QED
      BY <2>1, <2>4, <3>2, <3>3, GotoType
      DEF ProbeAnswered, TypeOK, PersistLabel, memory, disk, counters
  <2>5. CASE FetchAnswered(p)
    <3>1. /\ loc' \in [Proc -> Locals]
          /\ \A q \in Proc : loc'[q].call = loc[q].call
      <4>1. PICK c \in Seq(Model) :
              loc' = [loc EXCEPT ![p].fetched = c, ![p].key = endpoint]
        BY <2>3, <2>5 DEF FetchAnswered
      <4> QED BY <4>1 DEF TypeOK, Locals
    <3>2. "restore" \in Label
      BY DEF Label
    <3> QED
      BY <2>1, <2>5, <3>1, <3>2, GotoType
      DEF FetchAnswered, TypeOK, PersistLabel, memory, disk, counters
  <2>6. CASE FetchFailed(p)
    BY <2>6, ReturnType DEF FetchFailed, TypeOK, memory, disk, counters
  <2> QED BY <1>2, <2>4, <2>5, <2>6 DEF Answer
<1>3. ASSUME NEW p \in Proc, Step(p) PROVE TypeInv'
  <2> DEFINE l == loc[p]
  <2>1. /\ pc[p] \in FetchLabel => l.call \in FetchCall
        /\ pc[p] \in PersistLabel => l.call \in Call
        /\ pc[p] = "apply" => l.call \in SetterCall
    BY DEF CallOK
  <2>2. l \in Locals
    BY DEF TypeOK
  <2>3. SetterCall \subseteq Call /\ FetchCall \subseteq Call
    BY DEF SetterCall, Call
  <2>4. /\ KeepOrPick(l.fetched, l.restored) \in Model \cup {NoModel}
        /\ l.fetched \in Seq(Model) /\ l.key \in Endpoint
        /\ l.file[l.key] \in Preferences
    BY <2>2, PickType DEF Locals, UiFile
  <2> USE DEF Label, FetchLabel, PersistLabel, memory, disk, counters
  <2>5. CASE Swap(p)
    <3>1. l.call.base \in Endpoint
      BY <2>1, <2>5 DEF Swap, FetchCall
    <3> QED BY <2>1, <2>4, <2>5, <3>1, GotoType DEF Swap, TypeOK
  <2>6. CASE SnapshotConfig(p)
    <3>1. loc' \in [Proc -> Locals] /\ \A q \in Proc : loc'[q].call = loc[q].call
      BY <2>6 DEF SnapshotConfig, TypeOK, Locals
    <3> QED BY <2>1, <2>6, <3>1, GotoType DEF SnapshotConfig, TypeOK
  <2>7. CASE SaveConfig(p)
    BY <2>1, <2>4, <2>7, GotoType DEF SaveConfig, TypeOK
  <2>8. CASE ReadPersisted(p)
    <3>1. ui_state[l.key].selected \in Model \cup {NoModel}
      BY <2>4 DEF TypeOK, UiFile, Preferences
    <3>2. loc' \in [Proc -> Locals] /\ \A q \in Proc : loc'[q].call = loc[q].call
      BY <2>8, <3>1 DEF ReadPersisted, TypeOK, Locals
    <3> QED BY <2>1, <2>8, <3>2, GotoType DEF ReadPersisted, TypeOK
  <2>9. CASE KeepSelection(p)
    BY <2>1, <2>4, <2>9, GotoType DEF KeepSelection, TypeOK
  <2>10. CASE ReplaceModels(p)
    BY <2>1, <2>4, <2>10, GotoType DEF ReplaceModels, TypeOK
  <2>11. CASE ReloadKey(p)
    <3>1. loc' \in [Proc -> Locals] /\ \A q \in Proc : loc'[q].call = loc[q].call
      BY <2>11 DEF ReloadKey, TypeOK, Locals
    <3> QED BY <2>1, <2>11, <3>1, GotoType DEF ReloadKey, TypeOK
  <2>12. CASE ReloadFile(p)
    <3>1. loc' \in [Proc -> Locals] /\ \A q \in Proc : loc'[q].call = loc[q].call
      BY <2>12 DEF ReloadFile, TypeOK, Locals
    <3> QED BY <2>1, <2>12, <3>1, GotoType DEF ReloadFile, TypeOK
  <2>13. CASE ReloadVisible(p)
    BY <2>1, <2>4, <2>13, GotoType DEF ReloadVisible, TypeOK, Preferences
  <2>14. CASE ReloadTokens(p)
    BY <2>1, <2>4, <2>14, GotoType DEF ReloadTokens, TypeOK, Preferences
  <2>15. CASE ReloadSlots(p)
    <3>1. slots' \in CcSlots
      BY <2>4, <2>15 DEF ReloadSlots, Preferences
    <3>2. CASE Return(p)
      BY <2>15, <3>1, <3>2, ReturnType DEF ReloadSlots, TypeOK
    <3>3. CASE Goto(p, "catalog") /\ loc' = loc
      BY <2>1, <2>15, <3>1, <3>3, GotoType DEF ReloadSlots, TypeOK
    <3> QED BY <2>15, <3>2, <3>3 DEF ReloadSlots
  <2>16. CASE ReadCatalog(p)
    <3>1. loc' \in [Proc -> Locals] /\ \A q \in Proc : loc'[q].call = loc[q].call
      BY <2>16 DEF ReadCatalog, TypeOK, Locals
    <3> QED BY <2>1, <2>16, <3>1, GotoType DEF ReadCatalog, TypeOK
  <2>17. CASE PruneSlots(p)
    <3>1. slots' \in CcSlots
      BY <2>17, PruneType DEF PruneSlots, TypeOK
    <3>2. CASE Return(p)
      BY <2>17, <3>1, <3>2, ReturnType DEF PruneSlots, TypeOK
    <3>3. CASE Goto(p, "persist") /\ loc' = loc
      BY <2>1, <2>3, <2>17, <3>1, <3>3, GotoType DEF PruneSlots, TypeOK
    <3> QED BY <2>17, <3>2, <3>3 DEF PruneSlots
  <2>18. CASE Apply(p)
    <3>1. l.call \in SetterCall
      BY <2>1, <2>18 DEF Apply
    <3>2. /\ selected' \in Model \cup {NoModel}
          /\ visible' \in Curation \cup {Uncurated}
          /\ tokens' \in TokenOverride
          /\ slots' \in CcSlots
      BY <2>18, <3>1, SetSlotType
      DEF Apply, TypeOK, SetterCall, SelectCall, SlotCall, VisibleCall, TokenCall
    <3> QED BY <2>1, <2>3, <2>18, <3>2, GotoType DEF Apply, TypeOK
  <2>19. CASE LockUiIo(p)
    <3>1. loc' \in [Proc -> Locals] /\ \A q \in Proc : loc'[q].call = loc[q].call
      BY <2>19 DEF LockUiIo, TypeOK, Locals
    <3> QED BY <2>1, <2>19, <3>1, GotoType DEF LockUiIo, TypeOK
  <2>20. CASE LoadAndEdit(p)
    <3>1. l.call \in Call
      BY <2>1, <2>20 DEF LoadAndEdit
    <3>2. Edited(ui_state[l.key], l.call) \in Preferences
      BY <2>4, <3>1
      DEF Edited, TypeOK, UiFile, Preferences, Call, FetchCall, SelectCall,
          SlotCall, VisibleCall, TokenCall
    <3>3. [ui_state EXCEPT ![l.key] = Edited(ui_state[l.key], l.call)] \in UiFile
      BY <3>2 DEF TypeOK, UiFile
    <3>4. loc' \in [Proc -> Locals] /\ \A q \in Proc : loc'[q].call = loc[q].call
      BY <2>20, <3>3 DEF LoadAndEdit, TypeOK, Locals
    <3> QED BY <2>1, <2>20, <3>4, GotoType DEF LoadAndEdit, TypeOK
  <2>21. CASE SaveUiState(p)
    <3>1. l.file \in UiFile
      BY <2>2 DEF Locals
    <3> QED BY <2>21, <3>1, ReturnType DEF SaveUiState, TypeOK
  <2> QED
    BY <1>3, <2>5, <2>6, <2>7, <2>8, <2>9, <2>10, <2>11, <2>12, <2>13, <2>14,
       <2>15, <2>16, <2>17, <2>18, <2>19, <2>20, <2>21 DEF Step
<1>4. CASE Restart
  <2>1. NoLocals \in Locals
    BY NoLocalsType DEF TypeOK
  <2>2. ui_state[config_json] \in Preferences
    BY DEF TypeOK, UiFile
  <2>3. CallOK'
    BY <1>4 DEF Restart, CallOK, FetchLabel, PersistLabel
  <2>4. crashes' \in 0..MaxCrashes
    BY <1>4, ConstantAssumption DEF Restart, TypeOK
  <2>5. pc' \in [Proc -> Label] /\ loc' \in [Proc -> Locals]
    BY <1>4, <2>1 DEF Restart, Label
  <2> QED
    BY <1>4, <2>2, <2>3, <2>4, <2>5 DEF Restart, TypeOK, Preferences, disk
<1>5. CASE UNCHANGED vars
  BY <1>5 DEF vars, memory, disk, counters, TypeOK, CallOK
<1>6. CASE Quiet
  BY <1>5, <1>6 DEF Quiet
<1> QED BY <1>1, <1>2, <1>3, <1>4, <1>5, <1>6 DEF Next, Progress

\* Memory, files and the locals of every command stay well typed.
THEOREM TypeCorrect == Spec => []TypeOK
<1>1. Spec => []TypeInv
  BY InitType, NextType, PTL DEF Spec
<1> QED BY <1>1, PTL DEF TypeInv
-----------------------------------------------------------------------------
(* Swaps alone keep endpoint, catalog and selection together.              *)

\* Who is where in which command, and what a probe may have answered.
RefreshLabel == {"restore", "select", "models", "catalog", "prune"}

CommandInv ==
    \A p \in Proc :
        /\ pc[p] # "idle" => op(p) \in Commands
        /\ pc[p] \in RefreshLabel => op(p) = "refresh_models"
        /\ pc[p] = "swap" => /\ op(p) = "set_endpoint"
                             /\ loc[p].fetched \in Offers[loc[p].call.base] \cup {<<>>}

SwapInv == TypeInv /\ CommandInv /\ SelectionInCatalog /\ SelectionOfEndpoint

\* CommandInv is kept by every step, whatever the commands.
LEMMA CommandStep == TypeInv /\ CommandInv /\ [Next]_vars => CommandInv'
<1> SUFFICES ASSUME TypeInv, CommandInv, [Next]_vars PROVE CommandInv'
  OBVIOUS
<1> USE DEF CommandInv, RefreshLabel, Goto, Return, op
<1>0. pc \in [Proc -> Label] /\ loc \in [Proc -> Locals]
  BY DEF TypeInv, TypeOK
<1>1. CASE Issue
  <2>1. PICK p \in Proc, label \in {"fetch", "apply"} : \E c : Begin(p, c, label)
    BY <1>1 DEF Issue, SetEndpoint, RefreshModels, SetModel, SetCcSlot,
                SetVisibleModels, SetTokenLimits, Proc
  <2>2. \A q \in Proc \ {p} : pc'[q] = pc[q] /\ loc'[q] = loc[q]
    BY <1>0, <2>1 DEF Begin
  <2>3. pc'[p] = label /\ loc'[p].call.op \in Commands
    BY <1>0, <2>1 DEF Begin, Locals
  <2> QED BY <2>2, <2>3
<1>2. ASSUME NEW p \in Proc, Answer(p) PROVE CommandInv'
  <2>1. \A q \in Proc \ {p} : pc'[q] = pc[q] /\ loc'[q] = loc[q]
    BY <1>0, <1>2 DEF Answer, ProbeAnswered, FetchAnswered, FetchFailed
  <2>2. CASE ProbeAnswered(p)
    <3>1. PICK c \in Offers[loc[p].call.base] \cup {<<>>} : loc' =
            [loc EXCEPT ![p].fetched = c,
                        ![p].restored = ui_state[loc[p].call.base].selected]
      BY <2>2 DEF ProbeAnswered
    <3>2. pc'[p] = "swap" /\ loc'[p].fetched = c /\ loc'[p].call = loc[p].call
      BY <1>0, <2>2, <3>1 DEF ProbeAnswered, Locals
    <3> QED BY <1>0, <2>1, <2>2, <3>2 DEF ProbeAnswered
  <2>3. CASE FetchAnswered(p)
    <3>1. PICK c : loc' = [loc EXCEPT ![p].fetched = c, ![p].key = endpoint]
      BY <2>3 DEF FetchAnswered
    <3>2. pc'[p] = "restore" /\ loc'[p].call = loc[p].call
      BY <1>0, <2>3, <3>1 DEF FetchAnswered, Locals
    <3> QED BY <1>0, <2>1, <2>3, <3>2 DEF FetchAnswered
  <2>4. CASE FetchFailed(p)
    BY <1>0, <2>1, <2>4 DEF FetchFailed
  <2> QED BY <1>2, <2>2, <2>3, <2>4 DEF Answer
<1>3. ASSUME NEW p \in Proc, Step(p) PROVE CommandInv'
  <2>1. /\ \A q \in Proc \ {p} : pc'[q] = pc[q] /\ loc'[q] = loc[q]
        /\ pc[p] # "idle" /\ pc'[p] # "swap"
        /\ pc'[p] # "idle" => loc'[p].call = loc[p].call
    BY <1>0, <1>3
    DEF Step, Swap, SnapshotConfig, SaveConfig, ReadPersisted, KeepSelection,
        ReplaceModels, ReloadKey, ReloadFile, ReloadVisible, ReloadTokens,
        ReloadSlots, ReadCatalog, PruneSlots, Apply, LockUiIo, LoadAndEdit,
        SaveUiState, Locals
  <2>2. pc'[p] \in RefreshLabel => pc[p] \in RefreshLabel \cup {"reload_slots"}
    BY <1>0, <1>3
    DEF Step, Swap, SnapshotConfig, SaveConfig, ReadPersisted, KeepSelection,
        ReplaceModels, ReloadKey, ReloadFile, ReloadVisible, ReloadTokens,
        ReloadSlots, ReadCatalog, PruneSlots, Apply, LockUiIo, LoadAndEdit,
        SaveUiState
  <2>3. pc'[p] \in RefreshLabel /\ pc[p] = "reload_slots"
          => op(p) = "refresh_models"
    <3>1. pc[p] = "reload_slots" => loc[p].call.op \in {"set_endpoint", "refresh_models"}
      BY DEF TypeInv, CallOK, FetchLabel, FetchCall
    <3> QED
      BY <1>0, <1>3, <3>1
      DEF Step, Swap, SnapshotConfig, SaveConfig, ReadPersisted, KeepSelection,
          ReplaceModels, ReloadKey, ReloadFile, ReloadVisible, ReloadTokens,
          ReloadSlots, ReadCatalog, PruneSlots, Apply, LockUiIo, LoadAndEdit,
          SaveUiState
  <2> QED BY <1>0, <2>1, <2>2, <2>3
<1>4. CASE Restart
  BY <1>4 DEF Restart
<1>5. CASE UNCHANGED vars \/ Quiet
  BY <1>5 DEF vars, Quiet
<1> QED BY <1>1, <1>2, <1>3, <1>4, <1>5 DEF Next, Progress

\* Without refresh_models and set_model, only Swap and Restart touch the
\* selection, the catalog or the endpoint.
LEMMA SwapStep ==
    ASSUME Commands \cap {"refresh_models", "set_model"} = {}
    PROVE  SwapInv /\ [Next]_vars => SwapInv'
<1> SUFFICES ASSUME SwapInv, [Next]_vars PROVE SwapInv'
  OBVIOUS
<1>1. TypeInv' /\ CommandInv'
  BY NextType, CommandStep DEF SwapInv
<1>2. ASSUME UNCHANGED <<endpoint, models, selected>> PROVE SwapInv'
  BY <1>1, <1>2 DEF SwapInv, SelectionInCatalog, SelectionOfEndpoint
<1>3. CASE Issue
  BY <1>2, <1>3 DEF Issue, SetEndpoint, RefreshModels, SetModel, SetCcSlot,
     SetVisibleModels, SetTokenLimits, Begin, memory
<1>4. ASSUME NEW p \in Proc, Answer(p) PROVE SwapInv'
  BY <1>2, <1>4 DEF Answer, ProbeAnswered, FetchAnswered, FetchFailed, memory
<1>5. ASSUME NEW p \in Proc, Step(p) PROVE SwapInv'
  <2>1. CASE Swap(p)
    <3> DEFINE c == loc[p].fetched
    <3>1. /\ c \in Offers[loc[p].call.base] \cup {<<>>}
          /\ c \in Seq(Model)
      BY <2>1 DEF Swap, SwapInv, CommandInv, TypeInv, TypeOK, Locals
    <3>2. SelectionInCatalog'
      BY <2>1, <3>1, PickInCatalog DEF Swap, SelectionInCatalog, Ids
    <3>3. SelectionOfEndpoint'
      <4>1. CASE c = <<>>
        BY <2>1, <3>1, <4>1, PickInCatalog DEF Swap, SelectionOfEndpoint
      <4>2. CASE c # <<>>
        <5>1. selected' \in Ids(c) /\ endpoint' = loc[p].call.base
          BY <2>1, <3>1, <4>2, PickInCatalog DEF Swap
        <5>2. Ids(c) \subseteq Offered(endpoint')
          BY <3>1, <4>2, <5>1 DEF Offered
        <5> QED BY <5>1, <5>2 DEF SelectionOfEndpoint, Offered
      <4> QED BY <4>1, <4>2
    <3> QED BY <1>1, <3>2, <3>3 DEF SwapInv
  <2>2. CASE ReadPersisted(p) \/ KeepSelection(p) \/ ReplaceModels(p)
             \/ ReadCatalog(p) \/ PruneSlots(p)
    <3>1. pc[p] \in RefreshLabel
      BY <2>2 DEF ReadPersisted, KeepSelection, ReplaceModels, ReadCatalog,
                  PruneSlots, RefreshLabel
    <3>2. op(p) \in Commands /\ op(p) = "refresh_models"
      BY <3>1 DEF SwapInv, CommandInv, RefreshLabel
    <3> QED BY <3>2
  <2>3. CASE Apply(p)
    <3>1. op(p) \in Commands
      BY <2>3 DEF Apply, SwapInv, CommandInv
    <3>2. op(p) # "set_model"
      BY <3>1
    <3> QED BY <1>2, <2>3, <3>2 DEF Apply, op
  <2>4. CASE SnapshotConfig(p) \/ SaveConfig(p) \/ ReloadKey(p) \/ ReloadFile(p)
             \/ ReloadVisible(p) \/ ReloadTokens(p) \/ ReloadSlots(p)
             \/ LockUiIo(p) \/ LoadAndEdit(p) \/ SaveUiState(p)
    BY <1>2, <2>4
    DEF SnapshotConfig, SaveConfig, ReloadKey, ReloadFile, ReloadVisible,
        ReloadTokens, ReloadSlots, LockUiIo, LoadAndEdit, SaveUiState, memory
  <2> QED BY <1>5, <2>1, <2>2, <2>3, <2>4 DEF Step
<1>6. CASE Restart
  BY <1>1, <1>6 DEF Restart, SwapInv, SelectionInCatalog, SelectionOfEndpoint
<1>7. CASE UNCHANGED vars \/ Quiet
  BY <1>2, <1>7 DEF vars, memory, Quiet
<1> QED BY <1>3, <1>4, <1>5, <1>6, <1>7 DEF Next, Progress

\* Any number of concurrent endpoint changes, with slot, visibility and token
\* commands and restarts between their steps, never pair the endpoint with a
\* model of another one or with a model its catalog lacks.
THEOREM SwapsCoherent ==
    ASSUME Commands \cap {"refresh_models", "set_model"} = {}
    PROVE  Spec => [](SelectionInCatalog /\ SelectionOfEndpoint)
<1>1. Init => SwapInv
  <2> SUFFICES ASSUME Init PROVE SwapInv
    OBVIOUS
  <2>1. CommandInv
    BY DEF Init, CommandInv, RefreshLabel
  <2> QED
    BY <2>1, InitType DEF Init, SwapInv, SelectionInCatalog, SelectionOfEndpoint
<1>2. SwapInv /\ [Next]_vars => SwapInv'
  BY SwapStep
<1> QED BY <1>1, <1>2, PTL DEF Spec, SwapInv

\* In particular a request never reads a selection that the catalog on display
\* lacks: the catalog a swap brings is installed with it.
THEOREM SwapsKeepCatalog ==
    ASSUME Commands \cap {"refresh_models", "set_model"} = {}
    PROVE  Spec => []SelectionInCatalog
BY SwapsCoherent, PTL
-----------------------------------------------------------------------------
(* The writers of ui_state.json are serialized, and so lose nothing.       *)

\* A process between its load and its save holds ui_io.
HolderInv == \A p \in Proc : pc[p] \in {"load", "save"} => ui_io = p

StoreInv == TypeInv /\ HolderInv /\ NoLostUpdate

\* What LoadAndEdit prepares differs from the file in one preference.
LEMMA EditOne ==
    ASSUME TypeInv, NEW p \in Proc, LoadAndEdit(p)
    PROVE  LET new == loc'[p].file
               k == loc[p].key
           IN  /\ \A e \in Endpoint \ {k} : new[e] = ui_state[e]
               /\ op(p) # "set_model" => new[k].selected = ui_state[k].selected
               /\ op(p) # "set_visible_models" => new[k].visible = ui_state[k].visible
               /\ op(p) # "set_token_limits" => new[k].tokens = ui_state[k].tokens
               /\ op(p) \in {"set_model", "set_visible_models", "set_token_limits"}
                    => new[k].slots = ui_state[k].slots
<1> DEFINE k == loc[p].key
           entry == ui_state[k]
           edit == Edited(entry, loc[p].call)
<1>1. /\ k \in Endpoint /\ entry \in Preferences
      /\ loc'[p].file = [ui_state EXCEPT ![k] = edit]
  BY DEF LoadAndEdit, TypeInv, TypeOK, Locals, UiFile
<1>2. /\ loc'[p].file[k] = edit
      /\ \A e \in Endpoint \ {k} : loc'[p].file[e] = ui_state[e]
  BY <1>1 DEF TypeInv, TypeOK, UiFile
<1>3. /\ op(p) # "set_model" => edit.selected = entry.selected
      /\ op(p) # "set_visible_models" => edit.visible = entry.visible
      /\ op(p) # "set_token_limits" => edit.tokens = entry.tokens
      /\ op(p) \in {"set_model", "set_visible_models", "set_token_limits"}
           => edit.slots = entry.slots
  <2> HIDE DEF entry
  <2> QED BY <1>1 DEF Edited, Preferences, op
<1> QED BY <1>1, <1>2, <1>3

\* Every step keeps StoreInv: the holder of ui_io is the only one to save, so
\* a copy that waits to be saved stays up to date.
LEMMA StoreStep == StoreInv /\ [Next]_vars => StoreInv'
<1> SUFFICES ASSUME StoreInv, [Next]_vars PROVE StoreInv'
  OBVIOUS
<1>0. /\ TypeInv'
      /\ pc \in [Proc -> Label] /\ loc \in [Proc -> Locals]
      /\ NoProc \notin Proc
  BY NextType, ConstantAssumption DEF StoreInv, TypeInv, TypeOK, Proc
<1>1. ASSUME UNCHANGED <<ui_state, ui_io>>, NEW p \in Proc,
             \A q \in Proc \ {p} : pc'[q] = pc[q] /\ loc'[q] = loc[q],
             pc'[p] \notin {"load", "save"}
      PROVE  StoreInv'
  BY <1>0, <1>1 DEF StoreInv, HolderInv, NoLostUpdate, op
<1>2. CASE Issue
  <2>1. PICK p \in Proc, label \in {"fetch", "apply"} : \E c : Begin(p, c, label)
    BY <1>2 DEF Issue, SetEndpoint, RefreshModels, SetModel, SetCcSlot,
                SetVisibleModels, SetTokenLimits, Proc
  <2> QED BY <1>0, <1>1, <2>1 DEF Begin, Goto, disk
<1>3. ASSUME NEW p \in Proc, Answer(p) PROVE StoreInv'
  BY <1>0, <1>1, <1>3
  DEF Answer, ProbeAnswered, FetchAnswered, FetchFailed, Return, Goto, disk
<1>4. ASSUME NEW p \in Proc, Step(p) PROVE StoreInv'
  <2>1. CASE LockUiIo(p)
    <3>1. \A q \in Proc : pc[q] \notin {"load", "save"}
      BY <1>0, <2>1 DEF LockUiIo, StoreInv, HolderInv
    <3>2. /\ \A q \in Proc : pc'[q] # "save"
          /\ \A q \in Proc \ {p} : pc'[q] # "load"
          /\ ui_io' = p
      BY <1>0, <2>1, <3>1 DEF LockUiIo, Goto
    <3> QED BY <1>0, <3>2 DEF StoreInv, HolderInv, NoLostUpdate
  <2>2. CASE LoadAndEdit(p)
    <3>1. /\ ui_io = p /\ UNCHANGED <<ui_state, ui_io>>
          /\ \A q \in Proc \ {p} : pc'[q] = pc[q] /\ pc[q] \notin {"load", "save"}
      BY <1>0, <2>2 DEF LoadAndEdit, Goto, disk, StoreInv, HolderInv
    <3>2. pc'[p] = "save" /\ loc'[p].key = loc[p].key /\ loc'[p].call = loc[p].call
      BY <1>0, <2>2 DEF LoadAndEdit, Goto, Locals
    <3>3. HolderInv'
      BY <1>0, <3>1, <3>2 DEF HolderInv
    <3>4. NoLostUpdate'
      BY <2>2, <3>1, <3>2, EditOne DEF NoLostUpdate, StoreInv, op
    <3> QED BY <1>0, <3>3, <3>4 DEF StoreInv
  <2>3. CASE SaveUiState(p)
    <3>1. \A q \in Proc : pc'[q] \notin {"load", "save"}
      BY <1>0, <2>3 DEF SaveUiState, Return, Goto, StoreInv, HolderInv
    <3> QED BY <1>0, <3>1 DEF StoreInv, HolderInv, NoLostUpdate
  <2>4. CASE Swap(p) \/ SnapshotConfig(p) \/ SaveConfig(p) \/ ReadPersisted(p)
             \/ KeepSelection(p) \/ ReplaceModels(p)
    BY <1>0, <1>1, <2>4
    DEF Swap, SnapshotConfig, SaveConfig, ReadPersisted, KeepSelection,
        ReplaceModels, Goto, disk
  <2>5. CASE ReloadKey(p) \/ ReloadFile(p) \/ ReloadVisible(p) \/ ReloadTokens(p)
             \/ ReloadSlots(p)
    BY <1>0, <1>1, <2>5
    DEF ReloadKey, ReloadFile, ReloadVisible, ReloadTokens, ReloadSlots,
        Return, Goto, disk
  <2>6. CASE ReadCatalog(p) \/ PruneSlots(p) \/ Apply(p)
    BY <1>0, <1>1, <2>6 DEF ReadCatalog, PruneSlots, Apply, Return, Goto, disk
  <2> QED BY <1>4, <2>1, <2>2, <2>3, <2>4, <2>5, <2>6 DEF Step
<1>5. CASE Restart
  <2>1. \A q \in Proc : pc'[q] = "idle"
    BY <1>5 DEF Restart
  <2> QED BY <1>0, <2>1 DEF StoreInv, HolderInv, NoLostUpdate
<1>6. CASE UNCHANGED vars \/ Quiet
  BY <1>0, <1>6
  DEF vars, disk, Quiet, StoreInv, HolderInv, NoLostUpdate, op
<1> QED BY <1>2, <1>3, <1>4, <1>5, <1>6 DEF Next, Progress

\* Init establishes it.
LEMMA StoreInit == Init => StoreInv
BY InitType DEF Init, StoreInv, HolderInv, NoLostUpdate

\* No writer of ui_state.json puts back an entry another has replaced.
THEOREM LosesNoUpdate == Spec => []NoLostUpdate
BY StoreInit, StoreStep, PTL DEF Spec, StoreInv

\* ui_state.json implements the abstract store: every step of every command
\* writes one preference of one endpoint, or leaves the file alone.
THEOREM StoreImplemented == Spec => ImplementsStore
<1>1. Init => Store!Init
  BY DEF Init, Store!Init
<1>2. StoreInv /\ [Next]_vars => [Store!Next]_ui_state
  <2> SUFFICES ASSUME StoreInv, [Next]_vars, ui_state' # ui_state
               PROVE  Store!Next
    OBVIOUS
  <2>1. PICK p \in Proc : SaveUiState(p) /\ ui_state' = loc[p].file
    BY DEF Next, Progress, Issue, SetEndpoint, RefreshModels, SetModel, SetCcSlot,
       SetVisibleModels, SetTokenLimits, Begin, Answer, ProbeAnswered,
       FetchAnswered, FetchFailed, Step, Swap, SnapshotConfig, SaveConfig,
       ReadPersisted, KeepSelection, ReplaceModels, ReloadKey, ReloadFile,
       ReloadVisible, ReloadTokens, ReloadSlots, ReadCatalog, PruneSlots, Apply,
       LockUiIo, LoadAndEdit, SaveUiState, Restart, Quiet, vars, disk
  <2> DEFINE k == loc[p].key
             new == loc[p].file[k]
  <2>2. k \in Endpoint /\ new \in Preferences /\ loc[p].file \in UiFile
    BY DEF StoreInv, TypeInv, TypeOK, Locals, UiFile
  <2>3. ui_state' = [ui_state EXCEPT ![k] = new]
    BY <2>1, <2>2
    DEF SaveUiState, StoreInv, NoLostUpdate, TypeInv, TypeOK, UiFile
  <2>4. Store!OneWrite(ui_state[k], new)
    BY <2>1 DEF SaveUiState, StoreInv, NoLostUpdate, Store!OneWrite
  <2> QED BY <2>2, <2>3, <2>4 DEF Store!Next, Store!Put
<1> QED BY <1>1, <1>2, StoreInit, StoreStep, PTL DEF Spec, ImplementsStore, Store!Spec
=============================================================================
