----------------------- MODULE AppStateSequentialProofs -----------------------
(***************************************************************************)
(* What TLAPS proves of AppState when commands do not overlap: every       *)
(* command finds memory and ui_state.json in agreement and leaves them so. *)
(* The hypotheses name the two constants an instance of that kind sets:    *)
(* Overlap = FALSE, and DiskMayFail = FALSE where a failed save would be   *)
(* reported but leaves memory ahead of the disk.                           *)
(***************************************************************************)
EXTENDS AppStateProofs

\* At most one command is under way.
OneActive == \A p, q \in Proc : pc[p] # "idle" /\ pc[q] # "idle" => p = q

\* What the command under way has read is still so: nobody else writes.
LocalsFresh ==
    \A p \in Proc :
        LET l == loc[p] IN
        /\ pc[p] # "idle" /\ op(p) = "refresh_models" => l.call.base = endpoint
        /\ pc[p] \in {"restore", "select", "models"} =>
             l.fetched \in Offers[l.call.base]
        /\ pc[p] = "prune" => l.fetched = models
        /\ pc[p] = "swap" => l.restored = ui_state[l.call.base].selected
        /\ pc[p] = "select" => l.restored = ui_state[endpoint].selected
        /\ pc[p] \in {"save_config", "restore", "reload_file", "reload_visible",
                      "reload_tokens", "reload_slots", "load", "save"} =>
             l.key = endpoint
        /\ pc[p] \in {"reload_visible", "reload_tokens", "reload_slots"} =>
             l.file = ui_state

\* Where set_endpoint has replaced the endpoint and not yet what goes with it:
\* config.json, the visible models, the token budgets, the slots.
ConfigBehind == {"snapshot", "save_config"}
VisibleBehind == ConfigBehind \cup {"reload_key", "reload_file", "reload_visible"}
TokensBehind == VisibleBehind \cup {"reload_tokens"}
SlotsBehind == TokensBehind \cup {"reload_slots"}

\* The selection is in the catalog, except in set_models between the two: there
\* it is in the catalog that is about to arrive.
SelectionInv ==
    /\ (\A p \in Proc : pc[p] # "models") => SelectionInCatalog
    /\ \A p \in Proc :
         /\ pc[p] = "models" => selected \in Ids(loc[p].fetched)
         /\ pc[p] = "apply" /\ op(p) = "set_model" => loc[p].call.model \in Ids(models)

\* `entry` names models that e offers, and no others.
Own(entry, e) ==
    (SlotModels(entry.slots) \cup {entry.selected}) \ {NoModel} \subseteq Offered(e)

\* Memory and the copy about to be saved name models of the endpoint only;
\* the slots in memory do unless a change of endpoint has yet to reload them.
OwnInv ==
    /\ StoredModelsAreOwn
    /\ Ids(models) \subseteq Offered(endpoint)
    /\ (\A p \in Proc : ~SlotsLag(p)) =>
         SlotModels(slots) \subseteq Offered(endpoint)
    /\ \A p \in Proc :
         /\ pc[p] \in PersistLabel \cup {"apply"} /\ op(p) = "set_model" =>
              loc[p].call.model \in Offered(endpoint)
         /\ pc[p] = "apply" /\ op(p) = "set_cc_slot" =>
              loc[p].call.model \in Offered(endpoint) \cup {NoModel}
         /\ pc[p] = "save" => \A e \in Endpoint : Own(loc[p].file[e], e)

\* What p's command has still to bring in line, when no other is under way.
OnDiskAt(p) ==
    /\ pc[p] \in ConfigBehind \/ config_json = endpoint
    /\ \/ pc[p] \in VisibleBehind
       \/ pc[p] \in PersistLabel /\ op(p) = "set_visible_models"
       \/ ui_state[endpoint].visible = visible
    /\ \/ pc[p] \in TokensBehind
       \/ pc[p] \in PersistLabel /\ op(p) = "set_token_limits"
       \/ ui_state[endpoint].tokens = tokens
    /\ \/ pc[p] \in SlotsBehind
       \/ pc[p] \in PersistLabel /\ op(p) \in {"set_cc_slot", "refresh_models"}
       \/ ui_state[endpoint].slots = slots
    /\ pc[p] \in PersistLabel =>
         /\ op(p) = "set_visible_models" => loc[p].call.visible = visible
         /\ op(p) = "set_token_limits" => loc[p].call.tokens = tokens
         /\ op(p) = "refresh_models" => SlotModels(slots) \subseteq Ids(models)
    /\ pc[p] = "save" =>
         LET new == loc[p].file[endpoint]
         IN  new.visible = visible /\ new.tokens = tokens /\ new.slots = slots

\* Memory and disk agree but for what the command under way has still to do.
OnDiskInv ==
    \A p \in Proc : (\A q \in Proc \ {p} : pc[q] = "idle") => OnDiskAt(p)
-----------------------------------------------------------------------------
(* One command at a time.                                                  *)

\* What a command that begins asks for, in a state it could ask it in.
LEMMA IssueBegins ==
    ASSUME TypeInv, Issue
    PROVE  \E p \in Proc, label \in {"fetch", "apply"}, c \in Call :
             /\ Begin(p, c, label)
             /\ c.op = "refresh_models" => c.base = endpoint
             /\ c.op = "set_model" => c.model \in Ids(models)
             /\ c.op = "set_cc_slot" => c.model \in Ids(models) \cup {NoModel}
<1> DEFINE Asked(c) ==
      /\ c.op = "refresh_models" => c.base = endpoint
      /\ c.op = "set_model" => c.model \in Ids(models)
      /\ c.op = "set_cc_slot" => c.model \in Ids(models) \cup {NoModel}
<1>1. /\ Main \in Proc /\ Task \subseteq Proc
      /\ endpoint \in Endpoint /\ Ids(models) \subseteq Model
  BY IdsType DEF Proc, TypeInv, TypeOK
<1> SUFFICES \E p \in Proc, label \in {"fetch", "apply"}, c \in Call :
               Begin(p, c, label) /\ Asked(c)
  OBVIOUS
<1>2. ASSUME NEW t \in Task, SetEndpoint(t)
      PROVE  \E c \in Call : Begin(t, c, "fetch") /\ Asked(c)
  BY <1>2 DEF SetEndpoint, Call, FetchCall
<1>3. ASSUME NEW t \in Task, RefreshModels(t)
      PROVE  \E c \in Call : Begin(t, c, "fetch") /\ Asked(c)
  BY <1>1, <1>3 DEF RefreshModels, Call, FetchCall
<1>4. CASE SetModel(Main)
  <2>1. \E c \in Call : Begin(Main, c, "apply") /\ Asked(c)
    BY <1>1, <1>4 DEF SetModel, Call, SelectCall
  <2> HIDE DEF Asked
  <2> QED BY <1>1, <2>1
<1>5. CASE SetCcSlot(Main)
  <2>1. \E c \in Call : Begin(Main, c, "apply") /\ Asked(c)
    BY <1>1, <1>5 DEF SetCcSlot, Call, SlotCall
  <2> HIDE DEF Asked
  <2> QED BY <1>1, <2>1
<1>6. CASE SetVisibleModels(Main)
  <2>1. \E c \in Call : Begin(Main, c, "apply") /\ Asked(c)
    BY <1>1, <1>6 DEF SetVisibleModels, Call, VisibleCall
  <2> HIDE DEF Asked
  <2> QED BY <1>1, <2>1
<1>7. CASE SetTokenLimits(Main)
  <2>1. \E c \in Call : Begin(Main, c, "apply") /\ Asked(c)
    BY <1>1, <1>7 DEF SetTokenLimits, Call, TokenCall
  <2> HIDE DEF Asked
  <2> QED BY <1>1, <2>1
<1> HIDE DEF Asked
<1> QED BY <1>1, <1>2, <1>3, <1>4, <1>5, <1>6, <1>7 DEF Issue

\* A command begins when every process is idle, and only its own moves.
LEMMA BeginAlone ==
    ASSUME TypeInv, Overlap = FALSE, NEW p \in Proc, NEW c, NEW label,
           Begin(p, c, label)
    PROVE  /\ \A q \in Proc : pc[q] = "idle"
           /\ \A q \in Proc \ {p} : pc'[q] = "idle" /\ loc'[q] = loc[q]
           /\ pc'[p] = label /\ loc'[p].call = c
           /\ UNCHANGED <<memory, ui_io, disk, crashes>>
BY DEF Begin, Goto, Idle, TypeInv, TypeOK, Locals

\* A step of a command is the step of the only process that is not idle.
LEMMA StepAlone ==
    ASSUME TypeInv, OneActive, NEW p \in Proc, Answer(p) \/ Step(p)
    PROVE  /\ pc[p] # "idle"
           /\ \A q \in Proc \ {p} :
                pc[q] = "idle" /\ pc'[q] = "idle" /\ loc'[q] = loc[q]
           /\ pc'[p] = "idle" \/ loc'[p].call = loc[p].call
           /\ UNCHANGED crashes
<1>1. pc \in [Proc -> Label] /\ loc \in [Proc -> Locals]
  BY DEF TypeInv, TypeOK
<1>2. /\ pc[p] # "idle" /\ UNCHANGED crashes
      /\ \A q \in Proc \ {p} : pc'[q] = pc[q] /\ loc'[q] = loc[q]
  BY <1>1 DEF Answer, ProbeAnswered, FetchAnswered, FetchFailed, Step, Swap,
     SnapshotConfig, SaveConfig, ReadPersisted, KeepSelection, ReplaceModels,
     ReloadKey, ReloadFile, ReloadVisible, ReloadTokens, ReloadSlots,
     ReadCatalog, PruneSlots, Apply, LockUiIo, LoadAndEdit, SaveUiState, Return,
     Goto, counters
<1>3. pc'[p] = "idle" \/ loc'[p].call = loc[p].call
  <2>1. CASE Answer(p)
    BY <1>1, <2>1 DEF Answer, ProbeAnswered, FetchAnswered, FetchFailed, Return,
       Goto, Locals
  <2>2. CASE Step(p)
    BY <1>1, <2>2 DEF Step, Swap,
       SnapshotConfig, SaveConfig, ReadPersisted, KeepSelection, ReplaceModels,
       ReloadKey, ReloadFile, ReloadVisible, ReloadTokens, ReloadSlots,
       ReadCatalog, PruneSlots, Apply, LockUiIo, LoadAndEdit, SaveUiState,
       Return, Goto, Locals
  <2> QED BY <2>1, <2>2
<1> QED BY <1>2, <1>3 DEF OneActive

\* What is known of every state in which commands do not overlap.
Solo == TypeInv /\ CommandInv /\ OneActive /\ LocalsFresh

\* At a label of a command, it is the command of that label.
LEMMA OpAtLabel ==
    ASSUME TypeInv, CommandInv, NEW p \in Proc
    PROVE  /\ pc[p] = "apply" => op(p) \notin {"set_endpoint", "refresh_models"}
           /\ pc[p] \in RefreshLabel => op(p) = "refresh_models"
           /\ pc[p] \in FetchLabel => op(p) \in {"set_endpoint", "refresh_models"}
BY DEF TypeInv, CallOK, CommandInv, op, FetchCall, SetterCall, SelectCall, SlotCall,
       VisibleCall, TokenCall

\* While commands do not overlap, what one has read is still so.
LEMMA SoloStep ==
    ASSUME Overlap = FALSE
    PROVE  Solo /\ [Next]_vars => Solo'
<1> SUFFICES ASSUME Solo, [Next]_vars PROVE Solo'
  OBVIOUS
<1>0. /\ TypeInv' /\ CommandInv'
      /\ pc \in [Proc -> Label] /\ loc \in [Proc -> Locals]
  BY NextType, CommandStep DEF Solo, TypeInv, TypeOK
<1>1. CASE Issue
  <2>1. PICK p \in Proc, label \in {"fetch", "apply"}, c \in Call :
          Begin(p, c, label) /\ (c.op = "refresh_models" => c.base = endpoint)
    BY <1>1, IssueBegins DEF Solo
  <2>2. /\ \A q \in Proc \ {p} : pc'[q] = "idle"
        /\ pc'[p] = label /\ loc'[p].call = c /\ endpoint' = endpoint
    BY <2>1, BeginAlone DEF Solo, memory
  <2> QED BY <1>0, <2>1, <2>2 DEF Solo, OneActive, LocalsFresh, op
<1>2. ASSUME NEW p \in Proc, Answer(p) PROVE Solo'
  <2>1. \A q \in Proc \ {p} : pc[q] = "idle" /\ pc'[q] = "idle"
    BY <1>2, StepAlone DEF Solo
  <2>2. CASE ProbeAnswered(p)
    <3>1. /\ pc'[p] = "swap" /\ loc'[p].call = loc[p].call /\ ui_state' = ui_state
          /\ loc'[p].restored = ui_state[loc[p].call.base].selected
          /\ op(p) = "set_endpoint"
      BY <1>0, <2>2 DEF ProbeAnswered, Goto, Locals, disk
    <3> QED BY <1>0, <2>1, <3>1 DEF Solo, OneActive, LocalsFresh, op
  <2>3. CASE FetchAnswered(p)
    <3>1. /\ pc'[p] = "restore" /\ loc'[p].call = loc[p].call
          /\ loc'[p].fetched \in Offers[loc[p].call.base]
          /\ loc'[p].key = endpoint /\ endpoint' = endpoint
      BY <1>0, <2>3 DEF FetchAnswered, Goto, Locals, memory
    <3>2. loc[p].call.base = endpoint
      BY <2>3 DEF FetchAnswered, Solo, LocalsFresh
    <3> QED BY <1>0, <2>1, <3>1, <3>2 DEF Solo, OneActive, LocalsFresh, op
  <2>4. CASE FetchFailed(p)
    <3>1. pc'[p] = "idle"
      BY <1>0, <2>4 DEF FetchFailed, Return, Goto
    <3> QED BY <1>0, <2>1, <3>1 DEF Solo, OneActive, LocalsFresh
  <2> QED BY <1>2, <2>2, <2>3, <2>4 DEF Answer
<1>3. ASSUME NEW p \in Proc, Step(p) PROVE Solo'
  <2>1. /\ \A q \in Proc \ {p} : pc[q] = "idle" /\ pc'[q] = "idle"
        /\ pc'[p] = "idle" \/ loc'[p].call = loc[p].call
    BY <1>3, StepAlone DEF Solo
  <2>2. /\ pc[p] \in RefreshLabel => op(p) = "refresh_models"
        /\ pc[p] \in {"swap", "snapshot"} => pc[p] \in FetchLabel
    BY OpAtLabel DEF Solo, FetchLabel
  <2> SUFFICES LocalsFresh'
    BY <1>0, <2>1 DEF Solo, OneActive
  <2> SUFFICES ASSUME pc'[p] # "idle"
               PROVE  LET l == loc'[p] IN
                 /\ op(p) = "refresh_models" => l.call.base = endpoint'
                 /\ pc'[p] \in {"restore", "select", "models"} =>
                      l.fetched \in Offers[l.call.base]
                 /\ pc'[p] = "prune" => l.fetched = models'
                 /\ pc'[p] = "swap" => l.restored = ui_state'[l.call.base].selected
                 /\ pc'[p] = "select" => l.restored = ui_state'[endpoint'].selected
                 /\ pc'[p] \in {"save_config", "restore", "reload_file",
                                "reload_visible", "reload_tokens", "reload_slots",
                                "load", "save"} => l.key = endpoint'
                 /\ pc'[p] \in {"reload_visible", "reload_tokens", "reload_slots"} =>
                      l.file = ui_state'
    BY <2>1 DEF LocalsFresh, op
  <2> USE <1>0, <2>1, <2>2
  <2> USE DEF Solo, LocalsFresh, RefreshLabel, Goto, Locals, memory, disk
  <2>3. CASE Swap(p)
    BY <2>3 DEF Swap, op
  <2>4. CASE SnapshotConfig(p) \/ SaveConfig(p)
    BY <2>4 DEF SnapshotConfig, SaveConfig
  <2>5. CASE ReadPersisted(p)
    <3>1. /\ pc'[p] = "select" /\ endpoint' = endpoint /\ ui_state' = ui_state
          /\ loc'[p].fetched = loc[p].fetched /\ loc'[p].call = loc[p].call
          /\ loc'[p].restored = ui_state[endpoint].selected
      BY <2>5 DEF ReadPersisted
    <3> QED BY <2>5, <3>1 DEF ReadPersisted, op
  <2>12. CASE KeepSelection(p) \/ ReplaceModels(p)
    BY <2>12 DEF KeepSelection, ReplaceModels, op
  <2>6. CASE ReloadKey(p) \/ ReloadFile(p)
    BY <2>6 DEF ReloadKey, ReloadFile
  <2>7. CASE ReloadVisible(p) \/ ReloadTokens(p) \/ ReloadSlots(p)
    BY <2>7 DEF ReloadVisible, ReloadTokens, ReloadSlots, Return
  <2>8. CASE ReadCatalog(p) \/ PruneSlots(p)
    BY <2>8 DEF ReadCatalog, PruneSlots, Return
  <2>9. CASE Apply(p) \/ LockUiIo(p)
    BY <2>9 DEF Apply, LockUiIo
  <2>10. CASE LoadAndEdit(p)
    BY <2>10 DEF LoadAndEdit
  <2>11. CASE SaveUiState(p)
    BY <2>11 DEF SaveUiState, Return
  <2> QED
    BY <1>3, <2>3, <2>4, <2>5, <2>6, <2>7, <2>8, <2>9, <2>10, <2>11,
       <2>12 DEF Step
<1>4. CASE Restart
  BY <1>0, <1>4 DEF Restart, Solo, OneActive, LocalsFresh
<1>5. CASE UNCHANGED vars \/ Quiet
  BY <1>0, <1>5 DEF vars, memory, disk, Quiet, Solo, OneActive, LocalsFresh, op
<1> QED BY <1>1, <1>2, <1>3, <1>4, <1>5 DEF Next, Progress

\* Init establishes it.
LEMMA SoloInit == Init => Solo
<1>1. Init => CommandInv
  BY DEF Init, CommandInv, RefreshLabel
<1> QED BY <1>1, InitType DEF Init, Solo, OneActive, LocalsFresh
-----------------------------------------------------------------------------
(* The selection and the catalog.                                          *)

\* A catalog an endpoint may answer with is a sequence of its models, not empty.
LEMMA OfferedCatalog ==
    ASSUME NEW e \in Endpoint, NEW c \in Offers[e]
    PROVE  c \in Seq(Model) /\ c # <<>> /\ Ids(c) \subseteq Offered(e)
BY ConstantAssumption DEF Offered

\* Every step of every command keeps SelectionInv.
LEMMA SelectionStep ==
    ASSUME Overlap = FALSE
    PROVE  Solo /\ SelectionInv /\ [Next]_vars => SelectionInv'
<1> SUFFICES ASSUME Solo, SelectionInv, [Next]_vars PROVE SelectionInv'
  OBVIOUS
<1>0. TypeInv /\ CommandInv /\ OneActive /\ LocalsFresh
      /\ pc \in [Proc -> Label] /\ loc \in [Proc -> Locals]
  BY DEF Solo, TypeInv, TypeOK
<1>1. CASE Issue
  <2>1. PICK p \in Proc, label \in {"fetch", "apply"}, c \in Call :
          Begin(p, c, label) /\ (c.op = "set_model" => c.model \in Ids(models))
    BY <1>0, <1>1, IssueBegins
  <2>2. /\ \A q \in Proc : pc[q] = "idle"
        /\ \A q \in Proc \ {p} : pc'[q] = "idle"
        /\ pc'[p] = label /\ loc'[p].call = c /\ UNCHANGED <<models, selected>>
    BY <1>0, <2>1, BeginAlone DEF memory
  <2> QED BY <2>1, <2>2 DEF SelectionInv, SelectionInCatalog, op
<1>2. ASSUME NEW p \in Proc, Answer(p) \/ Step(p) PROVE SelectionInv'
  <2>1. /\ pc[p] # "idle"
        /\ \A q \in Proc \ {p} : pc[q] = "idle" /\ pc'[q] = "idle"
    BY <1>0, <1>2, StepAlone
  <2>2. CASE Swap(p)
    <3>1. loc[p].fetched \in Seq(Model)
      BY <1>0 DEF Locals
    <3>2. SelectionInCatalog' /\ pc'[p] = "snapshot"
      BY <1>0, <2>2, <3>1, PickInCatalog DEF Swap, Goto, SelectionInCatalog, Ids
    <3> QED BY <2>1, <3>2 DEF SelectionInv
  <2>3. CASE KeepSelection(p)
    <3>1. /\ loc[p].call.base \in Endpoint
          /\ loc[p].fetched \in Offers[loc[p].call.base]
      BY <1>0, <2>3 DEF KeepSelection, LocalsFresh, TypeInv, CallOK, FetchLabel,
                        FetchCall
    <3>2. selected' \in Ids(loc[p].fetched)
      BY <2>3, <3>1, OfferedCatalog, PickInCatalog DEF KeepSelection
    <3>3. pc'[p] = "models" /\ loc'[p].fetched = loc[p].fetched
      BY <1>0, <2>3 DEF KeepSelection, Goto
    <3> QED BY <2>1, <3>2, <3>3 DEF SelectionInv
  <2>4. CASE ReplaceModels(p)
    <3>1. selected' \in Ids(models') /\ pc'[p] = "reload_key"
      BY <1>0, <2>4 DEF ReplaceModels, Goto, SelectionInv
    <3>2. models' # <<>>
      BY <3>1 DEF Ids
    <3> QED BY <2>1, <3>1, <3>2 DEF SelectionInv, SelectionInCatalog
  <2>5. CASE Apply(p)
    <3>1. op(p) = "set_model" => selected' \in Ids(models)
      BY <2>5 DEF Apply, SelectionInv, op
    <3>2. op(p) # "set_model" => selected' = selected
      BY <2>5 DEF Apply, op
    <3>3. models' = models /\ pc[p] = "apply" /\ pc'[p] = "persist"
      BY <1>0, <2>5 DEF Apply, Goto
    <3>4. selected' \in Ids(models) => models # <<>>
      BY DEF Ids
    <3> QED BY <2>1, <3>1, <3>2, <3>3, <3>4 DEF SelectionInv, SelectionInCatalog
  <2>6. ASSUME UNCHANGED <<models, selected>>, pc[p] # "models",
               pc'[p] \notin {"models", "apply"}
        PROVE  SelectionInv'
    BY <2>1, <2>6 DEF SelectionInv, SelectionInCatalog
  <2>7. CASE Answer(p)
    BY <1>0, <2>6, <2>7
    DEF Answer, ProbeAnswered, FetchAnswered, FetchFailed, Return, Goto, memory
  <2>8. CASE SnapshotConfig(p) \/ SaveConfig(p) \/ ReadPersisted(p)
             \/ ReloadKey(p) \/ ReloadFile(p)
    BY <1>0, <2>6, <2>8
    DEF SnapshotConfig, SaveConfig, ReadPersisted, ReloadKey, ReloadFile, Goto,
        memory
  <2>9. CASE ReloadVisible(p) \/ ReloadTokens(p) \/ ReloadSlots(p)
             \/ ReadCatalog(p) \/ PruneSlots(p)
    BY <1>0, <2>6, <2>9
    DEF ReloadVisible, ReloadTokens, ReloadSlots, ReadCatalog, PruneSlots, Return,
        Goto, memory
  <2>10. CASE LockUiIo(p) \/ LoadAndEdit(p) \/ SaveUiState(p)
    BY <1>0, <2>6, <2>10 DEF LockUiIo, LoadAndEdit, SaveUiState, Return, Goto, memory
  <2> QED
    BY <1>2, <2>2, <2>3, <2>4, <2>5, <2>7, <2>8, <2>9, <2>10 DEF Step
<1>3. CASE Restart
  BY <1>3 DEF Restart, SelectionInv, SelectionInCatalog
<1>4. CASE UNCHANGED vars \/ Quiet
  BY <1>4 DEF vars, memory, Quiet, SelectionInv, SelectionInCatalog, op
<1> QED BY <1>1, <1>2, <1>3, <1>4 DEF Next, Progress

\* The selection follows the catalog.
LEMMA SelectionHolds ==
    ASSUME Overlap = FALSE
    PROVE  Spec => [](Solo /\ SelectionInv)
<1>1. Init => SelectionInv
  BY DEF Init, SelectionInv, SelectionInCatalog
<1>2. Solo /\ [Next]_vars => Solo'
  BY SoloStep
<1>3. Solo /\ SelectionInv /\ [Next]_vars => SelectionInv'
  BY SelectionStep
<1> QED BY <1>1, <1>2, <1>3, SoloInit, PTL DEF Spec

\* Between commands the selection is in the catalog, or both are empty:
\* set_models replaces the one before the other, but nobody looks between.
THEOREM SelectionSettles ==
    ASSUME Overlap = FALSE
    PROVE  Spec => []SettledSelection
<1>1. SelectionInv => SettledSelection
  BY DEF SelectionInv, SettledSelection, Idle
<1> QED BY <1>1, SelectionHolds, PTL
-----------------------------------------------------------------------------
(* What is stored for an endpoint.                                         *)

\* Begins, and every step, keep what is stored for an endpoint to its models.
LEMMA OwnStep ==
    ASSUME Overlap = FALSE
    PROVE  Solo /\ OwnInv /\ [Next]_vars => OwnInv'
<1> SUFFICES ASSUME Solo, OwnInv, [Next]_vars PROVE OwnInv'
  OBVIOUS
<1>0. TypeInv /\ CommandInv /\ OneActive /\ LocalsFresh
      /\ pc \in [Proc -> Label] /\ loc \in [Proc -> Locals]
      /\ endpoint \in Endpoint /\ ui_state \in UiFile
  BY DEF Solo, TypeInv, TypeOK
<1> USE DEF SlotsLag, PersistLabel, op
<1>1. CASE Issue
  <2>1. PICK p \in Proc, label \in {"fetch", "apply"}, c \in Call :
          /\ Begin(p, c, label)
          /\ c.op = "set_model" => c.model \in Ids(models)
          /\ c.op = "set_cc_slot" => c.model \in Ids(models) \cup {NoModel}
    BY <1>0, <1>1, IssueBegins
  <2>2. /\ \A q \in Proc : pc[q] = "idle"
        /\ \A q \in Proc \ {p} : pc'[q] = "idle"
        /\ pc'[p] = label /\ loc'[p].call = c
        /\ UNCHANGED <<endpoint, models, slots, ui_state>>
    BY <1>0, <2>1, BeginAlone DEF memory, disk
  <2> QED BY <2>1, <2>2 DEF OwnInv, StoredModelsAreOwn, Offered, op
<1>2. ASSUME NEW p \in Proc, Answer(p) \/ Step(p) PROVE OwnInv'
  <2>1. /\ pc[p] # "idle"
        /\ \A q \in Proc \ {p} : pc[q] = "idle" /\ pc'[q] = "idle"
        /\ pc'[p] = "idle" \/ loc'[p].call = loc[p].call
    BY <1>0, <1>2, StepAlone
  <2>2. /\ loc[p].fetched \in Seq(Model)
        /\ pc[p] \in FetchLabel => loc[p].call.base \in Endpoint
    BY <1>0 DEF Locals, TypeInv, CallOK, FetchCall
  \* A step that writes none of what OwnInv is about.
  <2>3. ASSUME UNCHANGED <<endpoint, models, slots, ui_state>>,
               pc'[p] # "save", pc'[p] # "apply",
               SlotsLag(p) => SlotsLag(p)',
               pc'[p] \in PersistLabel => pc[p] \in PersistLabel
        PROVE  OwnInv'
    BY <2>1, <2>3 DEF OwnInv, StoredModelsAreOwn, Offered, op
  <2>4. CASE Swap(p)
    <3>1. loc[p].fetched \in Offers[loc[p].call.base] \cup {<<>>}
          /\ loc[p].call.base \in Endpoint
      BY <1>0, <2>2, <2>4 DEF Swap, CommandInv, FetchLabel
    <3>2. /\ endpoint' = loc[p].call.base /\ models' = loc[p].fetched
          /\ ui_state' = ui_state /\ pc'[p] = "snapshot"
          /\ SlotsLag(p)'
      BY <1>0, <2>4 DEF Swap, Goto, disk, CommandInv
    <3>3. Ids(models') \subseteq Offered(endpoint')
      <4>1. CASE loc[p].fetched = <<>>
        BY <3>2, <4>1 DEF Ids
      <4>2. CASE loc[p].fetched \in Offers[loc[p].call.base]
        BY <3>1, <3>2, <4>2, OfferedCatalog
      <4> QED BY <3>1, <4>1, <4>2
    <3> QED BY <2>1, <3>2, <3>3 DEF OwnInv, StoredModelsAreOwn, Offered
  <2>5. CASE ReplaceModels(p)
    <3>1. /\ loc[p].fetched \in Offers[loc[p].call.base]
          /\ op(p) = "refresh_models" /\ loc[p].call.base = endpoint
      BY <1>0, <2>5 DEF ReplaceModels, LocalsFresh, CommandInv, RefreshLabel
    <3>2. /\ models' = loc[p].fetched /\ pc'[p] = "reload_key"
          /\ pc[p] = "models" /\ UNCHANGED <<endpoint, slots, ui_state>>
      BY <1>0, <2>5 DEF ReplaceModels, Goto, disk
    <3>3. Ids(models') \subseteq Offered(endpoint')
      BY <1>0, <3>1, <3>2, OfferedCatalog
    <3>4. SlotModels(slots') \subseteq Offered(endpoint')
      BY <2>1, <3>2 DEF OwnInv, Offered
    <3> QED BY <2>1, <3>2, <3>3, <3>4 DEF OwnInv, StoredModelsAreOwn, Offered
  <2>6. CASE ReloadSlots(p)
    <3>1. /\ slots' = ui_state[endpoint].slots
          /\ UNCHANGED <<endpoint, models, ui_state>>
          /\ pc'[p] \in {"idle", "catalog"}
      BY <1>0, <2>6 DEF ReloadSlots, LocalsFresh, Goto, Return, disk
    <3>2. SlotModels(slots') \subseteq Offered(endpoint')
      BY <1>0, <3>1 DEF OwnInv, StoredModelsAreOwn, SlotModels, Offered
    <3> QED BY <2>1, <3>1, <3>2 DEF OwnInv, StoredModelsAreOwn, Offered
  <2>7. CASE PruneSlots(p)
    <3>1. /\ slots' = PruneToCatalog(slots, Ids(loc[p].fetched))
          /\ UNCHANGED <<endpoint, models, ui_state>> /\ pc[p] = "prune"
          /\ pc'[p] \in {"idle", "persist"}
      BY <1>0, <2>7 DEF PruneSlots, Goto, Return, disk
    <3>2. loc[p].fetched = models
      BY <1>0, <3>1 DEF LocalsFresh
    <3>3. SlotModels(slots') \subseteq Offered(endpoint')
      BY <1>0, <3>1, <3>2, PruneType DEF OwnInv, Offered, TypeInv, TypeOK
    <3>4. op(p) = "refresh_models"
      BY <1>0, <3>1 DEF CommandInv, RefreshLabel
    <3> QED BY <2>1, <3>1, <3>3, <3>4 DEF OwnInv, StoredModelsAreOwn, Offered, op
  <2>8. CASE Apply(p)
    <3>1. /\ UNCHANGED <<endpoint, models, ui_state>>
          /\ pc[p] = "apply" /\ pc'[p] = "persist" /\ loc' = loc
      BY <1>0, <2>8 DEF Apply, Goto, disk
    <3>2. SlotModels(slots') \subseteq Offered(endpoint)
      <4>1. SlotModels(slots) \subseteq Offered(endpoint)
        BY <2>1, <3>1 DEF OwnInv
      <4>2. CASE op(p) = "set_cc_slot"
        <5>1. /\ slots' = SetSlot(slots, loc[p].call.slot, loc[p].call.model,
                                  loc[p].call.inherit)
              /\ loc[p].call.model \in Offered(endpoint) \cup {NoModel}
              /\ slots \in CcSlots
          BY <1>0, <2>8, <3>1, <4>2 DEF Apply, op, OwnInv, TypeInv, TypeOK
        <5>2. \A s \in Slot : slots'.model[s] \in
                {slots.model[s], loc[p].call.model, NoModel}
          BY <5>1 DEF SetSlot, CcSlots
        <5> QED BY <4>1, <5>1, <5>2 DEF SlotModels
      <4>3. CASE op(p) # "set_cc_slot"
        BY <2>8, <4>1, <4>3 DEF Apply, op
      <4> QED BY <4>2, <4>3
    <3> QED BY <2>1, <3>1, <3>2 DEF OwnInv, StoredModelsAreOwn, Offered, op
  <2>9. CASE LoadAndEdit(p)
    <3> DEFINE edit == Edited(ui_state[endpoint], loc[p].call)
    <3>1. /\ loc'[p].file = [ui_state EXCEPT ![endpoint] = edit]
          /\ UNCHANGED <<endpoint, models, slots, ui_state>>
          /\ pc[p] = "load" /\ pc'[p] = "save"
      BY <1>0, <2>9 DEF LoadAndEdit, LocalsFresh, Locals, Goto, memory, disk
    <3>2. /\ SlotModels(slots) \subseteq Offered(endpoint)
          /\ op(p) = "set_model" => loc[p].call.model \in Offered(endpoint)
          /\ Own(ui_state[endpoint], endpoint)
          /\ ui_state[endpoint] \in Preferences
      BY <1>0, <2>1, <3>1 DEF OwnInv, StoredModelsAreOwn, Own, UiFile
    <3>3. Own(edit, endpoint)
      <4> HIDE <1>0
      <4> QED BY <3>2 DEF Edited, Own, Preferences, op, SlotModels
    <3>4. \A e \in Endpoint : Own(loc'[p].file[e], e)
      <4> HIDE DEF edit
      <4> QED BY <1>0, <3>1, <3>3 DEF UiFile, OwnInv, StoredModelsAreOwn, Own
    <3> QED BY <2>1, <3>1, <3>4 DEF OwnInv, StoredModelsAreOwn, Offered, Own, op
  <2>10. CASE SaveUiState(p)
    <3>1. /\ pc[p] = "save" /\ pc'[p] = "idle"
          /\ ui_state' \in {ui_state, loc[p].file}
          /\ UNCHANGED <<endpoint, models, slots>>
      BY <1>0, <2>10 DEF SaveUiState, Return, Goto, memory
    <3>2. StoredModelsAreOwn'
      BY <3>1 DEF OwnInv, StoredModelsAreOwn, Own, Offered
    <3> QED BY <2>1, <3>1, <3>2 DEF OwnInv, Offered
  <2>11. CASE Answer(p)
    BY <1>0, <2>3, <2>11 DEF Answer, ProbeAnswered, FetchAnswered, FetchFailed,
       Return, Goto, memory, disk
  <2>12. CASE SnapshotConfig(p) \/ SaveConfig(p) \/ ReloadKey(p) \/ ReloadFile(p)
    BY <1>0, <2>1, <2>3, <2>12 DEF SnapshotConfig, SaveConfig, ReloadKey,
       ReloadFile, Goto, memory, disk
  <2>13. CASE ReadPersisted(p) \/ KeepSelection(p)
    BY <1>0, <2>3, <2>13 DEF ReadPersisted, KeepSelection, Goto, memory, disk
  <2>14. CASE ReloadVisible(p) \/ ReloadTokens(p) \/ ReadCatalog(p) \/ LockUiIo(p)
    BY <1>0, <2>3, <2>14 DEF ReloadVisible, ReloadTokens, ReadCatalog, LockUiIo,
       Goto, memory, disk
  <2> QED
    BY <1>2, <2>4, <2>5, <2>6, <2>7, <2>8, <2>9, <2>10, <2>11, <2>12, <2>13,
       <2>14 DEF Step
<1>3. CASE Restart
  <2>1. /\ ui_state' = ui_state /\ config_json \in Endpoint
        /\ endpoint' = config_json /\ slots' = ui_state[config_json].slots
        /\ models' = <<>> /\ \A q \in Proc : pc'[q] = "idle"
    BY <1>0, <1>3 DEF Restart, disk, TypeInv, TypeOK
  <2>2. Ids(models') = {}
    BY <2>1 DEF Ids
  <2>3. SlotModels(slots') \subseteq Offered(endpoint')
    BY <2>1 DEF OwnInv, StoredModelsAreOwn, SlotModels, Offered
  <2>4. \A q \in Proc : pc'[q] \notin PersistLabel \cup {"apply"}
    BY <2>1
  <2> QED BY <2>1, <2>2, <2>3, <2>4 DEF OwnInv, StoredModelsAreOwn, Offered
<1>4. CASE UNCHANGED vars \/ Quiet
  BY <1>4 DEF vars, memory, disk, Quiet, OwnInv, StoredModelsAreOwn, Offered, op
<1> QED BY <1>1, <1>2, <1>3, <1>4 DEF Next, Progress

\* Memory and files name models of their own endpoint only.
LEMMA OwnHolds ==
    ASSUME Overlap = FALSE
    PROVE  Spec => []OwnInv
<1>1. Init => OwnInv
  <2> SUFFICES ASSUME Init PROVE OwnInv
    OBVIOUS
  <2>1. SlotModels(EmptySlots) = {} /\ Ids(<<>>) = {}
    BY DEF EmptySlots, SlotModels, Ids
  <2>2. \A p \in Proc : pc[p] = "idle"
    BY DEF Init
  <2>3. \A p \in Proc : pc[p] \notin PersistLabel \cup {"apply"}
    BY <2>2 DEF PersistLabel
  <2>4. \A e \in Endpoint : /\ ui_state[e].slots = EmptySlots
                           /\ ui_state[e].selected = NoModel
    BY DEF Init, NoPreferences
  <2> QED
    BY <2>1, <2>2, <2>3, <2>4 DEF Init, OwnInv, StoredModelsAreOwn
<1>2. Solo /\ [Next]_vars => Solo'
  BY SoloStep
<1>3. Solo /\ OwnInv /\ [Next]_vars => OwnInv'
  BY OwnStep
<1> QED BY <1>1, <1>2, <1>3, SoloInit, PTL DEF Spec

\* What is stored for an endpoint names models of that endpoint only, through
\* failed saves and restarts.
THEOREM StoresItsOwn ==
    ASSUME Overlap = FALSE
    PROVE  Spec => []StoredModelsAreOwn
<1>1. OwnInv => StoredModelsAreOwn
  BY DEF OwnInv
<1> QED BY <1>1, OwnHolds, PTL

\* The selection is a model of the endpoint in every state of every command, also
\* while set_models has written it and not yet the catalog.
THEOREM SelectionIsOwn ==
    ASSUME Overlap = FALSE
    PROVE  Spec => []SelectionOfEndpoint
<1>1. Solo /\ SelectionInv /\ OwnInv => SelectionOfEndpoint
  <2> SUFFICES ASSUME Solo, SelectionInv, OwnInv, selected # NoModel
               PROVE  selected \in Offered(endpoint)
    BY DEF SelectionOfEndpoint
  <2>1. CASE \E p \in Proc : pc[p] = "models"
    <3>1. PICK p \in Proc : pc[p] = "models"
      BY <2>1
    <3>2. /\ op(p) = "refresh_models" /\ loc[p].call.base = endpoint
          /\ loc[p].fetched \in Offers[endpoint] /\ endpoint \in Endpoint
      BY <3>1 DEF Solo, CommandInv, RefreshLabel, LocalsFresh, TypeInv, TypeOK
    <3>3. selected \in Ids(loc[p].fetched)
      BY <3>1 DEF SelectionInv
    <3> QED BY <3>2, <3>3, OfferedCatalog
  <2>2. CASE \A p \in Proc : pc[p] # "models"
    BY <2>2 DEF SelectionInv, SelectionInCatalog, OwnInv
  <2> QED BY <2>1, <2>2
<1> QED BY <1>1, SelectionHolds, OwnHolds, PTL
-----------------------------------------------------------------------------
(* Memory and disk.                                                        *)

\* Every step keeps OnDiskInv, when saves do not fail.
LEMMA OnDiskStep ==
    ASSUME Overlap = FALSE, DiskMayFail = FALSE
    PROVE  Solo /\ OnDiskInv /\ [Next]_vars => OnDiskInv'
<1> SUFFICES ASSUME Solo, OnDiskInv, [Next]_vars PROVE OnDiskInv'
  OBVIOUS
<1>0. TypeInv /\ CommandInv /\ OneActive /\ LocalsFresh
      /\ pc \in [Proc -> Label] /\ loc \in [Proc -> Locals]
      /\ endpoint \in Endpoint /\ ui_state \in UiFile
  BY DEF Solo, TypeInv, TypeOK
<1> USE DEF ConfigBehind, VisibleBehind, TokensBehind, SlotsBehind, PersistLabel
<1>1. CASE Issue
  <2>1. PICK p \in Proc, label \in {"fetch", "apply"}, c \in Call : Begin(p, c, label)
    BY <1>0, <1>1, IssueBegins
  <2>2. /\ \A q \in Proc : pc[q] = "idle"
        /\ \A q \in Proc \ {p} : pc'[q] = "idle"
        /\ pc'[p] = label
        /\ UNCHANGED <<endpoint, visible, tokens, slots, ui_state, config_json>>
    BY <1>0, <2>1, BeginAlone DEF memory, disk
  <2> QED BY <2>1, <2>2 DEF OnDiskInv, OnDiskAt
<1>2. ASSUME NEW p \in Proc, Answer(p) \/ Step(p) PROVE OnDiskInv'
  <2>1. /\ pc[p] # "idle"
        /\ \A q \in Proc \ {p} : pc[q] = "idle" /\ pc'[q] = "idle"
        /\ pc'[p] = "idle" \/ loc'[p].call = loc[p].call
    BY <1>0, <1>2, StepAlone
  <2>2. OnDiskAt(p)
    BY <2>1 DEF OnDiskInv
  <2>3. /\ pc[p] \in RefreshLabel => op(p) = "refresh_models"
        /\ pc[p] \in FetchLabel => op(p) \in {"set_endpoint", "refresh_models"}
        /\ pc[p] = "apply" => op(p) \notin {"set_endpoint", "refresh_models"}
    BY <1>0, OpAtLabel
  <2> SUFFICES OnDiskAt(p)'
    BY <2>1 DEF OnDiskInv, OnDiskAt
  <2>4. ASSUME UNCHANGED <<endpoint, visible, tokens, slots, ui_state, config_json>>,
               pc[p] \notin PersistLabel, pc'[p] \notin PersistLabel,
               pc[p] \in ConfigBehind => pc'[p] \in ConfigBehind,
               pc[p] \in VisibleBehind => pc'[p] \in VisibleBehind,
               pc[p] \in TokensBehind => pc'[p] \in TokensBehind,
               pc[p] \in SlotsBehind => pc'[p] \in SlotsBehind
        PROVE  OnDiskAt(p)'
    BY <2>2, <2>4 DEF OnDiskAt
  <2>5. CASE Swap(p)
    <3>1. pc'[p] = "snapshot"
      BY <1>0, <2>5 DEF Swap, Goto
    <3> QED BY <3>1 DEF OnDiskAt
  <2>6. CASE SaveConfig(p)
    <3>1. /\ pc[p] = "save_config" /\ pc'[p] = "reload_key"
          /\ config_json' = endpoint /\ endpoint' = endpoint
      BY <1>0, <2>6 DEF SaveConfig, LocalsFresh, Goto, memory
    <3> QED BY <3>1 DEF OnDiskAt
  <2>7. CASE ReloadVisible(p)
    <3>1. /\ pc[p] = "reload_visible" /\ pc'[p] = "reload_tokens"
          /\ visible' = ui_state[endpoint].visible
          /\ UNCHANGED <<endpoint, ui_state, config_json>>
      BY <1>0, <2>7 DEF ReloadVisible, LocalsFresh, Goto, disk
    <3> QED BY <2>2, <3>1 DEF OnDiskAt
  <2>8. CASE ReloadTokens(p)
    <3>1. /\ pc[p] = "reload_tokens" /\ pc'[p] = "reload_slots"
          /\ tokens' = ui_state[endpoint].tokens
          /\ UNCHANGED <<endpoint, visible, ui_state, config_json>>
      BY <1>0, <2>8 DEF ReloadTokens, LocalsFresh, Goto, disk
    <3> QED BY <2>2, <3>1 DEF OnDiskAt
  <2>9. CASE ReloadSlots(p)
    <3>1. /\ pc[p] = "reload_slots" /\ pc'[p] \in {"idle", "catalog"}
          /\ slots' = ui_state[endpoint].slots
          /\ UNCHANGED <<endpoint, visible, tokens, ui_state, config_json>>
      BY <1>0, <2>9 DEF ReloadSlots, LocalsFresh, Return, Goto, disk
    <3> QED BY <2>2, <3>1 DEF OnDiskAt
  <2>10. CASE PruneSlots(p)
    <3>1. /\ pc[p] = "prune" /\ pc'[p] \in {"idle", "persist"}
          /\ pc'[p] = "idle" => slots' = slots
          /\ slots' = PruneToCatalog(slots, Ids(models)) /\ slots \in CcSlots
          /\ UNCHANGED <<endpoint, models, visible, tokens, ui_state, config_json>>
      BY <1>0, <2>10 DEF PruneSlots, LocalsFresh, Return, Goto, disk, TypeInv, TypeOK
    <3>2. SlotModels(slots') \subseteq Ids(models')
      BY <3>1, PruneType
    <3>3. op(p) = "refresh_models"
      BY <2>3, <3>1 DEF RefreshLabel
    <3> QED BY <2>1, <2>2, <3>1, <3>2, <3>3 DEF OnDiskAt, op
  <2>11. CASE Apply(p)
    <3>1. /\ pc[p] = "apply" /\ pc'[p] = "persist" /\ loc' = loc
          /\ UNCHANGED <<endpoint, ui_state, config_json>>
      BY <1>0, <2>11 DEF Apply, Goto, disk
    <3>2. /\ op(p) = "set_visible_models" \/ visible' = visible
          /\ op(p) = "set_token_limits" \/ tokens' = tokens
          /\ op(p) = "set_cc_slot" \/ slots' = slots
          /\ op(p) = "set_visible_models" => visible' = loc[p].call.visible
          /\ op(p) = "set_token_limits" => tokens' = loc[p].call.tokens
      BY <2>11 DEF Apply, op
    <3> QED BY <2>2, <2>3, <3>1, <3>2 DEF OnDiskAt, op
  <2>12. CASE LockUiIo(p)
    <3>1. /\ pc[p] = "persist" /\ pc'[p] = "load" /\ loc'[p].call = loc[p].call
          /\ UNCHANGED <<memory, disk>>
      BY <1>0, <2>12 DEF LockUiIo, Goto, Locals
    <3> QED BY <2>2, <3>1 DEF OnDiskAt, op, memory, disk
  <2>13. CASE LoadAndEdit(p)
    <3> DEFINE entry == ui_state[endpoint]
               edit == Edited(entry, loc[p].call)
    <3>1. /\ pc[p] = "load" /\ pc'[p] = "save" /\ loc'[p].call = loc[p].call
          /\ loc'[p].file[endpoint] = edit
          /\ UNCHANGED <<memory, disk>> /\ entry \in Preferences
      <4>1. loc'[p].file = [ui_state EXCEPT ![endpoint] = edit]
        BY <1>0, <2>13 DEF LoadAndEdit, LocalsFresh, Locals
      <4> HIDE DEF edit
      <4> QED BY <1>0, <2>13, <4>1 DEF LoadAndEdit, Goto, Locals, UiFile
    <3>2. /\ edit.visible = IF op(p) = "set_visible_models"
                            THEN loc[p].call.visible ELSE entry.visible
          /\ edit.tokens = IF op(p) = "set_token_limits"
                           THEN loc[p].call.tokens ELSE entry.tokens
      <4> HIDE DEF entry
      <4> QED BY <3>1 DEF Edited, Preferences, op
    <3>3. edit.slots = IF op(p) \in {"set_model", "set_visible_models",
                                     "set_token_limits"}
                       THEN entry.slots ELSE slots
      <4> HIDE DEF entry
      <4> QED BY <3>1 DEF Edited, Preferences, op
    <3>4. op(p) \in {"set_endpoint", "refresh_models", "set_model", "set_cc_slot",
                     "set_visible_models", "set_token_limits"}
      BY <1>0, <3>1 DEF TypeInv, CallOK, Call, FetchCall, SelectCall, SlotCall,
                        VisibleCall, TokenCall, op
    <3>5. edit.visible = visible /\ edit.tokens = tokens /\ edit.slots = slots
      <4> HIDE DEF edit
      <4> QED BY <2>2, <3>1, <3>2, <3>3, <3>4 DEF OnDiskAt
    <3> HIDE DEF edit
    <3> QED BY <2>2, <3>1, <3>5 DEF OnDiskAt, op, memory, disk
  <2>14. CASE SaveUiState(p)
    <3>1. /\ pc[p] = "save" /\ pc'[p] = "idle"
          /\ ui_state' = loc[p].file
          /\ UNCHANGED <<memory, config_json>>
      BY <1>0, <2>14 DEF SaveUiState, Return, Goto
    <3> QED BY <2>2, <3>1 DEF OnDiskAt, memory
  <2>15. CASE Answer(p)
    BY <1>0, <2>4, <2>15 DEF Answer, ProbeAnswered, FetchAnswered, FetchFailed,
       Return, Goto, memory, disk
  <2>16. CASE SnapshotConfig(p) \/ ReadPersisted(p) \/ KeepSelection(p)
              \/ ReplaceModels(p)
    BY <1>0, <2>4, <2>16
    DEF SnapshotConfig, ReadPersisted, KeepSelection, ReplaceModels, Goto, memory, disk
  <2>17. CASE ReloadKey(p) \/ ReloadFile(p) \/ ReadCatalog(p)
    BY <1>0, <2>4, <2>17 DEF ReloadKey, ReloadFile, ReadCatalog, Goto, memory, disk
  <2> QED
    BY <1>2, <2>5, <2>6, <2>7, <2>8, <2>9, <2>10, <2>11, <2>12, <2>13, <2>14,
       <2>15, <2>16, <2>17 DEF Step
<1>3. CASE Restart
  BY <1>3 DEF Restart, disk, OnDiskInv, OnDiskAt
<1>4. CASE UNCHANGED vars \/ Quiet
  BY <1>4 DEF vars, memory, disk, Quiet, OnDiskInv, OnDiskAt, op
<1> QED BY <1>1, <1>2, <1>3, <1>4 DEF Next, Progress

\* It says that memory and disk agree when every process is idle.
LEMMA OnDiskSettled == OnDiskInv => SettledOnDisk
<1>1. Main \in Proc
  BY DEF Proc
<1>2. OnDiskInv /\ Idle => OnDiskAt(Main) /\ pc[Main] = "idle"
  BY <1>1 DEF OnDiskInv, Idle
<1> QED
  BY <1>2 DEF SettledOnDisk, OnDiskAt, ConfigBehind, VisibleBehind, TokensBehind,
              SlotsBehind, PersistLabel

\* Init establishes it.
LEMMA OnDiskInit == Init => OnDiskInv
BY DEF Init, OnDiskInv, OnDiskAt, NoPreferences, PersistLabel

\* Between commands a restart would find all that memory holds: the endpoint
\* and its preferences are on disk.
THEOREM DiskSettles ==
    ASSUME Overlap = FALSE, DiskMayFail = FALSE
    PROVE  Spec => []SettledOnDisk
<1>1. Solo /\ [Next]_vars => Solo'
  BY SoloStep
<1>2. Solo /\ OnDiskInv /\ [Next]_vars => OnDiskInv'
  BY OnDiskStep
<1> QED BY <1>1, <1>2, OnDiskInit, OnDiskSettled, SoloInit, PTL DEF Spec

\* A refresh that ends with a catalog leaves no slot naming a model outside
\* it, in memory or on disk, so the launch gate is honest again.
THEOREM RefreshLeavesNoStale ==
    ASSUME Overlap = FALSE, DiskMayFail = FALSE
    PROVE  Spec => RefreshPrunes
<1>1. Solo /\ [Next]_vars => Solo'
  BY SoloStep
<1>2. Solo /\ OnDiskInv /\ [Next]_vars => OnDiskInv'
  BY OnDiskStep
<1>3. ASSUME Solo, OnDiskInv, OnDiskInv', [Next]_vars, NEW p \in Proc,
             pc[p] \in {"prune", "save"}, op(p) = "refresh_models",
             pc'[p] = "idle", crashes' = crashes
      PROVE  /\ SlotModels(slots') \subseteq Ids(models')
             /\ ui_state'[endpoint'].slots = slots'
  <2>0. pc \in [Proc -> Label] /\ loc \in [Proc -> Locals]
        /\ TypeInv /\ CommandInv /\ OneActive /\ LocalsFresh
    BY <1>3 DEF Solo, TypeInv, TypeOK
  <2>1. ~Issue /\ ~Restart /\ ~Quiet /\ ~UNCHANGED vars
    <3>1. ~Issue
      BY <1>3, <2>0, IssueBegins, BeginAlone
    <3>2. ~Restart
      BY <1>3, <2>0 DEF Restart, TypeInv, TypeOK
    <3> QED BY <1>3, <3>1, <3>2 DEF Quiet, vars
  <2>2. PICK q \in Proc : Answer(q) \/ Step(q)
    BY <1>3, <2>1 DEF Next, Progress
  <2>3. q = p /\ \A r \in Proc \ {p} : pc[r] = "idle" /\ pc'[r] = "idle"
    BY <1>3, <2>0, <2>2, StepAlone DEF OneActive
  <2>4. Step(p)
    BY <1>3, <2>2, <2>3 DEF Answer, ProbeAnswered, FetchAnswered, FetchFailed
  <2>5. OnDiskAt(p) /\ OnDiskAt(p)'
    BY <1>3, <2>3 DEF OnDiskInv
  <2>6. ui_state'[endpoint'].slots = slots'
    BY <1>3, <2>5 DEF OnDiskAt, ConfigBehind, VisibleBehind, TokensBehind,
       SlotsBehind, PersistLabel
  <2>7. CASE pc[p] = "save"
    <3>1. SlotModels(slots) \subseteq Ids(models)
      BY <1>3, <2>5, <2>7 DEF OnDiskAt, PersistLabel
    <3>2. SaveUiState(p)
      BY <2>4, <2>7 DEF Step, Swap, SnapshotConfig, SaveConfig, ReadPersisted,
         KeepSelection, ReplaceModels, ReloadKey, ReloadFile, ReloadVisible,
         ReloadTokens, ReloadSlots, ReadCatalog, PruneSlots, Apply, LockUiIo,
         LoadAndEdit
    <3> QED BY <2>6, <3>1, <3>2 DEF SaveUiState, memory
  <2>8. CASE pc[p] = "prune"
    <3>1. PruneSlots(p)
      BY <2>4, <2>8 DEF Step, Swap, SnapshotConfig, SaveConfig, ReadPersisted,
         KeepSelection, ReplaceModels, ReloadKey, ReloadFile, ReloadVisible,
         ReloadTokens, ReloadSlots, ReadCatalog, Apply, LockUiIo, LoadAndEdit,
         SaveUiState
    <3>2. /\ slots' = PruneToCatalog(slots, Ids(models)) /\ models' = models
          /\ slots \in CcSlots
      BY <2>0, <2>8, <3>1 DEF PruneSlots, LocalsFresh, TypeInv, TypeOK
    <3> QED BY <2>6, <3>2, PruneType
  <2> QED BY <1>3, <2>7, <2>8
<1>4. Solo /\ OnDiskInv /\ OnDiskInv' /\ [Next]_vars =>
        \A p \in Proc :
          (pc[p] \in {"prune", "save"} /\ op(p) = "refresh_models"
             /\ pc'[p] = "idle" /\ crashes' = crashes)
          => /\ SlotModels(slots') \subseteq Ids(models')
             /\ ui_state'[endpoint'].slots = slots'
  BY <1>3
<1> QED BY <1>1, <1>2, <1>4, OnDiskInit, SoloInit, PTL DEF Spec, RefreshPrunes

\* When a catalog arrives and nothing was selected, the model last chosen for
\* that endpoint becomes the selection again if the catalog has it.
THEOREM ChoiceIsRestored ==
    ASSUME Overlap = FALSE
    PROVE  Spec => ChoiceRestored
<1>1. Solo /\ [Next]_vars => Solo'
  BY SoloStep
<1>2. ASSUME Solo, [Next]_vars, NEW p \in Proc, pc[p] \in {"swap", "select"},
             selected = NoModel, selected' # NoModel,
             ui_state[endpoint'].selected \in Ids(loc[p].fetched)
      PROVE  selected' = ui_state[endpoint'].selected
  <2>0. pc \in [Proc -> Label] /\ loc \in [Proc -> Locals]
        /\ TypeInv /\ CommandInv /\ OneActive /\ LocalsFresh
    BY <1>2 DEF Solo, TypeInv, TypeOK
  <2>1. ~Issue /\ ~Restart /\ ~Quiet /\ ~UNCHANGED vars
    <3>1. ~Issue
      BY <1>2, <2>0, IssueBegins, BeginAlone
    <3> QED BY <1>2, <3>1 DEF Restart, Quiet, vars, memory
  <2>2. PICK q \in Proc : Answer(q) \/ Step(q)
    BY <1>2, <2>1 DEF Next, Progress
  <2>3. q = p
    BY <1>2, <2>0, <2>2, StepAlone
  <2>4. Swap(p) \/ KeepSelection(p)
    BY <1>2, <2>2, <2>3 DEF Answer, ProbeAnswered, FetchAnswered, FetchFailed, Step,
       SnapshotConfig, SaveConfig, ReadPersisted, ReplaceModels, ReloadKey,
       ReloadFile, ReloadVisible, ReloadTokens, ReloadSlots, ReadCatalog, PruneSlots,
       Apply, LockUiIo, LoadAndEdit, SaveUiState
  <2>5. /\ selected' = KeepOrPick(loc[p].fetched, loc[p].restored)
        /\ loc[p].restored = ui_state[endpoint'].selected
    BY <2>0, <2>4 DEF Swap, KeepSelection, LocalsFresh
  <2>6. NoModel \notin Ids(loc[p].fetched)
    BY <2>0, IdsType, SlotAssumption DEF Locals
  <2> QED BY <1>2, <2>5, <2>6 DEF KeepOrPick, PickSelection
<1>3. Solo /\ [Next]_vars =>
        \A p \in Proc :
          (pc[p] \in {"swap", "select"} /\ selected = NoModel
             /\ selected' # NoModel)
          => LET chosen == ui_state[endpoint'].selected IN
               chosen \in Ids(loc[p].fetched) => selected' = chosen
  BY <1>2
<1> QED BY <1>1, <1>3, SoloInit, PTL DEF Spec, ChoiceRestored
=============================================================================
