------------------------------ MODULE AppState ------------------------------
(***************************************************************************)
(* The shared state of the app (proxy-core/src/state.rs) and the commands  *)
(* that change it (src-tauri/src/commands.rs, tray.rs).                    *)
(*                                                                         *)
(* Every field of AppState has a mutex of its own, so a command is a chain *)
(* of short critical sections, and commands interleave between them.  The  *)
(* synchronous commands and the tray's menu events run on the main thread, *)
(* one at a time: the process Main.  set_endpoint and refresh_models (from *)
(* the window or from the tray) are async tasks, of which any number may   *)
(* be under way: the processes Task.                                       *)
(*                                                                         *)
(* One step here is one access to shared state: one critical section of a  *)
(* state mutex, or one read or write of a file (AtomicFile shows when a    *)
(* write is atomic).  A step that touches only its caller's locals is part *)
(* of the access that follows it, and so is taking ui_io, after which only *)
(* its holder proceeds.                                                    *)
(*                                                                         *)
(* An endpoint stands for its preference key (endpoint_key): URLs that     *)
(* differ in the API suffix only are one endpoint.                         *)
(***************************************************************************)
EXTENDS ClaudeSlots, Sequences

CONSTANTS
    Endpoint,       \* endpoints, by their preference key
    Unconfigured,   \* the empty URL of a first run, whether in Endpoint or not
    Offers,         \* Offers[e]: the catalogs e's /models may answer with
    TokenOverride,  \* manual token budgets, NoOverride included
    NoOverride,     \* both fields absent
    Curation,       \* tray-visibility choices, Uncurated excluded
    Uncurated,      \* no choice saved: every chat model is shown
    Main,           \* the main thread
    Task,           \* async tasks
    NoProc,         \* ui_io is free
    NoCall,         \* a process that serves no command
    Commands,       \* the commands this instance issues
    Overlap,        \* whether a command may start while another is under way
    DiskMayFail,    \* whether a save may fail
    MaxCalls,       \* bound: commands issued
    MaxCrashes      \* bound: process deaths followed by a restart

Catalog == (UNION {Offers[e] : e \in Endpoint}) \cup {<<>>}

ASSUME ConstantAssumption ==
    /\ \A e \in Endpoint : \A c \in Offers[e] : c \in Seq(Model) /\ c # <<>>
    /\ Unconfigured \in Endpoint => Offers[Unconfigured] = {}
    /\ NoOverride \in TokenOverride
    /\ Uncurated \notin Curation
    /\ Main \notin Task
    /\ NoProc \notin Task \cup {Main}
    /\ Overlap \in BOOLEAN /\ DiskMayFail \in BOOLEAN
    /\ MaxCalls \in Nat /\ MaxCrashes \in Nat

Proc == Task \cup {Main}

\* Commands with their arguments.  `base` is the endpoint a fetch is sent to.
FetchCall == [op : {"set_endpoint", "refresh_models"}, base : Endpoint]
SelectCall == [op : {"set_model"}, model : Model]
SlotCall == [op : {"set_cc_slot"}, slot : Slot, model : Model \cup {NoModel},
             inherit : BOOLEAN]
VisibleCall == [op : {"set_visible_models"}, visible : Curation]
TokenCall == [op : {"set_token_limits"}, tokens : TokenOverride]
Call == FetchCall \cup SelectCall \cup SlotCall \cup VisibleCall \cup TokenCall

\* One endpoint's entry of ui_state.json; an absent entry reads as
\* NoPreferences, and a default value is stored by removing it.
Preferences == [selected : Model \cup {NoModel},
                visible : Curation \cup {Uncurated},
                tokens : TokenOverride,
                slots : CcSlots]
NoPreferences == [selected |-> NoModel, visible |-> Uncurated,
                  tokens |-> NoOverride, slots |-> EmptySlots]
UiFile == [Endpoint -> Preferences]

Label == {"idle", "fetch", "swap", "snapshot", "save_config", "restore",
          "select", "models", "reload_key", "reload_file", "reload_visible",
          "reload_tokens", "reload_slots", "catalog", "prune", "apply",
          "persist", "load", "save"}

VARIABLES
    endpoint,       \* config.endpoint_url, as its key
    models,         \* the catalog
    selected,       \* selected_model, NoModel for ""
    visible,        \* visible_models
    tokens,         \* token_override
    slots,          \* cc_slots
    ui_io,          \* the process that holds the ui_io mutex
    ui_state,       \* ui_state.json
    config_json,    \* the endpoint in config.json
    pc,             \* pc[p]: where process p is in its command
    loc,            \* loc[p]: the locals of p's command
    calls, crashes  \* how many so far

memory == <<endpoint, models, selected, visible, tokens, slots>>
disk == <<ui_state, config_json>>
counters == <<calls, crashes>>
vars == <<memory, ui_io, disk, pc, loc, counters>>

Ids(catalog) == {catalog[i] : i \in 1..Len(catalog)}

Locals == [call : Call \cup {NoCall},           \* the command
           fetched : Seq(Model),                \* a catalog read or fetched
           restored : Model \cup {NoModel},     \* a persisted selection
           key : Endpoint,                      \* an endpoint key read
           file : UiFile]                       \* a copy of ui_state.json

\* The locals of a process that serves no command.
NoLocals == [call |-> NoCall, fetched |-> <<>>, restored |-> NoModel,
             key |-> CHOOSE e \in Endpoint : TRUE,
             file |-> [e \in Endpoint |-> NoPreferences]]

op(p) == loc[p].call.op

Idle == \A p \in Proc : pc[p] = "idle"

Goto(p, label) == pc' = [pc EXCEPT ![p] = label]

Return(p) == Goto(p, "idle") /\ loc' = [loc EXCEPT ![p] = NoLocals]

Init ==
    /\ endpoint \in Endpoint
    /\ config_json = endpoint
    /\ models = <<>> /\ selected = NoModel
    /\ visible = Uncurated /\ tokens = NoOverride /\ slots = EmptySlots
    /\ ui_io = NoProc
    /\ ui_state = [e \in Endpoint |-> NoPreferences]
    /\ pc = [p \in Proc |-> "idle"]
    /\ loc = [p \in Proc |-> NoLocals]
    /\ calls = 0 /\ crashes = 0
-----------------------------------------------------------------------------
(* Commands begin.  What the user asks for is arbitrary; a command that is *)
(* refused (an unknown model) changes nothing and is left out.             *)

Begin(p, c, label) ==
    /\ pc[p] = "idle"
    /\ Overlap \/ Idle
    /\ calls < MaxCalls
    /\ c.op \in Commands
    /\ calls' = calls + 1
    /\ loc' = [loc EXCEPT ![p].call = c]
    /\ Goto(p, label)
    /\ UNCHANGED <<memory, ui_io, disk, crashes>>

SetEndpoint(p) ==
    \E e \in Endpoint \ {Unconfigured} :
        Begin(p, [op |-> "set_endpoint", base |-> e], "fetch")

RefreshModels(p) ==
    Begin(p, [op |-> "refresh_models", base |-> endpoint], "fetch")

SetModel(p) ==
    \E m \in Ids(models) : Begin(p, [op |-> "set_model", model |-> m], "apply")

SetCcSlot(p) ==
    \E s \in Slot, m \in Ids(models) \cup {NoModel}, i \in BOOLEAN :
        /\ i => s = Subagent /\ m = NoModel
        /\ Begin(p, [op |-> "set_cc_slot", slot |-> s, model |-> m,
                     inherit |-> i], "apply")

SetVisibleModels(p) ==
    \E v \in Curation :
        Begin(p, [op |-> "set_visible_models", visible |-> v], "apply")

SetTokenLimits(p) ==
    \E t \in TokenOverride :
        Begin(p, [op |-> "set_token_limits", tokens |-> t], "apply")
-----------------------------------------------------------------------------
(* The answer of /models.  A probe that fails, or is not sent for want of  *)
(* a key, gives set_endpoint an empty catalog and ends refresh_models.     *)

ProbeAnswered(p) ==
    /\ pc[p] = "fetch" /\ op(p) = "set_endpoint"
    /\ \E c \in Offers[loc[p].call.base] \cup {<<>>} :
         loc' = [loc EXCEPT ![p].fetched = c,
                            ![p].restored = ui_state[loc[p].call.base].selected]
    /\ Goto(p, "swap")
    /\ UNCHANGED <<memory, ui_io, disk, counters>>

FetchAnswered(p) ==
    /\ pc[p] = "fetch" /\ op(p) = "refresh_models"
    /\ \E c \in Offers[loc[p].call.base] :
         loc' = [loc EXCEPT ![p].fetched = c, ![p].key = endpoint]
    /\ Goto(p, "restore")
    /\ UNCHANGED <<memory, ui_io, disk, counters>>

FetchFailed(p) ==
    /\ pc[p] = "fetch" /\ op(p) = "refresh_models"
    /\ Return(p)
    /\ UNCHANGED <<memory, ui_io, disk, counters>>
-----------------------------------------------------------------------------
(* AppState::swap_endpoint and persist_config.                             *)

\* Mutant: the persisted choice is forgotten.
PickFirst(catalog, persisted) == IF catalog = <<>> THEN NoModel ELSE Head(catalog)

PickSelection(catalog, persisted) ==
    IF persisted \in Ids(catalog) THEN persisted
    ELSE IF catalog = <<>> THEN NoModel ELSE Head(catalog)

\* Mutant: a selection is kept without looking for it in the new catalog.
KeepAnyway(catalog, persisted) ==
    IF selected # NoModel THEN selected ELSE PickSelection(catalog, persisted)

\* The selection after `catalog` replaces the models.
KeepOrPick(catalog, persisted) ==
    IF selected \in Ids(catalog) THEN selected
    ELSE PickSelection(catalog, persisted)

\* Mutant: a failed probe leaves the old catalog in place.
SwapKeepsModels(p) ==
    /\ pc[p] = "swap"
    /\ endpoint' = loc[p].call.base
    /\ selected' = KeepOrPick(loc[p].fetched, loc[p].restored)
    /\ models' = IF loc[p].fetched = <<>> THEN models ELSE loc[p].fetched
    /\ Goto(p, "snapshot")
    /\ UNCHANGED <<visible, tokens, slots, ui_io, disk, loc, counters>>

Swap(p) ==
    /\ pc[p] = "swap"
    /\ endpoint' = loc[p].call.base
    /\ selected' = KeepOrPick(loc[p].fetched, loc[p].restored)
    /\ models' = loc[p].fetched
    /\ Goto(p, "snapshot")
    /\ UNCHANGED <<visible, tokens, slots, ui_io, disk, loc, counters>>

SnapshotConfig(p) ==
    /\ pc[p] = "snapshot"
    /\ loc' = [loc EXCEPT ![p].key = endpoint]
    /\ Goto(p, "save_config")
    /\ UNCHANGED <<memory, ui_io, disk, counters>>

SaveConfig(p) ==
    /\ pc[p] = "save_config"
    /\ \/ config_json' = loc[p].key
       \/ DiskMayFail /\ config_json' = config_json
    /\ Goto(p, "reload_key")
    /\ UNCHANGED <<memory, ui_io, ui_state, loc, counters>>
-----------------------------------------------------------------------------
(* AppState::set_models, up to its call of reload_ui_for_endpoint.         *)

ReadPersisted(p) ==
    /\ pc[p] = "restore"
    /\ loc' = [loc EXCEPT ![p].restored = ui_state[loc[p].key].selected]
    /\ Goto(p, "select")
    /\ UNCHANGED <<memory, ui_io, disk, counters>>

KeepSelection(p) ==
    /\ pc[p] = "select"
    /\ selected' = KeepOrPick(loc[p].fetched, loc[p].restored)
    /\ Goto(p, "models")
    /\ UNCHANGED <<endpoint, models, visible, tokens, slots, ui_io, disk, loc,
                   counters>>

ReplaceModels(p) ==
    /\ pc[p] = "models"
    /\ models' = loc[p].fetched
    /\ Goto(p, "reload_key")
    /\ UNCHANGED <<endpoint, selected, visible, tokens, slots, ui_io, disk, loc,
                   counters>>
-----------------------------------------------------------------------------
(* AppState::reload_ui_for_endpoint, which does not take ui_io.            *)

ReloadKey(p) ==
    /\ pc[p] = "reload_key"
    /\ loc' = [loc EXCEPT ![p].key = endpoint]
    /\ Goto(p, "reload_file")
    /\ UNCHANGED <<memory, ui_io, disk, counters>>

ReloadFile(p) ==
    /\ pc[p] = "reload_file"
    /\ loc' = [loc EXCEPT ![p].file = ui_state]
    /\ Goto(p, "reload_visible")
    /\ UNCHANGED <<memory, ui_io, disk, counters>>

\* Mutant: a missing entry is read as an empty allow-list.
ReloadVisibleOrNone(p) ==
    /\ pc[p] = "reload_visible"
    /\ LET v == loc[p].file[loc[p].key].visible
       IN  visible' = IF v = Uncurated THEN {} ELSE v
    /\ Goto(p, "reload_tokens")
    /\ UNCHANGED <<endpoint, models, selected, tokens, slots, ui_io, disk, loc,
                   counters>>

ReloadVisible(p) ==
    /\ pc[p] = "reload_visible"
    /\ visible' = loc[p].file[loc[p].key].visible
    /\ Goto(p, "reload_tokens")
    /\ UNCHANGED <<endpoint, models, selected, tokens, slots, ui_io, disk, loc,
                   counters>>

ReloadTokens(p) ==
    /\ pc[p] = "reload_tokens"
    /\ tokens' = loc[p].file[loc[p].key].tokens
    /\ Goto(p, "reload_slots")
    /\ UNCHANGED <<endpoint, models, selected, visible, slots, ui_io, disk, loc,
                   counters>>

\* Mutant: the slots of the previous endpoint stay in memory.
ReloadSlotsNot(p) ==
    /\ pc[p] = "reload_slots"
    /\ IF op(p) = "set_endpoint"
       THEN Return(p)
       ELSE Goto(p, "catalog") /\ loc' = loc
    /\ UNCHANGED <<memory, ui_io, disk, counters>>

ReloadSlots(p) ==
    /\ pc[p] = "reload_slots"
    /\ slots' = loc[p].file[loc[p].key].slots
    /\ IF op(p) = "set_endpoint"
       THEN Return(p)
       ELSE Goto(p, "catalog") /\ loc' = loc
    /\ UNCHANGED <<endpoint, models, selected, visible, tokens, ui_io, disk,
                   counters>>
-----------------------------------------------------------------------------
(* AppState::set_models, after it: slots whose model vanished are emptied. *)

ReadCatalog(p) ==
    /\ pc[p] = "catalog"
    /\ loc' = [loc EXCEPT ![p].fetched = models]
    /\ Goto(p, "prune")
    /\ UNCHANGED <<memory, ui_io, disk, counters>>

\* Mutant: what was pruned is not persisted.
PruneInMemory(p) ==
    /\ pc[p] = "prune"
    /\ slots' = PruneToCatalog(slots, Ids(loc[p].fetched))
    /\ Return(p)
    /\ UNCHANGED <<endpoint, models, selected, visible, tokens, ui_io, disk,
                   counters>>

PruneSlots(p) ==
    /\ pc[p] = "prune"
    /\ slots' = PruneToCatalog(slots, Ids(loc[p].fetched))
    /\ IF slots' = slots
       THEN Return(p)
       ELSE Goto(p, "persist") /\ loc' = loc
    /\ UNCHANGED <<endpoint, models, selected, visible, tokens, ui_io, disk,
                   counters>>
-----------------------------------------------------------------------------
(* The four setters: memory first ...                                      *)

Apply(p) ==
    /\ pc[p] = "apply"
    /\ LET c == loc[p].call IN
         \/ /\ c.op = "set_model" /\ selected' = c.model
            /\ UNCHANGED <<visible, tokens, slots>>
         \/ /\ c.op = "set_cc_slot"
            /\ slots' = SetSlot(slots, c.slot, c.model, c.inherit)
            /\ UNCHANGED <<selected, visible, tokens>>
         \/ /\ c.op = "set_visible_models" /\ visible' = c.visible
            /\ UNCHANGED <<selected, tokens, slots>>
         \/ /\ c.op = "set_token_limits" /\ tokens' = c.tokens
            /\ UNCHANGED <<selected, visible, slots>>
    /\ Goto(p, "persist")
    /\ UNCHANGED <<endpoint, models, ui_io, disk, loc, counters>>

(* ... then load, edit and save ui_state.json under ui_io.                 *)

\* Mutant: ui_io is not taken.
LockNothing(p) ==
    /\ pc[p] = "persist"
    /\ loc' = [loc EXCEPT ![p].key = endpoint]
    /\ Goto(p, "load")
    /\ UNCHANGED <<memory, ui_io, disk, counters>>

LockUiIo(p) ==
    /\ pc[p] = "persist"
    /\ ui_io = NoProc
    /\ ui_io' = p
    /\ loc' = [loc EXCEPT ![p].key = endpoint]
    /\ Goto(p, "load")
    /\ UNCHANGED <<memory, disk, counters>>

\* The entry of the command's endpoint with the command's preference in it.
\* Slots are read from memory now; the other three are the arguments.
Edited(entry, c) ==
    CASE c.op = "set_model" -> [entry EXCEPT !.selected = c.model]
      [] c.op = "set_visible_models" -> [entry EXCEPT !.visible = c.visible]
      [] c.op = "set_token_limits" -> [entry EXCEPT !.tokens = c.tokens]
      [] OTHER -> [entry EXCEPT !.slots = slots]

\* Mutant: the copy that the command already has is edited.
EditCopy(p) ==
    /\ pc[p] = "load"
    /\ LET k == loc[p].key IN
         loc' = [loc EXCEPT ![p].file[k] = Edited(@, loc[p].call)]
    /\ Goto(p, "save")
    /\ UNCHANGED <<memory, ui_io, disk, counters>>

LoadAndEdit(p) ==
    /\ pc[p] = "load"
    /\ LET k == loc[p].key IN
         loc' = [loc EXCEPT ![p].file =
                   [ui_state EXCEPT ![k] = Edited(ui_state[k], loc[p].call)]]
    /\ Goto(p, "save")
    /\ UNCHANGED <<memory, ui_io, disk, counters>>

\* Mutant: ui_io is never released.
SaveAndHold(p) ==
    /\ pc[p] = "save"
    /\ \/ ui_state' = loc[p].file
       \/ DiskMayFail /\ ui_state' = ui_state
    /\ Return(p)
    /\ UNCHANGED <<memory, ui_io, config_json, counters>>

SaveUiState(p) ==
    /\ pc[p] = "save"
    /\ \/ ui_state' = loc[p].file
       \/ DiskMayFail /\ ui_state' = ui_state
    /\ ui_io' = NoProc
    /\ Return(p)
    /\ UNCHANGED <<memory, config_json, counters>>
-----------------------------------------------------------------------------
(* The process dies at any point and is started again: the catalog is      *)
(* empty until the first fetch, preferences come from disk                 *)
(* (AppState::load_ui_state).                                              *)
Restart ==
    /\ crashes < MaxCrashes
    /\ crashes' = crashes + 1
    /\ endpoint' = config_json
    /\ models' = <<>> /\ selected' = NoModel
    /\ visible' = ui_state[config_json].visible
    /\ tokens' = ui_state[config_json].tokens
    /\ slots' = ui_state[config_json].slots
    /\ ui_io' = NoProc
    /\ pc' = [p \in Proc |-> "idle"]
    /\ loc' = [p \in Proc |-> NoLocals]
    /\ UNCHANGED <<disk, calls>>

\* Nobody asks for anything any more.
Quiet == calls = MaxCalls /\ Idle /\ UNCHANGED vars

Issue ==
    \/ \E t \in Task : SetEndpoint(t) \/ RefreshModels(t)
    \/ SetModel(Main) \/ SetCcSlot(Main) \/ SetVisibleModels(Main)
    \/ SetTokenLimits(Main)

Answer(p) == ProbeAnswered(p) \/ FetchAnswered(p) \/ FetchFailed(p)

Step(p) ==
    \/ Swap(p) \/ SnapshotConfig(p) \/ SaveConfig(p)
    \/ ReadPersisted(p) \/ KeepSelection(p) \/ ReplaceModels(p)
    \/ ReloadKey(p) \/ ReloadFile(p)
    \/ ReloadVisible(p) \/ ReloadTokens(p) \/ ReloadSlots(p)
    \/ ReadCatalog(p) \/ PruneSlots(p)
    \/ Apply(p) \/ LockUiIo(p) \/ LoadAndEdit(p) \/ SaveUiState(p)

Progress == \/ Issue
            \/ \E p \in Proc : Answer(p) \/ Step(p)

Next == Progress \/ Restart \/ Quiet

Spec == Init /\ [][Next]_vars

\* A thread that is not waiting for the upstream runs on.  Nothing obliges
\* the user to act, the upstream to answer (the client has no timeout) or
\* the process to die.
Fairness == \A p \in Proc : WF_vars(Step(p))

FairSpec == Spec /\ Fairness
-----------------------------------------------------------------------------
TypeOK ==
    /\ endpoint \in Endpoint
    /\ models \in Seq(Model)
    /\ selected \in Model \cup {NoModel}
    /\ visible \in Curation \cup {Uncurated}
    /\ tokens \in TokenOverride
    /\ slots \in CcSlots
    /\ ui_io \in Proc \cup {NoProc}
    /\ ui_state \in UiFile
    /\ config_json \in Endpoint
    /\ pc \in [Proc -> Label]
    /\ loc \in [Proc -> Locals]
    /\ calls \in 0..MaxCalls /\ crashes \in 0..MaxCrashes
-----------------------------------------------------------------------------
(* Properties that hold however commands interleave.                       *)

\* A writer about to save ui_state.json has a copy that differs from the file
\* in nothing but its own preference of one endpoint: no writer puts back an
\* entry that another one has replaced meanwhile (what ui_io is for).
NoLostUpdate ==
    \A p \in Proc : pc[p] = "save" =>
        LET new == loc[p].file
            k == loc[p].key
        IN  /\ \A e \in Endpoint \ {k} : new[e] = ui_state[e]
            /\ op(p) # "set_model" => new[k].selected = ui_state[k].selected
            /\ op(p) # "set_visible_models" => new[k].visible = ui_state[k].visible
            /\ op(p) # "set_token_limits" => new[k].tokens = ui_state[k].tokens
            /\ op(p) \in {"set_model", "set_visible_models", "set_token_limits"}
                 => new[k].slots = ui_state[k].slots

\* ui_state.json behaves as a map written one preference at a time, through
\* every interleaving of its writers, failed saves and restarts.
Store == INSTANCE UiStore WITH Preferences <- Preferences, store <- ui_state

ImplementsStore == Store!Spec

\* A command that has its answer from upstream, or needs none, returns: the
\* waits for ui_io end.
CallsReturn ==
    \A p \in Proc : pc[p] \notin {"idle", "fetch"} ~> pc[p] = "idle"
-----------------------------------------------------------------------------
(* Properties of swaps alone: any number of concurrent set_endpoint calls, *)
(* no refresh and no selection by hand.                                    *)

Offered(e) == UNION {Ids(c) : c \in Offers[e]}

\* A request never reads the endpoint paired with a model of another one:
\* swap_endpoint replaces endpoint, catalog and selection together.
SelectionOfEndpoint == selected # NoModel => selected \in Offered(endpoint)

\* Nor with a model that the catalog on display lacks.
SelectionInCatalog ==
    IF models = <<>> THEN selected = NoModel ELSE selected \in Ids(models)

\* Swap by p has replaced the endpoint, and p has yet to load its slots.
SlotsLag(p) ==
    /\ pc[p] \in {"snapshot", "save_config", "reload_key", "reload_file",
                  "reload_visible", "reload_tokens", "reload_slots"}
    /\ op(p) = "set_endpoint"
-----------------------------------------------------------------------------
(* Properties of commands that do not overlap.                             *)

\* Between commands the selection is in the catalog, or both are empty.
SettledSelection == Idle => SelectionInCatalog

\* Between commands a restart would find all that memory holds: the endpoint
\* and its preferences are on disk.
SettledOnDisk ==
    Idle => /\ config_json = endpoint
            /\ ui_state[endpoint].visible = visible
            /\ ui_state[endpoint].tokens = tokens
            /\ ui_state[endpoint].slots = slots

\* What is stored for an endpoint names models of that endpoint only: "each
\* remembers its own" (ui_state.rs).
StoredModelsAreOwn ==
    \A e \in Endpoint :
        (SlotModels(ui_state[e].slots) \cup {ui_state[e].selected}) \ {NoModel}
            \subseteq Offered(e)

\* A refresh that ends with a catalog leaves no slot naming a model outside
\* it, in memory or on disk, so the launch gate is honest again.
RefreshPrunes ==
    [][\A p \in Proc :
         (pc[p] \in {"prune", "save"} /\ op(p) = "refresh_models"
            /\ pc'[p] = "idle" /\ crashes' = crashes)
         => /\ SlotModels(slots') \subseteq Ids(models')
            /\ ui_state'[endpoint'].slots = slots']_vars

\* When a catalog arrives and nothing was selected (after a restart, or after
\* a probe that failed), the model last chosen for that endpoint becomes the
\* selection again if the catalog has it.
ChoiceRestored ==
    [][\A p \in Proc :
         (pc[p] \in {"swap", "select"} /\ selected = NoModel
            /\ selected' # NoModel)
         => LET chosen == ui_state[endpoint'].selected IN
              chosen \in Ids(loc[p].fetched) => selected' = chosen]_vars
=============================================================================
