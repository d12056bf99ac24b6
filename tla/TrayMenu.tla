------------------------------ MODULE TrayMenu ------------------------------
(***************************************************************************)
(* The tray (src-tauri/src/tray.rs) and the launch of agents (commands.rs) *)
(* on top of the commands of AppState.                                     *)
(*                                                                         *)
(* A command that has changed the state goes on to rebuild the tray menu:  *)
(* it reads the state part by part, installs the menu and sets the icon.   *)
(* Until then the user sees, and can click, the menu installed before.  A  *)
(* click on a model or a slot is the command set_model or set_cc_slot of   *)
(* AppState, "Refresh models" is its refresh_models; a click on an agent   *)
(* launches a terminal.                                                    *)
(***************************************************************************)
EXTENDS AppState

CONSTANTS
    ApiOf,          \* the API of each endpoint, "none" for the unconfigured one
    ChatModel       \* the models of a catalog that are offered

Agent == {"copilot", "codex", "claude"}
AgentApi == [copilot |-> "chat", codex |-> "responses", claude |-> "messages"]
NoAgent == "none"

ASSUME TrayAssumption ==
    /\ ApiOf \in [Endpoint -> {"chat", "responses", "messages", "none"}]
    /\ ChatModel \subseteq Model

VARIABLES
    has_key,        \* whether an API key is in memory
    build,          \* build[p]: the menu p is building, and how far it is
    menu,           \* the installed menu
    icon,           \* whether the icon is the active one
    terminal,       \* the terminals opened: agent, environment, if still open
    watch           \* AgentWatch: the terminal launched last, 0 for none

tray == <<has_key, build, menu, icon, terminal, watch>>
trayVars == <<vars, tray>>
-----------------------------------------------------------------------------
(* The parts of the menu, from the state.                                  *)

Api == ApiOf[endpoint]

ChatIds == Ids(models) \cap ChatModel
VisibleIds == {m \in ChatIds : visible = Uncurated \/ m \in visible}

Status ==
    CASE Api = "messages" -> <<"slots", ConfiguredCount(slots)>>
      [] Api = "none" -> <<"unconfigured">>
      [] Api \in {"chat", "responses"} /\ ChatIds = {} -> <<"no_models">>
      [] OTHER -> <<"selected", selected>>

\* The entries that pick a model: <<submenu, model, checked>>.
ModelEntries ==
    IF Api = "messages"
    THEN {<<s, m, ModelFor(slots, s) = m>> : s \in Slot, m \in VisibleIds}
           \cup {<<Subagent, "inherit", slots.inherit>>}
    ELSE {<<"models", m, m = selected>> : m \in VisibleIds \cup ({selected} \ {NoModel})}

AgentSupported(agent) == AgentApi[agent] = Api
Launchable(agent) == agent = "claude" => IsComplete(slots)

AgentEntries == {agent \in Agent : AgentSupported(agent) /\ Launchable(agent)}

MenuNow == [status |-> Status, models |-> ModelEntries, agents |-> AgentEntries]
NoMenu == [status |-> <<>>, models |-> {}, agents |-> {}]
IsActive == has_key /\ selected # NoModel

\* What the terminal of an agent is started with: the token budget (an override,
\* filled in from the selected model) and the slots whose labels Claude Code sends.
EnvOf(agent) ==
    [budget |-> IF agent = "copilot" THEN {<<tokens, selected>>} ELSE {},
     labels |-> IF agent = "claude" THEN {s \in Slot : s = Subagent => ~slots.inherit}
                ELSE {}]

\* The command that the window shows, to be run by hand.
SnippetAgent == CASE Api = "responses" -> "codex"
                  [] Api = "messages" -> "claude"
                  [] OTHER -> "copilot"
ManualCommand == <<SnippetAgent, EnvOf(SnippetAgent)>>

RunningId == IF watch # 0 /\ terminal[watch].open THEN terminal[watch].agent ELSE NoAgent
-----------------------------------------------------------------------------
NotBuilding == [at |-> "no", menu |-> NoMenu]
Building(p) == build[p].at # "no"

\* No command is under way, the rebuilding of the menu included.
Settled == Idle /\ \A p \in Proc : ~Building(p)

\* Before the first catalog; a key may have been entered.
TrayInit ==
    /\ Init
    /\ has_key \in BOOLEAN
    /\ build = [p \in Proc |-> NotBuilding]
    /\ menu = MenuNow
    /\ icon = FALSE
    /\ terminal = <<>> /\ watch = 0

\* A command begins, under the rule of AppState for overlapping.
TrayIssue(begin) ==
    /\ Overlap \/ Settled
    /\ begin
    /\ \A p \in Proc : pc'[p] # pc[p] => ~Building(p)
    /\ UNCHANGED tray

TrayAnswer(p) == Answer(p) /\ UNCHANGED tray

\* Mutant: refresh_models does not rebuild the menu.
BuildAfterSome(p) == build' = [build EXCEPT ![p].at =
    IF pc'[p] = "idle" /\ op(p) \notin {"set_token_limits", "refresh_models"}
    THEN "status" ELSE @]

\* A command that is done calls apply_menu; set_token_limits does not.
BuildAfter(p) == build' = [build EXCEPT ![p].at =
    IF pc'[p] = "idle" /\ op(p) # "set_token_limits" THEN "status" ELSE @]

TrayStep(p) ==
    /\ Step(p)
    /\ BuildAfter(p)
    /\ UNCHANGED <<has_key, menu, icon, terminal, watch>>

\* set_api_key and forget_api_key.
SetKey(present) ==
    /\ pc[Main] = "idle" /\ ~Building(Main)
    /\ Overlap \/ Settled
    /\ "set_api_key" \in Commands
    /\ calls < MaxCalls /\ calls' = calls + 1
    /\ has_key' = present
    /\ build' = [build EXCEPT ![Main].at = "status"]
    /\ UNCHANGED <<memory, ui_io, disk, pc, loc, crashes, menu, icon, terminal, watch>>
-----------------------------------------------------------------------------
(* build_menu and apply_menu.                                              *)

Read(p, at, next, fields) ==
    /\ build[p].at = at
    /\ build' = [build EXCEPT ![p] = [at |-> next, menu |-> fields]]
    /\ UNCHANGED <<vars, has_key, menu, icon, terminal, watch>>

ReadStatus(p) ==
    Read(p, "status", "models", [build[p].menu EXCEPT !.status = Status])
ReadModels(p) ==
    Read(p, "models", "agents", [build[p].menu EXCEPT !.models = ModelEntries])
ReadAgents(p) ==
    Read(p, "agents", "install", [build[p].menu EXCEPT !.agents = AgentEntries])

InstallMenu(p) ==
    /\ build[p].at = "install"
    /\ menu' = build[p].menu
    /\ build' = [build EXCEPT ![p] = [at |-> "icon", menu |-> NoMenu]]
    /\ UNCHANGED <<vars, has_key, icon, terminal, watch>>

UpdateTrayIcon(p) ==
    /\ build[p].at = "icon"
    /\ icon' = IsActive
    /\ build' = [build EXCEPT ![p] = NotBuilding]
    /\ UNCHANGED <<vars, has_key, menu, terminal, watch>>

BuildStep(p) == \/ ReadStatus(p) \/ ReadModels(p) \/ ReadAgents(p)
                \/ InstallMenu(p) \/ UpdateTrayIcon(p)
-----------------------------------------------------------------------------
(* launch_agent, on the main thread: from the menu as it is installed, or  *)
(* from the window, where run_agent first asks if the endpoint serves the  *)
(* agent's API.                                                            *)

LaunchAgent(agent) ==
    /\ pc[Main] = "idle" /\ ~Building(Main)
    /\ Overlap \/ Settled
    /\ "run_agent" \in Commands
    /\ calls < MaxCalls /\ calls' = calls + 1
    /\ Launchable(agent)
    /\ terminal' = Append(terminal, [agent |-> agent, env |-> EnvOf(agent), open |-> TRUE])
    /\ watch' = Len(terminal')
    /\ UNCHANGED <<memory, ui_io, disk, pc, loc, crashes, has_key, build, menu, icon>>

ClickAgent == \E agent \in menu.agents : LaunchAgent(agent)

\* Mutant: the window's call does not ask.
RunAny(agent) == LaunchAgent(agent)
RunAgent(agent) == AgentSupported(agent) /\ LaunchAgent(agent)

\* Mutant: a closed terminal is forgotten, but not by AgentWatch.
ForgetTerminal ==
    /\ \E n \in DOMAIN terminal :
         terminal' = SelectSeq(terminal, LAMBDA t : t # terminal[n])
    /\ UNCHANGED <<vars, has_key, build, menu, icon, watch>>

\* The user closes a terminal.  That the slot of AgentWatch is emptied when
\* running_id finds it so is left out: a closed terminal stays closed.
CloseTerminal ==
    /\ \E n \in DOMAIN terminal :
         terminal[n].open /\ terminal' = [terminal EXCEPT ![n].open = FALSE]
    /\ UNCHANGED <<vars, has_key, build, menu, icon, watch>>

\* A new process has no key, watches no terminal, and build_tray builds its menu.
TrayRestart ==
    /\ Restart
    /\ has_key' = FALSE
    /\ build' = [p \in Proc |-> NotBuilding]
    /\ menu' = MenuNow'
    /\ icon' = FALSE
    /\ watch' = 0 /\ UNCHANGED terminal
-----------------------------------------------------------------------------
(* Properties.                                                             *)

\* Once no command is under way the installed menu and the icon are those of the
\* state: the models on offer, the one checked, the agents that may be launched.
\* It "always reflects current models" (build_tray) if commands do not overlap.
MenuCurrent == Settled => menu = MenuNow /\ icon = IsActive

\* An agent launched while no command is under way is one whose API the endpoint
\* serves, though the entry that was clicked dates from an earlier state, and
\* Claude Code gets no label that the proxy cannot resolve: "never point a CLI at
\* an endpoint that can't answer it" (README).
LaunchFits ==
    [][(Settled /\ Len(terminal') > Len(terminal)) =>
         LET new == terminal'[Len(terminal')] IN
           /\ AgentApi[new.agent] = Api
           /\ \A s \in new.env.labels : ModelFor(slots, s) # NoModel]_trayVars
=============================================================================
