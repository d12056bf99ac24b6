---------------------------- MODULE WebviewProofs ----------------------------
(***************************************************************************)
(* What TLAPS proves of the desktop program: the window and the tray, on   *)
(* top of the commands of AppState.  Whatever the window does is a step of *)
(* the tray, and whatever the tray does is a step of AppState or leaves    *)
(* all of its state but the number of calls alone; so the invariants of    *)
(* AppState carry over, and what is left is to follow the menu through the *)
(* command that makes it stale and the rebuilding that follows.            *)
(***************************************************************************)
EXTENDS Webview, AppStateSequentialProofs

\* The steps of the tray, whoever takes them.
Issued ==
    /\ Issue
    /\ Overlap \/ Settled
    /\ \A p \in Proc : pc'[p] # pc[p] => ~Building(p)
    /\ UNCHANGED tray

Launched ==
    \E agent \in menu.agents \cup {one \in Agent : AgentSupported(one)} :
        LaunchAgent(agent)

TrayNext ==
    \/ Issued
    \/ \E p \in Proc : TrayAnswer(p) \/ TrayStep(p) \/ BuildStep(p)
    \/ \E present \in BOOLEAN : SetKey(present)
    \/ Launched \/ CloseTerminal \/ TrayRestart

\* A call that the tray serves by itself, as AppState sees it.
CallOnly ==
    /\ calls < MaxCalls /\ calls' = calls + 1
    /\ UNCHANGED <<memory, ui_io, disk, pc, loc, crashes>>
-----------------------------------------------------------------------------
BuildLabel == {"no", "status", "models", "agents", "install", "icon"}

\* A menu has its three parts, and offers agents.
IsMenu(m) ==
    /\ m = [status |-> m.status, models |-> m.models, agents |-> m.agents]
    /\ m.agents \subseteq Agent

Environment == [budget : SUBSET (TokenOverride \X (Model \cup {NoModel})),
                labels : SUBSET Slot]
Terminal == [agent : Agent, env : Environment, open : BOOLEAN]

BuildType ==
    /\ DOMAIN build = Proc
    /\ \A p \in Proc : /\ build[p] = [at |-> build[p].at, menu |-> build[p].menu]
                       /\ build[p].at \in BuildLabel
                       /\ IsMenu(build[p].menu)
                       /\ build[p].at = "no" => build[p].menu = NoMenu
    /\ IsMenu(menu)

TrayType ==
    /\ TypeInv /\ BuildType
    /\ has_key \in BOOLEAN /\ icon \in BOOLEAN
    /\ terminal \in Seq(Terminal)
    /\ watch \in 0..Len(terminal)

\* Who has a command under way, or the rebuilding that follows it.
Active(p) == pc[p] # "idle" \/ Building(p)
OneBusy == \A p, q \in Proc : Active(p) /\ Active(q) => p = q

\* How far p is from showing the state, when nobody else is active.  A command
\* that waits for its answer has changed nothing yet, and set_token_limits never
\* changes what a menu shows.
MenuAt(p) ==
    LET b == build[p] IN
    /\ pc[p] # "idle" => b = NotBuilding
    /\ b.at = "no" /\ (pc[p] \in {"idle", "fetch"} \/ op(p) = "set_token_limits") =>
         menu = MenuNow /\ icon = IsActive
    /\ b.at = "status" => b.menu = NoMenu
    /\ b.at = "models" => b.menu = [NoMenu EXCEPT !.status = Status]
    /\ b.at = "agents" => b.menu = [MenuNow EXCEPT !.agents = {}]
    /\ b.at = "install" => b.menu = MenuNow
    /\ b.at = "icon" => menu = MenuNow

MenuInv == \A p \in Proc : (\A q \in Proc \ {p} : ~Active(q)) => MenuAt(p)

DesktopInv == TrayType /\ Solo /\ OneBusy /\ MenuInv
-----------------------------------------------------------------------------
(* The window is a user of the tray, and the tray of AppState.             *)

\* Every step of the window is a step of the tray, or leaves it alone.
LEMMA WindowStepsAreTraySteps ==
    [WebNext]_webVars => TrayNext \/ UNCHANGED trayVars
<1> SUFFICES ASSUME [WebNext]_webVars PROVE TrayNext \/ UNCHANGED trayVars
  OBVIOUS
<1>1. CASE Window
  <2>1. ASSUME NEW t \in Task, AskQuietly(SetEndpoint(t), "adopt") PROVE Issued
    BY <2>1 DEF AskQuietly, Ask, TrayIssue, Issued, Issue
  <2>2. CASE PickModel \/ PickSlot \/ ApplyTokenLimits
    BY <2>2 DEF PickModel, PickSlot, ApplyTokenLimits, AskQuietly, Ask, TrayIssue,
       Issued, Issue, TrayNext
  <2>3. CASE DoRefresh
    BY <2>3 DEF DoRefresh, Ask, TrayIssue, Issued, Issue, TrayNext
  <2>4. CASE PersistVisible
    BY <2>4 DEF PersistVisible, TrayIssue, Issued, Issue, TrayNext
  <2>5. CASE SaveKey \/ ForgetKey
    BY <2>5 DEF SaveKey, ForgetKey, TrayNext
  <2>6. CASE WindowRun
    BY <2>6 DEF WindowRun, RunAgent, Launched, TrayNext
  <2> QED
    BY <1>1, <2>1, <2>2, <2>3, <2>4, <2>5, <2>6 DEF Window, ApplyEndpoint, TrayNext
<1>2. CASE TrayClick
  <2>1. CASE TrayPick \/ TrayPickSlot \/ TrayRefresh
    BY <2>1 DEF TrayPick, TrayPickSlot, TrayRefresh, TrayIssue, Issued, Issue, TrayNext
  <2>2. CASE ClickAgent
    BY <2>2 DEF ClickAgent, Launched, TrayNext
  <2> QED BY <1>2, <2>1, <2>2 DEF TrayClick
<1>3. CASE WindowStep
  BY <1>3 DEF WindowStep, Adopted, CatalogArrives, Corrected, KeySaved, TrayIssue,
     Issued, Issue, TrayNext
<1>4. CASE PollRead \/ PollAdopt \/ UNCHANGED webVars
  BY <1>4 DEF PollRead, PollAdopt, webVars
<1>5. CASE Close
  BY <1>5 DEF Close, TrayNext
<1>6. ASSUME NEW p \in Proc, UpstreamAnswer(p) \/ Run(p) PROVE TrayNext
  BY <1>6 DEF UpstreamAnswer, Run, TrayNext
<1>7. CASE WebRestart
  BY <1>7 DEF WebRestart, TrayNext
<1> QED BY <1>1, <1>2, <1>3, <1>4, <1>5, <1>6, <1>7 DEF WebNext

\* Every step of the tray is a step of AppState, or a call that leaves its state
\* alone.
LEMMA TrayStepsAreAppSteps ==
    TrayNext \/ UNCHANGED trayVars => [Next]_vars \/ CallOnly
<1>1. Issued => Next
  BY DEF Issued, Next, Progress
<1>2. ASSUME NEW p \in Proc, TrayAnswer(p) \/ TrayStep(p) PROVE Next
  BY <1>2 DEF TrayAnswer, TrayStep, Next, Progress
<1>3. ASSUME NEW p \in Proc, BuildStep(p) PROVE UNCHANGED vars
  BY <1>3 DEF BuildStep, ReadStatus, ReadModels, ReadAgents, Read, InstallMenu,
     UpdateTrayIcon
<1>4. ASSUME NEW present \in BOOLEAN, SetKey(present) PROVE CallOnly
  BY <1>4 DEF SetKey, CallOnly
<1>5. Launched => CallOnly
  BY DEF Launched, LaunchAgent, CallOnly
<1>6. CloseTerminal => UNCHANGED vars
  BY DEF CloseTerminal
<1>7. TrayRestart => Next
  BY DEF TrayRestart, Next
<1>8. UNCHANGED trayVars => UNCHANGED vars
  BY DEF trayVars
<1> QED
  BY <1>1, <1>2, <1>3, <1>4, <1>5, <1>6, <1>7, <1>8 DEF TrayNext

\* A call that leaves the state of AppState alone keeps what is known of it.
LEMMA CallOnlyKeeps ==
    CallOnly => (TypeInv => TypeInv') /\ (Solo => Solo')
<1> SUFFICES ASSUME CallOnly, TypeInv
             PROVE  TypeInv' /\ (Solo => Solo')
  BY DEF Solo
<1>1. calls' \in 0..MaxCalls
  BY ConstantAssumption DEF CallOnly, TypeInv, TypeOK
<1>2. TypeInv'
  BY <1>1 DEF CallOnly, TypeInv, TypeOK, CallOK, memory, disk
<1>3. Solo => CommandInv' /\ OneActive' /\ LocalsFresh'
  BY DEF CallOnly, Solo, CommandInv, OneActive, LocalsFresh, op, memory, disk
<1> QED BY <1>2, <1>3 DEF Solo
-----------------------------------------------------------------------------
(* Type correctness.                                                       *)

\* The menu of a state is a menu, and so is the empty one.
LEMMA MenuNowIsMenu ==
    /\ IsMenu(MenuNow) /\ IsMenu(NoMenu)
    /\ \A m, x : IsMenu(m) =>
         /\ IsMenu([m EXCEPT !.status = x])
         /\ IsMenu([m EXCEPT !.models = x])
         /\ IsMenu([m EXCEPT !.agents = AgentEntries])
<1>1. AgentEntries \subseteq Agent
  BY DEF AgentEntries
<1>2. IsMenu(MenuNow) /\ IsMenu(NoMenu)
  BY <1>1 DEF IsMenu, MenuNow, NoMenu
<1>3. ASSUME NEW m, NEW x, IsMenu(m)
      PROVE  /\ IsMenu([m EXCEPT !.status = x])
             /\ IsMenu([m EXCEPT !.models = x])
             /\ IsMenu([m EXCEPT !.agents = AgentEntries])
  <2>1. /\ DOMAIN m = {"status", "models", "agents"}
        /\ m.agents \subseteq Agent
    BY <1>3 DEF IsMenu
  <2> DEFINE m1 == [m EXCEPT !.status = x]
             m2 == [m EXCEPT !.models = x]
             m3 == [m EXCEPT !.agents = AgentEntries]
  <2>2. m1 = [status |-> x, models |-> m.models, agents |-> m.agents]
    BY <2>1
  <2>3. m2 = [status |-> m.status, models |-> x, agents |-> m.agents]
    BY <2>1
  <2>4. m3 = [status |-> m.status, models |-> m.models, agents |-> AgentEntries]
    BY <2>1
  <2> QED BY <1>1, <2>1, <2>2, <2>3, <2>4 DEF IsMenu
<1> QED BY <1>2, <1>3

\* What the environment of an agent is made of.
LEMMA EnvType ==
    ASSUME TypeInv, NEW agent \in Agent
    PROVE  EnvOf(agent) \in Environment
BY DEF TypeInv, TypeOK, EnvOf, Environment

\* One process gets another menu under construction.
LEMMA BuildingOne ==
    ASSUME BuildType, NEW p \in Proc, NEW at \in BuildLabel, NEW m, IsMenu(m),
           at = "no" => m = NoMenu,
           build' = [build EXCEPT ![p] = [at |-> at, menu |-> m]], IsMenu(menu')
    PROVE  BuildType'
<1>1. /\ DOMAIN build' = Proc
      /\ build'[p] = [at |-> at, menu |-> m]
      /\ \A q \in Proc \ {p} : build'[q] = build[q]
  BY DEF BuildType
<1> SUFFICES ASSUME NEW q \in Proc
             PROVE  /\ build'[q] = [at |-> build'[q].at, menu |-> build'[q].menu]
                    /\ build'[q].at \in BuildLabel
                    /\ IsMenu(build'[q].menu)
                    /\ build'[q].at = "no" => build'[q].menu = NoMenu
  BY <1>1 DEF BuildType, IsMenu
<1>2. CASE q = p
  BY <1>1, <1>2
<1>3. CASE q # p
  BY <1>1, <1>3 DEF BuildType
<1> QED BY <1>2, <1>3

\* Setting `at` alone sets the record.
LEMMA BuildAt ==
    ASSUME BuildType, NEW p \in Proc, NEW at,
           build' = [build EXCEPT ![p].at = at]
    PROVE  build' = [build EXCEPT ![p] = [at |-> at, menu |-> build[p].menu]]
<1>1. PICK a, m : build[p] = [at |-> a, menu |-> m]
  BY DEF BuildType
<1>2. [build[p] EXCEPT !.at = at] = [at |-> at, menu |-> build[p].menu]
  BY <1>1
<1> QED BY <1>2

\* Every step of the tray keeps its types.
LEMMA TrayStepType ==
    TrayType /\ (TrayNext \/ UNCHANGED trayVars) => TrayType'
<1> SUFFICES ASSUME TrayType, TrayNext \/ UNCHANGED trayVars PROVE TrayType'
  OBVIOUS
<1>0. /\ TypeInv /\ BuildType /\ TypeInv'
      /\ terminal \in Seq(Terminal) /\ has_key \in BOOLEAN /\ icon \in BOOLEAN
      /\ watch \in 0..Len(terminal) /\ IsMenu(menu) /\ Main \in Proc
  BY TrayStepsAreAppSteps, NextType, CallOnlyKeeps
  DEF TrayType, BuildType, Proc
<1> SUFFICES /\ BuildType' /\ has_key' \in BOOLEAN /\ icon' \in BOOLEAN
             /\ terminal' \in Seq(Terminal) /\ watch' \in 0..Len(terminal')
  BY <1>0 DEF TrayType
<1>1. CASE Issued \/ UNCHANGED trayVars
  BY <1>0, <1>1 DEF Issued, tray, trayVars, BuildType, IsMenu
<1>2. ASSUME NEW p \in Proc, TrayAnswer(p)
      PROVE  UNCHANGED tray
  BY <1>2 DEF TrayAnswer
<1>3. ASSUME NEW p \in Proc, TrayStep(p)
      PROVE  BuildType' /\ UNCHANGED <<has_key, icon, terminal, watch>>
  <2>1. PICK at \in BuildLabel : build' = [build EXCEPT ![p].at = at]
                                /\ (at = "no" => build[p].menu = NoMenu)
    BY <1>0, <1>3 DEF TrayStep, BuildAfter, BuildLabel, BuildType
  <2>2. IsMenu(build[p].menu) /\ IsMenu(menu')
    BY <1>0, <1>3 DEF BuildType, TrayStep
  <2>3. build' = [build EXCEPT ![p] = [at |-> at, menu |-> build[p].menu]]
    <3>1. BuildType /\ build' = [build EXCEPT ![p].at = at]
      BY <1>0, <2>1
    <3> QED BY <3>1, BuildAt
  <2>4. BuildType'
    <3>1. at = "no" => build[p].menu = NoMenu
      BY <2>1
    <3> QED BY <1>0, <2>2, <2>3, <3>1, BuildingOne
  <2> QED BY <1>3, <2>4 DEF TrayStep
<1>4. ASSUME NEW p \in Proc, BuildStep(p)
      PROVE  /\ BuildType' /\ icon' \in BOOLEAN
             /\ UNCHANGED <<has_key, terminal, watch>>
  <2>0. IsMenu(build[p].menu)
    BY <1>0 DEF BuildType
  <2>1. CASE ReadStatus(p) \/ ReadModels(p) \/ ReadAgents(p)
    <3>1. PICK next, m :
            /\ next \in BuildLabel \ {"no"} /\ IsMenu(m)
            /\ build' = [build EXCEPT ![p] = [at |-> next, menu |-> m]]
      BY <2>0, <2>1, MenuNowIsMenu
      DEF ReadStatus, ReadModels, ReadAgents, Read, BuildLabel
    <3>2. UNCHANGED <<has_key, menu, icon, terminal, watch>>
      BY <2>1 DEF ReadStatus, ReadModels, ReadAgents, Read
    <3> QED BY <1>0, <3>1, <3>2, BuildingOne
  <2>2. CASE InstallMenu(p)
    <3>1. "icon" \in BuildLabel /\ IsMenu(NoMenu) /\ IsMenu(menu')
      BY <2>0, <2>2, MenuNowIsMenu DEF InstallMenu, BuildLabel
    <3> QED BY <1>0, <2>2, <3>1, BuildingOne DEF InstallMenu
  <2>3. CASE UpdateTrayIcon(p)
    <3>1. "no" \in BuildLabel /\ IsMenu(NoMenu) /\ IsMenu(menu')
      BY <1>0, <2>3, MenuNowIsMenu DEF UpdateTrayIcon, BuildLabel
    <3>2. icon' \in BOOLEAN
      BY <1>0, <2>3 DEF UpdateTrayIcon, IsActive
    <3> QED BY <1>0, <2>3, <3>1, <3>2, BuildingOne DEF UpdateTrayIcon, NotBuilding
  <2> QED BY <1>4, <2>1, <2>2, <2>3 DEF BuildStep
<1>5. ASSUME NEW present \in BOOLEAN, SetKey(present)
      PROVE  BuildType' /\ has_key' \in BOOLEAN /\ UNCHANGED <<icon, terminal, watch>>
  <2>1. build' = [build EXCEPT ![Main].at = "status"] /\ "status" \in BuildLabel
        /\ IsMenu(build[Main].menu) /\ IsMenu(menu')
    BY <1>0, <1>5 DEF SetKey, BuildLabel, BuildType
  <2>2. build' = [build EXCEPT ![Main] = [at |-> "status", menu |-> build[Main].menu]]
    BY <1>0, <2>1, BuildAt
  <2>3. BuildType'
    BY <1>0, <2>1, <2>2, BuildingOne
  <2> QED BY <1>5, <2>3 DEF SetKey
<1>6. CASE Launched
  <2>1. PICK agent \in Agent : LaunchAgent(agent)
    BY <1>0, <1>6 DEF Launched, IsMenu
  <2>2. [agent |-> agent, env |-> EnvOf(agent), open |-> TRUE] \in Terminal
    BY <1>0, EnvType DEF Terminal
  <2>3. /\ terminal' \in Seq(Terminal) /\ watch' = Len(terminal')
        /\ UNCHANGED <<has_key, build, menu, icon>>
    BY <1>0, <2>1, <2>2 DEF LaunchAgent
  <2> QED BY <1>0, <2>3 DEF BuildType, IsMenu
<1>7. CASE CloseTerminal
  <2>1. PICK n \in DOMAIN terminal : terminal' = [terminal EXCEPT ![n].open = FALSE]
    BY <1>7 DEF CloseTerminal
  <2>2. n \in 1..Len(terminal) /\ terminal[n] \in Terminal
    BY <1>0, <2>1
  <2>4. [terminal[n] EXCEPT !.open = FALSE] \in Terminal
    BY <2>2 DEF Terminal
  <2>3. terminal' \in Seq(Terminal) /\ Len(terminal') = Len(terminal)
    BY <1>0, <2>1, <2>2, <2>4
  <2> QED BY <1>0, <1>7, <2>3 DEF CloseTerminal, BuildType, IsMenu
<1>8. CASE TrayRestart
  <2>1. /\ DOMAIN build' = Proc
        /\ \A p \in Proc : build'[p] = [at |-> "no", menu |-> NoMenu]
    BY <1>8 DEF TrayRestart, NotBuilding
  <2>2. IsMenu(NoMenu) /\ IsMenu(menu')
    BY <1>8, MenuNowIsMenu DEF TrayRestart, IsMenu, MenuNow, AgentEntries
  <2>3. BuildType'
    BY <2>1, <2>2 DEF BuildType, BuildLabel, IsMenu
  <2>4. UNCHANGED terminal /\ has_key' = FALSE /\ icon' = FALSE /\ watch' = 0
    BY <1>8 DEF TrayRestart
  <2>5. 0 \in 0..Len(terminal)
    BY <1>0
  <2> QED BY <1>0, <2>3, <2>4, <2>5
<1> QED
  BY <1>0, <1>1, <1>2, <1>3, <1>4, <1>5, <1>6, <1>7, <1>8
  DEF TrayNext, tray, BuildType, IsMenu
-----------------------------------------------------------------------------
(* One command at a time, the rebuilding of the menu included.             *)

\* A menu shows nothing that these variables do not determine, and so does the icon.
LEMMA MenuFrame ==
    UNCHANGED <<endpoint, models, selected, visible, slots>> =>
      /\ MenuNow' = MenuNow /\ Status' = Status
      /\ UNCHANGED has_key => IsActive' = IsActive
BY DEF MenuNow, Status, ModelEntries, AgentEntries, IsActive, Api, ChatIds, VisibleIds,
   AgentSupported, Launchable, Ids, ConfiguredCount, Configured, ModelFor, IsComplete

\* set_token_limits changes no other part of the state.
LEMMA TokensOnly ==
    ASSUME TypeInv, NEW p \in Proc, Step(p), op(p) = "set_token_limits"
    PROVE  UNCHANGED <<endpoint, models, selected, visible, slots>>
<1>1. pc[p] \notin FetchLabel
  BY DEF TypeInv, CallOK, FetchCall, op
<1>2. Apply(p) \/ LockUiIo(p) \/ LoadAndEdit(p) \/ SaveUiState(p)
  BY <1>1 DEF Step, FetchLabel, Swap, SnapshotConfig, SaveConfig, ReadPersisted,
     KeepSelection, ReplaceModels, ReloadKey, ReloadFile, ReloadVisible, ReloadTokens,
     ReloadSlots, ReadCatalog, PruneSlots
<1> QED BY <1>2 DEF Apply, LockUiIo, LoadAndEdit, SaveUiState, op, memory

\* Where one process has a command under way or rebuilds and the others rest, it is
\* the only one whose menu has to be looked at; if it rests too they all agree.
LEMMA OthersRest ==
    ASSUME NEW p \in Proc, BuildType', MenuAt(p)', \A q \in Proc \ {p} : ~Active(q)'
    PROVE  OneBusy' /\ MenuInv'
<1>1. OneBusy'
  BY DEF OneBusy
<1>2. ASSUME NEW r \in Proc \ {p}, ~Active(p)'
      PROVE  MenuAt(r)'
  <2>1. menu' = MenuNow' /\ icon' = IsActive'
    BY <1>2 DEF Active, Building, MenuAt
  <2>2. /\ pc'[r] = "idle"
        /\ build'[r] = [at |-> build'[r].at, menu |-> build'[r].menu]
        /\ build'[r].at = "no"
    BY DEF Active, Building, BuildType
  <2> QED BY <2>1, <2>2 DEF MenuAt
<1> QED BY <1>1, <1>2 DEF MenuInv

\* A command that begins finds every process inactive and makes one active.
LEMMA IssuedKeeps ==
    ASSUME DesktopInv, Overlap = FALSE, Issued
    PROVE  OneBusy' /\ MenuInv'
<1>0. TypeInv /\ BuildType
  BY DEF DesktopInv, TrayType
<1>1. PICK p \in Proc, label \in {"fetch", "apply"}, c \in Call : Begin(p, c, label)
  BY <1>0, IssueBegins DEF Issued
<1>2. /\ \A q \in Proc \ {p} : pc'[q] = "idle"
      /\ pc'[p] = label /\ UNCHANGED memory
  BY <1>0, <1>1, BeginAlone
<1>3. Settled /\ UNCHANGED tray
  BY DEF Issued
<1>4. \A q \in Proc : build[q] = NotBuilding
  <2>1. \A q \in Proc : ~Active(q)
    BY <1>3 DEF Settled, Idle, Active
  <2>2. \A q \in Proc : MenuAt(q)
    BY <2>1 DEF DesktopInv, MenuInv
  <2> QED BY <1>0, <1>3, <2>2 DEF MenuAt, Settled, Building, NotBuilding, BuildType
<1>5. menu = MenuNow /\ icon = IsActive
  <2>1. \A q \in Proc : ~Active(q)
    BY <1>3 DEF Settled, Idle, Active
  <2>2. MenuAt(p)
    BY <2>1 DEF DesktopInv, MenuInv
  <2> QED BY <1>3, <2>2 DEF MenuAt, Settled, Idle, Building
<1>6. /\ build'[p] = NotBuilding /\ pc'[p] # "idle"
      /\ \A q \in Proc \ {p} : build'[q] = NotBuilding
  BY <1>2, <1>3, <1>4 DEF tray
<1>7. menu' = MenuNow' /\ icon' = IsActive'
  BY <1>2, <1>3, <1>5, MenuFrame DEF memory, tray
<1>8. MenuAt(p)'
  BY <1>6, <1>7 DEF MenuAt, NotBuilding
<1>9. Active(p)' /\ \A q \in Proc \ {p} : ~Active(q)'
  BY <1>2, <1>6 DEF Active, Building, NotBuilding
<1>10. BuildType'
  BY TrayStepType DEF DesktopInv, TrayNext, TrayType
<1> QED BY <1>8, <1>9, <1>10, OthersRest

\* A step of a command, or its answer, is one of the only process that is active.
LEMMA CommandKeeps ==
    ASSUME DesktopInv, NEW p \in Proc, TrayAnswer(p) \/ TrayStep(p)
    PROVE  OneBusy' /\ MenuInv'
<1>0. /\ TypeInv /\ BuildType /\ CommandInv /\ OneActive /\ OneBusy /\ MenuInv
      /\ pc \in [Proc -> Label]
  BY DEF DesktopInv, TrayType, Solo, TypeInv, TypeOK
<1>1. /\ pc[p] # "idle"
      /\ \A q \in Proc \ {p} : pc[q] = "idle" /\ pc'[q] = "idle"
      /\ pc'[p] = "idle" \/ loc'[p].call = loc[p].call
  BY <1>0, StepAlone DEF TrayAnswer, TrayStep
<1>2. \A q \in Proc \ {p} : ~Active(q)
  BY <1>0, <1>1 DEF OneBusy, Active
<1>3. MenuAt(p)
  BY <1>0, <1>2 DEF MenuInv
<1>4. build[p] = NotBuilding
  BY <1>1, <1>3 DEF MenuAt
<1>5. \A q \in Proc \ {p} : build'[q] = build[q] /\ build[q].at = "no"
  BY <1>0, <1>2 DEF TrayAnswer, TrayStep, BuildAfter, BuildType, tray, Active, Building
<1>6. \A q \in Proc \ {p} : ~Active(q)'
  BY <1>1, <1>5 DEF Active, Building
<1>7. MenuAt(p)'
  <2>1. CASE TrayAnswer(p)
    <3>1. UNCHANGED memory /\ UNCHANGED tray /\ pc[p] = "fetch"
      BY <2>1 DEF TrayAnswer, Answer, ProbeAnswered, FetchAnswered, FetchFailed
    <3>2. menu' = MenuNow' /\ icon' = IsActive'
      BY <1>3, <1>4, <3>1, MenuFrame DEF MenuAt, NotBuilding, memory, tray
    <3> QED BY <1>4, <3>1, <3>2 DEF MenuAt, NotBuilding, tray
  <2>2. CASE TrayStep(p)
    <3>1. Step(p) /\ BuildAfter(p) /\ UNCHANGED <<has_key, menu, icon>>
      BY <2>2 DEF TrayStep
    <3>2. CASE pc'[p] = "idle" /\ op(p) # "set_token_limits"
      <4>1. build'[p].at = "status" /\ build'[p].menu = NoMenu
        BY <1>0, <1>4, <3>1, <3>2 DEF BuildAfter, BuildType, NotBuilding
      <4> QED BY <3>2, <4>1 DEF MenuAt
    <3>3. CASE op(p) = "set_token_limits"
      <4>1. UNCHANGED <<endpoint, models, selected, visible, slots>>
        BY <1>0, <3>1, <3>3, TokensOnly
      <4>2. menu = MenuNow /\ icon = IsActive
        BY <1>3, <1>4, <3>3 DEF MenuAt, NotBuilding
      <4>3. menu' = MenuNow' /\ icon' = IsActive'
        BY <3>1, <4>1, <4>2, MenuFrame
      <4>4. build'[p] = NotBuilding
        BY <1>0, <1>4, <3>1, <3>3 DEF BuildAfter, BuildType, NotBuilding
      <4> QED BY <4>3, <4>4 DEF MenuAt, NotBuilding
    <3>4. CASE pc'[p] # "idle" /\ op(p) # "set_token_limits"
      <4>1. build'[p] = NotBuilding
        BY <1>0, <1>4, <3>1, <3>4 DEF BuildAfter, BuildType, NotBuilding
      <4>2. pc'[p] # "fetch"
        BY <1>0, <3>1 DEF Step, Swap,
           SnapshotConfig, SaveConfig, ReadPersisted, KeepSelection, ReplaceModels,
           ReloadKey, ReloadFile, ReloadVisible, ReloadTokens, ReloadSlots,
           ReadCatalog, PruneSlots, Apply, LockUiIo, LoadAndEdit, SaveUiState,
           Return, Goto
      <4>3. op(p)' = op(p)
        BY <1>1, <3>4 DEF op
      <4> QED BY <3>4, <4>1, <4>2, <4>3 DEF MenuAt, NotBuilding
    <3> QED BY <3>2, <3>3, <3>4
  <2> QED BY <2>1, <2>2
<1>8. BuildType'
  BY TrayStepType DEF DesktopInv, TrayNext, TrayType
<1> QED BY <1>6, <1>7, <1>8, OthersRest

\* The rebuilding reads a state that nobody changes meanwhile.
LEMMA RebuildKeeps ==
    ASSUME DesktopInv, NEW p \in Proc, BuildStep(p)
    PROVE  OneBusy' /\ MenuInv'
<1>0. BuildType /\ OneBusy /\ MenuInv /\ TrayType
  BY DEF DesktopInv, TrayType
<1>1. Building(p) /\ UNCHANGED vars /\ UNCHANGED has_key
  BY DEF BuildStep, ReadStatus, ReadModels, ReadAgents, Read, InstallMenu,
     UpdateTrayIcon, Building
<1>2. \A q \in Proc \ {p} : ~Active(q)
  BY <1>0, <1>1 DEF OneBusy, Active
<1>3. MenuAt(p) /\ pc[p] = "idle"
  <2>1. MenuAt(p)
    BY <1>0, <1>2 DEF MenuInv
  <2> QED BY <1>1, <2>1 DEF MenuAt, Building, NotBuilding
<1>4. PICK at, m : build' = [build EXCEPT ![p] = [at |-> at, menu |-> m]]
  BY DEF BuildStep, ReadStatus, ReadModels, ReadAgents, Read, InstallMenu,
     UpdateTrayIcon, NotBuilding
<1>5. /\ build'[p] = [at |-> at, menu |-> m]
      /\ \A q \in Proc \ {p} : build'[q] = build[q]
  BY <1>0, <1>4 DEF BuildType
<1>6. pc'[p] = "idle" /\ \A q \in Proc \ {p} : ~Active(q)'
  BY <1>1, <1>2, <1>3, <1>5 DEF Active, Building, vars
<1>7. MenuNow' = MenuNow /\ Status' = Status /\ IsActive' = IsActive
  BY <1>1, MenuFrame DEF vars, memory
<1>8. MenuAt(p)'
  <2>1. CASE ReadStatus(p)
    <3>1. at = "models" /\ m = [NoMenu EXCEPT !.status = Status]
      BY <1>0, <1>3, <1>5, <2>1 DEF ReadStatus, Read, MenuAt, BuildType
    <3> QED BY <1>5, <1>6, <1>7, <3>1 DEF MenuAt
  <2>2. CASE ReadModels(p)
    <3>1. /\ build[p].menu = [status |-> Status, models |-> {}, agents |-> {}]
          /\ m = [build[p].menu EXCEPT !.models = ModelEntries]
      BY <1>0, <1>3, <1>5, <2>2 DEF ReadModels, Read, MenuAt, BuildType, NoMenu
    <3>2. m = [status |-> Status, models |-> ModelEntries, agents |-> {}]
      BY <3>1
    <3>3. at = "agents"
      BY <1>0, <1>5, <2>2 DEF ReadModels, Read, BuildType
    <3>4. m = [MenuNow EXCEPT !.agents = {}]
      BY <3>2 DEF MenuNow
    <3> QED BY <1>5, <1>6, <1>7, <3>3, <3>4 DEF MenuAt
  <2>3. CASE ReadAgents(p)
    <3>1. /\ build[p].menu = [status |-> Status, models |-> ModelEntries, agents |-> {}]
          /\ m = [build[p].menu EXCEPT !.agents = AgentEntries]
      BY <1>0, <1>3, <1>5, <2>3 DEF ReadAgents, Read, MenuAt, BuildType, MenuNow
    <3>2. m = MenuNow /\ at = "install"
      BY <1>0, <1>5, <2>3, <3>1 DEF ReadAgents, Read, BuildType, MenuNow
    <3> QED BY <1>5, <1>6, <1>7, <3>2 DEF MenuAt
  <2>4. CASE InstallMenu(p)
    <3>1. at = "icon" /\ menu' = MenuNow
      BY <1>0, <1>3, <1>5, <2>4 DEF InstallMenu, MenuAt, BuildType
    <3> QED BY <1>5, <1>6, <1>7, <3>1 DEF MenuAt
  <2>5. CASE UpdateTrayIcon(p)
    <3>1. at = "no" /\ m = NoMenu /\ menu' = MenuNow /\ icon' = IsActive
      BY <1>0, <1>3, <1>5, <2>5 DEF UpdateTrayIcon, MenuAt, BuildType, NotBuilding
    <3> QED BY <1>5, <1>6, <1>7, <3>1 DEF MenuAt
  <2> QED BY <2>1, <2>2, <2>3, <2>4, <2>5 DEF BuildStep
<1>9. BuildType'
  BY TrayStepType DEF DesktopInv, TrayNext, TrayType
<1> QED BY <1>6, <1>8, <1>9, OthersRest

\* Every step of the tray keeps DesktopInv.
LEMMA DesktopStep ==
    ASSUME Overlap = FALSE
    PROVE  DesktopInv /\ (TrayNext \/ UNCHANGED trayVars) => DesktopInv'
<1> SUFFICES ASSUME DesktopInv, TrayNext \/ UNCHANGED trayVars PROVE DesktopInv'
  OBVIOUS
<1>0. TrayType' /\ Solo' /\ Main \in Proc
  BY TrayStepType, TrayStepsAreAppSteps, SoloStep, CallOnlyKeeps
  DEF DesktopInv, TrayType, Proc
<1>1. BuildType /\ OneBusy /\ MenuInv
  BY DEF DesktopInv, TrayType
<1> SUFFICES OneBusy' /\ MenuInv'
  BY <1>0 DEF DesktopInv
<1>2. ASSUME Settled
      PROVE  menu = MenuNow /\ icon = IsActive /\ \A q \in Proc : ~Active(q) /\ MenuAt(q)
  <2>1. \A q \in Proc : ~Active(q)
    BY <1>2 DEF Settled, Idle, Active
  <2>2. \A q \in Proc : MenuAt(q)
    BY <1>1, <2>1 DEF MenuInv
  <2> QED BY <1>0, <1>2, <2>1, <2>2 DEF MenuAt, Settled, Idle, Building
<1>3. CASE Issued
  BY <1>3, IssuedKeeps
<1>4. ASSUME NEW p \in Proc, TrayAnswer(p) \/ TrayStep(p) PROVE OneBusy' /\ MenuInv'
  BY <1>4, CommandKeeps
<1>5. ASSUME NEW p \in Proc, BuildStep(p) PROVE OneBusy' /\ MenuInv'
  BY <1>5, RebuildKeeps
<1>6. ASSUME NEW present \in BOOLEAN, SetKey(present) PROVE OneBusy' /\ MenuInv'
  <2>1. Settled /\ UNCHANGED <<pc>> /\ build' = [build EXCEPT ![Main].at = "status"]
    BY <1>6 DEF SetKey
  <2>2. MenuAt(Main) /\ ~Active(Main) /\ \A q \in Proc \ {Main} : ~Active(q)
    BY <1>0, <1>2, <2>1
  <2>3. /\ build'[Main].at = "status" /\ build'[Main].menu = NoMenu /\ pc'[Main] = "idle"
        /\ \A q \in Proc \ {Main} : build'[q] = build[q]
    BY <1>0, <1>1, <2>1, <2>2 DEF BuildType, MenuAt, Active, Building
  <2>4. MenuAt(Main)'
    BY <2>3 DEF MenuAt
  <2>5. \A q \in Proc \ {Main} : ~Active(q)'
    BY <2>1, <2>2, <2>3 DEF Active, Building
  <2> QED BY <1>0, <2>4, <2>5, OthersRest DEF TrayType
<1>7. CASE Launched \/ CloseTerminal \/ UNCHANGED trayVars
  <2>1. UNCHANGED <<memory, pc, loc, has_key, build, menu, icon>>
    BY <1>7 DEF Launched, LaunchAgent, CloseTerminal, trayVars, tray, vars
  <2>2. MenuNow' = MenuNow /\ Status' = Status /\ IsActive' = IsActive
    BY <2>1, MenuFrame DEF memory
  <2>3. \A q \in Proc : Active(q)' = Active(q) /\ MenuAt(q)' = MenuAt(q)
    BY <2>1, <2>2 DEF Active, Building, MenuAt, op
  <2> QED BY <1>1, <2>3 DEF OneBusy, MenuInv
<1>8. CASE TrayRestart
  <2>1. \A q \in Proc : pc'[q] = "idle" /\ build'[q] = NotBuilding
    BY <1>8 DEF TrayRestart, Restart
  <2>2. menu' = MenuNow' /\ icon' = IsActive'
    BY <1>8 DEF TrayRestart, IsActive
  <2>3. \A q \in Proc : ~Active(q)' /\ MenuAt(q)'
    BY <2>1, <2>2 DEF Active, Building, MenuAt, NotBuilding
  <2> QED BY <2>3 DEF OneBusy, MenuInv
<1> QED BY <1>3, <1>4, <1>5, <1>6, <1>7, <1>8 DEF TrayNext

\* Before the first command the menu is that of the state.
LEMMA DesktopInit == WebInit => DesktopInv
<1> SUFFICES ASSUME WebInit PROVE DesktopInv
  OBVIOUS
<1>0. Init /\ Solo
  BY SoloInit DEF WebInit, TrayInit
<1>1. /\ has_key \in BOOLEAN /\ menu = MenuNow /\ icon = FALSE
      /\ build = [p \in Proc |-> NotBuilding] /\ terminal = <<>> /\ watch = 0
  BY DEF WebInit, TrayInit
<1>2. BuildType
  BY <1>1, MenuNowIsMenu DEF BuildType, NotBuilding, BuildLabel
<1>3. TrayType
  <2>1. terminal \in Seq(Terminal) /\ watch \in 0..Len(terminal)
    BY <1>1
  <2>2. has_key \in BOOLEAN /\ icon \in BOOLEAN
    BY <1>1
  <2> QED BY <1>0, <1>2, <2>1, <2>2 DEF TrayType, Solo
<1>4. \A q \in Proc : pc[q] = "idle" /\ build[q] = NotBuilding
  BY <1>0, <1>1 DEF Init
<1>5. icon = IsActive
  BY <1>0, <1>1 DEF Init, IsActive
<1>6. \A q \in Proc : ~Active(q) /\ MenuAt(q)
  BY <1>1, <1>4, <1>5 DEF Active, Building, MenuAt, NotBuilding
<1> QED BY <1>0, <1>3, <1>6 DEF DesktopInv, OneBusy, MenuInv

\* So the menu is current when nobody is active.
LEMMA DesktopMenu == DesktopInv => MenuCurrent
<1> SUFFICES ASSUME DesktopInv, Settled PROVE menu = MenuNow /\ icon = IsActive
  BY DEF MenuCurrent
<1>1. \A q \in Proc : ~Active(q)
  BY DEF Settled, Idle, Active
<1>2. MenuAt(Main) /\ Main \in Proc
  BY <1>1 DEF DesktopInv, MenuInv, Proc
<1> QED BY <1>2 DEF MenuAt, Settled, Idle, Building
-----------------------------------------------------------------------------
(* Theorems.                                                               *)

\* The desktop program is type correct: AgentWatch names a terminal that was opened.
THEOREM WebTypes == WebSpec => []WebTypeOK
<1> DEFINE Inv == TrayType /\ flow \in Flow
<1>1. WebInit => Inv
  BY DesktopInit DEF WebInit, DesktopInv, Flow
<1>2. Inv /\ [WebNext]_webVars => Inv'
  <2> SUFFICES ASSUME Inv, [WebNext]_webVars PROVE Inv'
    OBVIOUS
  <2>1. TrayType'
    BY WindowStepsAreTraySteps, TrayStepType
  <2>2. flow' \in Flow
    <3>1. CASE Window
      BY <3>1 DEF Flow, Window, ApplyEndpoint, PickModel, PickSlot, ApplyTokenLimits,
         DoRefresh, AskQuietly, Ask, PersistVisible, SaveKey, ForgetKey, WindowRun
    <3>2. CASE WindowStep
      BY <3>2 DEF Flow, WindowStep, Adopted, CatalogArrives, Corrected, KeySaved
    <3>3. CASE TrayClick \/ PollRead \/ PollAdopt \/ Close \/ WebRestart
      BY <3>3 DEF Flow, TrayClick, PollRead, PollAdopt, Close, WebRestart
    <3>4. ASSUME NEW p \in Proc, UpstreamAnswer(p) \/ Run(p) PROVE flow' \in Flow
      BY <3>4 DEF Flow, UpstreamAnswer, Run
    <3> QED BY <3>1, <3>2, <3>3, <3>4 DEF WebNext, webVars
  <2> QED BY <2>1, <2>2
<1>3. Inv => WebTypeOK
  BY DEF WebTypeOK, TrayType, TypeInv
<1> QED BY <1>1, <1>2, <1>3, PTL DEF WebSpec

\* While commands do not overlap, the menu and the icon that are installed when none
\* is under way are those of the state, though they were put together part by part:
\* apply_menu is called by every command that changes what they show.
THEOREM MenuIsCurrent ==
    ASSUME Overlap = FALSE
    PROVE  WebSpec => []MenuCurrent
<1>1. DesktopInv /\ [WebNext]_webVars => DesktopInv'
  BY WindowStepsAreTraySteps, DesktopStep
<1>2. DesktopInv => MenuCurrent
  BY DesktopMenu
<1> QED BY <1>1, <1>2, DesktopInit, PTL DEF WebSpec

\* An agent launched while no command is under way is served by the endpoint, and
\* Claude Code gets no label without a model, though the entry that was clicked is
\* of a menu built earlier.
THEOREM LaunchesFit ==
    ASSUME Overlap = FALSE
    PROVE  WebSpec => LaunchFits
<1>1. DesktopInv /\ [WebNext]_webVars => DesktopInv'
  BY WindowStepsAreTraySteps, DesktopStep
<1>2. DesktopInv => MenuCurrent
  BY DesktopMenu
<1> DEFINE Fits == LET new == terminal'[Len(terminal')] IN
             /\ AgentApi[new.agent] = Api
             /\ \A s \in new.env.labels : ModelFor(slots, s) # NoModel
<1>3. ASSUME DesktopInv, TrayNext \/ UNCHANGED trayVars, Settled,
             Len(terminal') > Len(terminal)
      PROVE  Fits
  <2>1. terminal \in Seq(Terminal) /\ menu.agents = AgentEntries
    BY <1>2, <1>3 DEF DesktopInv, TrayType, MenuCurrent, MenuNow
  <2>2. Launched
    <3>1. CloseTerminal => Len(terminal') = Len(terminal)
      BY <2>1 DEF CloseTerminal
    <3>2. Len(terminal) \in Nat /\ ~(terminal' = terminal)
      BY <1>3, <2>1
    <3> QED
      BY <1>3, <3>1, <3>2 DEF TrayNext, Issued, TrayAnswer, TrayStep, BuildStep,
         ReadStatus, ReadModels, ReadAgents, Read, InstallMenu, UpdateTrayIcon, SetKey,
         TrayRestart, tray, trayVars
  <2>3. PICK agent \in Agent : LaunchAgent(agent) /\ AgentSupported(agent)
    BY <2>1, <2>2 DEF Launched, AgentEntries
  <2> DEFINE new == [agent |-> agent, env |-> EnvOf(agent), open |-> TRUE]
  <2>4. terminal'[Len(terminal')] = new
    BY <2>1, <2>3 DEF LaunchAgent
  <2>5. \A s \in EnvOf(agent).labels : ModelFor(slots, s) # NoModel
    BY <2>3 DEF EnvOf, LaunchAgent, Launchable, IsComplete, Configured, ModelFor
  <2> QED BY <2>3, <2>4, <2>5 DEF AgentSupported
<1>4. DesktopInv /\ [WebNext]_webVars =>
        [Settled /\ Len(terminal') > Len(terminal) => Fits]_trayVars
  BY <1>3, WindowStepsAreTraySteps
<1> QED BY <1>1, <1>4, DesktopInit, PTL DEF WebSpec, LaunchFits
=============================================================================
