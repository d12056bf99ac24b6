------------------------------ MODULE Webview ------------------------------
(***************************************************************************)
(* The settings window (src-tauri/dist/app.js) on top of the commands, the *)
(* tray and the agents: the whole desktop program, but for the proxy.      *)
(*                                                                         *)
(* The window keeps a copy of the state, `ui`, and draws it on its screen. *)
(* It adopts into the copy the state that a command returns, changes parts *)
(* of the copy by itself, goes on from one command to another, and polls:  *)
(* a poll's answer is read at one time and adopted at a later one.  Most   *)
(* commands end in a full render of the copy; a poll draws its live parts  *)
(* only, so that model rows and slots may show an older copy.  A command   *)
(* of the window is under way until its answer has been adopted and drawn. *)
(* The page is loaded and visible; a hidden page does not poll.            *)
(* The skeleton and the error that take the place of the rows while a      *)
(* refresh is under way, and after it has failed, are left out.            *)
(*                                                                         *)
(* get_state runs on the main thread, between two steps of any task, and   *)
(* is one step here, though it reads the fields one after the other.       *)
(***************************************************************************)
EXTENDS TrayMenu

CONSTANT Favourite      \* the model a refresh would rather select (gpt-4o)

VARIABLES
    ui,     \* the window's copy of the state
    screen, \* what was drawn of it last: status grid, model rows, agent grid
    flow,   \* what the window is waiting for
    poll    \* the answer of the poll on its way: a set, empty or of one

webVars == <<trayVars, ui, screen, flow, poll>>

Flow == {"none",        \* nothing
         "adopt",       \* a command that returns the state
         "pick",        \* set_model, for a row that was clicked
         "slot",        \* set_cc_slot
         "refresh",     \* refresh_models
         "set_model",   \* the set_model that a refresh may go on with
         "load",        \* get_state after a refresh
         "save_key"}    \* set_api_key, which a refresh follows

\* state_view.
View == [endpoint |-> endpoint, models |-> models, selected |-> selected,
         visible |-> VisibleIds, tokens |-> tokens, slots |-> slots,
         has_key |-> has_key, running |-> RunningId, manual |-> ManualCommand]

-----------------------------------------------------------------------------
(* The renders, of the copy u.                                             *)

\* renderStatus.
Live(u) == [running |-> u.running, has_key |-> u.has_key, endpoint |-> u.endpoint]

\* renderModels.
Rows(u) == [models |-> u.models, selected |-> u.selected, visible |-> u.visible]

\* renderAgents, with the badge of the running agent, the command to be run by
\* hand and the slots with the models they offer.
Grid(u) == [running |-> u.running, manual |-> u.manual,
            slots |-> u.slots, options |-> u.models]

Render(u) == [live |-> Live(u), rows |-> Rows(u), grid |-> Grid(u)]

\* Mutant: the agents are not drawn again.
RenderStatusOnly(u) == [screen EXCEPT !.live = Live(u)]

\* The agents are drawn again only when another one runs.
RenderLive(u) ==
    [screen EXCEPT !.live = Live(u),
                   !.grid = IF @.running # u.running THEN Grid(u) ELSE @]

\* pickModel draws the rows, the status and the command.
RenderPick(u) ==
    [screen EXCEPT !.rows = Rows(u), !.live = Live(u), !.grid.manual = u.manual]

\* setCcSlot draws the agents.
RenderSlot(u) == [screen EXCEPT !.grid = Grid(u)]

WebInit ==
    /\ TrayInit
    /\ ui = View /\ screen = Render(View) /\ flow = "none" /\ poll = {}

\* Commands that one click may lead to, at the bound.
Room(n) == calls + n <= MaxCalls

-----------------------------------------------------------------------------
(* The user, at the window: no command is sent while one is awaited.       *)

Ask(begin, next) ==
    /\ flow = "none"
    /\ TrayIssue(begin)
    /\ flow' = next
    /\ UNCHANGED <<ui, poll>>

\* A command of the window that draws nothing yet.
AskQuietly(begin, next) == Ask(begin, next) /\ UNCHANGED screen

ApplyEndpoint == \E t \in Task : AskQuietly(SetEndpoint(t), "adopt")
ApplyTokenLimits == AskQuietly(SetTokenLimits(Main), "adopt")

\* A click is on a row, or on an option of a slot, as drawn.
PickModel ==
    AskQuietly(SetModel(Main) /\ loc'[Main].call.model \in Ids(screen.rows.models),
               "pick")
PickSlot ==
    AskQuietly(SetCcSlot(Main)
                 /\ loc'[Main].call.model \in Ids(screen.grid.options) \cup {NoModel},
               "slot")

DoRefresh == /\ ui.has_key /\ Room(2)
             /\ \E t \in Task : Ask(RefreshModels(t), "refresh")
             /\ screen' = Render(ui)

\* persistVisible: the window has changed its copy and waits for no answer.
PersistVisible ==
    /\ flow = "none"
    /\ TrayIssue(SetVisibleModels(Main))
    /\ ui' = [ui EXCEPT !.visible = loc'[Main].call.visible]
    /\ screen' = [screen EXCEPT !.rows = Rows(ui')]
    /\ UNCHANGED <<flow, poll>>

SaveKey ==
    /\ flow = "none" /\ Room(3)
    /\ SetKey(TRUE)
    /\ flow' = "save_key"
    /\ UNCHANGED <<ui, screen, poll>>

\* The answer of forget_api_key empties the copy, though the state keeps its catalog.
ForgetKey ==
    /\ flow = "none" /\ has_key
    /\ SetKey(FALSE)
    /\ ui' = [ui EXCEPT !.has_key = FALSE, !.models = <<>>, !.selected = NoModel]
    /\ screen' = Render(ui')
    /\ UNCHANGED <<flow, poll>>

WindowRun ==
    /\ flow = "none" /\ ui.selected # NoModel
    /\ \E agent \in Agent :
         RunAgent(agent) /\ ui' = [ui EXCEPT !.running = agent]
    /\ screen' = Render(ui')
    /\ UNCHANGED <<flow, poll>>

Window == \/ ApplyEndpoint \/ PickModel \/ PickSlot \/ ApplyTokenLimits \/ DoRefresh
          \/ PersistVisible \/ SaveKey \/ ForgetKey \/ WindowRun
-----------------------------------------------------------------------------
(* The user, at the tray: a click is on an entry of the menu as installed. *)

TrayPick ==
    TrayIssue(SetModel(Main)
                /\ \E e \in menu.models : e[1] = "models" /\ e[2] = loc'[Main].call.model)

TrayPickSlot ==
    TrayIssue(SetCcSlot(Main)
                /\ LET c == loc'[Main].call IN
                   \E e \in menu.models : /\ e[1] = c.slot
                                          /\ e[2] = IF c.inherit THEN "inherit" ELSE c.model)

TrayRefresh == \E t \in Task : TrayIssue(RefreshModels(t))

TrayClick == /\ flow = "none" /\ (TrayPick \/ TrayPickSlot \/ TrayRefresh \/ ClickAgent)
             /\ UNCHANGED <<ui, screen, flow, poll>>
-----------------------------------------------------------------------------
(* The answers.                                                            *)

\* fetch_models and the probe need a key; a refresh that fails ends the flow.
UpstreamAnswer(p) ==
    /\ TrayAnswer(p)
    /\ has_key \/ loc'[p].fetched = <<>>
    /\ IF flow = "refresh" /\ pc'[p] = "idle"
       THEN flow' = "none" /\ screen' = Render(ui)
       ELSE UNCHANGED <<flow, screen>>
    /\ UNCHANGED <<ui, poll>>

AdoptState(s) == ui' = s

\* The state a command returned, or get_state, and what is drawn of it.
Adopted ==
    /\ flow \in {"adopt", "pick", "slot", "load"} /\ Settled
    /\ AdoptState(View)
    /\ screen' = CASE flow = "pick" -> RenderPick(ui')
                   [] flow = "slot" -> RenderSlot(ui')
                   [] OTHER -> Render(ui')
    /\ flow' = "none"
    /\ UNCHANGED <<trayVars, poll>>

Preferred(catalog) ==
    IF Favourite \in Ids(catalog) THEN Favourite
    ELSE IF Ids(catalog) \cap ChatModel = {} THEN Head(catalog)
    ELSE SelectSeq(catalog, LAMBDA m : m \in ChatModel)[1]

\* The catalog arrives.  If it lacks the selection of the copy, the window
\* selects a model for the user.
CatalogArrives ==
    /\ flow = "refresh" /\ Settled
    /\ LET pick == Preferred(models) IN
         \/ /\ ui.selected \in Ids(models)
            /\ ui' = [ui EXCEPT !.models = models]
            /\ flow' = "load"
            /\ UNCHANGED trayVars
         \/ /\ ui.selected \notin Ids(models)
            /\ TrayIssue(SetModel(Main) /\ loc'[Main].call.model = pick)
            /\ ui' = [ui EXCEPT !.models = models, !.selected = pick]
            /\ flow' = "set_model"
    /\ UNCHANGED <<screen, poll>>

\* set_model has returned.  What it returned is not looked at.
Corrected ==
    /\ flow = "set_model" /\ Settled
    /\ flow' = "load"
    /\ UNCHANGED <<trayVars, ui, screen, poll>>

KeySaved ==
    /\ flow = "save_key" /\ Settled
    /\ \E t \in Task : TrayIssue(RefreshModels(t))
    /\ ui' = [ui EXCEPT !.has_key = TRUE]
    /\ screen' = Render(ui')
    /\ flow' = "refresh"
    /\ UNCHANGED poll

WindowStep == Adopted \/ CatalogArrives \/ Corrected \/ KeySaved

\* The timer of startPolling.
PollRead ==
    /\ poll = {}
    /\ pc[Main] = "idle" /\ ~Building(Main)
    /\ poll' = {View}
    /\ UNCHANGED <<trayVars, ui, screen, flow>>

\* The copy is replaced, and its live parts are drawn.
PollAdopt ==
    /\ \E s \in poll : AdoptState(s)
    /\ screen' = RenderLive(ui')
    /\ poll' = {}
    /\ UNCHANGED <<trayVars, flow>>
-----------------------------------------------------------------------------
Run(p) == /\ TrayStep(p) \/ BuildStep(p)
          /\ UNCHANGED <<ui, screen, flow, poll>>

Close == CloseTerminal /\ UNCHANGED <<ui, screen, flow, poll>>

\* The window's init() loads the state again.
WebRestart ==
    /\ TrayRestart
    /\ ui' = View' /\ screen' = Render(View)' /\ flow' = "none" /\ poll' = {}

WebNext ==
    \/ Window \/ TrayClick \/ WindowStep \/ PollRead \/ PollAdopt \/ Close
    \/ \E p \in Proc : UpstreamAnswer(p) \/ Run(p)
    \/ WebRestart

WebSpec == WebInit /\ [][WebNext]_webVars

\* Threads run on, the window's event loop runs, and its timer fires.  Nothing
\* obliges the user, the upstream or a terminal.
WebFairness ==
    /\ \A p \in Proc : WF_webVars(Run(p))
    /\ WF_webVars(WindowStep) /\ WF_webVars(PollRead) /\ WF_webVars(PollAdopt)

WebFairSpec == WebSpec /\ WebFairness
-----------------------------------------------------------------------------
(* Properties.                                                             *)

WebTypeOK ==
    /\ TypeOK
    /\ has_key \in BOOLEAN /\ icon \in BOOLEAN
    /\ watch \in 0..Len(terminal)
    /\ flow \in Flow

\* The window's copy comes to be the state, and with it what a poll draws: the
\* status, and the badge of the agent that runs or runs no more, which the poll
\* makes "the source of truth" (app.js:77-79).  So it stays, however a poll's
\* answer, a command's and the window's own changes of its copy crossed.
\* Nothing is said of the rest of the screen: a poll leaves model rows, slots and
\* the command as they are.
WindowConverges ==
    <>[](ui = View /\ screen.live = Live(View) /\ screen.grid.running = RunningId)

\* A refresh "keeps the current selection if still present; otherwise restores
\* this endpoint's persisted choice" (set_models): the model stored for the
\* endpoint is not replaced by one the window picks while the catalog has it.
StoredChoiceKept ==
    [][(flow = "set_model" /\ ui_state' # ui_state) =>
         ui_state[endpoint].selected \notin Ids(models)]_webVars
=============================================================================
