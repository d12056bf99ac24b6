# Copilot CLI custom proxy: TLA+ models and proofs

The app is a tray program (Rust, Tauri) that runs a local HTTP proxy. A coding
agent's CLI talks to the proxy; the proxy adds an API key that lives in memory
only, replaces the model name, and forwards the request to the endpoint the user
chose. A settings window and the tray menu change the endpoint, the model, the
Claude Code slots, the listen address and the exposure to the network while
requests run, and two files carry the configuration from one run of the app to
the next. This directory models that, checks it with TLC and proves its safety
properties with TLAPS.

## Inventory

| Component | State | Operations | Interacts with | What makes it correct |
|---|---|---|---|---|
| Shared state, `proxy-core/src/state.rs` | one mutex per field: config, models, selected model, visible models, token override, slots, key, log; `ui_io` for the preference file | `swap_endpoint`, `set_models`, `set_selected_model`, `set_cc_slot`, `set_visible_models`, `set_token_overrides`, `persist_config`, `load_ui_state` | called by commands, tray and proxy; writes both files | endpoint, catalog and selection agree; nothing saved is lost; preferences stay with their endpoint |
| Commands, `src-tauri/src/commands.rs` | none of their own | the async `set_endpoint`, `refresh_models`, `set_listen_addr`; the rest are synchronous on the main thread | the window calls them; they call state, lifecycle and tray | async ones overlap each other and the rest without harm |
| Slots, `ui_state.rs`, `claude.rs` | five optional models and a flag per endpoint | `set`, `prune_to_catalog`, `model_for`, `is_complete` | state, request path, launch gate | no slot names a model that is gone |
| Preference file, `ui_state.rs` | `ui_state.json`, keyed by endpoint | load, edit, save | four writers in state.rs | behaves as a map, no lost update |
| Atomic writes, `atomic_io.rs` | target and `.tmp` | stage, sync, rename | both files | old or new, never torn |
| Request path, `proxy.rs` | request log | `gateway_auth`, `proxy_handler`, `resolve_messages_model`, `inject_model` | reads state field by field | a request belongs to one endpoint; the log is truthful; remote clients need the token |
| Lifecycle, `lifecycle.rs`, `lib.rs` | task handle and shutdown sender, two mutexes | `spawn`, `stop`, `serve_with` | `set_listen_addr`, startup | one server on the configured address; `stop` releases the socket and returns |
| Startup, `config_resolve.rs`, `main.rs`, `config.rs` | config.json, legacy config.toml, backup | `resolve_config`, `sanitize_config`, migration | state | an unsafe or corrupt file never reaches a bind |
| Validation, `settings.rs`, `dist/validation.js` | none | `validate_endpoint_url`, `validate_listen_addr`, `is_loopback_listen_addr` | commands, startup, window | the two languages agree |
| Catalog, `models.rs` | none | parse, classify | request path | total and stable |
| Agent launch, `commands.rs` | `AgentWatch`, one slot | `run_agent`, `launch_agent`, `running_id` | tray, window | gates hold at the launch |
| Tray, `tray.rs` | installed menu | `build_menu`, `apply_menu`, menu events | state | menu converges to the state |
| Window, `dist/app.js` | copy of the state, busy flags | actions, poll | commands | converges to the backend |

Hard behaviours: commands interleave with each other and with requests between
any two critical sections; answers of `/models` arrive late and in any order;
saves fail and the process dies between steps; the lifecycle keeps two halves of
a server under two locks. `PROJECT.json` lists each hazard at its line.

## Modules

| Module | Models | State and actions |
|---|---|---|
| `ClaudeSlots` | `CcSlots` | pure: `SetSlot`, `PruneToCatalog`, `ModelFor`, `IsComplete`, `ConfiguredCount` |
| `UiStore` | what the preference file promises | abstract: a map written one preference at a time |
| `AppState` | state.rs and the commands that change it | one variable per mutex, `ui_state` and `config_json` for the files, `pc` and `loc` per process; one action per critical section, file access or answer |
| `AppStateProofs` | | theorems about `AppState` for commands that overlap |
| `AppStateSequentialProofs` | | theorems about `AppState` for commands that do not |
| `ProxyRequest` | `gateway_auth`, `proxy_handler`, the log; extends `AppState` | `req[r]` holds what request r has read so far; one action per read |
| `ProxyRequestProofs` | | theorems about `ProxyRequest` |
| `ProxyLifecycle` | `set_listen_addr`, `ProxyTask`, exposure, token, sanitised startup | `server[s]` is the life of a server (its task may fail to take the socket over), `handle` and `shutdown` are `ProxyTask`'s fields |
| `ProxyLifecycleProofs` | | theorems about `ProxyLifecycle` |
| `AtomicFile` | `write_atomic` | names, files and open files; one action per system call |
| `AtomicFileProofs` | | theorems about `AtomicFile` |
| `EndpointUrl` | `validate_endpoint_url`, `base_url`, `active_api`, `pref_key`; validateEndpoint and the mode chips of the window | pure, on sequences of tokens |
| `ListenAddr` | `validate_listen_addr`, `is_loopback_listen_addr`, `local_base_url`; the window's address checks | pure, on sequences of tokens |
| `ConfigResolve` | `resolve_config`, `sanitize_config`, the migration of config.toml, the bind of `main`, the commands that save | `json`, `bak`, `toml` per directory; one action per file looked at, per command, plus death and edits by hand |
| `ConfigTextProofs` | | lemmas on trimming, addresses and URLs, for every text |
| `ConfigResolveProofs` | | theorems about `ConfigResolve` |
| `TrayMenu` | tray.rs, `run_agent`, `launch_agent`, `AgentWatch`; extends `AppState` | `build[p]` is the menu a process is building, `menu` and `icon` what is installed, `terminal` and `watch` the agents |
| `Webview` | app.js; extends `TrayMenu` | `ui` is the window's copy of the state, `screen` what was last drawn of it (live parts, model rows, agent grid), `flow` what it waits for, `poll` the answer on its way |
| `WebviewProofs` | | theorems about `Webview` and `TrayMenu` |
| `MC*` | | instances for TLC |

In `AppState` the process `Main` stands for the main thread (synchronous
commands and tray events, one at a time), and each member of `Task` for an async
command. A step that touches only its caller's locals is merged with the access
that follows it. A preference is identified with the endpoint's preference key,
so URLs that differ in the API suffix only are one endpoint, and `ApiOf` gives
each endpoint one API.

`ProxyRequest` extends `AppState` and interleaves its steps with those of the
commands: a request shares no lock with a command beyond the single reads.
`TrayMenu` goes on where a command of `AppState` ends: the process that ran it
reads the state part by part into a menu and installs that. `Webview` adds the
window, whose clicks are the commands of the modules below it, so that one run
has user, window, tray, commands, files and agents.

`ConfigResolve` sees `config.json` from one start to the next. A URL or an
address is there a sequence of tokens (separators, and the words between them),
which keeps every distinction the validators make: positions, doubled or
trailing separators, blanks, and what kind of word stands where.
`ProxyLifecycle` and `AppState` share `config.json` and its `persist_config`, but
no field: each models the fields it owns. A definition marked *Mutant* is a
plausible bug beside the definition it would replace, and is not part of the
specification; it serves to show that a property can fail.

## Runs

All bounds are constants; a command in a `Commands` set may be issued `MaxCalls`
times in all. Two tasks are enough for every two-party race above, and three
calls for a race to be set up by one call and hit by two.

| Run | Result | Shows |
|---|---|---|
| `AppState_sequential` | passes | all six commands without overlap, five calls, one restart, first run included: memory is coherent and saved between commands, preferences name their own endpoint's models, a refresh prunes, a choice is restored |
| `AppState_interleaved` | passes | two tasks and the main thread, the subagent as the only slot: no lost update, `ui_state.json` refines `UiStore`, every command that is not waiting for the upstream returns |
| `AppState_stale_refresh` | violation | a late refresh puts the old endpoint's selection under the new URL |
| `ProxyRequest_swaps` | passes | from a first run, two requests that may overlap, from remote clients with the token and with an empty one, at any moment of three calls (endpoint changes between APIs, slot changes), one call at a time, and of a restart: no slot label goes upstream, a model read under an unchanged URL is that endpoint's, but for slots on their way, the log counts what was sent, the gateway is closed |
| `ProxyRequest_status` | violation | two overlapping requests to one endpoint: the status shown belongs to the older one |
| `ProxyLifecycle_commands` | passes | one address change at a time, the main thread's exposure and token commands between any two of its steps, three calls, refused binds, sockets that cannot be taken over, failing saves, a restart, an empty token on disk: one server on the configured address; `stop` releases; a reachable or exposed proxy has a token; commands return |
| `ProxyLifecycle_hang` | violation | `set_listen_addr` never returns |
| `AtomicFile_turns` | passes | three saves, failures, two deaths or power losses: never torn |
| `AtomicFile_shared` | violation | two savers of config.json share the staging file |
| `ConfigResolve_restarts` | passes | every URL of up to five tokens after the scheme and every address of up to three, damaged and legacy files in two directories, then two commands, failing saves, a death, an edit and a second start: what is bound is guarded, what was saved is found again, what can be read is never rewritten |
| `Webview_desktop` | passes | a chat endpoint that may lose a model and a messages endpoint, three calls, a restart, a poll that crosses them: menu and icon are current between commands, agents are launched only where they fit; the window's copy, its status and its badge of the running agent converge |
| `Webview_choice` | violation | the window's refresh replaces the choice the backend restored |

In `ConfigResolve_restarts` a file with an unusual text takes part in one start
and no more, since what matters of it is decided there; all that may follow a
start is explored from the files with usual texts. Five tokens reach suffixes in
the host, the query and after trailing slashes; three reach a bare port, an
unclosed bracket, a host of two words and blanks on either side, and whole
addresses with brackets are added by hand. `Webview_desktop` has no overlap of
commands: the window awaits its own, and the effect of a tray command that
overlaps one on the state is covered by the runs of `AppState`. What it leaves
open is a click between an endpoint change and the menu that follows it:
`run_agent` asks whether the endpoint serves the agent, `launch_agent`, which the
tray calls, does not (tray.rs:242), so an old entry would start its agent.

Each violation is a disagreement between a comment and the code; "findings" in
`PROJECT.json` quotes both. They have four roots: a fetched catalog does not
remember its endpoint, nor a recorded status its request; related fields are
read, or written, under separate locks; saves of config.json and restarts of the
server are not serialised; and the window decides from a copy that is older than
what it has just asked for.

Several properties of passing runs hold only for the commands, or the absence of
overlap, of their run, and the same roots explain why. TLC finds a counterexample
when the constants or the property are changed as follows:

| Property | fails with | because |
|---|---|---|
| `SelectionInCatalog` of `ProxyRequest_swaps` | `set_model` among the commands, `Overlap = TRUE` | `set_selected_model` tests membership and writes under separate locks (state.rs:377-382) |
| `FreshPair` of `ProxyRequest_swaps` | read without `SlotsLag` | the slots are reloaded after the swap, not in it (state.rs:200): a messages request in between sends the old endpoint's model to the new URL |
| `FreshPair` of `ProxyRequest_swaps` | `Overlap = TRUE`, four calls | slots stored under the wrong key (next row) are read as they are |
| `StoredModelsAreOwn` of `AppState_sequential` | `Overlap = TRUE` | a `set_cc_slot` between the swap and the reload of the slots stores the old endpoint's slots under the new key, though ui_state.rs:6-8 keeps them apart |
| `MenuCurrent` of `Webview_desktop` | `Overlap = TRUE` | two commands build menus from different states and may install them in the other order (tray.rs:213) |
| `CorruptIsKept` of `ConfigResolve_restarts` | read without `corrupt_dir # d` | a second damaged file, beside a config.toml, is overwritten by the migration with no copy (config_resolve.rs:121, 141) |
| `StopReleases`, `ServerMatchesConfig` of `ProxyLifecycle_commands` | two tasks | of two stops the second finds no handle and returns (lifecycle.rs:65) |
| `ExposedHasToken`, `ReachableHasToken` of `ProxyLifecycle_commands` | read without the exception in `HasToken` | see below |

The exception in `HasToken` is the `""` that somebody wrote into config.json by
hand, as config_resolve.rs:62 expects. `set_expose_to_network` mints a token when
there is none, not when it is empty (state.rs:227), so a proxy found unexposed
with `""` and then exposed has no token, though state.rs:222-223 says that "an
exposed proxy is never tokenless". Remote clients are then refused
(`RemoteHasToken`), and the next start mints a token (`StartsWithToken`). Both
properties and their theorems say that nothing else leads there.

What no property claims, since the code does not keep it while commands overlap:
that the older of two snapshots of config.json is not written last
(state.rs:164), that the older of two menus is not installed last (tray.rs:213),
and that an entry of an old menu does not launch its agent (tray.rs:242).

The clients of `ProxyRequest_swaps` are remote: a local one takes the same steps
and always passes the gateway, which the theorems cover and `ProxyRequest_status`
runs.

`ProxyLifecycle_commands` has one address change at a time, as two may hang; that
two of them leave no socket open to anyone without a token is proved
(`ReachableNeverTokenless`, for any number of them).

A request may also read its base before a swap and its model after it
(proxy.rs:247, proxy.rs:274), so the old endpoint is asked for a model of the
new one; and the bind of a new address is refused if it overlaps the old one
(`Collide`: `localhost` and `127.0.0.1`, or a wildcard address on Linux), since
the old server still listens (commands.rs:189).

`SwapsCoherent` and `SelectionIsFresh` show that the swap itself is right: it is
`refresh_models`, `set_model` and the reload after the swap that its critical
section does not cover. For a request in that window one endpoint change is
enough.

Two disagreements with the docs have no run of their own. settings.rs:9-11, 161-164
and 189 and src/README.md:60-62 ask for the suffix at the end of the URL's *path*.
The code looks for it in all that follows the host (`EndpointUrl!Path`), so
`https://h/x?y/responses` is accepted, by backend and window alike, and every
request path is then appended to the query. `EndpointUsable` claims nothing of
such a URL (`EndsInPath`): the operators it is made of (the API derived, the base,
the key under the mode chips) are self-consistent on it, and say nothing of
whether the base is usable. And atomic_io.rs:15-16 says that "a crashed write never
leaves stray `.tmp` litter": a write that fails removes its staging file, if the
removal succeeds, but one that dies leaves it until the next write of the target.

Other behaviours that the models show and no doc contradicts:

* Start-up validates the trimmed address and binds the text as it is: with a
  blank around it in config.json the app ends in the error dialog. So it does
  with `[::1]:+8080`: u16's parser takes the sign and std's address parser does
  not (`PortReads`).
* Exposure edited into config.json without a token makes start-up mint one that
  is not saved (config_resolve.rs:88-90); each start has another until some
  command saves the configuration, sanitised values included.
* The startup warning speaks of a reset and a copy even if the copy failed or
  another directory supplied the configuration.
* An address beyond loopback may stay after exposure is switched off, and the
  next start replaces it by the default.
* The window accepts URLs that the backend refuses (an upper-case scheme, a user
  name, a suffix in place of the host); the backend answers with an error and
  nothing changes.
* With the proxy bound to one LAN address, agents are still sent to 127.0.0.1
  (commands.rs:500-511), where nothing listens.
* A poll draws the status, and the agent grid when another agent runs, and never
  the model rows (app.js:451-460, whose comment says so): after a model is picked
  in the tray, rows, slots and the manual command stay old until the next full
  render. `WindowConverges` claims the copy and what a poll draws, no more.
* Forgetting the key empties the window's catalog until the next poll, though
  the state keeps it.

`ProxyLifecycle_hang` is run without the deadlock check: an address change that
waits for a server nobody stops is the very hang that it exhibits, and at the
bound on calls nothing else can move. So are `ProxyRequest_status`, whose two
requests end, `ConfigResolve_restarts`, where the app may stay down, and the
`Webview` runs, where an upstream that never answers leaves everybody waiting.

Symmetry is used for tasks, requests and writers in runs without liveness.

## Fairness

`AppState!Fairness` is weak fairness of each process's steps once it has its
answer: an unblocked thread runs on, and the mutexes are held for a bounded
section. The arrival of an answer is not fair: the HTTP client has no overall
timeout. `ui_io` is only ever held by one process at a time that needs nothing
else, so weak fairness is enough at these bounds. The locks that are taken inside
`ui_io` (slots, config) are held within one step here, so `CallsReturn` would not
catch an order of nested locks that blocks two writers for ever; in the code
nothing that holds another lock asks for `ui_io`. `ProxyLifecycle!Fairness`
adds that a server told to stop leaves its accept loop and that open responses
end; the latter is an assumption about clients and upstreams, which the code
does not enforce. `Webview!WebFairness` is weak fairness of each thread, of the
window's event loop and of the poll's timer, for a page that is visible. Nothing
obliges the user, the upstream or a terminal to act, and `WindowConverges` does
not need them to: a command that waits for the upstream for ever does not keep
the poll from bringing the copy and its live parts up to date.

## Proofs

Every safety invariant and action property of the passing runs is also proved,
for every value of the constants that its hypotheses allow. The hypotheses are
the ones that the runs set: `Overlap = FALSE` (a command starts when none is
under way) or, in `ProxyLifecycle`, one address change at a time,
`DiskMayFail = FALSE` (saves succeed), and a set of `Commands`; the table above
shows what fails without them. Nothing bounds the number of
processes, requests, endpoints, catalogs, calls or restarts.

`AppStateProofs`, for commands that overlap:

* `TypeCorrect`. Inductive with `CallOK`: the program counter tells the kind of
  command, so a setter's fields exist when they are read.
* `LosesNoUpdate`. Inductive with `HolderInv`: a process between load and save
  holds `ui_io`, so only one copy of the file is about, and only its holder can
  make it stale.
* `StoreImplemented`: `AppState` refines `UiStore` with `store <- ui_state`. Only
  `SaveUiState` changes the file, and by `NoLostUpdate` its copy differs from the
  file in one preference.
* `SwapsCoherent`, `SwapsKeepCatalog`: with `refresh_models` and `set_model` left
  out of `Commands`, `SelectionInCatalog` and `SelectionOfEndpoint` hold in every
  state. The invariant is strengthened with `CommandInv`: commands are among
  `Commands`, and a fetched catalog is one its endpoint offers.

`AppStateSequentialProofs`, for commands that do not. All rest on `Solo`: at most
one command is under way (`OneActive`), and so what it has read into its locals
is still so (`LocalsFresh`).

* `SelectionSettles`. `SettledSelection` speaks of idle states; `SelectionInv`
  follows the selection through `set_models`, where it belongs for one step to a
  catalog not yet installed.
* `StoresItsOwn`. A file names an endpoint's own models only if memory does when
  it is written: `OwnInv` adds the catalog, the slots (from their reload on, see
  `SlotsLag`), the model a setter asks for and the copy about to be saved.
* `SelectionIsOwn`: `SelectionOfEndpoint` for all commands, from the two above.
* `DiskSettles`, `RefreshLeavesNoStale`. `OnDiskInv` says at each step which parts
  of memory the command has still to write, or to load.
* `ChoiceIsRestored`: the selection read from disk is the current one when it is
  applied, by `LocalsFresh`.

`ProxyRequestProofs`, with any number of overlapping requests. The composition
takes only steps of `AppState` below the requests (`IsAppStep`), which gives it
the theorems above.

* `LabelsAlwaysStay`, `RemoteAlwaysHasToken`, `CountIsOfForwarded`,
  `RequestsTypeCorrect`: `ReqInv` adds `Resolved` (a request has shed its label
  when it has its model, not only when it is forwarded) and that the forwarded
  requests are finitely many. Slot labels are assumed not to be catalog ids
  (`RequestAssumption`).
* `PairIsFresh` (all commands, not overlapping) and `SelectionIsFresh` (swaps
  alone, overlapping): `ModelIsRead` tells what a request sends, and `OwnInv`,
  `SelectionIsOwn` and `SwapsCoherent` whose it is.

`ProxyLifecycleProofs`:

* `ReachableNeverTokenless`, `ExposedNeverTokenless`, without hypotheses.
  `ReachableHasToken` is not inductive: exposure may be switched off between the
  check and the bind. `IndInv` adds `PastCheck` (a call past the exposure check
  found a token), `BoundHasToken` (so did every bound server), exposure itself,
  and `EmptyFromFile` (a `""` in memory is also in config.json and in every
  snapshot about to be saved, so that nothing but a new token replaces it); the
  steps keep a token once there is one, and a restart passes `sanitize_config`.
* `StartsWithToken`: a start, first or later, leaves an exposed proxy with a
  generated token, so that the exception for `""` ends with the process.
* `TypeCorrect`, without hypotheses.
* `ServerIsConfigured`, `StopHasReleased`, for one address change at a time
  (`Task = {t}`), with the main thread's commands between any two of its steps.
  `HandOver` says at each step of `set_listen_addr` which servers there are, what
  each is doing, and which of them `ProxyTask`'s two fields name; where the
  command is idle that is `ServerMatchesConfig`. `MainSaves` keeps the main thread
  out of the steps of `stop` and `spawn`.

`WebviewProofs`: whatever the window does is a step of the tray or leaves its
state alone (`WindowStepsAreTraySteps`), and a step of the tray is one of
`AppState` or changes only the number of calls.

* `WebTypes`, without hypotheses.
* `MenuIsCurrent`, `LaunchesFit`, for commands that do not overlap. `MenuAt` says
  for each part of the menu that `build_menu` has put together that it is the one
  the state asks for; one process at a time is building (`OneBusy`), and `Solo`
  carries over from `AppStateSequentialProofs`.

`AtomicFileProofs`:

* `TurnsNeverTear`, `TurnsAreOldOrNew`, `TurnsLast`, for writers that take turns.
  `PastComplete`: the files that the target name leads to, or may lead to after a
  power loss, are complete, synced, and never the staging file. `Staged`: what a
  writer has written is a first part of its document, and all of it, synced, at
  the rename.
* `FilesTyped`, for any writers, those that share the staging file included.

`ConfigResolveProofs`, for any texts in the files, any directories and edits:

* `RestartAlwaysResumes`. `RestartResumes` speaks of the running app only; the
  invariant `Inv` follows a start from its first step. `NothingFound`: no
  directory already passed by has a file that loads. `ResolvedInv`: from the end
  of the search on, no directory before the one saved to has such a file
  (`FirstIsDir`), the configuration in memory is one that `sanitize_config` leaves
  alone (`Accepted`), and if the last save succeeded, a start that read that
  directory would come to it (`Resumes`).
* `ReadableIsNeverRewritten` and `CorruptIsAlwaysKept`, from the same `Inv`: a
  migration or a seed is reached only past `NothingFound`, and `Kept` says that
  the copy of the first damaged file outlives the start.
* `StartIsAlwaysGuarded`. Whatever the text, a valid address that passes for
  loopback is one (`ValidLoopback`: only brackets let a host hold colons), the
  default is one (`DefaultIsLocal`), and an exposed configuration leaves
  `sanitize_config` with a token, as generated tokens are never empty.
* `RefusalIsByName`: the default can be bound, and a trimmed valid address whose
  host resolves and whose port std reads is what the bind takes.
* `ConfigTyped`. `Typed` adds to the types that every text, in memory and in the
  files, is a finite sequence.
* `AgentIsLocal`: the text after the last colon of a valid address is its port,
  and `local_base_url` keeps it behind a loopback host (`LocalIsLocal`).
* `EndpointIsUsable`, for URLs without a query or fragment: a valid URL is a scheme, a host and what follows, of which
  the suffix looked for by `validate_endpoint_url` is the end (`ValidEndpoint`).

`ConfigTextProofs` has the lemmas about texts that these need: `TrimCut` and
`TrimTrimmed` (trimming cuts out a part that trimming leaves alone), `HostPort`,
`ValidLoopback`, `LocalIsLocal`, `EndsIsSuffix`, `OriginPath`, `ValidEndpoint`. The
validators are written with operators of SequencesExt, and the lemmas restate
them over positions, the first and the last one where something holds.

The proofs about `ConfigResolve` rest on three assumptions on its constants, which
TLC evaluates for its instance: `WordAssumption` (words hold no separators, the
loopback words are hosts), `ContentAssumption` (what loads has the fields of a
configuration, texts are finite) and `ResolveAssumption` (what does not load lacks
those fields).

Two attempts changed the project. `RefusedOnlyByName` spoke of hosts that do not
resolve and exempted those that are hexadecimal numbers; the proof failed at
`[cafe]:8080`, where the name resolves without its brackets and the address with
them is none, and TLC confirmed it once the instance had such a host. It now says
what `bind` needs (`Resolves`). `FreshPair` had held in `ProxyRequest_swaps` for
want of a third call: between a swap and the reload of the slots it fails. It now
excepts that window, and the run issues the calls that lead there.

Only model-checked: liveness under fairness (`CallsReturn`, `CommandsReturn`,
`WindowConverges`), which is out of the prover's reach. The five violation runs
are counterexamples and have nothing to prove.

## Not modelled

* Headers, path forwarding and streaming bodies of a request: each is one call
  into the HTTP library, with no state of this program behind it.
* `models.rs`: whether a model is a chat model is a list of words looked for in
  its id, and its limits a list of JSON keys. The models take the flag
  (`ChatModel`) and a failed or malformed answer (`FetchFailed`) as inputs.
* The text of agent command lines, status lines and logs. The address and the
  variables that an agent is given are modelled.
* `needs_setup`, `startup_warning` and the message box of a failed start, which
  inform the user; that the start fails is the phase `refused`.
* The window's rows for address, exposure and token: each adopts the answer of
  one command, and those commands are in `ProxyLifecycle` and `ConfigResolve`.
  The skeleton and the error that take the place of the model rows during and
  after a failed refresh; otherwise `screen` keeps, part by part, the copy that
  each part was last drawn from. The poll of a hidden page, which pauses.
* A probe that is never answered (commands.rs:139): the code promises no bound.

A refused command (unknown model, invalid URL or address) changes nothing and is
left out of `Issue`. In all modules but `AtomicFile` a file write is one step;
that is right for `ui_state.json` by `AtomicFile_turns`, and for config.json only
while saves do not overlap (`AtomicFile_shared`). In `ConfigResolve` a command's
change of memory and its save are one step, and commands do not overlap.

## Plan

1. Done: all modules above, their runs, and proofs of all their safety properties.
2. `Webview` with overlapping commands: which of its properties survive a tray
   click while the window waits, as invariants weaker than `MenuCurrent`.
3. `AtomicFile` refined to a file that is written in one step, for writers that
   take turns, so that the one-step saves of the other modules rest on a theorem.
