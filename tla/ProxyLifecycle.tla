--------------------------- MODULE ProxyLifecycle ---------------------------
(***************************************************************************)
(* The proxy server's listen address and network exposure: set_listen_addr,*)
(* set_expose_to_network and regenerate_proxy_token of commands.rs, the    *)
(* ProxyTask of lifecycle.rs that stops one server and spawns the next,    *)
(* and what a restart makes of config.json (config_resolve.rs).            *)
(*                                                                         *)
(* set_listen_addr is an async command, and nothing keeps two of them from *)
(* running at once; the other two run on the main thread, between any two  *)
(* steps of those.  One step is one critical section, one file access or   *)
(* one await.                                                              *)
(***************************************************************************)
EXTENDS Naturals, FiniteSets

CONSTANTS
    Addr,           \* listen addresses that pass validation
    Loopback,       \* those that only this machine reaches
    DefaultAddr,    \* DEFAULT_LISTEN_ADDR
    Collide,        \* pairs of addresses that cannot both be bound
    Token,          \* generated gateway tokens
    NoToken,        \* no token; "" is the empty token of a hand-edited file
    DiskTokens,     \* tokens a config.json may be found with
    Task,           \* set_listen_addr calls that may be under way at once
    Main,           \* the main thread
    None,           \* no server
    DiskMayFail,    \* whether a save may fail
    MaxCalls,       \* bound: commands issued
    MaxRestarts     \* bound: process deaths followed by a restart

ASSUME ConfigAssumption ==
    /\ Loopback \subseteq Addr /\ DefaultAddr \in Loopback
    /\ NoToken \notin Token /\ "" \notin Token /\ Token # {}
    /\ NoToken \in DiskTokens /\ DiskTokens \subseteq Token \cup {NoToken, ""}
    /\ Collide \subseteq Addr \X Addr
    /\ Main \notin Task
    /\ DiskMayFail \in BOOLEAN
    /\ MaxCalls \in Nat /\ MaxRestarts \in Nat /\ None \notin Nat

Proc == Task \cup {Main}

\* Servers are numbered; each call of set_listen_addr binds at most one.
Server == 0..MaxCalls

Config == [addr : Addr, expose : BOOLEAN, token : Token \cup DiskTokens]

Label == {"idle", "expose_check", "changed_check", "bind", "set_addr",
          "snapshot", "save", "take_sender", "take_handle", "await", "spawn",
          "store_handle", "store_sender"}

VARIABLES
    config,         \* listen_addr, expose_to_network and proxy_token in memory
    config_json,    \* the same in config.json
    server,         \* server[s]: its address and how far its life has come
    handle,         \* ProxyTask.handle: the server awaited by stop
    shutdown,       \* ProxyTask.shutdown: the server whose sender is held
    pc,             \* pc[p]: where process p is in its command
    loc,            \* loc[p]: the address asked for, the server bound, the
                    \* handle taken and the config snapshot
    calls, restarts \* how many so far

vars == <<config, config_json, server, handle, shutdown, pc, loc, calls, restarts>>

\* "free": no such server yet.  "bound": its socket listens but nobody serves
\* it.  "failed": its task could not take the socket over, released it and
\* ended.  "stopping": told to shut down.  "draining": the socket is released
\* and requests in flight are finished.  "gone": its task has ended.
Servers == [Server -> [addr : Addr,
                       life : {"free", "bound", "failed", "serving", "stopping",
                               "draining", "gone"}]]

Locals == [addr : Addr, id : Server, awaits : Server \cup {None}, snap : Config]

IsReal(token) == token \notin {NoToken, ""}

\* The servers whose socket takes connections.
Listening == {s \in Server : server[s].life \in {"bound", "serving", "stopping"}}

Idle == \A p \in Proc : pc[p] = "idle"

\* What becomes of a server when it is spawned.
Spawned == {"serving", "failed"}

Goto(p, label) == pc' = [pc EXCEPT ![p] = label]

SafeAddr(c) == IF c.addr \in Loopback \/ c.expose THEN c.addr ELSE DefaultAddr

\* Mutant: only the empty token counts as missing.
SanitizedIfEmpty(c) ==
    {[c EXCEPT !.addr = SafeAddr(c), !.token = t] :
        t \in IF c.expose /\ c.token = "" THEN Token ELSE {c.token}}

\* sanitize_config: what memory may hold after config.json said c.
Sanitized(c) ==
    {[c EXCEPT !.addr = SafeAddr(c), !.token = t] :
        t \in IF c.expose /\ ~IsReal(c.token) THEN Token ELSE {c.token}}

NoLocals == [addr |-> DefaultAddr, id |-> 0, awaits |-> None,
             snap |-> [addr |-> DefaultAddr, expose |-> FALSE, token |-> NoToken]]

\* setup binds the configured address and spawns server 0 on it.
FirstServer(addr) ==
    {[s \in Server |-> [addr |-> addr, life |-> IF s = 0 THEN life ELSE "free"]] :
        life \in Spawned}

Init ==
    /\ config_json \in {c \in Config : c.token \in DiskTokens}
    /\ config \in Sanitized(config_json)
    /\ server \in FirstServer(config.addr)
    /\ handle = 0 /\ shutdown = 0
    /\ pc = [p \in Proc |-> "idle"]
    /\ loc = [p \in Proc |-> NoLocals]
    /\ calls = 0 /\ restarts = 0

Return(p) == Goto(p, "idle") /\ loc' = [loc EXCEPT ![p] = NoLocals]

Live(s, life) == server' = [server EXCEPT ![s].life = life]

\* The sender of s, if there is one, is dropped: s is told to shut down.
DropSender(s) ==
    IF s # None /\ server[s].life = "serving"
    THEN Live(s, "stopping")
    ELSE UNCHANGED server
-----------------------------------------------------------------------------
(* Commands begin.                                                         *)

Begin(p) ==
    /\ pc[p] = "idle"
    /\ calls < MaxCalls
    /\ calls' = calls + 1
    /\ UNCHANGED <<config_json, server, handle, shutdown, restarts>>

\* Mutant: the address is not validated.
SetAnyAddr(p) ==
    /\ Begin(p)
    /\ \E a \in Addr \cup {None} : loc' = [loc EXCEPT ![p].addr = a]
    /\ Goto(p, "expose_check")
    /\ UNCHANGED config

SetListenAddr(p) ==
    /\ Begin(p)
    /\ \E a \in Addr : loc' = [loc EXCEPT ![p].addr = a]
    /\ Goto(p, "expose_check")
    /\ UNCHANGED config

\* Mutant: exposure is switched on without a token.
ExposeOnly(p) ==
    /\ Begin(p)
    /\ \E enabled \in BOOLEAN : config' = [config EXCEPT !.expose = enabled]
    /\ Goto(p, "snapshot")
    /\ UNCHANGED loc

\* A token is minted when none exists; "" is one.
SetExpose(p) ==
    /\ Begin(p)
    /\ \E enabled \in BOOLEAN :
         \E t \in IF enabled /\ config.token = NoToken THEN Token ELSE {config.token} :
           config' = [config EXCEPT !.expose = enabled, !.token = t]
    /\ Goto(p, "snapshot")
    /\ UNCHANGED loc

RegenerateToken(p) ==
    /\ Begin(p)
    /\ \E t \in Token \ {config.token} : config' = [config EXCEPT !.token = t]
    /\ Goto(p, "snapshot")
    /\ UNCHANGED loc
-----------------------------------------------------------------------------
(* set_listen_addr.                                                        *)

CheckExpose(p) ==
    /\ pc[p] = "expose_check"
    /\ IF loc[p].addr \in Loopback \/ config.expose
       THEN Goto(p, "changed_check") /\ UNCHANGED loc
       ELSE Return(p)
    /\ UNCHANGED <<config, config_json, server, handle, shutdown, calls, restarts>>

CheckChanged(p) ==
    /\ pc[p] = "changed_check"
    /\ IF loc[p].addr # config.addr
       THEN Goto(p, "bind") /\ UNCHANGED loc
       ELSE Return(p)
    /\ UNCHANGED <<config, config_json, server, handle, shutdown, calls, restarts>>

\* s is the first server there has not been yet.
IsFresh(s) == /\ server[s].life = "free"
              /\ \A t \in 0..(s-1) : server[t].life # "free"

\* The operating system refuses an address that collides with a listening
\* socket, and may refuse any other.
Bind(p) ==
    /\ pc[p] = "bind"
    /\ \/ /\ \A s \in Listening : <<loc[p].addr, server[s].addr>> \notin Collide
          /\ \E s \in Server :
               /\ IsFresh(s)
               /\ server' = [server EXCEPT ![s] = [addr |-> loc[p].addr, life |-> "bound"]]
               /\ loc' = [loc EXCEPT ![p].id = s]
          /\ Goto(p, "set_addr")
       \/ Return(p) /\ UNCHANGED server
    /\ UNCHANGED <<config, config_json, handle, shutdown, calls, restarts>>

SetAddr(p) ==
    /\ pc[p] = "set_addr"
    /\ config' = [config EXCEPT !.addr = loc[p].addr]
    /\ Goto(p, "snapshot")
    /\ UNCHANGED <<config_json, server, handle, shutdown, loc, calls, restarts>>

\* persist_config, which every command ends or goes on with.
SnapshotConfig(p) ==
    /\ pc[p] = "snapshot"
    /\ loc' = [loc EXCEPT ![p].snap = config]
    /\ Goto(p, "save")
    /\ UNCHANGED <<config, config_json, server, handle, shutdown, calls, restarts>>

SaveConfig(p) ==
    /\ pc[p] = "save"
    /\ \/ config_json' = loc[p].snap
       \/ DiskMayFail /\ UNCHANGED config_json
    /\ IF p = Main THEN Return(p) ELSE Goto(p, "take_sender") /\ UNCHANGED loc
    /\ UNCHANGED <<config, server, handle, shutdown, calls, restarts>>
-----------------------------------------------------------------------------
(* ProxyTask::stop and ProxyTask::spawn.                                   *)

\* Mutant: the sender is looked at but not dropped.
KeepSender(p) ==
    /\ pc[p] = "take_sender"
    /\ Goto(p, "take_handle")
    /\ UNCHANGED <<config, config_json, server, handle, shutdown, loc, calls, restarts>>

TakeSender(p) ==
    /\ pc[p] = "take_sender"
    /\ DropSender(shutdown)
    /\ shutdown' = None
    /\ Goto(p, "take_handle")
    /\ UNCHANGED <<config, config_json, handle, loc, calls, restarts>>

TakeHandle(p) ==
    /\ pc[p] = "take_handle"
    /\ loc' = [loc EXCEPT ![p].awaits = handle]
    /\ handle' = None
    /\ Goto(p, IF handle = None THEN "spawn" ELSE "await")
    /\ UNCHANGED <<config, config_json, server, shutdown, calls, restarts>>

\* Mutant: stop does not wait for the task.
AwaitNothing(p) ==
    /\ pc[p] = "await"
    /\ Goto(p, "spawn")
    /\ UNCHANGED <<config, config_json, server, handle, shutdown, loc, calls, restarts>>

AwaitStop(p) ==
    /\ pc[p] = "await"
    /\ server[loc[p].awaits].life \in {"failed", "gone"}
    /\ Goto(p, "spawn")
    /\ UNCHANGED <<config, config_json, server, handle, shutdown, loc, calls, restarts>>

Spawn(p) ==
    /\ pc[p] = "spawn"
    /\ \E life \in Spawned : Live(loc[p].id, life)
    /\ Goto(p, "store_handle")
    /\ UNCHANGED <<config, config_json, handle, shutdown, loc, calls, restarts>>

StoreHandle(p) ==
    /\ pc[p] = "store_handle"
    /\ handle' = loc[p].id
    /\ Goto(p, "store_sender")
    /\ UNCHANGED <<config, config_json, server, shutdown, loc, calls, restarts>>

\* Mutant: the sender is not kept, so it is dropped at once.
StoreNoSender(p) ==
    /\ pc[p] = "store_sender"
    /\ DropSender(loc[p].id)
    /\ Return(p)
    /\ UNCHANGED <<config, config_json, handle, shutdown, calls, restarts>>

\* The sender that was there is dropped.
StoreSender(p) ==
    /\ pc[p] = "store_sender"
    /\ DropSender(shutdown)
    /\ shutdown' = loc[p].id
    /\ Return(p)
    /\ UNCHANGED <<config, config_json, handle, calls, restarts>>
-----------------------------------------------------------------------------
(* The server's task: it leaves its accept loop, releasing the socket, and *)
(* ends when the requests in flight have.                                  *)

Drain(s) ==
    /\ server[s].life = "stopping"
    /\ Live(s, "draining")
    /\ UNCHANGED <<config, config_json, handle, shutdown, pc, loc, calls, restarts>>

Finish(s) ==
    /\ server[s].life = "draining"
    /\ Live(s, "gone")
    /\ UNCHANGED <<config, config_json, handle, shutdown, pc, loc, calls, restarts>>

\* The process dies and comes up from config.json.
Restart ==
    /\ restarts < MaxRestarts
    /\ restarts' = restarts + 1
    /\ config' \in Sanitized(config_json)
    /\ server' \in FirstServer(config'.addr)
    /\ handle' = 0 /\ shutdown' = 0
    /\ pc' = [p \in Proc |-> "idle"]
    /\ loc' = [p \in Proc |-> NoLocals]
    /\ UNCHANGED <<config_json, calls>>

\* Nobody asks for anything any more, and no server is on its way out.
Quiet ==
    /\ calls = MaxCalls /\ Idle
    /\ \A s \in Server : server[s].life \notin {"stopping", "draining"}
    /\ UNCHANGED vars

Issue == \/ \E t \in Task : SetListenAddr(t)
         \/ SetExpose(Main)
         \/ RegenerateToken(Main)

Step(p) ==
    \/ CheckExpose(p) \/ CheckChanged(p) \/ Bind(p) \/ SetAddr(p)
    \/ SnapshotConfig(p) \/ SaveConfig(p)
    \/ TakeSender(p) \/ TakeHandle(p) \/ AwaitStop(p)
    \/ Spawn(p) \/ StoreHandle(p) \/ StoreSender(p)

ServerStep(s) == Drain(s) \/ Finish(s)

Next == \/ Issue
        \/ \E p \in Proc : Step(p)
        \/ \E s \in Server : ServerStep(s)
        \/ Restart
        \/ Quiet

Spec == Init /\ [][Next]_vars

\* Threads and the accept loop run on, and requests in flight end: no client
\* or upstream keeps a response open for ever.
Fairness == /\ \A p \in Proc : WF_vars(Step(p))
            /\ \A s \in Server : WF_vars(ServerStep(s))

FairSpec == Spec /\ Fairness
-----------------------------------------------------------------------------
TypeOK ==
    /\ config \in Config /\ config_json \in Config
    /\ server \in Servers
    /\ handle \in Server \cup {None} /\ shutdown \in Server \cup {None}
    /\ pc \in [Proc -> Label]
    /\ loc \in [Proc -> Locals]
    /\ calls \in 0..MaxCalls /\ restarts \in 0..MaxRestarts

\* There is a token, or the "" of a hand-edited config.json is taken for one
\* and still in the file: the next start replaces it if the proxy is exposed.
HasToken == IsReal(config.token) \/ (config.token = "" /\ config_json.token = "")

\* A socket that other machines reach is never without a token for the gateway
\* to ask for, but for a hand-edited "", however the commands interleave and
\* after every restart.
ReachableHasToken ==
    \A s \in Listening : server[s].addr \notin Loopback => HasToken

\* "An exposed proxy is never tokenless" (state.rs:222-223), but for "".
ExposedHasToken == config.expose => HasToken

\* While no address change is under way ProxyTask holds both ends of one server,
\* on the configured address, and no other is left; only a server that could
\* not take its socket over does not listen.
ServerMatchesConfig ==
    (\A t \in Task : pc[t] = "idle") =>
        \E s \in Server :
            /\ server[s].addr = config.addr
            /\ \/ server[s].life = "serving" /\ Listening = {s}
               \/ server[s].life = "failed" /\ Listening = {}
            /\ handle = s /\ shutdown = s

\* stop returns only when no server takes connections but the one bound for
\* the caller: the old socket is released.
StopReleases ==
    [][\A p \in Proc : pc[p] \in {"take_handle", "await"} /\ pc'[p] = "spawn"
         => Listening' \subseteq {loc[p].id}]_vars

\* set_listen_addr returns: the await in stop ends.
CommandsReturn == \A p \in Proc : pc[p] # "idle" ~> pc[p] = "idle"
=============================================================================
