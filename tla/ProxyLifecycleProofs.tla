------------------------ MODULE ProxyLifecycleProofs ------------------------
(***************************************************************************)
(* What TLAPS proves of ProxyLifecycle: whatever the addresses, the tokens,*)
(* the number of set_listen_addr calls under way and their interleaving,   *)
(* no socket that other machines reach is without a gateway token, but for *)
(* the "" of a hand-edited config.json; and, when one set_listen_addr runs *)
(* at a time, every change of the listen address hands over from one       *)
(* server to the next, whatever the main thread does meanwhile.            *)
(***************************************************************************)
EXTENDS ProxyLifecycle, TLAPS

\* A call that has passed the exposure check with an address other machines
\* reach found a token, and the token has stayed.
PastCheck ==
    \A p \in Proc :
        pc[p] \in {"changed_check", "bind"} /\ loc[p].addr \notin Loopback
            => HasToken

\* So has every server bound to such an address (the entries not in use yet
\* carry the address of the first server).
BoundHasToken ==
    \A s \in Server : server[s].addr \notin Loopback => HasToken

\* A token that is "" was found in config.json, is still there, and no command
\* is about to save another over it.
EmptyFromFile ==
    config.token = "" =>
        /\ config_json.token = ""
        /\ \A p \in Proc : pc[p] = "save" => loc[p].snap.token = ""

\* ReachableHasToken alone is not inductive: exposure may be switched off
\* between the check and the bind, and then only the token tells that the
\* check was passed.
IndInv == TypeOK /\ ExposedHasToken /\ PastCheck /\ BoundHasToken /\ EmptyFromFile
-----------------------------------------------------------------------------
(* Startup.                                                                *)

\* The bounds are numbers.
LEMMA Bounds == MaxCalls \in Nat /\ MaxRestarts \in Nat
BY ConfigAssumption

\* What startup makes of a config is a config whose address is reachable from
\* this machine only unless exposed, and which has a token if exposed.
LEMMA SanitizedType ==
    ASSUME NEW c \in Config, NEW d \in Sanitized(c)
    PROVE  /\ d \in Config
           /\ d.expose => IsReal(d.token)
           /\ d.addr \notin Loopback => IsReal(d.token)
           /\ d.token = "" => c.token = ""
<1>1. PICK t \in IF c.expose /\ ~IsReal(c.token) THEN Token ELSE {c.token} :
        d = [c EXCEPT !.addr = SafeAddr(c), !.token = t]
  BY DEF Sanitized
<1>2. SafeAddr(c) \in Addr
  BY ConfigAssumption DEF SafeAddr, Config
<1>3. t \in Token \cup DiskTokens
  BY <1>1 DEF Config
<1>4. d = [addr |-> SafeAddr(c), expose |-> c.expose, token |-> t]
  BY <1>1 DEF Config
<1>5. c.expose => IsReal(t)
  BY <1>1, ConfigAssumption DEF IsReal
<1>6. SafeAddr(c) \notin Loopback => c.expose
  BY ConfigAssumption DEF SafeAddr
<1>7. t = "" => c.token = ""
  BY <1>1, ConfigAssumption
<1> QED BY <1>2, <1>3, <1>4, <1>5, <1>6, <1>7 DEF Config

\* The first server is a well-typed table with one entry in use.
LEMMA FirstServerType ==
    ASSUME NEW a \in Addr, NEW first \in FirstServer(a)
    PROVE  /\ first \in Servers
           /\ \A s \in Server : first[s].addr = a
BY DEF FirstServer, Servers, Spawned

\* 0 is a server, and an idle process has well-typed locals.
LEMMA InitialTypes ==
    /\ 0 \in Server
    /\ NoLocals \in Locals
<1>1. 0 \in Server
  BY Bounds DEF Server
<1>2. [addr |-> DefaultAddr, expose |-> FALSE, token |-> NoToken] \in Config
  BY ConfigAssumption DEF Config
<1> QED BY <1>1, <1>2, ConfigAssumption DEF NoLocals, Locals
-----------------------------------------------------------------------------
(* Types.                                                                  *)

\* No address is bound by the step.
Unbound == \A s \in Server : server'[s].addr = server[s].addr

\* Changing a server's life binds nothing.
LEMMA LiveUnbound ==
    ASSUME TypeOK, NEW s \in Server,
           NEW l \in {"failed", "serving", "stopping", "draining", "gone"}, Live(s, l)
    PROVE  server' \in Servers /\ Unbound
BY DEF TypeOK, Servers, Live, Unbound

\* Dropping a sender binds nothing.
LEMMA DropUnbound ==
    ASSUME TypeOK, NEW s \in Server \cup {None}, DropSender(s)
    PROVE  server' \in Servers /\ Unbound
<1>1. CASE s # None /\ server[s].life = "serving"
  <2>1. s \in Server /\ Live(s, "stopping")
    BY <1>1 DEF DropSender
  <2> QED BY <1>1, <2>1, LiveUnbound
<1>2. CASE ~(s # None /\ server[s].life = "serving")
  <2>1. UNCHANGED server
    BY <1>2 DEF DropSender
  <2> QED BY <2>1 DEF TypeOK, Unbound
<1> QED BY <1>1, <1>2

\* Every step keeps the types, whatever config.json was found with.
LEMMA TypeStep == TypeOK /\ [Next]_vars => TypeOK'
<1> SUFFICES ASSUME TypeOK, [Next]_vars PROVE TypeOK'
  OBVIOUS
<1>0. 0 \in Server /\ NoLocals \in Locals /\ MaxCalls \in Nat /\ MaxRestarts \in Nat
  BY InitialTypes, Bounds
<1> USE DEF TypeOK, Label, Goto, Return
<1>1. CASE Issue
  <2>1. Main \in Proc /\ Task \subseteq Proc
    BY DEF Proc
  <2>2. ASSUME NEW p \in Proc, Begin(p), config' \in Config,
               loc' \in [Proc -> Locals], pc' \in [Proc -> Label]
        PROVE  TypeOK'
    BY <1>0, <2>2 DEF Begin
  <2>3. ASSUME NEW p \in Task, SetListenAddr(p) PROVE TypeOK'
    <3>1. loc' \in [Proc -> Locals]
      BY <2>3 DEF SetListenAddr, Locals
    <3> QED BY <2>1, <2>2, <2>3, <3>1 DEF SetListenAddr
  <2>4. CASE SetExpose(Main)
    <3>1. PICK enabled \in BOOLEAN, t \in Token \cup {config.token} :
            config' = [config EXCEPT !.expose = enabled, !.token = t]
      BY <2>4 DEF SetExpose
    <3>2. config' \in Config
      BY <3>1 DEF Config
    <3> QED BY <2>1, <2>2, <2>4, <3>2 DEF SetExpose
  <2>5. CASE RegenerateToken(Main)
    <3>1. config' \in Config
      BY <2>5 DEF RegenerateToken, Config
    <3> QED BY <2>1, <2>2, <2>5, <3>1 DEF RegenerateToken
  <2> QED BY <1>1, <2>3, <2>4, <2>5 DEF Issue
<1>2. ASSUME NEW p \in Proc, Step(p) PROVE TypeOK'
  <2>0. loc[p] \in Locals
    OBVIOUS
  <2>1. CASE CheckExpose(p) \/ CheckChanged(p) \/ AwaitStop(p)
    BY <1>0, <2>1 DEF CheckExpose, CheckChanged, AwaitStop
  <2>2. CASE Bind(p)
    <3>1. CASE Return(p) /\ UNCHANGED server
      BY <1>0, <2>2, <3>1 DEF Bind
    <3>2. ASSUME NEW s \in Server,
                 server' = [server EXCEPT ![s] = [addr |-> loc[p].addr, life |-> "bound"]],
                 loc' = [loc EXCEPT ![p].id = s], Goto(p, "set_addr")
          PROVE  TypeOK'
      <4>1. server' \in Servers /\ loc' \in [Proc -> Locals]
        BY <2>0, <3>2 DEF Servers, Locals
      <4> QED BY <2>2, <3>2, <4>1 DEF Bind
    <3> QED BY <2>2, <3>1, <3>2 DEF Bind
  <2>3. CASE SetAddr(p)
    <3>1. config' \in Config
      BY <2>0, <2>3 DEF SetAddr, Config, Locals
    <3> QED BY <2>3, <3>1 DEF SetAddr
  <2>4. CASE SnapshotConfig(p) \/ TakeHandle(p)
    <3>1. loc' \in [Proc -> Locals]
      BY <2>4 DEF SnapshotConfig, TakeHandle, Locals
    <3> QED BY <2>4, <3>1 DEF SnapshotConfig, TakeHandle
  <2>5. CASE SaveConfig(p)
    <3>1. config_json' \in Config
      BY <2>0, <2>5 DEF SaveConfig, Locals
    <3> QED BY <1>0, <2>5, <3>1 DEF SaveConfig
  <2>6. CASE TakeSender(p)
    <3>1. server' \in Servers
      BY <2>6, DropUnbound DEF TakeSender
    <3> QED BY <2>6, <3>1 DEF TakeSender
  <2>7. CASE Spawn(p)
    <3>1. server' \in Servers
      BY <2>0, <2>7, LiveUnbound DEF Spawn, Spawned, Locals
    <3> QED BY <2>7, <3>1 DEF Spawn
  <2>8. CASE StoreHandle(p)
    BY <2>0, <2>8 DEF StoreHandle, Locals
  <2>9. CASE StoreSender(p)
    <3>1. server' \in Servers /\ loc[p].id \in Server
      BY <2>0, <2>9, DropUnbound DEF StoreSender, Locals
    <3> QED BY <1>0, <2>9, <3>1 DEF StoreSender
  <2> QED
    BY <1>2, <2>1, <2>2, <2>3, <2>4, <2>5, <2>6, <2>7, <2>8, <2>9 DEF Step
<1>3. ASSUME NEW s \in Server, ServerStep(s) PROVE TypeOK'
  <2>1. server' \in Servers
    BY <1>3, LiveUnbound DEF ServerStep, Drain, Finish
  <2> QED BY <1>3, <2>1 DEF ServerStep, Drain, Finish
<1>4. CASE Restart
  <2>1. config' \in Config
    BY <1>4, SanitizedType DEF Restart
  <2>2. server' \in Servers
    BY <1>4, <2>1, FirstServerType DEF Restart, Config
  <2> QED BY <1>0, <1>4, <2>1, <2>2 DEF Restart
<1>5. CASE UNCHANGED vars \/ Quiet
  BY <1>5 DEF vars, Quiet
<1> QED BY <1>1, <1>2, <1>3, <1>4, <1>5 DEF Next
\* Init establishes them.
LEMMA InitType == Init => TypeOK
<1> SUFFICES ASSUME Init PROVE TypeOK
  OBVIOUS
<1>1. config_json \in Config /\ config \in Config
  BY SanitizedType DEF Init
<1>2. server \in Servers
  BY <1>1, FirstServerType DEF Init, Config
<1> QED BY <1>1, <1>2, InitialTypes, Bounds DEF Init, TypeOK, Label

\* Every variable of the lifecycle keeps its type.
THEOREM TypeCorrect == Spec => []TypeOK
BY InitType, TypeStep, PTL DEF Spec
-----------------------------------------------------------------------------
(* The token of a reachable socket.                                        *)

\* A step keeps the token once there is one ...
Keeps == ExposedHasToken' /\ (HasToken => HasToken') /\ EmptyFromFile'

\* ... and nothing passes the check that had not before.
Unchecked == \A p \in Proc :
                pc'[p] \in {"changed_check", "bind"} =>
                    /\ pc[p] \in {"changed_check", "bind"}
                    /\ loc'[p].addr = loc[p].addr

\* A step that does both, and binds nothing, preserves the invariant.
LEMMA KeepsInv ==
    ASSUME IndInv, TypeOK', Keeps, Unbound, Unchecked
    PROVE  IndInv'
BY DEF IndInv, Keeps, Unbound, Unchecked, PastCheck, BoundHasToken

\* The initial states satisfy it.
LEMMA InitInv == Init => IndInv
<1> SUFFICES ASSUME Init PROVE IndInv
  OBVIOUS
<1>1. /\ config \in Config
      /\ config.expose => HasToken
      /\ config.addr \notin Loopback => HasToken
      /\ config.token = "" => config_json.token = ""
  BY SanitizedType DEF Init, HasToken
<1>2. \A s \in Server : server[s].addr = config.addr
  <2>1. config.addr \in Addr /\ server \in FirstServer(config.addr)
    BY <1>1 DEF Init, Config
  <2> QED BY <2>1, FirstServerType
<1> QED
  BY <1>1, <1>2, InitType
  DEF Init, IndInv, ExposedHasToken, PastCheck, BoundHasToken, EmptyFromFile

\* The commands that change the configuration begin: a token is minted when
\* exposure is switched on without one, and replaced by another.
LEMMA MainInv ==
    ASSUME IndInv, TypeOK',
           SetExpose(Main) \/ RegenerateToken(Main)
    PROVE  IndInv'
<1>1. Unchecked /\ Unbound
  BY DEF SetExpose, RegenerateToken, Begin, Goto, Unchecked, Unbound, IndInv, TypeOK
<1>2. /\ config \in Config /\ pc \in [Proc -> Label]
      /\ config.expose => HasToken
      /\ config_json' = config_json /\ loc' = loc
      /\ \A p \in Proc : pc'[p] = "save" => pc[p] = "save"
  BY DEF IndInv, TypeOK, ExposedHasToken, SetExpose, RegenerateToken, Begin, Goto
<1>3. CASE SetExpose(Main)
  <2>1. PICK enabled \in BOOLEAN :
          \E t \in IF enabled /\ config.token = NoToken THEN Token ELSE {config.token} :
            config' = [config EXCEPT !.expose = enabled, !.token = t]
    BY <1>3 DEF SetExpose
  <2>2. PICK t \in IF enabled /\ config.token = NoToken THEN Token ELSE {config.token} :
            config' = [config EXCEPT !.expose = enabled, !.token = t]
    BY <2>1
  <2>3. config'.expose = enabled /\ config'.token = t
    BY <1>2, <2>2 DEF Config
  <2>4. \/ IsReal(t)
        \/ t = config.token /\ (enabled => t # NoToken)
    BY <2>2, ConfigAssumption DEF IsReal
  <2>5. HasToken => HasToken'
    BY <1>2, <2>3, <2>4 DEF HasToken
  <2>6. EmptyFromFile'
    BY <1>2, <2>3, <2>4 DEF IndInv, EmptyFromFile, IsReal
  <2>7. enabled => HasToken'
    BY <1>2, <2>3, <2>4 DEF IndInv, EmptyFromFile, HasToken, IsReal
  <2> QED BY <1>1, <2>3, <2>5, <2>6, <2>7, KeepsInv DEF Keeps, ExposedHasToken
<1>4. CASE RegenerateToken(Main)
  <2>1. PICK t \in Token : config' = [config EXCEPT !.token = t]
    BY <1>4 DEF RegenerateToken
  <2>2. config'.token = t /\ IsReal(t)
    BY <1>2, <2>1, ConfigAssumption DEF Config, IsReal
  <2> QED
    BY <1>1, <2>2, KeepsInv DEF Keeps, ExposedHasToken, HasToken, EmptyFromFile, IsReal
<1> QED BY <1>3, <1>4

\* The exposure check lets an address other machines reach pass only when
\* exposed, and then there is a token.
LEMMA CheckExposeInv ==
    ASSUME IndInv, TypeOK', NEW p \in Proc, CheckExpose(p)
    PROVE  IndInv'
<1>1. PastCheck'
  BY DEF CheckExpose, Goto, Return, PastCheck, IndInv, ExposedHasToken, HasToken, TypeOK
<1>2. UNCHANGED <<config, config_json, server>> /\ EmptyFromFile'
  BY DEF CheckExpose, Goto, Return, EmptyFromFile, IndInv, TypeOK
<1> QED BY <1>1, <1>2 DEF IndInv, ExposedHasToken, BoundHasToken, HasToken

\* A bind binds the address that passed the check.
LEMMA BindInv ==
    ASSUME IndInv, TypeOK', NEW p \in Proc, Bind(p)
    PROVE  IndInv'
<1>1. loc[p].addr \notin Loopback => HasToken
  BY DEF Bind, IndInv, PastCheck
<1>2. HasToken' = HasToken /\ UNCHANGED <<config, config_json>>
  BY DEF Bind, HasToken
<1>3. BoundHasToken'
  BY <1>1, <1>2 DEF Bind, IndInv, BoundHasToken, TypeOK, Servers
<1>4. PastCheck'
  BY <1>2 DEF Bind, Goto, Return, IndInv, PastCheck, TypeOK
<1>5. EmptyFromFile'
  BY DEF Bind, Goto, Return, IndInv, EmptyFromFile, TypeOK
<1> QED BY <1>2, <1>3, <1>4, <1>5 DEF IndInv, ExposedHasToken

\* The rest of set_listen_addr binds nothing, checks nothing new and leaves
\* the token alone.
LEMMA LaterInv ==
    ASSUME IndInv, TypeOK', NEW p \in Proc,
           \/ CheckChanged(p) \/ SetAddr(p) \/ SnapshotConfig(p) \/ SaveConfig(p)
           \/ TakeSender(p) \/ TakeHandle(p) \/ AwaitStop(p) \/ Spawn(p)
           \/ StoreHandle(p) \/ StoreSender(p)
    PROVE  IndInv'
<1> USE DEF IndInv
<1>1. Unchecked
  BY DEF CheckChanged, SetAddr, SnapshotConfig, SaveConfig, TakeSender, TakeHandle,
         AwaitStop, Spawn, StoreHandle, StoreSender, Goto, Return, Unchecked, TypeOK
<1>2. Keeps
  <2>1. config'.token = config.token /\ config'.expose = config.expose
    BY DEF CheckChanged, SetAddr, SnapshotConfig, SaveConfig, TakeSender, TakeHandle,
           AwaitStop, Spawn, StoreHandle, StoreSender, TypeOK, Config
  <2>2. config.token = "" => config_json'.token = ""
    BY DEF CheckChanged, SetAddr, SnapshotConfig, SaveConfig, TakeSender, TakeHandle,
           AwaitStop, Spawn, StoreHandle, StoreSender, EmptyFromFile
  <2>3. ASSUME config.token = "", NEW q \in Proc, pc'[q] = "save"
        PROVE  loc'[q].snap.token = ""
    <3>1. CASE SnapshotConfig(p)
      BY <2>3, <3>1 DEF SnapshotConfig, Goto, EmptyFromFile, TypeOK, Locals
    <3>2. CASE ~SnapshotConfig(p)
      <4>1. pc[q] = "save" /\ (loc'[q] = loc[q] \/ loc'[q].snap = loc[q].snap)
        BY <2>3, <3>2
        DEF CheckChanged, SetAddr, SaveConfig, TakeSender, TakeHandle, AwaitStop,
            Spawn, StoreHandle, StoreSender, Goto, Return, TypeOK, Locals
      <4> QED BY <2>3, <4>1 DEF EmptyFromFile
    <3> QED BY <3>1, <3>2
  <2> QED BY <2>1, <2>2, <2>3 DEF Keeps, ExposedHasToken, HasToken, EmptyFromFile
<1>3. CASE UNCHANGED server
  BY <1>1, <1>2, <1>3, KeepsInv DEF Unbound
<1>4. CASE TakeSender(p) \/ StoreSender(p) \/ Spawn(p)
  <2>1. Unbound
    BY <1>4, LiveUnbound, DropUnbound
    DEF TakeSender, StoreSender, Spawn, Spawned, TypeOK, Locals
  <2> QED BY <1>1, <1>2, <2>1, KeepsInv
<1> QED
  BY <1>3, <1>4
  DEF CheckChanged, SetAddr, SnapshotConfig, SaveConfig, TakeHandle, AwaitStop,
      StoreHandle

\* A set_listen_addr call begins, or a server is on its way out.
LEMMA AsideInv ==
    ASSUME IndInv, TypeOK',
           \/ \E p \in Task : SetListenAddr(p)
           \/ \E s \in Server : ServerStep(s)
    PROVE  IndInv'
<1> USE DEF IndInv
<1>1. ASSUME NEW p \in Task, SetListenAddr(p) PROVE IndInv'
  <2>1. Unchecked /\ Unbound /\ Keeps
    BY <1>1 DEF SetListenAddr, Begin, Goto, Unchecked, Unbound, Keeps, HasToken,
                ExposedHasToken, EmptyFromFile, TypeOK, Proc, Locals
  <2> QED BY <2>1, KeepsInv
<1>2. ASSUME NEW s \in Server, ServerStep(s) PROVE IndInv'
  <2>1. Unbound
    BY <1>2, LiveUnbound DEF ServerStep, Drain, Finish
  <2>2. Unchecked /\ Keeps
    BY <1>2 DEF ServerStep, Drain, Finish, Unchecked, Keeps, HasToken,
                ExposedHasToken, EmptyFromFile
  <2> QED BY <2>1, <2>2, KeepsInv
<1> QED BY <1>1, <1>2

\* A restart is as good as a start.
LEMMA RestartInv == IndInv /\ TypeOK' /\ Restart => IndInv'
<1> SUFFICES ASSUME IndInv, TypeOK', Restart PROVE IndInv'
  OBVIOUS
<1>1. config_json \in Config /\ config' \in Sanitized(config_json)
  BY DEF Restart, IndInv, TypeOK
<1>2. /\ config' \in Config
      /\ config'.expose => HasToken'
      /\ config'.addr \notin Loopback => HasToken'
      /\ config'.token = "" => config_json'.token = ""
  BY <1>1, SanitizedType DEF HasToken, Restart
<1>3. \A s \in Server : server'[s].addr = config'.addr
  BY <1>2, FirstServerType DEF Restart, Config
<1> QED
  BY <1>2, <1>3
  DEF Restart, IndInv, ExposedHasToken, PastCheck, BoundHasToken, EmptyFromFile

\* Every step preserves the invariant.
LEMMA NextInv == IndInv /\ [Next]_vars => IndInv'
<1> SUFFICES ASSUME IndInv, [Next]_vars PROVE IndInv'
  OBVIOUS
<1>1. TypeOK'
  BY TypeStep DEF IndInv
<1>2. CASE Issue \/ \E s \in Server : ServerStep(s)
  BY <1>1, <1>2, MainInv, AsideInv DEF Issue
<1>3. ASSUME NEW p \in Proc, Step(p) PROVE IndInv'
  BY <1>1, <1>3, CheckExposeInv, BindInv, LaterInv DEF Step
<1>4. CASE Restart
  BY <1>1, <1>4, RestartInv
<1>5. CASE UNCHANGED vars
  BY <1>1, <1>5
  DEF vars, IndInv, ExposedHasToken, PastCheck, BoundHasToken, HasToken, EmptyFromFile
<1> QED BY <1>2, <1>3, <1>4, <1>5 DEF Next, Quiet

\* Every state of every run satisfies the invariant, whatever config.json was
\* found with.
THEOREM Invariant == Spec => []IndInv
BY InitInv, NextInv, PTL DEF Spec

\* However many calls of set_listen_addr, set_expose_to_network and
\* regenerate_proxy_token interleave, and across restarts, a socket that other
\* machines reach is never without a gateway token, but for the "" of a
\* hand-edited config.json that is still in the file.
THEOREM ReachableNeverTokenless == Spec => []ReachableHasToken
<1>1. IndInv => ReachableHasToken
  BY DEF IndInv, BoundHasToken, ReachableHasToken, Listening
<1> QED BY Invariant, <1>1, PTL

\* An exposed proxy is never tokenless, whatever config.json was found with; the
\* one exception is the "" of a hand-edited config.json, still in the file.
THEOREM ExposedNeverTokenless == Spec => []ExposedHasToken
<1>1. IndInv => ExposedHasToken
  BY DEF IndInv
<1> QED BY Invariant, <1>1, PTL

\* The exception does not outlive the process: a start mints a token for a
\* proxy that config.json exposes with "".
THEOREM StartsWithToken ==
    Spec => /\ config.expose => IsReal(config.token)
            /\ [][Restart => (config'.expose => IsReal(config'.token))]_vars
<1>1. Init => (config.expose => IsReal(config.token))
  BY SanitizedType DEF Init
<1>2. TypeOK /\ [Next]_vars =>
        (Restart => (config'.expose => IsReal(config'.token)))
  BY SanitizedType DEF TypeOK, Restart
<1> QED BY <1>1, <1>2, TypeCorrect, PTL DEF Spec
-----------------------------------------------------------------------------
(* One set_listen_addr at a time: every change of the listen address hands *)
(* over from one server to the next, and stop has released the old socket  *)
(* when it returns, whatever the main thread's commands do meanwhile.      *)
(* With two calls of set_listen_addr under way the second takes what the   *)
(* first has not stored yet: the run ProxyLifecycle_hang shows what becomes*)
(* of that.                                                                *)

\* The main thread's commands have two steps: they change the configuration and
\* save it.
MainSaves == pc[Main] \in {"idle", "snapshot", "save"}

\* No server but those of S has its socket or a task.
Only(S) == \A s \in Server \ S : server[s].life \in {"free", "failed", "gone"}

Leaving == {"failed", "stopping", "draining", "gone"}

Early == {"idle", "expose_check", "changed_check", "bind"}

\* s was spawned on the configured address and ProxyTask holds both ends of it.
Serves(s) ==
    /\ server[s].addr = config.addr /\ server[s].life \in Spawned
    /\ handle = s /\ shutdown = s
    /\ Only({s})

\* The server bound by p's call.
New(p, lives) == server[loc[p].id].addr = loc[p].addr
                   /\ server[loc[p].id].life \in lives

\* How far p's call, the only one, has handed over from the server o to the
\* one it has bound.
HandOver(p) ==
    LET n == loc[p].id IN
    /\ pc[p] \in Early => \E s \in Server : Serves(s)
    /\ pc[p] \in {"set_addr", "snapshot", "save", "take_sender"} =>
         /\ New(p, {"bound"})
         /\ \E o \in Server \ {n} :
              /\ server[o].life \in Spawned /\ handle = o /\ shutdown = o
              /\ Only({o, n})
    /\ pc[p] = "take_handle" =>
         /\ New(p, {"bound"}) /\ shutdown = None
         /\ \E o \in Server \ {n} :
              server[o].life \in Leaving /\ handle = o /\ Only({o, n})
    /\ pc[p] = "await" =>
         /\ New(p, {"bound"}) /\ shutdown = None /\ handle = None
         /\ LET o == loc[p].awaits IN
              /\ o \in Server \ {n} /\ server[o].life \in Leaving
              /\ Only({o, n})
    /\ pc[p] = "spawn" =>
         New(p, {"bound"}) /\ shutdown = None /\ handle = None /\ Only({n})
    /\ pc[p] = "store_handle" =>
         New(p, Spawned) /\ shutdown = None /\ handle = None /\ Only({n})
    /\ pc[p] = "store_sender" =>
         New(p, Spawned) /\ shutdown = None /\ handle = n /\ Only({n})
    /\ pc[p] \in {"snapshot", "save", "take_sender", "take_handle", "await",
                  "spawn", "store_handle", "store_sender"} =>
         config.addr = loc[p].addr

\* Every step keeps the main thread to its two steps.
LEMMA MainStep == TypeOK /\ MainSaves /\ [Next]_vars => MainSaves'
<1> SUFFICES ASSUME TypeOK, MainSaves, [Next]_vars PROVE MainSaves'
  OBVIOUS
<1>0. pc \in [Proc -> Label] /\ Main \in Proc /\ Main \notin Task /\ Task \subseteq Proc
  BY ConfigAssumption DEF TypeOK, Proc
<1> USE DEF Goto, Return, MainSaves
<1>1. CASE Issue
  BY <1>0, <1>1 DEF Issue, SetListenAddr, SetExpose, RegenerateToken
<1>2. ASSUME NEW p \in Proc, Step(p) PROVE MainSaves'
  BY <1>0, <1>2 DEF Step, CheckExpose, CheckChanged, Bind, SetAddr, SnapshotConfig,
     SaveConfig, TakeSender, TakeHandle, AwaitStop, Spawn, StoreHandle, StoreSender
<1>3. ASSUME NEW s \in Server, ServerStep(s) PROVE MainSaves'
  BY <1>3 DEF ServerStep, Drain, Finish
<1>4. CASE Restart
  BY <1>0, <1>4 DEF Restart
<1>5. CASE UNCHANGED vars \/ Quiet
  BY <1>5 DEF vars, Quiet
<1> QED BY <1>1, <1>2, <1>3, <1>4, <1>5 DEF Next

\* Init establishes it.
LEMMA MainInit == Init => MainSaves
BY DEF Init, MainSaves, Proc

\* The first server serves, and no other.
LEMMA FirstServes ==
    ASSUME NEW a, NEW first \in FirstServer(a)
    PROVE  /\ 0 \in Server
           /\ first[0].addr = a /\ first[0].life \in Spawned
           /\ \A s \in Server \ {0} : first[s].life = "free"
BY InitialTypes DEF FirstServer, Spawned

\* None is not a server.
LEMMA NoneIsNone == None \notin Server
<1>1. Server \subseteq Nat
  BY Bounds DEF Server
<1>2. None \notin Nat
  BY ConfigAssumption
<1> QED BY <1>1, <1>2

\* What leaves the servers, what ProxyTask holds, the address and the call
\* alone keeps the hand-over.
LEMMA HandOverFrame ==
    ASSUME NEW p \in Proc, HandOver(p),
           UNCHANGED <<server, handle, shutdown>>, config'.addr = config.addr,
           pc'[p] = pc[p], loc'[p].id = loc[p].id, loc'[p].addr = loc[p].addr,
           loc'[p].awaits = loc[p].awaits
    PROVE  HandOver(p)'
BY DEF HandOver, Serves, New, Only

\* A step of the call keeps the hand-over.
LEMMA HandOverStep ==
    ASSUME TypeOK, NEW p \in Task, HandOver(p), Step(p)
    PROVE  HandOver(p)'
<1>0. /\ pc \in [Proc -> Label] /\ loc \in [Proc -> Locals] /\ server \in Servers
      /\ loc[p].id \in Server /\ None \notin Server
      /\ p \in Proc /\ p # Main
  BY NoneIsNone, ConfigAssumption DEF TypeOK, Locals, Proc
<1> USE DEF Goto, Return
<1>2. ASSUME UNCHANGED <<server, handle, shutdown>>, config'.addr = config.addr,
             pc[p] \in Early, pc'[p] \in Early
      PROVE  HandOver(p)'
  BY <1>2 DEF HandOver, Serves, Only, Early
<1>3. CASE CheckExpose(p) \/ CheckChanged(p)
  BY <1>0, <1>2, <1>3 DEF CheckExpose, CheckChanged, Early
<1>4. CASE Bind(p)
  <2>1. CASE Return(p) /\ UNCHANGED server
    BY <1>0, <1>2, <1>4, <2>1 DEF Bind, Early
  <2>2. ASSUME NEW n \in Server, IsFresh(n),
               server' = [server EXCEPT ![n] = [addr |-> loc[p].addr, life |-> "bound"]],
               loc' = [loc EXCEPT ![p].id = n], Goto(p, "set_addr")
        PROVE  HandOver(p)'
    <3>1. PICK o \in Server : Serves(o)
      BY <1>4 DEF HandOver, Bind, Early
    <3>2. o # n /\ \A s \in Server \ {o, n} : server[s].life \in {"free", "failed", "gone"}
      BY <2>2, <3>1 DEF Serves, IsFresh, Only, Spawned
    <3>3. /\ loc'[p].id = n /\ loc'[p].addr = loc[p].addr /\ pc'[p] = "set_addr"
          /\ server'[n] = [addr |-> loc[p].addr, life |-> "bound"]
          /\ \A s \in Server \ {n} : server'[s] = server[s]
      BY <1>0, <2>2, <1>4 DEF Locals, Servers, Bind
    <3>4. handle' = o /\ shutdown' = o /\ server'[o].life \in Spawned
      BY <1>4, <3>1, <3>2, <3>3 DEF Bind, Serves
    <3> QED BY <3>2, <3>3, <3>4 DEF HandOver, New, Only, Early
  <2> QED BY <1>4, <2>1, <2>2 DEF Bind
<1>5. CASE SetAddr(p)
  BY <1>0, <1>5 DEF SetAddr, HandOver, New, Only, TypeOK, Config, Early
<1>6. CASE SnapshotConfig(p)
  <2>1. /\ pc[p] = "snapshot" /\ pc'[p] = "save"
        /\ loc'[p].id = loc[p].id /\ loc'[p].addr = loc[p].addr
        /\ UNCHANGED <<server, handle, shutdown, config>>
    BY <1>0, <1>6 DEF SnapshotConfig, Locals
  <2> QED BY <2>1 DEF HandOver, New, Only, Early
<1>7. CASE SaveConfig(p)
  BY <1>0, <1>7 DEF SaveConfig, HandOver, New, Only, Early
<1>8. CASE TakeSender(p)
  <2>1. PICK o \in Server \ {loc[p].id} :
          /\ server[o].life \in Spawned /\ handle = o /\ shutdown = o
          /\ Only({o, loc[p].id})
    BY <1>0, <1>8 DEF TakeSender, HandOver
  <2>2. /\ New(p, {"bound"}) /\ config.addr = loc[p].addr
        /\ pc[p] = "take_sender" /\ pc'[p] = "take_handle" /\ shutdown' = None
        /\ UNCHANGED <<config, loc, handle>>
    BY <1>0, <1>8 DEF TakeSender, HandOver
  <2>3. /\ server'[o].life \in Leaving
        /\ \A s \in Server \ {o} : server'[s] = server[s]
    <3>1. CASE server[o].life = "serving"
      <4>1. server' = [server EXCEPT ![o].life = "stopping"]
        BY <1>0, <1>8, <2>1, <3>1 DEF TakeSender, DropSender, Live
      <4> QED BY <1>0, <4>1 DEF Servers, Leaving
    <3>2. CASE server[o].life = "failed"
      <4>1. server' = server
        BY <1>8, <2>1, <3>2 DEF TakeSender, DropSender
      <4> QED BY <3>2, <4>1 DEF Leaving
    <3> QED BY <2>1, <3>1, <3>2 DEF Spawned
  <2> QED BY <1>0, <2>1, <2>2, <2>3 DEF HandOver, New, Only, Early
<1>9. CASE TakeHandle(p)
  <2>1. /\ pc[p] = "take_handle" /\ handle \in Server \ {loc[p].id}
        /\ server[handle].life \in Leaving /\ Only({handle, loc[p].id})
        /\ New(p, {"bound"}) /\ shutdown = None /\ config.addr = loc[p].addr
    BY <1>0, <1>9 DEF TakeHandle, HandOver
  <2>2. /\ pc'[p] = "await" /\ loc'[p].awaits = handle
        /\ loc'[p].id = loc[p].id /\ loc'[p].addr = loc[p].addr
        /\ handle' = None /\ UNCHANGED <<server, shutdown, config>>
    BY <1>0, <1>9, <2>1 DEF TakeHandle, Locals
  <2> QED BY <2>1, <2>2 DEF HandOver, New, Only, Early
<1>10. CASE AwaitStop(p)
  BY <1>0, <1>10 DEF AwaitStop, HandOver, New, Only, Early
<1>11. CASE Spawn(p)
  <2>1. /\ pc[p] = "spawn" /\ pc'[p] = "store_handle"
        /\ New(p, {"bound"}) /\ shutdown = None /\ handle = None
        /\ Only({loc[p].id}) /\ config.addr = loc[p].addr
    BY <1>0, <1>11 DEF Spawn, HandOver
  <2>2. PICK life \in Spawned : Live(loc[p].id, life)
    BY <1>11 DEF Spawn
  <2>3. /\ server'[loc[p].id].addr = loc[p].addr /\ server'[loc[p].id].life = life
        /\ \A s \in Server \ {loc[p].id} : server'[s] = server[s]
    BY <1>0, <2>1, <2>2 DEF Live, New, Servers
  <2> QED BY <1>11, <2>1, <2>3 DEF Spawn, HandOver, New, Only, Early
<1>12. CASE StoreHandle(p)
  BY <1>0, <1>12 DEF StoreHandle, HandOver, New, Only, Early
<1>13. CASE StoreSender(p)
  <2>1. /\ New(p, Spawned) /\ shutdown = None /\ handle = loc[p].id
        /\ Only({loc[p].id}) /\ config.addr = loc[p].addr
    BY <1>0, <1>13 DEF StoreSender, HandOver
  <2>2. /\ server' = server /\ shutdown' = loc[p].id /\ handle' = handle
        /\ config' = config /\ pc'[p] = "idle"
    BY <1>0, <1>13, <2>1 DEF StoreSender, DropSender
  <2>3. PICK n \in Server : n = loc[p].id
    BY <1>0
  <2>4. Serves(n)'
    BY <2>1, <2>2, <2>3 DEF Serves, New, Only
  <2> QED BY <1>0, <2>2, <2>4 DEF HandOver, Early
<1> QED
  BY <1>3, <1>4, <1>5, <1>6, <1>7, <1>8, <1>9, <1>10, <1>11, <1>12, <1>13 DEF Step

\* So does the server that is on its way out.
LEMMA HandOverServer ==
    ASSUME TypeOK, NEW s \in Server, ServerStep(s), NEW p \in Task, HandOver(p)
    PROVE  HandOver(p)'
<1>1. /\ server[s].life \in {"stopping", "draining"}
      /\ server'[s].life \in {"draining", "gone"}
      /\ \A t \in Server \ {s} : server'[t] = server[t]
      /\ UNCHANGED <<config, handle, shutdown, pc, loc>>
  BY DEF ServerStep, Drain, Finish, Live, TypeOK, Servers
<1>2. loc[p].id \in Server
  BY DEF TypeOK, Locals, Proc
<1>3. ASSUME NEW t \in Server, Serves(t) PROVE Serves(t)'
  BY <1>1, <1>3 DEF Serves, Only, Spawned
<1>4. /\ New(p, {"bound"}) => New(p, {"bound"})' /\ s # loc[p].id
      /\ New(p, Spawned) => New(p, Spawned)'
  BY <1>1, <1>2 DEF New, Spawned
<1>5. ASSUME NEW S, Only(S) PROVE Only(S)' /\ s \in S
  BY <1>1, <1>5 DEF Only
<1>6. pc[p] \in Early => \E t \in Server : Serves(t)'
  BY <1>3 DEF HandOver
<1> HIDE DEF Serves, New, Only
<1>7. pc[p] \notin {"set_addr", "snapshot", "save", "take_sender"}
  <2> SUFFICES ASSUME pc[p] \in {"set_addr", "snapshot", "save", "take_sender"}
               PROVE  FALSE
    OBVIOUS
  <2>1. PICK o \in Server \ {loc[p].id} :
          server[o].life \in Spawned /\ Only({o, loc[p].id}) /\ New(p, {"bound"})
    BY DEF HandOver
  <2>2. s \in {o, loc[p].id}
    BY <1>5, <2>1
  <2> QED BY <1>1, <1>4, <2>1, <2>2 DEF Spawned
<1>8. pc[p] = "take_handle" =>
        \E o \in Server \ {loc[p].id} :
          handle = o /\ server'[o].life \in Leaving /\ Only({o, loc[p].id})'
  BY <1>1, <1>5 DEF HandOver, Leaving
<1>9. pc[p] = "await" =>
        LET o == loc[p].awaits
        IN  server'[o].life \in Leaving /\ Only({o, loc[p].id})'
  BY <1>1, <1>5 DEF HandOver, Leaving
<1>10. pc[p] \in {"spawn", "store_handle", "store_sender"} => Only({loc[p].id})'
  BY <1>1, <1>5 DEF HandOver
<1> QED
  BY <1>1, <1>4, <1>6, <1>7, <1>8, <1>9, <1>10 DEF HandOver

\* Every step keeps the hand-over of the one task.
LEMMA HandOverNext ==
    ASSUME NEW t, Task = {t}
    PROVE  TypeOK /\ MainSaves /\ HandOver(t) /\ [Next]_vars => HandOver(t)'
<1> SUFFICES ASSUME TypeOK, MainSaves, HandOver(t), [Next]_vars PROVE HandOver(t)'
  OBVIOUS
<1>0. /\ t \in Task /\ Proc = {t, Main} /\ t # Main /\ t \in Proc /\ Main \in Proc
      /\ pc \in [Proc -> Label] /\ loc \in [Proc -> Locals]
  BY ConfigAssumption DEF Proc, TypeOK
<1>1. CASE SetListenAddr(t)
  <2>1. /\ pc[t] = "idle" /\ pc'[t] = "expose_check"
        /\ UNCHANGED <<config, server, handle, shutdown>>
    BY <1>0, <1>1 DEF SetListenAddr, Begin, Goto
  <2>2. PICK s \in Server : Serves(s)
    BY <2>1 DEF HandOver, Early
  <2>3. Serves(s)'
    BY <2>1, <2>2 DEF Serves, Only
  <2> QED BY <2>1, <2>3 DEF HandOver
<1>2. CASE SetExpose(Main) \/ RegenerateToken(Main)
  <2>1. config'.addr = config.addr
    BY <1>2 DEF SetExpose, RegenerateToken, TypeOK, Config
  <2>2. /\ pc'[t] = pc[t] /\ UNCHANGED <<loc, server, handle, shutdown>>
    BY <1>0, <1>2 DEF SetExpose, RegenerateToken, Begin, Goto
  <2> QED BY <1>0, <2>1, <2>2, HandOverFrame
<1>3. CASE Step(t)
  BY <1>0, <1>3, HandOverStep
<1>4. CASE Step(Main)
  <2>1. SnapshotConfig(Main) \/ SaveConfig(Main)
    BY <1>4 DEF MainSaves, Step, CheckExpose, CheckChanged, Bind, SetAddr, TakeSender,
       TakeHandle, AwaitStop, Spawn, StoreHandle, StoreSender
  <2>2. /\ pc'[t] = pc[t] /\ loc'[t] = loc[t]
        /\ UNCHANGED <<config, server, handle, shutdown>>
    BY <1>0, <2>1 DEF SnapshotConfig, SaveConfig, Goto, Return
  <2> QED BY <1>0, <2>2, HandOverFrame
<1>5. ASSUME NEW s \in Server, ServerStep(s) PROVE HandOver(t)'
  BY <1>0, <1>5, HandOverServer
<1>6. CASE Restart
  <2>1. Serves(0)' /\ 0 \in Server /\ pc'[t] = "idle"
    BY <1>0, <1>6, FirstServes DEF Restart, Serves, Only
  <2> QED BY <2>1 DEF HandOver
<1>7. CASE UNCHANGED vars \/ Quiet
  BY <1>0, <1>7, HandOverFrame DEF vars, Quiet
<1> QED BY <1>0, <1>1, <1>2, <1>3, <1>4, <1>5, <1>6, <1>7 DEF Next, Issue

\* Init establishes it.
LEMMA HandOverInit ==
    ASSUME NEW t, Task = {t}
    PROVE  Init => HandOver(t)
<1> SUFFICES ASSUME Init PROVE HandOver(t)
  OBVIOUS
<1>1. Serves(0) /\ 0 \in Server /\ pc[t] = "idle"
  BY FirstServes DEF Init, Serves, Only, Proc
<1> QED BY <1>1 DEF HandOver

\* While no address change is under way ProxyTask holds both ends of one server,
\* on the configured address, and no other is left: the next stop will find it.
\* One set_listen_addr runs at a time; the main thread's commands may interleave.
THEOREM ServerIsConfigured ==
    ASSUME NEW t, Task = {t}
    PROVE  Spec => []ServerMatchesConfig
<1>1. TypeOK /\ MainSaves /\ [Next]_vars => MainSaves'
  BY MainStep
<1>2. TypeOK /\ MainSaves /\ HandOver(t) /\ [Next]_vars => HandOver(t)'
  BY HandOverNext
<1>3. HandOver(t) => ServerMatchesConfig
  <2> SUFFICES ASSUME HandOver(t), pc[t] = "idle" PROVE
        \E s \in Server : /\ server[s].addr = config.addr
                          /\ \/ server[s].life = "serving" /\ Listening = {s}
                             \/ server[s].life = "failed" /\ Listening = {}
                          /\ handle = s /\ shutdown = s
    BY DEF ServerMatchesConfig
  <2>1. PICK s \in Server : Serves(s)
    BY DEF HandOver, Early
  <2>2. /\ server[s].life = "serving" => Listening = {s}
        /\ server[s].life = "failed" => Listening = {}
    BY <2>1 DEF Serves, Only, Listening
  <2> QED BY <2>1, <2>2 DEF Serves, Spawned
<1>4. Init => HandOver(t)
  BY HandOverInit
<1> QED BY <1>1, <1>2, <1>3, <1>4, MainInit, TypeCorrect, PTL DEF Spec

\* stop returns only when no server takes connections but the one bound for
\* the caller: the old socket is released.  One set_listen_addr runs at a time;
\* the main thread's commands may interleave.
THEOREM StopHasReleased ==
    ASSUME NEW t, Task = {t}
    PROVE  Spec => StopReleases
<1>1. TypeOK /\ MainSaves /\ [Next]_vars => MainSaves'
  BY MainStep
<1>2. TypeOK /\ MainSaves /\ HandOver(t) /\ [Next]_vars => HandOver(t)'
  BY HandOverNext
<1>3. ASSUME TypeOK, MainSaves, HandOver(t), [Next]_vars, NEW p \in Proc,
             pc[p] \in {"take_handle", "await"}, pc'[p] = "spawn"
      PROVE  Listening' \subseteq {loc[p].id}
  <2>0. /\ p = t /\ t # Main /\ Proc = {t, Main} /\ None \notin Server
        /\ pc \in [Proc -> Label] /\ loc[t].id \in Server
    BY <1>3, NoneIsNone, ConfigAssumption DEF MainSaves, Proc, TypeOK, Locals
  <2>1. Step(t)
    <3>1. ~SetListenAddr(t) /\ ~SetExpose(Main) /\ ~RegenerateToken(Main)
      BY <1>3, <2>0 DEF SetListenAddr, SetExpose, RegenerateToken, Begin, Goto
    <3>2. ~Restart /\ ~Quiet /\ pc' # pc /\ \A s \in Server : ~ServerStep(s)
      BY <1>3 DEF Restart, Quiet, vars, ServerStep, Drain, Finish
    <3>3. ~Step(Main)
      BY <1>3, <2>0 DEF MainSaves, Step, CheckExpose, CheckChanged, Bind, SetAddr,
         SnapshotConfig, SaveConfig, TakeSender, TakeHandle, AwaitStop, Spawn,
         StoreHandle, StoreSender, Goto, Return
    <3> QED BY <1>3, <2>0, <3>1, <3>2, <3>3 DEF Next, Issue, vars
  <2>2. AwaitStop(t)
    <3>1. pc[t] = "take_handle" => handle # None
      BY <1>3, <2>0 DEF HandOver
    <3>2. ~TakeHandle(t)
      BY <1>3, <2>0, <3>1 DEF TakeHandle, Goto
    <3> QED
      BY <1>3, <2>0, <2>1, <3>2 DEF Step, CheckExpose, CheckChanged, Bind, SetAddr,
         SnapshotConfig, SaveConfig, TakeSender, Spawn, StoreHandle, StoreSender
  <2>3. /\ Only({loc[t].awaits, loc[t].id}) /\ server' = server
        /\ server[loc[t].awaits].life \in {"failed", "gone"}
    BY <1>3, <2>2 DEF AwaitStop, HandOver
  <2> QED BY <2>0, <2>3 DEF Only, Listening
<1>4. TypeOK /\ MainSaves /\ HandOver(t) /\ [Next]_vars =>
        \A p \in Proc : pc[p] \in {"take_handle", "await"} /\ pc'[p] = "spawn"
          => Listening' \subseteq {loc[p].id}
  BY <1>3
<1>5. Init => HandOver(t)
  BY HandOverInit
<1> QED
  BY <1>1, <1>2, <1>4, <1>5, MainInit, TypeCorrect, PTL DEF Spec, StopReleases
=============================================================================
