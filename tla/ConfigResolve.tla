--------------------------- MODULE ConfigResolve ---------------------------
(***************************************************************************)
(* config.json from one run of the app to the next: resolve_config and     *)
(* sanitize_config (src-tauri/src/config_resolve.rs), the legacy seed      *)
(* (proxy-core/src/config.rs), RuntimeConfig::load and save (settings.rs), *)
(* the bind of main.rs, and the commands that change the configuration.    *)
(*                                                                         *)
(* Start-up looks at one file per step and may be cut short by the death   *)
(* of the process at any of them.  A command's change of memory and its    *)
(* save are one step: a death between them leaves what a failed save       *)
(* leaves.  Files are edited by hand while the app is not running.         *)
(***************************************************************************)
EXTENDS ListenAddr

Url == INSTANCE EndpointUrl

CONSTANTS
    Dir,            \* directories
    NoDir,
    Searched,       \* the lists candidate_dirs may return
    Absent,         \* in place of contents: no such file
    Garbage,        \* contents of config.json that do not load
    Torn,           \* what a failed copy may leave
    Unparsable,     \* a config.toml that is refused
    Disks,          \* the config.json and config.toml files found by a first
                    \* start: [json : [Dir -> ...], toml : [Dir -> ...]]
    Edits,          \* what the user may put in place of a config.json
    TypedUrl,       \* endpoints and addresses the user may enter
    TypedAddr,
    ResolvedName,   \* host words that the resolver maps to a local interface
    DiskMayFail,    \* whether a save or a copy may fail
    MaxStarts,      \* bound: starts of the process
    MaxCalls,       \* bound: commands
    MaxEdits        \* bound: edits by hand

ConfigField == {"addr", "url", "expose", "token"}

ASSUME ResolveAssumption ==
    /\ NoDir \notin Dir
    /\ Searched \subseteq Seq(Dir) \ {<<>>}
    /\ \A disk \in Disks : DOMAIN disk.json = Dir
    /\ \A content \in Garbage \cup {Absent} : DOMAIN content # ConfigField
    /\ Loopback4 \cup Wildcard4 \subseteq ResolvedName
    /\ ResolvedName \subseteq HostWord
    /\ DiskMayFail \in BOOLEAN
    /\ MaxStarts \in Nat /\ MaxCalls \in Nat /\ MaxEdits \in Nat

\* Tokens: None, a hand-written "", and generated ones, numbered.
NoToken == 0
EmptyToken == 1
Tokenless == {NoToken, EmptyToken}

\* Texts are finite sequences of tokens.
IsText(s) == s \in Seq(Range(s))

\* What loads has the fields of RuntimeConfig (or of the legacy Config) with their
\* types; a token in it by hand is "".
ASSUME ContentAssumption ==
    /\ \A content \in (UNION {Range(disk.json) : disk \in Disks}) \cup Edits :
         content \notin Garbage \cup {Absent} =>
           /\ DOMAIN content = ConfigField
           /\ IsText(content.addr) /\ IsText(content.url)
           /\ content.expose \in BOOLEAN /\ content.token \in Tokenless
    /\ \A disk \in Disks : DOMAIN disk.toml = Dir
    /\ \A legacy \in (UNION {Range(disk.toml) : disk \in Disks}) \ {Absent, Unparsable} :
         IsText(legacy.addr) /\ IsText(legacy.base) /\ legacy.api \in Url!Api
    /\ \A text \in TypedUrl \cup TypedAddr : IsText(text)

DefaultAddr == <<"127.0.0.1", ":", "8080">>
DefaultConfig ==
    [addr |-> DefaultAddr, url |-> <<>>, expose |-> FALSE, token |-> NoToken]

VARIABLES
    json, bak, toml,    \* config.json, config.json.bak and config.toml
    phase,              \* where the process is
    dirs, at,           \* the directories searched, and the current one
    corrupt_dir,        \* where start-up found its first corrupt file
    backup,             \* what became of its copy
    dir,                \* where config.json is persisted
    config,             \* the configuration in memory
    saved,              \* whether the last save succeeded
    minted,             \* the last generated token
    starts, calls, edits

files == <<json, bak, toml>>
search == <<dirs, corrupt_dir, backup>>
bounds == <<starts, calls, edits>>
vars == <<files, phase, at, search, dir, config, saved, minted, bounds>>

IsDoc(content) == content \notin Garbage \cup {Absent}
Here == dirs[at]

Init ==
    /\ \E disk \in Disks : json = disk.json /\ toml = disk.toml
    /\ bak = [d \in Dir |-> Absent]
    /\ phase = "down"
    /\ dirs \in Searched /\ at = 1
    /\ corrupt_dir = NoDir /\ backup = "none"
    /\ dir = NoDir /\ config = DefaultConfig
    /\ saved = TRUE /\ minted = EmptyToken
    /\ starts = 0 /\ calls = 0 /\ edits = 0
-----------------------------------------------------------------------------
(* sanitize_config                                                         *)

\* Mutant: an address that does not validate is kept.
UncheckedAddr(doc) ==
    IF IsLoopback(doc.addr) \/ doc.expose THEN doc.addr ELSE DefaultAddr

SafeAddr(doc) ==
    IF ValidateListenAddr(doc.addr) /\ (IsLoopback(doc.addr) \/ doc.expose)
    THEN doc.addr ELSE DefaultAddr

MustMint(doc) == doc.expose /\ doc.token \in Tokenless

Sanitized(doc) ==
    [addr |-> SafeAddr(doc),
     url |-> IF Url!ValidateEndpointUrl(doc.url) = Url!NoApi THEN <<>> ELSE doc.url,
     expose |-> doc.expose,
     token |-> IF MustMint(doc) THEN minted + 1 ELSE doc.token]

Adopt(doc) ==
    /\ config' = Sanitized(doc)
    /\ minted' = IF MustMint(doc) THEN minted + 1 ELSE minted
    /\ dir' = Here
    /\ phase' = "bind"

\* Config::into_runtime
IntoRuntime(legacy) ==
    [DefaultConfig EXCEPT !.addr = legacy.addr,
        !.url = Url!TrimEnd(legacy.base, Url!Slash) \o Url!Suffix[legacy.api]]

\* Mutant: the first directory is written, wherever the file was found.
SaveToFirst(d) ==
    \/ json' = [json EXCEPT ![dirs[1]] = config'] /\ saved' = TRUE
    \/ DiskMayFail /\ json' = json /\ saved' = FALSE

\* RuntimeConfig::save of the configuration in memory.
Save(d) ==
    \/ json' = [json EXCEPT ![d] = config'] /\ saved' = TRUE
    \/ DiskMayFail /\ json' = json /\ saved' = FALSE
-----------------------------------------------------------------------------
(* resolve_config_in                                                       *)

Start ==
    /\ phase = "down" /\ starts < MaxStarts
    /\ starts' = starts + 1
    /\ phase' = "search" /\ at' = 1
    /\ dirs' \in Searched
    /\ corrupt_dir' = NoDir /\ backup' = "none"
    /\ config' = DefaultConfig /\ dir' = NoDir /\ saved' = TRUE
    /\ UNCHANGED <<files, minted, calls, edits>>

\* Mutant: the search runs past the last directory.
NextDirPastEnd(after) ==
    IF at <= Len(dirs) THEN at' = at + 1 /\ phase' = phase
    ELSE at' = 1 /\ phase' = after

\* The next directory, or after the last one the next phase.
NextDir(after) ==
    IF at < Len(dirs) THEN at' = at + 1 /\ phase' = phase
    ELSE at' = 1 /\ phase' = after

NoJson ==
    /\ phase = "search" /\ json[Here] = Absent
    /\ NextDir("migrate")
    /\ UNCHANGED <<files, search, dir, config, saved, minted, bounds>>

\* Mutant: the sanitized values are written back.
LoadAndRewrite ==
    /\ phase = "search" /\ IsDoc(json[Here])
    /\ Adopt(json[Here])
    /\ json' = [json EXCEPT ![Here] = config']
    /\ UNCHANGED <<bak, toml, at, search, saved, bounds>>

LoadJson ==
    /\ phase = "search" /\ IsDoc(json[Here])
    /\ Adopt(json[Here])
    /\ UNCHANGED <<files, at, search, saved, bounds>>

\* Mutant: the copy is forgotten.
SkipCorrupt ==
    /\ phase = "search" /\ json[Here] \in Garbage
    /\ corrupt_dir' = IF corrupt_dir = NoDir THEN Here ELSE corrupt_dir
    /\ backup' = "saved"
    /\ NextDir("migrate")
    /\ UNCHANGED <<files, dirs, dir, config, saved, minted, bounds>>

\* The first file that does not load is copied to config.json.bak.
BackUpCorrupt ==
    /\ phase = "search" /\ json[Here] \in Garbage
    /\ IF corrupt_dir # NoDir
       THEN UNCHANGED <<bak, corrupt_dir, backup>>
       ELSE /\ corrupt_dir' = Here
            /\ \/ bak' = [bak EXCEPT ![Here] = json[Here]] /\ backup' = "saved"
               \/ /\ DiskMayFail /\ backup' = "failed"
                  /\ \E left \in {bak[Here], Torn} : bak' = [bak EXCEPT ![Here] = left]
    /\ NextDir("migrate")
    /\ UNCHANGED <<json, toml, dirs, dir, config, saved, minted, bounds>>

NoToml ==
    /\ phase = "migrate" /\ toml[Here] \in {Absent, Unparsable}
    /\ NextDir("seed")
    /\ UNCHANGED <<files, search, dir, config, saved, minted, bounds>>

MigrateToml ==
    /\ phase = "migrate" /\ toml[Here] \notin {Absent, Unparsable}
    /\ Adopt(IntoRuntime(toml[Here]))
    /\ Save(Here)
    /\ UNCHANGED <<bak, toml, at, search, bounds>>

SeedDefaults ==
    /\ phase = "seed"
    /\ config' = DefaultConfig
    /\ dir' = IF corrupt_dir # NoDir THEN corrupt_dir ELSE dirs[1]
    /\ Save(dir')
    /\ phase' = "bind"
    /\ UNCHANGED <<bak, toml, at, search, minted, bounds>>
-----------------------------------------------------------------------------
(* main: the bind, whose failure shows show_startup_error and exits.  The  *)
(* port is taken to be free.                                               *)

\* Whether the host is one of this machine; in brackets, a number and no name.
Resolves(addr) ==
    \/ ~Bracketed(addr) /\ \E w \in ResolvedName : ListenHost(addr) = <<w>>
    \/ Bracketed(addr) /\ ListenHost(addr) \in Loopback6 \cup {<<":", ":">>}

\* The standard library reads a number in brackets together with its port, and
\* then takes no sign; failing that it looks the host up by name, brackets and all.
PortReads(addr) == ~(Bracketed(addr) /\ IsPort(ListenPort(addr), SignedPort))

\* Whether the operating system can bind the text as it is.
Bindable(addr) ==
    /\ IsPort(ListenPort(addr), PortWord) /\ PortReads(addr)
    /\ Trim(addr) = addr
    /\ Resolves(addr)

Bind ==
    /\ phase = "bind"
    /\ phase' = IF Bindable(config.addr) THEN "up" ELSE "refused"
    /\ UNCHANGED <<files, at, search, dir, config, saved, minted, bounds>>
-----------------------------------------------------------------------------
(* Commands.                                                               *)

Command ==
    /\ phase = "up" /\ calls < MaxCalls
    /\ calls' = calls + 1
    /\ UNCHANGED <<bak, toml, phase, at, search, dir, starts, edits>>

\* What the checks of the window and of the app make of the texts the user may
\* enter, trimmed.
Enterable(url) == Url!WindowAccepts(url) /\ Url!ValidateEndpointUrl(url) # Url!NoApi
EnteredUrls == {u \in {Trim(t) : t \in TypedUrl} : Enterable(u)}
EnteredAddrs == {a \in {Trim(t) : t \in TypedAddr} :
                   WindowAccepts(a) /\ ValidateListenAddr(a)}

\* The texts that the mode chips of the window make of the endpoint.
ChipUrls == IF config.url = <<>> THEN {}
            ELSE {u \in {Url!RewriteSuffix(config.url, api) : api \in Url!Api} :
                    Enterable(u)}

SetEndpoint ==
    /\ Command
    /\ \E url \in EnteredUrls \cup ChipUrls : config' = [config EXCEPT !.url = url]
    /\ Save(dir) /\ UNCHANGED minted

SetListenAddr ==
    /\ Command
    /\ \E addr \in EnteredAddrs :
         /\ (WindowLoopback(addr) /\ IsLoopback(addr)) \/ config.expose
         /\ Trim(config.addr) # addr
         /\ Bindable(addr)
         /\ config' = [config EXCEPT !.addr = addr]
    /\ Save(dir) /\ UNCHANGED minted

SetExposeToNetwork ==
    /\ Command
    /\ \E enabled \in BOOLEAN : LET mint == enabled /\ config.token = NoToken IN
         /\ config' = [config EXCEPT !.expose = enabled,
                                     !.token = IF mint THEN minted + 1 ELSE @]
         /\ minted' = IF mint THEN minted + 1 ELSE minted
    /\ Save(dir)

RegenerateProxyToken ==
    /\ Command
    /\ minted' = minted + 1
    /\ config' = [config EXCEPT !.token = minted']
    /\ Save(dir)
-----------------------------------------------------------------------------
Die ==
    /\ phase # "down"
    /\ phase' = "down"
    /\ UNCHANGED <<files, at, search, dir, config, saved, minted, bounds>>

EditByHand ==
    /\ phase = "down" /\ edits < MaxEdits
    /\ edits' = edits + 1
    /\ \E d \in Dir, content \in Edits : json' = [json EXCEPT ![d] = content]
    /\ UNCHANGED <<bak, toml, phase, at, search, dir, config, saved, minted,
                   starts, calls>>

StartUp ==
    \/ Start \/ NoJson \/ LoadJson \/ BackUpCorrupt \/ NoToml \/ MigrateToml
    \/ SeedDefaults \/ Bind

Next ==
    \/ StartUp
    \/ SetEndpoint \/ SetListenAddr \/ SetExposeToNetwork \/ RegenerateProxyToken
    \/ Die \/ EditByHand

Spec == Init /\ [][Next]_vars
-----------------------------------------------------------------------------
IsConfig(c) == /\ DOMAIN c = ConfigField
               /\ c.expose \in BOOLEAN /\ c.token \in 0..minted

TypeOK ==
    /\ \A d \in Dir : /\ IsDoc(json[d]) => IsConfig(json[d])
                      /\ IsDoc(bak[d]) => bak[d] = Torn
    /\ phase \in {"down", "search", "migrate", "seed", "bind", "up", "refused"}
    /\ dirs \in Searched /\ at \in 1..Len(dirs)
    /\ corrupt_dir \in Dir \cup {NoDir}
    /\ backup \in {"none", "saved", "failed"}
    /\ dir \in Dir \cup {NoDir}
    /\ IsConfig(config)
    /\ saved \in BOOLEAN
    /\ starts \in 0..MaxStarts /\ calls \in 0..MaxCalls /\ edits \in 0..MaxEdits

\* Start-up never writes a config.json that loads, whatever is wrong with its
\* values: it "remains the user's source of truth" (resolve_config).
SourceOfTruth ==
    [][\A d \in Dir : (phase # "up" /\ phase # "down" /\ IsDoc(json[d]))
                        => json'[d] = json[d]]_vars

\* A config.json that does not load is replaced by the app only if start-up
\* copied it to config.json.bak, or could not: "preserve the original before any
\* further resolution can overwrite it".  It holds for the first such file of
\* the search; a second one, beside a config.toml, is overwritten uncopied.
CorruptIsKept ==
    [][\A d \in Dir :
         (phase # "down" /\ json[d] \in Garbage /\ json'[d] # json[d])
           => bak[d] = json[d] \/ backup = "failed" \/ corrupt_dir # d]_vars

\* While the app runs and its last save succeeded, a restart that searches the
\* same directories finds the same configuration: the directory persisted to is
\* the first with a file that loads, and what the file says survives the checks
\* of start-up.  Two things do not survive: an address beyond loopback kept
\* after exposure was switched off, and a token generated by start-up itself.
RestartResumes ==
    (phase = "up" /\ saved) =>
        LET first == Min({i \in DOMAIN dirs : IsDoc(json[dirs[i]])})
            doc == json[dirs[first]]
            again == Sanitized(doc)
        IN  /\ dirs[first] = dir
            /\ again.url = config.url /\ again.expose = config.expose
            /\ (config.expose \/ IsLoopback(config.addr)) => again.addr = config.addr
            /\ again.token = config.token \/ MustMint(doc)

\* Whatever config.json holds, the address that start-up binds is one of this
\* machine only, unless exposure is on and there is a token: no text passes for
\* a loopback address that the operating system would take for another.
StartsGuarded ==
    phase = "bind" =>
        \/ \E w \in Loopback4 : ListenHost(config.addr) = <<w>>
        \/ Bracketed(Trim(config.addr)) /\ ListenHost(config.addr) \in Loopback6
        \/ config.expose /\ config.token \notin Tokenless

\* A start ends in the error dialog only for a host that does not resolve, for a
\* text with blanks around it (the checks of start-up trim the address and keep
\* it as it is, while the bind takes it literally), or for a number in brackets
\* whose port has a plus sign, which the checks accept and the bind does not.
\* Any other text that cannot be bound has "fallen back to a safe value" before.
RefusedOnlyByName ==
    phase = "refused" =>
        \/ Trim(config.addr) # config.addr
        \/ ValidateListenAddr(config.addr) /\ ~(Resolves(config.addr) /\ PortReads(config.addr))

\* The endpoint that start-up or a command accepted is one that requests can be
\* sent to: its API is the one validated, its base keeps its scheme and host,
\* and the window would accept it again; a mode chip of the window turns it into
\* one of another API under the same preference key.  (With blanks around it, a
\* hand-edited URL is accepted and yet not configured.)  It is claimed of a URL
\* that ends in its path, as settings.rs asks: one whose query or fragment ends
\* in a suffix is accepted too, and every path of the API goes into its query.
EndpointUsable ==
    (phase = "up" /\ config.url # <<>> /\ Url!EndsInPath(config.url)) =>
        /\ Url!ValidMeansConfigured(config.url)
        /\ Url!WindowNotStricter(config.url)
        /\ Url!ModeKeepsBase(config.url)

\* The address a local agent is given is valid and loopback, has the port of the
\* proxy, and so needs no gateway token.  That a socket bound to one address of
\* the machine takes a connection to 127.0.0.1 is not claimed: it does not.
AgentStaysLocal == phase = "up" => LocalStaysLocal(config.addr)
=============================================================================
