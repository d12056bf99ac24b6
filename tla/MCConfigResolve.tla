-------------------------- MODULE MCConfigResolve --------------------------
(***************************************************************************)
(* Instances of ConfigResolve for TLC: two directories, and config.json    *)
(* files that vary in one field at a time: every URL of up to MaxUrl tokens *)
(* after the scheme, every address of up to MaxAddr, and a few whole files. *)
(***************************************************************************)
EXTENDS ConfigResolve

CONSTANTS exe, cwd, MaxUrl, MaxAddr

\* Contents that are no configuration.
MCAbsent == [file |-> "absent"]
garbage1 == [file |-> "cut short"]
garbage2 == [file |-> "other fields"]

MCHostWord == {"127.0.0.1", "localhost", "0.0.0.0", "192.168.1.5", "127.evil",
               "cafe", "0", "1", "8080", "9090"}
MCHexWord == {"cafe", "0", "1", "8080", "9090"}
MCPortWord == {"8080", "9090", "1", "+8080"}
MCDigitPort == {"8080", "9090", "1"}
MCSignedPort == {"+8080"}
MCLoopback4 == {"127.0.0.1", "localhost"}
MCDotted127 == {"127.0.0.1", "127.evil"}
MCWildcard4 == {"0.0.0.0"}
MCLoopback6 == {<<":", ":", "1">>, <<"0", ":", ":", "1">>}
MCResolved == {"127.0.0.1", "localhost", "0.0.0.0", "192.168.1.5", "cafe"}

UrlToken == {"/", "@", "?", "chat", "completions", "responses", " "}
UrlTail == UNION {[1..n -> UrlToken] : n \in 0..MaxUrl}
SomeUrls == {<<"http:", "/", "/">> \o t : t \in UrlTail}
              \cup {<<"HTTPS:", "/", "/", "h">> \o Url!Suffix["chat"]}

AddrToken == {"[", "]", ":", " ", "127.0.0.1", "0.0.0.0", "127.evil", "8080"}
AddrText == UNION {[1..n -> AddrToken] : n \in 0..MaxAddr}

Lan == <<"192.168.1.5", ":", "8080">>
All == <<"0.0.0.0", ":", "8080">>
Six == <<"[", ":", ":", "1", "]", ":", "9090">>
SpeltOut == <<"[", "0", ":", ":", "1", "]", ":", "9090">>
SignedSix == <<"[", ":", ":", "1", "]", ":", "+8080">>
AllSix == <<"[", ":", ":", "]", ":", "9090">>
Padded == DefaultAddr \o <<" ">>
Signed == <<"127.0.0.1", ":", "+8080">>
Named == <<"1", ":", "8080">>
InBrackets == <<"[", "cafe", "]", ":", "8080">>
Chat == <<"http:", "/", "/", "h">> \o Url!Suffix["chat"]

\* Files that vary in one field.
UrlFiles == {[DefaultConfig EXCEPT !.url = u] : u \in SomeUrls}
AddrFiles == {[DefaultConfig EXCEPT !.addr = a, !.expose = e] :
                a \in AddrText \cup {Six, SpeltOut, AllSix, Signed, SignedSix, Named,
                                   InBrackets}, e \in BOOLEAN}
FewFiles == {[addr |-> a, url |-> u, expose |-> e, token |-> t] :
               a \in {DefaultAddr, Lan, Padded}, u \in {<<>>, Chat}, e \in BOOLEAN,
               t \in Tokenless}
Broken == {garbage1, garbage2}

InExe(contents) == {(exe :> c @@ cwd :> Absent) : c \in contents}
Everywhere == {(exe :> c @@ cwd :> d) :
                 c \in {Absent, garbage1, DefaultConfig},
                 d \in {Absent, garbage2, [DefaultConfig EXCEPT !.url = Chat]}}
Seeds == {Absent, Unparsable,
          [addr |-> Lan, base |-> <<"http:", "/", "/", "h", "/">>, api |-> "responses"]}

MCDisks == [json : InExe(UrlFiles \cup AddrFiles \cup FewFiles), toml : InExe({Absent})]
             \cup [json : Everywhere, toml : {(exe :> Unparsable @@ cwd :> d) : d \in Seeds}]
MCSearched == {<<exe, cwd>>, <<exe, exe>>}
MCEdits == {Absent, garbage2, [DefaultConfig EXCEPT !.addr = Lan, !.expose = TRUE]}

\* The files with an unusual text take part in one start and no more; what may
\* follow a start is explored from the files with usual texts.
UsualUrl == {<<>>} \cup {Url!RewriteSuffix(Chat, api) : api \in Url!Api}
UsualAddr == {DefaultAddr, Lan, All, Six, Padded}
AllUsual == \A d \in Dir :
    IsDoc(json[d]) => json[d].url \in UsualUrl /\ json[d].addr \in UsualAddr
MCNext == \/ AllUsual /\ Next
          \/ ~AllUsual /\ StartUp /\ starts' <= 1
MCSpec == Init /\ [][MCNext]_vars
MCTypedUrl == {Chat, <<" ">> \o Chat}
MCTypedAddr == {Lan, All, Six, Padded}
=============================================================================
