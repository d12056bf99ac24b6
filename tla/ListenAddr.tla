----------------------------- MODULE ListenAddr -----------------------------
(***************************************************************************)
(* What a listen address means: validate_listen_addr, listen_host and      *)
(* is_loopback_listen_addr of proxy-core/src/settings.rs, local_base_url   *)
(* and listen_port of commands.rs, and the settings window's versions      *)
(* (validation.js).                                                        *)
(*                                                                         *)
(* An address is a sequence of tokens: brackets, colons, blanks and words, *)
(* where a word is all the text between two of those.                      *)
(***************************************************************************)
EXTENDS SequencesExt

CONSTANTS
    HostWord,       \* words of letters, digits, '-' and '.'
    HexWord,        \* those of hexadecimal digits only
    PortWord,       \* those that parse as a u16 other than 0
    DigitPort,      \* those of them that are one to five digits
    SignedPort,     \* those of them with a plus sign
    Loopback4,      \* 127.0.0.0/8 and localhost in any case
    Dotted127,      \* words that begin with "127."
    Wildcard4,      \* 0.0.0.0
    Loopback6       \* the spellings of ::1, as sequences of tokens

Blank == {" "}
Special == {"[", "]", ":"} \cup Blank

ASSUME WordAssumption ==
    /\ Special \cap (HostWord \cup PortWord) = {}
    /\ HexWord \subseteq HostWord
    /\ DigitPort \cup SignedPort \subseteq PortWord /\ DigitPort \cap SignedPort = {}
    /\ Loopback4 \cup Dotted127 \cup Wildcard4 \subseteq HostWord
    /\ Wildcard4 \cap (Loopback4 \cup HexWord) = {}
    /\ "127.0.0.1" \in Loopback4 \cap Dotted127
    /\ "1" \in HexWord /\ "8080" \in DigitPort
    /\ <<":", ":", "1">> \in Loopback6
    /\ \A host \in Loopback6 : ":" \in Range(host)

NoHost == <<"none">>    \* None
NoPort == <<"none">>

Trim(s) ==
    LET last == SelectLastInSeq(s, LAMBDA t : t \notin Blank)
        first == SelectInSeq(s, LAMBDA t : t \notin Blank)
    IN  IF first = 0 THEN <<>> ELSE SubSeq(s, first, last)

Bracketed(a) == a # <<>> /\ a[1] = "["
Close(a) == SelectInSeq(a, LAMBDA t : t = "]")
LastColon(a) == SelectLastInSeq(a, LAMBDA t : t = ":")

\* listen_host
ListenHost(addr) ==
    LET a == Trim(addr) IN
      IF Bracketed(a)
      THEN IF Close(a) = 0 THEN NoHost ELSE SubSeq(a, 2, Close(a) - 1)
      ELSE IF LastColon(a) = 0 THEN NoHost ELSE SubSeq(a, 1, LastColon(a) - 1)

\* listen_port
ListenPort(addr) ==
    LET a == Trim(addr) IN
      IF Bracketed(a)
      THEN IF Close(a) = 0 \/ Close(a) = Len(a) \/ a[Close(a) + 1] # ":"
           THEN NoPort ELSE SubSeq(a, Close(a) + 2, Len(a))
      ELSE IF LastColon(a) = 0 THEN NoPort ELSE SubSeq(a, LastColon(a) + 1, Len(a))

IsPort(port, words) == \E w \in words : port = <<w>>

\* validate_listen_addr
ValidateListenAddr(addr) ==
    LET host == ListenHost(addr) IN
      /\ host # NoHost /\ ListenPort(addr) # NoPort
      /\ host # <<>>
      /\ Range(host) \subseteq IF Bracketed(Trim(addr)) THEN HexWord \cup {":"}
                               ELSE HostWord
      /\ IsPort(ListenPort(addr), PortWord)

\* Mutant: whatever begins like a loopback address is one.
LoopbackByPrefix(addr) ==
    LET host == ListenHost(addr) IN
      \/ host # <<>> /\ host[1] \in Dotted127 \cup Loopback4
      \/ host \in Loopback6

\* is_loopback_listen_addr
IsLoopback(addr) ==
    LET host == ListenHost(addr) IN
      \/ \E w \in Loopback4 : host = <<w>>
      \/ host \in Loopback6

\* Mutant: the agent is sent to the address that was bound.
AsBound(addr) == Trim(addr)

\* local_base_url, without the scheme: where a local agent is sent.
LocalAddr(addr) ==
    LET a == Trim(addr)
        port == ListenPort(a)
    IN  IF IsLoopback(a) THEN a
        ELSE <<"127.0.0.1", ":">> \o (IF port = NoPort THEN <<"8080">> ELSE port)
-----------------------------------------------------------------------------
(* validation.js.                                                          *)

WindowHost(addr) ==
    LET a == Trim(addr) IN
      IF Bracketed(a)
      THEN IF Close(a) = 0 THEN <<>> ELSE SubSeq(a, 2, Close(a) - 1)
      ELSE IF LastColon(a) = 0 THEN a ELSE SubSeq(a, 1, LastColon(a) - 1)

WindowLoopback(addr) ==
    LET host == WindowHost(addr) IN
      \/ host # <<>> /\ host[1] \in Dotted127
      \/ host \in {<<"localhost">>, <<":", ":", "1">>}

WindowAccepts(addr) ==
    LET a == Trim(addr) IN
      /\ IF Bracketed(a) THEN Close(a) > 2 ELSE LastColon(a) > 1
      /\ IsPort(ListenPort(a), DigitPort)
-----------------------------------------------------------------------------
(* What the rest of the program relies on, for one address.                *)

\* The address a local agent is given is itself valid, is loopback, and has
\* the port of the listen address: the agent never needs the gateway token.
LocalStaysLocal(addr) ==
    ValidateListenAddr(addr) =>
        /\ ValidateListenAddr(LocalAddr(addr))
        /\ IsLoopback(LocalAddr(addr))
        /\ ListenPort(LocalAddr(addr)) = ListenPort(addr)
=============================================================================
