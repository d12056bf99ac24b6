---------------------------- MODULE EndpointUrl ----------------------------
(***************************************************************************)
(* What an endpoint URL means: RuntimeConfig::active_api and base_url and  *)
(* validate_endpoint_url of proxy-core/src/settings.rs, endpoint_key of    *)
(* state.rs, and the settings window's versions of them (validation.js).   *)
(*                                                                         *)
(* A URL is a sequence of tokens: words, and the characters the code looks *)
(* at.  A token is never a proper part of what the code compares, so       *)
(* prefixes and suffixes of the text are those of the sequence.  The two   *)
(* slashes after the scheme are tokens like any other slash: the code that *)
(* looks for a suffix sees them too.                                       *)
(***************************************************************************)
EXTENDS SequencesExt

Scheme == {"http:", "https:"}
AnyCaseScheme == Scheme \cup {"HTTPS:"}
Slash == {"/"}
Blank == {" "}
Delimiter == {"/", "?", "#"}

Api == {"chat", "responses", "messages"}
NoApi == "none"     \* None, and every error of the validation

Suffix == [chat |-> <<"/", "chat", "/", "completions">>,
           responses |-> <<"/", "responses">>,
           messages |-> <<"/", "messages">>]

\* s up to its last token outside C (trim_end_matches).
TrimEnd(s, C) == SubSeq(s, 1, SelectLastInSeq(s, LAMBDA t : t \notin C))

\* s without the blanks around it (trim).
Trim(s) ==
    LET kept == TrimEnd(s, Blank)
        first == SelectInSeq(kept, LAMBDA t : t \notin Blank)
    IN  IF first = 0 THEN <<>> ELSE SubSeq(kept, first, Len(kept))

\* Mutant: the suffix need not start at a slash.
ApiOfWord(s) ==
    IF s # <<>> /\ \E a \in Api : Last(s) = Last(Suffix[a])
    THEN CHOOSE a \in Api : Last(s) = Last(Suffix[a]) ELSE NoApi

\* The API whose suffix s ends in: no two suffixes end alike.
ApiOf(s) ==
    IF \E a \in Api : IsSuffix(Suffix[a], s)
    THEN CHOOSE a \in Api : IsSuffix(Suffix[a], s) ELSE NoApi

ActiveApi(url) == ApiOf(TrimEnd(url, Slash))

\* Mutant: the slash before the suffix is left on the base.
BaseUrlUntrimmed(url) ==
    LET u == TrimEnd(url, Slash)
    IN  SubSeq(u, 1, Len(u) - Len(Suffix[ActiveApi(url)]))

\* base_url, when it is Some.
BaseUrl(url) ==
    LET u == TrimEnd(url, Slash)
    IN  TrimEnd(SubSeq(u, 1, Len(u) - Len(Suffix[ActiveApi(url)])), Slash)

IsConfigured(url) == ActiveApi(url) # NoApi

\* The key of ui_state.json under which the endpoint's preferences are kept.
EndpointKey(url) == IF IsConfigured(url) THEN BaseUrl(url) ELSE url
-----------------------------------------------------------------------------
(* validate_endpoint_url.                                                  *)

HasScheme(u, schemes) ==
    Len(u) >= 3 /\ u[1] \in schemes /\ u[2] = "/" /\ u[3] = "/"

AfterScheme(u) == SubSeq(u, 4, Len(u))

\* How many tokens precede the first delimiter.
AuthorityLength(rest) ==
    LET first == SelectInSeq(rest, LAMBDA t : t \in Delimiter)
    IN  IF first = 0 THEN Len(rest) ELSE first - 1

Authority(rest) == SubSeq(rest, 1, AuthorityLength(rest))

\* No query and no fragment: what follows the authority is the path.
EndsInPath(url) == Range(url) \cap {"?", "#"} = {}

\* The rest after the authority.  The code calls it the path, and its docs ask
\* for a suffix "of the URL's path"; but a query and a fragment are part of it,
\* so `https://h/x?y/responses` is accepted for its query.
Path(rest) == TrimEnd(SubSeq(rest, AuthorityLength(rest) + 1, Len(rest)), Slash)

\* The API of a URL that is accepted, NoApi for one that is refused.
ValidateEndpointUrl(url) ==
    LET u == Trim(url)
        rest == AfterScheme(u)
    IN  IF /\ HasScheme(u, Scheme)
           /\ Authority(rest) # <<>>
           /\ ~Contains(Authority(rest), "@")
        THEN ApiOf(Path(rest)) ELSE NoApi
-----------------------------------------------------------------------------
(* validation.js.                                                          *)

DetectApi(url) == ApiOf(TrimEnd(Trim(url), Slash))

\* The mode chips of the window: the suffix of `api` for the one the URL has.
RewriteSuffix(url, api) ==
    LET u == TrimEnd(Trim(url), Slash)
        base == IF ApiOf(u) = NoApi THEN u
                ELSE SubSeq(u, 1, Len(u) - Len(Suffix[ApiOf(u)]))
    IN  TrimEnd(base, Slash) \o Suffix[api]

WindowAccepts(url) ==
    /\ HasScheme(Trim(url), AnyCaseScheme)
    /\ DetectApi(url) # NoApi
-----------------------------------------------------------------------------
(* What the rest of the program relies on, for one URL.                    *)

\* A URL without blanks around it that passes validation is configured, with
\* the API that validation reported, and its base has the URL's own host.
ValidMeansConfigured(url) ==
    (ValidateEndpointUrl(url) # NoApi /\ Trim(url) = url) =>
        /\ ActiveApi(url) = ValidateEndpointUrl(url)
        /\ HasScheme(BaseUrl(url), Scheme)
        /\ Authority(AfterScheme(BaseUrl(url))) = Authority(AfterScheme(url))

\* A mode chip clicked on a valid URL gives a valid URL of the other API with
\* the same base, so the preferences kept for the endpoint stay its own.
ModeKeepsBase(url) ==
    \A api \in Api :
        (ValidateEndpointUrl(url) # NoApi /\ Trim(url) = url) =>
            LET new == RewriteSuffix(url, api) IN
              /\ ValidateEndpointUrl(new) = api
              /\ EndpointKey(new) = EndpointKey(url)

\* The window asks for nothing less than the backend: what the backend
\* accepts, it accepts, with the same API.
WindowNotStricter(url) ==
    ValidateEndpointUrl(url) # NoApi =>
        WindowAccepts(url) /\ DetectApi(url) = ValidateEndpointUrl(url)
=============================================================================
