---------------------------- MODULE ProxyRequest ----------------------------
(***************************************************************************)
(* Requests through the proxy: gateway_auth and proxy_handler of           *)
(* proxy-core/src/proxy.rs, and the traffic log of state.rs, composed with *)
(* the commands of AppState that change what a request reads on its way.   *)
(*                                                                         *)
(* A request runs on a worker thread of its own and reads the key, the     *)
(* base URL, the API kind and the model (or the slots) one lock at a time, *)
(* so a command may change any of them between two reads.  Requests overlap*)
(* at will: their records and their answers reach the log in any order.    *)
(***************************************************************************)
EXTENDS AppState

CONSTANTS
    ApiOf,          \* ApiOf[e]: "chat" (chat and responses), "messages"
    Request,        \* requests; each is sent once
    Token,          \* gateway tokens: "" (a hand-edited one) may be among them
    NoToken,        \* no token configured, or none presented
    Status,         \* upstream HTTP statuses
    NoStatus,       \* no answer yet
    NoRequest,
    Client,         \* what a request may carry: peer, auth token, model field
    Key             \* API keys the user may enter: "ok", "bad"

\* What the `model` field of a request body can be: the proxy-cc label of a
\* slot, some other name, or no such field.  "other" and "absent" go upstream
\* as they are.
Field == Slot \cup {"other", "absent"}
Sent == Model \cup {NoModel} \cup Field

ASSUME RequestAssumption ==
    /\ Client \subseteq [peer : {"loopback", "remote"}, auth : Token \cup {NoToken},
                         field : Field]
    /\ Key \subseteq {"ok", "bad"}
    /\ ApiOf \in [Endpoint -> {"chat", "messages"}]
    /\ NoToken \notin Token /\ NoStatus \notin Status /\ NoRequest \notin Request
    /\ Endpoint \ {Unconfigured} # {}
    /\ Slot \cap (Model \cup {NoModel, "other", "absent"}) = {}

VARIABLES
    api_key,        \* "none", "ok", or "bad": not a header value
    proxy_token,    \* the gateway token
    log,            \* request_log: count, model and endpoint of the last
                    \* request, status
    req,            \* req[r]: where request r is, what it carries, its reads
    latest          \* history: the request recorded last

proxy == <<api_key, proxy_token, log, req, latest>>
allVars == <<vars, proxy>>

NewRequest == [at |-> "new", peer |-> "loopback", auth |-> NoToken,
               field |-> "absent", base |-> CHOOSE e \in Endpoint \ {Unconfigured} : TRUE,
               api |-> "chat", model |-> NoModel, sent |-> "absent",
               answer |-> NoStatus]

EmptyLog == [count |-> 0, model |-> NoModel, target |-> Unconfigured,
             status |-> NoStatus]

ProxyInit ==
    /\ Init
    /\ api_key = "none"
    /\ proxy_token \in Token \cup {NoToken}
    /\ log = EmptyLog
    /\ req = [r \in Request |-> NewRequest]
    /\ latest = NoRequest
-----------------------------------------------------------------------------
(* set_api_key, forget_api_key and regenerate_proxy_token: one lock each,  *)
(* on the main thread.  A token is generated, hence never "".              *)

SetApiKey ==
    /\ pc[Main] = "idle"
    /\ api_key' \in {"none"} \cup Key /\ api_key' # api_key
    /\ UNCHANGED <<proxy_token, log, req, latest>>

RegenerateToken ==
    /\ pc[Main] = "idle"
    /\ proxy_token' \in Token \ {"", proxy_token}
    /\ UNCHANGED <<api_key, log, req, latest>>
-----------------------------------------------------------------------------
(* One request.                                                            *)

At(r, label) == req[r].at = label

\* r goes on to `label` and remembers what it read.
Move(r, label, fields) ==
    req' = [req EXCEPT ![r] = [fields EXCEPT !.at = label]]

\* The proxy answers by itself: 400, 401 or 502.
Refuse(r) == Move(r, "refused", req[r])

Arrive(r) ==
    /\ At(r, "new")
    /\ \E c \in Client :
         Move(r, "auth", [req[r] EXCEPT !.peer = c.peer, !.auth = c.auth,
                                        !.field = c.field])
    /\ UNCHANGED <<api_key, proxy_token, log, latest>>

\* Mutant: an empty token is a token.
AuthorizedByEmpty(peer, provided, token) ==
    peer = "loopback" \/ (token # NoToken /\ provided = token)

PeerIsAuthorized(peer, provided, token) ==
    peer = "loopback" \/ (token \notin {NoToken, ""} /\ provided = token)

GatewayAuth(r) ==
    /\ At(r, "auth")
    /\ IF PeerIsAuthorized(req[r].peer, req[r].auth, proxy_token)
       THEN Move(r, "key", req[r])
       ELSE Refuse(r)
    /\ UNCHANGED <<api_key, proxy_token, log, latest>>

\* The body is read first; a body that cannot be read is refused too.
ReadKey(r) ==
    /\ At(r, "key")
    /\ \/ api_key = "ok" /\ Move(r, "base", req[r])
       \/ Refuse(r)
    /\ UNCHANGED <<api_key, proxy_token, log, latest>>

\* Mutant: a request is let through without an endpoint.
ReadAnyBase(r) ==
    /\ At(r, "base")
    /\ Move(r, "api", [req[r] EXCEPT !.base = endpoint])
    /\ UNCHANGED <<api_key, proxy_token, log, latest>>

ReadBase(r) ==
    /\ At(r, "base")
    /\ IF endpoint = Unconfigured
       THEN Refuse(r)
       ELSE Move(r, "api", [req[r] EXCEPT !.base = endpoint])
    /\ UNCHANGED <<api_key, proxy_token, log, latest>>

ReadApi(r) ==
    /\ At(r, "api")
    /\ Move(r, "model", [req[r] EXCEPT !.api = ApiOf[endpoint]])
    /\ UNCHANGED <<api_key, proxy_token, log, latest>>

\* resolve_messages_model: a slot's label becomes the slot's model.  Mutant:
\* the label of an empty slot passes through.
ResolveOrPass(r) ==
    LET f == req[r].field
        m == IF f \in Slot THEN ModelFor(slots, f) ELSE NoModel
    IN  Move(r, "record", [req[r] EXCEPT !.model = m,
                             !.sent = IF f \in Slot /\ m # NoModel THEN m ELSE f])

ResolveMessagesModel(r) ==
    LET f == req[r].field
        m == ModelFor(slots, f)
    IN  IF f \in Slot
        THEN IF m = NoModel
             THEN Refuse(r)
             ELSE Move(r, "record", [req[r] EXCEPT !.model = m, !.sent = m])
        ELSE Move(r, "record", [req[r] EXCEPT !.model = NoModel, !.sent = f])

\* inject_model: a body without the field is left alone.
InjectModel(r) ==
    Move(r, "record",
         [req[r] EXCEPT !.model = selected,
                        !.sent = IF req[r].field = "absent" THEN "absent"
                                 ELSE selected])

ReadModel(r) ==
    /\ At(r, "model")
    /\ IF req[r].api = "messages" THEN ResolveMessagesModel(r) ELSE InjectModel(r)
    /\ UNCHANGED <<api_key, proxy_token, log, latest>>

\* record_request; the request is then sent.
RecordRequest(r) ==
    /\ At(r, "record")
    /\ log' = [count |-> log.count + 1, model |-> req[r].model,
               target |-> req[r].base, status |-> NoStatus]
    /\ latest' = r
    /\ Move(r, "upstream", req[r])
    /\ UNCHANGED <<api_key, proxy_token>>

UpstreamAnswers(r) ==
    /\ At(r, "upstream")
    /\ \E s \in Status : Move(r, "status", [req[r] EXCEPT !.answer = s])
    /\ UNCHANGED <<api_key, proxy_token, log, latest>>

\* Unreachable: 502, and nothing is recorded.
UpstreamFails(r) ==
    /\ At(r, "upstream")
    /\ Move(r, "done", req[r])
    /\ UNCHANGED <<api_key, proxy_token, log, latest>>

\* Mutant: an answer counts as a request once more.
RecordStatusTwice(r) ==
    /\ At(r, "status")
    /\ log' = [log EXCEPT !.status = req[r].answer, !.count = @ + 1]
    /\ Move(r, "done", req[r])
    /\ UNCHANGED <<api_key, proxy_token, latest>>

RecordStatus(r) ==
    /\ At(r, "status")
    /\ log' = [log EXCEPT !.status = req[r].answer]
    /\ Move(r, "done", req[r])
    /\ UNCHANGED <<api_key, proxy_token, latest>>

RequestStep(r) ==
    \/ Arrive(r) \/ GatewayAuth(r) \/ ReadKey(r) \/ ReadBase(r) \/ ReadApi(r)
    \/ ReadModel(r) \/ RecordRequest(r) \/ UpstreamAnswers(r)
    \/ UpstreamFails(r) \/ RecordStatus(r)
-----------------------------------------------------------------------------
\* The key and the log are in memory only; connections die with the process.
ProxyRestart ==
    /\ Restart
    /\ api_key' = "none" /\ log' = EmptyLog /\ latest' = NoRequest
    /\ req' = [r \in Request |-> NewRequest]
    /\ UNCHANGED proxy_token

\* Nothing is under way; the user or a client may still act.
ProxyQuiet == Quiet /\ UNCHANGED proxy

ProxyNext ==
    \/ Progress /\ UNCHANGED proxy
    \/ ProxyRestart
    \/ (SetApiKey \/ RegenerateToken \/ \E r \in Request : RequestStep(r))
         /\ UNCHANGED vars
    \/ ProxyQuiet

ProxySpec == ProxyInit /\ [][ProxyNext]_allVars
-----------------------------------------------------------------------------
ProxyTypeOK ==
    /\ api_key \in {"none", "ok", "bad"}
    /\ proxy_token \in Token \cup {NoToken}
    /\ log \in [count : Nat, model : Model \cup {NoModel},
                target : Endpoint \cup {Unconfigured}, status : Status \cup {NoStatus}]
    /\ req \in [Request ->
                 [at : {"new", "auth", "key", "base", "api", "model", "record",
                        "upstream", "status", "done", "refused"},
                  peer : {"loopback", "remote"}, auth : Token \cup {NoToken},
                  field : Field, base : Endpoint \ {Unconfigured}, api : {"chat", "messages"},
                  model : Model \cup {NoModel}, sent : Sent,
                  answer : Status \cup {NoStatus}]]
    /\ latest \in Request \cup {NoRequest}

Forwarded(r) == req[r].at \in {"upstream", "status", "done"}

\* The log counts the requests that were sent upstream, each once: not the
\* refused ones, and also those that upstream never answered.
CountsForwarded == log.count = Cardinality({r \in Request : Forwarded(r)})

\* A proxy-cc label never reaches the upstream: it is replaced or the request
\* is refused, whatever changes between reading the API and the slots.
LabelsStay == \A r \in Request : Forwarded(r) => req[r].sent \notin Slot

\* A remote client gets past gateway_auth with a non-empty token only, even if
\* the configured one is empty ("fails closed").
RemoteHasToken ==
    \A r \in Request : req[r].at \notin {"new", "auth", "refused"}
        /\ req[r].peer = "remote" => req[r].auth \notin {NoToken, ""}

\* What record_status says it does: the status shown is the one upstream gave
\* "for the most recent request".  The code keeps no link between a status and
\* its request, so the late answer of an earlier one passes for it.
StatusOfLatest ==
    log.status # NoStatus => /\ latest # NoRequest
                             /\ log.status = req[latest].answer

\* r reads its model while the base it has read is still the endpoint.
ReadsModel(r) == At(r, "model") /\ req'[r].at = "record" /\ req[r].base = endpoint

\* It then sends one of that endpoint's models, or none, or what a messages
\* request names itself; a messages request may be wrong only while the slots of
\* a new endpoint have yet to be loaded, which the swap does not cover.
FreshPair ==
    [][\A r \in Request :
         ReadsModel(r) /\ (req[r].api = "messages" => \A p \in Proc : ~SlotsLag(p))
         => req'[r].sent \in Offered(endpoint) \cup {NoModel, "other", "absent"}]_allVars
=============================================================================
