------------------------- MODULE ProxyRequestProofs -------------------------
(***************************************************************************)
(* What TLAPS proves of ProxyRequest: for any requests, clients, tokens    *)
(* and commands, a label never goes upstream, a remote client passes with  *)
(* a real token only, and the log counts what was forwarded, all of them   *)
(* with requests that overlap.                                             *)
(***************************************************************************)
EXTENDS ProxyRequest, AppStateSequentialProofs, FiniteSetTheorems

ReqLabel == {"new", "auth", "key", "base", "api", "model", "record", "upstream",
             "status", "done", "refused"}

ReqRecord == [at : ReqLabel, peer : {"loopback", "remote"}, auth : Token \cup {NoToken},
              field : Field, base : Endpoint \ {Unconfigured}, api : {"chat", "messages"},
              model : Model \cup {NoModel}, sent : Sent, answer : Status \cup {NoStatus}]

\* A request that has its model carries no label.
Resolved == \A r \in Request :
    req[r].at \in {"record", "upstream", "status", "done"} => req[r].sent \notin Slot

Sends == {r \in Request : Forwarded(r)}
Counted == IsFiniteSet(Sends) /\ CountsForwarded

ReqInv == ProxyTypeOK /\ RemoteHasToken /\ Resolved /\ Counted
-----------------------------------------------------------------------------
(* The commands of AppState run on below the requests.                     *)

\* A step of the composition is a step of AppState or changes none of it.
LEMMA IsAppStep == [ProxyNext]_allVars => [Next]_vars
BY DEF ProxyNext, ProxyRestart, ProxyQuiet, Next, allVars

\* So the composition implements AppState.
LEMMA IsApp == ProxySpec => Spec
<1>1. ProxyInit => Init
  BY DEF ProxyInit
<1> QED BY <1>1, IsAppStep, PTL DEF ProxySpec, Spec

\* The types of AppState hold in the composition.
LEMMA AppTypeCorrect == ProxySpec => []TypeOK
BY IsApp, TypeCorrect, PTL
-----------------------------------------------------------------------------
(* Types.                                                                  *)

\* A request that has not arrived is well typed.
LEMMA NewRequestType == NewRequest \in ReqRecord
<1>1. (CHOOSE e \in Endpoint \ {Unconfigured} : TRUE) \in Endpoint \ {Unconfigured}
  BY RequestAssumption
<1> QED BY <1>1 DEF NewRequest, ReqRecord, ReqLabel, Field, Sent

\* Moving on keeps types and the other requests.
LEMMA MoveType ==
    ASSUME ProxyTypeOK, NEW r \in Request, NEW label \in ReqLabel, NEW fields \in ReqRecord,
           Move(r, label, fields)
    PROVE  /\ req' \in [Request -> ReqRecord]
           /\ req'[r] = [fields EXCEPT !.at = label]
           /\ \A q \in Request : q # r => req'[q] = req[q]
<1>1. req \in [Request -> ReqRecord]
  BY DEF ProxyTypeOK, ReqRecord, ReqLabel
<1>2. [fields EXCEPT !.at = label] \in ReqRecord
  BY DEF ReqRecord
<1> QED BY <1>1, <1>2 DEF Move

\* Every step of a request keeps the types.
LEMMA RequestStepType ==
    ASSUME ProxyTypeOK, TypeOK, NEW r \in Request, RequestStep(r)
    PROVE  ProxyTypeOK' /\ \A q \in Request : q # r => req'[q] = req[q]
<1>1. req[r] \in ReqRecord
  BY DEF ProxyTypeOK, ReqRecord, ReqLabel
<1>2. ASSUME NEW label \in ReqLabel, NEW fields \in ReqRecord, Move(r, label, fields),
             UNCHANGED <<api_key, proxy_token, log, latest>>
      PROVE  ProxyTypeOK' /\ \A q \in Request : q # r => req'[q] = req[q]
  <2>1. /\ req' \in [Request -> ReqRecord]
        /\ \A q \in Request : q # r => req'[q] = req[q]
    BY <1>2, MoveType
  <2> QED BY <1>2, <2>1 DEF ProxyTypeOK, ReqRecord, ReqLabel
<1>3. ASSUME Refuse(r), UNCHANGED <<api_key, proxy_token, log, latest>>
      PROVE  ProxyTypeOK' /\ \A q \in Request : q # r => req'[q] = req[q]
  BY <1>1, <1>2, <1>3 DEF Refuse, ReqLabel
<1>4. CASE Arrive(r)
  <2>1. PICK c \in Client :
          Move(r, "auth", [req[r] EXCEPT !.peer = c.peer, !.auth = c.auth, !.field = c.field])
    BY <1>4 DEF Arrive
  <2>2. [req[r] EXCEPT !.peer = c.peer, !.auth = c.auth, !.field = c.field] \in ReqRecord
    BY <1>1, RequestAssumption DEF ReqRecord
  <2> QED BY <1>2, <1>4, <2>1, <2>2 DEF Arrive, ReqLabel
<1>5. CASE GatewayAuth(r)
  BY <1>1, <1>2, <1>3, <1>5 DEF GatewayAuth, ReqLabel
<1>6. CASE ReadKey(r)
  BY <1>1, <1>2, <1>3, <1>6 DEF ReadKey, ReqLabel
<1>7. CASE ReadBase(r)
  <2>1. endpoint # Unconfigured => [req[r] EXCEPT !.base = endpoint] \in ReqRecord
    BY <1>1 DEF ReqRecord, TypeOK
  <2> QED BY <1>2, <1>3, <1>7, <2>1 DEF ReadBase, ReqLabel
<1>8. CASE ReadApi(r)
  <2>1. [req[r] EXCEPT !.api = ApiOf[endpoint]] \in ReqRecord
    BY <1>1, RequestAssumption DEF ReqRecord, TypeOK
  <2> QED BY <1>2, <1>8, <2>1 DEF ReadApi, ReqLabel
<1>9. CASE ReadModel(r)
  <2>1. CASE req[r].api = "messages"
    <3> DEFINE m == ModelFor(slots, req[r].field)
    <3>1. ASSUME req[r].field \in Slot PROVE m \in Model \cup {NoModel}
      BY <3>1 DEF ModelFor, TypeOK, CcSlots
    <3>2. ASSUME req[r].field \in Slot
          PROVE  [req[r] EXCEPT !.model = m, !.sent = m] \in ReqRecord
      <4> HIDE DEF m
      <4> QED BY <1>1, <3>1, <3>2 DEF ReqRecord, Sent
    <3>3. [req[r] EXCEPT !.model = NoModel, !.sent = req[r].field] \in ReqRecord
      BY <1>1 DEF ReqRecord, Sent
    <3> QED BY <1>2, <1>3, <1>9, <2>1, <3>2, <3>3 DEF ReadModel, ResolveMessagesModel, ReqLabel
  <2>2. CASE req[r].api # "messages"
    <3>1. [req[r] EXCEPT !.model = selected,
                         !.sent = IF req[r].field = "absent" THEN "absent" ELSE selected]
            \in ReqRecord
      BY <1>1 DEF ReqRecord, TypeOK, Sent, Field
    <3> QED BY <1>2, <1>9, <2>2, <3>1 DEF ReadModel, InjectModel, ReqLabel
  <2> QED BY <2>1, <2>2
<1>10. CASE RecordRequest(r)
  <2>1. /\ req' \in [Request -> ReqRecord]
        /\ \A q \in Request : q # r => req'[q] = req[q]
    BY <1>1, <1>10, MoveType DEF RecordRequest, ReqLabel
  <2>2. log'.count \in Nat /\ log' \in [count : Nat, model : Model \cup {NoModel},
                target : Endpoint \cup {Unconfigured}, status : Status \cup {NoStatus}]
    BY <1>1, <1>10 DEF RecordRequest, ProxyTypeOK, ReqRecord
  <2> QED BY <1>10, <2>1, <2>2 DEF RecordRequest, ProxyTypeOK, ReqRecord, ReqLabel
<1>11. CASE UpstreamAnswers(r)
  <2>1. PICK s \in Status : Move(r, "status", [req[r] EXCEPT !.answer = s])
    BY <1>11 DEF UpstreamAnswers
  <2>2. [req[r] EXCEPT !.answer = s] \in ReqRecord
    BY <1>1 DEF ReqRecord
  <2> QED BY <1>2, <1>11, <2>1, <2>2 DEF UpstreamAnswers, ReqLabel
<1>12. CASE UpstreamFails(r)
  BY <1>1, <1>2, <1>12 DEF UpstreamFails, ReqLabel
<1>13. CASE RecordStatus(r)
  <2>1. /\ req' \in [Request -> ReqRecord]
        /\ \A q \in Request : q # r => req'[q] = req[q]
    BY <1>1, <1>13, MoveType DEF RecordStatus, ReqLabel
  <2>2. log' \in [count : Nat, model : Model \cup {NoModel},
                target : Endpoint \cup {Unconfigured}, status : Status \cup {NoStatus}]
    BY <1>1, <1>13 DEF RecordStatus, ProxyTypeOK, ReqRecord
  <2> QED BY <1>13, <2>1, <2>2 DEF RecordStatus, ProxyTypeOK, ReqRecord, ReqLabel
<1> QED BY <1>4, <1>5, <1>6, <1>7, <1>8, <1>9, <1>10, <1>11, <1>12, <1>13 DEF RequestStep
-----------------------------------------------------------------------------
(* What a step of a request does to the rest of the invariant.             *)

Passed == {"key", "base", "api", "model", "record", "upstream", "status", "done"}
HasModel == {"record", "upstream", "status", "done"}

\* A request comes past the gateway by gateway_auth alone, gets its model by the
\* read of the model alone, and is counted when it is forwarded.
LEMMA RequestStepEffect ==
    ASSUME ProxyTypeOK, TypeOK, NEW r \in Request, RequestStep(r)
    PROVE  /\ req'[r].at \in Passed =>
                \/ PeerIsAuthorized(req'[r].peer, req'[r].auth, proxy_token)
                \/ /\ req[r].at \in Passed
                   /\ req'[r].peer = req[r].peer /\ req'[r].auth = req[r].auth
           /\ req'[r].at \in HasModel =>
                \/ req'[r].sent \notin Slot
                \/ req[r].at \in HasModel /\ req'[r].sent = req[r].sent
           /\ \/ /\ ~Forwarded(r) /\ Forwarded(r)'
                 /\ log'.count = log.count + 1
              \/ /\ Forwarded(r) <=> Forwarded(r)'
                 /\ log'.count = log.count
<1> USE DEF At, Passed, HasModel, Forwarded
<1>1. req \in [Request -> ReqRecord] /\ req[r] \in ReqRecord
  BY DEF ProxyTypeOK, ReqRecord, ReqLabel
<1>2. ASSUME NEW label, NEW fields, Move(r, label, fields)
      PROVE  req'[r] = [fields EXCEPT !.at = label]
  BY <1>1, <1>2 DEF Move
<1>3. ASSUME Refuse(r), req[r].at \notin HasModel, UNCHANGED log
      PROVE  ~Forwarded(r) /\ req'[r].at = "refused" /\ log'.count = log.count
  <2>1. req'[r] = [req[r] EXCEPT !.at = "refused"]
    BY <1>2, <1>3 DEF Refuse
  <2> QED BY <1>1, <1>3, <2>1 DEF ReqRecord
<1>4. CASE Arrive(r)
  <2>1. PICK c \in Client :
          req'[r] = [[req[r] EXCEPT !.peer = c.peer, !.auth = c.auth, !.field = c.field]
                       EXCEPT !.at = "auth"]
    BY <1>2, <1>4 DEF Arrive
  <2> QED BY <1>1, <1>4, <2>1 DEF Arrive, ReqRecord
<1>5. CASE GatewayAuth(r)
  <2>1. CASE PeerIsAuthorized(req[r].peer, req[r].auth, proxy_token)
    <3>1. req'[r] = [req[r] EXCEPT !.at = "key"]
      BY <1>2, <1>5, <2>1 DEF GatewayAuth
    <3> QED BY <1>1, <1>5, <2>1, <3>1 DEF GatewayAuth, ReqRecord
  <2>2. CASE ~PeerIsAuthorized(req[r].peer, req[r].auth, proxy_token)
    BY <1>3, <1>5, <2>2 DEF GatewayAuth
  <2> QED BY <2>1, <2>2
<1>6. CASE ReadKey(r)
  <2>1. CASE Move(r, "base", req[r])
    <3>1. req'[r] = [req[r] EXCEPT !.at = "base"]
      BY <1>2, <2>1
    <3> QED BY <1>1, <1>6, <3>1 DEF ReadKey, ReqRecord
  <2>2. CASE Refuse(r)
    BY <1>3, <1>6, <2>2 DEF ReadKey
  <2> QED BY <1>6, <2>1, <2>2 DEF ReadKey
<1>7. CASE ReadBase(r)
  <2>1. CASE endpoint # Unconfigured
    <3>1. req'[r] = [[req[r] EXCEPT !.base = endpoint] EXCEPT !.at = "api"]
      BY <1>2, <1>7, <2>1 DEF ReadBase
    <3> QED BY <1>1, <1>7, <3>1 DEF ReadBase, ReqRecord
  <2>2. CASE endpoint = Unconfigured
    BY <1>3, <1>7, <2>2 DEF ReadBase
  <2> QED BY <2>1, <2>2
<1>8. CASE ReadApi(r)
  <2>1. req'[r] = [[req[r] EXCEPT !.api = ApiOf[endpoint]] EXCEPT !.at = "model"]
    BY <1>2, <1>8 DEF ReadApi
  <2> QED BY <1>1, <1>8, <2>1 DEF ReadApi, ReqRecord
<1>9. CASE ReadModel(r)
  <2>1. req[r].at = "model" /\ UNCHANGED log
    BY <1>9 DEF ReadModel
  <2>2. ASSUME NEW m, NEW s, s \notin Slot,
               Move(r, "record", [req[r] EXCEPT !.model = m, !.sent = s])
        PROVE  /\ req'[r].at = "record" /\ req'[r].sent \notin Slot
               /\ req'[r].peer = req[r].peer /\ req'[r].auth = req[r].auth
    <3>1. req'[r] = [[req[r] EXCEPT !.model = m, !.sent = s] EXCEPT !.at = "record"]
      BY <1>2, <2>2
    <3> QED BY <1>1, <2>2, <3>1 DEF ReqRecord
  <2>3. CASE Refuse(r)
    BY <1>3, <2>1, <2>3
  <2>4. CASE InjectModel(r)
    <3>1. (IF req[r].field = "absent" THEN "absent" ELSE selected) \notin Slot
      BY RequestAssumption DEF TypeOK
    <3> QED BY <2>1, <2>2, <2>4, <3>1 DEF InjectModel
  <2>5. CASE ResolveMessagesModel(r)
    <3> DEFINE m == ModelFor(slots, req[r].field)
    <3>1. CASE req[r].field \in Slot
      <4>1. m \in Model \cup {NoModel}
        BY <3>1 DEF ModelFor, TypeOK, CcSlots
      <4>2. m \notin Slot
        BY <4>1, RequestAssumption
      <4> HIDE DEF m
      <4>3. Refuse(r) \/ Move(r, "record", [req[r] EXCEPT !.model = m, !.sent = m])
        BY <2>5, <3>1 DEF ResolveMessagesModel, m
      <4> QED BY <2>1, <2>2, <2>3, <4>2, <4>3
    <3>2. CASE req[r].field \notin Slot
      BY <2>1, <2>2, <2>5, <3>2 DEF ResolveMessagesModel
    <3> QED BY <3>1, <3>2
  <2> QED BY <1>9, <2>4, <2>5 DEF ReadModel
<1>10. CASE RecordRequest(r)
  <2>1. req'[r] = [req[r] EXCEPT !.at = "upstream"]
    BY <1>2, <1>10 DEF RecordRequest
  <2> QED BY <1>1, <1>10, <2>1 DEF RecordRequest, ReqRecord
<1>11. CASE UpstreamAnswers(r)
  <2>1. PICK s : req'[r] = [[req[r] EXCEPT !.answer = s] EXCEPT !.at = "status"]
    BY <1>2, <1>11 DEF UpstreamAnswers
  <2> QED BY <1>1, <1>11, <2>1 DEF UpstreamAnswers, ReqRecord
<1>12. CASE UpstreamFails(r)
  <2>1. req'[r] = [req[r] EXCEPT !.at = "done"]
    BY <1>2, <1>12 DEF UpstreamFails
  <2> QED BY <1>1, <1>12, <2>1 DEF UpstreamFails, ReqRecord
<1>13. CASE RecordStatus(r)
  <2>1. req'[r] = [req[r] EXCEPT !.at = "done"]
    BY <1>2, <1>13 DEF RecordStatus
  <2>2. log'.count = log.count
    BY <1>13 DEF RecordStatus, ProxyTypeOK
  <2> QED BY <1>1, <1>13, <2>1, <2>2 DEF RecordStatus, ReqRecord
<1> QED BY <1>4, <1>5, <1>6, <1>7, <1>8, <1>9, <1>10, <1>11, <1>12, <1>13 DEF RequestStep
-----------------------------------------------------------------------------
(* The invariant.                                                          *)

\* The commands that set the key or the token keep the types.
LEMMA SecretStepType ==
    ASSUME ProxyTypeOK, SetApiKey \/ RegenerateToken
    PROVE  ProxyTypeOK' /\ UNCHANGED <<log, req, latest>>
<1>1. CASE SetApiKey
  BY <1>1, RequestAssumption DEF SetApiKey, ProxyTypeOK
<1>2. CASE RegenerateToken
  BY <1>2 DEF RegenerateToken, ProxyTypeOK
<1> QED BY <1>1, <1>2

\* A process that has just started.
Fresh ==
    /\ api_key = "none" /\ proxy_token \in Token \cup {NoToken}
    /\ log = EmptyLog /\ latest = NoRequest
    /\ req = [r \in Request |-> NewRequest]

\* It serves no request.
LEMMA FreshProcess == Fresh => ReqInv
<1> SUFFICES ASSUME Fresh PROVE ReqInv
  OBVIOUS
<1> USE DEF Fresh
<1>1. \A r \in Request : req[r] = NewRequest /\ req[r].at = "new"
  BY DEF NewRequest
<1>2. ProxyTypeOK
  <2>1. req \in [Request -> ReqRecord]
    BY NewRequestType
  <2>2. log \in [count : Nat, model : Model \cup {NoModel},
                target : Endpoint \cup {Unconfigured}, status : Status \cup {NoStatus}]
    BY DEF EmptyLog
  <2> QED BY <2>1, <2>2 DEF ProxyTypeOK, ReqRecord, ReqLabel
<1>3. RemoteHasToken /\ Resolved
  BY <1>1 DEF RemoteHasToken, Resolved
<1>4. Counted
  <2>1. Sends = {}
    BY <1>1 DEF Sends, Forwarded
  <2> QED BY <2>1, FS_EmptySet DEF Counted, CountsForwarded, Sends, EmptyLog
<1> QED BY <1>2, <1>3, <1>4 DEF ReqInv

\* A step of a request preserves the invariant.
LEMMA RequestStepInv ==
    ASSUME ReqInv, TypeOK, NEW r \in Request, RequestStep(r)
    PROVE  ReqInv'
<1>1. ProxyTypeOK' /\ \A q \in Request : q # r => req'[q] = req[q]
  BY RequestStepType DEF ReqInv
<1>2. RemoteHasToken'
  <2>1. req[r].at \in ReqLabel /\ req'[r].at \in ReqLabel
    BY <1>1 DEF ReqInv, ProxyTypeOK, ReqLabel
  <2>2. req'[r].at \in Passed /\ req'[r].peer = "remote" => req'[r].auth \notin {NoToken, ""}
    BY <2>1, RequestStepEffect DEF ReqInv, RemoteHasToken, Passed, PeerIsAuthorized
  <2> QED BY <1>1, <2>1, <2>2 DEF ReqInv, RemoteHasToken, Passed, ReqLabel
<1>3. Resolved'
  BY <1>1, RequestStepEffect DEF ReqInv, Resolved, HasModel
<1>4. Counted'
  <2>1. \A q \in Request : q # r => (Forwarded(q) <=> Forwarded(q)')
    BY <1>1 DEF Forwarded
  <2>2. IsFiniteSet(Sends) /\ log.count = Cardinality(Sends)
    BY DEF ReqInv, Counted, CountsForwarded, Sends
  <2>3. CASE ~Forwarded(r) /\ Forwarded(r)' /\ log'.count = log.count + 1
    <3>1. Sends' = Sends \cup {r} /\ r \notin Sends
      BY <2>1, <2>3 DEF Sends
    <3> QED BY <2>2, <2>3, <3>1, FS_AddElement DEF Counted, CountsForwarded, Sends
  <2>4. CASE (Forwarded(r) <=> Forwarded(r)') /\ log'.count = log.count
    <3>1. Sends' = Sends
      BY <2>1, <2>4 DEF Sends
    <3> QED BY <2>2, <2>4, <3>1 DEF Counted, CountsForwarded, Sends
  <2> QED BY <2>3, <2>4, RequestStepEffect DEF ReqInv
<1> QED BY <1>1, <1>2, <1>3, <1>4 DEF ReqInv

\* The invariant does not speak of the commands.
LEMMA StutterInv == ASSUME ReqInv, UNCHANGED <<log, req>>, ProxyTypeOK' PROVE ReqInv'
<1>1. RemoteHasToken' /\ Resolved'
  BY DEF ReqInv, RemoteHasToken, Resolved
<1>2. Sends' = Sends
  BY DEF Sends, Forwarded
<1> QED BY <1>1, <1>2 DEF ReqInv, Counted, CountsForwarded, Sends

\* The invariant holds in every state.
THEOREM RequestsKeepInv == ProxySpec => []ReqInv
<1>1. ProxyInit => ReqInv
  BY FreshProcess DEF ProxyInit, Fresh
<1>2. Fresh' => ReqInv'
  BY FreshProcess, PTL
<1>3. TypeOK /\ ReqInv /\ [ProxyNext]_allVars => ReqInv'
  <2> SUFFICES ASSUME TypeOK, ReqInv, [ProxyNext]_allVars PROVE ReqInv'
    OBVIOUS
  <2>1. CASE UNCHANGED proxy
    BY <2>1, StutterInv DEF proxy, ReqInv, ProxyTypeOK
  <2>2. CASE ProxyRestart
    <3>1. Fresh'
      BY <2>2 DEF ProxyRestart, ReqInv, ProxyTypeOK, Fresh
    <3> QED BY <1>2, <3>1
  <2>3. CASE SetApiKey \/ RegenerateToken
    BY <2>3, SecretStepType, StutterInv DEF ReqInv
  <2>4. CASE \E r \in Request : RequestStep(r)
    BY <2>4, RequestStepInv
  <2> QED BY <2>1, <2>2, <2>3, <2>4 DEF ProxyNext, ProxyQuiet, allVars
<1> QED BY <1>1, <1>3, AppTypeCorrect, PTL DEF ProxySpec

\* The key, the token, the log and the requests stay well typed.
THEOREM RequestsTypeCorrect == ProxySpec => []ProxyTypeOK
BY RequestsKeepInv, PTL DEF ReqInv

\* A remote client gets past the gateway with a real token only, whenever the
\* token is changed, and though the one in config.json may be empty.
THEOREM RemoteAlwaysHasToken == ProxySpec => []RemoteHasToken
BY RequestsKeepInv, PTL DEF ReqInv

\* No proxy-cc label reaches the upstream, whatever changes between the reads.
THEOREM LabelsAlwaysStay == ProxySpec => []LabelsStay
<1>1. ReqInv => LabelsStay
  BY DEF ReqInv, Resolved, LabelsStay, Forwarded
<1> QED BY RequestsKeepInv, <1>1, PTL

\* The log counts what was sent upstream, for any number of requests at a time.
THEOREM CountIsOfForwarded == ProxySpec => []CountsForwarded
BY RequestsKeepInv, PTL DEF ReqInv, Counted
-----------------------------------------------------------------------------
(* The model that is read.                                                 *)

\* What a request sends after reading its model, and that nobody else moves.
LEMMA ModelIsRead ==
    ASSUME ProxyTypeOK, TypeOK, [ProxyNext]_allVars, NEW r \in Request, ReadsModel(r)
    PROVE  /\ req[r].api = "chat" => req'[r].sent \in {selected, "absent"}
           /\ req[r].api = "messages" =>
                req'[r].sent \in SlotModels(slots) \cup {"other", "absent"}
<1> USE DEF ReadsModel, At
<1>1. req \in [Request -> ReqRecord] /\ req[r] \in ReqRecord
  BY DEF ProxyTypeOK, ReqRecord, ReqLabel
<1>2. ReadModel(r)
  <2>1. ~UNCHANGED req
    OBVIOUS
  <2>2. ~ProxyRestart
    BY DEF ProxyRestart, NewRequest
  <2>3. PICK q \in Request : RequestStep(q)
    BY <2>1, <2>2 DEF ProxyNext, ProxyQuiet, SetApiKey, RegenerateToken, proxy, allVars
  <2>4. q = r
    BY <2>1, <2>3, RequestStepType
  <2> QED
    BY <1>1, <2>3, <2>4 DEF RequestStep, Arrive, GatewayAuth, ReadKey, ReadBase, ReadApi,
       RecordRequest, UpstreamAnswers, UpstreamFails, RecordStatus
<1>3. ASSUME NEW m, NEW s, Move(r, "record", [req[r] EXCEPT !.model = m, !.sent = s])
      PROVE  req'[r].sent = s
  <2>1. req'[r] = [[req[r] EXCEPT !.model = m, !.sent = s] EXCEPT !.at = "record"]
    BY <1>1, <1>3 DEF Move
  <2> QED BY <1>1, <2>1 DEF ReqRecord
<1>4. CASE req[r].api = "chat"
  <2>1. req'[r].sent = IF req[r].field = "absent" THEN "absent" ELSE selected
    BY <1>2, <1>3, <1>4 DEF ReadModel, InjectModel
  <2> QED BY <1>4, <2>1
<1>5. CASE req[r].api = "messages"
  <2> DEFINE f == req[r].field
  <2>1. ResolveMessagesModel(r) /\ ~Refuse(r)
    BY <1>1, <1>2, <1>5 DEF ReadModel, Refuse, Move, ReqRecord
  <2>2. CASE f \in Slot
    <3>1. req'[r].sent = ModelFor(slots, f) /\ ModelFor(slots, f) # NoModel
      BY <1>3, <2>1, <2>2 DEF ResolveMessagesModel
    <3> QED BY <1>5, <2>2, <3>1 DEF ModelFor, SlotModels
  <2>3. CASE f \notin Slot
    <3>1. req'[r].sent = f /\ f \in {"other", "absent"}
      BY <1>1, <1>3, <2>1, <2>3 DEF ResolveMessagesModel, ReqRecord, Field
    <3> QED BY <1>5, <3>1
  <2> QED BY <2>2, <2>3
<1> QED BY <1>4, <1>5

\* Any number of requests, and any commands that do not overlap: the model read
\* under the live URL is one of that endpoint, but for the slots on their way.
THEOREM PairIsFresh ==
    ASSUME Overlap = FALSE
    PROVE  ProxySpec => FreshPair
<1>1. ProxyTypeOK /\ TypeOK /\ OwnInv /\ SelectionOfEndpoint /\ [ProxyNext]_allVars =>
        \A r \in Request :
          ReadsModel(r) /\ (req[r].api = "messages" => \A p \in Proc : ~SlotsLag(p))
          => req'[r].sent \in Offered(endpoint) \cup {NoModel, "other", "absent"}
  <2> SUFFICES ASSUME ProxyTypeOK, TypeOK, OwnInv, SelectionOfEndpoint, [ProxyNext]_allVars,
                      NEW r \in Request, ReadsModel(r),
                      req[r].api = "messages" => \A p \in Proc : ~SlotsLag(p)
               PROVE  req'[r].sent \in Offered(endpoint) \cup {NoModel, "other", "absent"}
    OBVIOUS
  <2>1. req[r].api \in {"chat", "messages"}
    BY DEF ProxyTypeOK
  <2>2. req[r].api = "chat" => req'[r].sent \in {selected, "absent"}
    BY ModelIsRead
  <2>3. req[r].api = "messages" => req'[r].sent \in SlotModels(slots) \cup {"other", "absent"}
    BY ModelIsRead
  <2> QED BY <2>1, <2>2, <2>3 DEF SelectionOfEndpoint, OwnInv
<1> QED
  BY <1>1, IsApp, OwnHolds, SelectionIsOwn, AppTypeCorrect, RequestsTypeCorrect, PTL
  DEF ProxySpec, FreshPair

\* Endpoint changes that overlap each other and the other commands do no harm to
\* requests that take the selection: the swap replaces URL and selection together.
THEOREM SelectionIsFresh ==
    ASSUME Commands \cap {"refresh_models", "set_model"} = {}
    PROVE  ProxySpec =>
             [][\A r \in Request : ReadsModel(r) /\ req[r].api = "chat"
                  => req'[r].sent \in Offered(endpoint) \cup {NoModel, "absent"}]_allVars
<1>1. ProxyTypeOK /\ TypeOK /\ SelectionOfEndpoint /\ [ProxyNext]_allVars =>
        \A r \in Request : ReadsModel(r) /\ req[r].api = "chat"
          => req'[r].sent \in Offered(endpoint) \cup {NoModel, "absent"}
  BY ModelIsRead DEF SelectionOfEndpoint
<1> QED
  BY <1>1, IsApp, SwapsCoherent, AppTypeCorrect, RequestsTypeCorrect, PTL DEF ProxySpec
=============================================================================
