-------------------------- MODULE RequestPipeline --------------------------
(***************************************************************************)
(* The way of an HTTP request through the layers of create_app: the        *)
(* server's own error layer, which answers what nobody else has answered;  *)
(* RequestLoggingMiddleware, with its id, its record and its metrics; for  *)
(* a chat AIRequestObservabilityMiddleware; the registered exception       *)
(* handlers; the endpoint.  A request may fail before or after its         *)
(* response has started, and be cancelled.                                 *)
(***************************************************************************)
EXTENDS Naturals

CONSTANTS
  HttpRequest, \* requests, which are also the ids generated for them
  Supplied,    \* well-formed ids that clients supply
  None         \* no id supplied or none that is well formed; nothing sent

VARIABLE request   \* request[r]: where r stands, and what has become of it

Path == {"chat", "ready", "other"}

(* What endpoints and dependencies raise, with the class it derives from.  *)
Parent ==
  [NotFoundError |-> "DomainError", AuthenticationError |-> "DomainError",
   PermissionDeniedError |-> "DomainError", RegistrationDisabledError |-> "DomainError",
   ConflictError |-> "DomainError", ValidationError |-> "DomainError",
   InvalidStateError |-> "ValidationError", BusinessRuleError |-> "ValidationError",
   CodedBusinessError |-> "BusinessRuleError", VehicleHasHistoryError |-> "CodedBusinessError",
   CustomerHasHistoryError |-> "CodedBusinessError",
   ReversedBillingImmutableError |-> "CodedBusinessError",
   PaidWeighingRequiresRefundError |-> "CodedBusinessError",
   ManualModeError |-> "WeighbridgeError", DeviceOfflineError |-> "WeighbridgeError",
   DeviceTimeoutError |-> "WeighbridgeError", DeviceReadError |-> "WeighbridgeError",
   InvalidWeightError |-> "DeviceReadError",
   AIServiceUnavailableError |-> "AIIntegrationError", AIUpstreamTimeoutError |-> "AIIntegrationError",
   AIUpstreamError |-> "AIIntegrationError", AIAgentError |-> "AIIntegrationError",
   DomainError |-> "Exception", WeighbridgeError |-> "Exception",
   AIIntegrationError |-> "Exception", ValueError |-> "Exception", TimeoutError |-> "Exception"]

Error == DOMAIN Parent
Expected(e) == e \notin {"ValueError", "TimeoutError"}
Abstract == {"DomainError", "ValidationError", "AIIntegrationError", "WeighbridgeError",
             "CodedBusinessError"}
OfChat == {e \in Error \ Abstract : Parent[e] = "AIIntegrationError"}

(* What a request may raise: a readiness check catches whatever it meets.  *)
Raised(path) ==
  CASE path = "ready" -> {}
    [] path = "chat" -> OfChat \cup {"AuthenticationError", "PermissionDeniedError", "ValueError"}
    [] path = "other" -> (Error \ Abstract) \ OfChat

(* The registered handlers, by class, and the status each answers with.    *)
HandlerStatus ==
  [NotFoundError |-> 404, AuthenticationError |-> 401, PermissionDeniedError |-> 403,
   RegistrationDisabledError |-> 403, InvalidStateError |-> 409, CodedBusinessError |-> 409,
   ConflictError |-> 409, BusinessRuleError |-> 409, ValidationError |-> 409,
   AIServiceUnavailableError |-> 503, AIUpstreamTimeoutError |-> 504, AIUpstreamError |-> 502,
   AIAgentError |-> 500, ManualModeError |-> 409, DeviceTimeoutError |-> 504,
   DeviceOfflineError |-> 503, DeviceReadError |-> 502]

(* The handler of the nearest class that has one.                          *)
Handler[c \in Error \cup {"Exception"}] ==
  IF c = "Exception" \/ c \in DOMAIN HandlerStatus THEN c ELSE Handler[Parent[c]]

Level(status) == IF status >= 500 THEN "ERROR" ELSE IF status >= 400 THEN "WARNING" ELSE "INFO"
Label(status) == IF status < 400 THEN "success" ELSE IF status < 500 THEN "client_error" ELSE "server_error"

Status == {200, 401, 403, 404, 409, 422, 500, 502, 503, 504}
Waiting == [pc |-> "waiting", path |-> "other", id |-> None, status |-> 500, error |-> None,
            sent |-> None, record |-> None, aiRecord |-> None]

(* What is sent, and what the two middlewares record of it.                *)
Id == HttpRequest \cup Supplied
Response == [status : Status, id : Id]
LogRecord == [status : Status, id : Id, level : {"INFO", "WARNING", "ERROR"}]
ChatRecord == [label : {"success", "client_error", "server_error"}, id : Id]

(* None is none of them.                                                   *)
ASSUME NoneAssumption ==
  /\ None \notin Id /\ None \notin Error
  /\ None \notin Response /\ None \notin LogRecord /\ None \notin ChatRecord

LayersTypeOK ==
  request \in [HttpRequest ->
    [pc : {"waiting", "handling", "responding", "returning", "failing", "cancelled", "unanswered", "over"},
     path : Path, id : Id \cup {None}, status : Status, error : Error \cup {None},
     sent : Response \cup {None}, record : LogRecord \cup {None},
     aiRecord : ChatRecord \cup {None}]]

LayersInit == request = [r \in HttpRequest |-> Waiting]
-----------------------------------------------------------------------------
Becomes(r, new) == request' = [request EXCEPT ![r] = new]

(* _resolve_request_id: a well-formed id of the client's is kept.          *)
Enter(r) ==
  /\ request[r].pc = "waiting"
  /\ \E path \in Path, given \in Supplied \cup {None} :
       Becomes(r, [request[r] EXCEPT !.pc = "handling", !.path = path,
                                     !.id = IF given = None THEN r ELSE given])

(* The start of a response passes through the middlewares, which note its  *)
(* status and put the id into it.                                          *)
Started(q, status) ==
  [q EXCEPT !.pc = "responding", !.status = status, !.sent = [status |-> status, id |-> q.id]]

(* The endpoint answers; FastAPI refuses a malformed request; /ready finds *)
(* database and migrations as they should be, or answers 503.              *)
Answers(r) ==
  /\ request[r].pc = "handling"
  /\ \E status \in IF request[r].path = "ready" THEN {200, 503} ELSE {200, 422} :
       Becomes(r, Started(request[r], status))

(* It raises: a registered handler answers, or the layers are unwound.     *)
Raises(r) ==
  /\ request[r].pc = "handling"
  /\ \E e \in Raised(request[r].path) :
       LET q == [request[r] EXCEPT !.error = e]
       IN Becomes(r, IF Handler[e] = "Exception" THEN [q EXCEPT !.pc = "failing"]
                     ELSE Started(q, HandlerStatus[Handler[e]]))

Ends(r) == request[r].pc = "responding" /\ Becomes(r, [request[r] EXCEPT !.pc = "returning"])

(* An error after the start, or the task is cancelled.                     *)
Breaks(r) == request[r].pc = "responding" /\ Becomes(r, [request[r] EXCEPT !.pc = "failing"])
Cancelled(r) ==
  /\ request[r].pc \in {"handling", "responding"}
  /\ Becomes(r, [request[r] EXCEPT !.pc = "cancelled"])

Unwinding(r) == request[r].pc \in {"returning", "failing", "cancelled"}

(* The finally block of the AI middleware, then that of the logging one.   *)
RecordChat(r) ==
  /\ Unwinding(r) /\ request[r].path = "chat" /\ request[r].aiRecord = None
  /\ Becomes(r, [request[r] EXCEPT !.aiRecord = [label |-> Label(request[r].status),
                                                 id |-> request[r].id]])

Leaves(q) == IF q.pc = "failing" /\ q.sent = None THEN "unanswered" ELSE "over"

Record(r) ==
  /\ Unwinding(r) /\ (request[r].path = "chat" => request[r].aiRecord # None)
  /\ Becomes(r, [request[r] EXCEPT
       !.pc = Leaves(request[r]),
       !.record = [status |-> request[r].status, id |-> request[r].id,
                   level |-> Level(request[r].status)]])

AnswersWithoutId(r) ==           \* the outermost layer makes up an id
  /\ request[r].pc = "unanswered"
  /\ Becomes(r, [request[r] EXCEPT !.pc = "over", !.sent = [status |-> 500, id |-> r]])

(* unexpected_error_handler, outside both middlewares: a 500 with the id   *)
(* that the request's state holds.                                         *)
AnswerUnexpected(r) ==
  /\ request[r].pc = "unanswered"
  /\ Becomes(r, [request[r] EXCEPT !.pc = "over", !.sent = [status |-> 500, id |-> request[r].id]])

(* The layers of create_app, but for CORSMiddleware, which only adds       *)
(* headers and answers preflights before any endpoint.                     *)
LayerStep(r) ==
  \/ Enter(r) \/ Answers(r) \/ Raises(r) \/ Ends(r) \/ Breaks(r) \/ Cancelled(r)
  \/ RecordChat(r) \/ Record(r) \/ AnswerUnexpected(r)

LayersNext == \E r \in HttpRequest : LayerStep(r)

LayersSpec == LayersInit /\ [][LayersNext]_request
-----------------------------------------------------------------------------
(* However a request ends, cancelled and broken off included, it leaves    *)
(* its record.  Of whatever layer answered, the response, the request's    *)
(* record and the chat's agree on the id, and the records on the status    *)
(* sent, also when the response was made outside the middlewares.          *)
RecordsTellResponse ==
  \A r \in HttpRequest : request[r].pc = "over" =>
    LET q == request[r] IN
    /\ q.record # None
    /\ q.sent # None =>
         /\ q.record.status = q.sent.status /\ q.record.id = q.sent.id
         /\ q.path = "chat" => q.aiRecord = [label |-> Label(q.sent.status), id |-> q.sent.id]

(* An error that the code expects, of whichever subclass, is not answered  *)
(* as an internal error; one that it does not expect always is.            *)
ExpectedIsNotInternal ==
  \A r \in HttpRequest :
    LET q == request[r] IN
    q.pc = "over" /\ q.error # None /\ q.sent # None =>
      ((q.sent.status = 500) <=> (~ Expected(q.error) \/ q.error = "AIAgentError"))

(* The client is told what the request met, and the records what the       *)
(* client was told.                                                        *)
AnsweredAndRecorded == RecordsTellResponse /\ ExpectedIsNotInternal
=============================================================================
