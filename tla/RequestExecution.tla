-------------------------- MODULE RequestExecution --------------------------
(***************************************************************************)
(* One request, by HTTP, as a WSX message or over the bus, from where it   *)
(* arrives to its answer: the middlewares, the demux of the server, the    *)
(* application that runs in the server or in a process of its own, and in  *)
(* either the same execution: body, identity, route, arguments, handler.   *)
(*                                                                         *)
(* The processes and what they were built from are ServerComposition's,    *)
(* which goes on while a request is under way.  Admission, the deadline    *)
(* and the relay of a streamed answer are RemoteForward's; the handshake   *)
(* of a websocket is WsxConnection's; how a session is kept,               *)
(* LoginSessions'; the cache and the routes of a credential,               *)
(* CredentialRevocation's.                                                 *)
(*                                                                         *)
(* A path is the sequence of its segments; what a handler does is a field  *)
(* of its route; values are marked by where they came from.                *)
(***************************************************************************)
EXTENDS ServerComposition

CONSTANTS
  Requests,  \* what callers send
  Visited,   \* bound: what a server that is sent requests was built from
  Hidden,    \* segments that begin with a dot
  Keys,      \* the api keys on file: [value -> avatar]
  ApiKeys    \* the values that begin with gak_

(* A tool is called by a name.                                               *)
ASSUME RequestsAssumption ==
  /\ None # "mcp"
  /\ \A r \in Requests :
       /\ r.face \in {"http", "wsx", "kbus"} /\ r.from \in Processes
       /\ r.path \in Seq(STRING) /\ r.torn \in BOOLEAN
       /\ r.body.kind = "rpc" => r.body.tool \in Seq(STRING)
       /\ r.body.kind = "rpc" /\ r.body.method = "tools/call" => r.body.tool # <<>>

VARIABLES
  running,   \* the server's state is RUNNING
  req        \* the request under way, and how far it is

execution == <<running, req>>
allVars == <<vars, execution>>

Faces == {"http", "wsx", "kbus"}
Idle == [at |-> "idle"]
Anonymous == None
Refused == [identity |-> "refused", tags |-> {}]

-----------------------------------------------------------------------------
(* AuthCore and AuthMixin.authenticate.                                    *)

\* The first verifier that verifies.
ByJwt(verifiers, value) ==
  LET accepting == {i \in DOMAIN verifiers : value \in DOMAIN verifiers[i]}
  IN IF accepting = {} THEN Refused
     ELSE verifiers[CHOOSE i \in accepting : \A j \in accepting : i <= j][value]

ByBearer(auth, value) ==
  IF value \in ApiKeys THEN IF value \in DOMAIN Keys THEN Keys[value] ELSE Refused
  ELSE IF value \in DOMAIN auth.bearer THEN auth.bearer[value]
  ELSE ByJwt(auth.jwt, value)

\* verify: a header with no scheme, an unknown scheme and a miss are refused.
Verify(auth, credential) ==
  CASE credential.scheme = "basic" /\ credential.value \in DOMAIN auth.basic ->
         auth.basic[credential.value]
    [] credential.scheme = "bearer" -> ByBearer(auth, credential.value)
    [] OTHER -> Refused

\* authenticate_scope: an identity on the scope, else the credential presented,
\* else the session's.
Acting(q, scope) ==
  IF scope.auth # None THEN scope.auth
  ELSE IF scope.credential # None THEN Verify(q.config.recipe.auth, scope.credential)
  ELSE scope.session

-----------------------------------------------------------------------------
(* Request: the body and the arguments.                                    *)

Merged(f, g) ==
  [x \in DOMAIN f \cup DOMAIN g |-> IF x \in DOMAIN g THEN g[x] ELSE f[x]]
Limited(f, names) == [x \in DOMAIN f \cap names |-> f[x]]
Single(name, value) == [x \in {name} |-> value]

Raised(status) == [kind |-> "raised", status |-> status, location |-> None, challenge |-> FALSE]
Challenged == [Raised(401) EXCEPT !.challenge = TRUE]
Crash == [kind |-> "crash"]
Fine == [kind |-> "fine"]

Nothing == [kind |-> "nothing", fields |-> <<>>]

\* Mutant of Broken: only what raises an HTTPException is one.
BrokenRaw(scope) == scope.body.kind = "broken" /\ scope.ctype # "form"

\* decode_body, decode_json, decode_multipart: not what its type declares.
Broken(scope) == scope.body.kind = "broken"

\* parse_body and decode_body, as what stops the request, or Fine; what no
\* one turns into a status is a crash.
BodyFault(app, scope) ==
  IF app.raw \/ scope.body.kind = "nothing" THEN Fine
  ELSE IF scope.ctype \notin {"json", "form"} THEN Raised(415)
  ELSE IF Broken(scope) THEN Raised(400)
  ELSE IF scope.body.kind = "broken" THEN Crash
  ELSE Fine

\* Request.init: headers, cookies and query first, and outside any try.
InitFault(app, scope) == IF scope.torn THEN Crash ELSE BodyFault(app, scope)

\* handler_kwargs: the query, and the body by its content-type.
HandlerKwargs(app, scope) ==
  IF scope.body.kind = "nothing" THEN scope.query
  ELSE IF app.raw THEN Merged(scope.query, Single("body_raw", "bytes"))
  ELSE IF scope.ctype = "form" THEN Merged(scope.query, scope.body.fields)
  ELSE Merged(scope.query, Single("body_data", "whole"))

\* bind_kwargs and spread_over_params: a json object is spread over what the
\* handler declares, unless it takes the body whole; on mcp always.
Bound(app, route, scope) ==
  LET given == HandlerKwargs(app, scope)
      object == ~app.raw /\ scope.ctype = "json" /\ scope.body.kind = "fields"
      keeps == "body_data" \in route.fields \/ route.open
      spread == IF route.open THEN scope.body.fields ELSE Limited(scope.body.fields, route.fields)
      kwargs == IF object /\ (scope.channel = "mcp" \/ ~keeps)
                  THEN Merged(Limited(given, DOMAIN given \ {"body_data"}), spread)
                  ELSE given
  IN IF "_request" \in route.fields THEN Merged(kwargs, Single("_request", "live")) ELSE kwargs

Fits(route, kwargs) ==
  /\ route.open \/ DOMAIN kwargs \subseteq route.fields
  /\ route.required \subseteq DOMAIN kwargs

Validates(route, kwargs) == \A name \in route.typed \cap DOMAIN kwargs : kwargs[name] # "bad"

-----------------------------------------------------------------------------
(* RoutedApplication.execute.                                              *)

Channel(scope) == IF scope.channel = None THEN "rest" ELSE scope.channel

\* method_filters: of a plain HTTP request alone.
ByMethod(scope) == Channel(scope) = "rest" /\ ~scope.kbus

\* The route that answers, and ROUTER_ERRORS, as what stops the request, or Fine.
RoutesOf(app, scope) == {route \in app.routes : route.path = scope.path}
Denied(route, scope, avatar) ==
  IF Channel(scope) \notin route.channels THEN Raised(404)
  ELSE IF route.rule # None /\ avatar = Anonymous THEN Challenged
  ELSE IF route.rule # None /\ route.rule \notin avatar.tags THEN Raised(403)
  ELSE IF ByMethod(scope) /\ route.method \notin {None, scope.method} THEN Raised(405)
  ELSE Fine

Ran(route, view, outcome) == [how |-> "ran", route |-> route, view |-> view, outcome |-> outcome]
NotRun(outcome) == [how |-> "unrun", outcome |-> outcome]
Undone == NotRun(None)

\* What the handler is given, and what it does.
Outcome(route) ==
  CASE route.does \in {"crash", "misfit"} -> Crash
    [] route.does = "redirect" -> [Raised(302) EXCEPT !.location = "elsewhere"]
    [] route.does = "refuse" -> [Raised(409) EXCEPT !.challenge = TRUE]
    [] OTHER -> [kind |-> route.does]

Runs(q, app, route, scope, avatar) ==
  LET kwargs == Bound(app, route, scope) IN
  IF ~Fits(route, kwargs) THEN NotRun(Raised(400))
  ELSE IF ~Validates(route, kwargs) THEN NotRun(Raised(app.invalid))
  ELSE Ran(route,
           [avatar |-> avatar, path |-> scope.path, method |-> scope.method,
            channel |-> Channel(scope), kwargs |-> kwargs, page |-> scope.page,
            db |-> DatabaseOf(q, app)],
           Outcome(route))

Executed(q, app, scope) ==
  LET fault == InitFault(app, scope)
      avatar == Acting(q, scope)
      routes == RoutesOf(app, scope)
      route == CHOOSE route \in routes : TRUE
      denied == Denied(route, scope, avatar)
  IN IF fault # Fine THEN NotRun(fault)
     ELSE IF avatar = Refused THEN NotRun(Challenged)
     ELSE IF routes = {} THEN NotRun(Raised(404))
     ELSE IF denied # Fine THEN NotRun(denied)
     ELSE Runs(q, app, route, scope, avatar)

-----------------------------------------------------------------------------
(* McpTransport, McpEngine and McpTools: the json-rpc face of an           *)
(* application, over the same routes.  A tool's name is its path in the    *)
(* subtree the face is for.                                                *)

RpcError(code) == [kind |-> "rpc", error |-> code]
RpcResult(value) == [kind |-> "rpc", result |-> value]
Listing(tools) == [kind |-> "rpc", tools |-> tools]

\* build_engine: no face, one on a segment, or the whole application.
Speaks(app, path) ==
  app.mcp # None /\ app.mcp.segment \in {None, IF path = <<>> THEN None ELSE Head(path)}

Admitted(route, avatar) ==
  route.rule # None => avatar # Anonymous /\ route.rule \in avatar.tags

\* discover: of the subtree, what is on the channel and open to the caller.
Listed(app, avatar) ==
  LET root == app.mcp.root IN
  IF root = None THEN {}
  ELSE {route \in app.routes :
          /\ Len(root) < Len(route.path) /\ SubSeq(route.path, 1, Len(root)) = root
          /\ "mcp" \in route.channels /\ Admitted(route, avatar)}

\* _invoke_tool: a request of its own, whose body is the arguments.
ToolScope(app, scope, avatar) ==
  [scope EXCEPT !.path = app.mcp.root \o scope.body.tool, !.method = "POST", !.query = <<>>,
                !.ctype = "json", !.body = scope.body.arguments, !.auth = avatar]

\* A handler that raised a TypeError, whatever its arguments were.
Misfits(done) == done.how = "ran" /\ done.route.does = "misfit"

\* What a tool raised, by its status or its type: no route of the face is missing
\* or closed by then.
ToolAnswer(done) ==
  LET outcome == done.outcome IN
  IF outcome.kind = "raised" /\ outcome.status \in {401, 403} THEN RpcError("NOT_AUTHORIZED")
  ELSE IF outcome.kind = "raised" /\ outcome.status \in {400, 422} THEN RpcResult("isError")
  ELSE IF Misfits(done) THEN RpcResult("isError")
  ELSE IF outcome.kind \in {"raised", "crash"} THEN RpcError("INTERNAL_ERROR")
  ELSE RpcResult("content")

\* tools/call: resolved before it is run.
Called(q, app, scope, avatar) ==
  LET tool == ToolScope(app, scope, avatar)
      routes == RoutesOf(app, tool)
      denials == {Denied(route, tool, avatar) : route \in routes} \ {Fine}
      done == Executed(q, app, tool)
  IN IF routes = {} \/ Raised(404) \in denials THEN NotRun(RpcError("METHOD_NOT_FOUND"))
     ELSE IF denials # {} THEN NotRun(RpcError("NOT_AUTHORIZED"))
     ELSE [done EXCEPT !.outcome = ToolAnswer(done)]

\* dispatch: one object, its method and its params.
Dispatched(q, app, scope, avatar) ==
  IF app.raw \/ scope.body.kind # "rpc" THEN NotRun(RpcError("INVALID_REQUEST"))
  ELSE IF scope.body.method = None \/ scope.body.params # "object"
    THEN NotRun(RpcError("INVALID_REQUEST"))
  ELSE CASE scope.body.method \in {"ping", "initialize"} -> NotRun(RpcResult(scope.body.method))
         [] scope.body.method = "tools/list" -> NotRun(Listing(Listed(app, avatar)))
         [] scope.body.method = "tools/call" ->
              IF app.mcp.root = None THEN NotRun(RpcError("INTERNAL_ERROR"))
              ELSE Called(q, app, scope, avatar)
         [] OTHER -> NotRun(RpcError("METHOD_NOT_FOUND"))

\* An object with no id.
Notifies(app, body) ==
  ~app.raw /\ (body.kind = "fields" \/ (body.kind = "rpc" /\ ~body.id))

\* handle: what it refuses, in its order; a GET opens the stream of the tasks.
Handled(q, app, asked) ==
  LET scope == [asked EXCEPT !.channel = "mcp"]
      fault == InitFault(app, scope)
      avatar == Acting(q, scope)
      foreign == app.mcp.origins # None /\ scope.origin \notin app.mcp.origins \cup {None}
  IN IF fault # Fine THEN NotRun(fault)
     ELSE IF foreign THEN NotRun(Raised(403))
     ELSE IF scope.version = "unknown" THEN NotRun(Raised(400))
     ELSE IF avatar = Refused THEN NotRun(Challenged)
     ELSE IF scope.method = "GET" /\ Read(q.config, "tasks") # "off" THEN NotRun([kind |-> "stream"])
     ELSE IF scope.method # "POST" THEN NotRun(Raised(405))
     ELSE IF Notifies(app, scope.body) THEN NotRun([kind |-> "own", status |-> 202])
     ELSE Dispatched(q, app, scope, avatar)

\* set_result: a value that is no text and no bytes, a json-rpc envelope among
\* them, goes through the encoder that the header of the request names, whatever
\* that is.
Encoded(scope, outcome) ==
  IF scope.transport = "unknown" /\ outcome.kind \in {"data", "rpc"} THEN Crash ELSE outcome

\* __call__ of an application, with or without such a face.
Performed(q, app, scope) ==
  LET done == IF Speaks(app, scope.path) THEN Handled(q, app, scope) ELSE Executed(q, app, scope)
  IN [done EXCEPT !.outcome = Encoded(scope, @)]

-----------------------------------------------------------------------------
(* BaseServer.demux, in the server and in the process of a role alike.     *)

Answered(status) == [code |-> None, path |-> <<>>, status |-> status]
To(app, path) == [code |-> app.code, path |-> path, status |-> 0]
MountedAt(p, mount) == {app \in proc[p].apps : app.mount = mount}
The(apps) == CHOOSE app \in apps : TRUE

DemuxWellKnown(p, path) ==
  LET holder == Holder(p, path) IN
  IF holder = NoHolder THEN Answered(404)
  ELSE [code |-> holder.code, path |-> holder.route, status |-> 0]

Segment(path) == IF path = <<>> THEN "" ELSE Head(path)

Demux(p, path) ==
  LET segment == Segment(path) IN
  IF path \in WellKnown THEN DemuxWellKnown(p, path)
  ELSE IF segment \in Hidden THEN Answered(404)
  ELSE IF segment # "" /\ MountedAt(p, segment) # {} THEN To(The(MountedAt(p, segment)), Tail(path))
  ELSE IF MountedAt(p, "") # {} THEN To(The(MountedAt(p, "")), path)
  ELSE IF path = <<>> /\ Default(p) # None THEN Answered(307)
  ELSE Answered(404)

AppOf(p, code) == The({app \in proc[p].apps : app.code = code})

-----------------------------------------------------------------------------
(* The scope each face makes of a request.  A request is torn when its     *)
(* cookies or its query do not decode; a handshake with such cookies is    *)
(* none, so of a message it is the query; a call has neither.  On both the *)
(* transport is the server's own.                                          *)

Switched(name) ==
  LET on == Read(proc[Server].config, "middleware") IN on # None /\ name \in on

ScopeOf(r) ==
  LET plain == [path |-> r.path, method |-> r.method, channel |-> None, kbus |-> FALSE,
                auth |-> None, credential |-> r.credential, session |-> None,
                query |-> r.query, ctype |-> r.ctype, body |-> r.body, page |-> None,
                origin |-> r.origin, version |-> r.version, torn |-> r.torn,
                transport |-> r.transport]
  IN CASE r.face = "http" ->
            [plain EXCEPT !.session = IF Switched("session") THEN r.session ELSE None]
       [] r.face = "wsx" ->
            [plain EXCEPT !.method = "WSK", !.channel = "wsx", !.ctype = "json",
                          !.session = r.session, !.page = r.page, !.transport = "known",
                          !.auth = IF r.credential = None THEN r.session
                                   ELSE Verify(proc[Server].config.recipe.auth, r.credential)]
       [] r.face = "kbus" ->
            [plain EXCEPT !.method = "POST", !.channel = r.channel, !.kbus = TRUE,
                          !.ctype = "json", !.auth = r.avatar, !.credential = None,
                          !.query = <<>>, !.torn = FALSE, !.transport = "known"]

\* Mutant of Trusted: the session speaks for a request that presented another
\* credential.
TrustedSession(scope) == IF scope.auth # None THEN scope.auth ELSE scope.session

\* _trusted_avatar: a header is the process's to verify.
Trusted(scope) ==
  IF scope.auth # None THEN scope.auth
  ELSE IF scope.credential # None THEN None ELSE scope.session

\* What a record carries of a scope, headers and body included.
RequestFields ==
  {"path", "method", "query", "ctype", "body", "credential", "origin", "version", "torn",
   "transport"}

\* Mutant of Recorded: the path as the mount received it.
RecordedBare(app, scope) == Limited(scope, RequestFields)

\* forwarded_path: the mount is put back in front.
Front(mount, path) == IF mount = "" THEN path ELSE <<mount>> \o path

\* What the process of an application does with a path of it that was forwarded:
\* a well-known one is what it declares, a hidden one nobody's.
Crosses(app, path) ==
  LET sent == Front(app.mount, path) IN
  IF sent \in WellKnown THEN sent \in DOMAIN app.declared /\ app.declared[sent] = path
  ELSE Segment(sent) \notin Hidden

\* The routes that the well-known paths of an entry name.
Offered(e) ==
  {e.declared[path] : path \in DOMAIN e.declared} \cup {e.defaults[path] : path \in DOMAIN e.defaults}

\* A well-known path names a path of its application, or the server is not built.
ASSUME RoutesAssumption ==
  LET written == UNION {{recipe.entries[i] : i \in DOMAIN recipe.entries} : recipe \in Recipes}
  IN \A e \in written \cup {Management} : Offered(e) \subseteq Seq(STRING)

\* encode_request.
Recorded(app, scope) == Limited([scope EXCEPT !.path = Front(app.mount, @)], RequestFields)

\* _forward: what travels beside the record.
Meta(scope) ==
  [auth |-> Trusted(scope), channel |-> scope.channel, kbus |-> scope.kbus, page |-> scope.page]

\* decode_request and _serve_http_stream: the scope made of both; the session
\* stays behind.
Received(record, meta) == Merged(Merged(record, meta), Single("session", None))

Forwarded(app, scope) == Received(Recorded(app, scope), Meta(scope))

-----------------------------------------------------------------------------
(* Answers.                                                                *)

\* failure_message: an exception as one message of the stream.
FailureMessage(outcome) ==
  IF outcome.kind = "raised"
    THEN [status |-> outcome.status, challenge |-> outcome.challenge,
          location |-> outcome.location]
    ELSE [detail |-> "text"]

\* raised_failure: and back.
RaisedFailure(message) ==
  IF "status" \in DOMAIN message
    THEN [kind |-> "raised", status |-> message.status, location |-> message.location,
          challenge |-> message.challenge]
    ELSE Crash

\* What crosses back: an answer that started, or a failure before it did.  A
\* WSX message is buffered in the process, and no stream fits a buffer.
Returned(scope, outcome) ==
  CASE outcome.kind = "stream" /\ scope.method = "WSK" -> RaisedFailure(FailureMessage(Crash))
    [] outcome.kind \in {"raised", "crash"} -> RaisedFailure(FailureMessage(outcome))
    [] OTHER -> outcome

Answer(status, location, challenge, cors, cookie) ==
  [status |-> status, location |-> location, challenge |-> challenge,
   cors |-> cors, cookie |-> cookie]
Bare(status) == Answer(status, None, FALSE, FALSE, FALSE)

\* _cors_headers: the allowed origins are all, or a list.
Allows(origin) ==
  \/ Switched("cors") /\ origin # None
  \/ Switched("cors for friends") /\ origin = "friend"

\* What the middlewares inside ErrorMiddleware add to an answer that starts.
Decorated(r, status, location) ==
  Answer(status, location, FALSE, Allows(r.origin), Switched("session") /\ ~r.known)

\* ErrorMiddleware, for an exception that reached it: outside the others.
HttpAnswer(r, outcome) ==
  CASE outcome.kind = "crash" -> Bare(500)
    [] outcome.kind = "raised" ->
         Answer(outcome.status, outcome.location, outcome.challenge, FALSE, FALSE)
    [] outcome.kind = "own" -> Decorated(r, outcome.status, None)
    [] OTHER -> Decorated(r, 200, None)

\* _call_application and serve_kbus_message: a status, and no stream.
MessageAnswer(outcome) ==
  CASE outcome.kind \in {"crash", "stream"} -> Bare(500)
    [] outcome.kind \in {"raised", "own"} -> Bare(outcome.status)
    [] OTHER -> Bare(200)

AnswerTo(r, outcome) == IF r.face = "http" THEN HttpAnswer(r, outcome) ELSE MessageAnswer(outcome)

\* An answer that is no application's: a Response as any other.
OwnAnswer(r, status) ==
  IF r.face = "http" THEN Decorated(r, status, IF status = 307 THEN "default" ELSE None)
  ELSE Bare(status)

-----------------------------------------------------------------------------
(* The steps.                                                              *)

Steps(next) == req' = next /\ UNCHANGED <<vars, running>>
Answers(answer) == Steps([req EXCEPT !.at = "answered", !.answer = answer])

\* The handshake of a WSX message verified its credential; a process calls
\* over its own member.
CanArrive(r) ==
  /\ proc[Server].stage = "serving" /\ proc[Server].config \in Visited
  /\ r.face = "wsx" /\ r.credential # None =>
       Verify(proc[Server].config.recipe.auth, r.credential) # Refused
  /\ r.from # Server => r.face = "kbus" /\ r.from \in joined

Arrives(r) ==
  /\ req = Idle
  /\ CanArrive(r)
  /\ Steps([at |-> "arrived", r |-> r, scope |-> ScopeOf(r), p |-> r.from, target |-> None,
            done |-> Undone, built |-> None, answer |-> None])

\* _goes_to_parent: a call to a mount that is not this process's.
GoesToParent ==
  /\ req.at = "arrived" /\ req.p # Server
  /\ MountedAt(req.p, Segment(req.scope.path)) = {}
  /\ Steps([req EXCEPT !.p = Server])

\* CORSMiddleware: a preflight reaches nothing else.
IsPreflight(r) ==
  /\ r.face = "http" /\ r.method = "OPTIONS" /\ r.origin # None
  /\ Switched("cors") \/ Switched("cors for friends")
Preflight ==
  /\ req.at = "arrived" /\ IsPreflight(req.r)
  /\ Answers(IF Allows(req.r.origin) THEN Answer(200, None, FALSE, TRUE, FALSE) ELSE Bare(400))

\* BaseServer.__call__: anything but RUNNING takes no HTTP request in charge.
Turned ==
  /\ req.at = "arrived" /\ req.r.face = "http" /\ ~IsPreflight(req.r) /\ ~running
  /\ Answers(OwnAnswer(req.r, 503))

Demuxes ==
  /\ req.at = "arrived" /\ ~IsPreflight(req.r)
  /\ req.r.face = "http" => running
  /\ req.p # Server => MountedAt(req.p, Segment(req.scope.path)) # {}
  /\ LET found == Demux(req.p, req.scope.path) IN
     IF found.status # 0 THEN Answers(OwnAnswer(req.r, found.status))
     ELSE Steps([req EXCEPT !.at = "routed", !.target = found.code, !.scope.path = found.path])

Served(p, done) ==
  Steps([req EXCEPT !.at = "answered", !.p = p, !.done = done, !.built = proc[p].config,
                    !.answer = AnswerTo(req.r, done.outcome)])

\* RoutedApplication.__call__, where it was routed.
Executes ==
  /\ req.at = "routed"
  /\ LET app == AppOf(req.p, req.target) IN
     ~app.spawner /\ Served(req.p, Performed(proc[req.p], app, req.scope))

\* RemoteApplication.__call__: without a process, nothing to forward to.
Forwards ==
  /\ req.at = "routed" /\ AppOf(req.p, req.target).spawner
  /\ IF req.target \in joined THEN Steps([req EXCEPT !.at = "forwarded"])
     ELSE Answers(OwnAnswer(req.r, 503))

\* _serve_http_stream: the process routes and executes it as its own server.
ExecutesThere ==
  /\ req.at = "forwarded"
  /\ LET sent == Forwarded(AppOf(Server, req.target), req.scope)
         found == Demux(req.target, sent.path)
         done == IF found.status # 0 THEN NotRun([kind |-> "own", status |-> found.status])
                 ELSE Performed(proc[req.target], AppOf(req.target, found.code),
                                [sent EXCEPT !.path = found.path])
     IN Served(req.target, [done EXCEPT !.outcome = Returned(sent, @)])

Ended ==
  /\ req.at = "answered"
  /\ Steps(Idle)

\* The server begins to leave.
Leaves ==
  /\ running /\ running' = FALSE
  /\ proc[Server].stage = "serving" /\ proc[Server].config \in Visited
  /\ UNCHANGED <<vars, req>>

\* A process that ends takes its link: the mount answers 503, and what the
\* process itself was asking for is nobody's.
AfterLoss(left) ==
  CASE req.at = "forwarded" /\ req.target \notin left ->
         [req EXCEPT !.at = "answered", !.answer = OwnAnswer(req.r, 503)]
    [] req.at \in {"arrived", "routed"} /\ req.p # Server /\ req.p \notin left -> Idle
    [] OTHER -> req

Init == CompositionInit /\ running = TRUE /\ req = Idle

Next ==
  \/ \E r \in Requests : Arrives(r)
  \/ GoesToParent \/ Preflight \/ Turned \/ Demuxes
  \/ Executes \/ Forwards \/ ExecutesThere \/ Ended \/ Leaves
  \/ CompositionNext /\ req' = AfterLoss(joined') /\ UNCHANGED running

Spec == Init /\ [][Next]_allVars

-----------------------------------------------------------------------------
TypeOK ==
  /\ CompositionTypeOK
  /\ running \in BOOLEAN
  /\ req # Idle =>
       /\ req.at \in {"arrived", "routed", "forwarded", "answered"}
       /\ req.p \in Processes /\ req.target \in Codes \cup {None} /\ req.r.face \in Faces

(* What a server and its processes were built to serve, as ServerComposition *)
(* says of them: with the types, the paths and the databases.                *)
BuiltAsDeclared == TypeOK /\ ServesWhatIsDeclared /\ RoleServesItsOwn

(* "An application receives a request identically in-process and in an       *)
(* external process" (tests/core/test_external_parity.py:15): when the       *)
(* process read what the server read, the handler is given what it would     *)
(* have been given in the server and the caller gets the same answer,        *)
(* headers of the middlewares included.  In the code as it is this holds of  *)
(* the paths that cross: the process answers 404 where the application of    *)
(* the root declares /livez as the route healthz, or the mount begins with   *)
(* a dot.  And it holds but of a stream that is asked for with the method    *)
(* WSK, which the process buffers as it does a message.                      *)
Parity ==
  req.at = "answered" /\ req.done # Undone /\ req.built = proc[Server].config =>
    LET app == AppOf(Server, req.target)
        here == Performed(proc[Server], app, req.scope)
        buffered == here.outcome.kind = "stream" /\ req.r.face = "http" /\ req.r.method = "WSK"
    IN app.spawner /\ Crosses(app, req.scope.path) /\ ~buffered =>
         /\ here.outcome.kind = "rpc" => req.done.outcome = here.outcome
         /\ [req.done EXCEPT !.outcome = None] = [here EXCEPT !.outcome = None]
         /\ req.answer = AnswerTo(req.r, here.outcome)

(* A handler runs only for who its rule admits, and nobody is served under   *)
(* another name: the identity of a request is the credential it presented,   *)
(* as the process that runs it verifies it, and the session's only when it   *)
(* presented none (authenticate_scope, AuthMixin.authenticate,               *)
(* _trusted_avatar).                                                         *)
RunsAsAllowed ==
  req.at = "answered" /\ req.done.how = "ran" =>
    LET avatar == req.done.view.avatar
        presented == req.r.credential
        app == AppOf(Server, req.target)
    IN /\ req.done.route.rule # None =>
            avatar # Anonymous /\ req.done.route.rule \in avatar.tags
       /\ req.done.view.channel = "mcp" /\ req.p = Server /\ Speaks(app, req.scope.path) =>
            req.done.route \in Listed(app, avatar)
       /\ req.r.face = "http" =>
            avatar = IF presented # None THEN Verify(req.built.recipe.auth, presented)
                     ELSE req.scope.session

(* Of what a caller sends, path, credential, arguments and body are never    *)
(* answered as a fault of the server.  A 500 is a handler that raised, a     *)
(* stream where the face has none, or one of the two things that the code    *)
(* reads and guards nowhere: cookies or a query that do not decode           *)
(* (request.py:172-174), and the name of an encoder that is none, where the  *)
(* handler or the json-rpc face answered with data (request.py:177-180,      *)
(* response.py:226-232).                                                     *)
OnlyCrashesAre500 ==
  req.at = "answered" /\ req.answer.status = 500 =>
    LET ran == req.done.how = "ran" IN
    \/ ran /\ req.done.route.does \in {"crash", "misfit"}
    \/ /\ ran /\ req.done.route.does = "stream"
       /\ req.r.face = "http" => req.r.method = "WSK"
    \/ ~ran /\ req.r.torn /\ req.r.face # "kbus"
    \/ /\ req.r.face = "http" /\ req.r.transport = "unknown"
       /\ ran => req.done.route.does = "data" \/ req.done.view.channel = "mcp"
=============================================================================
