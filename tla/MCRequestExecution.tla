------------------------- MODULE MCRequestExecution -------------------------
(* Three applications and the management one: `shop` in a mount and `site`   *)
(* on the root, each in the server or in a process of its own, and `blog`,   *)
(* which is in the way of both.  Recipes that are served and recipes that    *)
(* are refused, one reason each; the deployment may add a default handler.   *)
EXTENDS RequestExecution, TLC

Channels == {"rest", "wsx", "mcp"}
Route(path, rule, does) ==
  [path |-> path, rule |-> rule, does |-> does, channels |-> {"rest", "wsx"}, method |-> None,
   fields |-> {}, required |-> {}, typed |-> {}, open |-> FALSE]
Taking(path, fields) == [Route(path, None, "value") EXCEPT !.fields = fields]

Entry(code, mount, routes) ==
  [code |-> code, mount |-> mount, class |-> "routed", spawner |-> FALSE,
   declared |-> <<>>, defaults |-> <<>>, documents |-> <<>>, routes |-> routes, raw |-> FALSE,
   invalid |-> 400, dbs |-> {}, handler |-> None, oidc |-> FALSE, mcp |-> None]
Face(segment, root) == [segment |-> segment, root |-> root, origins |-> None]

Health == <<"healthz">>
Robots == <<"robots.txt">>
MCWellKnown == {Health, Robots, <<"livez">>}
MCManagement ==
  [Entry("_server", "_server", {Route(<<"k8s", "healthz">>, None, "value"),
                                Route(<<"robots">>, None, "value")})
     EXCEPT !.class = "server",
            !.defaults = (Health :> <<"k8s", "healthz">> @@ Robots :> <<"robots">>),
            !.documents = Robots :> "absent"]
Documented(state) == [MCManagement EXCEPT !.documents = Robots :> state]

ShopRoutes ==
  {Route(<<"admin">>, "staff", "value"), Route(<<"boom">>, None, "crash"),
   Route(<<"gone">>, None, "redirect"), Route(<<"busy">>, None, "refuse"),
   Route(<<"feed">>, None, "stream"), Route(<<"robots">>, None, "value"),
   [Taking(<<"save">>, {"a"}) EXCEPT !.method = "POST", !.required = {"a"}, !.typed = {"a"}],
   Taking(<<"whole">>, {"body_data"}), [Taking(<<"any">>, {}) EXCEPT !.open = TRUE],
   Taking(<<"live">>, {"_request", "a"}),
   [Taking(<<"tool">>, {"body_data", "a"}) EXCEPT !.channels = {"mcp"}],
   [Taking(<<"both">>, {"a"}) EXCEPT !.channels = Channels, !.required = {"a"}, !.typed = {"a"},
                                     !.method = "GET"],
   [Route(<<"ruled">>, "staff", "refuse") EXCEPT !.channels = Channels],
   [Route(<<"crashes">>, None, "crash") EXCEPT !.channels = Channels],
   [Route(<<"misfits">>, None, "misfit") EXCEPT !.channels = Channels], Route(<<"data">>, None, "data")}
Shop ==
  [Entry("shop", "shop", ShopRoutes) EXCEPT
     !.declared = Robots :> <<"robots">>, !.dbs = {[code |-> "default", handler |-> None]},
     !.handler = "sqlite", !.invalid = 422, !.mcp = [Face("mcp", <<>>) EXCEPT !.origins = {"friend"}]]
Site ==
  [Entry("site", "", {Route(<<"healthz">>, None, "value"), Route(<<"x">>, "staff", "value"),
                      Taking(<<"raw">>, {"body_raw"})})
     EXCEPT !.declared = Health :> <<"healthz">>, !.raw = TRUE]
\* The route of its /livez is, to its process, the well-known path of another.
Alive == [Site EXCEPT !.declared = Health :> <<"raw">> @@ <<"livez">> :> <<"healthz">>]
Blog ==
  [Entry("blog", None, {Route(<<"robots">>, None, "value"), Route(<<"up">>, None, "value"),
                        [Route(<<"api", "tell">>, "staff", "value") EXCEPT !.channels = {"mcp"}]})
     EXCEPT !.mcp = Face(None, <<"api">>)]
Out(e) == [e EXCEPT !.spawner = TRUE]

Alice == [identity |-> "alice", tags |-> {"staff"}]
Bob == [identity |-> "bob", tags |-> {}]
Carl == [identity |-> "carl", tags |-> {"staff"}]
MCKeys == "gak_good" :> Carl
Auth == [basic |-> "pw" :> Bob, bearer |-> ("token" :> Carl),
         jwt |-> <<"jwt" :> Bob, ("jwt" :> Alice @@ "gak_bad" :> Alice)>>]

Blank == [word \in Words |-> None]
MCShipped == Blank
MCDeployments == {None, [Blank EXCEPT !.handler = "postgres"]}
Good ==
  [shortcut |-> FALSE, layer |-> "silent",
   words |-> [Blank EXCEPT !.middleware = {"session", "cors"}, !.kbus = "unix"],
   entries |-> <<Out(Shop), Site>>, default |-> None, dbs |-> {}, channels |-> {"/login"}, auth |-> Auth]
\* As the server may be relaunched with: the mount takes a path that is free, or
\* one that is not.
Moved == [Good EXCEPT !.entries = <<Out([Shop EXCEPT !.declared = <<"livez">> :> <<"robots">>]), Site>>]
Greedy ==
  [Good EXCEPT !.entries =
     <<Out([Shop EXCEPT !.declared = (Health :> <<"robots">> @@ Robots :> <<"robots">>),
                        !.handler = "other"]), Site>>]
Rooted ==
  [Good EXCEPT !.words.middleware = {"cors for friends"}, !.layer = "off",
               !.entries = <<[Documented("sound") EXCEPT !.class = None], Out(Alive), Shop>>]
Mounts ==
  [Good EXCEPT !.entries = <<Shop, Blog>>, !.default = "blog", !.words.middleware = None,
               !.words.tasks = "off"]
\* Composed in code: a class with the mount the caller writes, one as it is.
Keywords ==
  [url |-> None, middleware |-> {"cors"}, plugins |-> None, default |-> "blog", auth |-> Auth,
   applications |-> <<[class |-> Site, params |-> [code |-> None, mount |-> "site"]],
                      [class |-> [Blog EXCEPT !.mcp = Face(None, None)],
                       params |-> [code |-> None, mount |-> None]]>>]
Twice == [i \in 1 .. 2 |-> Keywords.applications[1]]

Needy == [Good EXCEPT !.dbs = {[code |-> "default", handler |-> None]}]
Bad ==
  {[Good EXCEPT !.entries = <<Shop, [Blog EXCEPT !.declared = Robots :> <<"robots">>]>>],
   [Good EXCEPT !.entries = <<[Blog EXCEPT !.defaults = Health :> <<"robots">>], Shop>>],
   [Good EXCEPT !.entries = <<Shop, [Blog EXCEPT !.mount = "shop"]>>],
   [Good EXCEPT !.entries = <<Shop, [Blog EXCEPT !.code = "shop"]>>],
   [Good EXCEPT !.entries = <<[Shop EXCEPT !.declared = Robots :> <<"", "robots">>]>>],
   [Good EXCEPT !.default = "blog"], [Good EXCEPT !.words.middleware = {"cros"}],
   [Good EXCEPT !.words.plugins = "openapi off"], [Good EXCEPT !.words.kbus = "tcp"],
   [Good EXCEPT !.words.kbus = "wss"], [Good EXCEPT !.channels = {""}],
   [Good EXCEPT !.entries = <<[MCManagement EXCEPT !.oidc = TRUE], Shop>>],
   [Good EXCEPT !.entries = <<[MCManagement EXCEPT !.class = "routed"]>>],
   [Good EXCEPT !.entries = <<Documented("refused")>>],
   Composed([Keywords EXCEPT !.applications = Twice]),
   [Good EXCEPT !.layer = "named"], [Good EXCEPT !.auth.basic = "" :> Bob]}
MCRecipes ==
  {Good, Moved, Greedy, Rooted, Mounts, Needy, [Needy EXCEPT !.layer = "off"],
   Composed(Keywords)} \cup Bad
MCVisited ==
  {[recipe |-> Good, deployment |-> [Blank EXCEPT !.handler = "postgres"]],
   [recipe |-> Rooted, deployment |-> None], [recipe |-> Mounts, deployment |-> None],
   [recipe |-> Composed(Keywords), deployment |-> None]}
MCEdited == {Moved, Greedy}

-----------------------------------------------------------------------------
Cred(scheme, value) == [scheme |-> scheme, value |-> value]
Credentials ==
  {None, Cred("basic", "pw"), Cred("basic", "no"), Cred("bearer", "token"), Cred("bearer", "jwt"),
   Cred("bearer", "gak_good"), Cred("bearer", "gak_bad"), Cred("digest", "pw"), Cred("", "pw")}

Fields(f) == [kind |-> "fields", fields |-> f]
Bodies ==
  {Nothing, Fields("a" :> "body"), Fields("a" :> "bad"), Fields("b" :> "body"),
   [kind |-> "list", fields |-> <<>>], [kind |-> "broken", fields |-> <<>>]}

Plain ==
  [face |-> "http", from |-> Server, path |-> <<>>, method |-> "GET", origin |-> None,
   credential |-> None, session |-> None, known |-> FALSE, query |-> <<>>, ctype |-> None,
   body |-> Nothing, page |-> None, channel |-> None, avatar |-> None, version |-> None,
   torn |-> FALSE, transport |-> None]

In(mount, names) == {<<mount, name>> : name \in names}
Known(r, avatar) == [r EXCEPT !.session = avatar, !.known = TRUE]
Whoever ==
  {[Known(Plain, s) EXCEPT !.path = path, !.credential = c] :
     path \in {<<"shop", "admin">>, <<"x">>}, c \in Credentials, s \in {None, Alice}}
  \cup {[Known(Plain, Bob) EXCEPT !.path = path] : path \in {<<"shop", "admin">>, <<"x">>}}
Wherever ==
  {[Plain EXCEPT !.path = path] :
     path \in {<<>>, Health, Robots, <<"livez">>, <<".git", "x">>, <<"blog">>, <<"shop">>,
               <<"nowhere">>} \cup In("shop", {"gone", "tool"})}
  \cup {[Plain EXCEPT !.path = path, !.origin = o] :
           path \in {<<>>, <<"nowhere">>} \cup In("shop", {"boom", "busy", "feed"}),
           o \in {None, "friend", "stranger"}}
Preflights ==
  {[Plain EXCEPT !.path = <<"shop", "busy">>, !.method = "OPTIONS", !.origin = o] :
     o \in {None, "friend", "stranger"}}
Sent(path, ctype, body) ==
  [Plain EXCEPT !.path = path, !.method = "POST", !.ctype = ctype, !.body = body]
Whatever ==
  {Sent(path, c, b) : path \in In("shop", {"save", "whole", "any"}) \cup {<<"raw">>},
                      c \in {"json", "form"}, b \in Bodies}
  \cup {[Sent(<<"shop", name>>, "json", Fields("b" :> "body")) EXCEPT !.query = "a" :> "query"] :
          name \in {"save", "whole", "any", "live"}}
  \cup {Sent(<<"shop", "save">>, "text", b) : b \in Bodies}
  \cup {[Plain EXCEPT !.path = <<"shop", "save">>, !.query = "a" :> v] : v \in {"query", "bad"}}
Possible(r) == r.ctype = "form" => r.body.kind # "list"
Messages ==
  {[Known(Plain, s) EXCEPT !.face = "wsx", !.path = path, !.credential = c, !.page = "page",
       !.body = IF path = <<"shop", "save">> THEN Fields("a" :> "body") ELSE Nothing] :
     path \in In("shop", {"admin", "save", "feed", "boom", "gone"}) \cup {<<"x">>, Health},
     c \in {None, Cred("bearer", "token"), Cred("basic", "no")}, s \in {None, Alice}}
Calls ==
  {[Plain EXCEPT !.face = "kbus", !.from = f, !.path = path, !.avatar = a,
       !.channel = IF path = <<"shop", "tool">> THEN "mcp" ELSE None,
       !.body = IF path \in In("shop", {"save", "tool"}) THEN Fields("a" :> "body") ELSE Nothing] :
     f \in {Server, "shop", "site"},
     path \in In("shop", {"admin", "save", "feed", "boom", "tool"}) \cup {<<"x">>, <<>>},
     a \in {None, Alice}}
\* To the json-rpc faces.
Rpc(method) ==
  [kind |-> "rpc", fields |-> <<>>, id |-> TRUE, method |-> method, params |-> "object",
   tool |-> <<>>, arguments |-> Fields(<<>>)]
Call(tool, arguments) == [Rpc("tools/call") EXCEPT !.tool = tool, !.arguments = arguments]
Envelopes ==
  {Rpc("tools/list"), Rpc("tools/none"), Rpc(None),
   [Rpc("tools/list") EXCEPT !.params = "list"], [Call(<<"both">>, Fields("a" :> "body")) EXCEPT !.id = FALSE],
   Call(<<"both">>, Fields("a" :> "body")), Call(<<"both">>, Fields("a" :> "bad")), Call(<<"both">>, Fields(<<>>)),
   Call(<<"tool">>, Fields("b" :> "body")), Call(<<"tool">>, [kind |-> "list", fields |-> <<>>]),
   Call(<<"crashes">>, Fields(<<>>)), Call(<<"misfits">>, Fields(<<>>)), Call(<<"admin">>, Fields(<<>>)),
   Call(<<"ruled">>, Fields(<<>>)), Nothing, Fields("a" :> "body"),
   [kind |-> "list", fields |-> <<>>], [kind |-> "broken", fields |-> <<>>]}
RpcFaces == {<<"shop", "mcp">>, <<"blog">>}
Rpcs ==
  {Known(Sent(<<"shop", "mcp">>, "json", b), s) : b \in Envelopes, s \in {None, Alice}}
  \cup {Known(Sent(<<"blog">>, "json", b), s) :
           b \in {Rpc("initialize"), Rpc("tools/list"), Call(<<"tell">>, Fields(<<>>)), Nothing,
                  Fields("a" :> "body")}, s \in {None, Alice}}
  \cup {[Sent(<<"shop", "mcp">>, "json", Call(<<"ruled">>, Fields(<<>>)))
            EXCEPT !.credential = c, !.version = v, !.origin = o] :
           c \in {None, Cred("basic", "pw"), Cred("basic", "no"), Cred("bearer", "gak_good")},
           v \in {None, "unknown"}, o \in {"friend", "stranger"}}
  \cup {[Plain EXCEPT !.path = path, !.method = m] : path \in RpcFaces, m \in {"GET", "PUT"}}
  \cup {[Plain EXCEPT !.face = "kbus", !.from = f, !.path = <<"shop", "mcp">>, !.avatar = a, !.body = Call(<<"ruled">>, Fields(<<>>))] :
           f \in {Server, "site"}, a \in {None, Alice}}
\* Headers that nothing validates, and a method that is a message's.
Headed ==
  {[Plain EXCEPT !.path = path, !.transport = t] :
     path \in In("shop", {"data", "robots", "feed", "misfits"}), t \in {"known", "unknown"}}
  \cup {[Known(Sent(<<"shop", "mcp">>, "json", b), Alice) EXCEPT !.transport = "unknown"] :
           b \in {Rpc("ping"), Call(<<"ruled">>, Fields(<<>>)), Rpc(None), Nothing}}
  \cup {[Plain EXCEPT !.path = path, !.method = "WSK"] : path \in In("shop", {"data", "feed", "boom", "mcp"})}
  \cup {[Plain EXCEPT !.path = path, !.torn = TRUE] :
           path \in In("shop", {"data", "admin", "mcp"}) \cup {<<"raw">>, <<"nowhere">>}}
  \cup {[Plain EXCEPT !.path = <<"shop", "data">>, !.face = f, !.torn = TRUE, !.transport = "unknown"] :
           f \in {"wsx", "kbus"}}
MCRequests ==
  Headed \cup
  Rpcs \cup Whoever \cup Wherever \cup Preflights \cup {r \in Whatever : Possible(r)} \cup Messages \cup Calls
=============================================================================
