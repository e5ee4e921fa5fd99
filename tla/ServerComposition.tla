------------------------- MODULE ServerComposition -------------------------
(***************************************************************************)
(* How a server and the processes of its external applications are built  *)
(* from one configuration: the layers a recipe is read through, the        *)
(* constructor of AsgiServer, the registration of the applications one at  *)
(* a time with their well-known paths, the databases, and the process of a *)
(* role, which reads the recipe again, joins and presents its paths.       *)
(*                                                                         *)
(* The recipe may be edited between two boots; a process may end and be    *)
(* started again (ProcessSupervisor has its spawner).  A constructor runs  *)
(* with nothing in between but the edits of the recipe it already read.    *)
(***************************************************************************)
EXTENDS Naturals, Sequences, FiniteSets

CONSTANTS
  Recipes,      \* what the file of the site may hold
  Deployments,  \* what <base_dir>/config.py may write; None: no such file
  Named,        \* what the file a recipe names as its defaults writes, or None
  Shipped,      \* what BaseConfiguration writes
  Management,   \* the entry of the ServerApplication nobody declared
  Registry,     \* the middlewares that exist
  WellKnown,    \* the paths WELL_KNOWN_PATTERN matches that anybody names
  Codes,        \* codes of applications
  Edited,       \* bound: the recipes the file is edited into
  MaxEdits, MaxBoots,  \* bounds
  None

Server == "server"
Processes == {Server} \cup Codes

\* An application as a recipe gives it: its options, and what its class declares.
EntryFields ==
  {"code", "mount", "class", "spawner", "declared", "defaults", "documents", "routes", "raw",
   "invalid", "dbs", "handler", "oidc", "mcp"}
Doings == {"value", "data", "stream", "crash", "misfit", "redirect", "refuse"}
IsEntry(e) ==
  /\ e = [field \in EntryFields |-> e[field]]
  /\ e.code \in Codes /\ e.spawner \in BOOLEAN /\ e.invalid \in {400, 422}
  /\ \A route \in e.routes : route.does \in Doings
  /\ e.mcp # None /\ e.mcp.root # None => e.mcp.root \in Seq(STRING)

ASSUME BoundsAssumption ==
  Edited \subseteq Recipes /\ MaxEdits \in Nat /\ MaxBoots \in Nat
ASSUME NamesAssumption == None \notin Codes /\ Server \notin Codes
ASSUME RecipesAssumption ==
  /\ \A recipe \in Recipes :
       /\ Len(recipe.entries) \in Nat /\ DOMAIN recipe.entries = 1 .. Len(recipe.entries)
       /\ \A i \in DOMAIN recipe.entries : IsEntry(recipe.entries[i])
  /\ IsEntry(Management) /\ ~Management.spawner

VARIABLES
  disk,    \* the recipe and the deployment's defaults as they are now
  proc,    \* of the server and of the process of each role, what it built
  joined,  \* kbus_pids: the roles whose process joined and was not lost
  edits, boots

vars == <<disk, proc, joined, edits, boots>>

\* A level of the read stack: what a recipe writes of each word, or None.
Words == {"kbus", "url", "middleware", "plugins", "handler", "tasks"}

NoHolder == [code |-> None, route |-> <<>>]
Nobody == [path \in WellKnown |-> NoHolder]
Down == [stage |-> "down", config |-> None, pending |-> {}, apps |-> {},
         declared |-> Nobody, defaults |-> Nobody, dbs |-> {}]

-----------------------------------------------------------------------------
(* The configuration.                                                      *)

\* DefaultConfig.parents_for: the layers below the recipe, the top first.  A
\* server composed in code is a recipe over the default template alone.
Parents(d) ==
  IF d.recipe.shortcut \/ d.recipe.layer = "off" THEN <<Shipped>>
  ELSE IF d.recipe.layer = "named" THEN <<Named, Shipped>>
  ELSE IF d.deployment = None THEN <<Shipped>> ELSE <<d.deployment, Shipped>>

\* closed_attrs: the topmost layer that writes the word.
Read(d, word) ==
  LET layers == <<d.recipe.words>> \o Parents(d)
      writing == {i \in DOMAIN layers : layers[i][word] # None}
  IN IF writing = {} THEN None
     ELSE layers[CHOOSE i \in writing : \A j \in writing : i <= j][word]

\* application_entries and class_and_params: the code the caller wrote, else the
\* class's.
Coded(class, params) ==
  [class EXCEPT !.code = IF params.code = None THEN @ ELSE params.code,
                !.mount = IF params.mount = None THEN @ ELSE params.mount]

\* ShortcutConfiguration: a server composed in code, as the recipe it writes.
\* No keyword says a bus, a channel or a database.
Composed(keywords) ==
  [shortcut |-> TRUE, layer |-> "off",
   words |-> [word \in Words |->
                IF word \in {"url", "middleware", "plugins"} THEN keywords[word] ELSE None],
   entries |-> [i \in DOMAIN keywords.applications |->
                  Coded(keywords.applications[i].class, keywords.applications[i].params)],
   default |-> keywords.default, dbs |-> {}, channels |-> {}, auth |-> keywords.auth]

LosesDefaults(d) == ~d.recipe.shortcut /\ d.recipe.layer = "named" /\ Named = None

\* server_kwargs: unix:// or wss://, and wss:// with certificate and key.
RefusesAddress(d) == Read(d, "kbus") \notin {None, "unix", "wss with certificate"}

\* channels: each names the route that authenticates it.
RefusesChannel(d) == "" \in d.recipe.channels

\* The element application of the recipe: _server that names no class.
ClassOf(e) == IF e.code = "_server" /\ e.class = None THEN "server" ELSE e.class

\* applications: _server is a ServerApplication.
RefusesEntry(d) ==
  \E i \in DOMAIN d.recipe.entries :
    d.recipe.entries[i].code = "_server" /\ ClassOf(d.recipe.entries[i]) # "server"

\* auth_entries and AuthCore: a basic user has a password, a bearer its token.
RefusesCredential(d) == "" \in DOMAIN d.recipe.auth.basic \cup DOMAIN d.recipe.auth.bearer

\* BaseApplication: no mount is the code; "" is the root.
Mounted(e) == [e EXCEPT !.mount = IF @ = None THEN e.code ELSE @]

\* Without PROXY_OPTIONS.
Hosted(e) == [e EXCEPT !.spawner = FALSE]

\* _configured_kwargs: an entry with a spawner is forwarded by the server, and
\* run by the process of its role.
Entries(d, p) ==
  LET written == [i \in DOMAIN d.recipe.entries |-> Mounted(d.recipe.entries[i])]
  IN CASE p # Server -> [i \in DOMAIN written |-> Hosted(written[i])]
       [] p = Server /\ (\E i \in DOMAIN written : written[i].code = "_server") -> written
       [] OTHER -> Append(written, Management)

\* What a process builds: the server all of it, a role the one it hosts.
Places(d, p) == {i \in DOMAIN Entries(d, p) : p # Server => Entries(d, p)[i].code = p}

Default(p) == IF p = Server THEN proc[p].config.recipe.default ELSE None

-----------------------------------------------------------------------------
(* BaseServer: the index of the applications and of the well-known paths.  *)

\* resolve_well_known and check_well_known_routes: only such paths, and each
\* to an entry of the router.
NamesItsRoutes(e) ==
  \A routes \in {e.declared, e.defaults} :
    \A path \in DOMAIN routes :
      /\ path \in WellKnown
      /\ \E route \in e.routes : route.path = routes[path]

\* ServerApplication: a document that no word of the recipe writes is not given,
Given(e) ==
  LET paths == {path \in DOMAIN e.defaults :
                  path \in DOMAIN e.documents => e.documents[path] # "absent"}
  IN [path \in paths |-> e.defaults[path]]

\* build_security_txt, build_robots_txt: and one of words it cannot be built from
\* is refused.
RefusesDocument(e) == \E path \in DOMAIN e.documents : e.documents[path] = "refused"

\* What an entry answers as it registers: a RemoteApplication, nothing yet.
Presents(e) ==
  IF e.spawner THEN [declared |-> <<>>, defaults |-> <<>>]
  ELSE [declared |-> e.declared, defaults |-> Given(e)]

\* An index gives a path the application that holds it and the route there.
Owner(index, path) == index[path].code

\* Mutant of Conflicts: a path declared by another is taken over.
ConflictsOfDefaults(p, code, presented) ==
  \E path \in DOMAIN presented.defaults : Owner(proc[p].defaults, path) \notin {None, code}

\* claim_well_known: declared by two, or given as default by two.
Conflicts(p, code, presented) ==
  \/ \E path \in DOMAIN presented.declared : Owner(proc[p].declared, path) \notin {None, code}
  \/ \E path \in DOMAIN presented.defaults : Owner(proc[p].defaults, path) \notin {None, code}

\* Mutant of Reindexed: what a process presented before stays.
ReindexedOver(index, code, routes) ==
  [path \in WellKnown |->
     IF path \in DOMAIN routes THEN [code |-> code, route |-> routes[path]] ELSE index[path]]

Reindexed(index, code, routes) ==
  [path \in WellKnown |->
     CASE path \in DOMAIN routes -> [code |-> code, route |-> routes[path]]
       [] path \notin DOMAIN routes /\ Owner(index, path) = code -> NoHolder
       [] OTHER -> index[path]]

Claimed(p, code, presented) ==
  [proc[p] EXCEPT !.declared = Reindexed(@, code, presented.declared),
                  !.defaults = Reindexed(@, code, presented.defaults)]

\* register_application.
Rejects(p, e) ==
  \/ \E app \in proc[p].apps : app.code = e.code \/ app.mount = e.mount
  \/ ~e.spawner /\ (~NamesItsRoutes(e) \/ RefusesDocument(e))
  \/ Conflicts(p, e.code, Presents(e))

-----------------------------------------------------------------------------
(* Databases.                                                              *)

\* databases and _register_configured_databases: the server's, and those of
\* the applications this process has; each with its own handler, its
\* section's, or the server's.
Databases(d, apps) ==
  LET server == Read(d, "handler")
      First(a, b) == IF a # None THEN a ELSE b
  IN {[name |-> <<None, db.code>>, handler |-> First(db.handler, server)] : db \in d.recipe.dbs}
     \cup UNION {{[name |-> <<app.code, db.code>>,
                   handler |-> First(db.handler, First(app.handler, server))] : db \in app.dbs}
                 : app \in apps}

\* database_name: what db() of an application resolves to.
DatabaseOf(q, app) ==
  LET own == <<app.code, "default">> IN
  IF \E db \in q.dbs : db.name = own THEN own ELSE <<None, "default">>

-----------------------------------------------------------------------------
(* Boots.                                                                  *)

Boot(p) ==
  /\ proc[p].stage = "down"
  /\ boots < MaxBoots /\ boots' = boots + 1
  /\ p # Server =>
       /\ proc[Server].stage = "serving"
       /\ \E e \in proc[Server].apps : e.code = p /\ e.spawner
  /\ proc' = [proc EXCEPT ![p] =
       IF \/ LosesDefaults(disk) \/ RefusesAddress(disk) \/ RefusesChannel(disk)
          \/ RefusesEntry(disk) \/ RefusesCredential(disk)
         THEN [Down EXCEPT !.stage = "failed"]
         ELSE [Down EXCEPT !.stage = "building", !.config = disk, !.pending = Places(disk, p)]]
  /\ UNCHANGED <<disk, joined, edits>>

Register(p) ==
  /\ proc[p].stage = "building"
  /\ \E i \in proc[p].pending :
       /\ \A j \in proc[p].pending : i <= j
       /\ LET e == Entries(proc[p].config, p)[i] IN
          proc' = [proc EXCEPT ![p] =
            IF Rejects(p, e) THEN [Down EXCEPT !.stage = "failed"]
            ELSE [Claimed(p, e.code, Presents(e)) EXCEPT
                    !.apps = @ \cup {e}, !.pending = @ \ {i}]]
  /\ UNCHANGED <<disk, joined, edits, boots>>

\* The rest of the constructors: the default is an application that is here,
NoSuchDefault(p, apps) == Default(p) # None /\ \A app \in apps : app.code # Default(p)

\* the openapi plugin stays on, being armed before the configuration is read,
DisablesFixed(d) == Read(d, "plugins") = "openapi off"

\* every middleware of the chain exists,
UnknownMiddleware(d) ==
  Read(d, "middleware") # None /\ ~(Read(d, "middleware") \subseteq Registry)

\* a provider of identities is told the external url, and
NeedsExternalUrl(d, apps) ==
  Read(d, "url") = None /\ \E app \in apps : app.code = "_server" /\ app.oidc

\* each database has a handler.
NoHandler(d, apps) == \E db \in Databases(d, apps) : db.handler = None

Refuses(p, apps) ==
  LET d == proc[p].config IN
  \/ NoSuchDefault(p, apps) \/ DisablesFixed(d) \/ UnknownMiddleware(d)
  \/ NeedsExternalUrl(d, apps) \/ NoHandler(d, apps)

Settle(p) ==
  /\ proc[p].stage = "building" /\ proc[p].pending = {}
  /\ LET built == proc[p] IN
     proc' = [proc EXCEPT ![p] =
       IF Refuses(p, built.apps) THEN [Down EXCEPT !.stage = "failed"]
       ELSE [built EXCEPT !.stage = "serving", !.dbs = Databases(built.config, built.apps)]]
  /\ UNCHANGED <<disk, joined, edits, boots>>

\* run_role and _external_joined: the process presents the paths of the one
\* application it has; refused, or with none to present, it ends.
Joins(code) ==
  /\ proc[code].stage = "serving" /\ code \notin joined
  /\ IF \E app \in proc[code].apps : ~Conflicts(Server, code, Presents(app))
       THEN LET app == CHOOSE app \in proc[code].apps : TRUE IN
            /\ proc' = [proc EXCEPT ![Server] = Claimed(Server, code, Presents(app))]
            /\ joined' = joined \cup {code}
       ELSE proc' = [proc EXCEPT ![code] = Down] /\ UNCHANGED joined
  /\ UNCHANGED <<disk, edits, boots>>

\* The process of a role ends; what it claimed stays until the next one joins.
Ends(code) ==
  /\ proc[code].stage \in {"serving", "failed"}
  /\ proc' = [proc EXCEPT ![code] = Down]
  /\ joined' = joined \ {code}
  /\ UNCHANGED <<disk, edits, boots>>

Edits(recipe, deployment) ==
  /\ edits < MaxEdits /\ edits' = edits + 1
  /\ disk' = [recipe |-> recipe, deployment |-> deployment]
  /\ disk' # disk
  /\ UNCHANGED <<proc, joined, boots>>

CompositionInit ==
  /\ disk \in [recipe : Recipes, deployment : Deployments]
  /\ proc = [p \in Processes |-> Down]
  /\ joined = {} /\ edits = 0 /\ boots = 0

CompositionNext ==
  \/ \E p \in Processes : Boot(p) \/ Register(p) \/ Settle(p)
  \/ \E code \in Codes : Joins(code) \/ Ends(code)
  \/ \E recipe \in Edited, deployment \in Deployments : Edits(recipe, deployment)

-----------------------------------------------------------------------------
CompositionTypeOK ==
  /\ disk \in [recipe : Recipes, deployment : Deployments]
  /\ \A p \in Processes :
       /\ proc[p].stage \in {"down", "building", "serving", "failed"}
       /\ \A path \in WellKnown :
            {Owner(proc[p].declared, path), Owner(proc[p].defaults, path)} \subseteq Codes \cup {None}
       /\ {app.code : app \in proc[p].apps} \subseteq Codes
  /\ joined \subseteq Codes /\ edits \in 0 .. MaxEdits /\ boots \in 0 .. MaxBoots

\* A recipe that can be served, read as a whole.
Sound(d) ==
  LET entries == Entries(d, Server)
      local == {i \in DOMAIN entries : ~entries[i].spawner}
      apart(i, j) ==
        /\ entries[i].code # entries[j].code /\ entries[i].mount # entries[j].mount
        /\ {i, j} \subseteq local =>
             /\ DOMAIN entries[i].declared \cap DOMAIN entries[j].declared = {}
             /\ DOMAIN Given(entries[i]) \cap DOMAIN Given(entries[j]) = {}
  IN /\ \A i, j \in DOMAIN entries : i # j => apart(i, j)
     /\ \A i \in local : NamesItsRoutes(entries[i])

\* What answers a well-known path: who declares it, else whose default it is.
Holder(p, path) ==
  IF Owner(proc[p].declared, path) # None THEN proc[p].declared[path] ELSE proc[p].defaults[path]

(* The order of the entries decides nothing: a server serves only a recipe   *)
(* whose entries agree as a whole, a declared path is its application's      *)
(* however late it was registered, a default answers what nobody declares,   *)
(* and a path of an application that runs here is held by what its last      *)
(* process presented, no more and no less (register_application,             *)
(* claim_well_known, server.py:253-325).                                     *)
ServesWhatIsDeclared ==
  proc[Server].stage = "serving" =>
    /\ Sound(proc[Server].config)
    /\ \A app \in proc[Server].apps : ~app.spawner =>
         \A path \in WellKnown :
           /\ (Owner(proc[Server].declared, path) = app.code) = (path \in DOMAIN app.declared)
           /\ (Owner(proc[Server].defaults, path) = app.code) = (path \in DOMAIN Given(app))
           /\ path \in DOMAIN app.declared =>
                Holder(Server, path) = [code |-> app.code, route |-> app.declared[path]]
    /\ \A code \in joined : \A app \in proc[code].apps : \A path \in WellKnown :
         /\ (Owner(proc[Server].declared, path) = code) = (path \in DOMAIN app.declared)
         /\ (Owner(proc[Server].defaults, path) = code) = (path \in DOMAIN Given(app))

(* A process that joins moves no path of another application, and one that   *)
(* ends moves none at all: the answer of a declared path changes only by a   *)
(* join of its own application (kbus_mixin.py:294-316).                      *)
NobodyLosesAPath ==
  [][\A path \in WellKnown :
       LET before == Owner(proc[Server].declared, path)
           after == Owner(proc'[Server].declared, path)
       IN proc[Server].stage = "serving" /\ before # None /\ before # after =>
            before \in joined' \ joined]_vars

(* The process of a role has what its mount has in the server, when both     *)
(* read the same: the same databases by the same handlers but those of other *)
(* applications, and db() means the same in both.                            *)
RoleServesItsOwn ==
  \A code \in joined : proc[code].config = proc[Server].config =>
    \A app \in proc[code].apps :
      /\ \E mount \in proc[Server].apps : mount = [app EXCEPT !.spawner = TRUE]
      /\ proc[code].dbs = {db \in proc[Server].dbs : db.name[1] \in {None, code}}
      /\ DatabaseOf(proc[code], app) = DatabaseOf(proc[Server], app)
=============================================================================
