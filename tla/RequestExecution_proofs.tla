---------------------- MODULE RequestExecution_proofs ----------------------
(***************************************************************************)
(* A server as it is built from its recipe, and the requests that reach    *)
(* it.                                                                     *)
(*                                                                         *)
(* Of ServerComposition, for any recipes, applications and number of edits *)
(* and boots: what a server serves is what its recipe declares, and no     *)
(* path changes hands.                                                     *)
(*                                                                         *)
(* Of RequestExecution, for any requests, of any face, at any point of     *)
(* that: a fault is a handler's, a handler runs for who its rule admits,   *)
(* and an application answers alike in the server and in a process of its  *)
(* own.  The lemmas on the operators (what an execution gives, on what it  *)
(* depends, what crosses to another process, where a path leads) come      *)
(* before the steps that use them.                                         *)
(***************************************************************************)
EXTENDS RequestExecution, SequenceTheorems, TLAPS

Configs == [recipe : Recipes, deployment : Deployments]

-----------------------------------------------------------------------------
(* The entries. *)

LEMMA MountedIs ==
  ASSUME NEW e, IsEntry(e)
  PROVE  /\ IsEntry(Mounted(e))
         /\ \A field \in EntryFields \ {"mount"} : Mounted(e)[field] = e[field]
BY DEF IsEntry, Mounted, EntryFields

LEMMA HostedIs ==
  ASSUME NEW e, IsEntry(e)
  PROVE  /\ IsEntry(Hosted(e))
         /\ \A field \in EntryFields \ {"spawner"} : Hosted(e)[field] = e[field]
         /\ ~Hosted(e).spawner
         /\ e.spawner => [Hosted(e) EXCEPT !.spawner = TRUE] = e
<1>1. e = [field \in EntryFields |-> e[field]] BY DEF IsEntry
<1>2. /\ Hosted(e) = [field \in EntryFields |-> Hosted(e)[field]]
      /\ \A field \in EntryFields \ {"spawner"} : Hosted(e)[field] = e[field]
      /\ Hosted(e).spawner = FALSE
      /\ e.spawner => [Hosted(e) EXCEPT !.spawner = TRUE] = e
  BY <1>1 DEF EntryFields, Hosted
<1>3. Hosted(e).code = e.code /\ Hosted(e).invalid = e.invalid /\ Hosted(e).routes = e.routes
      /\ Hosted(e).mcp = e.mcp
  BY <1>2 DEF EntryFields
<1>4. /\ Hosted(e).code \in Codes /\ Hosted(e).spawner \in BOOLEAN /\ Hosted(e).invalid \in {400, 422}
      /\ \A route \in Hosted(e).routes : route.does \in Doings
      /\ Hosted(e).mcp # None /\ Hosted(e).mcp.root # None => Hosted(e).mcp.root \in Seq(STRING)
  BY <1>2, <1>3 DEF IsEntry
<1>5. IsEntry(Hosted(e)) BY ONLY <1>2, <1>4 DEF IsEntry
<1> QED BY <1>2, <1>5

\* The server has every entry of the recipe, and no more than the management's.
LEMMA ServerEntries ==
  ASSUME NEW d \in Configs
  PROVE  /\ \A i \in DOMAIN Entries(d, Server) : IsEntry(Entries(d, Server)[i])
         /\ \A i \in DOMAIN d.recipe.entries :
              i \in DOMAIN Entries(d, Server) /\ Entries(d, Server)[i] = Mounted(d.recipe.entries[i])
         /\ \A i \in DOMAIN Entries(d, Server) \ DOMAIN d.recipe.entries :
              Entries(d, Server)[i] = Management
<1> DEFINE n == Len(d.recipe.entries)
           written == [i \in DOMAIN d.recipe.entries |-> Mounted(d.recipe.entries[i])]
           All == {written[i] : i \in 1 .. n} \cup {Management}
<1>1. n \in Nat /\ DOMAIN d.recipe.entries = 1 .. n
      /\ \A i \in DOMAIN d.recipe.entries : IsEntry(d.recipe.entries[i])
  BY RecipesAssumption DEF Configs
<1>2. \A i \in 1 .. n : IsEntry(written[i]) BY <1>1, MountedIs
<1>3. Entries(d, Server) = IF \E i \in DOMAIN written : written[i].code = "_server"
                             THEN written ELSE Append(written, Management)
  BY DEF Entries
<1>4. CASE Entries(d, Server) = written BY <1>1, <1>2, <1>4
<1>5. CASE Entries(d, Server) = Append(written, Management)
  <2>1. written \in Seq(All) /\ Len(written) = n BY <1>1
  <2>2. Append(written, Management) \in Seq(All) /\ Len(Append(written, Management)) = n + 1
        /\ (\A i \in 1 .. n : Append(written, Management)[i] = written[i])
        /\ Append(written, Management)[n + 1] = Management
    BY <2>1, AppendProperties
  <2>3. DOMAIN Append(written, Management) = 1 .. n + 1 BY <2>2
  <2>4. IsEntry(Management) BY RecipesAssumption
  <2>5. \A i \in 1 .. n : Entries(d, Server)[i] = Mounted(d.recipe.entries[i])
                          /\ IsEntry(Entries(d, Server)[i])
    BY <1>1, <1>2, <1>5, <2>2
  <2>6. \A i \in DOMAIN Entries(d, Server) : i \in 1 .. n \/ i = n + 1
    BY <1>1, <1>5, <2>3
  <2>7. 1 .. n \subseteq DOMAIN Entries(d, Server) BY <1>1, <1>5, <2>3
  <2>8. Entries(d, Server)[n + 1] = Management BY <1>5, <2>2
  <2> QED BY <1>1, <2>4, <2>5, <2>6, <2>7, <2>8
<1> QED BY <1>3, <1>4, <1>5

\* A role builds entries of its own code, which run where they are.
LEMMA RoleEntries ==
  ASSUME NEW d \in Configs, NEW p \in Codes
  PROVE  /\ DOMAIN Entries(d, p) = DOMAIN d.recipe.entries
         /\ \A i \in DOMAIN d.recipe.entries :
              /\ Entries(d, p)[i] = Hosted(Mounted(d.recipe.entries[i]))
              /\ IsEntry(Entries(d, p)[i])
              /\ ~Entries(d, p)[i].spawner
<1>1. \A i \in DOMAIN d.recipe.entries : IsEntry(d.recipe.entries[i])
  BY RecipesAssumption DEF Configs
<1>2. p # Server BY NamesAssumption
<1>3. Entries(d, p) = [i \in DOMAIN d.recipe.entries |->
                         Hosted(Mounted(d.recipe.entries[i]))]
  BY <1>2 DEF Entries
<1>4. ASSUME NEW i \in DOMAIN d.recipe.entries
      PROVE  /\ Entries(d, p)[i] = Hosted(Mounted(d.recipe.entries[i]))
             /\ IsEntry(Entries(d, p)[i])
             /\ ~Entries(d, p)[i].spawner
  <2>1. IsEntry(Mounted(d.recipe.entries[i])) BY <1>1, MountedIs
  <2>2. Entries(d, p)[i] = Hosted(Mounted(d.recipe.entries[i])) BY <1>3
  <2> QED BY <2>1, <2>2, HostedIs
<1> QED BY <1>3, <1>4

LEMMA EntriesFit ==
  ASSUME NEW d \in Configs, NEW p \in Processes, NEW i \in DOMAIN Entries(d, p)
  PROVE  IsEntry(Entries(d, p)[i])
BY ServerEntries, RoleEntries DEF Processes

-----------------------------------------------------------------------------
(* An index of well-known paths. *)

Owners == Codes \cup {None}
IsIndex(index) ==
  /\ DOMAIN index = WellKnown /\ \A path \in WellKnown : Owner(index, path) \in Owners
  /\ \A path \in WellKnown : Owner(index, path) = None => index[path] = NoHolder

\* The paths of an application are the ones it presented, no more and no less.
Held(index, code, routes) ==
  \A path \in WellKnown :
    /\ Owner(index, path) = code <=> path \in DOMAIN routes
    /\ path \in DOMAIN routes => index[path] = [code |-> code, route |-> routes[path]]

LEMMA HeldExactly ==
  ASSUME NEW index, NEW code, NEW routes, Held(index, code, routes), NEW path \in WellKnown
  PROVE  (Owner(index, path) = code) = (path \in DOMAIN routes)
<1>1. Owner(index, path) = code <=> path \in DOMAIN routes BY DEF Held
<1>2. CASE path \in DOMAIN routes
  <2>1. (Owner(index, path) = code) = TRUE BY <1>1, <1>2
  <2>2. (path \in DOMAIN routes) = TRUE BY <1>2
  <2> QED BY <2>1, <2>2
<1>3. CASE path \notin DOMAIN routes
  <2>1. (Owner(index, path) = code) = FALSE BY <1>1, <1>3
  <2>2. (path \in DOMAIN routes) = FALSE BY <1>3
  <2> QED BY <2>1, <2>2
<1> QED BY <1>2, <1>3

\* No path of another is among them.
Free(index, code, routes) ==
  \A path \in DOMAIN routes : path \in WellKnown => Owner(index, path) \in {None, code}

LEMMA ReindexedIs ==
  ASSUME NEW index, IsIndex(index), NEW code \in Codes, NEW routes
  PROVE  /\ IsIndex(Reindexed(index, code, routes))
         /\ Held(Reindexed(index, code, routes), code, routes)
BY NamesAssumption DEF IsIndex, Held, Reindexed, Owner, Owners, NoHolder

LEMMA OthersAreHeld ==
  ASSUME NEW index, IsIndex(index), NEW code \in Codes, NEW routes, Free(index, code, routes),
         NEW other \in Codes, other # code, NEW held, Held(index, other, held)
  PROVE  Held(Reindexed(index, code, routes), other, held)
BY NamesAssumption DEF IsIndex, Held, Reindexed, Owner, Owners, NoHolder, Free

LEMMA WhoOwns ==
  ASSUME NEW index, IsIndex(index), NEW code \in Codes, NEW routes, NEW path \in WellKnown
  PROVE  Owner(Reindexed(index, code, routes), path) \in {None, code, Owner(index, path)}
BY DEF IsIndex, Reindexed, Owner, NoHolder

\* What a claim moves: only what nobody, or the claimer, had.
LEMMA OthersKeep ==
  ASSUME NEW index, IsIndex(index), NEW code \in Codes, NEW routes, Free(index, code, routes),
         NEW path \in WellKnown, Owner(index, path) # None,
         Owner(Reindexed(index, code, routes), path) # Owner(index, path)
  PROVE  Owner(index, path) = code
BY DEF IsIndex, Reindexed, Owner, NoHolder, Free

\* A claim that was not refused.
LEMMA NoConflict ==
  ASSUME NEW p, NEW code, NEW presented, ~Conflicts(p, code, presented)
  PROVE  /\ Free(proc[p].declared, code, presented.declared)
         /\ Free(proc[p].defaults, code, presented.defaults)
BY DEF Conflicts, Free

-----------------------------------------------------------------------------
(* A process, as far as it is built. *)

ProcFields == {"stage", "config", "pending", "apps", "declared", "defaults", "dbs"}
IsProc(q) == q = [field \in ProcFields |-> q[field]]

Built(q, p) == Places(q.config, p) \ q.pending

\* What is registered is the entries so far, each once; no index names another.
Registered(q, p) ==
  /\ q.apps = {Entries(q.config, p)[i] : i \in Built(q, p)}
  /\ \A i, j \in Built(q, p) : i # j =>
       /\ Entries(q.config, p)[i].code # Entries(q.config, p)[j].code
       /\ Entries(q.config, p)[i].mount # Entries(q.config, p)[j].mount
  /\ \A path \in WellKnown :
       {Owner(q.declared, path), Owner(q.defaults, path)} \subseteq {app.code : app \in q.apps} \cup {None}

\* An application that runs here names its routes and holds its paths.
LocalsHold(q) ==
  \A app \in q.apps : ~app.spawner =>
    /\ NamesItsRoutes(app)
    /\ Held(q.declared, app.code, app.declared)
    /\ Held(q.defaults, app.code, Given(app))

Standing(q, p) ==
  /\ q.config \in Configs
  /\ q.pending \subseteq Places(q.config, p)
  /\ q.stage = "serving" => q.pending = {} /\ q.dbs = Databases(q.config, q.apps)
  /\ Registered(q, p) /\ LocalsHold(q)

ProcHolds(q, p) ==
  /\ IsProc(q) /\ q.stage \in {"down", "building", "serving", "failed"}
  /\ IsIndex(q.declared) /\ IsIndex(q.defaults)
  /\ IF q.stage \in {"building", "serving"} THEN Standing(q, p) ELSE q.apps = {}

\* A role has a process while the server serves it, ...
RolesAreHosted ==
  \A code \in Codes : proc[code].stage # "down" =>
    /\ proc[Server].stage = "serving"
    /\ \E app \in proc[Server].apps : app.code = code /\ app.spawner

\* ... and joined, the server gives its paths to it.
JoinedHold ==
  \A code \in joined :
    /\ code \in Codes /\ proc[code].stage = "serving"
    /\ \A app \in proc[code].apps :
         /\ Held(proc[Server].declared, code, app.declared)
         /\ Held(proc[Server].defaults, code, Given(app))

CompositionInv ==
  /\ disk \in Configs /\ edits \in 0 .. MaxEdits /\ boots \in 0 .. MaxBoots
  /\ DOMAIN proc = Processes /\ \A p \in Processes : ProcHolds(proc[p], p)
  /\ RolesAreHosted /\ JoinedHold

-----------------------------------------------------------------------------
(* Initially, and one process. *)

LEMMA DownHolds ==
  ASSUME NEW p \in Processes, NEW stage \in {"down", "failed"}
  PROVE  ProcHolds([Down EXCEPT !.stage = stage], p) /\ [Down EXCEPT !.stage = stage].stage = stage
BY DEF ProcHolds, IsProc, ProcFields, Down, IsIndex, Owner, Owners, Nobody, NoHolder

LEMMA DownIs == ASSUME NEW p \in Processes PROVE ProcHolds(Down, p)
BY DEF ProcHolds, IsProc, ProcFields, Down, IsIndex, Owner, Owners, Nobody, NoHolder

LEMMA CompositionStarts == CompositionInit => CompositionInv
<1> SUFFICES ASSUME CompositionInit PROVE CompositionInv OBVIOUS
<1>1. DOMAIN proc = Processes /\ \A p \in Processes : proc[p] = Down BY DEF CompositionInit
<1>2. \A p \in Processes : ProcHolds(proc[p], p) BY <1>1, DownIs
<1>3. disk \in Configs BY DEF CompositionInit, Configs
<1>4. edits \in 0 .. MaxEdits /\ boots \in 0 .. MaxBoots BY BoundsAssumption DEF CompositionInit
<1>5. RolesAreHosted BY <1>1 DEF RolesAreHosted, Down, Processes
<1>6. JoinedHold BY DEF JoinedHold, CompositionInit
<1> QED BY <1>1, <1>2, <1>3, <1>4, <1>5, <1>6 DEF CompositionInv

LEMMA EntriesHave ==
  ASSUME NEW p \in Processes, NEW q, Standing(q, p)
  PROVE  /\ \A app \in q.apps : IsEntry(app)
         /\ \A app, other \in q.apps : app.code = other.code => app = other
         /\ p # Server => \A app \in q.apps : app.code = p /\ ~app.spawner
<1>1. \A app \in q.apps : \E i \in Built(q, p) : app = Entries(q.config, p)[i]
  BY DEF Standing, Registered
<1>2. Built(q, p) \subseteq DOMAIN Entries(q.config, p) BY DEF Built, Places
<1>3. q.config \in Configs BY DEF Standing
<1>4. \A app \in q.apps : IsEntry(app) BY <1>1, <1>2, <1>3, EntriesFit
<1>5. \A app, other \in q.apps : app.code = other.code => app = other
  BY <1>1 DEF Standing, Registered
<1>6. ASSUME p # Server, NEW app \in q.apps PROVE app.code = p /\ ~app.spawner
  <2>1. PICK i \in Built(q, p) : app = Entries(q.config, p)[i] BY <1>1
  <2>2. i \in DOMAIN Entries(q.config, p) /\ Entries(q.config, p)[i].code = p
    BY <1>6 DEF Built, Places
  <2>3. p \in Codes BY <1>6 DEF Processes
  <2> QED BY <1>3, <2>1, <2>2, <2>3, RoleEntries
<1> QED BY <1>4, <1>5, <1>6

-----------------------------------------------------------------------------
(* The steps. *)

LEMMA BootedHolds ==
  ASSUME NEW p \in Processes, NEW d \in Configs,
         NEW q, q = [Down EXCEPT !.stage = "building", !.config = d, !.pending = Places(d, p)]
  PROVE  ProcHolds(q, p) /\ q.stage = "building"
<1>1. /\ IsProc(q) /\ q.stage = "building" /\ q.config = d /\ q.pending = Places(d, p)
      /\ q.apps = {} /\ q.declared = Nobody /\ q.defaults = Nobody
  BY DEF IsProc, ProcFields, Down
<1>2. IsIndex(Nobody) /\ \A path \in WellKnown : Owner(Nobody, path) = None
  BY DEF IsIndex, Nobody, NoHolder, Owner, Owners
<1>3. Built(q, p) = {} BY <1>1 DEF Built
<1>4. Registered(q, p) BY <1>1, <1>2, <1>3 DEF Registered
<1>5. LocalsHold(q) BY <1>1 DEF LocalsHold
<1> QED BY <1>1, <1>2, <1>4, <1>5 DEF ProcHolds, Standing

\* One entry more, of a code and a mount that nobody has, with paths that nobody
\* else holds.
LEMMA OneMoreHolds ==
  ASSUME NEW p \in Processes, NEW was, Standing(was, p),
         IsIndex(was.declared), IsIndex(was.defaults),
         NEW i \in was.pending, NEW e, e = Entries(was.config, p)[i],
         \A app \in was.apps : app.code # e.code /\ app.mount # e.mount,
         NEW declared, NEW defaults,
         Free(was.declared, e.code, declared), Free(was.defaults, e.code, defaults),
         ~e.spawner => NamesItsRoutes(e) /\ declared = e.declared /\ defaults = Given(e),
         NEW q, q.config = was.config, q.pending = was.pending \ {i}, q.apps = was.apps \cup {e},
         q.declared = Reindexed(was.declared, e.code, declared),
         q.defaults = Reindexed(was.defaults, e.code, defaults), q.stage = "building"
  PROVE  IsIndex(q.declared) /\ IsIndex(q.defaults) /\ Standing(q, p)
<1>1. was.config \in Configs /\ i \in Places(was.config, p) /\ Registered(was, p) /\ LocalsHold(was)
      /\ was.pending \subseteq Places(was.config, p)
  BY DEF Standing
<1>2. IsEntry(e) /\ e.code \in Codes
  BY <1>1, EntriesFit DEF Places, IsEntry
<1>3. Built(q, p) = Built(was, p) \cup {i} /\ i \notin Built(was, p)
  BY <1>1 DEF Built
<1>4. \A app \in was.apps : app.code \in Codes
  BY EntriesHave DEF IsEntry
<1>5. /\ IsIndex(q.declared) /\ Held(q.declared, e.code, declared)
      /\ IsIndex(q.defaults) /\ Held(q.defaults, e.code, defaults)
  BY <1>2, ReindexedIs
<1>6. Registered(q, p)
  <2>1. q.apps = {Entries(q.config, p)[j] : j \in Built(q, p)} BY <1>1, <1>3 DEF Registered
  <2>2. \A j \in Built(was, p) :
           Entries(q.config, p)[j].code # e.code /\ Entries(q.config, p)[j].mount # e.mount
    BY <1>1 DEF Registered
  <2>3. \A j, k \in Built(q, p) : j # k =>
           /\ Entries(q.config, p)[j].code # Entries(q.config, p)[k].code
           /\ Entries(q.config, p)[j].mount # Entries(q.config, p)[k].mount
    BY <1>1, <1>3, <2>2 DEF Registered
  <2>4. ASSUME NEW path \in WellKnown
        PROVE  {Owner(q.declared, path), Owner(q.defaults, path)}
                 \subseteq {app.code : app \in q.apps} \cup {None}
    <3>1. {Owner(was.declared, path), Owner(was.defaults, path)}
            \subseteq {app.code : app \in was.apps} \cup {None}
      BY <1>1 DEF Registered
    <3>2. Owner(q.declared, path) \in {None, e.code, Owner(was.declared, path)}
      BY <1>2, WhoOwns
    <3>3. Owner(q.defaults, path) \in {None, e.code, Owner(was.defaults, path)}
      BY <1>2, WhoOwns
    <3>4. {app.code : app \in was.apps} \cup {e.code} \subseteq {app.code : app \in q.apps} OBVIOUS
    <3> QED BY <3>1, <3>2, <3>3, <3>4
  <2> QED BY <2>1, <2>3, <2>4 DEF Registered
<1>7. ASSUME NEW app \in q.apps, ~app.spawner
      PROVE  /\ NamesItsRoutes(app)
             /\ Held(q.declared, app.code, app.declared)
             /\ Held(q.defaults, app.code, Given(app))
  <2>1. CASE app = e BY <1>5, <1>7, <2>1
  <2>2. CASE app \in was.apps
    <3>1. /\ NamesItsRoutes(app)
          /\ Held(was.declared, app.code, app.declared) /\ Held(was.defaults, app.code, Given(app))
      BY <1>1, <1>7, <2>2 DEF LocalsHold
    <3>2. app.code # e.code /\ app.code \in Codes BY <1>4, <2>2
    <3>3. Held(q.declared, app.code, app.declared) BY <1>2, <3>1, <3>2, OthersAreHeld
    <3>4. Held(q.defaults, app.code, Given(app)) BY <1>2, <3>1, <3>2, OthersAreHeld
    <3> QED BY <3>1, <3>3, <3>4
  <2> QED BY <2>1, <2>2
<1>8. Standing(q, p) BY <1>1, <1>6, <1>7 DEF Standing, LocalsHold
<1> QED BY <1>5, <1>8

LEMMA RegisteredHolds ==
  ASSUME NEW p \in Processes, ProcHolds(proc[p], p), proc[p].stage = "building",
         NEW i \in proc[p].pending, NEW e, e = Entries(proc[p].config, p)[i], ~Rejects(p, e),
         NEW q, q = [Claimed(p, e.code, Presents(e)) EXCEPT
                       !.apps = @ \cup {e}, !.pending = @ \ {i}]
  PROVE  ProcHolds(q, p) /\ q.stage = "building"
<1>1. IsProc(proc[p]) /\ IsIndex(proc[p].declared) /\ IsIndex(proc[p].defaults)
      /\ Standing(proc[p], p)
  BY DEF ProcHolds
<1>2. /\ IsProc(q) /\ q.stage = "building" /\ q.config = proc[p].config
      /\ q.pending = proc[p].pending \ {i} /\ q.apps = proc[p].apps \cup {e}
      /\ q.declared = Reindexed(proc[p].declared, e.code, Presents(e).declared)
      /\ q.defaults = Reindexed(proc[p].defaults, e.code, Presents(e).defaults)
  BY <1>1 DEF IsProc, ProcFields, Claimed
<1>3. \A app \in proc[p].apps : app.code # e.code /\ app.mount # e.mount BY DEF Rejects
<1>4. /\ Free(proc[p].declared, e.code, Presents(e).declared)
      /\ Free(proc[p].defaults, e.code, Presents(e).defaults)
  <2>1. ~Conflicts(p, e.code, Presents(e)) BY DEF Rejects
  <2> QED BY <2>1, NoConflict
<1>5. ~e.spawner => /\ NamesItsRoutes(e)
                    /\ Presents(e).declared = e.declared /\ Presents(e).defaults = Given(e)
  BY DEF Rejects, Presents
<1>6. IsIndex(q.declared) /\ IsIndex(q.defaults) /\ Standing(q, p)
  <2>1. p \in Processes /\ i \in proc[p].pending /\ e = Entries(proc[p].config, p)[i] OBVIOUS
  <2> QED BY ONLY <1>1, <1>2, <1>3, <1>4, <1>5, <2>1, OneMoreHolds
<1> QED BY <1>2, <1>6 DEF ProcHolds

LEMMA SettledHolds ==
  ASSUME NEW p \in Processes, ProcHolds(proc[p], p), proc[p].stage = "building", proc[p].pending = {},
         NEW q, q = [proc[p] EXCEPT !.stage = "serving",
                                    !.dbs = Databases(proc[p].config, proc[p].apps)]
  PROVE  ProcHolds(q, p) /\ q.stage = "serving"
<1>1. IsProc(proc[p]) /\ Standing(proc[p], p) BY DEF ProcHolds
<1>2. /\ IsProc(q) /\ q.stage = "serving" /\ q.config = proc[p].config /\ q.apps = proc[p].apps
      /\ q.pending = {} /\ q.declared = proc[p].declared /\ q.defaults = proc[p].defaults
      /\ q.dbs = Databases(q.config, q.apps)
  BY <1>1 DEF IsProc, ProcFields
<1>3. Registered(q, p) BY <1>1, <1>2 DEF Standing, Registered, Built
<1>4. LocalsHold(q) BY <1>1, <1>2 DEF Standing, LocalsHold
<1>5. Standing(q, p) BY <1>1, <1>2, <1>3, <1>4 DEF Standing
<1> QED BY <1>2, <1>5 DEF ProcHolds

\* The role p has a mount in the server that serves it.
IsHosted(p) ==
  proc[Server].stage = "serving" /\ \E app \in proc[Server].apps : app.code = p /\ app.spawner

\* A step of a process that serves nobody yet.
LEMMA NotYetServing ==
  ASSUME CompositionInv, NEW p \in Processes, proc[p].stage \in {"down", "building"},
         p \in Codes => IsHosted(p),
         NEW q, ProcHolds(q, p), proc' = [proc EXCEPT ![p] = q],
         joined' = joined, disk' = disk, edits' = edits, boots' \in 0 .. MaxBoots
  PROVE  CompositionInv'
<1>1. DOMAIN proc' = Processes /\ proc'[p] = q /\ \A x \in Processes \ {p} : proc'[x] = proc[x]
  BY DEF CompositionInv
<1>2. \A x \in Processes : ProcHolds(proc'[x], x)
  BY <1>1 DEF CompositionInv
<1>3. Server \in Processes /\ Codes \subseteq Processes /\ Server \notin Codes
  BY NamesAssumption DEF Processes
<1>4. RolesAreHosted'
  <2> SUFFICES ASSUME NEW code \in Codes, proc'[code].stage # "down"
               PROVE  /\ proc'[Server].stage = "serving"
                      /\ \E app \in proc'[Server].apps : app.code = code /\ app.spawner
    BY DEF RolesAreHosted
  <2>1. CASE p = Server
    BY <1>1, <1>3, <2>1 DEF CompositionInv, RolesAreHosted
  <2>2. CASE p # Server
    <3>1. p \in Codes /\ proc'[Server] = proc[Server] BY <1>1, <1>3, <2>2 DEF Processes
    <3>2. CASE code = p BY <3>1, <3>2 DEF IsHosted
    <3>3. CASE code # p BY <1>1, <1>3, <3>1, <3>3 DEF CompositionInv, RolesAreHosted
    <3> QED BY <3>2, <3>3
  <2> QED BY <2>1, <2>2
<1>5. JoinedHold'
  <2> SUFFICES ASSUME NEW code \in joined
               PROVE  /\ code \in Codes /\ proc'[code].stage = "serving"
                      /\ \A app \in proc'[code].apps :
                           /\ Held(proc'[Server].declared, code, app.declared)
                           /\ Held(proc'[Server].defaults, code, Given(app))
    BY DEF JoinedHold
  <2>1. code \in Codes /\ proc[code].stage = "serving" BY DEF CompositionInv, JoinedHold
  <2>2. proc[Server].stage = "serving" BY <2>1 DEF CompositionInv, RolesAreHosted
  <2>3. proc'[code] = proc[code] /\ proc'[Server] = proc[Server] BY <1>1, <1>3, <2>1, <2>2
  <2> QED BY <2>1, <2>3 DEF CompositionInv, JoinedHold
<1> QED BY <1>1, <1>2, <1>4, <1>5 DEF CompositionInv

LEMMA BootHolds == ASSUME CompositionInv, NEW p \in Processes, Boot(p) PROVE CompositionInv'
<1>1. PICK q : /\ proc' = [proc EXCEPT ![p] = q]
               /\ \/ q = [Down EXCEPT !.stage = "failed"]
                  \/ q = [Down EXCEPT !.stage = "building", !.config = disk, !.pending = Places(disk, p)]
  BY DEF Boot
<1>2. disk \in Configs BY DEF CompositionInv
<1>3. ProcHolds(q, p) BY <1>1, <1>2, DownHolds, BootedHolds
<1>4. p \in Codes => IsHosted(p) BY NamesAssumption DEF Boot, IsHosted
<1>5. boots' \in 0 .. MaxBoots BY BoundsAssumption DEF Boot, CompositionInv
<1>6. proc[p].stage = "down" /\ joined' = joined /\ disk' = disk /\ edits' = edits BY DEF Boot
<1> QED BY <1>1, <1>3, <1>4, <1>5, <1>6, NotYetServing

\* A process that is being built is hosted.
LEMMA BuildingIsHosted ==
  ASSUME CompositionInv, NEW p \in Processes, proc[p].stage # "down", p \in Codes
  PROVE  IsHosted(p)
BY DEF CompositionInv, RolesAreHosted, IsHosted

LEMMA RegisterHolds == ASSUME CompositionInv, NEW p \in Processes, Register(p) PROVE CompositionInv'
<1>1. PICK i \in proc[p].pending :
        LET e == Entries(proc[p].config, p)[i] IN
        proc' = [proc EXCEPT ![p] =
                   IF Rejects(p, e) THEN [Down EXCEPT !.stage = "failed"]
                   ELSE [Claimed(p, e.code, Presents(e)) EXCEPT
                           !.apps = @ \cup {e}, !.pending = @ \ {i}]]
  BY DEF Register
<1>2. PICK e : e = Entries(proc[p].config, p)[i] OBVIOUS
<1>3. PICK q : /\ proc' = [proc EXCEPT ![p] = q]
               /\ q = IF Rejects(p, e) THEN [Down EXCEPT !.stage = "failed"]
                      ELSE [Claimed(p, e.code, Presents(e)) EXCEPT
                              !.apps = @ \cup {e}, !.pending = @ \ {i}]
  BY <1>1, <1>2
<1>4. ProcHolds(proc[p], p) /\ proc[p].stage = "building" BY DEF Register, CompositionInv
<1>5. ProcHolds(q, p)
  <2>1. CASE Rejects(p, e) BY <1>3, <2>1, DownHolds
  <2>2. CASE ~Rejects(p, e)
    <3>1. q = [Claimed(p, e.code, Presents(e)) EXCEPT !.apps = @ \cup {e}, !.pending = @ \ {i}]
      BY <1>3, <2>2
    <3> QED BY <1>2, <1>4, <2>2, <3>1, RegisteredHolds
  <2> QED BY <2>1, <2>2
<1>6. p \in Codes => IsHosted(p) BY <1>4, BuildingIsHosted
<1>7. joined' = joined /\ disk' = disk /\ edits' = edits /\ boots' \in 0 .. MaxBoots
  BY DEF Register, CompositionInv
<1> QED BY <1>3, <1>4, <1>5, <1>6, <1>7, NotYetServing

LEMMA SettleHolds == ASSUME CompositionInv, NEW p \in Processes, Settle(p) PROVE CompositionInv'
<1>1. PICK q : /\ proc' = [proc EXCEPT ![p] = q]
               /\ \/ q = [Down EXCEPT !.stage = "failed"]
                  \/ q = [proc[p] EXCEPT !.stage = "serving",
                                        !.dbs = Databases(proc[p].config, proc[p].apps)]
  BY DEF Settle
<1>2. ProcHolds(proc[p], p) /\ proc[p].stage = "building" /\ proc[p].pending = {}
  BY DEF Settle, CompositionInv
<1>3. ProcHolds(q, p) BY <1>1, <1>2, DownHolds, SettledHolds
<1>4. p \in Codes => IsHosted(p) BY <1>2, BuildingIsHosted
<1>5. joined' = joined /\ disk' = disk /\ edits' = edits /\ boots' \in 0 .. MaxBoots
  BY DEF Settle, CompositionInv
<1> QED BY <1>1, <1>2, <1>3, <1>4, <1>5, NotYetServing

LEMMA EndsHolds == ASSUME CompositionInv, NEW code \in Codes, Ends(code) PROVE CompositionInv'
<1>1. proc' = [proc EXCEPT ![code] = Down] /\ joined' = joined \ {code}
      /\ disk' = disk /\ edits' = edits /\ boots' = boots
  BY DEF Ends
<1>2. Server \in Processes /\ Codes \subseteq Processes /\ Server \notin Codes
  BY NamesAssumption DEF Processes
<1>3. DOMAIN proc' = Processes /\ proc'[code] = Down
      /\ \A x \in Processes \ {code} : proc'[x] = proc[x]
  BY <1>1, <1>2 DEF CompositionInv
<1>4. \A x \in Processes : ProcHolds(proc'[x], x)
  BY <1>2, <1>3, DownIs DEF CompositionInv
<1>5. proc'[Server] = proc[Server] /\ proc'[code].stage = "down" BY <1>2, <1>3 DEF Down
<1>6. RolesAreHosted' BY <1>2, <1>3, <1>5 DEF CompositionInv, RolesAreHosted
<1>7. JoinedHold' BY <1>1, <1>2, <1>3, <1>5 DEF CompositionInv, JoinedHold
<1> QED BY <1>1, <1>3, <1>4, <1>6, <1>7 DEF CompositionInv

LEMMA EditsHolds ==
  ASSUME CompositionInv, NEW recipe \in Edited, NEW deployment \in Deployments, Edits(recipe, deployment)
  PROVE  CompositionInv'
<1>1. disk' \in Configs BY BoundsAssumption DEF Edits, Configs
<1>2. edits' \in 0 .. MaxEdits BY BoundsAssumption DEF Edits, CompositionInv
<1>3. proc' = proc /\ joined' = joined /\ boots' = boots BY DEF Edits
<1> QED BY <1>1, <1>2, <1>3 DEF CompositionInv, RolesAreHosted, JoinedHold

\* The server that gives a mount the paths that its process presents.
LEMMA ClaimedHolds ==
  ASSUME NEW was, ProcHolds(was, Server), was.stage = "serving",
         NEW code \in Codes, NEW mount \in was.apps, mount.code = code, mount.spawner,
         NEW declared, NEW defaults,
         Free(was.declared, code, declared), Free(was.defaults, code, defaults),
         NEW q, IsProc(q), q.stage = "serving", q.config = was.config, q.pending = was.pending,
         q.apps = was.apps, q.dbs = was.dbs,
         q.declared = Reindexed(was.declared, code, declared),
         q.defaults = Reindexed(was.defaults, code, defaults)
  PROVE  ProcHolds(q, Server)
<1>1. IsProc(was) /\ IsIndex(was.declared) /\ IsIndex(was.defaults) /\ Standing(was, Server)
  BY DEF ProcHolds
<1>2. /\ IsProc(q) /\ was.stage = "serving" /\ q.stage = "serving" /\ q.config = was.config
      /\ q.apps = was.apps /\ q.pending = was.pending /\ q.dbs = was.dbs
      /\ q.declared = Reindexed(was.declared, code, declared)
      /\ q.defaults = Reindexed(was.defaults, code, defaults)
  OBVIOUS
<1>3. IsIndex(q.declared) /\ IsIndex(q.defaults)
  <2>1. code \in Codes OBVIOUS
  <2> QED BY ONLY <1>1, <1>2, <2>1, ReindexedIs
<1>4. Registered(q, Server)
  <2>1. Registered(was, Server) BY <1>1 DEF Standing
  <2>2. ASSUME NEW path \in WellKnown
        PROVE  {Owner(q.declared, path), Owner(q.defaults, path)}
                 \subseteq {app.code : app \in q.apps} \cup {None}
    <3>1. {Owner(was.declared, path), Owner(was.defaults, path)}
            \subseteq {app.code : app \in was.apps} \cup {None}
      BY <2>1 DEF Registered
    <3>2. Owner(q.declared, path) \in {None, code, Owner(was.declared, path)}
      BY <1>1, <1>2, WhoOwns
    <3>3. Owner(q.defaults, path) \in {None, code, Owner(was.defaults, path)}
      BY <1>1, <1>2, WhoOwns
    <3>4. code \in {app.code : app \in was.apps} OBVIOUS
    <3> QED BY <1>2, <3>1, <3>2, <3>3, <3>4
  <2>3. Built(q, Server) = Built(was, Server) BY <1>2 DEF Built
  <2> QED BY ONLY <1>2, <2>1, <2>2, <2>3 DEF Registered
<1>5. LocalsHold(q)
  <2> SUFFICES ASSUME NEW app \in was.apps, ~app.spawner
               PROVE  /\ NamesItsRoutes(app)
                      /\ Held(q.declared, app.code, app.declared)
                      /\ Held(q.defaults, app.code, Given(app))
    BY <1>2 DEF LocalsHold
  <2>1. /\ NamesItsRoutes(app)
        /\ Held(was.declared, app.code, app.declared) /\ Held(was.defaults, app.code, Given(app))
    BY <1>1 DEF Standing, LocalsHold
  <2>2. Server \in Processes BY DEF Processes
  <2>3. app.code \in Codes /\ app.code # code BY <1>1, <2>2, EntriesHave DEF IsEntry
  <2>4. Held(q.declared, app.code, app.declared) BY <1>1, <1>2, <2>1, <2>3, OthersAreHeld
  <2>5. Held(q.defaults, app.code, Given(app)) BY <1>1, <1>2, <2>1, <2>3, OthersAreHeld
  <2> QED BY <2>1, <2>4, <2>5
<1>6. Standing(q, Server) BY ONLY <1>1, <1>2, <1>4, <1>5 DEF Standing
<1> QED BY ONLY <1>2, <1>3, <1>6 DEF ProcHolds

\* What the process of a role presents.
LEMMA RolePresents ==
  ASSUME CompositionInv, NEW code \in Codes, proc[code].stage = "serving",
         NEW app \in proc[code].apps
  PROVE  /\ Presents(app).declared = app.declared /\ Presents(app).defaults = Given(app)
         /\ proc[code].apps = {app} /\ IsEntry(app) /\ app.code = code
<1>1. code \in Processes /\ code # Server BY NamesAssumption DEF Processes
<1>2. Standing(proc[code], code) BY <1>1 DEF CompositionInv, ProcHolds
<1>3. \A other \in proc[code].apps : IsEntry(other) /\ other.code = code /\ ~other.spawner
  BY <1>1, <1>2, EntriesHave
<1>4. proc[code].apps = {app} BY <1>1, <1>2, <1>3, EntriesHave
<1> QED BY <1>3, <1>4 DEF Presents

LEMMA JoinsHolds == ASSUME CompositionInv, NEW code \in Codes, Joins(code) PROVE CompositionInv'
<1>1. /\ proc[code].stage = "serving" /\ code \notin joined
      /\ disk' = disk /\ edits' = edits /\ boots' = boots
  BY DEF Joins
<1>2. Server \in Processes /\ Codes \subseteq Processes /\ Server \notin Codes
  BY NamesAssumption DEF Processes
<1>3. CASE /\ proc' = [proc EXCEPT ![code] = Down] /\ joined' = joined
  <2>1. DOMAIN proc' = Processes /\ proc'[code] = Down
        /\ \A x \in Processes \ {code} : proc'[x] = proc[x]
    BY <1>2, <1>3 DEF CompositionInv
  <2>2. \A x \in Processes : ProcHolds(proc'[x], x)
    BY <1>2, <2>1, DownIs DEF CompositionInv
  <2>3. proc'[Server] = proc[Server] /\ proc'[code].stage = "down" BY <1>2, <2>1 DEF Down
  <2>4. RolesAreHosted' BY <1>2, <2>1, <2>3 DEF CompositionInv, RolesAreHosted
  <2>5. JoinedHold' BY <1>1, <1>2, <1>3, <2>1, <2>3 DEF CompositionInv, JoinedHold
  <2> QED BY <1>1, <2>1, <2>2, <2>4, <2>5 DEF CompositionInv
<1>4. CASE /\ \E app \in proc[code].apps : ~Conflicts(Server, code, Presents(app))
           /\ \E app \in proc[code].apps :
                proc' = [proc EXCEPT ![Server] = Claimed(Server, code, Presents(app))]
           /\ joined' = joined \cup {code}
  <2>1. PICK app \in proc[code].apps : ~Conflicts(Server, code, Presents(app)) BY <1>4
  <2>2. /\ Presents(app).declared = app.declared /\ Presents(app).defaults = Given(app)
        /\ proc[code].apps = {app}
    BY <1>1, RolePresents
  <2>3. /\ Free(proc[Server].declared, code, app.declared)
        /\ Free(proc[Server].defaults, code, Given(app))
    BY <2>1, <2>2, NoConflict
  <2>4. PICK mount \in proc[Server].apps : mount.code = code /\ mount.spawner
    BY <1>1 DEF CompositionInv, RolesAreHosted
  <2>5. PICK q : /\ q = [proc[Server] EXCEPT !.declared = Reindexed(@, code, app.declared),
                                             !.defaults = Reindexed(@, code, Given(app))]
                 /\ proc' = [proc EXCEPT ![Server] = q]
    BY <1>4, <2>2 DEF Claimed
  <2>6. ProcHolds(proc[Server], Server) /\ proc[Server].stage = "serving"
    BY <1>1, <1>2 DEF CompositionInv, RolesAreHosted
  <2>7. /\ ProcHolds(q, Server) /\ q.stage = "serving" /\ q.apps = proc[Server].apps
        /\ q.declared = Reindexed(proc[Server].declared, code, app.declared)
        /\ q.defaults = Reindexed(proc[Server].defaults, code, Given(app))
    <3>1. /\ IsProc(q) /\ q.stage = "serving" /\ q.config = proc[Server].config
          /\ q.pending = proc[Server].pending /\ q.apps = proc[Server].apps
          /\ q.dbs = proc[Server].dbs
          /\ q.declared = Reindexed(proc[Server].declared, code, app.declared)
          /\ q.defaults = Reindexed(proc[Server].defaults, code, Given(app))
      BY <2>5, <2>6 DEF ProcHolds, IsProc, ProcFields
    <3>2. code \in Codes OBVIOUS
    <3> QED BY ONLY <2>3, <2>4, <2>6, <3>1, <3>2, ClaimedHolds
  <2>8. DOMAIN proc' = Processes /\ proc'[Server] = q
        /\ \A x \in Processes \ {Server} : proc'[x] = proc[x]
    BY <1>2, <2>5 DEF CompositionInv
  <2>9. \A x \in Processes : ProcHolds(proc'[x], x)
    BY <1>2, <2>7, <2>8 DEF CompositionInv
  <2>10. RolesAreHosted' BY <1>2, <2>7, <2>8 DEF CompositionInv, RolesAreHosted
  <2>11. IsIndex(proc[Server].declared) /\ IsIndex(proc[Server].defaults) BY <2>6 DEF ProcHolds
  <2>12. JoinedHold'
    <3> SUFFICES ASSUME NEW other \in joined \cup {code}
                 PROVE  /\ other \in Codes /\ proc'[other].stage = "serving"
                        /\ \A a \in proc'[other].apps :
                             /\ Held(q.declared, other, a.declared)
                             /\ Held(q.defaults, other, Given(a))
      BY <1>4, <2>8 DEF JoinedHold
    <3>1. other \in Codes /\ proc[other].stage = "serving"
      BY <1>1 DEF CompositionInv, JoinedHold
    <3>2. proc'[other] = proc[other] BY <1>2, <2>8, <3>1
    <3>3. CASE other = code
      <4>1. Held(q.declared, code, app.declared) /\ Held(q.defaults, code, Given(app))
        BY <2>7, <2>11, ReindexedIs
      <4> QED BY <2>2, <3>1, <3>2, <3>3, <4>1
    <3>4. CASE other # code
      <4>1. ASSUME NEW a \in proc[other].apps
            PROVE  Held(q.declared, other, a.declared) /\ Held(q.defaults, other, Given(a))
        <5>1. /\ Held(proc[Server].declared, other, a.declared)
              /\ Held(proc[Server].defaults, other, Given(a))
          BY <3>4 DEF CompositionInv, JoinedHold
        <5>2. Held(q.declared, other, a.declared)
          BY <2>3, <2>7, <2>11, <3>1, <3>4, <5>1, OthersAreHeld
        <5>3. Held(q.defaults, other, Given(a))
          BY <2>3, <2>7, <2>11, <3>1, <3>4, <5>1, OthersAreHeld
        <5> QED BY <5>2, <5>3
      <4> QED BY <3>1, <3>2, <4>1
    <3> QED BY <3>3, <3>4
  <2> QED BY <1>1, <2>8, <2>9, <2>10, <2>12 DEF CompositionInv
<1>5. \/ proc' = [proc EXCEPT ![code] = Down] /\ joined' = joined
      \/ /\ \E app \in proc[code].apps : ~Conflicts(Server, code, Presents(app))
         /\ \E app \in proc[code].apps :
              proc' = [proc EXCEPT ![Server] = Claimed(Server, code, Presents(app))]
         /\ joined' = joined \cup {code}
  BY DEF Joins
<1> QED BY <1>3, <1>4, <1>5

LEMMA CompositionSteps ==
  ASSUME CompositionInv, [CompositionNext]_vars PROVE CompositionInv'
<1>1. CASE \E p \in Processes : Boot(p) \/ Register(p) \/ Settle(p)
  BY <1>1, BootHolds, RegisterHolds, SettleHolds
<1>2. CASE \E code \in Codes : Joins(code) \/ Ends(code) BY <1>2, JoinsHolds, EndsHolds
<1>3. CASE \E recipe \in Edited, deployment \in Deployments : Edits(recipe, deployment)
  BY <1>3, EditsHolds
<1>4. CASE UNCHANGED vars
  BY <1>4 DEF vars, CompositionInv, RolesAreHosted, JoinedHold
<1> QED BY <1>1, <1>2, <1>3, <1>4 DEF CompositionNext

-----------------------------------------------------------------------------
(* What the invariant says of a server that serves. *)

LEMMA ServerStands ==
  ASSUME CompositionInv, proc[Server].stage = "serving"
  PROVE  /\ Standing(proc[Server], Server) /\ Built(proc[Server], Server) = DOMAIN Entries(proc[Server].config, Server)
         /\ proc[Server].config \in Configs
         /\ proc[Server].dbs = Databases(proc[Server].config, proc[Server].apps)
<1>1. Server \in Processes BY DEF Processes
<1>2. Standing(proc[Server], Server) BY <1>1 DEF CompositionInv, ProcHolds
<1>3. Places(proc[Server].config, Server) = DOMAIN Entries(proc[Server].config, Server) BY DEF Places
<1> QED BY <1>2, <1>3 DEF Standing, Built

LEMMA RoleStands ==
  ASSUME CompositionInv, NEW code \in Codes, proc[code].stage = "serving"
  PROVE  /\ Standing(proc[code], code) /\ Built(proc[code], code) = Places(proc[code].config, code)
         /\ proc[code].config \in Configs
         /\ proc[code].dbs = Databases(proc[code].config, proc[code].apps)
<1>1. code \in Processes BY DEF Processes
<1>2. Standing(proc[code], code) BY <1>1 DEF CompositionInv, ProcHolds
<1> QED BY <1>2 DEF Standing, Built

LEMMA HeldApart ==
  ASSUME NEW index, NEW code, NEW other, code # other, NEW routes, NEW others,
         Held(index, code, routes), Held(index, other, others), DOMAIN routes \subseteq WellKnown
  PROVE  DOMAIN routes \cap DOMAIN others = {}
BY DEF Held

LEMMA ServedIsSound ==
  ASSUME CompositionInv, proc[Server].stage = "serving" PROVE Sound(proc[Server].config)
<1> DEFINE d == proc[Server].config
           entries == Entries(d, Server)
<1>1. /\ Registered(proc[Server], Server) /\ LocalsHold(proc[Server])
      /\ Built(proc[Server], Server) = DOMAIN entries
  BY ServerStands DEF Standing
<1>2. \A i \in DOMAIN entries : entries[i] \in proc[Server].apps BY <1>1 DEF Registered
<1>3. \A i, j \in DOMAIN entries : i # j =>
        entries[i].code # entries[j].code /\ entries[i].mount # entries[j].mount
  BY <1>1 DEF Registered
<1>4. \A i \in DOMAIN entries : ~entries[i].spawner => NamesItsRoutes(entries[i])
  BY <1>1, <1>2 DEF LocalsHold
<1>5. ASSUME NEW i \in DOMAIN entries, NEW j \in DOMAIN entries, i # j,
             ~entries[i].spawner, ~entries[j].spawner
      PROVE  /\ DOMAIN entries[i].declared \cap DOMAIN entries[j].declared = {}
             /\ DOMAIN Given(entries[i]) \cap DOMAIN Given(entries[j]) = {}
  <2>1. \A k \in {i, j} :
          /\ Held(proc[Server].declared, entries[k].code, entries[k].declared)
          /\ Held(proc[Server].defaults, entries[k].code, Given(entries[k]))
    BY <1>1, <1>2, <1>5 DEF LocalsHold
  <2>2. DOMAIN entries[i].declared \subseteq WellKnown /\ DOMAIN Given(entries[i]) \subseteq WellKnown
    BY <1>4, <1>5 DEF NamesItsRoutes, Given
  <2>3. entries[i].code # entries[j].code BY <1>3, <1>5
  <2> HIDE DEF entries
  <2>4. DOMAIN entries[i].declared \cap DOMAIN entries[j].declared = {}
    BY <2>1, <2>2, <2>3, HeldApart
  <2>5. DOMAIN Given(entries[i]) \cap DOMAIN Given(entries[j]) = {}
    BY <2>1, <2>2, <2>3, HeldApart
  <2> QED BY <2>4, <2>5
<1> QED BY <1>3, <1>4, <1>5 DEF Sound

LEMMA DeclaredIsServed == CompositionInv => ServesWhatIsDeclared
<1> SUFFICES ASSUME CompositionInv, proc[Server].stage = "serving"
             PROVE  /\ Sound(proc[Server].config)
                    /\ \A app \in proc[Server].apps : ~app.spawner =>
                         \A path \in WellKnown :
                           /\ (Owner(proc[Server].declared, path) = app.code) = (path \in DOMAIN app.declared)
                           /\ (Owner(proc[Server].defaults, path) = app.code) = (path \in DOMAIN Given(app))
                           /\ path \in DOMAIN app.declared =>
                                Holder(Server, path) = [code |-> app.code, route |-> app.declared[path]]
                    /\ \A code \in joined : \A app \in proc[code].apps : \A path \in WellKnown :
                         /\ (Owner(proc[Server].declared, path) = code) = (path \in DOMAIN app.declared)
                         /\ (Owner(proc[Server].defaults, path) = code) = (path \in DOMAIN Given(app))
  BY DEF ServesWhatIsDeclared
<1>1. Sound(proc[Server].config) BY ServedIsSound
<1>2. ASSUME NEW app \in proc[Server].apps, ~app.spawner, NEW path \in WellKnown
      PROVE  /\ (Owner(proc[Server].declared, path) = app.code) = (path \in DOMAIN app.declared)
             /\ (Owner(proc[Server].defaults, path) = app.code) = (path \in DOMAIN Given(app))
             /\ path \in DOMAIN app.declared =>
                  Holder(Server, path) = [code |-> app.code, route |-> app.declared[path]]
  <2>1. /\ Held(proc[Server].declared, app.code, app.declared)
        /\ Held(proc[Server].defaults, app.code, Given(app))
    BY <1>2, ServerStands DEF Standing, LocalsHold
  <2>2. app.code # None
    BY ServerStands, EntriesHave, NamesAssumption DEF Processes, IsEntry
  <2>3. path \in DOMAIN app.declared =>
          Holder(Server, path) = [code |-> app.code, route |-> app.declared[path]]
    BY <2>1, <2>2 DEF Held, Holder, Owner
  <2> QED BY <2>1, <2>3, HeldExactly
<1>3. ASSUME NEW code \in joined, NEW app \in proc[code].apps, NEW path \in WellKnown
      PROVE  /\ (Owner(proc[Server].declared, path) = code) = (path \in DOMAIN app.declared)
             /\ (Owner(proc[Server].defaults, path) = code) = (path \in DOMAIN Given(app))
  <2>1. /\ Held(proc[Server].declared, code, app.declared)
        /\ Held(proc[Server].defaults, code, Given(app))
    BY DEF CompositionInv, JoinedHold
  <2> QED BY <2>1, HeldExactly
<1> QED BY <1>1, <1>2, <1>3

LEMMA DatabasesAre ==
  ASSUME NEW d, NEW apps, NEW db
  PROVE  db \in Databases(d, apps) <=>
           \/ \E x \in d.recipe.dbs : db = [name |-> <<None, x.code>>,
                handler |-> IF x.handler # None THEN x.handler ELSE Read(d, "handler")]
           \/ \E app \in apps : \E x \in app.dbs : db = [name |-> <<app.code, x.code>>,
                handler |-> IF x.handler # None THEN x.handler
                            ELSE IF app.handler # None THEN app.handler ELSE Read(d, "handler")]
BY DEF Databases

\* The mount of a role and the application of its process, from one recipe.
LEMMA MountOfRole ==
  ASSUME CompositionInv, NEW code \in joined, proc[code].config = proc[Server].config,
         NEW app \in proc[code].apps
  PROVE  \E mount \in proc[Server].apps :
           /\ mount.spawner /\ mount.code = code /\ IsEntry(mount)
           /\ app = Hosted(mount)
<1>1. code \in Codes /\ proc[code].stage = "serving" BY DEF CompositionInv, JoinedHold
<1>2. proc[Server].stage = "serving" /\ \E a \in proc[Server].apps : a.code = code /\ a.spawner
  BY <1>1 DEF CompositionInv, RolesAreHosted
<1> DEFINE d == proc[Server].config
<1>3. d \in Configs BY <1>2, ServerStands
<1>4. PICK i \in Places(d, code) : app = Entries(d, code)[i]
  BY <1>1, RoleStands DEF Standing, Registered
<1>5. i \in DOMAIN d.recipe.entries /\ app = Hosted(Mounted(d.recipe.entries[i])) /\ app.code = code
  BY <1>1, <1>3, <1>4, RoleEntries, NamesAssumption DEF Places
<1>6. Mounted(d.recipe.entries[i]) \in proc[Server].apps
  <2>1. i \in DOMAIN Entries(d, Server) /\ Entries(d, Server)[i] = Mounted(d.recipe.entries[i])
    BY <1>3, <1>5, ServerEntries
  <2> QED BY <1>2, <2>1, ServerStands DEF Standing, Registered
<1>7. IsEntry(Mounted(d.recipe.entries[i])) /\ Mounted(d.recipe.entries[i]).code = code
  <2>1. IsEntry(d.recipe.entries[i]) BY <1>3, <1>5, RecipesAssumption DEF Configs
  <2>2. IsEntry(Mounted(d.recipe.entries[i])) BY <2>1, MountedIs
  <2>3. app.code = Mounted(d.recipe.entries[i]).code BY <1>5, <2>2, HostedIs DEF EntryFields
  <2> QED BY <1>5, <2>2, <2>3
<1>8. Mounted(d.recipe.entries[i]).spawner
  <2>1. Standing(proc[Server], Server) /\ Server \in Processes BY <1>2, ServerStands DEF Processes
  <2> QED BY <1>2, <1>6, <1>7, <2>1, EntriesHave
<1> QED BY <1>5, <1>6, <1>7, <1>8

LEMMA RolesServeTheirOwn == CompositionInv => RoleServesItsOwn
<1> SUFFICES ASSUME CompositionInv, NEW code \in joined, proc[code].config = proc[Server].config,
                    NEW app \in proc[code].apps
             PROVE  /\ \E mount \in proc[Server].apps : mount = [app EXCEPT !.spawner = TRUE]
                    /\ proc[code].dbs = {db \in proc[Server].dbs : db.name[1] \in {None, code}}
                    /\ DatabaseOf(proc[code], app) = DatabaseOf(proc[Server], app)
  BY DEF RoleServesItsOwn
<1>1. code \in Codes /\ proc[code].stage = "serving" BY DEF CompositionInv, JoinedHold
<1>2. proc[Server].stage = "serving" BY <1>1 DEF CompositionInv, RolesAreHosted
<1>3. PICK mount \in proc[Server].apps :
        mount.spawner /\ mount.code = code /\ IsEntry(mount) /\ app = Hosted(mount)
  BY MountOfRole
<1>4. mount = [app EXCEPT !.spawner = TRUE] BY <1>3, HostedIs
<1>5. app.code = code /\ app.dbs = mount.dbs /\ app.handler = mount.handler
  BY <1>3, HostedIs DEF EntryFields
<1>6. proc[code].apps = {app} BY <1>1, RolePresents
<1>7. \A other \in proc[Server].apps : other.code = code => other = mount
  BY <1>2, <1>3, ServerStands, EntriesHave DEF Processes
<1>8. /\ proc[code].dbs = Databases(proc[Server].config, {app})
      /\ proc[Server].dbs = Databases(proc[Server].config, proc[Server].apps)
  BY <1>1, <1>2, <1>6, RoleStands, ServerStands
<1>9. \A other \in proc[Server].apps : other.code # None
  BY <1>2, ServerStands, EntriesHave, NamesAssumption DEF Processes, IsEntry
<1>10. \A db : db \in proc[code].dbs <=> db \in proc[Server].dbs /\ db.name[1] \in {None, code}
  <2> TAKE db
  <2>1. db \in proc[code].dbs => db \in proc[Server].dbs /\ db.name[1] \in {None, code}
    BY <1>3, <1>5, <1>8, DatabasesAre
  <2>2. db \in proc[Server].dbs /\ db.name[1] \in {None, code} => db \in proc[code].dbs
    BY <1>5, <1>7, <1>8, <1>9, DatabasesAre
  <2> QED BY <2>1, <2>2
<1>11. proc[code].dbs = {db \in proc[Server].dbs : db.name[1] \in {None, code}} BY <1>10
<1>12. DatabaseOf(proc[code], app) = DatabaseOf(proc[Server], app) BY <1>5, <1>10 DEF DatabaseOf
<1> QED BY <1>4, <1>11, <1>12

-----------------------------------------------------------------------------
(* What goes on while a server serves: processes come and go. *)

\* The server stays as it is but for the paths of who joins, and a process that
\* is joined stays as it is while it is.
LEMMA ServingStays ==
  ASSUME CompositionInv, [CompositionNext]_vars, proc[Server].stage = "serving"
  PROVE  /\ proc'[Server].stage = "serving" /\ proc'[Server].config = proc[Server].config
         /\ proc'[Server].apps = proc[Server].apps /\ proc'[Server].dbs = proc[Server].dbs
         /\ \/ proc'[Server] = proc[Server]
            \/ \E code \in Codes : Joins(code) /\ code \in joined'
         /\ \A code \in joined \cap joined' : proc'[code] = proc[code]
<1>1. /\ DOMAIN proc = Processes /\ Server \in Processes /\ Codes \subseteq Processes
      /\ Server \notin Codes
  BY NamesAssumption DEF CompositionInv, Processes
<1>2. \A code \in joined : code \in Codes /\ proc[code].stage = "serving"
  BY DEF CompositionInv, JoinedHold
<1>3. CASE UNCHANGED proc BY <1>3
<1>4. CASE \E p \in Processes : Boot(p) \/ Register(p) \/ Settle(p)
  <2>1. PICK p \in Processes : Boot(p) \/ Register(p) \/ Settle(p) BY <1>4
  <2>2. proc[p].stage \in {"down", "building"} BY <2>1 DEF Boot, Register, Settle
  <2>3. PICK q : proc' = [proc EXCEPT ![p] = q] BY <2>1 DEF Boot, Register, Settle
  <2>4. \A x \in Processes : proc[x].stage = "serving" => proc'[x] = proc[x]
    BY <1>1, <2>2, <2>3
  <2> QED BY <1>1, <1>2, <2>4
<1>5. CASE \E code \in Codes : Ends(code)
  <2>1. PICK code \in Codes : Ends(code) BY <1>5
  <2>2. /\ \A x \in Processes \ {code} : proc'[x] = proc[x]
        /\ code \notin joined'
    BY <1>1, <2>1 DEF Ends
  <2> QED BY <1>1, <1>2, <2>2
<1>6. ASSUME NEW code \in Codes, Joins(code)
      PROVE  /\ \/ proc'[Server] = proc[Server]
                \/ /\ code \in joined' /\ proc'[Server].stage = proc[Server].stage
                   /\ proc'[Server].config = proc[Server].config
                   /\ proc'[Server].apps = proc[Server].apps
                   /\ proc'[Server].dbs = proc[Server].dbs
             /\ \A x \in joined : proc'[x] = proc[x]
  <2>1. CASE proc' = [proc EXCEPT ![code] = Down]
    <3>1. code \notin joined BY <1>6 DEF Joins
    <3> QED BY <1>1, <1>2, <2>1, <3>1
  <2>2. CASE /\ \E app \in proc[code].apps :
                  proc' = [proc EXCEPT ![Server] = Claimed(Server, code, Presents(app))]
             /\ joined' = joined \cup {code}
    <3>1. PICK app \in proc[code].apps :
            proc' = [proc EXCEPT ![Server] = Claimed(Server, code, Presents(app))]
      BY <2>2
    <3>2. proc'[Server] = Claimed(Server, code, Presents(app)) BY <1>1, <3>1
    <3>3. /\ proc'[Server].stage = proc[Server].stage /\ proc'[Server].config = proc[Server].config
          /\ proc'[Server].apps = proc[Server].apps /\ proc'[Server].dbs = proc[Server].dbs
      <4>1. IsProc(proc[Server]) BY <1>1 DEF CompositionInv, ProcHolds
      <4> QED BY <3>2, <4>1 DEF Claimed, IsProc, ProcFields
    <3>4. \A x \in joined : proc'[x] = proc[x] BY <1>1, <1>2, <3>1
    <3> QED BY <2>2, <3>3, <3>4
  <2> QED BY <1>6, <2>1, <2>2 DEF Joins
<1>7. CASE \E code \in Codes : Joins(code) BY <1>1, <1>6, <1>7
<1> QED BY <1>3, <1>4, <1>5, <1>7 DEF CompositionNext, Edits, vars

\* A declared path leaves who has it only for a new process of the same.
LEMMA OnlyJoinsMove ==
  ASSUME CompositionInv, [CompositionNext]_vars, proc[Server].stage = "serving",
         NEW path \in WellKnown, Owner(proc[Server].declared, path) # None,
         Owner(proc'[Server].declared, path) # Owner(proc[Server].declared, path)
  PROVE  Owner(proc[Server].declared, path) \in joined' \ joined
<1>1. PICK code \in Codes : Joins(code) /\ code \in joined' BY ServingStays
<1>2. /\ DOMAIN proc = Processes /\ Server \in Processes /\ Server \notin Codes
      /\ IsProc(proc[Server]) /\ IsIndex(proc[Server].declared)
  BY NamesAssumption DEF CompositionInv, Processes, ProcHolds
<1>3. code \notin joined /\ proc[code].stage = "serving" BY <1>1 DEF Joins
<1>4. PICK app \in proc[code].apps :
        /\ ~Conflicts(Server, code, Presents(app))
        /\ proc' = [proc EXCEPT ![Server] = Claimed(Server, code, Presents(app))]
  <2>1. \A app, other \in proc[code].apps : app = other BY <1>3, RolePresents
  <2>2. joined' # joined BY <1>1, <1>3
  <2> QED BY <1>1, <2>1, <2>2 DEF Joins
<1>5. proc'[Server].declared = Reindexed(proc[Server].declared, code, Presents(app).declared)
  BY <1>2, <1>4 DEF Claimed, IsProc, ProcFields
<1>6. Free(proc[Server].declared, code, Presents(app).declared) BY <1>4, NoConflict
<1>7. Owner(proc[Server].declared, path) = code BY <1>2, <1>5, <1>6, OthersKeep
<1> QED BY <1>1, <1>3, <1>7

-----------------------------------------------------------------------------
(* The composition goes on under the requests. *)

LEMMA RequestsLeaveIt == [Next]_allVars => [CompositionNext]_vars
BY DEF Next, allVars, Steps, Answers, Arrives, GoesToParent, Preflight, Turned, Demuxes, Served,
       Executes, Forwards, ExecutesThere, Ended, Leaves

(* What a server and the processes of its roles are, whatever the requests   *)
(* do: built from the entries read so far, each once, with their paths.      *)
THEOREM CompositionHolds == Spec => []CompositionInv
<1>1. Init => CompositionInv BY CompositionStarts DEF Init
<1>2. CompositionInv /\ [Next]_allVars => CompositionInv' BY CompositionSteps, RequestsLeaveIt
<1> QED BY <1>1, <1>2, PTL DEF Spec

(* While it serves, no application loses a well-known path it declared, and  *)
(* none gets it, but by a new process of the same application joining        *)
(* (kbus_mixin.py:294-316).                                                  *)
THEOREM PathsStayTheirs == Spec => NobodyLosesAPath
<1>1. CompositionInv /\ [Next]_allVars =>
        [\A path \in WellKnown :
           LET before == Owner(proc[Server].declared, path)
               after == Owner(proc'[Server].declared, path)
           IN proc[Server].stage = "serving" /\ before # None /\ before # after =>
                before \in joined' \ joined]_vars
  BY RequestsLeaveIt, OnlyJoinsMove
<1> QED BY <1>1, CompositionHolds, PTL DEF Spec, NobodyLosesAPath

-----------------------------------------------------------------------------
(* Where the paths of the server lead: to routes that an application of the *)
(* same code named in some recipe, this one or a later one.                 *)

Written == UNION {{recipe.entries[i] : i \in DOMAIN recipe.entries} : recipe \in Recipes}

Names(index) ==
  \A path \in WellKnown : Owner(index, path) # None =>
    \E e \in Written \cup {Management} :
      e.code = Owner(index, path) /\ index[path].route \in Offered(e)

PathsLead == Names(proc[Server].declared) /\ Names(proc[Server].defaults)

LEMMA NobodyNames == Names(Nobody)
BY DEF Names, Nobody, NoHolder, Owner

LEMMA ReindexedNames ==
  ASSUME NEW index, IsIndex(index), Names(index), NEW code \in Codes, NEW routes,
         NEW e \in Written \cup {Management}, e.code = code,
         \A path \in DOMAIN routes : routes[path] \in Offered(e)
  PROVE  Names(Reindexed(index, code, routes))
<1> SUFFICES ASSUME NEW path \in WellKnown, Owner(Reindexed(index, code, routes), path) # None
             PROVE  \E other \in Written \cup {Management} :
                      /\ other.code = Owner(Reindexed(index, code, routes), path)
                      /\ Reindexed(index, code, routes)[path].route \in Offered(other)
  BY DEF Names
<1>1. CASE path \in DOMAIN routes
  <2>1. Reindexed(index, code, routes)[path] = [code |-> code, route |-> routes[path]]
    BY <1>1 DEF Reindexed
  <2> QED BY <1>1, <2>1 DEF Owner
<1>2. CASE path \notin DOMAIN routes
  <2>1. Reindexed(index, code, routes)[path] = index[path]
    BY <1>2 DEF Reindexed, Owner, NoHolder
  <2> QED BY <2>1 DEF Owner, Names
<1> QED BY <1>1, <1>2

\* An entry is one of a recipe, as to its code and its paths.
LEMMA EntryIsWritten ==
  ASSUME NEW d \in Configs, NEW p \in Processes, NEW i \in DOMAIN Entries(d, p)
  PROVE  \E e \in Written \cup {Management} :
           /\ e.code = Entries(d, p)[i].code
           /\ e.declared = Entries(d, p)[i].declared /\ e.defaults = Entries(d, p)[i].defaults
<1>1. \A j \in DOMAIN d.recipe.entries : d.recipe.entries[j] \in Written /\ IsEntry(d.recipe.entries[j])
  BY RecipesAssumption DEF Configs, Written
<1>2. CASE i \in DOMAIN d.recipe.entries
  <2> DEFINE e == d.recipe.entries[i]
  <2>1. Entries(d, p)[i] = Mounted(e) \/ Entries(d, p)[i] = Hosted(Mounted(e))
    BY <1>2, ServerEntries, RoleEntries DEF Processes
  <2>2. /\ IsEntry(Mounted(e)) /\ Mounted(e).code = e.code
        /\ Mounted(e).declared = e.declared /\ Mounted(e).defaults = e.defaults
    BY <1>1, <1>2, MountedIs DEF EntryFields
  <2> HIDE DEF e
  <2>3. /\ Hosted(Mounted(e)).code = e.code
        /\ Hosted(Mounted(e)).declared = e.declared /\ Hosted(Mounted(e)).defaults = e.defaults
    BY <2>2, HostedIs DEF EntryFields
  <2>4. e \in Written BY <1>1, <1>2 DEF e
  <2> QED BY <2>1, <2>2, <2>3, <2>4
<1>3. CASE i \notin DOMAIN d.recipe.entries
  <2>1. p = Server BY <1>3, RoleEntries DEF Processes
  <2>2. Entries(d, p)[i] = Management BY <1>3, <2>1, ServerEntries
  <2> QED BY <2>2
<1> QED BY <1>2, <1>3

LEMMA PresentedIsOffered ==
  ASSUME NEW app, NEW e, e.declared = app.declared, e.defaults = app.defaults
  PROVE  /\ \A path \in DOMAIN Presents(app).declared : Presents(app).declared[path] \in Offered(e)
         /\ \A path \in DOMAIN Presents(app).defaults : Presents(app).defaults[path] \in Offered(e)
<1>1. \A path \in DOMAIN Given(app) : path \in DOMAIN app.defaults /\ Given(app)[path] = app.defaults[path]
  BY DEF Given
<1>2. CASE app.spawner BY <1>2 DEF Presents
<1>3. CASE ~app.spawner
  <2>1. Presents(app).declared = app.declared /\ Presents(app).defaults = Given(app)
    BY <1>3 DEF Presents
  <2> QED BY <1>1, <2>1 DEF Offered
<1> QED BY <1>2, <1>3

LEMMA ClaimedNames ==
  ASSUME CompositionInv, PathsLead, NEW app, app.code \in Codes,
         NEW e \in Written \cup {Management},
         e.code = app.code, e.declared = app.declared, e.defaults = app.defaults
  PROVE  /\ Names(Reindexed(proc[Server].declared, app.code, Presents(app).declared))
         /\ Names(Reindexed(proc[Server].defaults, app.code, Presents(app).defaults))
<1>1. IsIndex(proc[Server].declared) /\ IsIndex(proc[Server].defaults)
  BY DEF CompositionInv, Processes, ProcHolds
<1>2. /\ \A path \in DOMAIN Presents(app).declared : Presents(app).declared[path] \in Offered(e)
      /\ \A path \in DOMAIN Presents(app).defaults : Presents(app).defaults[path] \in Offered(e)
  BY PresentedIsOffered
<1>3. Names(proc[Server].declared) /\ Names(proc[Server].defaults) BY DEF PathsLead
<1> QED BY <1>1, <1>2, <1>3, ReindexedNames

LEMMA RegisteredLeads ==
  ASSUME CompositionInv, PathsLead, Register(Server) PROVE PathsLead'
<1>1. PICK i \in proc[Server].pending :
        LET e == Entries(proc[Server].config, Server)[i] IN
        proc' = [proc EXCEPT ![Server] =
          IF Rejects(Server, e) THEN [Down EXCEPT !.stage = "failed"]
          ELSE [Claimed(Server, e.code, Presents(e)) EXCEPT
                  !.apps = @ \cup {e}, !.pending = @ \ {i}]]
  BY DEF Register
<1> DEFINE app == Entries(proc[Server].config, Server)[i]
<1>2. /\ Server \in DOMAIN proc /\ Server \in Processes /\ IsProc(proc[Server])
      /\ proc[Server].config \in Configs /\ i \in DOMAIN Entries(proc[Server].config, Server)
  BY DEF Register, CompositionInv, Processes, ProcHolds, Standing, Places
<1>3. IsEntry(app) BY <1>2, EntriesFit
<1>4. PICK e \in Written \cup {Management} :
        e.code = app.code /\ e.declared = app.declared /\ e.defaults = app.defaults
  BY <1>2, EntryIsWritten
<1>5. /\ Names(Reindexed(proc[Server].declared, app.code, Presents(app).declared))
      /\ Names(Reindexed(proc[Server].defaults, app.code, Presents(app).defaults))
  BY <1>3, <1>4, ClaimedNames DEF IsEntry
<1>6. CASE Rejects(Server, app)
  <2>1. proc'[Server] = [Down EXCEPT !.stage = "failed"] BY <1>1, <1>2, <1>6
  <2> QED BY <2>1, NobodyNames DEF PathsLead, Down
<1>7. CASE ~Rejects(Server, app)
  <2>1. proc'[Server] = [Claimed(Server, app.code, Presents(app)) EXCEPT
                           !.apps = @ \cup {app}, !.pending = @ \ {i}]
    BY <1>1, <1>2, <1>7
  <2>2. /\ proc'[Server].declared = Reindexed(proc[Server].declared, app.code, Presents(app).declared)
        /\ proc'[Server].defaults = Reindexed(proc[Server].defaults, app.code, Presents(app).defaults)
    BY <1>2, <2>1 DEF Claimed, IsProc, ProcFields
  <2> QED BY <1>5, <2>2 DEF PathsLead
<1> QED BY <1>6, <1>7

LEMMA JoinedLeads ==
  ASSUME CompositionInv, PathsLead, NEW code \in Codes, Joins(code) PROVE PathsLead'
<1>1. /\ DOMAIN proc = Processes /\ Server \in Processes /\ code \in Processes /\ code # Server
      /\ IsProc(proc[Server]) /\ proc[code].stage = "serving"
  BY NamesAssumption DEF Joins, CompositionInv, Processes, ProcHolds
<1>2. CASE proc' = [proc EXCEPT ![code] = Down] BY <1>1, <1>2 DEF PathsLead
<1>3. CASE \E app \in proc[code].apps :
             proc' = [proc EXCEPT ![Server] = Claimed(Server, code, Presents(app))]
  <2>1. PICK app \in proc[code].apps :
          proc' = [proc EXCEPT ![Server] = Claimed(Server, code, Presents(app))]
    BY <1>3
  <2>2. PICK i \in Built(proc[code], code) : app = Entries(proc[code].config, code)[i]
    BY <1>1, RoleStands DEF Standing, Registered
  <2>3. i \in DOMAIN Entries(proc[code].config, code) /\ proc[code].config \in Configs
    BY <1>1, <2>2, RoleStands DEF Places
  <2>4. PICK e \in Written \cup {Management} :
          e.code = app.code /\ e.declared = app.declared /\ e.defaults = app.defaults
    BY <1>1, <2>2, <2>3, EntryIsWritten
  <2>5. app.code = code BY <1>1, RolePresents
  <2>6. /\ Names(Reindexed(proc[Server].declared, code, Presents(app).declared))
        /\ Names(Reindexed(proc[Server].defaults, code, Presents(app).defaults))
    BY <2>4, <2>5, ClaimedNames
  <2>7. /\ proc'[Server].declared = Reindexed(proc[Server].declared, code, Presents(app).declared)
        /\ proc'[Server].defaults = Reindexed(proc[Server].defaults, code, Presents(app).defaults)
    BY <1>1, <2>1 DEF Claimed, IsProc, ProcFields
  <2> QED BY <2>6, <2>7 DEF PathsLead
<1> QED BY <1>2, <1>3 DEF Joins

LEMMA PathsLeadStarts == Init => PathsLead
BY NobodyNames DEF Init, CompositionInit, PathsLead, Down, Processes

LEMMA PathsLeadSteps ==
  ASSUME CompositionInv, PathsLead, [CompositionNext]_vars PROVE PathsLead'
<1>1. DOMAIN proc = Processes /\ Server \in Processes /\ Server \notin Codes
  BY NamesAssumption DEF CompositionInv, Processes
<1>2. CASE proc'[Server] = proc[Server] BY <1>2 DEF PathsLead
<1>3. CASE \E p \in Processes : Boot(p) \/ Register(p) \/ Settle(p)
  <2>1. PICK p \in Processes : Boot(p) \/ Register(p) \/ Settle(p) BY <1>3
  <2>2. CASE p # Server
    <3>1. PICK q : proc' = [proc EXCEPT ![p] = q] BY <2>1 DEF Boot, Register, Settle
    <3> QED BY <1>1, <1>2, <2>2, <3>1
  <2>3. CASE p = Server /\ Register(p) BY <2>3, RegisteredLeads
  <2>4. CASE p = Server /\ Boot(p)
    <3>1. proc'[Server].declared = Nobody /\ proc'[Server].defaults = Nobody
      BY <1>1, <2>4 DEF Boot, Down
    <3> QED BY <3>1, NobodyNames DEF PathsLead
  <2>5. CASE p = Server /\ Settle(p)
    <3>1. \/ proc'[Server] = [Down EXCEPT !.stage = "failed"]
          \/ proc'[Server] = [proc[Server] EXCEPT !.stage = "serving",
                 !.dbs = Databases(proc[Server].config, proc[Server].apps)]
      BY <1>1, <2>5 DEF Settle
    <3>2. IsProc(proc[Server]) BY <1>1 DEF CompositionInv, ProcHolds
    <3>3. \/ proc'[Server].declared = Nobody /\ proc'[Server].defaults = Nobody
          \/ /\ proc'[Server].declared = proc[Server].declared
             /\ proc'[Server].defaults = proc[Server].defaults
      BY <3>1, <3>2 DEF Down, IsProc, ProcFields
    <3> QED BY <3>3, NobodyNames DEF PathsLead
  <2> QED BY <2>1, <2>2, <2>3, <2>4, <2>5
<1>4. CASE \E code \in Codes : Joins(code) BY <1>4, JoinedLeads
<1>5. CASE \E code \in Codes : Ends(code) BY <1>1, <1>2, <1>5 DEF Ends
<1> QED BY <1>2, <1>3, <1>4, <1>5 DEF CompositionNext, Edits, vars

-----------------------------------------------------------------------------
(* What an execution comes to. *)

ScopeFields ==
  {"path", "method", "channel", "kbus", "auth", "credential", "session", "query", "ctype", "body",
   "page", "origin", "version", "torn", "transport"}
IsScope(scope) == scope = [field \in ScopeFields |-> scope[field]]

\* As callers make them: a tool is called by its name.
CallsTools(body) ==
  body.kind = "rpc" =>
    body.tool \in Seq(STRING) /\ (body.method = "tools/call" => body.tool # <<>>)

IsRefusal(outcome) == outcome.kind = "raised" /\ outcome.status # 500

\* What stops a request before a handler: a status, or what is torn.
IsStop(outcome, scope) == IsRefusal(outcome) \/ (outcome = Crash /\ scope.torn)

\* A route ran, for who its rule admits and on the channel of the scope.
RanRoute(done, q, app, scope) ==
  \E route \in RoutesOf(app, scope) : \E view, outcome :
    /\ done = Ran(route, view, outcome)
    /\ outcome = Outcome(route)
    /\ view.avatar = Acting(q, scope) /\ view.channel = Channel(scope)
    /\ Admitted(route, Acting(q, scope)) /\ Channel(scope) \in route.channels

LEMMA FaultIs ==
  ASSUME NEW app, NEW scope
  PROVE  InitFault(app, scope) = Fine \/ IsStop(InitFault(app, scope), scope)
<1>1. IsRefusal(Raised(415)) /\ IsRefusal(Raised(400)) BY DEF IsRefusal, Raised
<1>2. BodyFault(app, scope) \in {Fine, Raised(415), Raised(400)} BY DEF BodyFault, Broken
<1>3. CASE scope.torn
  <2>1. InitFault(app, scope) = Crash BY <1>3 DEF InitFault
  <2> QED BY <1>3, <2>1 DEF IsStop
<1>4. CASE ~scope.torn
  <2>1. InitFault(app, scope) = BodyFault(app, scope) BY <1>4 DEF InitFault
  <2> QED BY <1>1, <1>2, <2>1 DEF IsStop
<1> QED BY <1>3, <1>4

LEMMA DeniedIs ==
  ASSUME NEW route, NEW scope, NEW avatar
  PROVE  \/ IsRefusal(Denied(route, scope, avatar))
         \/ /\ Denied(route, scope, avatar) = Fine
            /\ Admitted(route, avatar) /\ Channel(scope) \in route.channels
BY DEF Denied, IsRefusal, Raised, Challenged, Admitted

LEMMA RunsIs ==
  ASSUME NEW q, NEW app, app.invalid \in {400, 422}, NEW route, NEW scope, NEW avatar
  PROVE  \/ \E outcome : Runs(q, app, route, scope, avatar) = NotRun(outcome) /\ IsRefusal(outcome)
         \/ \E view : /\ Runs(q, app, route, scope, avatar) = Ran(route, view, Outcome(route))
                      /\ view.avatar = avatar /\ view.channel = Channel(scope)
<1> DEFINE kwargs == Bound(app, route, scope)
<1>1. IsRefusal(Raised(400)) /\ IsRefusal(Raised(app.invalid)) BY DEF IsRefusal, Raised
<1>2. CASE ~Fits(route, kwargs) BY <1>1, <1>2 DEF Runs
<1>3. CASE Fits(route, kwargs) /\ ~Validates(route, kwargs) BY <1>1, <1>3 DEF Runs
<1>4. CASE Fits(route, kwargs) /\ Validates(route, kwargs)
  <2> DEFINE view == [avatar |-> avatar, path |-> scope.path, method |-> scope.method,
                      channel |-> Channel(scope), kwargs |-> kwargs, page |-> scope.page,
                      db |-> DatabaseOf(q, app)]
  <2>1. Runs(q, app, route, scope, avatar) = Ran(route, view, Outcome(route)) BY <1>4 DEF Runs
  <2>2. view.avatar = avatar /\ view.channel = Channel(scope) OBVIOUS
  <2> QED BY <2>1, <2>2
<1> QED BY <1>2, <1>3, <1>4

LEMMA ExecutedIs ==
  ASSUME NEW q, NEW app, IsEntry(app), NEW scope
  PROVE  \/ \E outcome : Executed(q, app, scope) = NotRun(outcome) /\ IsStop(outcome, scope)
         \/ RanRoute(Executed(q, app, scope), q, app, scope)
<1> DEFINE fault == InitFault(app, scope)
           avatar == Acting(q, scope)
           routes == RoutesOf(app, scope)
           route == CHOOSE route \in routes : TRUE
           denied == Denied(route, scope, avatar)
<1>1. Executed(q, app, scope) =
        IF fault # Fine THEN NotRun(fault)
        ELSE IF avatar = Refused THEN NotRun(Challenged)
        ELSE IF routes = {} THEN NotRun(Raised(404))
        ELSE IF denied # Fine THEN NotRun(denied)
        ELSE Runs(q, app, route, scope, avatar)
  BY DEF Executed
<1>2. IsRefusal(Challenged) /\ IsRefusal(Raised(404)) BY DEF IsRefusal, Raised, Challenged
<1>3. CASE fault # Fine
  <2>1. IsStop(fault, scope) BY <1>3, FaultIs
  <2> HIDE DEF fault, avatar, routes, route, denied
  <2> QED BY <1>1, <1>3, <2>1
<1>4. CASE fault = Fine /\ (avatar = Refused \/ routes = {})
  <2> HIDE DEF fault, avatar, routes, route, denied
  <2> QED BY <1>1, <1>2, <1>4 DEF IsStop
<1>5. CASE fault = Fine /\ avatar # Refused /\ routes # {}
  <2>1. Executed(q, app, scope) =
          IF denied # Fine THEN NotRun(denied) ELSE Runs(q, app, route, scope, avatar)
    <3> HIDE DEF fault, avatar, routes, route, denied
    <3> QED BY <1>1, <1>5
  <2>2. route \in routes BY <1>5
  <2>3. CASE denied # Fine BY <2>1, <2>3, DeniedIs DEF IsStop
  <2>4. CASE denied = Fine
    <3>1. Executed(q, app, scope) = Runs(q, app, route, scope, avatar) BY <2>1, <2>4
    <3>2. Admitted(route, avatar) /\ Channel(scope) \in route.channels
      <4>1. ~IsRefusal(Fine) BY DEF IsRefusal, Fine
      <4> QED BY <2>4, <4>1, DeniedIs
    <3>3. app.invalid \in {400, 422} BY DEF IsEntry
    <3> HIDE DEF route, avatar
    <3>4. \/ \E outcome : Executed(q, app, scope) = NotRun(outcome) /\ IsRefusal(outcome)
          \/ \E view : /\ Executed(q, app, scope) = Ran(route, view, Outcome(route))
                       /\ view.avatar = avatar /\ view.channel = Channel(scope)
      BY <3>1, <3>3, RunsIs
    <3> USE DEF avatar
    <3> QED BY <2>2, <3>2, <3>4 DEF RanRoute, IsStop
  <2> QED BY <2>3, <2>4
<1> QED BY <1>3, <1>4, <1>5

\* A tool ran, one that is listed to who calls it.
RanTool(done, q, app, scope) ==
  \E route \in Listed(app, Acting(q, scope)) : \E view, outcome :
    /\ done = Ran(route, view, outcome) /\ outcome.kind = "rpc"
    /\ view.avatar = Acting(q, scope) /\ view.channel = "mcp"

Replies(done) == \E outcome : done = NotRun(outcome) /\ outcome.kind = "rpc"

LEMMA UnrunOutcome ==
  ASSUME NEW outcome, NEW other
  PROVE  /\ NotRun(outcome).outcome = outcome /\ NotRun(outcome).how = "unrun"
         /\ [NotRun(outcome) EXCEPT !.outcome = other] = NotRun(other)
<1>1. NotRun(outcome) = [how |-> "unrun", outcome |-> outcome] BY DEF NotRun
<1>2. NotRun(other) = [how |-> "unrun", outcome |-> other] BY DEF NotRun
<1>3. [NotRun(outcome) EXCEPT !.outcome = other] = NotRun(other) BY <1>1, <1>2
<1> QED BY <1>1, <1>3

LEMMA RanOutcome ==
  ASSUME NEW route, NEW view, NEW outcome, NEW other
  PROVE  /\ Ran(route, view, outcome).outcome = outcome /\ Ran(route, view, outcome).how = "ran"
         /\ Ran(route, view, outcome).route = route /\ Ran(route, view, outcome).view = view
         /\ [Ran(route, view, outcome) EXCEPT !.outcome = other] = Ran(route, view, other)
<1>1. Ran(route, view, outcome) =
        [how |-> "ran", route |-> route, view |-> view, outcome |-> outcome]
  BY DEF Ran
<1>2. Ran(route, view, other) = [how |-> "ran", route |-> route, view |-> view, outcome |-> other]
  BY DEF Ran
<1>3. [Ran(route, view, outcome) EXCEPT !.outcome = other] = Ran(route, view, other) BY <1>1, <1>2
<1> QED BY <1>1, <1>3

LEMMA RpcIs ==
  /\ \A code : RpcError(code).kind = "rpc"
  /\ \A value : RpcResult(value).kind = "rpc"
  /\ \A tools : Listing(tools).kind = "rpc"
  /\ \A done : ToolAnswer(done).kind = "rpc"
BY DEF RpcError, RpcResult, Listing, ToolAnswer

LEMMA ToolScopeIs ==
  ASSUME NEW app, NEW scope, IsScope(scope), NEW avatar
  PROVE  /\ ToolScope(app, scope, avatar).method = "POST"
         /\ ToolScope(app, scope, avatar).query = <<>>
         /\ ToolScope(app, scope, avatar).ctype = "json"
         /\ ToolScope(app, scope, avatar).body = scope.body.arguments
         /\ ToolScope(app, scope, avatar).auth = avatar
         /\ ToolScope(app, scope, avatar).channel = scope.channel
         /\ ToolScope(app, scope, avatar).kbus = scope.kbus
         /\ ToolScope(app, scope, avatar).page = scope.page
         /\ ToolScope(app, scope, avatar).credential = scope.credential
         /\ ToolScope(app, scope, avatar).session = scope.session
<1> DEFINE tool == ToolScope(app, scope, avatar)
<1>1. tool = [[[[[[scope EXCEPT !.path = app.mcp.root \o scope.body.tool] EXCEPT !.method = "POST"]
                  EXCEPT !.query = <<>>] EXCEPT !.ctype = "json"]
                EXCEPT !.body = scope.body.arguments] EXCEPT !.auth = avatar]
  BY DEF ToolScope
<1> HIDE DEF tool
<1>2. /\ tool.method = "POST"
      /\ tool.query = <<>> /\ tool.ctype = "json" /\ tool.body = scope.body.arguments
      /\ tool.auth = avatar
      /\ tool.channel = scope.channel /\ tool.kbus = scope.kbus /\ tool.page = scope.page
      /\ tool.credential = scope.credential /\ tool.session = scope.session
  BY <1>1 DEF IsScope, ScopeFields
<1> QED BY <1>2 DEF tool

LEMMA ToolPath ==
  ASSUME NEW app, NEW scope, IsScope(scope), NEW avatar
  PROVE  ToolScope(app, scope, avatar).path = app.mcp.root \o scope.body.tool
<1> DEFINE path == app.mcp.root \o scope.body.tool
<1>1. ToolScope(app, scope, avatar).path = path
  <2> HIDE DEF path
  <2> QED BY DEF ToolScope, IsScope, ScopeFields, path
<1> QED BY <1>1

\* A tool runs for who called it.
LEMMA ToolActs ==
  ASSUME NEW q, NEW app, NEW scope, IsScope(scope)
  PROVE  Acting(q, ToolScope(app, scope, Acting(q, scope))) = Acting(q, scope)
<1> DEFINE avatar == Acting(q, scope)
           tool == ToolScope(app, scope, avatar)
<1>1. tool.auth = avatar /\ tool.credential = scope.credential /\ tool.session = scope.session
  BY ToolScopeIs
<1> HIDE DEF tool
<1>2. CASE avatar # None
  <2>1. Acting(q, tool) = avatar BY <1>1, <1>2 DEF Acting
  <2> QED BY <2>1 DEF tool
<1>3. CASE avatar = None
  <2>1. scope.auth = None BY <1>3 DEF Acting
  <2>2. Acting(q, tool) = avatar BY <1>1, <1>3, <2>1 DEF Acting
  <2> QED BY <2>2 DEF tool
<1> QED BY <1>2, <1>3

LEMMA CalledIs ==
  ASSUME NEW q, NEW app, IsEntry(app), NEW scope, IsScope(scope), scope.channel = "mcp",
         app.mcp.root # None, app.mcp.root \in Seq(STRING), scope.body.tool \in Seq(STRING), scope.body.tool # <<>>
  PROVE  LET done == Called(q, app, scope, Acting(q, scope)) IN
         Replies(done) \/ RanTool(done, q, app, scope)
<1> DEFINE avatar == Acting(q, scope)
           tool == ToolScope(app, scope, avatar)
           routes == RoutesOf(app, tool)
           denials == {Denied(route, tool, avatar) : route \in routes} \ {Fine}
           done == Executed(q, app, tool)
<1>1. Called(q, app, scope, avatar) =
        IF routes = {} \/ Raised(404) \in denials THEN NotRun(RpcError("METHOD_NOT_FOUND"))
        ELSE IF denials # {} THEN NotRun(RpcError("NOT_AUTHORIZED"))
        ELSE [done EXCEPT !.outcome = ToolAnswer(done)]
  BY DEF Called
<1>2. Acting(q, tool) = avatar BY ToolActs
<1>3. Channel(tool) = "mcp" /\ tool.path = app.mcp.root \o scope.body.tool
  <2>1. tool.channel = "mcp" BY ToolScopeIs
  <2>4. tool.path = app.mcp.root \o scope.body.tool BY ToolPath
  <2>2. Channel(tool) = IF tool.channel = None THEN "rest" ELSE tool.channel BY DEF Channel
  <2>3. None # "mcp" BY RequestsAssumption
  <2> HIDE DEF tool
  <2>5. Channel(tool) = "mcp" BY <2>1, <2>2, <2>3
  <2> QED BY <2>4, <2>5
<1>4. CASE \E outcome : done = NotRun(outcome)
  <2>1. PICK outcome : done = NotRun(outcome) BY <1>4
  <2> HIDE DEF done, denials, routes
  <2>2. [done EXCEPT !.outcome = ToolAnswer(done)] = NotRun(ToolAnswer(done))
    BY <2>1, UnrunOutcome
  <2> QED BY <1>1, <2>2, RpcIs DEF Replies
<1>5. CASE RanRoute(done, q, app, tool)
  <2>1. PICK route \in routes : \E view, outcome :
          /\ done = Ran(route, view, outcome)
          /\ view.avatar = avatar /\ view.channel = "mcp"
          /\ Admitted(route, avatar) /\ "mcp" \in route.channels
    <3> HIDE DEF done, tool, avatar
    <3> QED BY <1>2, <1>3, <1>5 DEF RanRoute
  <2>2. PICK view, outcome : done = Ran(route, view, outcome)
                             /\ view.avatar = avatar /\ view.channel = "mcp"
    BY <2>1
  <2>3. [done EXCEPT !.outcome = ToolAnswer(done)] = Ran(route, view, ToolAnswer(done))
    <3> HIDE DEF done
    <3>1. done = Ran(route, view, outcome) BY <2>2
    <3> QED BY <3>1, RanOutcome
  <2>4. route \in app.routes /\ route.path = app.mcp.root \o scope.body.tool
    <3> HIDE DEF tool
    <3> QED BY <1>3, <2>1 DEF RoutesOf
  <2>5. /\ Len(app.mcp.root) < Len(route.path)
        /\ SubSeq(route.path, 1, Len(app.mcp.root)) = app.mcp.root
    <3> DEFINE root == app.mcp.root
               name == scope.body.tool
    <3>1. root \in Seq(STRING) /\ name \in Seq(STRING) /\ name # <<>> /\ route.path = root \o name
      BY <2>4
    <3> HIDE DEF root, name
    <3>2. Len(name) \in Nat /\ Len(name) # 0 BY <3>1, EmptySeq
    <3>3. /\ root \o name \in Seq(STRING) /\ Len(root \o name) = Len(root) + Len(name)
          /\ \A i \in 1 .. Len(root) : (root \o name)[i] = root[i]
      BY <3>1, ConcatProperties
    <3>4. Len(root) \in Nat BY <3>1
    <3>5. SubSeq(root \o name, 1, Len(root)) = root BY <3>1, <3>2, <3>3, <3>4
    <3>6. Len(root) < Len(route.path) /\ SubSeq(route.path, 1, Len(root)) = root
      BY <3>1, <3>2, <3>3, <3>4, <3>5
    <3> QED BY <3>6 DEF root
  <2>6. route \in Listed(app, avatar)
    <3> HIDE DEF done, avatar
    <3> QED BY <2>1, <2>4, <2>5 DEF Listed
  <2> HIDE DEF done, denials, routes, avatar
  <2>7. \/ Replies(Called(q, app, scope, avatar))
        \/ Called(q, app, scope, avatar) = Ran(route, view, ToolAnswer(done))
    BY <1>1, <2>3, RpcIs DEF Replies
  <2> USE DEF avatar
  <2> QED BY <2>2, <2>6, <2>7, RpcIs DEF RanTool
<1> QED BY <1>4, <1>5, ExecutedIs

\* What no handler had a part in: a stream on a GET alone.
Unrun(done, scope) ==
  \E outcome : /\ done = NotRun(outcome)
              /\ \/ IsStop(outcome, scope) \/ outcome.kind = "rpc"
                 \/ outcome.kind = "own" /\ outcome.status = 202
                 \/ outcome.kind = "stream" /\ scope.method = "GET"
                 \/ outcome = Crash /\ scope.transport = "unknown"

LEMMA DispatchedIs ==
  ASSUME NEW q, NEW app, IsEntry(app), app.mcp # None, NEW scope, IsScope(scope),
         scope.channel = "mcp", CallsTools(scope.body)
  PROVE  \/ Replies(Dispatched(q, app, scope, Acting(q, scope)))
         \/ RanTool(Dispatched(q, app, scope, Acting(q, scope)), q, app, scope)
<1> DEFINE avatar == Acting(q, scope)
           done == Dispatched(q, app, scope, avatar)
           body == scope.body
<1>1. ASSUME NEW outcome, outcome.kind = "rpc", done = NotRun(outcome) PROVE Replies(done)
  BY <1>1 DEF Replies
<1>2. CASE app.raw \/ body.kind # "rpc" \/ body.method = None \/ body.params # "object"
  <2>1. done = NotRun(RpcError("INVALID_REQUEST")) BY <1>2 DEF Dispatched
  <2> QED BY <1>1, <2>1, RpcIs
<1>3. CASE ~(app.raw \/ body.kind # "rpc" \/ body.method = None \/ body.params # "object")
  <2>1. CASE body.method = "tools/call"
    <3>1. done = IF app.mcp.root = None THEN NotRun(RpcError("INTERNAL_ERROR"))
                 ELSE Called(q, app, scope, avatar)
      BY <1>3, <2>1 DEF Dispatched
    <3>2. CASE app.mcp.root = None
      <4>1. done = NotRun(RpcError("INTERNAL_ERROR")) BY <3>1, <3>2
      <4> QED BY <1>1, <4>1, RpcIs
    <3>3. CASE app.mcp.root # None
      <4>1. done = Called(q, app, scope, avatar) BY <3>1, <3>3
      <4>2. app.mcp.root \in Seq(STRING) BY <3>3 DEF IsEntry
      <4>3. body.tool \in Seq(STRING) /\ body.tool # <<>> BY <1>3, <2>1 DEF CallsTools
      <4> QED BY <3>3, <4>1, <4>2, <4>3, CalledIs
    <3> QED BY <3>2, <3>3
  <2>2. CASE body.method # "tools/call"
    <3>1. \/ done = NotRun(RpcResult(body.method)) \/ done = NotRun(Listing(Listed(app, avatar)))
          \/ done = NotRun(RpcError("METHOD_NOT_FOUND"))
      BY <1>3, <2>2 DEF Dispatched
    <3>2. CASE done = NotRun(RpcResult(body.method)) BY <1>1, <3>2, RpcIs
    <3>3. CASE done = NotRun(Listing(Listed(app, avatar))) BY <1>1, <3>3, RpcIs
    <3>4. CASE done = NotRun(RpcError("METHOD_NOT_FOUND")) BY <1>1, <3>4, RpcIs
    <3> QED BY <3>1, <3>2, <3>3, <3>4
  <2> QED BY <2>1, <2>2
<1> QED BY <1>2, <1>3

LEMMA HandledIs ==
  ASSUME NEW q, NEW app, IsEntry(app), app.mcp # None, NEW asked, IsScope(asked), CallsTools(asked.body)
  PROVE  Unrun(Handled(q, app, asked), asked) \/ RanTool(Handled(q, app, asked), q, app, asked)
<1> DEFINE scope == [asked EXCEPT !.channel = "mcp"]
           fault == InitFault(app, scope)
           avatar == Acting(q, scope)
           foreign == app.mcp.origins # None /\ scope.origin \notin app.mcp.origins \cup {None}
           done == Handled(q, app, asked)
<1>1. done =
        IF fault # Fine THEN NotRun(fault)
        ELSE IF foreign THEN NotRun(Raised(403))
        ELSE IF scope.version = "unknown" THEN NotRun(Raised(400))
        ELSE IF avatar = Refused THEN NotRun(Challenged)
        ELSE IF scope.method = "GET" /\ Read(q.config, "tasks") # "off"
          THEN NotRun([kind |-> "stream"])
        ELSE IF scope.method # "POST" THEN NotRun(Raised(405))
        ELSE IF Notifies(app, scope.body) THEN NotRun([kind |-> "own", status |-> 202])
        ELSE Dispatched(q, app, scope, avatar)
  BY DEF Handled
<1>2. /\ IsScope(scope) /\ scope.channel = "mcp" /\ scope.body = asked.body
      /\ scope.method = asked.method /\ scope.auth = asked.auth
      /\ scope.credential = asked.credential /\ scope.session = asked.session
      /\ scope.torn = asked.torn
  BY DEF IsScope, ScopeFields
<1> HIDE DEF scope
<1>3. Acting(q, scope) = Acting(q, asked) BY <1>2 DEF Acting
<1>4. /\ IsRefusal(Raised(403)) /\ IsRefusal(Raised(400)) /\ IsRefusal(Challenged)
      /\ IsRefusal(Raised(405))
  BY DEF IsRefusal, Raised, Challenged
<1>5. fault # Fine => IsStop(fault, asked) BY <1>2, FaultIs DEF IsStop
<1>6. \/ Replies(Dispatched(q, app, scope, avatar))
      \/ RanTool(Dispatched(q, app, scope, avatar), q, app, scope)
  BY <1>2, DispatchedIs
<1> HIDE DEF fault, avatar, foreign, done
<1>7. \/ \E outcome : done = NotRun(outcome) /\ IsStop(outcome, asked)
      \/ done = NotRun([kind |-> "stream"]) /\ scope.method = "GET"
      \/ done = NotRun([kind |-> "own", status |-> 202])
      \/ done = Dispatched(q, app, scope, avatar)
  BY <1>1, <1>4, <1>5 DEF IsStop
<1>8. CASE done = Dispatched(q, app, scope, avatar)
  <2>1. CASE Replies(done) BY <2>1 DEF Replies, Unrun, done
  <2>2. CASE RanTool(done, q, app, scope) BY <1>3, <2>2 DEF RanTool, done
  <2> QED BY <1>6, <1>8, <2>1, <2>2
<1>9. CASE done # Dispatched(q, app, scope, avatar)
  <2>1. Unrun(done, asked) BY <1>2, <1>7, <1>9 DEF Unrun
  <2> QED BY <2>1 DEF done
<1> QED BY <1>8, <1>9

\* What an application did with a request, whatever it is answered with: nothing
\* of a handler's, or a route ran for who its rule admits.
Answering(q, app, scope) ==
  IF Speaks(app, scope.path) THEN Handled(q, app, scope) ELSE Executed(q, app, scope)
Allowed(route, view, q, app, scope) ==
  /\ route \in app.routes
  /\ view.avatar = Acting(q, scope) /\ Admitted(route, view.avatar)
  /\ Speaks(app, scope.path) => route \in Listed(app, view.avatar)
RanFor(done, q, app, scope) ==
  \E route, view, outcome :
    /\ done = Ran(route, view, outcome) /\ Allowed(route, view, q, app, scope)
    /\ outcome = Outcome(route) \/ (outcome.kind = "rpc" /\ view.channel = "mcp")

LEMMA AnsweringIs ==
  ASSUME NEW q, NEW app, IsEntry(app), NEW scope, IsScope(scope), CallsTools(scope.body)
  PROVE  Unrun(Answering(q, app, scope), scope) \/ RanFor(Answering(q, app, scope), q, app, scope)
<1> DEFINE done == Answering(q, app, scope)
<1>1. CASE Speaks(app, scope.path)
  <2>1. done = Handled(q, app, scope) BY <1>1 DEF Answering
  <2>2. app.mcp # None BY <1>1 DEF Speaks
  <2>3. Unrun(done, scope) \/ RanTool(done, q, app, scope) BY <2>1, <2>2, HandledIs
  <2>4. CASE RanTool(done, q, app, scope)
    <3>1. PICK route \in Listed(app, Acting(q, scope)) : \E view, outcome :
            /\ done = Ran(route, view, outcome) /\ outcome.kind = "rpc"
            /\ view.avatar = Acting(q, scope) /\ view.channel = "mcp"
      BY <2>4 DEF RanTool
    <3>2. route \in app.routes /\ Admitted(route, Acting(q, scope))
      <4>1. app.mcp.root # None BY <3>1 DEF Listed
      <4> QED BY <3>1, <4>1 DEF Listed
    <3> HIDE DEF done
    <3>3. RanFor(done, q, app, scope) BY <3>1, <3>2 DEF RanFor, Allowed
    <3> QED BY <3>3 DEF done
  <2> QED BY <2>3, <2>4
<1>2. CASE ~Speaks(app, scope.path)
  <2>1. done = Executed(q, app, scope) BY <1>2 DEF Answering
  <2>2. CASE \E outcome : done = NotRun(outcome) /\ IsStop(outcome, scope)
    <3> HIDE DEF done
    <3>1. Unrun(done, scope) BY <2>2 DEF Unrun
    <3> QED BY <3>1 DEF done
  <2>3. CASE RanRoute(done, q, app, scope)
    <3> HIDE DEF done
    <3>1. \A route \in RoutesOf(app, scope) : route \in app.routes BY DEF RoutesOf
    <3>2. RanFor(done, q, app, scope) BY <1>2, <2>3, <3>1 DEF RanFor, Allowed, RanRoute
    <3> QED BY <3>2 DEF done
  <2> QED BY <2>1, <2>2, <2>3, ExecutedIs
<1> QED BY <1>1, <1>2

\* And with what it is answered: data that no encoder takes is a crash.
Permitted(done, q, app, scope) ==
  \E route, view, outcome :
    /\ done = Ran(route, view, outcome) /\ Allowed(route, view, q, app, scope)
    /\ \/ outcome = Outcome(route) \/ outcome.kind = "rpc"
       \/ /\ outcome = Crash /\ scope.transport = "unknown"
          /\ route.does = "data" \/ view.channel = "mcp"

LEMMA OutcomeIs ==
  ASSUME NEW route, route.does \in Doings
  PROVE  /\ Outcome(route).kind = "crash" => route.does \in {"crash", "misfit"}
         /\ Outcome(route).kind = "stream" => route.does = "stream"
         /\ Outcome(route).kind = "data" => route.does = "data"
         /\ Outcome(route).kind \notin {"own", "rpc"}
         /\ Outcome(route).kind = "raised" => Outcome(route).status # 500
BY DEF Doings, Outcome, Raised, Crash

LEMMA PerformedIs ==
  ASSUME NEW q, NEW app, IsEntry(app), NEW scope, IsScope(scope), CallsTools(scope.body)
  PROVE  Unrun(Performed(q, app, scope), scope) \/ Permitted(Performed(q, app, scope), q, app, scope)
<1> DEFINE raw == Answering(q, app, scope)
           done == Performed(q, app, scope)
<1>1. done = [raw EXCEPT !.outcome = Encoded(scope, raw.outcome)] BY DEF Performed, Answering
<1>2. Unrun(raw, scope) \/ RanFor(raw, q, app, scope) BY AnsweringIs
<1>3. \A outcome : \/ Encoded(scope, outcome) = outcome
                   \/ /\ Encoded(scope, outcome) = Crash /\ scope.transport = "unknown"
                      /\ outcome.kind \in {"data", "rpc"}
  BY DEF Encoded
<1> HIDE DEF raw, done
<1>4. CASE Unrun(raw, scope)
  <2>1. PICK outcome : /\ raw = NotRun(outcome)
                       /\ \/ IsStop(outcome, scope) \/ outcome.kind = "rpc"
                          \/ outcome.kind = "own" /\ outcome.status = 202
                          \/ outcome.kind = "stream" /\ scope.method = "GET"
                          \/ outcome = Crash /\ scope.transport = "unknown"
    BY <1>4 DEF Unrun
  <2>2. done = NotRun(Encoded(scope, outcome)) BY <1>1, <2>1, UnrunOutcome
  <2>3. Unrun(done, scope) BY <1>3, <2>1, <2>2 DEF Unrun
  <2> QED BY <2>3 DEF done
<1>5. CASE RanFor(raw, q, app, scope)
  <2>1. PICK route, view, outcome :
          /\ raw = Ran(route, view, outcome) /\ Allowed(route, view, q, app, scope)
          /\ outcome = Outcome(route) \/ (outcome.kind = "rpc" /\ view.channel = "mcp")
    BY <1>5 DEF RanFor
  <2>2. done = Ran(route, view, Encoded(scope, outcome)) BY <1>1, <2>1, RanOutcome
  <2>3. route.does \in Doings BY <2>1 DEF IsEntry, Allowed
  <2>4. outcome.kind \in {"data", "rpc"} => route.does = "data" \/ view.channel = "mcp"
    BY <2>1, <2>3, OutcomeIs
  <2>5. Permitted(done, q, app, scope) BY <1>3, <2>1, <2>2, <2>4 DEF Permitted
  <2> QED BY <2>5 DEF done
<1> QED BY <1>2, <1>4, <1>5

-----------------------------------------------------------------------------
(* A request as it is under way. *)

\* What of a scope comes from the face.
OfFace(scope, r) ==
  /\ scope.body = r.body
  /\ scope.method = "GET" => r.face = "http"
  /\ scope.method = "WSK" => r.face # "http" \/ r.method = "WSK"
  /\ scope.torn => r.torn /\ r.face # "kbus"
  /\ scope.transport = "unknown" => r.face = "http" /\ r.transport = "unknown"
  /\ r.face = "http" => scope.auth = None /\ scope.credential = r.credential

LEMMA ScopeOfFits ==
  ASSUME NEW r \in Requests
  PROVE  IsScope(ScopeOf(r)) /\ OfFace(ScopeOf(r), r) /\ ScopeOf(r).path = r.path
<1> DEFINE plain == [path |-> r.path, method |-> r.method, channel |-> None, kbus |-> FALSE,
                     auth |-> None, credential |-> r.credential, session |-> None,
                     query |-> r.query, ctype |-> r.ctype, body |-> r.body, page |-> None,
                     origin |-> r.origin, version |-> r.version, torn |-> r.torn,
                     transport |-> r.transport]
<1>1. r.face \in Faces
  BY RequestsAssumption DEF Faces
<1>2. /\ IsScope(plain) /\ plain.body = r.body /\ plain.path = r.path /\ plain.method = r.method
      /\ plain.auth = None /\ plain.credential = r.credential
      /\ plain.torn = r.torn /\ plain.transport = r.transport
  BY DEF IsScope, ScopeFields
<1>3. CASE r.face = "http"
  <2>1. ScopeOf(r) = [plain EXCEPT !.session = IF Switched("session") THEN r.session ELSE None]
    BY <1>3 DEF ScopeOf
  <2> HIDE DEF plain
  <2> QED BY <1>1, <1>2, <1>3, <2>1 DEF IsScope, ScopeFields, OfFace
<1>4. CASE r.face = "wsx"
  <2>1. PICK auth : ScopeOf(r) =
          [plain EXCEPT !.method = "WSK", !.channel = "wsx", !.ctype = "json",
                        !.session = r.session, !.page = r.page, !.transport = "known",
                        !.auth = auth]
    BY <1>4 DEF ScopeOf
  <2> HIDE DEF plain
  <2> QED BY <1>2, <1>4, <2>1 DEF IsScope, ScopeFields, OfFace
<1>5. CASE r.face = "kbus"
  <2>1. PICK on : ScopeOf(r) =
          [plain EXCEPT !.method = "POST", !.channel = r.channel, !.kbus = on,
                        !.ctype = "json", !.auth = r.avatar, !.credential = None,
                        !.query = <<>>, !.torn = FALSE, !.transport = "known"]
    BY <1>5 DEF ScopeOf
  <2> HIDE DEF plain
  <2> QED BY <1>2, <1>5, <2>1 DEF IsScope, ScopeFields, OfFace
<1> QED BY <1>1, <1>3, <1>4, <1>5 DEF Faces

-----------------------------------------------------------------------------
(* Where a path leads. *)

\* An application that holds the path, by name, or that it is mounted for.
LeadsTo(p, path, found, app) ==
  /\ found.code = app.code
  /\ \/ /\ path \in WellKnown
        /\ \E index \in {proc[p].declared, proc[p].defaults} :
             Owner(index, path) = app.code /\ found.path = index[path].route
     \/ /\ path \notin WellKnown /\ Segment(path) \notin Hidden
        /\ \/ Segment(path) # "" /\ app.mount = Segment(path) /\ found.path = Tail(path)
           \/ app.mount = "" /\ found.path = path

LEMMA DemuxIs ==
  ASSUME CompositionInv, NEW p \in Processes, proc[p].stage = "serving", NEW path
  PROVE  \/ Demux(p, path) = Answered(404) \/ Demux(p, path) = Answered(307)
         \/ Demux(p, path).status = 0 /\ \E app \in proc[p].apps : LeadsTo(p, path, Demux(p, path), app)
<1>1. /\ Standing(proc[p], p) /\ IsIndex(proc[p].declared) /\ IsIndex(proc[p].defaults)
  BY DEF CompositionInv, ProcHolds
<1> DEFINE found == Demux(p, path)
           mounted == MountedAt(p, Segment(path))
           root == MountedAt(p, "")
<1>2. CASE path \in WellKnown
  <2> DEFINE holder == Holder(p, path)
  <2>1. found = IF holder = NoHolder THEN Answered(404)
                ELSE [code |-> holder.code, path |-> holder.route, status |-> 0]
    BY <1>2 DEF Demux, DemuxWellKnown
  <2>2. CASE holder = NoHolder BY <2>1, <2>2
  <2>3. CASE holder # NoHolder
    <3>1. PICK index \in {proc[p].declared, proc[p].defaults} :
            holder = index[path] /\ Owner(index, path) # None
      BY <1>1, <1>2, <2>3 DEF Holder, IsIndex
    <3>2. \E app \in proc[p].apps : app.code = Owner(index, path)
      BY <1>1, <1>2, <3>1 DEF Standing, Registered
    <3>3. found.status = 0 /\ found.code = Owner(index, path) /\ found.path = index[path].route
      <4> HIDE DEF holder, found
      <4> QED BY <2>1, <2>3, <3>1 DEF Owner
    <3> HIDE DEF found, holder
    <3>4. found.status = 0 /\ \E app \in proc[p].apps : LeadsTo(p, path, found, app)
      BY <1>2, <3>1, <3>2, <3>3 DEF LeadsTo
    <3> QED BY <3>4 DEF found
  <2> QED BY <2>2, <2>3
<1>3. CASE path \notin WellKnown
  <2>1. found = IF Segment(path) \in Hidden THEN Answered(404)
                ELSE IF Segment(path) # "" /\ mounted # {} THEN To(The(mounted), Tail(path))
                ELSE IF root # {} THEN To(The(root), path)
                ELSE IF path = <<>> /\ Default(p) # None THEN Answered(307)
                ELSE Answered(404)
    BY <1>3 DEF Demux
  <2>2. CASE Segment(path) \notin Hidden /\ Segment(path) # "" /\ mounted # {}
    <3>1. found = To(The(mounted), Tail(path)) BY <2>1, <2>2
    <3>2. The(mounted) \in proc[p].apps /\ The(mounted).mount = Segment(path)
      BY <2>2 DEF The, MountedAt
    <3>3. /\ found.status = 0 /\ found.code = The(mounted).code /\ found.path = Tail(path)
      <4> HIDE DEF mounted, found
      <4> QED BY <3>1 DEF To
    <3>4. PICK app \in proc[p].apps : app = The(mounted) BY <3>2
    <3> HIDE DEF mounted, root
    <3> HIDE DEF found
    <3>5. found.status = 0 /\ LeadsTo(p, path, found, app)
      BY <1>3, <2>2, <3>2, <3>3, <3>4 DEF LeadsTo
    <3> QED BY <3>5 DEF found
  <2>3. CASE Segment(path) \notin Hidden /\ ~(Segment(path) # "" /\ mounted # {}) /\ root # {}
    <3>1. found = To(The(root), path) BY <2>1, <2>3
    <3>2. The(root) \in proc[p].apps /\ The(root).mount = ""
      BY <2>3 DEF The, MountedAt
    <3>3. /\ found.status = 0 /\ found.code = The(root).code /\ found.path = path
      <4> HIDE DEF mounted, root, found
      <4> QED BY <3>1 DEF To
    <3>4. PICK app \in proc[p].apps : app = The(root) BY <3>2
    <3> HIDE DEF mounted, root
    <3> HIDE DEF found
    <3>5. found.status = 0 /\ LeadsTo(p, path, found, app)
      BY <1>3, <2>3, <3>2, <3>3, <3>4 DEF LeadsTo
    <3> QED BY <3>5 DEF found
  <2> HIDE DEF mounted, root
  <2> QED BY <2>1, <2>2, <2>3
<1> QED BY <1>2, <1>3

-----------------------------------------------------------------------------
(* The same request to the same application comes to the same, in the server *)
(* and in the process it is forwarded to.                                    *)

SameApp(app, other) == \A field \in EntryFields \ {"spawner"} : app[field] = other[field]
SameScope(scope, other) ==
  \A field \in ScopeFields \ {"auth", "session"} : scope[field] = other[field]

LEMMA SameAppIs ==
  ASSUME NEW app, NEW other, SameApp(app, other)
  PROVE  /\ app.routes = other.routes /\ app.raw = other.raw /\ app.invalid = other.invalid
         /\ app.mcp = other.mcp /\ app.code = other.code
BY DEF SameApp, EntryFields

LEMMA SameScopeIs ==
  ASSUME NEW scope, NEW other, SameScope(scope, other)
  PROVE  /\ scope.path = other.path /\ scope.method = other.method /\ scope.channel = other.channel
         /\ scope.kbus = other.kbus /\ scope.credential = other.credential
         /\ scope.query = other.query /\ scope.ctype = other.ctype /\ scope.body = other.body
         /\ scope.page = other.page /\ scope.origin = other.origin /\ scope.version = other.version
         /\ scope.torn = other.torn /\ scope.transport = other.transport
BY DEF SameScope, ScopeFields

LEMMA ReadAlike ==
  ASSUME NEW app, NEW other, SameApp(app, other), NEW scope, NEW sent, SameScope(scope, sent)
  PROVE  /\ InitFault(app, scope) = InitFault(other, sent)
         /\ \A route : Bound(app, route, scope) = Bound(other, route, sent)
         /\ RoutesOf(app, scope) = RoutesOf(other, sent)
         /\ \A route, avatar : Denied(route, scope, avatar) = Denied(route, sent, avatar)
         /\ Channel(scope) = Channel(sent)
<1>1. app.raw = other.raw /\ app.routes = other.routes BY SameAppIs
<1>2. /\ scope.path = sent.path /\ scope.method = sent.method /\ scope.channel = sent.channel
      /\ scope.kbus = sent.kbus /\ scope.query = sent.query /\ scope.ctype = sent.ctype
      /\ scope.body = sent.body /\ scope.torn = sent.torn
  BY SameScopeIs
<1>3. InitFault(app, scope) = InitFault(other, sent)
  BY <1>1, <1>2 DEF InitFault, BodyFault, Broken
<1>4. HandlerKwargs(app, scope) = HandlerKwargs(other, sent) BY <1>1, <1>2 DEF HandlerKwargs
<1>5. \A route : Bound(app, route, scope) = Bound(other, route, sent)
  BY <1>1, <1>2, <1>4 DEF Bound
<1>6. RoutesOf(app, scope) = RoutesOf(other, sent) BY <1>1, <1>2 DEF RoutesOf
<1>7. Channel(scope) = Channel(sent) BY <1>2 DEF Channel
<1>8. \A route, avatar : Denied(route, scope, avatar) = Denied(route, sent, avatar)
  BY <1>2, <1>7 DEF Denied, ByMethod
<1> QED BY <1>3, <1>5, <1>6, <1>7, <1>8

LEMMA ExecutedAlike ==
  ASSUME NEW q, NEW role, NEW app, NEW other, SameApp(app, other),
         DatabaseOf(q, app) = DatabaseOf(role, other),
         NEW scope, NEW sent, SameScope(scope, sent), Acting(q, scope) = Acting(role, sent)
  PROVE  Executed(q, app, scope) = Executed(role, other, sent)
<1>1. /\ InitFault(app, scope) = InitFault(other, sent)
      /\ RoutesOf(app, scope) = RoutesOf(other, sent)
      /\ \A route, avatar : Denied(route, scope, avatar) = Denied(route, sent, avatar)
  BY ReadAlike
<1>2. ASSUME NEW route, NEW avatar
      PROVE  Runs(q, app, route, scope, avatar) = Runs(role, other, route, sent, avatar)
  <2>1. /\ Bound(app, route, scope) = Bound(other, route, sent) /\ Channel(scope) = Channel(sent)
        /\ app.invalid = other.invalid
        /\ scope.path = sent.path /\ scope.method = sent.method /\ scope.page = sent.page
    BY ReadAlike, SameAppIs, SameScopeIs
  <2> QED BY <2>1 DEF Runs
<1> QED BY <1>1, <1>2 DEF Executed

LEMMA ToolAlike ==
  ASSUME NEW app, NEW other, SameApp(app, other),
         NEW scope, IsScope(scope), NEW sent, IsScope(sent), SameScope(scope, sent), NEW avatar
  PROVE  SameScope(ToolScope(app, scope, avatar), ToolScope(other, sent, avatar))
<1> DEFINE tool == ToolScope(app, scope, avatar)
           same == ToolScope(other, sent, avatar)
<1>1. /\ tool.path = same.path
      /\ tool.method = same.method /\ tool.query = same.query /\ tool.ctype = same.ctype
      /\ tool.body = same.body /\ tool.channel = same.channel /\ tool.kbus = same.kbus
      /\ tool.page = same.page /\ tool.credential = same.credential
  <2>1. app.mcp = other.mcp BY SameAppIs
  <2>2. /\ scope.channel = sent.channel /\ scope.kbus = sent.kbus /\ scope.page = sent.page
        /\ scope.credential = sent.credential /\ scope.body = sent.body
    BY SameScopeIs
  <2>3. tool.path = same.path
    <3>1. tool.path = app.mcp.root \o scope.body.tool BY ToolPath
    <3>2. same.path = other.mcp.root \o sent.body.tool BY ToolPath
    <3> HIDE DEF tool, same
    <3> QED BY <2>1, <2>2, <3>1, <3>2
  <2>4. /\ tool.method = "POST" /\ tool.query = <<>> /\ tool.ctype = "json"
        /\ tool.body = scope.body.arguments /\ tool.channel = scope.channel
        /\ tool.kbus = scope.kbus /\ tool.page = scope.page /\ tool.credential = scope.credential
    BY ToolScopeIs
  <2>5. /\ same.method = "POST" /\ same.query = <<>> /\ same.ctype = "json"
        /\ same.body = sent.body.arguments /\ same.channel = sent.channel
        /\ same.kbus = sent.kbus /\ same.page = sent.page /\ same.credential = sent.credential
    BY ToolScopeIs
  <2> HIDE DEF tool, same
  <2> QED BY <2>2, <2>3, <2>4, <2>5
<1>2. /\ tool.origin = same.origin /\ tool.version = same.version
      /\ tool.torn = same.torn /\ tool.transport = same.transport
  <2>1. /\ tool.origin = scope.origin /\ tool.version = scope.version
        /\ tool.torn = scope.torn /\ tool.transport = scope.transport
    BY DEF ToolScope, IsScope, ScopeFields
  <2>2. /\ same.origin = sent.origin /\ same.version = sent.version
        /\ same.torn = sent.torn /\ same.transport = sent.transport
    BY DEF ToolScope, IsScope, ScopeFields
  <2> HIDE DEF tool, same
  <2> QED BY <2>1, <2>2, SameScopeIs
<1> HIDE DEF tool, same
<1>3. SameScope(tool, same) BY <1>1, <1>2 DEF SameScope, ScopeFields
<1> QED BY <1>3 DEF tool, same

LEMMA DispatchedAlike ==
  ASSUME NEW q, NEW role, NEW app, NEW other, SameApp(app, other),
         DatabaseOf(q, app) = DatabaseOf(role, other),
         NEW scope, IsScope(scope), NEW sent, IsScope(sent), SameScope(scope, sent),
         Acting(q, scope) = Acting(role, sent)
  PROVE  Dispatched(q, app, scope, Acting(q, scope)) = Dispatched(role, other, sent, Acting(q, scope))
<1> DEFINE avatar == Acting(q, scope)
           tool == ToolScope(app, scope, avatar)
           same == ToolScope(other, sent, avatar)
<1>1. SameScope(tool, same) BY ToolAlike
<1>2. Executed(q, app, tool) = Executed(role, other, same)
  <2>1. Acting(q, tool) = avatar BY ToolActs
  <2>2. Acting(role, same) = avatar BY ToolActs
  <2> HIDE DEF tool, same
  <2> QED BY <1>1, <2>1, <2>2, ExecutedAlike
<1>3. /\ RoutesOf(app, tool) = RoutesOf(other, same)
      /\ \A route : Denied(route, tool, avatar) = Denied(route, same, avatar)
  <2> HIDE DEF tool, same
  <2> QED BY <1>1, ReadAlike
<1>4. Called(q, app, scope, avatar) = Called(role, other, sent, avatar)
  <2>1. {Denied(route, tool, avatar) : route \in RoutesOf(app, tool)}
          = {Denied(route, same, avatar) : route \in RoutesOf(other, same)}
    <3> HIDE DEF tool, same
    <3> QED BY <1>3
  <2>2. Called(q, app, scope, avatar) =
          LET denials == {Denied(route, tool, avatar) : route \in RoutesOf(app, tool)} \ {Fine} IN
          IF RoutesOf(app, tool) = {} \/ Raised(404) \in denials
            THEN NotRun(RpcError("METHOD_NOT_FOUND"))
          ELSE IF denials # {} THEN NotRun(RpcError("NOT_AUTHORIZED"))
          ELSE [Executed(q, app, tool) EXCEPT !.outcome = ToolAnswer(Executed(q, app, tool))]
    BY DEF Called
  <2>3. Called(role, other, sent, avatar) =
          LET denials == {Denied(route, same, avatar) : route \in RoutesOf(other, same)} \ {Fine} IN
          IF RoutesOf(other, same) = {} \/ Raised(404) \in denials
            THEN NotRun(RpcError("METHOD_NOT_FOUND"))
          ELSE IF denials # {} THEN NotRun(RpcError("NOT_AUTHORIZED"))
          ELSE [Executed(role, other, same) EXCEPT !.outcome = ToolAnswer(Executed(role, other, same))]
    BY DEF Called
  <2> HIDE DEF tool, same
  <2> QED BY <1>2, <1>3, <2>1, <2>2, <2>3
<1>5. app.raw = other.raw /\ app.mcp = other.mcp /\ app.routes = other.routes /\ scope.body = sent.body
  BY SameAppIs, SameScopeIs
<1>6. Listed(app, avatar) = Listed(other, avatar) BY <1>5 DEF Listed
<1> HIDE DEF avatar
<1> QED BY <1>4, <1>5, <1>6 DEF Dispatched, avatar

LEMMA PerformedAlike ==
  ASSUME NEW q, NEW role, q.config = role.config, NEW app, NEW other, SameApp(app, other),
         DatabaseOf(q, app) = DatabaseOf(role, other),
         NEW asked, IsScope(asked), NEW sent, IsScope(sent), SameScope(asked, sent),
         Acting(q, asked) = Acting(role, sent)
  PROVE  Performed(q, app, asked) = Performed(role, other, sent)
<1> DEFINE scope == [asked EXCEPT !.channel = "mcp"]
           same == [sent EXCEPT !.channel = "mcp"]
<1>1. /\ IsScope(scope) /\ scope.channel = "mcp"
      /\ \A field \in ScopeFields \ {"channel"} : scope[field] = asked[field]
  BY DEF IsScope, ScopeFields
<1>2. /\ IsScope(same) /\ same.channel = "mcp"
      /\ \A field \in ScopeFields \ {"channel"} : same[field] = sent[field]
  BY DEF IsScope, ScopeFields
<1>3. Handled(q, app, asked) = Handled(role, other, sent)
  <2> HIDE DEF scope, same
  <2>1. SameScope(scope, same) BY <1>1, <1>2 DEF SameScope, ScopeFields
  <2>2. Acting(q, scope) = Acting(q, asked)
    <3>1. scope.auth = asked.auth /\ scope.credential = asked.credential /\ scope.session = asked.session
      BY <1>1 DEF ScopeFields
    <3> QED BY <3>1 DEF Acting
  <2>3. Acting(role, same) = Acting(role, sent)
    <3>1. same.auth = sent.auth /\ same.credential = sent.credential /\ same.session = sent.session
      BY <1>2 DEF ScopeFields
    <3> QED BY <3>1 DEF Acting
  <2>4. Acting(q, scope) = Acting(role, same) BY <2>2, <2>3
  <2>5. InitFault(app, scope) = InitFault(other, same) BY <2>1, ReadAlike
  <2>6. Dispatched(q, app, scope, Acting(q, scope)) = Dispatched(role, other, same, Acting(q, scope))
    BY <1>1, <1>2, <2>1, <2>4, DispatchedAlike
  <2>7. /\ scope.origin = same.origin /\ scope.version = same.version /\ scope.method = same.method
        /\ scope.body = same.body /\ app.mcp = other.mcp /\ app.raw = other.raw
    BY <2>1, SameAppIs, SameScopeIs
  <2>8. Notifies(app, scope.body) <=> Notifies(other, same.body) BY <2>7 DEF Notifies
  <2>9. Handled(q, app, asked) =
          IF InitFault(app, scope) # Fine THEN NotRun(InitFault(app, scope))
          ELSE IF app.mcp.origins # None /\ scope.origin \notin app.mcp.origins \cup {None}
            THEN NotRun(Raised(403))
          ELSE IF scope.version = "unknown" THEN NotRun(Raised(400))
          ELSE IF Acting(q, scope) = Refused THEN NotRun(Challenged)
          ELSE IF scope.method = "GET" /\ Read(q.config, "tasks") # "off"
            THEN NotRun([kind |-> "stream"])
          ELSE IF scope.method # "POST" THEN NotRun(Raised(405))
          ELSE IF Notifies(app, scope.body) THEN NotRun([kind |-> "own", status |-> 202])
          ELSE Dispatched(q, app, scope, Acting(q, scope))
    BY DEF Handled, scope
  <2>10. Handled(role, other, sent) =
          IF InitFault(other, same) # Fine THEN NotRun(InitFault(other, same))
          ELSE IF other.mcp.origins # None /\ same.origin \notin other.mcp.origins \cup {None}
            THEN NotRun(Raised(403))
          ELSE IF same.version = "unknown" THEN NotRun(Raised(400))
          ELSE IF Acting(role, same) = Refused THEN NotRun(Challenged)
          ELSE IF same.method = "GET" /\ Read(role.config, "tasks") # "off"
            THEN NotRun([kind |-> "stream"])
          ELSE IF same.method # "POST" THEN NotRun(Raised(405))
          ELSE IF Notifies(other, same.body) THEN NotRun([kind |-> "own", status |-> 202])
          ELSE Dispatched(role, other, same, Acting(role, same))
    BY DEF Handled, same
  <2> QED BY <2>4, <2>5, <2>6, <2>7, <2>8, <2>9, <2>10
<1>4. Executed(q, app, asked) = Executed(role, other, sent) BY ExecutedAlike
<1>5. Speaks(app, asked.path) <=> Speaks(other, sent.path) BY SameAppIs, SameScopeIs DEF Speaks
<1>6. Answering(q, app, asked) = Answering(role, other, sent) BY <1>3, <1>4, <1>5 DEF Answering
<1>7. \A outcome : Encoded(asked, outcome) = Encoded(sent, outcome) BY SameScopeIs DEF Encoded
<1>8. /\ Performed(q, app, asked)
           = [Answering(q, app, asked) EXCEPT !.outcome = Encoded(asked, Answering(q, app, asked).outcome)]
      /\ Performed(role, other, sent)
           = [Answering(role, other, sent) EXCEPT !.outcome = Encoded(sent, Answering(role, other, sent).outcome)]
  BY DEF Performed, Answering
<1> QED BY <1>6, <1>7, <1>8

-----------------------------------------------------------------------------
(* What crosses to the process of an application, and back. *)

\* The scope of a request that its process routed.
There(app, scope, path) == [Forwarded(app, scope) EXCEPT !.path = path]

LEMMA ForwardedIs ==
  ASSUME NEW app, NEW scope, IsScope(scope)
  PROVE  /\ IsScope(Forwarded(app, scope))
         /\ Forwarded(app, scope).path = Front(app.mount, scope.path)
         /\ Forwarded(app, scope).auth = Trusted(scope) /\ Forwarded(app, scope).session = None
         /\ \A field \in ScopeFields \ {"path", "auth", "session"} :
              Forwarded(app, scope)[field] = scope[field]
<1> DEFINE sent == Forwarded(app, scope)
           front == Front(app.mount, scope.path)
           trusted == Trusted(scope)
           fronted == [scope EXCEPT !.path = front]
           record == Limited(fronted, RequestFields)
           meta == [auth |-> trusted, channel |-> scope.channel, kbus |-> scope.kbus,
                    page |-> scope.page]
           none == Single("session", None)
           both == Merged(record, meta)
<1>1. sent = Merged(both, none)
  BY DEF Forwarded, Received, Recorded, Meta
<1>2. /\ DOMAIN fronted = ScopeFields /\ fronted.path = front
      /\ \A field \in ScopeFields \ {"path"} : fronted[field] = scope[field]
  <2> HIDE DEF front
  <2> QED BY DEF IsScope, ScopeFields
<1> HIDE DEF fronted
<1>3. /\ DOMAIN record = RequestFields /\ record.path = front
      /\ \A field \in RequestFields \ {"path"} : record[field] = scope[field]
  <2> HIDE DEF front
  <2> QED BY <1>2 DEF Limited, RequestFields, ScopeFields
<1> HIDE DEF record
<1>4. /\ DOMAIN meta = {"auth", "channel", "kbus", "page"} /\ meta.auth = trusted
      /\ meta.channel = scope.channel /\ meta.kbus = scope.kbus /\ meta.page = scope.page
  <2> HIDE DEF trusted
  <2> QED OBVIOUS
<1> HIDE DEF meta
<1>5. /\ DOMAIN both = ScopeFields \ {"session"} /\ both.path = front /\ both.auth = trusted
      /\ \A field \in ScopeFields \ {"path", "auth", "session"} : both[field] = scope[field]
  <2> HIDE DEF front, trusted
  <2> QED BY <1>3, <1>4 DEF Merged, RequestFields, ScopeFields
<1> HIDE DEF both
<1>6. DOMAIN none = {"session"} /\ none.session = None BY DEF Single
<1> HIDE DEF none
<1>7. /\ DOMAIN sent = ScopeFields /\ sent.path = front /\ sent.auth = trusted /\ sent.session = None
      /\ \A field \in ScopeFields \ {"path", "auth", "session"} : sent[field] = scope[field]
      /\ sent = [field \in ScopeFields |-> sent[field]]
  <2>1. sent = [field \in ScopeFields |->
                  IF field = "session" THEN none[field] ELSE both[field]]
    BY <1>1, <1>5, <1>6 DEF Merged, ScopeFields
  <2> HIDE DEF front, trusted, sent
  <2> QED BY <1>5, <1>6, <2>1 DEF ScopeFields
<1> HIDE DEF sent
<1>8. IsScope(sent) BY <1>7 DEF IsScope
<1> QED BY <1>7, <1>8 DEF sent

LEMMA ThereIs ==
  ASSUME NEW app, NEW scope, IsScope(scope), NEW path
  PROVE  /\ IsScope(There(app, scope, path)) /\ There(app, scope, path).path = path
         /\ There(app, scope, path).auth = Trusted(scope) /\ There(app, scope, path).session = None
         /\ There(app, scope, path).body = scope.body
         /\ There(app, scope, path).credential = scope.credential
         /\ There(app, scope, path).method = scope.method
         /\ There(app, scope, path).torn = scope.torn
         /\ There(app, scope, path).transport = scope.transport
         /\ path = scope.path => SameScope(scope, There(app, scope, path))
<1> DEFINE sent == Forwarded(app, scope)
           there == There(app, scope, path)
<1>1. /\ IsScope(sent) /\ sent.auth = Trusted(scope) /\ sent.session = None
      /\ \A field \in ScopeFields \ {"path", "auth", "session"} : sent[field] = scope[field]
  BY ForwardedIs
<1>2. there = [sent EXCEPT !.path = path] BY DEF There
<1> HIDE DEF sent, there
<1>3. /\ IsScope(there) /\ there.path = path /\ there.auth = Trusted(scope) /\ there.session = None
      /\ \A field \in ScopeFields \ {"path", "auth", "session"} : there[field] = scope[field]
  BY <1>1, <1>2 DEF IsScope, ScopeFields
<1>4. /\ there.body = scope.body /\ there.credential = scope.credential /\ there.method = scope.method
      /\ there.torn = scope.torn /\ there.transport = scope.transport
  BY <1>3 DEF ScopeFields
<1>5. path = scope.path => SameScope(scope, there) BY <1>3 DEF SameScope, ScopeFields
<1> QED BY <1>3, <1>4, <1>5 DEF there

\* The process acts for who the server would have.
LEMMA SentActs ==
  ASSUME NEW q, NEW scope, NEW sent, sent.auth = Trusted(scope), sent.session = None,
         sent.credential = scope.credential
  PROVE  Acting(q, sent) = Acting(q, scope)
BY DEF Acting, Trusted

\* An answer is the same whether its exception was one of the process or not.
LEMMA ReturnedAnswers ==
  ASSUME NEW r, NEW scope, NEW outcome,
         outcome.kind = "stream" /\ scope.method = "WSK" => r.face # "http"
  PROVE  /\ AnswerTo(r, Returned(scope, outcome)) = AnswerTo(r, outcome)
         /\ outcome.kind = "rpc" => Returned(scope, outcome) = outcome
<1> DEFINE back == Returned(scope, outcome)
<1>1. CASE outcome.kind = "stream" /\ scope.method = "WSK"
  <2>1. back = RaisedFailure(FailureMessage(Crash)) BY <1>1 DEF Returned
  <2>2. "status" \notin DOMAIN FailureMessage(Crash) BY DEF FailureMessage, Crash
  <2>3. back.kind = "crash" BY <2>1, <2>2 DEF RaisedFailure, Crash
  <2> HIDE DEF back
  <2>4. AnswerTo(r, back) = Bare(500) BY <1>1, <2>3 DEF AnswerTo, MessageAnswer
  <2>5. AnswerTo(r, outcome) = Bare(500) BY <1>1 DEF AnswerTo, MessageAnswer
  <2> QED BY <1>1, <2>4, <2>5 DEF back
<1>2. CASE outcome.kind = "crash"
  <2>1. back = RaisedFailure(FailureMessage(outcome)) BY <1>2 DEF Returned
  <2>2. "status" \notin DOMAIN FailureMessage(outcome) BY <1>2 DEF FailureMessage
  <2>3. back.kind = "crash" BY <2>1, <2>2 DEF RaisedFailure, Crash
  <2> HIDE DEF back
  <2>4. AnswerTo(r, back) = Bare(500) BY <2>3 DEF AnswerTo, MessageAnswer, HttpAnswer
  <2>5. AnswerTo(r, outcome) = Bare(500) BY <1>2 DEF AnswerTo, MessageAnswer, HttpAnswer
  <2> QED BY <1>2, <2>4, <2>5 DEF back
<1>3. CASE outcome.kind = "raised"
  <2>1. back = RaisedFailure(FailureMessage(outcome)) BY <1>3 DEF Returned
  <2> DEFINE message == [status |-> outcome.status, challenge |-> outcome.challenge,
                         location |-> outcome.location]
  <2>2. FailureMessage(outcome) = message BY <1>3 DEF FailureMessage
  <2>3. back.kind = "raised" /\ back.status = outcome.status /\ back.location = outcome.location
        /\ back.challenge = outcome.challenge
    BY <2>1, <2>2 DEF RaisedFailure
  <2> HIDE DEF back
  <2>4. AnswerTo(r, back) = AnswerTo(r, outcome)
    BY <1>3, <2>3 DEF AnswerTo, MessageAnswer, HttpAnswer
  <2> QED BY <1>3, <2>4 DEF back
<1>4. CASE /\ ~(outcome.kind = "stream" /\ scope.method = "WSK")
           /\ outcome.kind \notin {"crash", "raised"}
  <2>1. back = outcome BY <1>4 DEF Returned
  <2> QED BY <2>1
<1> QED BY <1>1, <1>2, <1>3, <1>4

LEMMA DecoratedStatus ==
  ASSUME NEW r, NEW status, NEW location PROVE Decorated(r, status, location).status = status
BY DEF Decorated, Answer

LEMMA OwnStatus == ASSUME NEW r, NEW status PROVE OwnAnswer(r, status).status = status
BY DecoratedStatus DEF OwnAnswer, Bare, Answer

\* When an answer is a 500.
LEMMA AnswerStatus ==
  ASSUME NEW r, NEW outcome, AnswerTo(r, outcome).status = 500
  PROVE  \/ outcome.kind = "crash"
         \/ outcome.kind = "stream" /\ r.face # "http"
         \/ outcome.kind \in {"raised", "own"} /\ outcome.status = 500
<1>1. CASE r.face = "http"
  <2>1. HttpAnswer(r, outcome).status = 500 BY <1>1 DEF AnswerTo
  <2>2. CASE outcome.kind = "own"
    <3>1. HttpAnswer(r, outcome) = Decorated(r, outcome.status, None) BY <2>2 DEF HttpAnswer
    <3> QED BY <2>1, <2>2, <3>1, DecoratedStatus
  <2>3. CASE outcome.kind = "raised" BY <2>1, <2>3 DEF HttpAnswer, Answer
  <2>4. CASE outcome.kind \notin {"crash", "raised", "own"}
    <3>1. HttpAnswer(r, outcome) = Decorated(r, 200, None) BY <2>4 DEF HttpAnswer
    <3> QED BY <2>1, <3>1, DecoratedStatus
  <2>5. CASE outcome.kind = "crash" BY <2>5
  <2> QED BY <2>2, <2>3, <2>4, <2>5
<1>2. CASE r.face # "http"
  <2>1. MessageAnswer(outcome).status = 500 BY <1>2 DEF AnswerTo
  <2> QED BY <1>2, <2>1 DEF MessageAnswer, Bare, Answer
<1> QED BY <1>1, <1>2

\* A GET comes by HTTP alone.
MayStream(scope, r) == scope.method = "GET" => r.face = "http"

\* What a 500 may come of.
Excused(done, r) ==
  LET ran == done.how = "ran" IN
  \/ ran /\ done.route.does \in {"crash", "misfit"}
  \/ /\ ran /\ done.route.does = "stream"
     /\ r.face = "http" => r.method = "WSK"
  \/ ~ran /\ r.torn /\ r.face # "kbus"
  \/ /\ r.face = "http" /\ r.transport = "unknown"
     /\ ran => done.route.does = "data" \/ done.view.channel = "mcp"

LEMMA UnrunAnswers ==
  ASSUME NEW scope, NEW done, Unrun(done, scope), NEW r, MayStream(scope, r),
         AnswerTo(r, done.outcome).status = 500
  PROVE  done.how # "ran" /\ (scope.torn \/ scope.transport = "unknown")
<1>1. PICK outcome : /\ done = NotRun(outcome)
                     /\ \/ IsStop(outcome, scope) \/ outcome.kind = "rpc"
                        \/ outcome.kind = "own" /\ outcome.status = 202
                        \/ outcome.kind = "stream" /\ scope.method = "GET"
                        \/ outcome = Crash /\ scope.transport = "unknown"
  BY DEF Unrun
<1>2. done.outcome = outcome /\ done.how = "unrun" BY <1>1, UnrunOutcome
<1> QED BY <1>1, <1>2, AnswerStatus DEF IsStop, IsRefusal, MayStream

LEMMA PermittedAnswers ==
  ASSUME NEW r, NEW q, NEW app, IsEntry(app), NEW scope, NEW done, Permitted(done, q, app, scope),
         AnswerTo(r, done.outcome).status = 500
  PROVE  /\ done.how = "ran"
         /\ \/ done.route.does \in {"crash", "misfit"}
            \/ done.route.does = "stream" /\ done.outcome.kind = "stream" /\ r.face # "http"
            \/ /\ scope.transport = "unknown"
               /\ done.route.does = "data" \/ done.view.channel = "mcp"
<1>1. PICK route, view, outcome :
        /\ done = Ran(route, view, outcome) /\ Allowed(route, view, q, app, scope)
        /\ \/ outcome = Outcome(route) \/ outcome.kind = "rpc"
           \/ /\ outcome = Crash /\ scope.transport = "unknown"
              /\ route.does = "data" \/ view.channel = "mcp"
  BY DEF Permitted
<1>2. /\ done.outcome = outcome /\ done.route = route /\ done.view = view /\ done.how = "ran"
  BY <1>1, RanOutcome
<1>3. route.does \in Doings BY <1>1 DEF IsEntry, Allowed
<1> QED BY <1>1, <1>2, <1>3, AnswerStatus, OutcomeIs

-----------------------------------------------------------------------------
(* A path that is forwarded leads where it was routed. *)

LEMMA OneIs ==
  ASSUME NEW S, NEW head \in S
  PROVE  <<head>> \in Seq(S) /\ Len(<<head>>) = 1 /\ <<head>>[1] = head
OBVIOUS

LEMMA ConsIs ==
  ASSUME NEW S, NEW head \in S, NEW tail \in Seq(S)
  PROVE  /\ <<head>> \o tail \in Seq(S) /\ Len(<<head>> \o tail) = 1 + Len(tail)
         /\ (<<head>> \o tail)[1] = head
         /\ \A i \in 1 .. Len(tail) : (<<head>> \o tail)[i + 1] = tail[i]
<1> DEFINE one == <<head>>
<1>1. one \in Seq(S) /\ Len(one) = 1 /\ one[1] = head BY OneIs
<1> HIDE DEF one
<1>2. Len(tail) \in Nat OBVIOUS
<1>3. /\ one \o tail \in Seq(S) /\ Len(one \o tail) = Len(one) + Len(tail)
      /\ \A i \in 1 .. Len(one) + Len(tail) :
           (one \o tail)[i] = IF i <= Len(one) THEN one[i] ELSE tail[i - Len(one)]
  BY <1>1, ConcatProperties
<1>4. (one \o tail)[1] = head BY <1>1, <1>2, <1>3
<1>5. ASSUME NEW i \in 1 .. Len(tail) PROVE (one \o tail)[i + 1] = tail[i]
  <2>1. i + 1 \in 1 .. 1 + Len(tail) /\ ~(i + 1 <= 1) /\ i + 1 - 1 = i BY <1>2
  <2> HIDE DEF one
  <2> QED BY <1>1, <1>3, <2>1
<1> QED BY <1>1, <1>3, <1>4, <1>5 DEF one

LEMMA HeadOnTail ==
  ASSUME NEW S, NEW s \in Seq(S), s # <<>>
  PROVE  Tail(s) \in Seq(S) /\ <<Head(s)>> \o Tail(s) = s
<1> DEFINE t == Tail(s)
           c == <<Head(s)>> \o t
<1>1. /\ Head(s) \in S /\ t \in Seq(S) /\ Len(t) = Len(s) - 1
      /\ \A i \in 1 .. Len(t) : t[i] = s[i + 1]
  BY HeadTailProperties
<1>2. Len(s) \in Nat /\ Len(s) # 0 /\ Head(s) = s[1] BY EmptySeq
<1>3. /\ c \in Seq(S) /\ Len(c) = 1 + Len(t) /\ c[1] = Head(s)
      /\ \A i \in 1 .. Len(t) : c[i + 1] = t[i]
  BY <1>1, ConsIs
<1> HIDE DEF t, c
<1>4. ASSUME NEW i \in 1 .. Len(s) PROVE c[i] = s[i]
  <2>1. CASE i = 1 BY <1>2, <1>3, <2>1
  <2>2. CASE i # 1
    <3> DEFINE j == i - 1
    <3>1. j \in 1 .. Len(t) /\ j + 1 = i BY <1>1, <1>2, <2>2
    <3> HIDE DEF j
    <3> QED BY <1>1, <1>3, <3>1
  <2> QED BY <2>1, <2>2
<1>5. Len(c) = Len(s) BY <1>1, <1>2, <1>3
<1>6. c = s BY <1>3, <1>4, <1>5, SeqEqual
<1> QED BY <1>1, <1>6 DEF c, t

LEMMA TailOfCons ==
  ASSUME NEW S, NEW head \in S, NEW tail \in Seq(S)
  PROVE  /\ <<head>> \o tail # <<>>
         /\ Head(<<head>> \o tail) = head /\ Tail(<<head>> \o tail) = tail
<1> DEFINE c == <<head>> \o tail
<1>1. /\ c \in Seq(S) /\ Len(c) = 1 + Len(tail) /\ c[1] = head
      /\ \A i \in 1 .. Len(tail) : c[i + 1] = tail[i]
  BY ConsIs
<1> HIDE DEF c
<1>2. Len(tail) \in Nat OBVIOUS
<1>3. c # <<>> BY <1>1, <1>2
<1>4. Head(c) = head BY <1>1, <1>3
<1>5. /\ Tail(c) \in Seq(S) /\ Len(Tail(c)) = Len(c) - 1
      /\ \A i \in 1 .. Len(Tail(c)) : Tail(c)[i] = c[i + 1]
  BY <1>1, <1>3, HeadTailProperties
<1>6. Len(Tail(c)) = Len(tail) BY <1>1, <1>2, <1>5
<1>7. \A i \in 1 .. Len(tail) : Tail(c)[i] = tail[i] BY <1>1, <1>5, <1>6
<1>8. Tail(c) = tail BY <1>5, <1>6, <1>7, SeqEqual
<1> QED BY <1>3, <1>4, <1>8 DEF c

LEMMA WiderIs == ASSUME NEW S, NEW T, S \subseteq T, NEW s \in Seq(S) PROVE s \in Seq(T)
OBVIOUS

\* What a mount takes off a path is put back in front of it.
LEMMA FrontOfTail ==
  ASSUME NEW path \in Seq(STRING), Segment(path) # ""
  PROVE  Tail(path) \in Seq(STRING) /\ Front(Segment(path), Tail(path)) = path
<1>1. path # <<>> /\ Segment(path) = Head(path) BY DEF Segment
<1>2. Tail(path) \in Seq(STRING) /\ <<Head(path)>> \o Tail(path) = path BY <1>1, HeadOnTail
<1> QED BY <1>1, <1>2 DEF Front

LEMMA TailOfFront ==
  ASSUME NEW mount, mount # "", NEW path \in Seq(STRING)
  PROVE  Segment(Front(mount, path)) = mount /\ Tail(Front(mount, path)) = path
<1> DEFINE S == STRING \cup {mount}
<1>1. Front(mount, path) = <<mount>> \o path BY DEF Front
<1>2. path \in Seq(S)
  <2>1. STRING \subseteq S OBVIOUS
  <2> HIDE DEF S
  <2> QED BY <2>1, WiderIs
<1>3. mount \in S OBVIOUS
<1> HIDE DEF S
<1>4. /\ <<mount>> \o path # <<>>
      /\ Head(<<mount>> \o path) = mount /\ Tail(<<mount>> \o path) = path
  BY <1>2, <1>3, TailOfCons
<1> QED BY <1>1, <1>4 DEF Segment

\* What the server routes to an application that is elsewhere is a path.
Reached(app, path) == app.spawner => path \in Seq(STRING)

LEMMA RoutedIsReached ==
  ASSUME CompositionInv, PathsLead, NEW p \in Processes, proc[p].stage = "serving",
         NEW path \in Seq(STRING), Demux(p, path).status = 0
  PROVE  \E app \in proc[p].apps : /\ app.code = Demux(p, path).code
                                   /\ Reached(app, Demux(p, path).path)
<1> DEFINE found == Demux(p, path)
<1>1. found # Answered(404) /\ found # Answered(307) BY DEF Answered
<1>2. PICK app \in proc[p].apps : LeadsTo(p, path, found, app) BY <1>1, DemuxIs
<1> HIDE DEF found
<1>3. Standing(proc[p], p) BY DEF CompositionInv, ProcHolds
<1>4. ASSUME app.spawner PROVE found.path \in Seq(STRING)
  <2>1. p = Server BY <1>3, <1>4, EntriesHave
  <2>2. proc[Server].config \in Configs /\ PathsLead BY <2>1, ServerStands
  <2>3. CASE path \in WellKnown
    <3>1. PICK index \in {proc[Server].declared, proc[Server].defaults} :
            Owner(index, path) = app.code /\ found.path = index[path].route
      BY <1>2, <2>1, <2>3 DEF LeadsTo
    <3>2. app.code # None BY <1>3, <2>1, EntriesHave, NamesAssumption DEF IsEntry
    <3>3. Names(index) BY <2>2, <3>1 DEF PathsLead
    <3>4. \E other \in Written \cup {Management} : index[path].route \in Offered(other)
      BY <2>3, <3>1, <3>2, <3>3 DEF Names
    <3> QED BY <3>1, <3>4, RoutesAssumption DEF Written
  <2>4. CASE path \notin WellKnown BY <1>2, <2>4, FrontOfTail DEF LeadsTo
  <2> QED BY <2>3, <2>4
<1> QED BY <1>2, <1>4 DEF Reached, LeadsTo, found

LEMMA DemuxThere ==
  ASSUME CompositionInv, NEW code \in joined, NEW app \in proc[code].apps,
         NEW mount, app = Hosted(mount), IsEntry(mount), NEW path \in Seq(STRING), Crosses(mount, path)
  PROVE  LET found == Demux(code, Front(mount.mount, path)) IN
         found.status = 0 /\ found.code = code /\ found.path = path
<1> DEFINE sent == Front(mount.mount, path)
           found == Demux(code, sent)
<1>1. code \in Codes /\ code \in Processes /\ proc[code].stage = "serving"
  BY DEF CompositionInv, JoinedHold, Processes
<1>2. proc[code].apps = {app} /\ app.code = code BY <1>1, RolePresents
<1>3. app.mount = mount.mount /\ app.declared = mount.declared /\ ~app.spawner
  BY HostedIs DEF EntryFields
<1>4. CASE sent \in WellKnown
  <2>1. sent \in DOMAIN app.declared /\ app.declared[sent] = path BY <1>3, <1>4 DEF Crosses
  <2>2. Held(proc[code].declared, code, app.declared)
    BY <1>1, <1>2, <1>3 DEF CompositionInv, ProcHolds, Standing, LocalsHold
  <2>3. proc[code].declared[sent] = [code |-> code, route |-> path]
        /\ Owner(proc[code].declared, sent) = code
    BY <1>4, <2>1, <2>2 DEF Held
  <2>4. code # None BY <1>1, NamesAssumption
  <2>5. Holder(code, sent) = [code |-> code, route |-> path] BY <2>3, <2>4 DEF Holder
  <2>6. found = [code |-> code, path |-> path, status |-> 0]
    <3>1. [code |-> code, route |-> path] # NoHolder BY <2>4 DEF NoHolder
    <3> HIDE DEF sent
    <3> QED BY <1>4, <2>5, <3>1 DEF Demux, DemuxWellKnown
  <2> HIDE DEF found, sent
  <2>7. found.status = 0 /\ found.code = code /\ found.path = path BY <2>6
  <2> QED BY <2>7 DEF found, sent
<1>5. CASE sent \notin WellKnown
  <2>1. Segment(sent) \notin Hidden BY <1>5 DEF Crosses
  <2>2. MountedAt(code, mount.mount) = {app} BY <1>2, <1>3 DEF MountedAt
  <2>3. The({app}) = app BY DEF The
  <2>4. found = To(app, path)
    <3>1. CASE mount.mount = ""
      <4>1. sent = path BY <3>1 DEF Front
      <4>2. \A segment : segment # "" => MountedAt(code, segment) = {}
        BY <1>2, <1>3, <3>1 DEF MountedAt
      <4> QED BY <1>5, <2>1, <2>2, <2>3, <3>1, <4>1, <4>2 DEF Demux
    <3>2. CASE mount.mount # ""
      <4>1. Segment(sent) = mount.mount /\ Tail(sent) = path BY <3>2, TailOfFront
      <4> HIDE DEF sent
      <4> QED BY <1>5, <2>1, <2>2, <2>3, <3>2, <4>1 DEF Demux
    <3> QED BY <3>1, <3>2
  <2> HIDE DEF found, sent
  <2>5. found.status = 0 /\ found.code = code /\ found.path = path BY <1>2, <2>4 DEF To
  <2> QED BY <2>5 DEF found, sent
<1> QED BY <1>4, <1>5

-----------------------------------------------------------------------------
(* A request under way: asked of a server that serves, and where it is. *)

ReqFields == {"at", "r", "scope", "p", "target", "done", "built", "answer"}
IsReq(request) == request = [field \in ReqFields |-> request[field]]

Asked ==
  /\ IsReq(req) /\ req.at \in {"arrived", "routed", "forwarded", "answered"}
  /\ req.r \in Requests /\ req.p \in Processes /\ req.target \in Codes \cup {None}
  /\ IsScope(req.scope) /\ OfFace(req.scope, req.r)
  /\ proc[Server].stage = "serving"

\* Where it is, a process runs; where it was routed, an application is that its
\* path leads to; and what is forwarded goes to a process that is joined.
UnderWay ==
  /\ req.done = Undone /\ req.p \in joined \cup {Server}
  /\ req.at = "arrived" => req.scope.path = req.r.path
  /\ req.at # "arrived" =>
       \E app \in proc[req.p].apps :
         /\ app.code = req.target /\ Reached(app, req.scope.path)
         /\ req.at = "forwarded" => app.spawner
  /\ req.at = "forwarded" => req.p = Server /\ req.target \in joined

RequestInv == req = Idle \/ (Asked /\ (req.at # "answered" => UnderWay))

LEMMA AtIs ==
  ASSUME RequestInv, req.at # "idle"
  PROVE  req # Idle /\ Asked /\ (req.at # "answered" => UnderWay)
BY DEF RequestInv, Idle

\* A process where a request is serves.
LEMMA WhereItIs ==
  ASSUME CompositionInv, Asked, UnderWay
  PROVE  proc[req.p].stage = "serving" /\ Standing(proc[req.p], req.p)
<1>1. proc[req.p].stage = "serving" BY DEF Asked, UnderWay, CompositionInv, JoinedHold
<1>2. req.p \in Processes BY DEF Asked
<1> QED BY <1>1, <1>2 DEF CompositionInv, ProcHolds

LEMMA AppOfIs ==
  ASSUME CompositionInv, NEW p \in Processes, proc[p].stage = "serving", NEW app \in proc[p].apps
  PROVE  AppOf(p, app.code) = app /\ IsEntry(app)
<1>1. Standing(proc[p], p) BY DEF CompositionInv, ProcHolds
<1>2. IsEntry(app) /\ \A other \in proc[p].apps : other.code = app.code => other = app
  BY <1>1, EntriesHave
<1>3. {other \in proc[p].apps : other.code = app.code} = {app} BY <1>2
<1> QED BY <1>2, <1>3 DEF AppOf, The

LEMMA ArrivesHolds ==
  ASSUME CompositionInv, NEW r \in Requests, Arrives(r) PROVE RequestInv'
<1> DEFINE scope == ScopeOf(r)
<1>1. /\ IsScope(scope) /\ OfFace(scope, r) /\ scope.path = r.path BY ScopeOfFits
<1>2. /\ req' = [at |-> "arrived", r |-> r, scope |-> scope, p |-> r.from, target |-> None,
                 done |-> Undone, built |-> None, answer |-> None]
      /\ UNCHANGED <<proc, joined>>
      /\ proc[Server].stage = "serving" /\ r.from \in joined \cup {Server}
  BY DEF Arrives, Steps, vars, CanArrive
<1>3. r.from \in Processes BY RequestsAssumption
<1> HIDE DEF scope
<1>4. /\ IsReq(req') /\ req'.at = "arrived" /\ req'.r = r /\ req'.scope = scope /\ req'.p = r.from
      /\ req'.target = None /\ req'.done = Undone
  BY <1>2 DEF IsReq, ReqFields
<1>5. Asked' BY <1>1, <1>2, <1>3, <1>4 DEF Asked
<1>6. UnderWay' BY <1>1, <1>2, <1>4 DEF UnderWay
<1> QED BY <1>5, <1>6 DEF RequestInv

LEMMA GoesToParentHolds ==
  ASSUME RequestInv, GoesToParent PROVE RequestInv'
<1>1. /\ req.at = "arrived" /\ req' = [req EXCEPT !.p = Server] /\ UNCHANGED <<proc, joined>>
  BY DEF GoesToParent, Steps, vars
<1>2. Asked /\ UnderWay BY <1>1, AtIs
<1>3. /\ IsReq(req') /\ req'.p = Server
      /\ \A field \in ReqFields \ {"p"} : req'[field] = req[field]
  BY <1>1, <1>2 DEF Asked, IsReq, ReqFields
<1>4. /\ req'.at = "arrived" /\ req'.r = req.r /\ req'.scope = req.scope /\ req'.target = req.target
      /\ req'.done = req.done
  BY <1>1, <1>3 DEF ReqFields
<1>5. Asked' BY <1>1, <1>2, <1>3, <1>4 DEF Asked, Processes
<1>6. UnderWay' BY <1>1, <1>2, <1>3, <1>4 DEF UnderWay
<1> QED BY <1>5, <1>6 DEF RequestInv

\* An answer ends it, wherever it is.
LEMMA AnswersHold ==
  ASSUME RequestInv, req.at # "idle", NEW answer, req' = [req EXCEPT !.at = "answered", !.answer = answer],
         proc'[Server].stage = "serving"
  PROVE  RequestInv' /\ req'.at = "answered" /\ req'.done = req.done /\ req'.answer = answer
<1>1. Asked BY AtIs
<1>2. /\ IsReq(req') /\ req'.at = "answered" /\ req'.answer = answer /\ req'.r = req.r
      /\ req'.scope = req.scope /\ req'.p = req.p /\ req'.target = req.target /\ req'.done = req.done
  BY <1>1 DEF Asked, IsReq, ReqFields
<1>3. Asked' BY <1>1, <1>2 DEF Asked
<1> QED BY <1>2, <1>3 DEF RequestInv

LEMMA DemuxesHolds ==
  ASSUME CompositionInv, PathsLead, RequestInv, Demuxes PROVE RequestInv'
<1> DEFINE found == Demux(req.p, req.scope.path)
<1>1. req.at = "arrived" /\ UNCHANGED <<proc, joined>> BY DEF Demuxes, Answers, Steps, vars
<1>2. Asked /\ UnderWay BY <1>1, AtIs
<1>3. CASE found.status # 0
  <2>1. PICK answer : req' = [req EXCEPT !.at = "answered", !.answer = answer]
    BY <1>3 DEF Demuxes, Answers, Steps
  <2>2. proc'[Server].stage = "serving" BY <1>1, <1>2 DEF Asked
  <2> QED BY <1>1, <2>1, <2>2, AnswersHold
<1>4. CASE found.status = 0
  <2>1. req' = [req EXCEPT !.at = "routed", !.target = found.code, !.scope.path = found.path]
    BY <1>4 DEF Demuxes, Steps
  <2>2. req.scope.path \in Seq(STRING) BY <1>1, <1>2, RequestsAssumption DEF Asked, UnderWay
  <2>3. proc[req.p].stage = "serving" /\ req.p \in Processes BY <1>2, WhereItIs DEF Asked
  <2>4. PICK app \in proc[req.p].apps : app.code = found.code /\ Reached(app, found.path)
    BY <1>4, <2>2, <2>3, RoutedIsReached
  <2>5. app.code \in Codes BY <2>3, AppOfIs DEF IsEntry
  <2> HIDE DEF found
  <2> DEFINE scope == [req.scope EXCEPT !.path = found.path]
  <2>6. IsScope(scope) /\ scope.path = found.path /\ OfFace(scope, req.r)
    BY <1>2 DEF Asked, IsScope, ScopeFields, OfFace
  <2>7. req' = [[[req EXCEPT !.at = "routed"] EXCEPT !.target = found.code] EXCEPT !.scope = scope]
    BY <1>2, <2>1 DEF Asked, IsReq, ReqFields
  <2> HIDE DEF scope
  <2>8. /\ IsReq(req') /\ req'.at = "routed" /\ req'.target = found.code /\ req'.scope = scope
        /\ req'.r = req.r /\ req'.p = req.p /\ req'.done = req.done
    BY <1>2, <2>7 DEF Asked, IsReq, ReqFields
  <2>9. Asked' BY <1>1, <1>2, <2>4, <2>5, <2>6, <2>8 DEF Asked
  <2>10. UnderWay' BY <1>1, <1>2, <2>4, <2>6, <2>8 DEF UnderWay
  <2> QED BY <2>9, <2>10 DEF RequestInv
<1> QED BY <1>3, <1>4

LEMMA ForwardsHolds ==
  ASSUME CompositionInv, RequestInv, Forwards PROVE RequestInv'
<1>1. /\ req.at = "routed" /\ UNCHANGED <<proc, joined>> /\ AppOf(req.p, req.target).spawner
  BY DEF Forwards, Answers, Steps, vars
<1>2. Asked /\ UnderWay BY <1>1, AtIs
<1>3. CASE req.target \in joined
  <2>1. req' = [req EXCEPT !.at = "forwarded"] BY <1>3 DEF Forwards, Steps
  <2>2. /\ IsReq(req') /\ req'.at = "forwarded" /\ req'.r = req.r /\ req'.scope = req.scope
        /\ req'.p = req.p /\ req'.target = req.target /\ req'.done = req.done
    BY <1>2, <2>1 DEF Asked, IsReq, ReqFields
  <2>3. PICK app \in proc[req.p].apps : app.code = req.target /\ Reached(app, req.scope.path)
    BY <1>1, <1>2 DEF UnderWay
  <2>4. app.spawner
    <3>1. AppOf(req.p, req.target) = app BY <1>2, <2>3, AppOfIs, WhereItIs DEF Asked
    <3> QED BY <1>1, <3>1
  <2>5. req.p = Server BY <1>2, <2>3, <2>4, WhereItIs, EntriesHave DEF Asked
  <2>6. Asked' BY <1>1, <1>2, <2>2 DEF Asked
  <2>7. UnderWay' BY <1>1, <1>2, <1>3, <2>2, <2>3, <2>4, <2>5 DEF UnderWay
  <2> QED BY <2>6, <2>7 DEF RequestInv
<1>4. CASE req.target \notin joined
  <2>1. PICK answer : req' = [req EXCEPT !.at = "answered", !.answer = answer]
    BY <1>4 DEF Forwards, Answers, Steps
  <2>2. proc'[Server].stage = "serving" BY <1>1, <1>2 DEF Asked
  <2> QED BY <1>1, <2>1, <2>2, AnswersHold
<1> QED BY <1>3, <1>4

LEMMA ServedHolds ==
  ASSUME RequestInv, req.at # "idle", NEW p \in Processes, NEW done, Served(p, done)
  PROVE  RequestInv'
<1>1. /\ req' = [req EXCEPT !.at = "answered", !.p = p, !.done = done, !.built = proc[p].config,
                            !.answer = AnswerTo(req.r, done.outcome)]
      /\ UNCHANGED proc
  BY DEF Served, Steps, vars
<1>2. Asked BY AtIs
<1>3. /\ IsReq(req') /\ req'.at = "answered" /\ req'.p = p /\ req'.r = req.r
      /\ req'.scope = req.scope /\ req'.target = req.target
  BY <1>1, <1>2 DEF Asked, IsReq, ReqFields
<1>4. Asked' BY <1>1, <1>2, <1>3 DEF Asked
<1> QED BY <1>3, <1>4 DEF RequestInv

\* Processes come and go under it: with the process of its application it is
\* answered, with the one that asked it is nobody's.
LEMMA LossHolds ==
  ASSUME CompositionInv, RequestInv, [CompositionNext]_vars, req' = AfterLoss(joined')
  PROVE  \/ req' = req /\ RequestInv'
         \/ req' = Idle
         \/ /\ req.at = "forwarded"
            /\ req' = [req EXCEPT !.at = "answered", !.answer = OwnAnswer(req.r, 503)]
            /\ proc'[Server].stage = "serving"
<1>1. CASE req = Idle
  <2>1. req' = req BY <1>1 DEF AfterLoss, Idle
  <2> QED BY <1>1, <2>1
<1>2. CASE req # Idle
  <2>1. Asked /\ (req.at # "answered" => UnderWay) BY <1>2 DEF RequestInv
  <2>2. /\ proc'[Server].stage = "serving" /\ proc'[Server].apps = proc[Server].apps
        /\ \A code \in joined \cap joined' : proc'[code] = proc[code]
    BY <2>1, ServingStays DEF Asked
  <2>3. CASE req.at = "forwarded" /\ req.target \notin joined'
    <3>1. req' = [req EXCEPT !.at = "answered", !.answer = OwnAnswer(req.r, 503)]
      BY <2>3 DEF AfterLoss
    <3> QED BY <2>2, <2>3, <3>1
  <2>4. CASE req.at \in {"arrived", "routed"} /\ req.p # Server /\ req.p \notin joined'
    <3>1. req' = Idle BY <2>4 DEF AfterLoss
    <3> QED BY <3>1
  <2>5. CASE /\ ~(req.at = "forwarded" /\ req.target \notin joined')
             /\ ~(req.at \in {"arrived", "routed"} /\ req.p # Server /\ req.p \notin joined')
    <3>1. req' = req BY <2>5 DEF AfterLoss
    <3>2. Asked' BY <2>1, <2>2, <3>1 DEF Asked
    <3>3. ASSUME req.at # "answered" PROVE UnderWay'
      <4>1. UnderWay BY <2>1, <3>3
      <4>2. req.p = Server \/ req.p \in joined \cap joined'
        <5>1. req.at \in {"arrived", "routed", "forwarded"} BY <2>1, <3>3 DEF Asked
        <5> QED BY <2>5, <4>1, <5>1 DEF UnderWay
      <4>3. proc'[req.p].apps = proc[req.p].apps BY <2>2, <4>2
      <4> QED BY <2>5, <3>1, <4>1, <4>2, <4>3 DEF UnderWay
    <3> QED BY <3>1, <3>2, <3>3 DEF RequestInv
  <2> QED BY <2>3, <2>4, <2>5
<1> QED BY <1>1, <1>2

Inv == CompositionInv /\ PathsLead /\ running \in BOOLEAN /\ RequestInv

LEMMA InvStarts == Init => Inv
<1> SUFFICES ASSUME Init PROVE Inv OBVIOUS
<1>1. CompositionInv BY CompositionStarts DEF Init
<1>2. PathsLead BY PathsLeadStarts
<1>3. running \in BOOLEAN /\ RequestInv BY DEF Init, RequestInv
<1> QED BY <1>1, <1>2, <1>3 DEF Inv

LEMMA InvSteps == ASSUME Inv, [Next]_allVars PROVE Inv'
<1>1. CompositionInv /\ PathsLead /\ running \in BOOLEAN /\ RequestInv BY DEF Inv
<1>2. CompositionInv' BY <1>1, RequestsLeaveIt, CompositionSteps
<1>3. PathsLead' BY <1>1, RequestsLeaveIt, PathsLeadSteps
<1>4. running' \in BOOLEAN
  BY <1>1 DEF Next, allVars, execution, Steps, Answers, Arrives, GoesToParent, Preflight, Turned,
              Demuxes, Served, Executes, Forwards, ExecutesThere, Ended, Leaves
<1>5. RequestInv'
  <2>1. CASE UNCHANGED <<proc, joined, req>>
    BY <1>1, <2>1 DEF RequestInv, Asked, UnderWay, Idle
  <2>2. CASE \E r \in Requests : Arrives(r) BY <1>1, <2>2, ArrivesHolds
  <2>3. CASE GoesToParent BY <1>1, <2>3, GoesToParentHolds
  <2>4. CASE Preflight \/ Turned
    <3>1. PICK answer : req' = [req EXCEPT !.at = "answered", !.answer = answer]
      BY <2>4 DEF Preflight, Turned, Answers, Steps
    <3>2. req.at = "arrived" /\ proc' = proc BY <2>4 DEF Preflight, Turned, Answers, Steps, vars
    <3>3. proc'[Server].stage = "serving" BY <1>1, <3>2, AtIs DEF Asked
    <3> QED BY <1>1, <3>1, <3>2, <3>3, AnswersHold
  <2>5. CASE Demuxes BY <1>1, <2>5, DemuxesHolds
  <2>6. CASE Executes
    <3>1. req.at = "routed" /\ \E done : Served(req.p, done) BY <2>6 DEF Executes
    <3>2. req.p \in Processes BY <1>1, <3>1, AtIs DEF Asked
    <3> QED BY <1>1, <3>1, <3>2, ServedHolds
  <2>7. CASE Forwards BY <1>1, <2>7, ForwardsHolds
  <2>8. CASE ExecutesThere
    <3>1. req.at = "forwarded" /\ \E done : Served(req.target, done) BY <2>8 DEF ExecutesThere
    <3>2. req.target \in Processes
      BY <1>1, <3>1, AtIs DEF UnderWay, CompositionInv, JoinedHold, Processes
    <3> QED BY <1>1, <3>1, <3>2, ServedHolds
  <2>9. CASE Ended BY <2>9 DEF Ended, Steps, RequestInv
  <2>10. CASE Leaves BY <2>1, <2>10 DEF Leaves, vars
  <2>11. CASE CompositionNext /\ req' = AfterLoss(joined')
    <3>1. CASE req' = Idle BY <3>1 DEF RequestInv
    <3>2. CASE /\ req.at = "forwarded"
               /\ req' = [req EXCEPT !.at = "answered", !.answer = OwnAnswer(req.r, 503)]
               /\ proc'[Server].stage = "serving"
      BY <1>1, <3>2, AnswersHold
    <3> QED BY <1>1, <2>11, <3>1, <3>2, LossHolds
  <2>12. CASE UNCHANGED allVars BY <2>1, <2>12 DEF allVars, vars, execution
  <2> QED BY <2>2, <2>3, <2>4, <2>5, <2>6, <2>7, <2>8, <2>9, <2>10, <2>11, <2>12 DEF Next
<1> QED BY <1>2, <1>3, <1>4, <1>5 DEF Inv

LEMMA InvHolds == Spec => []Inv
BY InvStarts, InvSteps, PTL DEF Spec

LEMMA InvHasTypes == Inv => TypeOK
<1> SUFFICES ASSUME Inv PROVE TypeOK OBVIOUS
<1>1. CompositionInv /\ running \in BOOLEAN /\ RequestInv BY DEF Inv
<1>2. CompositionTypeOK
  <2>1. ASSUME NEW p \in Processes
        PROVE  /\ proc[p].stage \in {"down", "building", "serving", "failed"}
               /\ \A path \in WellKnown :
                    {Owner(proc[p].declared, path), Owner(proc[p].defaults, path)} \subseteq Codes \cup {None}
               /\ {app.code : app \in proc[p].apps} \subseteq Codes
    <3>1. ProcHolds(proc[p], p) BY <1>1 DEF CompositionInv
    <3>2. \A app \in proc[p].apps : app.code \in Codes
      BY <3>1, EntriesHave DEF ProcHolds, IsEntry
    <3> QED BY <3>1, <3>2 DEF ProcHolds, IsIndex, Owners
  <2>2. joined \subseteq Codes BY <1>1 DEF CompositionInv, JoinedHold
  <2> QED BY <1>1, <2>1, <2>2 DEF CompositionTypeOK, CompositionInv, Configs
<1>3. ASSUME req # Idle
      PROVE  /\ req.at \in {"arrived", "routed", "forwarded", "answered"}
             /\ req.p \in Processes /\ req.target \in Codes \cup {None} /\ req.r.face \in Faces
  BY <1>1, <1>3, RequestsAssumption DEF RequestInv, Asked, Faces
<1> QED BY <1>1, <1>2, <1>3 DEF TypeOK

(* A server that serves has what its recipe declares, in whatever order it   *)
(* was registered and its processes joined, and the process of a role has    *)
(* what its mount has (server.py:253-325, asgi_server.py:187-229).           *)
THEOREM WhatIsBuiltIsDeclared == Spec => []BuiltAsDeclared
<1>1. Inv => BuiltAsDeclared
  BY InvHasTypes, DeclaredIsServed, RolesServeTheirOwn DEF Inv, BuiltAsDeclared
<1> QED BY <1>1, InvHolds, PTL

-----------------------------------------------------------------------------
(* What a request was answered with, where it was executed. *)

Lawful(done, q, app, scope) == Unrun(done, scope) \/ Permitted(done, q, app, scope)

HasOutcome(done) ==
  \/ \E outcome : done = NotRun(outcome)
  \/ \E route, view, outcome : done = Ran(route, view, outcome)

LEMMA LawfulHasOutcome ==
  ASSUME NEW done, NEW q, NEW app, NEW scope, Lawful(done, q, app, scope) PROVE HasOutcome(done)
BY DEF Lawful, Unrun, Permitted, HasOutcome

LEMMA OtherOutcome ==
  ASSUME NEW done, HasOutcome(done), NEW back
  PROVE  LET other == [done EXCEPT !.outcome = back] IN
         /\ other.outcome = back /\ other.how = done.how /\ done.how \in {"ran", "unrun"}
         /\ done.how = "ran" => other.route = done.route /\ other.view = done.view
         /\ back = done.outcome => other = done
         /\ \A none : [other EXCEPT !.outcome = none] = [done EXCEPT !.outcome = none]
<1> DEFINE other == [done EXCEPT !.outcome = back]
<1>1. CASE \E outcome : done = NotRun(outcome)
  <2>1. PICK outcome : done = NotRun(outcome) BY <1>1
  <2>2. other = NotRun(back) BY <2>1, UnrunOutcome
  <2> HIDE DEF other
  <2>3. /\ other.outcome = back /\ other.how = done.how /\ done.how = "unrun"
        /\ back = done.outcome => other = done
    BY <2>1, <2>2, UnrunOutcome
  <2>4. ASSUME NEW none PROVE [other EXCEPT !.outcome = none] = [done EXCEPT !.outcome = none]
    <3>1. [other EXCEPT !.outcome = none] = NotRun(none) BY <2>2, UnrunOutcome
    <3>2. [done EXCEPT !.outcome = none] = NotRun(none) BY <2>1, UnrunOutcome
    <3> QED BY <3>1, <3>2
  <2> QED BY <2>3, <2>4 DEF other
<1>2. CASE \E route, view, outcome : done = Ran(route, view, outcome)
  <2>1. PICK route, view, outcome : done = Ran(route, view, outcome) BY <1>2
  <2>2. other = Ran(route, view, back) BY <2>1, RanOutcome
  <2> HIDE DEF other
  <2>3. /\ other.outcome = back /\ other.how = done.how /\ done.how = "ran"
        /\ other.route = done.route /\ other.view = done.view
        /\ back = done.outcome => other = done
    BY <2>1, <2>2, RanOutcome
  <2>4. ASSUME NEW none PROVE [other EXCEPT !.outcome = none] = [done EXCEPT !.outcome = none]
    <3>1. [other EXCEPT !.outcome = none] = Ran(route, view, none) BY <2>2, RanOutcome
    <3>2. [done EXCEPT !.outcome = none] = Ran(route, view, none) BY <2>1, RanOutcome
    <3> QED BY <3>1, <3>2
  <2> QED BY <2>3, <2>4 DEF other
<1> QED BY <1>1, <1>2 DEF HasOutcome

LEMMA AskedCallsTools == ASSUME Asked PROVE CallsTools(req.scope.body)
<1>1. req.scope.body = req.r.body /\ req.r \in Requests BY DEF Asked, OfFace
<1> QED BY <1>1, RequestsAssumption DEF CallsTools

LEMMA ServedIs ==
  ASSUME RequestInv, req.at # "idle", NEW p \in Processes, NEW done, HasOutcome(done), NEW back,
         Served(p, [done EXCEPT !.outcome = back])
  PROVE  /\ req'.at = "answered" /\ req'.p = p /\ req'.r = req.r /\ req'.scope = req.scope
         /\ req'.target = req.target /\ req'.built = proc[p].config
         /\ req'.done = [done EXCEPT !.outcome = back] /\ req'.answer = AnswerTo(req.r, back)
         /\ proc' = proc
<1> DEFINE other == [done EXCEPT !.outcome = back]
           answer == AnswerTo(req.r, other.outcome)
<1>1. /\ req' = [req EXCEPT !.at = "answered", !.p = p, !.done = other, !.built = proc[p].config,
                            !.answer = answer]
      /\ proc' = proc
  BY DEF Served, Steps, vars
<1>2. Asked BY AtIs
<1>3. answer = AnswerTo(req.r, back)
  <2>1. other.outcome = back BY OtherOutcome
  <2> HIDE DEF other
  <2> QED BY <2>1
<1> HIDE DEF other, answer
<1>4. /\ req'.at = "answered" /\ req'.p = p /\ req'.r = req.r /\ req'.scope = req.scope
      /\ req'.target = req.target /\ req'.built = proc[p].config
      /\ req'.done = other /\ req'.answer = answer
  BY <1>1, <1>2 DEF Asked, IsReq, ReqFields
<1> QED BY <1>1, <1>3, <1>4 DEF other

\* In the server, or in a process for one of its own.
LEMMA ExecutesIs ==
  ASSUME CompositionInv, RequestInv, Executes
  PROVE  \E app \in proc[req.p].apps : \E done :
           /\ Asked /\ UnderWay /\ app.code = req.target /\ IsEntry(app)
           /\ AppOf(req.p, req.target) = app
           /\ ~app.spawner /\ done = Performed(proc[req.p], app, req.scope)
           /\ Lawful(done, proc[req.p], app, req.scope)
           /\ Served(req.p, [done EXCEPT !.outcome = done.outcome])
<1>1. req.at = "routed" BY DEF Executes
<1>2. Asked /\ UnderWay BY <1>1, AtIs
<1>3. PICK app \in proc[req.p].apps : app.code = req.target BY <1>1, <1>2 DEF UnderWay
<1>4. AppOf(req.p, req.target) = app /\ IsEntry(app) BY <1>2, <1>3, WhereItIs, AppOfIs DEF Asked
<1> DEFINE done == Performed(proc[req.p], app, req.scope)
<1>5. ~app.spawner /\ Served(req.p, done) BY <1>4 DEF Executes
<1>6. Lawful(done, proc[req.p], app, req.scope)
  BY <1>2, <1>4, AskedCallsTools, PerformedIs DEF Lawful, Asked
<1> HIDE DEF done
<1>7. [done EXCEPT !.outcome = done.outcome] = done BY <1>6, LawfulHasOutcome, OtherOutcome
<1> QED BY <1>2, <1>3, <1>4, <1>5, <1>6, <1>7 DEF done

\* In the process of its application.
Elsewhere(app, done) ==
  LET sent == Forwarded(app, req.scope)
      found == Demux(req.target, sent.path)
      there == There(app, req.scope, found.path)
  IN \/ /\ found.status # 0
        /\ \E status \in {404, 307} : done = NotRun([kind |-> "own", status |-> status])
     \/ /\ found.status = 0
        /\ \E hosted \in proc[req.target].apps :
             /\ hosted.code = found.code /\ IsEntry(hosted) /\ IsScope(there)
             /\ done = Performed(proc[req.target], hosted, there)
             /\ Lawful(done, proc[req.target], hosted, there)

LEMMA ExecutesThereIs ==
  ASSUME CompositionInv, RequestInv, ExecutesThere
  PROVE  /\ Asked /\ UnderWay /\ req.p = Server /\ req.target \in joined
         /\ \E app \in proc[Server].apps : \E done :
              /\ app.code = req.target /\ app.spawner /\ IsEntry(app)
              /\ Reached(app, req.scope.path) /\ AppOf(Server, req.target) = app
              /\ Elsewhere(app, done) /\ HasOutcome(done)
              /\ Served(req.target,
                        [done EXCEPT !.outcome = Returned(Forwarded(app, req.scope), done.outcome)])
<1>1. req.at = "forwarded" BY DEF ExecutesThere
<1>2. Asked /\ UnderWay /\ req.p = Server /\ req.target \in joined BY <1>1, AtIs DEF UnderWay
<1>3. PICK app \in proc[Server].apps : /\ app.code = req.target /\ app.spawner
                                       /\ Reached(app, req.scope.path)
  BY <1>1, <1>2 DEF UnderWay
<1>4. AppOf(Server, req.target) = app /\ IsEntry(app)
  BY <1>2, <1>3, AppOfIs DEF Asked, Processes
<1> DEFINE sent == Forwarded(app, req.scope)
           found == Demux(req.target, sent.path)
           there == There(app, req.scope, found.path)
           hosted == AppOf(req.target, found.code)
           done == IF found.status # 0 THEN NotRun([kind |-> "own", status |-> found.status])
                   ELSE Performed(proc[req.target], hosted, there)
<1>5. Served(req.target, [done EXCEPT !.outcome = Returned(sent, done.outcome)])
  BY <1>4 DEF ExecutesThere, There
<1>6. req.target \in Processes /\ proc[req.target].stage = "serving"
  BY <1>2 DEF CompositionInv, JoinedHold, Processes
<1>7. IsScope(there) /\ there.body = req.scope.body
  <2> HIDE DEF found
  <2>1. IsScope(req.scope) BY <1>2 DEF Asked
  <2> QED BY <2>1, ThereIs
<1>8. CASE found.status # 0
  <2>1. found = Answered(404) \/ found = Answered(307)
    <3> HIDE DEF sent
    <3> QED BY <1>6, <1>8, DemuxIs
  <2>2. found.status \in {404, 307}
    <3> HIDE DEF found
    <3> QED BY <2>1 DEF Answered
  <2>3. done = NotRun([kind |-> "own", status |-> found.status]) BY <1>8
  <2> HIDE DEF done, found, sent
  <2>4. Elsewhere(app, done) BY <1>8, <2>2, <2>3 DEF Elsewhere, found, sent
  <2>5. HasOutcome(done) BY <2>3 DEF HasOutcome
  <2> QED BY <1>2, <1>3, <1>4, <1>5, <2>4, <2>5 DEF sent
<1>9. CASE found.status = 0
  <2>1. PICK one \in proc[req.target].apps : one.code = found.code
    <3>1. found # Answered(404) /\ found # Answered(307)
      <4> HIDE DEF found
      <4> QED BY <1>9 DEF Answered
    <3>2. \E one \in proc[req.target].apps : LeadsTo(req.target, sent.path, found, one)
      <4> HIDE DEF sent
      <4> QED BY <1>6, <3>1, DemuxIs
    <3> HIDE DEF sent, found
    <3> QED BY <3>2 DEF LeadsTo
  <2>2. hosted = one /\ IsEntry(hosted) BY <1>6, <2>1, AppOfIs
  <2>3. done = Performed(proc[req.target], hosted, there) BY <1>9
  <2>4. CallsTools(there.body) BY <1>2, <1>7, AskedCallsTools
  <2> HIDE DEF there, hosted, done
  <2>5. Lawful(done, proc[req.target], hosted, there) BY <1>7, <2>2, <2>3, <2>4, PerformedIs DEF Lawful
  <2>6. HasOutcome(done) BY <2>5, LawfulHasOutcome
  <2> HIDE DEF found, sent
  <2>7. Elsewhere(app, done)
    BY <1>7, <1>9, <2>1, <2>2, <2>3, <2>5 DEF Elsewhere, found, sent, there
  <2> QED BY <1>2, <1>3, <1>4, <1>5, <2>6, <2>7 DEF sent
<1> QED BY <1>8, <1>9

-----------------------------------------------------------------------------
(* A 500 is a handler's. *)

LEMMA LawfulAnswers ==
  ASSUME Asked, NEW q, NEW app, IsEntry(app), NEW scope, scope.method = req.scope.method,
         scope.torn = req.scope.torn, scope.transport = req.scope.transport,
         NEW done, Lawful(done, q, app, scope), AnswerTo(req.r, done.outcome).status = 500
  PROVE  Excused(done, req.r)
<1>1. /\ MayStream(scope, req.r)
      /\ scope.torn => req.r.torn /\ req.r.face # "kbus"
      /\ scope.transport = "unknown" => req.r.face = "http" /\ req.r.transport = "unknown"
  BY DEF Asked, OfFace, MayStream
<1>2. CASE Unrun(done, scope) BY <1>1, <1>2, UnrunAnswers DEF Excused
<1>3. CASE Permitted(done, q, app, scope) BY <1>1, <1>3, PermittedAnswers DEF Excused
<1> QED BY <1>2, <1>3 DEF Lawful

\* A stream is of a route that streams, but on a GET.
LEMMA LawfulStreams ==
  ASSUME NEW q, NEW app, IsEntry(app), NEW scope, scope.method # "GET",
         NEW done, Lawful(done, q, app, scope), done.outcome.kind = "stream"
  PROVE  done.how = "ran" /\ done.route.does = "stream"
<1>1. ASSUME NEW outcome, done = NotRun(outcome),
             \/ IsStop(outcome, scope) \/ outcome.kind = "rpc"
             \/ outcome.kind = "own" \/ outcome = Crash
      PROVE  FALSE
  BY <1>1, UnrunOutcome DEF IsStop, IsRefusal, Crash
<1>2. Permitted(done, q, app, scope) BY <1>1 DEF Lawful, Unrun
<1>3. PICK route, view, outcome :
        /\ done = Ran(route, view, outcome) /\ Allowed(route, view, q, app, scope)
        /\ outcome = Outcome(route) \/ outcome.kind = "rpc" \/ outcome = Crash
  BY <1>2 DEF Permitted
<1>4. done.outcome = outcome /\ done.route = route /\ done.how = "ran" BY <1>3, RanOutcome
<1>5. route.does \in Doings BY <1>3 DEF IsEntry, Allowed
<1> QED BY <1>3, <1>4, <1>5, OutcomeIs DEF Crash

LEMMA ExecutedCrashes == ASSUME CompositionInv, RequestInv, Executes PROVE OnlyCrashesAre500'
<1>1. PICK app \in proc[req.p].apps : \E done :
        /\ Asked /\ IsEntry(app) /\ Lawful(done, proc[req.p], app, req.scope)
        /\ Served(req.p, [done EXCEPT !.outcome = done.outcome])
  BY ExecutesIs
<1>2. PICK done : /\ Asked /\ IsEntry(app) /\ Lawful(done, proc[req.p], app, req.scope)
                  /\ Served(req.p, [done EXCEPT !.outcome = done.outcome])
  BY <1>1
<1>3. HasOutcome(done) /\ req.at # "idle" /\ req.p \in Processes
  BY <1>2, LawfulHasOutcome DEF Asked
<1>4. [done EXCEPT !.outcome = done.outcome] = done BY <1>3, OtherOutcome
<1>5. req'.done = done /\ req'.answer = AnswerTo(req.r, done.outcome) /\ req'.r = req.r
  BY <1>2, <1>3, <1>4, ServedIs
<1>6. ASSUME req'.answer.status = 500 PROVE Excused(done, req.r)
  BY <1>2, <1>5, <1>6, LawfulAnswers
<1> QED BY <1>5, <1>6 DEF OnlyCrashesAre500, Excused

LEMMA ExecutedThereCrashes ==
  ASSUME CompositionInv, RequestInv, ExecutesThere PROVE OnlyCrashesAre500'
<1>1. Asked /\ req.target \in joined BY ExecutesThereIs
<1>2. PICK app \in proc[Server].apps : \E done :
        /\ Elsewhere(app, done) /\ HasOutcome(done)
        /\ Served(req.target,
                  [done EXCEPT !.outcome = Returned(Forwarded(app, req.scope), done.outcome)])
  BY ExecutesThereIs
<1>3. PICK done :
        /\ Elsewhere(app, done) /\ HasOutcome(done)
        /\ Served(req.target,
                  [done EXCEPT !.outcome = Returned(Forwarded(app, req.scope), done.outcome)])
  BY <1>2
<1> DEFINE sent == Forwarded(app, req.scope)
           back == Returned(sent, done.outcome)
           other == [done EXCEPT !.outcome = back]
<1>4. req.target \in Processes /\ req.at # "idle"
  BY <1>1 DEF CompositionInv, JoinedHold, Processes, Asked
<1>5. IsScope(req.scope) BY <1>1 DEF Asked
<1>6. sent.method = req.scope.method
  <2>1. \A field \in ScopeFields \ {"path", "auth", "session"} : sent[field] = req.scope[field]
    BY <1>5, ForwardedIs
  <2> HIDE DEF sent
  <2> QED BY <2>1 DEF ScopeFields
<1>7. req'.done = other /\ req'.answer = AnswerTo(req.r, back) /\ req'.r = req.r
  <2>1. Served(req.target, [done EXCEPT !.outcome = back]) BY <1>3
  <2> HIDE DEF back
  <2> QED BY <1>3, <1>4, <2>1, ServedIs
<1>8. /\ other.how = done.how /\ done.how \in {"ran", "unrun"}
      /\ done.how = "ran" => other.route = done.route /\ other.view = done.view
  <2> HIDE DEF back
  <2> QED BY <1>3, OtherOutcome
<1>9. \/ \E status \in {404, 307} : done = NotRun([kind |-> "own", status |-> status])
      \/ \E hosted, path :
           IsEntry(hosted) /\ Lawful(done, proc[req.target], hosted, There(app, req.scope, path))
  BY <1>3 DEF Elsewhere
<1>10. ASSUME NEW status \in {404, 307}, done = NotRun([kind |-> "own", status |-> status])
       PROVE  done.outcome.kind = "own" /\ done.outcome.status # 500
  <2> DEFINE own == [kind |-> "own", status |-> status]
  <2>1. done.outcome = own BY <1>10, UnrunOutcome
  <2> QED BY <2>1
<1>11. ASSUME NEW hosted, NEW path, IsEntry(hosted),
              Lawful(done, proc[req.target], hosted, There(app, req.scope, path))
       PROVE  /\ AnswerTo(req.r, done.outcome).status = 500 => Excused(done, req.r)
              /\ done.outcome.kind = "stream" /\ req.scope.method # "GET" =>
                   done.how = "ran" /\ done.route.does = "stream"
  <2>1. /\ There(app, req.scope, path).method = req.scope.method
        /\ There(app, req.scope, path).torn = req.scope.torn
        /\ There(app, req.scope, path).transport = req.scope.transport
    BY <1>5, ThereIs
  <2>2. AnswerTo(req.r, done.outcome).status = 500 => Excused(done, req.r)
    BY <1>1, <1>11, <2>1, LawfulAnswers
  <2>3. done.outcome.kind = "stream" /\ req.scope.method # "GET" =>
          done.how = "ran" /\ done.route.does = "stream"
    BY <1>11, <2>1, LawfulStreams
  <2> QED BY <2>2, <2>3
<1>12. ASSUME AnswerTo(req.r, back).status = 500 PROVE Excused(done, req.r)
  <2>1. CASE done.outcome.kind = "stream" /\ sent.method = "WSK" /\ req.r.face = "http"
    <3>1. req.r.method = "WSK" BY <1>1, <1>6, <2>1 DEF Asked, OfFace
    <3>2. done.how = "ran" /\ done.route.does = "stream" BY <1>6, <1>9, <1>10, <1>11, <2>1
    <3> QED BY <3>1, <3>2 DEF Excused
  <2>2. CASE ~(done.outcome.kind = "stream" /\ sent.method = "WSK" /\ req.r.face = "http")
    <3>1. AnswerTo(req.r, back) = AnswerTo(req.r, done.outcome)
      <4> HIDE DEF sent
      <4> QED BY <2>2, ReturnedAnswers
    <3> HIDE DEF back, sent
    <3>2. AnswerTo(req.r, done.outcome).status = 500 BY <1>12, <3>1
    <3>3. ~\E status \in {404, 307} : done = NotRun([kind |-> "own", status |-> status])
      BY <1>10, <3>2, AnswerStatus
    <3> QED BY <1>9, <1>11, <3>2, <3>3
  <2> QED BY <2>1, <2>2
<1> HIDE DEF other, back, sent
<1>13. ASSUME req'.answer.status = 500 PROVE Excused(other, req.r)
  <2>1. Excused(done, req.r) BY <1>7, <1>12, <1>13
  <2> QED BY <1>8, <2>1 DEF Excused
<1> QED BY <1>7, <1>13 DEF OnlyCrashesAre500, Excused

\* What no handler had a part in is no fault either.
LEMMA AnswersAreNoFault ==
  ASSUME RequestInv, req.at \in {"arrived", "routed", "forwarded"}, NEW answer, answer.status # 500,
         req' = [req EXCEPT !.at = "answered", !.answer = answer], proc'[Server].stage = "serving"
  PROVE  req'.at = "answered" /\ req'.done = Undone /\ req'.answer.status # 500
<1>1. req'.done = req.done /\ req'.answer = answer /\ req'.at = "answered" BY AnswersHold
<1>2. req.done = Undone BY AtIs DEF UnderWay
<1> QED BY <1>1, <1>2

-----------------------------------------------------------------------------
(* What runs is allowed to who is served. *)

LEMMA LawfulAllows ==
  ASSUME NEW q, NEW app, NEW scope, NEW done, Lawful(done, q, app, scope), done.how = "ran"
  PROVE  /\ done.view.avatar = Acting(q, scope) /\ Admitted(done.route, done.view.avatar)
         /\ Speaks(app, scope.path) => done.route \in Listed(app, done.view.avatar)
<1>1. ~Unrun(done, scope) BY UnrunOutcome DEF Unrun
<1>2. Permitted(done, q, app, scope) BY <1>1 DEF Lawful
<1>3. PICK route, view, outcome :
        done = Ran(route, view, outcome) /\ Allowed(route, view, q, app, scope)
  BY <1>2 DEF Permitted
<1>4. done.route = route /\ done.view = view BY <1>3, RanOutcome
<1> QED BY <1>3, <1>4 DEF Allowed

\* By HTTP it is the credential, else the session.
LEMMA HttpActs ==
  ASSUME Asked, NEW q
  PROVE  req.r.face = "http" =>
           Acting(q, req.scope) = IF req.r.credential # None
                                    THEN Verify(q.config.recipe.auth, req.r.credential)
                                    ELSE req.scope.session
BY DEF Asked, OfFace, Acting

LEMMA ExecutedAllows == ASSUME CompositionInv, RequestInv, Executes PROVE RunsAsAllowed'
<1>1. PICK app \in proc[req.p].apps : \E done :
        /\ Asked /\ AppOf(req.p, req.target) = app /\ Lawful(done, proc[req.p], app, req.scope)
        /\ Served(req.p, [done EXCEPT !.outcome = done.outcome])
  BY ExecutesIs
<1>2. PICK done :
        /\ Asked /\ AppOf(req.p, req.target) = app /\ Lawful(done, proc[req.p], app, req.scope)
        /\ Served(req.p, [done EXCEPT !.outcome = done.outcome])
  BY <1>1
<1>3. HasOutcome(done) /\ req.at # "idle" /\ req.p \in Processes
  BY <1>2, LawfulHasOutcome DEF Asked
<1>4. [done EXCEPT !.outcome = done.outcome] = done BY <1>3, OtherOutcome
<1>5. /\ req'.at = "answered" /\ req'.p = req.p /\ req'.r = req.r /\ req'.scope = req.scope
      /\ req'.target = req.target /\ req'.built = proc[req.p].config /\ req'.done = done
      /\ proc' = proc
  BY <1>2, <1>3, <1>4, ServedIs
<1>6. ASSUME done.how = "ran"
      PROVE  /\ done.view.avatar = Acting(proc[req.p], req.scope)
             /\ Admitted(done.route, done.view.avatar)
             /\ Speaks(app, req.scope.path) => done.route \in Listed(app, done.view.avatar)
  BY <1>2, <1>6, LawfulAllows
<1>7. req.p = Server => AppOf(Server, req.target)' = app BY <1>2, <1>5 DEF AppOf
<1>8. ASSUME done.how = "ran"
      PROVE  /\ done.route.rule # None =>
                  done.view.avatar # Anonymous /\ done.route.rule \in done.view.avatar.tags
             /\ req.r.face = "http" =>
                  done.view.avatar = IF req.r.credential # None
                                       THEN Verify(proc[req.p].config.recipe.auth, req.r.credential)
                                       ELSE req.scope.session
  BY <1>2, <1>6, <1>8, HttpActs DEF Admitted
<1> QED BY <1>5, <1>6, <1>7, <1>8 DEF RunsAsAllowed

LEMMA ExecutedThereAllows ==
  ASSUME CompositionInv, RequestInv, ExecutesThere PROVE RunsAsAllowed'
<1>1. Asked /\ req.target \in joined BY ExecutesThereIs
<1>2. PICK app \in proc[Server].apps : \E done :
        /\ Elsewhere(app, done) /\ HasOutcome(done)
        /\ Served(req.target,
                  [done EXCEPT !.outcome = Returned(Forwarded(app, req.scope), done.outcome)])
  BY ExecutesThereIs
<1>3. PICK done :
        /\ Elsewhere(app, done) /\ HasOutcome(done)
        /\ Served(req.target,
                  [done EXCEPT !.outcome = Returned(Forwarded(app, req.scope), done.outcome)])
  BY <1>2
<1> DEFINE back == Returned(Forwarded(app, req.scope), done.outcome)
           other == [done EXCEPT !.outcome = back]
<1>4. req.target \in Processes /\ req.target # Server /\ req.at # "idle"
  BY <1>1, NamesAssumption DEF CompositionInv, JoinedHold, Processes, Asked
<1>5. /\ req'.p = req.target /\ req'.r = req.r /\ req'.scope = req.scope
      /\ req'.built = proc[req.target].config /\ req'.done = other
  <2>1. Served(req.target, [done EXCEPT !.outcome = back]) BY <1>3
  <2> HIDE DEF back
  <2> QED BY <1>3, <1>4, <2>1, ServedIs
<1>6. other.how = done.how /\ (done.how = "ran" => other.route = done.route /\ other.view = done.view)
  <2> HIDE DEF back
  <2> QED BY <1>3, OtherOutcome
<1>7. ASSUME done.how = "ran"
      PROVE  /\ done.route.rule # None =>
                  done.view.avatar # Anonymous /\ done.route.rule \in done.view.avatar.tags
             /\ req.r.face = "http" =>
                  done.view.avatar = IF req.r.credential # None
                                       THEN Verify(proc[req.target].config.recipe.auth, req.r.credential)
                                       ELSE req.scope.session
  <2>1. \A status : NotRun([kind |-> "own", status |-> status]).how # "ran" BY UnrunOutcome
  <2>2. PICK hosted, path : Lawful(done, proc[req.target], hosted, There(app, req.scope, path))
    BY <1>3, <1>7, <2>1 DEF Elsewhere
  <2> DEFINE there == There(app, req.scope, path)
  <2>3. IsScope(req.scope) BY <1>1 DEF Asked
  <2>4. /\ there.auth = Trusted(req.scope) /\ there.session = None
        /\ there.credential = req.scope.credential
    BY <2>3, ThereIs
  <2>5. Acting(proc[req.target], there) = Acting(proc[req.target], req.scope)
    <3> HIDE DEF there
    <3> QED BY <2>4, SentActs
  <2>6. /\ done.view.avatar = Acting(proc[req.target], there)
        /\ Admitted(done.route, done.view.avatar)
    BY <1>7, <2>2, LawfulAllows
  <2> HIDE DEF there
  <2> QED BY <1>1, <2>5, <2>6, HttpActs DEF Admitted
<1> HIDE DEF other
<1> QED BY <1>4, <1>5, <1>6, <1>7 DEF RunsAsAllowed

-----------------------------------------------------------------------------
(* An application answers alike in the server and in a process of its own. *)

\* An answer depends on what the server read, which does not change.
LEMMA AnswersStay ==
  ASSUME proc'[Server].config = proc[Server].config, NEW r, NEW outcome
  PROVE  AnswerTo(r, outcome)' = AnswerTo(r, outcome)
<1>1. \A name : Switched(name)' <=> Switched(name) BY DEF Switched
<1>2. \A origin : Allows(origin)' <=> Allows(origin) BY <1>1 DEF Allows
<1>3. ASSUME NEW status, NEW location
      PROVE  Decorated(r, status, location)' = Decorated(r, status, location)
  <2>1. Allows(r.origin)' = Allows(r.origin)
    <3>1. CASE Allows(r.origin) BY <1>2, <3>1
    <3>2. CASE ~Allows(r.origin) BY <1>2, <3>2
    <3> QED BY <3>1, <3>2
  <2> QED BY <1>1, <2>1 DEF Decorated
<1>4. HttpAnswer(r, outcome)' = HttpAnswer(r, outcome) BY <1>3 DEF HttpAnswer
<1> QED BY <1>4 DEF AnswerTo

\* What Parity asks of a request, executed as the server would have.
LEMMA ParityBy ==
  ASSUME CompositionInv, proc[Server].stage = "serving", UNCHANGED proc,
         NEW mount \in proc[Server].apps, mount.code = req'.target,
         NEW here, here = Performed(proc[Server], mount, req'.scope), HasOutcome(here),
         NEW back, req'.done = [here EXCEPT !.outcome = back],
         here.outcome.kind = "rpc" => back = here.outcome,
         NEW r, req'.r = r, req'.answer = AnswerTo(r, here.outcome)
  PROVE  Parity'
<1>1. AppOf(Server, mount.code) = mount BY AppOfIs DEF Processes
<1>2. AppOf(Server, req.target)' = mount BY <1>1 DEF AppOf
<1>3. /\ req'.done.outcome = back
      /\ [req'.done EXCEPT !.outcome = None] = [here EXCEPT !.outcome = None]
  <2> DEFINE other == [here EXCEPT !.outcome = back]
  <2>1. other.outcome = back BY ONLY HasOutcome(here), OtherOutcome
  <2>2. \A none : [other EXCEPT !.outcome = none] = [here EXCEPT !.outcome = none] BY OtherOutcome
  <2> HIDE DEF other
  <2>3. [other EXCEPT !.outcome = None] = [here EXCEPT !.outcome = None] BY <2>2
  <2>4. req'.done = other BY DEF other
  <2> QED BY <2>1, <2>3, <2>4
<1>4. AnswerTo(r, here.outcome)' = AnswerTo(r, here.outcome) BY AnswersStay
<1>6. req'.answer = AnswerTo(req.r, here.outcome)' BY <1>4
<1> QED BY <1>2, <1>3, <1>6 DEF Parity

\* What Parity asks nothing of.
LEMMA ParityBeyond ==
  ASSUME CompositionInv, proc[Server].stage = "serving", UNCHANGED proc,
         NEW mount \in proc[Server].apps, mount.code = req'.target,
         NEW here, here = Performed(proc[Server], mount, req'.scope), NEW r, req'.r = r,
         \/ ~Crosses(mount, req'.scope.path)
         \/ here.outcome.kind = "stream" /\ r.face = "http" /\ r.method = "WSK"
  PROVE  Parity'
<1>1. AppOf(Server, mount.code) = mount BY AppOfIs DEF Processes
<1>2. AppOf(Server, req.target)' = mount BY <1>1 DEF AppOf
<1> QED BY <1>2 DEF Parity

\* The server would have run it on what its mount says, as the process did.
LEMMA HereAlike ==
  ASSUME CompositionInv, NEW code \in joined, proc[code].config = proc[Server].config,
         NEW hosted \in proc[code].apps,
         NEW mount \in proc[Server].apps, IsEntry(mount), mount.code = code, hosted = Hosted(mount),
         NEW scope, IsScope(scope), NEW sent, IsScope(sent), SameScope(scope, sent),
         Acting(proc[Server], scope) = Acting(proc[Server], sent)
  PROVE  Performed(proc[Server], mount, scope) = Performed(proc[code], hosted, sent)
<1>1. \A field \in EntryFields \ {"spawner"} : hosted[field] = mount[field] BY HostedIs
<1>2. SameApp(mount, hosted) /\ hosted.code = mount.code BY <1>1 DEF SameApp, EntryFields
<1>3. DatabaseOf(proc[Server], mount) = DatabaseOf(proc[code], hosted)
  <2>1. DatabaseOf(proc[code], hosted) = DatabaseOf(proc[Server], hosted)
    BY RolesServeTheirOwn DEF RoleServesItsOwn
  <2>2. DatabaseOf(proc[Server], hosted) = DatabaseOf(proc[Server], mount) BY <1>2 DEF DatabaseOf
  <2> QED BY <2>1, <2>2
<1>4. Acting(proc[code], sent) = Acting(proc[Server], sent) BY DEF Acting
<1> QED BY <1>2, <1>3, <1>4, PerformedAlike

LEMMA ExecutedParity == ASSUME CompositionInv, RequestInv, Executes PROVE Parity'
<1>1. PICK app \in proc[req.p].apps : \E done :
        /\ Asked /\ UnderWay /\ app.code = req.target /\ AppOf(req.p, req.target) = app
        /\ ~app.spawner /\ done = Performed(proc[req.p], app, req.scope)
        /\ Lawful(done, proc[req.p], app, req.scope)
        /\ Served(req.p, [done EXCEPT !.outcome = done.outcome])
  BY ExecutesIs
<1>2. PICK done :
        /\ Asked /\ UnderWay /\ app.code = req.target /\ AppOf(req.p, req.target) = app
        /\ ~app.spawner /\ done = Performed(proc[req.p], app, req.scope)
        /\ Lawful(done, proc[req.p], app, req.scope)
        /\ Served(req.p, [done EXCEPT !.outcome = done.outcome])
  BY <1>1
<1>3. HasOutcome(done) /\ req.at # "idle" /\ req.p \in Processes
  BY <1>2, LawfulHasOutcome DEF Asked
<1>4. /\ req'.p = req.p /\ req'.r = req.r /\ req'.scope = req.scope
      /\ req'.target = req.target /\ req'.built = proc[req.p].config
      /\ req'.done = [done EXCEPT !.outcome = done.outcome]
      /\ req'.answer = AnswerTo(req.r, done.outcome) /\ proc' = proc
  BY <1>2, <1>3, ServedIs
<1>5. CASE req.p = Server
  <2>1. AppOf(Server, req.target)' = app BY <1>2, <1>4, <1>5 DEF AppOf
  <2> QED BY <1>2, <2>1 DEF Parity
<1>6. CASE req.p # Server /\ proc[req.p].config # proc[Server].config
  BY <1>4, <1>6 DEF Parity
<1>7. CASE req.p # Server /\ proc[req.p].config = proc[Server].config
  <2>1. req.p \in joined /\ req.p \in Codes /\ proc[req.p].stage = "serving"
    BY <1>2, <1>7 DEF UnderWay, CompositionInv, JoinedHold
  <2>2. PICK mount \in proc[Server].apps : mount.code = req.p /\ IsEntry(mount) /\ app = Hosted(mount)
    BY <1>7, <2>1, MountOfRole
  <2>3. mount.code = req.target BY <1>2, <2>1, <2>2, RolePresents
  <2>4. done = Performed(proc[Server], mount, req.scope)
    <3>1. IsScope(req.scope) /\ SameScope(req.scope, req.scope) BY <1>2 DEF Asked, SameScope
    <3> QED BY <1>2, <1>7, <2>1, <2>2, <3>1, HereAlike
  <2>5. proc[Server].stage = "serving" BY <1>2 DEF Asked
  <2>6. PICK r : r = req.r OBVIOUS
  <2>7. /\ mount.code = req'.target /\ done = Performed(proc[Server], mount, req'.scope)
        /\ req'.r = r /\ req'.answer = AnswerTo(r, done.outcome)
    BY <1>4, <2>3, <2>4, <2>6
  <2> QED BY <1>3, <1>4, <2>5, <2>7, ParityBy
<1> QED BY <1>5, <1>6, <1>7

\* A mount and its process read the same: the process has the application.
LEMMA RoleOfMount ==
  ASSUME CompositionInv, NEW code \in joined, proc[code].config = proc[Server].config,
         NEW mount \in proc[Server].apps, mount.spawner, mount.code = code
  PROVE  Hosted(mount) \in proc[code].apps
<1> DEFINE d == proc[Server].config
<1>1. code \in Codes /\ proc[code].stage = "serving" BY DEF CompositionInv, JoinedHold
<1>2. proc[Server].stage = "serving" BY <1>1 DEF CompositionInv, RolesAreHosted
<1>3. d \in Configs BY <1>2, ServerStands
<1>4. PICK i \in DOMAIN Entries(d, Server) : mount = Entries(d, Server)[i]
  BY <1>2, ServerStands DEF Standing, Registered
<1>5. i \in DOMAIN d.recipe.entries /\ mount = Mounted(d.recipe.entries[i])
  <2>1. mount # Management BY RecipesAssumption
  <2> QED BY <1>3, <1>4, <2>1, ServerEntries
<1>6. i \in DOMAIN Entries(d, code) /\ Entries(d, code)[i] = Hosted(mount)
  BY <1>1, <1>3, <1>5, RoleEntries
<1>7. Hosted(mount).code = code
  <2>1. IsEntry(mount) BY <1>3, <1>4, EntriesFit DEF Processes
  <2> QED BY <2>1, HostedIs DEF EntryFields
<1>8. i \in Places(d, code) BY <1>6, <1>7 DEF Places
<1> QED BY <1>1, <1>6, <1>8, RoleStands DEF Standing, Registered

LEMMA ExecutedThereParity ==
  ASSUME CompositionInv, RequestInv, ExecutesThere PROVE Parity'
<1>1. Asked /\ UnderWay /\ req.target \in joined BY ExecutesThereIs
<1>2. PICK app \in proc[Server].apps : \E done :
        /\ app.code = req.target /\ app.spawner /\ IsEntry(app) /\ Reached(app, req.scope.path)
        /\ Elsewhere(app, done) /\ HasOutcome(done)
        /\ Served(req.target,
                  [done EXCEPT !.outcome = Returned(Forwarded(app, req.scope), done.outcome)])
  BY ExecutesThereIs
<1>3. PICK done :
        /\ app.code = req.target /\ app.spawner /\ IsEntry(app) /\ Reached(app, req.scope.path)
        /\ Elsewhere(app, done) /\ HasOutcome(done)
        /\ Served(req.target,
                  [done EXCEPT !.outcome = Returned(Forwarded(app, req.scope), done.outcome)])
  BY <1>2
<1> DEFINE sent == Forwarded(app, req.scope)
           back == Returned(sent, done.outcome)
<1>4. /\ req.target \in Codes /\ req.target \in Processes /\ req.at # "idle"
      /\ proc[req.target].stage = "serving" /\ proc[Server].stage = "serving"
  BY <1>1 DEF CompositionInv, JoinedHold, Processes, Asked
<1>5. /\ req'.p = req.target /\ req'.r = req.r /\ req'.scope = req.scope
      /\ req'.target = req.target /\ req'.built = proc[req.target].config
      /\ req'.done = [done EXCEPT !.outcome = back] /\ req'.answer = AnswerTo(req.r, back)
      /\ proc' = proc
  <2>1. Served(req.target, [done EXCEPT !.outcome = back]) BY <1>3
  <2> HIDE DEF back
  <2> QED BY <1>3, <1>4, <2>1, ServedIs
<1>6. CASE proc[req.target].config # proc[Server].config BY <1>5, <1>6 DEF Parity
<1>7. CASE ~Crosses(app, req.scope.path)
  <2>1. PICK r : r = req.r OBVIOUS
  <2>2. app.code = req'.target /\ req'.r = r /\ req'.scope = req.scope BY <1>3, <1>5, <2>1
  <2>3. PICK here : here = Performed(proc[Server], app, req'.scope) OBVIOUS
  <2> QED BY <1>4, <1>5, <1>7, <2>2, <2>3, ParityBeyond
<1>8. CASE proc[req.target].config = proc[Server].config /\ Crosses(app, req.scope.path)
  <2> DEFINE hosted == Hosted(app)
             found == Demux(req.target, sent.path)
             there == There(app, req.scope, req.scope.path)
  <2>1. hosted \in proc[req.target].apps BY <1>1, <1>3, <1>8, RoleOfMount
  <2>2. req.scope.path \in Seq(STRING) BY <1>3 DEF Reached
  <2>3. IsScope(req.scope) BY <1>1 DEF Asked
  <2>4. sent.path = Front(app.mount, req.scope.path) /\ sent.method = req.scope.method
    <3>1. /\ sent.path = Front(app.mount, req.scope.path)
          /\ \A field \in ScopeFields \ {"path", "auth", "session"} : sent[field] = req.scope[field]
      BY <2>3, ForwardedIs
    <3> HIDE DEF sent
    <3> QED BY <3>1 DEF ScopeFields
  <2>5. found.status = 0 /\ found.code = req.target /\ found.path = req.scope.path
    <3> HIDE DEF sent
    <3> QED BY <1>1, <1>3, <1>8, <2>1, <2>2, <2>4, DemuxThere
  <2>6. proc[req.target].apps = {hosted} BY <1>4, <2>1, RolePresents
  <2>7. done = Performed(proc[req.target], hosted, there) /\ HasOutcome(done)
    <3> HIDE DEF found, sent
    <3>1. \E other \in proc[req.target].apps :
            done = Performed(proc[req.target], other, There(app, req.scope, found.path))
      BY <1>3, <2>5 DEF Elsewhere, found, sent
    <3> QED BY <1>3, <2>5, <2>6, <3>1
  <2>8. done = Performed(proc[Server], app, req.scope)
    <3>1. /\ IsScope(there) /\ SameScope(req.scope, there)
          /\ there.auth = Trusted(req.scope) /\ there.session = None
          /\ there.credential = req.scope.credential
      BY <2>3, ThereIs
    <3> HIDE DEF there
    <3>2. Acting(proc[Server], there) = Acting(proc[Server], req.scope) BY <3>1, SentActs
    <3> QED BY <1>1, <1>3, <1>8, <2>1, <2>3, <2>7, <3>1, <3>2, HereAlike
  <2>9. PICK r : r = req.r OBVIOUS
  <2>10. /\ app.code = req'.target /\ done = Performed(proc[Server], app, req'.scope)
         /\ req'.r = r
    <3> HIDE DEF back
    <3> QED BY <1>3, <1>5, <2>8, <2>9
  <2>11. CASE done.outcome.kind = "stream" /\ sent.method = "WSK" /\ req.r.face = "http"
    <3>1. r.face = "http" /\ r.method = "WSK" BY <1>1, <2>4, <2>9, <2>11 DEF Asked, OfFace
    <3> HIDE DEF back, sent, found, there, hosted
    <3> QED BY <1>3, <1>4, <1>5, <2>10, <2>11, <3>1, ParityBeyond
  <2>12. CASE ~(done.outcome.kind = "stream" /\ sent.method = "WSK" /\ req.r.face = "http")
    <3>1. /\ AnswerTo(req.r, back) = AnswerTo(req.r, done.outcome)
          /\ done.outcome.kind = "rpc" => back = done.outcome
      <4> HIDE DEF sent
      <4> QED BY <2>12, ReturnedAnswers
    <3> HIDE DEF back, sent, found, there, hosted
    <3>2. req'.answer = AnswerTo(r, done.outcome) /\ req'.done = [done EXCEPT !.outcome = back]
      BY <1>5, <2>9, <3>1
    <3> QED BY <1>3, <1>4, <1>5, <2>7, <2>10, <3>1, <3>2, ParityBy
  <2> QED BY <2>11, <2>12
<1> QED BY <1>6, <1>7, <1>8

-----------------------------------------------------------------------------
(* The rest of a request: on its way, answered by nobody's handler, and     *)
(* answered already.                                                        *)

RightlyAnswered == OnlyCrashesAre500 /\ RunsAsAllowed /\ Parity

LEMMA OnItsWay ==
  ASSUME req'.at # "answered" PROVE RightlyAnswered'
BY DEF RightlyAnswered, OnlyCrashesAre500, RunsAsAllowed, Parity

LEMMA PlainlyAnswered ==
  ASSUME RequestInv, req.at \in {"arrived", "routed", "forwarded"}, NEW answer, answer.status # 500,
         req' = [req EXCEPT !.at = "answered", !.answer = answer], proc'[Server].stage = "serving"
  PROVE  RightlyAnswered'
<1>1. req'.done = Undone /\ req'.answer.status # 500 BY AnswersAreNoFault
<1>2. Undone.how # "ran" BY DEF Undone, NotRun
<1> QED BY <1>1, <1>2 DEF RightlyAnswered, OnlyCrashesAre500, RunsAsAllowed, Parity

\* None of the answers of the server itself is a fault.
LEMMA DemuxesPlainly ==
  ASSUME CompositionInv, RequestInv, Demuxes PROVE RightlyAnswered'
<1> DEFINE found == Demux(req.p, req.scope.path)
<1>1. req.at = "arrived" /\ UNCHANGED proc BY DEF Demuxes, Answers, Steps, vars
<1>2. Asked /\ UnderWay BY <1>1, AtIs
<1>3. CASE found.status = 0
  <2>1. req' = [req EXCEPT !.at = "routed", !.target = found.code, !.scope.path = found.path]
    BY <1>3 DEF Demuxes, Steps
  <2> HIDE DEF found
  <2>2. req'.at = "routed" BY <1>2, <2>1 DEF Asked, IsReq, ReqFields
  <2> QED BY <2>2, OnItsWay
<1>4. CASE found.status # 0
  <2>1. req' = [req EXCEPT !.at = "answered", !.answer = OwnAnswer(req.r, found.status)]
    BY <1>4 DEF Demuxes, Answers, Steps
  <2>2. found.status \in {404, 307}
    <3>1. proc[req.p].stage = "serving" /\ req.p \in Processes BY <1>2, WhereItIs DEF Asked
    <3>2. found = Answered(404) \/ found = Answered(307) BY <1>4, <3>1, DemuxIs
    <3> QED BY <3>2 DEF Answered
  <2> HIDE DEF found
  <2>3. OwnAnswer(req.r, found.status).status # 500 BY <2>2, OwnStatus
  <2> QED BY <1>1, <1>2, <2>1, <2>3, PlainlyAnswered DEF Asked
<1> QED BY <1>3, <1>4

LEMMA ForwardsPlainly ==
  ASSUME RequestInv, Forwards PROVE RightlyAnswered'
<1>1. req.at = "routed" /\ UNCHANGED proc BY DEF Forwards, Answers, Steps, vars
<1>2. Asked BY <1>1, AtIs
<1>3. CASE req.target \in joined
  <2>1. req' = [req EXCEPT !.at = "forwarded"] BY <1>3 DEF Forwards, Steps
  <2>2. req'.at = "forwarded" BY <1>2, <2>1 DEF Asked, IsReq, ReqFields
  <2> QED BY <2>2, OnItsWay
<1>4. CASE req.target \notin joined
  <2>1. req' = [req EXCEPT !.at = "answered", !.answer = OwnAnswer(req.r, 503)]
    BY <1>4 DEF Forwards, Answers, Steps
  <2>2. OwnAnswer(req.r, 503).status # 500 BY OwnStatus
  <2> QED BY <1>1, <1>2, <2>1, <2>2, PlainlyAnswered DEF Asked
<1> QED BY <1>3, <1>4

LEMMA StartsPlainly ==
  ASSUME RequestInv, Preflight \/ Turned PROVE RightlyAnswered'
<1>1. req.at = "arrived" /\ UNCHANGED proc BY DEF Preflight, Turned, Answers, Steps, vars
<1>2. Asked BY <1>1, AtIs
<1>3. \E answer : answer.status # 500 /\ req' = [req EXCEPT !.at = "answered", !.answer = answer]
  <2>1. CASE Preflight
    <3> DEFINE answer == IF Allows(req.r.origin) THEN Answer(200, None, FALSE, TRUE, FALSE) ELSE Bare(400)
    <3>1. answer.status # 500 BY DEF Answer, Bare
    <3>2. req' = [req EXCEPT !.at = "answered", !.answer = answer]
      BY <2>1 DEF Preflight, Answers, Steps
    <3> HIDE DEF answer
    <3> QED BY <3>1, <3>2
  <2>2. CASE Turned
    <3>1. OwnAnswer(req.r, 503).status # 500 BY OwnStatus
    <3> QED BY <2>2, <3>1 DEF Turned, Answers, Steps
  <2> QED BY <2>1, <2>2
<1>4. PICK answer : answer.status # 500 /\ req' = [req EXCEPT !.at = "answered", !.answer = answer]
  BY <1>3
<1> QED BY <1>1, <1>2, <1>4, PlainlyAnswered DEF Asked

\* An answer stays right whatever happens to the processes after it.
LEMMA AnswersStayRight ==
  ASSUME CompositionInv, [CompositionNext]_vars, RequestInv, req' = req, RightlyAnswered
  PROVE  RightlyAnswered'
<1>1. CASE req.at # "answered"
  <2>1. req'.at # "answered" BY <1>1
  <2> QED BY <2>1, OnItsWay
<1>2. CASE req.at = "answered"
  <2>1. Asked BY <1>2, AtIs
  <2>2. /\ proc'[Server].config = proc[Server].config /\ proc'[Server].apps = proc[Server].apps
        /\ proc'[Server].dbs = proc[Server].dbs
    BY <2>1, ServingStays DEF Asked
  <2>3. PICK app : app = AppOf(Server, req.target) OBVIOUS
  <2>4. AppOf(Server, req.target)' = app BY <2>2, <2>3 DEF AppOf
  <2>5. OnlyCrashesAre500' BY DEF RightlyAnswered, OnlyCrashesAre500
  <2>6. RunsAsAllowed' BY <2>3, <2>4 DEF RightlyAnswered, RunsAsAllowed
  <2>7. Parity'
    <3>1. PICK here : here = Performed(proc[Server], app, req.scope) OBVIOUS
    <3>2. Performed(proc'[Server], app, req.scope) = here
      <4>1. PICK q, later : q = proc[Server] /\ later = proc'[Server] OBVIOUS
      <4>2. \A scope : Acting(q, scope) = Acting(later, scope) BY <2>2, <4>1 DEF Acting
      <4>3. DatabaseOf(q, app) = DatabaseOf(later, app) BY <2>2, <4>1 DEF DatabaseOf
      <4>4. SameApp(app, app) /\ SameScope(req.scope, req.scope) BY DEF SameApp, SameScope
      <4>5. IsScope(req.scope) BY <2>1 DEF Asked
      <4> QED BY <2>2, <3>1, <4>1, <4>2, <4>3, <4>4, <4>5, PerformedAlike
    <3>3. PICK r : r = req.r OBVIOUS
    <3>4. AnswerTo(req.r, here.outcome)' = AnswerTo(req.r, here.outcome)
      <4>1. AnswerTo(r, here.outcome)' = AnswerTo(r, here.outcome) BY <2>2, AnswersStay
      <4> QED BY <3>3, <4>1
    <3> QED BY <2>2, <2>3, <2>4, <3>1, <3>2, <3>4 DEF RightlyAnswered, Parity
  <2> QED BY <2>5, <2>6, <2>7 DEF RightlyAnswered
<1> QED BY <1>1, <1>2

\* With the process that had it, a request is answered with no fault, or gone.
LEMMA LostPlainly ==
  ASSUME CompositionInv, RequestInv, [CompositionNext]_vars, req' = AfterLoss(joined'), RightlyAnswered
  PROVE  RightlyAnswered'
<1>1. CASE req' = req BY <1>1, AnswersStayRight
<1>2. CASE req' = Idle
  <2>1. req'.at # "answered" BY <1>2 DEF Idle
  <2> QED BY <2>1, OnItsWay
<1>3. CASE /\ req.at = "forwarded"
           /\ req' = [req EXCEPT !.at = "answered", !.answer = OwnAnswer(req.r, 503)]
           /\ proc'[Server].stage = "serving"
  <2>1. OwnAnswer(req.r, 503).status # 500 BY OwnStatus
  <2> QED BY <1>3, <2>1, PlainlyAnswered
<1> QED BY <1>1, <1>2, <1>3, LossHolds

LEMMA RightlySteps ==
  ASSUME Inv, RightlyAnswered, [Next]_allVars PROVE RightlyAnswered'
<1>1. CompositionInv /\ RequestInv BY DEF Inv
<1>2. CASE UNCHANGED <<vars, req>> BY <1>1, <1>2, AnswersStayRight
<1>3. CASE \E r \in Requests : Arrives(r)
  <2>1. req'.at = "arrived" BY <1>3 DEF Arrives, Steps
  <2> QED BY <2>1, OnItsWay
<1>4. CASE GoesToParent
  <2>1. req.at = "arrived" /\ req' = [req EXCEPT !.p = Server] BY <1>4 DEF GoesToParent, Steps
  <2>2. req'.at # "answered" BY <1>1, <2>1, AtIs DEF Asked, IsReq, ReqFields
  <2> QED BY <2>2, OnItsWay
<1>5. CASE Preflight \/ Turned BY <1>1, <1>5, StartsPlainly
<1>6. CASE Demuxes BY <1>1, <1>6, DemuxesPlainly
<1>7. CASE Executes
  BY <1>1, <1>7, ExecutedCrashes, ExecutedAllows, ExecutedParity DEF RightlyAnswered
<1>8. CASE Forwards BY <1>1, <1>8, ForwardsPlainly
<1>9. CASE ExecutesThere
  BY <1>1, <1>9, ExecutedThereCrashes, ExecutedThereAllows, ExecutedThereParity DEF RightlyAnswered
<1>10. CASE Ended
  <2>1. req'.at # "answered" BY <1>10 DEF Ended, Steps, Idle
  <2> QED BY <2>1, OnItsWay
<1>11. CASE Leaves BY <1>2, <1>11 DEF Leaves
<1>12. CASE CompositionNext /\ req' = AfterLoss(joined') BY <1>1, <1>12, LostPlainly
<1>13. CASE UNCHANGED allVars BY <1>2, <1>13 DEF allVars, execution
<1> QED BY <1>3, <1>4, <1>5, <1>6, <1>7, <1>8, <1>9, <1>10, <1>11, <1>12, <1>13 DEF Next

LEMMA RightlyHolds == Spec => []RightlyAnswered
<1>1. Init => Inv /\ RightlyAnswered
  <2>1. Init => RightlyAnswered
    BY DEF Init, Idle, RightlyAnswered, OnlyCrashesAre500, RunsAsAllowed, Parity
  <2> QED BY <2>1, InvStarts
<1>2. (Inv /\ RightlyAnswered) /\ [Next]_allVars => (Inv /\ RightlyAnswered)'
  BY InvSteps, RightlySteps
<1> QED BY <1>1, <1>2, PTL DEF Spec

(* Of what a caller sends, path, credential, arguments and body are never    *)
(* answered as a fault of the server, by any face and in any process.  A 500 *)
(* is a handler that raised, a stream where the face has none (by HTTP under *)
(* the method WSK), cookies or a query that do not decode, which nothing     *)
(* guards (request.py:172-174), or an answer of data to a request whose      *)
(* header names no encoder (request.py:177-180, response.py:226-232).        *)
THEOREM FaultsAreOfHandlers == Spec => []OnlyCrashesAre500
<1>1. RightlyAnswered => OnlyCrashesAre500 BY DEF RightlyAnswered
<1> QED BY <1>1, RightlyHolds, PTL

(* A handler runs only for who its rule admits, under the credential that    *)
(* was presented, verified by the process that runs it, and a tool only if   *)
(* the caller is listed it.                                                  *)
THEOREM HandlersRunAsAllowed == Spec => []RunsAsAllowed
<1>1. RightlyAnswered => RunsAsAllowed BY DEF RightlyAnswered
<1> QED BY <1>1, RightlyHolds, PTL

(* An application answers alike in the server and in a process of its own,   *)
(* on every path that its process leads where the server does, and but for a *)
(* stream that is asked for by HTTP with the method WSK.  What the recipes   *)
(* declare is not restricted: which paths do not cross is in the statement.  *)
THEOREM ProcessesAnswerAlike == Spec => []Parity
<1>1. RightlyAnswered => Parity BY DEF RightlyAnswered
<1> QED BY <1>1, RightlyHolds, PTL
=============================================================================
