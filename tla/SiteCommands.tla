---------------------------- MODULE SiteCommands ----------------------------
(***************************************************************************)
(* The `kajenn` command (__main__.py): the site cards and pid files under  *)
(* ~/.kajenn, and the processes of the operating system that read and      *)
(* write them with no lock: `serve`, `stop`, `remove`, `configure` and     *)
(* `db`, each a process of its own, run from several shells.               *)
(*                                                                         *)
(* A pid names a process while it lives and is given to another one later. *)
(* One write of a file is atomic.  A launch keeps what it read and what it *)
(* built; a shell keeps how far its command has come.                      *)
(*                                                                         *)
(* `raced`, `used` and `leaked` are history: no action reads them.         *)
(***************************************************************************)
EXTENDS Naturals

CONSTANTS
  Names,      \* names of sites
  Homes,      \* folders a site may own
  BaseDir,    \* the kajenn home, which is no site's
  Pids,
  Shells,     \* where the short commands are typed
  Launches,   \* the `serve` command lines: records of Options
  Templates,  \* CONFIGURATION_TEMPLATES
  Forms,      \* the answers `configure` is given
  Declared,   \* the site and home declared by the one recipe outside the homes
  Handlers,   \* how many database handlers a `db` command opens
  MaxCalls,   \* bound: commands, launches and strangers together
  None

ASSUME CommandAssumption ==
  /\ BaseDir \notin Homes /\ {Handlers, MaxCalls} \subseteq Nat
  /\ None \notin Names \cup Homes \cup Pids
  /\ \A f \in Forms : f.home \in Homes \cup {BaseDir} /\ f.port \in Nat

VARIABLES
  cards,     \* sites/<name>.json
  pidfile,   \* run/<name>.pid
  homes,     \* the homes laid out on disk
  recipes,   \* the site that the config.py of a home declares, or None
  proc,      \* the process of each pid
  shell,     \* the command of each shell
  raced,     \* names whose files two commands were ever at together
  used,      \* pids that ever were written under a name
  leaked,    \* handlers left open by a `db` command that was not cut short
  calls

disk == <<cards, pidfile, homes, recipes>>
siteVars == <<disk, proc, shell, raced, used, leaked, calls>>

\* The absolute path of a recipe, a relative one (config.py, as `configure` names
\* it), a template, a class.  A relative path is looked for in the home once
\* there is one, else in the working directory, which is no site's home; `here`
\* says whether the recipe outside the homes is in that of the command.
Sources == {"file", "recipe", "template", "target"}
Options == [source: Sources \cup Names, name: Names \cup {None}, home: Homes \cup {None},
            port: Nat, role: BOOLEAN, here: BOOLEAN]
Declarations == [site: Names \cup {None}, home: Homes \cup {None}]
Cards == [source: Sources, home: Homes \cup {None}, port: Nat]

ASSUME LaunchesAssumption ==
  /\ Launches \subseteq Options /\ Declared \in Declarations
  /\ Sources \cap Homes = {} /\ None \notin Cards

Free == [kind |-> "free"]
Idle == [op |-> "idle"]
IsServe(p) == proc[p].kind = "serve"
Alive(p) == proc[p].kind # "free"

\* read_pid: the recorded pid, when its process lives and is ours to signal.
ReadPid(n) ==
  IF pidfile[n] # None /\ proc[pidfile[n]].kind \in {"serve", "stranger"}
    THEN pidfile[n] ELSE None

-----------------------------------------------------------------------------
(* ServerLauncher.                                                         *)

\* adopt_registered: a name is its card, and what the command line gave wins.
Adopted(o) ==
  IF o.source \notin Names THEN o
  ELSE LET card == cards[o.source] IN
       [o EXCEPT !.source = card.source,
                 !.name = IF @ = None THEN o.source ELSE @,
                 !.home = IF @ = None THEN card.home ELSE @,
                 !.port = IF @ = 0 THEN card.port ELSE @]

\* save_session_path: the snapshot of a named site, in its home or the base.
Snapshot(l) ==
  IF l.name = None THEN None
  ELSE <<IF l.home = None THEN BaseDir ELSE l.home, l.name>>

\* resolved_source: a relative path with a home is the config.py of that home,
\* which is named by the home; without one it is the recipe outside the homes.
Resolved(l) ==
  IF l.source # "recipe" THEN l.source ELSE IF l.home = None THEN "file" ELSE l.home

\* is_config_path, of a relative path.
IsThere(l) == IF l.home = None THEN l.here ELSE recipes[l.home] # None

\* What the configuration says of its site: `configure` wrote both words in the
\* recipe of a home; a template and a class say nothing.
DeclaredBy(l) ==
  LET file == Resolved(l) IN
  CASE file = "file" -> Declared
    [] file \in Homes -> [site |-> recipes[file], home |-> file]
    [] OTHER -> [site |-> None, home |-> None]

\* adopt_site_identity, and the same precedence in the constructor: what the
\* command line leaves out, the configuration declares.
Completed(l, declared) ==
  [l EXCEPT !.name = IF @ = None THEN declared.site ELSE @,
            !.home = IF @ = None THEN declared.home ELSE @]
Named(l) == Completed(l, DeclaredBy(l))

\* AsgiServer(...): what was given, else what the configuration declares.  The
\* process of a role that reads a recipe is given neither.
ServerOf(l) ==
  LET bare == l.role /\ l.source \notin {"template", "target"}
      given == IF bare THEN [l EXCEPT !.name = None, !.home = None] ELSE l
      named == Completed(given, DeclaredBy(l))
  IN [source |-> Resolved(l), port |-> IF bare THEN 0 ELSE l.port,
      site |-> named.name, home |-> named.home, snapshot |-> Snapshot(given)]

\* launcher_payload and serve_reloading: what crosses to the reloaded process,
\* with the address that this launch resolved, and the source resolved again:
\* the home may have been adopted since the server was built.
Payload(l, server) == [l EXCEPT !.source = Resolved(l), !.port = server.port]

\* Mutant of Rebuilt: the payload forgets the folder the site owns.
RebuiltWithoutHome(l, server) == ServerOf([Payload(l, server) EXCEPT !.home = None])

\* factory: the server built again, in the process of every reload.
Rebuilt(l, server) == ServerOf(Payload(l, server))

\* Mutant of Entry: the source is stored resolved.
EntryResolved(l) ==
  [source |-> Resolved(l), home |-> l.home, port |-> l.port]

\* ServerLauncher.entry: the source as it was given.
Entry(l) == [source |-> l.source, home |-> l.home, port |-> l.port]

\* ServerLauncher(options): what is no recipe that is there is taken for a name,
\* and a name needs its card, else the command fails.
Launch(o, p) ==
  /\ ~Alive(p)
  /\ o.source \in Names => cards[o.source] # None
  /\ o.source = "recipe" => IsThere(o)
  /\ proc' = [proc EXCEPT ![p] =
       [kind |-> "serve", pc |-> "build", l |-> Adopted(o), server |-> None,
        read |-> IF o.source \in Names THEN cards[o.source] ELSE None,
        plain |-> o.source \in Names /\ o.name = None /\ o.home = None /\ o.port = 0,
        adopted |-> {}]]
  /\ UNCHANGED <<disk, shell, used, leaked>>

At(p, pc) == IsServe(p) /\ proc[p].pc = pc
Goes(p, pc) == proc' = [proc EXCEPT ![p].pc = pc]

\* Mutant of Boots: a home that is not there is laid out as it is met.
BootsAnywhere(l) == TRUE

\* check_home, and the last branch of build_server.
Boots(l) ==
  /\ l.home # None => l.home \in homes
  /\ l.source = "recipe" => IsThere(l)

\* build_server and adopt_site_identity.
Build(p) ==
  /\ At(p, "build")
  /\ LET l == proc[p].l
         named == IF l.role THEN l ELSE Named(l)
     IN proc' = [proc EXCEPT ![p] =
          IF ~Boots(l) THEN Free
          ELSE [@ EXCEPT !.l = named, !.server = ServerOf(l),
                         !.adopted = {part \in {"name", "home"} : named[part] # l[part]},
                         !.pc = IF named.role \/ named.name = None THEN "serving" ELSE "card"]]
  /\ UNCHANGED <<disk, shell, used, leaked>>

FileCard(p) ==
  /\ At(p, "card")
  /\ cards' = [cards EXCEPT ![proc[p].l.name] = Entry(proc[p].l)]
  /\ proc' = [proc EXCEPT ![p].pc = "pid", ![p].read = None]
  /\ UNCHANGED <<pidfile, homes, recipes, shell, used, leaked>>

WritePid(p) ==
  /\ At(p, "pid")
  /\ pidfile' = [pidfile EXCEPT ![proc[p].l.name] = p]
  /\ used' = used \cup {<<proc[p].l.name, p>>}
  /\ Goes(p, "serving")
  /\ UNCHANGED <<cards, homes, recipes, shell, leaked>>

\* server.serve returns, or a KeyboardInterrupt ends it: the finally of run.
Leave(p) ==
  /\ At(p, "serving")
  /\ proc' = [proc EXCEPT ![p] =
       IF proc[p].l.role \/ proc[p].l.name = None THEN Free ELSE [@ EXCEPT !.pc = "clear"]]
  /\ UNCHANGED <<disk, shell, used, leaked>>

ClearPid(p) ==
  /\ At(p, "clear")
  /\ pidfile' = [pidfile EXCEPT ![proc[p].l.name] = None]
  /\ proc' = [proc EXCEPT ![p] = Free]
  /\ UNCHANGED <<cards, homes, recipes, shell, used, leaked>>

\* A crash, or SIGTERM where nothing catches it: before uvicorn installs its
\* handlers, and again when uvicorn raises the signal it had captured.
Dies(p) ==
  /\ IsServe(p)
  /\ proc' = [proc EXCEPT ![p] = Free]
  /\ UNCHANGED <<disk, shell, used, leaked>>

\* The system gives the pid to another program, of this user or of another.
Recycle(p, kind) ==
  /\ ~Alive(p)
  /\ proc' = [proc EXCEPT ![p] = [kind |-> kind]]
  /\ UNCHANGED <<disk, shell, used, leaked>>

StrangerEnds(p) ==
  /\ proc[p].kind \in {"stranger", "foreign"}
  /\ proc' = [proc EXCEPT ![p] = Free]
  /\ UNCHANGED <<disk, shell, used, leaked>>

-----------------------------------------------------------------------------
(* Cli.stop, Cli.remove.                                                   *)

Does(s, command) == shell' = [shell EXCEPT ![s] = command]

Stop(s, n) ==
  /\ shell[s] = Idle
  /\ Does(s, IF ReadPid(n) = None THEN [op |-> "clear", name |-> n]
             ELSE [op |-> "signal", name |-> n, pid |-> ReadPid(n)])
  /\ UNCHANGED <<disk, proc, used, leaked>>

\* os.kill: a process that ended since the probe reads as not running.  A site
\* takes its time to leave (Leave, Dies); a stranger of this user just ends.
SignalPid(s) ==
  /\ shell[s].op = "signal"
  /\ LET p == shell[s].pid IN
     /\ Does(s, IF Alive(p) THEN Idle ELSE [op |-> "clear", name |-> shell[s].name])
     /\ proc' = [proc EXCEPT ![p] = IF @.kind = "stranger" THEN Free ELSE @]
  /\ UNCHANGED <<disk, used, leaked>>

\* clear_pid, at the end of stop and of the registry's remove.
Clear(s) ==
  /\ shell[s].op = "clear"
  /\ pidfile' = [pidfile EXCEPT ![shell[s].name] = None]
  /\ Does(s, Idle)
  /\ UNCHANGED <<cards, homes, recipes, proc, used, leaked>>

Remove(s, n) ==
  /\ shell[s] = Idle
  /\ ReadPid(n) = None
  /\ Does(s, [op |-> "unlink", name |-> n])
  /\ UNCHANGED <<disk, proc, used, leaked>>

\* SitesRegistry.remove: no card, nothing done.
Unlink(s) ==
  /\ shell[s].op = "unlink"
  /\ LET n == shell[s].name IN
     /\ cards' = [cards EXCEPT ![n] = None]
     /\ Does(s, IF cards[n] = None THEN Idle ELSE [op |-> "clear", name |-> n])
  /\ UNCHANGED <<pidfile, homes, recipes, proc, used, leaked>>

-----------------------------------------------------------------------------
(* SiteConfigurator.                                                       *)

\* run, recipe_source and application_entries: everything is judged before
\* the first write.
Accepted(f) == f.template \in Templates /\ f.home # BaseDir /\ f.importable

Configure(s, n, f) ==
  /\ shell[s] = Idle
  /\ Accepted(f)
  /\ Does(s, [op |-> "prepare", name |-> n, form |-> f])
  /\ UNCHANGED <<disk, proc, used, leaked>>

Prepare(s) ==
  /\ shell[s].op = "prepare"
  /\ homes' = homes \cup {shell[s].form.home}
  /\ Does(s, [shell[s] EXCEPT !.op = "recipe"])
  /\ UNCHANGED <<cards, pidfile, recipes, proc, used, leaked>>

WriteRecipe(s) ==
  /\ shell[s].op = "recipe"
  /\ recipes' = [recipes EXCEPT ![shell[s].form.home] = shell[s].name]
  /\ Does(s, [shell[s] EXCEPT !.op = "save"])
  /\ UNCHANGED <<cards, pidfile, homes, proc, used, leaked>>

SaveCard(s) ==
  /\ shell[s].op = "save"
  /\ cards' = [cards EXCEPT ![shell[s].name] =
       [source |-> "recipe", home |-> shell[s].form.home, port |-> shell[s].form.port]]
  /\ Does(s, Idle)
  /\ UNCHANGED <<pidfile, homes, recipes, proc, used, leaked>>

-----------------------------------------------------------------------------
(* DatabaseCommand.operate: the handlers are opened in order, the operation *)
(* runs, and what was opened is closed, whatever raised.                   *)

Db(s) ==
  /\ shell[s] = Idle
  /\ Does(s, [op |-> "open", opened |-> 0, closed |-> 0, open |-> {}])
  /\ UNCHANGED <<disk, proc, used, leaked>>

\* The next handler opens, raises, or is cut short by an interrupt.
DbOpen(s, raises) ==
  /\ shell[s].op = "open"
  /\ shell[s].opened < Handlers
  /\ Does(s, IF raises THEN [shell[s] EXCEPT !.op = "close"]
             ELSE [shell[s] EXCEPT !.opened = @ + 1, !.open = @ \cup {shell[s].opened + 1}])
  /\ UNCHANGED <<disk, proc, used, leaked>>

\* Mutant of DbOperate: an operation that raises ends the command.
DbOperateTrusting(s, raises) ==
  /\ shell[s].op = "open"
  /\ shell[s].opened = Handlers
  /\ Does(s, [shell[s] EXCEPT !.op = "close", !.closed = IF raises THEN Handlers ELSE @])
  /\ UNCHANGED <<disk, proc, used, leaked>>

DbOperate(s, raises) ==
  /\ shell[s].op = "open"
  /\ shell[s].opened = Handlers
  /\ Does(s, [shell[s] EXCEPT !.op = "close"])
  /\ UNCHANGED <<disk, proc, used, leaked>>

\* A close that raises is reported, and the next handler is closed.
DbClose(s) ==
  /\ shell[s].op = "close"
  /\ shell[s].closed < shell[s].opened
  /\ Does(s, [shell[s] EXCEPT !.closed = @ + 1, !.open = @ \ {shell[s].closed + 1}])
  /\ UNCHANGED <<disk, proc, used, leaked>>

\* An interrupt during a close is no Exception: the loop of the finally ends.
DbInterrupted(s) ==
  /\ shell[s].op = "close"
  /\ shell[s].closed < shell[s].opened
  /\ Does(s, Idle)
  /\ UNCHANGED <<disk, proc, used, leaked>>

DbEnds(s) ==
  /\ shell[s].op = "close"
  /\ shell[s].closed = shell[s].opened
  /\ Does(s, Idle)
  /\ leaked' = leaked \cup shell[s].open
  /\ UNCHANGED <<disk, proc, used>>

-----------------------------------------------------------------------------
Serving(n) == {p \in Pids : IsServe(p) /\ proc[p].l.name = n /\ ~proc[p].l.role
                            /\ proc[p].pc \in {"card", "pid", "serving", "clear"}}
AtFiles(n) == {s \in Shells : shell[s].op \in {"signal", "clear", "unlink"} /\ shell[s].name = n}

\* Two runs of one site, or a run that files itself while a command that read
\* the pid file before has not come to its end.
Overlap(n) ==
  \/ \E p, q \in Serving(n) : p # q
  \/ AtFiles(n) # {} /\ \E p \in Serving(n) : proc[p].pc \in {"card", "pid"}

SitesInit ==
  /\ cards = [n \in Names |-> None] /\ pidfile = [n \in Names |-> None]
  /\ homes = {} /\ recipes = [h \in Homes |-> None]
  /\ proc = [p \in Pids |-> Free] /\ shell = [s \in Shells |-> Idle]
  /\ raced = {} /\ used = {} /\ leaked = {} /\ calls = 0

\* What begins: each counts against the bound of the instance.
Call ==
  \/ \E s \in Shells : \/ Db(s)
                      \/ \E n \in Names : Stop(s, n) \/ Remove(s, n)
                                         \/ \E f \in Forms : Configure(s, n, f)
  \/ \E p \in Pids : \/ \E o \in Launches : Launch(o, p)
                     \/ \E kind \in {"stranger", "foreign"} : Recycle(p, kind)

\* What goes on.
Command(s) ==
  \/ SignalPid(s) \/ Clear(s) \/ Unlink(s)
  \/ Prepare(s) \/ WriteRecipe(s) \/ SaveCard(s)
  \/ DbClose(s) \/ DbInterrupted(s) \/ DbEnds(s)
  \/ \E raises \in BOOLEAN : DbOpen(s, raises) \/ DbOperate(s, raises)

Process(p) ==
  \/ Build(p) \/ FileCard(p) \/ WritePid(p) \/ Leave(p) \/ ClearPid(p) \/ Dies(p)
  \/ StrangerEnds(p)

SitesNext ==
  /\ \/ calls < MaxCalls /\ Call /\ calls' = calls + 1
     \/ ((\E s \in Shells : Command(s)) \/ (\E p \in Pids : Process(p))) /\ UNCHANGED calls
  /\ raced' = raced \cup {n \in Names : Overlap(n)'}

SitesSpec == SitesInit /\ [][SitesNext]_siteVars

-----------------------------------------------------------------------------
SitesTypeOK ==
  /\ cards \in [Names -> Cards \cup {None}]
  /\ pidfile \in [Names -> Pids \cup {None}]
  /\ homes \subseteq Homes /\ recipes \in [Homes -> Names \cup {None}]
  /\ \A p \in Pids :
       \/ proc[p].kind \in {"free", "stranger", "foreign"}
       \/ /\ proc[p].pc \in {"build", "card", "pid", "serving", "clear"}
          /\ proc[p].l \in Options /\ proc[p].l.source \in Sources
          /\ proc[p].adopted \subseteq {"name", "home"}
  /\ raced \subseteq Names /\ used \subseteq Names \X Pids
  /\ leaked \subseteq 1 .. Handlers /\ calls \in 0 .. MaxCalls

(* `sites` and `stop` find a site that runs, and `stop` signals no process   *)
(* that never was the site: the pid file of a site that serves names its     *)
(* process unless two commands were at the files of that name together, and  *)
(* every signal goes to a pid that was written under that name               *)
(* (__main__.py:57-59, 148-199, 848-871).                                    *)
RunningIsKnown ==
  /\ \A n \in Names \ raced : \A p \in Serving(n) :
       proc[p].pc \in {"serving", "clear"} => pidfile[n] = p
  /\ \A s \in Shells : shell[s].op = "signal" => <<shell[s].name, shell[s].pid>> \in used

(* A card on file can be served: the home it names is laid out, and holds the *)
(* recipe of a relative source, before the card points at it.  Two kinds of   *)
(* card are left out: one whose home was adopted from the configuration,      *)
(* which nobody checks and in which a relative source is then looked for; and *)
(* a relative source with no home, which is served from its directory only    *)
(* (SiteConfigurator.run, check_home, resolved_source, adopt_site_identity).  *)
CardsBoot ==
  \A n \in Names : cards[n] # None =>
    /\ cards[n].home \in homes \cup {None, Declared.home}
    /\ cards[n].source = "recipe" /\ cards[n].home \notin {None, Declared.home}
         => recipes[cards[n].home] # None

\* What is on file is true: of the types, the cards and the pids.
FilesAreTrue == SitesTypeOK /\ CardsBoot /\ RunningIsKnown

(* Serving a name with no option of its own leaves its card as it is, when   *)
(* nobody wrote the card since the launch read it (run files it again on     *)
(* every boot).                                                              *)
ServingKeepsTheCard ==
  [][\A p \in Pids :
       /\ At(p, "card") /\ At(p, "pid")'
       /\ proc[p].plain
       /\ proc[p].read = cards[proc[p].l.name]
       => cards' = cards]_siteVars

(* `--reload` serves what `serve` serves: the process rebuilt from the       *)
(* environment has the identity, address, home and source of the one that    *)
(* was built here, unless a relative source was built before the home came   *)
(* from its configuration; and the same snapshot, unless the identity came   *)
(* from there (launcher_payload, resolved_source, serve_reloading, factory). *)
RebuildsTheSame ==
  \A p \in Pids : IsServe(p) /\ proc[p].pc # "build" /\ ~proc[p].l.role =>
    LET built == proc[p].server
        again == Rebuilt(proc[p].l, built)
    IN /\ ~(proc[p].l.source = "recipe" /\ "home" \in proc[p].adopted)
            => [again EXCEPT !.snapshot = None] = [built EXCEPT !.snapshot = None]
       /\ proc[p].adopted = {} => again.snapshot = built.snapshot

(* `db plan` and `db apply` close every handler they opened, whatever        *)
(* raised: only an interrupt during the closing leaves one open              *)
(* (DatabaseCommand.operate).                                                *)
OpenedIsClosed == leaked = {}

(* "What factory needs to rebuild this server in the reloaded process"       *)
(* (launcher_payload): no run checks it, because of a relative source whose  *)
(* configuration declares the home another file, or none, is read then.      *)
ReloadsWhatWasBuilt ==
  \A p \in Pids : IsServe(p) /\ proc[p].pc # "build" /\ ~proc[p].l.role =>
    Resolved(proc[p].l) = proc[p].server.source

(* "A served name records its pid in run/<name>.pid so sites shows what is   *)
(* running and stop can end it" (__main__.py:57): no run checks it, because  *)
(* of two runs of one name the first to end clears the pid of the other.     *)
EveryRunIsKnown ==
  \A n \in Names :
    Serving(n) # {} /\ (\A p \in Serving(n) : proc[p].pc = "serving") => pidfile[n] \in Serving(n)
=============================================================================
