---------------------------- MODULE TaskScheduler ----------------------------
(***************************************************************************)
(* The recurring scheduler (tasks/scheduler.py) over the schedule store    *)
(* (tasks/store.py), with the operators who edit the store and fire        *)
(* schedules by hand (tasks_section.py).                                   *)
(*                                                                         *)
(* One schedule is one JSON file. A change of it is a read in one place    *)
(* and a write of the whole record in another, and the tick, the runs, the *)
(* operators and run_now do theirs on threads of the pool: each read and   *)
(* each write below is an action. What the loop does between two awaits    *)
(* (the pass that fires due rows) is one action. The guard against         *)
(* overlapping runs is the set `running`, in memory.                       *)
(***************************************************************************)
EXTENDS Naturals, Sequences

CONSTANTS
  Codes,       \* schedules that may have a record
  Declared,    \* those whose task a mounted route declares (the others: orphans)
  Defaults,    \* those whose declaration carries a default cadence
  TaskOf,      \* TaskOf[c]: the task schedule c runs, whose log its runs share
  Callers,     \* pool threads that may be inside run_now
  LogCap,      \* LOG_CAP: the lines kept in the log of a task
  MaxTime,     \* bound: instants of the clock
  MaxEvents    \* bound: edits, calls of run_now, failures and restarts together

ASSUME CodesAssumption == Defaults \subseteq Declared /\ Declared \subseteq Codes
ASSUME LogAssumption == LogCap \in Nat \ {0}
ASSUME BoundsAssumption == MaxTime \in Nat /\ MaxEvents \in Nat

VARIABLES
  now,        \* the wall clock
  record,     \* record[c]: the schedule on disk, or NoRecord
  log,        \* log[t]: the log of task t, a line of which is a run, <<code, id>>
  running,    \* TaskScheduler._running
  runs,       \* the _execute tasks that are not over
  fired,      \* fired[c]: how many runs of c were fired (history)
  tick,       \* the tick coroutine: [at, now, todo, code]
  due,        \* due[c]: the row due_rows returned for c, or NoRecord
  caller,     \* caller[w]: the thread inside run_now: [at, code, spec]
  admin,      \* the operator inside an edit: [op, code, row]
  raced,      \* schedules whose run_now added a code that was there (history)
  leaked,     \* schedules a failing settlement left in running (history)
  events      \* how many events there have been

vars == <<now, record, log, running, runs, fired, tick, due, caller, admin,
          raced, leaked, events>>
disk    == <<record, log>>
loop    == <<tick, due>>
fires   == <<runs, fired>>
history == <<raced, leaked>>

Tasks == {TaskOf[c] : c \in Codes}
Specs == {"every", "once"}      \* a cadence with a next run, one that is exhausted
Never == MaxTime + 2            \* next_run_ts None
Times == 0 .. Never

Rows     == [spec : Specs, enabled : BOOLEAN, next : Times]
NoRecord == [spec |-> "none", enabled |-> FALSE, next |-> Never]
Records  == Rows \cup {NoRecord}

NoCode == "no code"
Asleep == [at |-> "sleeping", now |-> 0, todo |-> {}, code |-> NoCode]
NoCall == [at |-> "idle", code |-> NoCode, spec |-> "none"]
NoEdit == [op |-> "none", code |-> NoCode, row |-> NoRecord]
Edits  == {"create", "update", "enable", "disable"}
Stages == {"fired", "body", "settling", "saving", "logging", "appending", "ending"}

Lines == Codes \X Nat
Logs == {lines \in Seq(Lines) : Len(lines) <= LogCap}
Runs == [code : Codes, id : Nat, stage : Stages, spec : Specs, started : Times,
         row : Records, lines : Logs]

TypeOK ==
  /\ now \in 0 .. MaxTime
  /\ record \in [Codes -> Records]
  /\ log \in [Tasks -> Logs]
  /\ running \in SUBSET Codes
  /\ runs \in SUBSET Runs
  /\ fired \in [Codes -> Nat]
  /\ tick \in [at : {"sleeping", "syncing", "creating", "reading"}, now : 0 .. MaxTime,
               todo : SUBSET Codes, code : Codes \cup {NoCode}]
  /\ due \in [Codes -> Records]
  /\ caller \in [Callers -> [at : {"idle", "read", "checked", "added"},
                             code : Codes \cup {NoCode}, spec : Specs \cup {"none"}]]
  /\ admin \in [op : Edits \cup {"none"}, code : Codes \cup {NoCode}, row : Records]
  /\ raced \in SUBSET Codes /\ leaked \in SUBSET Codes
  /\ events \in 0 .. MaxEvents

-----------------------------------------------------------------------------

\* TaskCadence.get_next_run: an interval of one instant, or an exhausted list.
NextRun(spec, after) == IF spec = "every" THEN after + 1 ELSE Never

NewRow(spec, t) == [spec |-> spec, enabled |-> TRUE, next |-> NextRun(spec, t)]

\* due_rows: an enabled record whose next run has come.
IsDue(row, t) == row.enabled /\ row.next <= t

\* create_task(_execute(row, ...)), for each code of a set.
NewRun(c, spec) ==
  [code |-> c, id |-> fired[c] + 1, stage |-> "fired", spec |-> spec,
   started |-> 0, row |-> NoRecord, lines |-> <<>>]

FireAll(S, spec) ==
  /\ runs' = runs \cup {NewRun(c, spec[c]) : c \in S}
  /\ fired' = [c \in Codes |-> IF c \in S THEN fired[c] + 1 ELSE fired[c]]

Happens == events < MaxEvents /\ events' = events + 1

Init ==
  /\ now = 0 /\ events = 0
  /\ record = [c \in Codes |-> NoRecord]
  /\ log = [t \in Tasks |-> <<>>]
  /\ running = {} /\ runs = {} /\ fired = [c \in Codes |-> 0]
  /\ tick = Asleep /\ due = [c \in Codes |-> NoRecord]
  /\ caller = [w \in Callers |-> NoCall] /\ admin = NoEdit
  /\ raced = {} /\ leaked = {}

Clock ==
  /\ now < MaxTime /\ now' = now + 1
  /\ UNCHANGED <<disk, running, fires, loop, caller, admin, history, events>>

-----------------------------------------------------------------------------
(* The tick: sync the defaults and read the due rows, both on a thread;    *)
(* then, back on the loop, fire them.                                      *)

TickBegins ==
  /\ tick.at = "sleeping"
  /\ tick' = [at |-> "syncing", now |-> now, todo |-> Defaults, code |-> NoCode]
  /\ UNCHANGED <<now, disk, running, fires, due, caller, admin, history, events>>

\* upsert_default, first half: is there a record?
SyncLooks(c) ==
  /\ tick.at = "syncing" /\ c \in tick.todo
  /\ tick' = [tick EXCEPT !.todo = @ \ {c},
                          !.at = IF record[c] = NoRecord THEN "creating" ELSE @,
                          !.code = IF record[c] = NoRecord THEN c ELSE @]
  /\ UNCHANGED <<now, disk, running, fires, due, caller, admin, history, events>>

\* upsert_default, second half: the code-default record.
SyncCreates(c) ==
  /\ tick.at = "creating" /\ c = tick.code
  /\ record' = [record EXCEPT ![c] = NewRow("every", tick.now)]
  /\ tick' = [tick EXCEPT !.at = "syncing", !.code = NoCode]
  /\ UNCHANGED <<now, log, running, fires, due, caller, admin, history, events>>

SyncEnds ==
  /\ tick.at = "syncing" /\ tick.todo = {}
  /\ tick' = [tick EXCEPT !.at = "reading", !.todo = Codes]
  /\ UNCHANGED <<now, disk, running, fires, due, caller, admin, history, events>>

\* Wrong: a row is due only after its instant has passed.
ReadRowPassed(c) ==
  /\ tick.at = "reading" /\ c \in tick.todo
  /\ tick' = [tick EXCEPT !.todo = @ \ {c}]
  /\ due' = [due EXCEPT ![c] = IF record[c].enabled /\ record[c].next < tick.now
                               THEN record[c] ELSE NoRecord]
  /\ UNCHANGED <<now, disk, running, fires, caller, admin, history, events>>

ReadRow(c) ==
  /\ tick.at = "reading" /\ c \in tick.todo
  /\ tick' = [tick EXCEPT !.todo = @ \ {c}]
  /\ due' = [due EXCEPT ![c] = IF IsDue(record[c], tick.now) THEN record[c] ELSE NoRecord]
  /\ UNCHANGED <<now, disk, running, fires, caller, admin, history, events>>

\* The pass over the due rows: no overlap, no orphan.
FireDue ==
  LET go == {c \in Declared : due[c] # NoRecord /\ c \notin running}
  IN  /\ tick.at = "reading" /\ tick.todo = {}
      /\ FireAll(go, [c \in go |-> due[c].spec])
      /\ running' = running \cup go
      /\ tick' = Asleep /\ due' = [c \in Codes |-> NoRecord]
      /\ UNCHANGED <<now, disk, caller, admin, history, events>>

\* The store raises under the tick: _run_loop logs it and sleeps.
TickFails ==
  /\ tick.at \in {"syncing", "creating", "reading"} /\ Happens
  /\ tick' = Asleep /\ due' = [c \in Codes |-> NoRecord]
  /\ UNCHANGED <<now, disk, running, fires, caller, admin, history>>

-----------------------------------------------------------------------------
(* A run: the body, then its settlement, a read-merge-write of the record  *)
(* and a read-append-write of the log; the guard is dropped last.          *)

Becomes(r, changed) == runs' = (runs \ {r}) \cup {changed}

Begins(r) ==
  /\ r.stage = "fired"
  /\ Becomes(r, [r EXCEPT !.stage = "body", !.started = now])
  /\ UNCHANGED <<now, disk, running, fired, loop, caller, admin, history, events>>

\* Wrong: the guard is dropped when the body ends.
BodyDropsGuard(r) ==
  /\ r.stage = "body"
  /\ Becomes(r, [r EXCEPT !.stage = "settling"])
  /\ running' = running \ {r.code}
  /\ UNCHANGED <<now, disk, fired, loop, caller, admin, history, events>>

\* The body returns or raises: both settle.
BodyEnds(r) ==
  /\ r.stage = "body"
  /\ Becomes(r, [r EXCEPT !.stage = "settling"])
  /\ UNCHANGED <<now, disk, running, fired, loop, caller, admin, history, events>>

\* update_run, first half: a record that is gone is left alone.
UpdateReads(r) ==
  /\ r.stage = "settling"
  /\ Becomes(r, IF record[r.code] = NoRecord
                THEN [r EXCEPT !.stage = "logging"]
                ELSE [r EXCEPT !.stage = "saving", !.row = record[r.code]])
  /\ UNCHANGED <<now, disk, running, fired, loop, caller, admin, history, events>>

\* update_run, second half: the whole record as read, with the next run of
\* the cadence the row had when it was fired.
UpdateSaves(r) ==
  /\ r.stage = "saving"
  /\ record' = [record EXCEPT ![r.code] = [r.row EXCEPT !.next = NextRun(r.spec, r.started)]]
  /\ Becomes(r, [r EXCEPT !.stage = "logging", !.row = NoRecord])
  /\ UNCHANGED <<now, log, running, fired, loop, caller, admin, history, events>>

LogReads(r) ==
  /\ r.stage = "logging"
  /\ Becomes(r, [r EXCEPT !.stage = "appending", !.lines = log[TaskOf[r.code]]])
  /\ UNCHANGED <<now, disk, running, fired, loop, caller, admin, history, events>>

\* append_log keeps the last LOG_CAP lines.
Newest(lines) ==
  SubSeq(lines, IF Len(lines) > LogCap THEN Len(lines) - LogCap + 1 ELSE 1, Len(lines))

\* Wrong: the log is written, not appended to.
LogOverwrites(r) ==
  /\ r.stage = "appending"
  /\ log' = [log EXCEPT ![TaskOf[r.code]] = <<<<r.code, r.id>>>>]
  /\ Becomes(r, [r EXCEPT !.stage = "ending", !.lines = <<>>])
  /\ UNCHANGED <<now, record, running, fired, loop, caller, admin, history, events>>

LogWrites(r) ==
  /\ r.stage = "appending"
  /\ log' = [log EXCEPT ![TaskOf[r.code]] = Newest(Append(r.lines, <<r.code, r.id>>))]
  /\ Becomes(r, [r EXCEPT !.stage = "ending", !.lines = <<>>])
  /\ UNCHANGED <<now, record, running, fired, loop, caller, admin, history, events>>

Ends(r) ==
  /\ r.stage = "ending"
  /\ running' = running \ {r.code}
  /\ runs' = runs \ {r}
  /\ UNCHANGED <<now, disk, fired, loop, caller, admin, history, events>>

\* The store raises under the settlement: _execute ends there.
SettleFails(r) ==
  /\ r.stage \in {"settling", "saving", "logging", "appending"} /\ Happens
  /\ runs' = runs \ {r}
  /\ leaked' = leaked \cup {r.code}
  /\ UNCHANGED <<now, disk, running, fired, loop, caller, admin, raced>>

-----------------------------------------------------------------------------
(* run_now on a pool thread: read the row, look at the guard, add to it,   *)
(* hand the run to the loop. The loop and the other threads run between.   *)

NowReads(w, c) ==
  /\ caller[w].at = "idle" /\ Happens
  /\ c \in Declared /\ record[c] # NoRecord
  /\ caller' = [caller EXCEPT ![w] = [at |-> "read", code |-> c, spec |-> record[c].spec]]
  /\ UNCHANGED <<now, disk, running, fires, loop, admin, history>>

NowChecks(w) ==
  /\ caller[w].at = "read"
  /\ caller' = [caller EXCEPT ![w] = IF caller[w].code \in running THEN NoCall
                                     ELSE [@ EXCEPT !.at = "checked"]]
  /\ UNCHANGED <<now, disk, running, fires, loop, admin, history, events>>

NowAdds(w) ==
  LET c == caller[w].code
  IN  /\ caller[w].at = "checked"
      /\ caller' = [caller EXCEPT ![w].at = "added"]
      /\ running' = running \cup {c}
      /\ raced' = raced \cup ({c} \cap running)
      /\ UNCHANGED <<now, disk, fires, loop, admin, leaked, events>>

NowStarts(w) ==
  /\ caller[w].at = "added"
  /\ FireAll({caller[w].code}, [c \in Codes |-> caller[w].spec])
  /\ caller' = [caller EXCEPT ![w] = NoCall]
  /\ UNCHANGED <<now, disk, running, loop, admin, history, events>>

\* run_on_loop raises: the guard is released.
NowStartFails(w) ==
  /\ caller[w].at = "added" /\ Happens
  /\ running' = running \ {caller[w].code}
  /\ caller' = [caller EXCEPT ![w] = NoCall]
  /\ UNCHANGED <<now, disk, fires, loop, admin, history>>

-----------------------------------------------------------------------------
(* The operators: create, update, enable and disable read the record and   *)
(* save the whole of it later; delete removes the file.                    *)

AdminReads(op, c) ==
  /\ admin = NoEdit /\ Happens
  /\ (op = "create") <=> (record[c] = NoRecord)
  /\ admin' = [op |-> op, code |-> c, row |-> record[c]]
  /\ UNCHANGED <<now, disk, running, fires, loop, caller, history>>

\* The record an edit makes of the row it read.
EditedRow(spec) ==
  CASE admin.op = "create"  -> NewRow(spec, now)
    [] admin.op = "update"  -> [admin.row EXCEPT !.spec = spec, !.next = NextRun(spec, now)]
    [] admin.op = "enable"  -> [admin.row EXCEPT !.enabled = TRUE]
    [] admin.op = "disable" -> [admin.row EXCEPT !.enabled = FALSE]

AdminSaves ==
  /\ admin # NoEdit
  /\ \E spec \in Specs : record' = [record EXCEPT ![admin.code] = EditedRow(spec)]
  /\ admin' = NoEdit
  /\ UNCHANGED <<now, log, running, fires, loop, caller, history, events>>

AdminDeletes(c) ==
  /\ record[c] # NoRecord /\ Happens
  /\ record' = [record EXCEPT ![c] = NoRecord]
  /\ UNCHANGED <<now, log, running, fires, loop, caller, admin, history>>

\* The process dies and is started again: the store is all that is left.
Restart ==
  /\ Happens
  /\ running' = {} /\ runs' = {} /\ raced' = {} /\ leaked' = {}
  /\ tick' = Asleep /\ due' = [c \in Codes |-> NoRecord]
  /\ caller' = [w \in Callers |-> NoCall] /\ admin' = NoEdit
  /\ UNCHANGED <<now, disk, fired>>

-----------------------------------------------------------------------------

TickStep ==
  \/ TickBegins \/ SyncEnds \/ FireDue
  \/ \E c \in Codes : SyncLooks(c) \/ SyncCreates(c) \/ ReadRow(c)

RunStep(r) ==
  \/ Begins(r) \/ BodyEnds(r) \/ UpdateReads(r) \/ UpdateSaves(r)
  \/ LogReads(r) \/ LogWrites(r) \/ Ends(r)

CallStep(w) == NowChecks(w) \/ NowAdds(w) \/ NowStarts(w)

Next ==
  \/ Clock
  \/ TickStep \/ TickFails
  \/ \E r \in runs : RunStep(r) \/ SettleFails(r)
  \/ \E w \in Callers : CallStep(w) \/ NowStartFails(w) \/ \E c \in Codes : NowReads(w, c)
  \/ AdminSaves
  \/ \E c \in Codes : AdminDeletes(c) \/ \E op \in Edits : AdminReads(op, c)
  \/ Restart

\* Time passes, the loop and its threads run, bodies end.
Fairness ==
  /\ WF_vars(Clock) /\ WF_vars(TickStep)
  /\ \A c \in Codes : WF_vars(\E r \in runs : r.code = c /\ RunStep(r))
  /\ \A w \in Callers : WF_vars(CallStep(w))

Spec == Init /\ [][Next]_vars /\ Fairness

-----------------------------------------------------------------------------
(* Properties.                                                             *)

InFlight(c) == {r \in runs : r.code = c}

\* scheduler.py, "No overlap": two runs of one schedule are in flight only
\* after a run_now whose look at the guard went stale before its add.
OverlapNeedsRace ==
  \A r, q \in runs : r.code = q.code /\ r # q => r.code \in raced

\* Until then the guard covers every run from its firing to its last write.
GuardCoversRuns == \A r \in runs : r.code \in raced \cup running

\* A schedule is held back only by a run in flight, by a run_now that is about
\* to start one, or by a settlement that failed.
HeldBackForReason ==
  \A c \in running :
    \/ InFlight(c) # {} \/ c \in leaked
    \/ \E w \in Callers : caller[w].at = "added" /\ caller[w].code = c

\* The guard of a schedule is taken when it must be and only then: the three
\* above together.
GuardIsRight == TypeOK /\ OverlapNeedsRace /\ GuardCoversRuns /\ HeldBackForReason

\* A log as it was, or with one more line after it; at the cap the oldest goes.
Appended(old, new) ==
  \/ new = old
  \/ /\ new # <<>>
     /\ new = Append(IF Len(old) < LogCap THEN old ELSE Tail(old), new[Len(new)])

\* append_log rewrites the file with what it read of it: with one schedule per
\* task, and until a run_now of it races, no line is lost but the oldest of a
\* log at its cap, and none changes its place (tasks/store.py:209-215).
LogKeepsLines ==
  [][\A c \in Codes :
       (\A d \in Codes \ {c} : TaskOf[d] # TaskOf[c]) /\ c \notin raced
         => Appended(log[TaskOf[c]], log'[TaskOf[c]])]_vars

\* A due schedule of a declared task is fired, unless it stops being due
\* or a failed settlement holds it back.
DueIsFired ==
  \A c \in Declared : \A n \in 0 .. MaxTime :
    IsDue(record[c], now) /\ fired[c] = n
      ~> fired[c] > n \/ ~IsDue(record[c], now) \/ c \in leaked

-----------------------------------------------------------------------------
(* What the documentation says and the code does not do.                   *)

\* scheduler.py: "a schedule whose previous run is still in flight is skipped".
NoOverlap == \A r, q \in runs : r.code = q.code => r = q
=============================================================================
