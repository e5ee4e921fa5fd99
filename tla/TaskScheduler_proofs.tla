------------------------ MODULE TaskScheduler_proofs ------------------------
(***************************************************************************)
(* For any schedules, tasks and threads of run_now, and for any bounds:    *)
(* two runs of one schedule are in flight only after a race of run_now,    *)
(* the guard covers every run until then, and a schedule is held back only *)
(* for a reason; and a log that one schedule writes loses no line but the  *)
(* oldest at its cap, whatever the cap.                                    *)
(*                                                                         *)
(* The guard is taken by the tick on the loop and by run_now on a thread,  *)
(* which fires its run in a later step: AddedIsAlone is what makes the     *)
(* three inductive.                                                        *)
(***************************************************************************)
EXTENDS TaskScheduler, SequenceTheorems, TLAPS

Adding(w, c) == caller[w].at = "added" /\ caller[w].code = c

\* A run_now that took the guard, and did not take it twice, is the only one
\* with a claim to a run of its schedule.
AddedIsAlone ==
  \A w \in Callers : \A c \in Codes \ raced : Adding(w, c) =>
    /\ c \in running /\ InFlight(c) = {}
    /\ \A v \in Callers \ {w} : ~Adding(v, c)

\* What an operator, a run and a thread of run_now hold while they are at it.
AdminHolds ==
  /\ admin # NoEdit => admin.op \in Edits /\ admin.code \in Codes
  /\ admin.op \in {"update", "enable", "disable"} => admin.row \in Rows
RunsHold == \A r \in runs : r.started <= MaxTime /\ (r.stage = "saving" => r.row \in Rows)
CallersHold ==
  \A w \in Callers : caller[w].at # "idle" => caller[w].code \in Codes /\ caller[w].spec \in Specs

Ticks == [at : {"sleeping", "syncing", "creating", "reading"}, now : 0 .. MaxTime,
          todo : SUBSET Codes, code : Codes \cup {NoCode}]

Typed == TypeOK /\ AdminHolds /\ RunsHold /\ CallersHold
Guarded == OverlapNeedsRace /\ GuardCoversRuns /\ HeldBackForReason /\ AddedIsAlone
IInv == Typed /\ Guarded

-----------------------------------------------------------------------------
(* Types. *)

\* A cadence gives a next run in the model's time.
LEMMA NextRunType ==
  ASSUME NEW spec \in Specs, NEW t \in 0 .. MaxTime
  PROVE  NextRun(spec, t) \in Times /\ NewRow(spec, t) \in Rows
BY BoundsAssumption DEF NextRun, NewRow, Rows, Specs, Times, Never

\* A row is a record with a cadence.
LEMMA RowsAreRecords ==
  /\ Rows \subseteq Records /\ NoRecord \in Records /\ NoRecord \notin Rows
  /\ \A row \in Records : row # NoRecord => row \in Rows /\ row.spec \in Specs
BY DEF Rows, Records, NoRecord, Specs

\* The bound on events.
LEMMA EventsType ==
  ASSUME events \in 0 .. MaxEvents, Happens PROVE events' \in 0 .. MaxEvents
BY BoundsAssumption DEF Happens

\* A log and a line more: at the cap the oldest line goes, and no other.
LEMMA Capped ==
  ASSUME NEW lines \in Logs, NEW line \in Lines
  PROVE  /\ <<>> \in Logs
         /\ Newest(Append(lines, line)) =
              Append(IF Len(lines) < LogCap THEN lines ELSE Tail(lines), line)
         /\ Newest(Append(lines, line)) \in Logs
<1> DEFINE full == Append(lines, line)
<1>1. lines \in Seq(Lines) /\ Len(lines) \in Nat /\ Len(lines) <= LogCap
  BY LenProperties DEF Logs
<1>2. full \in Seq(Lines) /\ Len(full) = Len(lines) + 1 BY <1>1, AppendProperties
<1>3. <<>> \in Logs BY LogAssumption DEF Logs
<1>4. CASE Len(lines) < LogCap
  <2>1. ~(Len(full) > LogCap) BY <1>1, <1>2, <1>4, LogAssumption
  <2>2. SubSeq(full, 1, Len(full)) = full BY <1>2, SubSeqFull
  <2>3. Newest(full) = full BY <2>1, <2>2 DEF Newest
  <2>4. full \in Logs BY <1>1, <1>2, <1>4, LogAssumption DEF Logs
  <2> QED BY <1>3, <1>4, <2>3, <2>4
<1>5. CASE ~(Len(lines) < LogCap)
  <2>1. Len(lines) = LogCap /\ lines # <<>> BY <1>1, <1>5, LogAssumption, EmptySeq
  <2>2. Len(full) > LogCap /\ Len(full) - LogCap + 1 = 2 BY <1>1, <1>2, <2>1, LogAssumption
  <2>3. full # <<>> BY <1>1, AppendProperties
  <2>4. Newest(full) = Tail(full)
    <3>1. Tail(full) = SubSeq(full, 2, Len(full)) BY <1>2, <2>3, TailIsSubSeq
    <3> HIDE DEF full
    <3> QED BY <2>2, <3>1 DEF Newest
  <2>5. Tail(full) = Append(Tail(lines), line) BY <1>1, <2>1, HeadTailAppend
  <2>6. Tail(full) \in Seq(Lines) /\ Len(Tail(full)) = LogCap
    BY <1>1, <1>2, <2>1, <2>3, HeadTailProperties
  <2>7. Tail(full) \in Logs BY <2>6, LogAssumption DEF Logs
  <2> QED BY <1>3, <1>5, <2>4, <2>5, <2>7
<1> QED BY <1>4, <1>5

\* Before the first tick.
LEMMA InitTyped == Init => IInv
<1> SUFFICES ASSUME Init PROVE IInv OBVIOUS
<1> USE DEF Init
<1>1. TypeOK
  <2>1. NoRecord \in Records BY RowsAreRecords
  <2>2. tick \in [at : {"sleeping", "syncing", "creating", "reading"}, now : 0 .. MaxTime,
                  todo : SUBSET Codes, code : Codes \cup {NoCode}]
    BY BoundsAssumption DEF Asleep
  <2>3. <<>> \in Logs BY LogAssumption, EmptySeq DEF Logs
  <2> QED BY <2>1, <2>2, <2>3, BoundsAssumption DEF TypeOK, NoCall, NoEdit
<1>2. Typed BY <1>1 DEF Typed, AdminHolds, RunsHold, CallersHold, NoCall, NoEdit
<1>3. Guarded
  BY DEF Guarded, OverlapNeedsRace, GuardCoversRuns, HeldBackForReason, AddedIsAlone, Adding, NoCall
<1> QED BY <1>2, <1>3 DEF IInv

\* The tick, but for the pass that fires.
LEMMA TickTyped ==
  ASSUME Typed,
         \/ TickBegins \/ SyncEnds \/ TickFails
         \/ \E c \in Codes : SyncLooks(c) \/ SyncCreates(c) \/ ReadRow(c)
  PROVE  Typed'
<1> USE DEF Typed, disk, loop, fires, history
<1>1. UNCHANGED <<now, log, running, runs, fired, caller, admin, raced, leaked>>
  BY DEF TickBegins, SyncEnds, TickFails, SyncLooks, SyncCreates, ReadRow
<1>2. tick' \in Ticks
  <2>1. tick \in Ticks /\ now \in 0 .. MaxTime BY DEF TypeOK, Ticks
  <2> USE <2>1 DEF Ticks
  <2>2. CASE TickBegins BY <2>2, CodesAssumption DEF TickBegins
  <2>3. CASE SyncEnds BY <2>3 DEF SyncEnds
  <2>4. CASE TickFails BY <2>4, BoundsAssumption DEF TickFails, Asleep
  <2>5. ASSUME NEW c \in Codes, SyncLooks(c) PROVE tick' \in Ticks
    <3>1. CASE record[c] = NoRecord BY <2>5, <3>1 DEF SyncLooks
    <3>2. CASE record[c] # NoRecord
      <4>1. tick' = [tick EXCEPT !.todo = @ \ {c}, !.at = tick.at, !.code = tick.code]
        BY <2>5, <3>2 DEF SyncLooks
      <4> QED BY <4>1
    <3> QED BY <3>1, <3>2
  <2>6. ASSUME NEW c \in Codes, SyncCreates(c) PROVE tick' \in Ticks BY <2>6 DEF SyncCreates
  <2>7. ASSUME NEW c \in Codes, ReadRow(c) PROVE tick' \in Ticks BY <2>7 DEF ReadRow
  <2> QED BY <2>2, <2>3, <2>4, <2>5, <2>6, <2>7
<1>3. record' \in [Codes -> Records]
  <2>1. ASSUME NEW c \in Codes, SyncCreates(c) PROVE record' \in [Codes -> Records]
    <3>1. NewRow("every", tick.now) \in Records
      BY NextRunType, RowsAreRecords DEF TypeOK, Specs
    <3> QED BY <2>1, <3>1 DEF SyncCreates, TypeOK
  <2> QED BY <2>1 DEF TypeOK, TickBegins, SyncEnds, TickFails, SyncLooks, ReadRow
<1>4. due' \in [Codes -> Records]
  BY RowsAreRecords DEF TypeOK, TickBegins, SyncEnds, TickFails, SyncLooks, SyncCreates, ReadRow
<1>5. events' \in 0 .. MaxEvents
  <2>1. UNCHANGED events \/ Happens
    BY DEF TickBegins, SyncEnds, TickFails, SyncLooks, SyncCreates, ReadRow
  <2> QED BY <2>1, EventsType DEF TypeOK
<1>6. TypeOK' BY <1>1, <1>2, <1>3, <1>4, <1>5 DEF TypeOK, Ticks
<1> QED BY <1>1, <1>6 DEF AdminHolds, RunsHold, CallersHold

\* Firing: a run is made of a row.
LEMMA FiresTyped ==
  ASSUME Typed, NEW S \in SUBSET Codes, NEW spec, \A c \in S : spec[c] \in Specs, FireAll(S, spec)
  PROVE  runs' \in SUBSET Runs /\ fired' \in [Codes -> Nat] /\ RunsHold'
<1> USE DEF Typed, FireAll
<1>0. <<>> \in Logs BY LogAssumption, EmptySeq DEF Logs
<1>1. \A c \in S : NewRun(c, spec[c]) \in Runs
  BY <1>0, RowsAreRecords, BoundsAssumption DEF NewRun, Runs, TypeOK, Stages, Times, Never
<1>2. runs' \in SUBSET Runs /\ fired' \in [Codes -> Nat] BY <1>1 DEF TypeOK
<1>3. RunsHold' BY BoundsAssumption DEF RunsHold, NewRun
<1> QED BY <1>2, <1>3

\* The pass over the due rows.
LEMMA FireDueTyped ==
  ASSUME Typed, FireDue
  PROVE  Typed'
<1> USE DEF Typed, disk, loop, fires, history
<1> DEFINE go == {c \in Declared : due[c] # NoRecord /\ c \notin running}
           spec == [c \in go |-> due[c].spec]
<1>1. go \in SUBSET Codes BY CodesAssumption
<1>2. \A c \in go : spec[c] \in Specs BY <1>1, RowsAreRecords DEF TypeOK
<1>3. FireAll(go, spec) BY DEF FireDue
<1>4. runs' \in SUBSET Runs /\ fired' \in [Codes -> Nat] /\ RunsHold'
  <2> HIDE DEF go, spec
  <2> QED BY <1>1, <1>2, <1>3, FiresTyped
<1>5. running' \in SUBSET Codes BY <1>1 DEF FireDue, TypeOK
<1>6. tick' \in Ticks /\ due' \in [Codes -> Records]
  BY RowsAreRecords, BoundsAssumption DEF FireDue, Ticks, Asleep
<1>7. UNCHANGED <<now, record, log, caller, admin, raced, leaked, events>> BY DEF FireDue
<1>8. TypeOK' BY <1>4, <1>5, <1>6, <1>7 DEF TypeOK, Ticks
<1> QED BY <1>4, <1>7, <1>8 DEF AdminHolds, CallersHold

\* A run in its next stage.
LEMMA NextStage ==
  ASSUME NEW r \in Runs, NEW stage \in Stages, NEW t \in Times, NEW row \in Records,
         NEW lines \in Logs
  PROVE  /\ [r EXCEPT !.stage = stage, !.started = t] \in Runs
         /\ [r EXCEPT !.stage = stage, !.row = row] \in Runs
         /\ [r EXCEPT !.stage = stage, !.lines = lines] \in Runs
<1>1. [r EXCEPT !.stage = stage, !.started = t] \in Runs BY DEF Runs
<1>2. [r EXCEPT !.stage = stage, !.row = row] \in Runs BY DEF Runs
<1>3. [r EXCEPT !.stage = stage, !.lines = lines] \in Runs BY DEF Runs
<1> QED BY <1>1, <1>2, <1>3

\* A run: what it changes is itself, a record or a log.
LEMMA RunTyped ==
  ASSUME Typed, NEW r \in runs, RunStep(r) \/ SettleFails(r)
  PROVE  Typed'
<1> USE DEF Typed, disk, loop, fires, history, Becomes
<1>1. r \in Runs /\ r.code \in Codes /\ r.spec \in Specs /\ r.started \in 0 .. MaxTime
      /\ r.lines \in Logs /\ record[r.code] \in Records /\ now \in Times
      /\ TaskOf[r.code] \in Tasks /\ log[TaskOf[r.code]] \in Logs
  BY BoundsAssumption DEF TypeOK, RunsHold, Runs, Times, Never, Tasks
<1>2. UNCHANGED <<now, fired, tick, due, caller, admin, raced>>
  BY DEF RunStep, Begins, BodyEnds, UpdateReads, UpdateSaves, LogReads, LogWrites, Ends, SettleFails
<1>3. events' \in 0 .. MaxEvents
  <2>1. UNCHANGED events \/ Happens
    BY DEF RunStep, Begins, BodyEnds, UpdateReads, UpdateSaves, LogReads, LogWrites, Ends, SettleFails
  <2> QED BY <2>1, EventsType DEF TypeOK
<1>4. running' \in SUBSET Codes /\ leaked' \in SUBSET Codes
  BY <1>1
  DEF TypeOK, RunStep, Begins, BodyEnds, UpdateReads, UpdateSaves, LogReads, LogWrites, Ends, SettleFails
<1>5. record' \in [Codes -> Records]
  <2>1. CASE UpdateSaves(r)
    <3>1. r.row \in Rows /\ NextRun(r.spec, r.started) \in Times
      BY <1>1, <2>1, NextRunType DEF UpdateSaves, RunsHold
    <3>2. [r.row EXCEPT !.next = NextRun(r.spec, r.started)] \in Records
      BY <3>1 DEF Rows, Records
    <3> QED BY <2>1, <3>2 DEF UpdateSaves, TypeOK
  <2>2. CASE ~UpdateSaves(r)
    BY <2>2 DEF TypeOK, RunStep, Begins, BodyEnds, UpdateReads, LogReads, LogWrites, Ends, SettleFails
  <2> QED BY <2>1, <2>2
<1>6. log' \in [Tasks -> Logs]
  <2>1. CASE LogWrites(r)
    <3>1. r.id \in Nat /\ <<r.code, r.id>> \in Lines BY <1>1 DEF Runs, Lines
    <3>2. Newest(Append(r.lines, <<r.code, r.id>>)) \in Logs BY <1>1, <3>1, Capped
    <3> QED BY <2>1, <3>2 DEF LogWrites, TypeOK
  <2>2. CASE ~LogWrites(r)
    BY <2>2 DEF TypeOK, RunStep, Begins, BodyEnds, UpdateReads, UpdateSaves, LogReads, Ends, SettleFails
  <2> QED BY <2>1, <2>2
<1>7. runs' \in SUBSET Runs /\ RunsHold'
  <2>1. ASSUME NEW q \in Runs, runs' = (runs \ {r}) \cup {q}, q.started <= MaxTime,
               q.stage = "saving" => q.row \in Rows
        PROVE  runs' \in SUBSET Runs /\ RunsHold'
    BY <2>1, <1>2 DEF TypeOK, RunsHold
  <2>0. {"body", "saving", "logging", "appending", "ending"} \subseteq Stages BY DEF Stages
  <2>2. CASE Begins(r)
    <3> DEFINE q == [r EXCEPT !.stage = "body", !.started = now]
    <3>3. q \in Runs BY <1>1, <2>0, NextStage
    <3>1. q \in Runs /\ q.started <= MaxTime /\ q.stage = "body"
      BY <1>1, <3>3 DEF Runs, TypeOK
    <3>2. runs' = (runs \ {r}) \cup {q} BY <2>2 DEF Begins
    <3> HIDE DEF q
    <3> QED BY <2>1, <3>1, <3>2
  <2>3. CASE BodyEnds(r)
    <3> DEFINE q == [r EXCEPT !.stage = "settling"]
    <3>1. q \in Runs /\ q.started <= MaxTime /\ q.stage = "settling" BY <1>1 DEF Runs, Stages
    <3>2. runs' = (runs \ {r}) \cup {q} BY <2>3 DEF BodyEnds
    <3> HIDE DEF q
    <3> QED BY <2>1, <3>1, <3>2
  <2>4. CASE UpdateReads(r) /\ record[r.code] = NoRecord
    <3> DEFINE q == [r EXCEPT !.stage = "logging"]
    <3>1. q \in Runs /\ q.started <= MaxTime /\ q.stage = "logging" BY <1>1 DEF Runs, Stages
    <3>2. runs' = (runs \ {r}) \cup {q} BY <2>4 DEF UpdateReads
    <3> HIDE DEF q
    <3> QED BY <2>1, <3>1, <3>2
  <2>5. CASE UpdateReads(r) /\ record[r.code] # NoRecord
    <3> DEFINE q == [r EXCEPT !.stage = "saving", !.row = record[r.code]]
    <3>1. record[r.code] \in Rows BY <1>1, <2>5, RowsAreRecords
    <3>4. q \in Runs BY <1>1, <2>0, NextStage
    <3>2. q \in Runs /\ q.started <= MaxTime /\ q.row \in Rows BY <1>1, <3>1, <3>4 DEF Runs
    <3>3. runs' = (runs \ {r}) \cup {q} BY <2>5 DEF UpdateReads
    <3> HIDE DEF q
    <3> QED BY <2>1, <3>2, <3>3
  <2>6. CASE UpdateSaves(r)
    <3> DEFINE q == [r EXCEPT !.stage = "logging", !.row = NoRecord]
    <3>3. q \in Runs BY <1>1, <2>0, RowsAreRecords, NextStage
    <3>1. q \in Runs /\ q.started <= MaxTime /\ q.stage = "logging" BY <1>1, <3>3 DEF Runs
    <3>2. runs' = (runs \ {r}) \cup {q} BY <2>6 DEF UpdateSaves
    <3> HIDE DEF q
    <3> QED BY <2>1, <3>1, <3>2
  <2>7. CASE LogReads(r)
    <3> DEFINE q == [r EXCEPT !.stage = "appending", !.lines = log[TaskOf[r.code]]]
    <3>3. q \in Runs BY <1>1, <2>0, NextStage
    <3>1. q \in Runs /\ q.started <= MaxTime /\ q.stage = "appending" BY <1>1, <3>3 DEF Runs
    <3>2. runs' = (runs \ {r}) \cup {q} BY <2>7 DEF LogReads
    <3> HIDE DEF q
    <3> QED BY <2>1, <3>1, <3>2
  <2>8. CASE LogWrites(r)
    <3> DEFINE q == [r EXCEPT !.stage = "ending", !.lines = <<>>]
    <3>4. <<>> \in Logs BY LogAssumption, EmptySeq DEF Logs
    <3>3. q \in Runs BY <1>1, <2>0, <3>4, NextStage
    <3>1. q \in Runs /\ q.started <= MaxTime /\ q.stage = "ending" BY <1>1, <3>3 DEF Runs
    <3>2. runs' = (runs \ {r}) \cup {q} BY <2>8 DEF LogWrites
    <3> HIDE DEF q
    <3> QED BY <2>1, <3>1, <3>2
  <2>9. CASE Ends(r) \/ SettleFails(r) BY <1>2, <2>9 DEF Ends, SettleFails, TypeOK, RunsHold
  <2> QED BY <2>2, <2>3, <2>4, <2>5, <2>6, <2>7, <2>8, <2>9 DEF RunStep
<1>8. TypeOK' BY <1>2, <1>3, <1>4, <1>5, <1>6, <1>7 DEF TypeOK
<1> QED BY <1>2, <1>7, <1>8 DEF AdminHolds, CallersHold

\* A thread inside run_now.
LEMMA CallerTyped ==
  ASSUME Typed, NEW w \in Callers,
         CallStep(w) \/ NowStartFails(w) \/ \E c \in Codes : NowReads(w, c)
  PROVE  Typed'
<1> USE DEF Typed, disk, loop, fires, history
<1> DEFINE Threads == [at : {"idle", "read", "checked", "added"}, code : Codes \cup {NoCode},
                       spec : Specs \cup {"none"}]
<1>1. UNCHANGED <<now, record, log, tick, due, admin, leaked>>
  BY DEF CallStep, NowReads, NowChecks, NowAdds, NowStarts, NowStartFails
<1>2. events' \in 0 .. MaxEvents
  <2>1. UNCHANGED events \/ Happens
    BY DEF CallStep, NowReads, NowChecks, NowAdds, NowStarts, NowStartFails
  <2> QED BY <2>1, EventsType DEF TypeOK
<1>3. caller \in [Callers -> Threads] /\ caller[w] \in Threads BY DEF TypeOK
<1>4. ASSUME NEW q \in Threads, q.at # "idle" => q.code \in Codes /\ q.spec \in Specs,
             caller' = [caller EXCEPT ![w] = q]
      PROVE  caller' \in [Callers -> Threads] /\ CallersHold'
  BY <1>3, <1>4 DEF CallersHold
<1>5. caller' \in [Callers -> Threads] /\ CallersHold'
  <2>1. NoCall \in Threads /\ NoCall.at = "idle" BY DEF NoCall
  <2>2. CASE NowChecks(w) /\ caller[w].code \notin running
    <3> DEFINE q == [caller[w] EXCEPT !.at = "checked"]
    <3>1. q \in Threads /\ q.code \in Codes /\ q.spec \in Specs
      BY <1>3, <2>2 DEF CallersHold, NowChecks
    <3>2. caller' = [caller EXCEPT ![w] = q] BY <2>2 DEF NowChecks
    <3> HIDE DEF q
    <3> QED BY <1>4, <3>1, <3>2
  <2>3. CASE NowAdds(w)
    <3> DEFINE q == [caller[w] EXCEPT !.at = "added"]
    <3>1. q \in Threads /\ q.code \in Codes /\ q.spec \in Specs
      BY <1>3, <2>3 DEF CallersHold, NowAdds
    <3>2. caller' = [caller EXCEPT ![w] = q] BY <2>3 DEF NowAdds
    <3> HIDE DEF q
    <3> QED BY <1>4, <3>1, <3>2
  <2>4. ASSUME NEW c \in Codes, NowReads(w, c)
        PROVE  caller' \in [Callers -> Threads] /\ CallersHold'
    <3> DEFINE q == [at |-> "read", code |-> c, spec |-> record[c].spec]
    <3>1. record[c].spec \in Specs BY <2>4, RowsAreRecords DEF NowReads, TypeOK
    <3>2. q \in Threads /\ q.code \in Codes /\ q.spec \in Specs BY <3>1
    <3>3. caller' = [caller EXCEPT ![w] = q] BY <2>4 DEF NowReads
    <3> HIDE DEF q
    <3> QED BY <1>4, <3>2, <3>3
  <2>5. CASE caller' = [caller EXCEPT ![w] = NoCall]
    <3> HIDE DEF Threads
    <3> QED BY <1>4, <2>1, <2>5
  <2> QED BY <2>2, <2>3, <2>4, <2>5 DEF CallStep, NowChecks, NowStarts, NowStartFails
<1>6. running' \in SUBSET Codes /\ raced' \in SUBSET Codes
  <2>1. CASE NowAdds(w)
    <3>1. caller[w].code \in Codes BY <2>1 DEF NowAdds, CallersHold
    <3> QED BY <2>1, <3>1 DEF NowAdds, TypeOK
  <2> QED BY <2>1 DEF TypeOK, CallStep, NowReads, NowChecks, NowStarts, NowStartFails
<1>7. runs' \in SUBSET Runs /\ fired' \in [Codes -> Nat] /\ RunsHold'
  <2>1. CASE NowStarts(w)
    <3>1. caller[w].code \in Codes /\ caller[w].spec \in Specs BY <2>1 DEF NowStarts, CallersHold
    <3> DEFINE S == {caller[w].code}
               spec == [c \in Codes |-> caller[w].spec]
    <3>2. S \in SUBSET Codes /\ \A c \in S : spec[c] \in Specs BY <3>1
    <3>3. FireAll(S, spec) BY <2>1 DEF NowStarts
    <3> HIDE DEF S, spec
    <3> QED BY <3>2, <3>3, FiresTyped
  <2>2. CASE ~NowStarts(w)
    BY <2>2 DEF TypeOK, RunsHold, CallStep, NowReads, NowChecks, NowAdds, NowStartFails
  <2> QED BY <2>1, <2>2
<1>8. TypeOK' BY <1>1, <1>2, <1>5, <1>6, <1>7 DEF TypeOK
<1> QED BY <1>1, <1>5, <1>7, <1>8 DEF AdminHolds

\* An operator.
LEMMA AdminTyped ==
  ASSUME Typed,
         \/ AdminSaves
         \/ \E c \in Codes : AdminDeletes(c) \/ \E op \in Edits : AdminReads(op, c)
  PROVE  Typed'
<1> USE DEF Typed, disk, loop, fires, history
<1>1. UNCHANGED <<now, log, running, runs, fired, tick, due, caller, raced, leaked>>
  BY DEF AdminSaves, AdminDeletes, AdminReads
<1>2. events' \in 0 .. MaxEvents
  <2>1. UNCHANGED events \/ Happens BY DEF AdminSaves, AdminDeletes, AdminReads
  <2> QED BY <2>1, EventsType DEF TypeOK
<1>3. record' \in [Codes -> Records]
  <2>1. ASSUME NEW spec \in Specs, admin # NoEdit PROVE EditedRow(spec) \in Records
    <3>1. NewRow(spec, now) \in Rows /\ NextRun(spec, now) \in Times
      BY NextRunType DEF TypeOK
    <3>2. admin.op \in Edits BY <2>1 DEF AdminHolds
    <3>3. CASE admin.op = "create" BY <3>1, <3>3, RowsAreRecords DEF EditedRow
    <3>4. CASE admin.op = "update"
      <4>1. admin.row \in Rows BY <3>4 DEF AdminHolds
      <4>2. [admin.row EXCEPT !.spec = spec, !.next = NextRun(spec, now)] \in Rows
        BY <3>1, <4>1 DEF Rows
      <4> QED BY <3>4, <4>2, RowsAreRecords DEF EditedRow
    <3>5. CASE admin.op = "enable"
      <4>1. admin.row \in Rows BY <3>5 DEF AdminHolds
      <4>2. [admin.row EXCEPT !.enabled = TRUE] \in Rows BY <4>1 DEF Rows
      <4> QED BY <3>5, <4>2, RowsAreRecords DEF EditedRow
    <3>6. CASE admin.op = "disable"
      <4>1. admin.row \in Rows BY <3>6 DEF AdminHolds
      <4>2. [admin.row EXCEPT !.enabled = FALSE] \in Rows BY <4>1 DEF Rows
      <4> QED BY <3>6, <4>2, RowsAreRecords DEF EditedRow
    <3> QED BY <3>2, <3>3, <3>4, <3>5, <3>6 DEF Edits
  <2>2. CASE AdminSaves
    <3>1. PICK spec \in Specs : record' = [record EXCEPT ![admin.code] = EditedRow(spec)]
      BY <2>2 DEF AdminSaves
    <3>2. EditedRow(spec) \in Records BY <2>1, <2>2 DEF AdminSaves
    <3>3. record \in [Codes -> Records] BY DEF TypeOK
    <3> HIDE DEF Typed
    <3> QED BY <3>1, <3>2, <3>3
  <2>3. ASSUME NEW c \in Codes, AdminDeletes(c) PROVE record' \in [Codes -> Records]
    BY <2>3, RowsAreRecords DEF AdminDeletes, TypeOK
  <2>4. ASSUME NEW c \in Codes, NEW op \in Edits, AdminReads(op, c)
        PROVE  record' \in [Codes -> Records]
    BY <2>4 DEF AdminReads, TypeOK
  <2> QED BY <2>2, <2>3, <2>4
<1>4. AdminHolds' /\ admin' \in [op : Edits \cup {"none"}, code : Codes \cup {NoCode}, row : Records]
  <2>1. CASE AdminSaves
    BY <2>1, RowsAreRecords DEF AdminSaves, AdminHolds, NoEdit, Edits
  <2>2. ASSUME NEW c \in Codes, AdminDeletes(c) PROVE admin' = admin BY <2>2 DEF AdminDeletes
  <2>3. ASSUME NEW c \in Codes, NEW op \in Edits, AdminReads(op, c)
        PROVE  /\ AdminHolds'
               /\ admin' \in [op : Edits \cup {"none"}, code : Codes \cup {NoCode}, row : Records]
    <3>1. record[c] \in Records BY DEF TypeOK
    <3>2. op # "create" => record[c] \in Rows BY <2>3, <3>1, RowsAreRecords DEF AdminReads
    <3>3. admin' = [op |-> op, code |-> c, row |-> record[c]] BY <2>3 DEF AdminReads
    <3> QED BY <3>1, <3>2, <3>3 DEF AdminHolds
  <2> QED BY <2>1, <2>2, <2>3 DEF TypeOK, AdminHolds
<1>5. TypeOK' BY <1>1, <1>2, <1>3, <1>4 DEF TypeOK
<1> QED BY <1>1, <1>4, <1>5 DEF RunsHold, CallersHold

\* Time, and a new process over the same store.
LEMMA OthersTyped ==
  ASSUME Typed, Clock \/ Restart
  PROVE  Typed'
<1> USE DEF Typed, disk, loop, fires, history
<1>1. CASE Clock
  <2>1. now' \in 0 .. MaxTime BY <1>1, BoundsAssumption DEF Clock, TypeOK
  <2>2. TypeOK' BY <1>1, <2>1 DEF Clock, TypeOK
  <2> QED BY <1>1, <2>2 DEF Clock, AdminHolds, RunsHold, CallersHold
<1>2. CASE Restart
  <2>1. events' \in 0 .. MaxEvents BY <1>2, EventsType DEF Restart, TypeOK
  <2>2. tick' \in Ticks /\ due' \in [Codes -> Records]
    BY <1>2, RowsAreRecords, BoundsAssumption DEF Restart, Ticks, Asleep
  <2>3. caller' \in [Callers -> [at : {"idle", "read", "checked", "added"},
                                 code : Codes \cup {NoCode}, spec : Specs \cup {"none"}]]
    BY <1>2 DEF Restart, NoCall
  <2>4. admin' \in [op : Edits \cup {"none"}, code : Codes \cup {NoCode}, row : Records]
    BY <1>2, RowsAreRecords DEF Restart, NoEdit
  <2>5. TypeOK' BY <1>2, <2>1, <2>2, <2>3, <2>4 DEF Restart, TypeOK, Ticks
  <2> QED BY <1>2, <2>5 DEF Restart, AdminHolds, RunsHold, CallersHold, NoCall, NoEdit
<1> QED BY <1>1, <1>2

-----------------------------------------------------------------------------
(* The guard. *)

\* A step that neither fires, takes nor drops.
LEMMA QuietGuarded ==
  ASSUME Guarded, UNCHANGED <<running, runs, caller, raced>>, leaked \subseteq leaked'
  PROVE  Guarded'
BY DEF Guarded, OverlapNeedsRace, GuardCoversRuns, HeldBackForReason, AddedIsAlone, Adding, InFlight

\* The pass of the tick: the loop fires what nobody holds.
LEMMA FireDueGuarded ==
  ASSUME IInv, FireDue
  PROVE  Guarded'
<1> USE DEF IInv, Guarded, loop, fires, history, disk
<1> DEFINE go == {c \in Declared : due[c] # NoRecord /\ c \notin running}
<1>1. go \in SUBSET Codes BY CodesAssumption
<1>2. PICK new : runs' = runs \cup {new[c] : c \in go} /\ \A c \in go : new[c].code = c
  <2>1. runs' = runs \cup {NewRun(c, due[c].spec) : c \in go} BY DEF FireDue, FireAll
  <2>2. \A c \in go : NewRun(c, due[c].spec).code = c BY DEF NewRun
  <2> WITNESS [c \in go |-> NewRun(c, due[c].spec)]
  <2> HIDE DEF go
  <2> QED BY <2>1, <2>2
<1>3. running' = running \cup go /\ UNCHANGED <<caller, raced, leaked>> BY DEF FireDue
<1> HIDE DEF go
<1>4. go \cap running = {} BY DEF go
<1>5. OverlapNeedsRace' /\ GuardCoversRuns'
  BY <1>2, <1>3, <1>4 DEF OverlapNeedsRace, GuardCoversRuns
<1>6. HeldBackForReason' BY <1>2, <1>3 DEF HeldBackForReason, InFlight
<1>7. AddedIsAlone' BY <1>2, <1>3, <1>4 DEF AddedIsAlone, Adding, InFlight
<1> QED BY <1>5, <1>6, <1>7

\* A run: its guard is dropped with it, by its end and not before.
LEMMA RunGuarded ==
  ASSUME IInv, NEW r \in runs, RunStep(r) \/ SettleFails(r)
  PROVE  Guarded'
<1> USE DEF IInv, Guarded, loop, fires, history, disk, Becomes
<1>1. UNCHANGED <<caller, raced>>
  BY DEF RunStep, Begins, BodyEnds, UpdateReads, UpdateSaves, LogReads, LogWrites, Ends, SettleFails
<1>2. r \in Runs BY DEF Typed, TypeOK
<1>3. ASSUME NEW q, runs' = (runs \ {r}) \cup {q}, q.code = r.code, UNCHANGED <<running, leaked>>
      PROVE  Guarded'
  <2>1. OverlapNeedsRace' /\ GuardCoversRuns'
    BY <1>1, <1>3 DEF OverlapNeedsRace, GuardCoversRuns
  <2>2. \A c : InFlight(c)' = {} <=> InFlight(c) = {} BY <1>3 DEF InFlight
  <2>3. HeldBackForReason' /\ AddedIsAlone'
    BY <1>1, <1>3, <2>2 DEF HeldBackForReason, AddedIsAlone, Adding
  <2> QED BY <2>1, <2>3
<1>4. CASE Begins(r) \/ BodyEnds(r) \/ UpdateReads(r) \/ UpdateSaves(r) \/ LogReads(r) \/ LogWrites(r)
  <2>1. \E q : runs' = (runs \ {r}) \cup {q} /\ q.code = r.code
    <3>1. CASE Begins(r)
      <4> DEFINE q == [r EXCEPT !.stage = "body", !.started = now]
      <4>1. q.code = r.code BY <1>2 DEF Runs
      <4>2. runs' = (runs \ {r}) \cup {q} BY <3>1 DEF Begins
      <4> HIDE DEF q
      <4> QED BY <4>1, <4>2
    <3>2. CASE BodyEnds(r)
      <4> DEFINE q == [r EXCEPT !.stage = "settling"]
      <4>1. q.code = r.code BY <1>2 DEF Runs
      <4>2. runs' = (runs \ {r}) \cup {q} BY <3>2 DEF BodyEnds
      <4> HIDE DEF q
      <4> QED BY <4>1, <4>2
    <3>3. CASE UpdateReads(r)
      <4> DEFINE q == IF record[r.code] = NoRecord THEN [r EXCEPT !.stage = "logging"]
                      ELSE [r EXCEPT !.stage = "saving", !.row = record[r.code]]
      <4>1. q.code = r.code BY <1>2 DEF Runs
      <4>2. runs' = (runs \ {r}) \cup {q} BY <3>3 DEF UpdateReads
      <4> HIDE DEF q
      <4> QED BY <4>1, <4>2
    <3>4. CASE UpdateSaves(r)
      <4> DEFINE q == [r EXCEPT !.stage = "logging", !.row = NoRecord]
      <4>1. q.code = r.code BY <1>2 DEF Runs
      <4>2. runs' = (runs \ {r}) \cup {q} BY <3>4 DEF UpdateSaves
      <4> HIDE DEF q
      <4> QED BY <4>1, <4>2
    <3>5. CASE LogReads(r)
      <4> DEFINE q == [r EXCEPT !.stage = "appending", !.lines = log[TaskOf[r.code]]]
      <4>1. q.code = r.code BY <1>2 DEF Runs
      <4>2. runs' = (runs \ {r}) \cup {q} BY <3>5 DEF LogReads
      <4> HIDE DEF q
      <4> QED BY <4>1, <4>2
    <3>6. CASE LogWrites(r)
      <4> DEFINE q == [r EXCEPT !.stage = "ending", !.lines = <<>>]
      <4>1. q.code = r.code BY <1>2 DEF Runs
      <4>2. runs' = (runs \ {r}) \cup {q} BY <3>6 DEF LogWrites
      <4> HIDE DEF q
      <4> QED BY <4>1, <4>2
    <3> QED BY <1>4, <3>1, <3>2, <3>3, <3>4, <3>5, <3>6
  <2>2. UNCHANGED <<running, leaked>>
    BY <1>4 DEF Begins, BodyEnds, UpdateReads, UpdateSaves, LogReads, LogWrites
  <2> QED BY <1>3, <2>1, <2>2
<1>5. CASE Ends(r)
  <2>1. runs' = runs \ {r} /\ running' = running \ {r.code} /\ leaked' = leaked
    BY <1>5 DEF Ends
  <2>2. OverlapNeedsRace' BY <1>1, <2>1 DEF OverlapNeedsRace
  <2>3. GuardCoversRuns' BY <1>1, <2>1 DEF GuardCoversRuns, OverlapNeedsRace
  <2>4. HeldBackForReason' BY <1>1, <2>1 DEF HeldBackForReason, InFlight
  <2>5. AddedIsAlone'
    <3>1. \A w \in Callers : \A c \in Codes \ raced : Adding(w, c) => c # r.code
      BY DEF AddedIsAlone, InFlight
    <3> QED BY <1>1, <2>1, <3>1 DEF AddedIsAlone, Adding, InFlight
  <2> QED BY <2>2, <2>3, <2>4, <2>5
<1>6. CASE SettleFails(r)
  <2>1. runs' = runs \ {r} /\ running' = running /\ leaked' = leaked \cup {r.code}
    BY <1>6 DEF SettleFails
  <2>2. OverlapNeedsRace' /\ GuardCoversRuns' BY <1>1, <2>1 DEF OverlapNeedsRace, GuardCoversRuns
  <2>3. HeldBackForReason' BY <1>1, <2>1 DEF HeldBackForReason, InFlight
  <2>4. AddedIsAlone' BY <1>1, <2>1 DEF AddedIsAlone, Adding, InFlight
  <2> QED BY <2>2, <2>3, <2>4
<1> QED BY <1>4, <1>5, <1>6 DEF RunStep

\* A run_now: between its look at the guard and its add the guard may be
\* taken, which is a race; from its add to its run nobody else fires.
LEMMA CallerGuarded ==
  ASSUME IInv, NEW w \in Callers,
         CallStep(w) \/ NowStartFails(w) \/ \E c \in Codes : NowReads(w, c)
  PROVE  Guarded'
<1> USE DEF IInv, Guarded, loop, fires, history, disk
<1> DEFINE d == caller[w].code
<1>0. caller \in [Callers -> [at : {"idle", "read", "checked", "added"}, code : Codes \cup {NoCode},
                              spec : Specs \cup {"none"}]]
  BY DEF Typed, TypeOK
<1>1. CASE (\E c \in Codes : NowReads(w, c)) \/ NowChecks(w)
  <2>1. UNCHANGED <<running, runs, raced, leaked>> BY <1>1 DEF NowReads, NowChecks
  <2>2. \A v \in Callers : \A c : Adding(v, c)' <=> Adding(v, c)
    BY <1>0, <1>1 DEF NowReads, NowChecks, Adding, NoCall
  <2>3. OverlapNeedsRace' /\ GuardCoversRuns' BY <2>1 DEF OverlapNeedsRace, GuardCoversRuns
  <2>4. HeldBackForReason' BY <2>1, <2>2 DEF HeldBackForReason, Adding, InFlight
  <2>5. AddedIsAlone' BY <2>1, <2>2 DEF AddedIsAlone, InFlight
  <2> QED BY <2>3, <2>4, <2>5
<1>2. CASE NowAdds(w)
  <2>1. UNCHANGED <<runs, leaked>> /\ running' = running \cup {d} /\ raced' = raced \cup ({d} \cap running)
    BY <1>2 DEF NowAdds
  <2>2. d \in Codes BY <1>2 DEF NowAdds, Typed, CallersHold
  <2>3. \A v \in Callers : \A c : Adding(v, c)' <=> (Adding(v, c) \/ (v = w /\ c = d))
    BY <1>0, <1>2 DEF NowAdds, Adding
  <2>4. OverlapNeedsRace' /\ GuardCoversRuns' BY <2>1 DEF OverlapNeedsRace, GuardCoversRuns
  <2>5. HeldBackForReason' BY <2>1, <2>3 DEF HeldBackForReason, Adding, InFlight
  <2>6. AddedIsAlone'
    <3> SUFFICES ASSUME NEW v \in Callers, NEW c \in Codes \ raced', Adding(v, c)'
                 PROVE  /\ c \in running' /\ InFlight(c)' = {}
                        /\ \A u \in Callers \ {v} : ~Adding(u, c)'
      BY DEF AddedIsAlone
    <3>1. c \notin raced BY <2>1
    <3>2. InFlight(c)' = InFlight(c) BY <2>1 DEF InFlight
    <3>3. CASE c # d BY <2>1, <2>3, <3>1, <3>2, <3>3 DEF AddedIsAlone
    <3>4. CASE c = d
      <4>1. d \notin running BY <2>1, <3>4
      <4>2. \A u \in Callers : ~Adding(u, d) BY <2>2, <3>1, <3>4, <4>1 DEF AddedIsAlone
      <4>3. v = w /\ \A u \in Callers \ {v} : ~Adding(u, c)' BY <2>3, <3>4, <4>2
      <4>4. InFlight(d) = {} BY <3>1, <3>4, <4>1 DEF InFlight, GuardCoversRuns
      <4> QED BY <2>1, <3>2, <3>4, <4>3, <4>4
    <3> QED BY <3>3, <3>4
  <2> QED BY <2>4, <2>5, <2>6
<1>3. CASE NowStarts(w)
  <2>1. PICK q : runs' = runs \cup {q} /\ q.code = d
    <3>1. runs' = runs \cup {NewRun(d, caller[w].spec)}
      BY <1>3 DEF NowStarts, FireAll, Typed, CallersHold
    <3>2. NewRun(d, caller[w].spec).code = d BY DEF NewRun
    <3> QED BY <3>1, <3>2
  <2>2. UNCHANGED <<running, raced, leaked>> BY <1>3 DEF NowStarts
  <2>3. Adding(w, d) /\ d \in Codes BY <1>3 DEF NowStarts, Adding, Typed, CallersHold
  <2>4. \A v \in Callers : \A c : Adding(v, c)' <=> (Adding(v, c) /\ v # w)
    BY <1>0, <1>3 DEF NowStarts, Adding, NoCall
  <2>5. d \in raced \/ (d \in running /\ InFlight(d) = {} /\ \A v \in Callers \ {w} : ~Adding(v, d))
    BY <2>3 DEF AddedIsAlone
  <2>6. OverlapNeedsRace' BY <2>1, <2>2, <2>5 DEF OverlapNeedsRace, InFlight
  <2>7. GuardCoversRuns' BY <2>1, <2>2, <2>5 DEF GuardCoversRuns
  <2>8. HeldBackForReason'
    BY <2>1, <2>2, <2>4 DEF HeldBackForReason, InFlight, Adding
  <2>9. AddedIsAlone'
    <3> SUFFICES ASSUME NEW v \in Callers, NEW c \in Codes \ raced, Adding(v, c), v # w
                 PROVE  /\ c \in running /\ InFlight(c)' = {}
                        /\ \A u \in Callers \ {v} : ~Adding(u, c)
      BY <2>2, <2>4 DEF AddedIsAlone
    <3>1. c # d BY <2>3 DEF AddedIsAlone
    <3> QED BY <2>1, <3>1 DEF AddedIsAlone, InFlight
  <2> QED BY <2>6, <2>7, <2>8, <2>9
<1>4. CASE NowStartFails(w)
  <2>1. UNCHANGED <<runs, raced, leaked>> /\ running' = running \ {d} BY <1>4 DEF NowStartFails
  <2>2. Adding(w, d) /\ d \in Codes BY <1>4 DEF NowStartFails, Adding, Typed, CallersHold
  <2>3. \A v \in Callers : \A c : Adding(v, c)' <=> (Adding(v, c) /\ v # w)
    BY <1>0, <1>4 DEF NowStartFails, Adding, NoCall
  <2>4. d \in raced \/ (InFlight(d) = {} /\ \A v \in Callers \ {w} : ~Adding(v, d))
    BY <2>2 DEF AddedIsAlone
  <2>5. OverlapNeedsRace' BY <2>1 DEF OverlapNeedsRace
  <2>6. GuardCoversRuns' BY <2>1, <2>4 DEF GuardCoversRuns, InFlight
  <2>7. HeldBackForReason' BY <2>1, <2>3 DEF HeldBackForReason, InFlight, Adding
  <2>8. AddedIsAlone' BY <2>1, <2>3, <2>4 DEF AddedIsAlone, InFlight
  <2> QED BY <2>5, <2>6, <2>7, <2>8
<1> QED BY <1>1, <1>2, <1>3, <1>4 DEF CallStep

-----------------------------------------------------------------------------
\* Every step.
LEMMA StepHolds ==
  ASSUME IInv, [Next]_vars
  PROVE  IInv'
<1> USE DEF IInv
<1>1. CASE Clock
  <2>1. Guarded' BY <1>1, QuietGuarded DEF Clock, fires, history
  <2> QED BY <1>1, <2>1, OthersTyped
<1>2. CASE FireDue BY <1>2, FireDueTyped, FireDueGuarded
<1>3. CASE \/ TickBegins \/ SyncEnds \/ TickFails
           \/ \E c \in Codes : SyncLooks(c) \/ SyncCreates(c) \/ ReadRow(c)
  <2>1. Guarded'
    BY <1>3, QuietGuarded
    DEF TickBegins, SyncEnds, TickFails, SyncLooks, SyncCreates, ReadRow, fires, history
  <2> QED BY <1>3, <2>1, TickTyped
<1>4. ASSUME NEW r \in runs, RunStep(r) \/ SettleFails(r) PROVE IInv'
  BY <1>4, RunTyped, RunGuarded
<1>5. ASSUME NEW w \in Callers, CallStep(w) \/ NowStartFails(w) \/ \E c \in Codes : NowReads(w, c)
      PROVE  IInv'
  BY <1>5, CallerTyped, CallerGuarded
<1>6. CASE \/ AdminSaves
           \/ \E c \in Codes : AdminDeletes(c) \/ \E op \in Edits : AdminReads(op, c)
  <2>1. Guarded'
    BY <1>6, QuietGuarded DEF AdminSaves, AdminDeletes, AdminReads, fires, history
  <2> QED BY <1>6, <2>1, AdminTyped
<1>7. CASE Restart
  <2>1. Guarded'
    BY <1>7
    DEF Restart, Guarded, OverlapNeedsRace, GuardCoversRuns, HeldBackForReason, AddedIsAlone,
        Adding, NoCall
  <2> QED BY <1>7, <2>1, OthersTyped
<1>8. CASE UNCHANGED vars
  <2>1. Typed' BY <1>8 DEF vars, Typed, TypeOK, AdminHolds, RunsHold, CallersHold
  <2>2. Guarded' BY <1>8, QuietGuarded DEF vars
  <2> QED BY <2>1, <2>2
<1> QED BY <1>1, <1>2, <1>3, <1>4, <1>5, <1>6, <1>7, <1>8 DEF Next, TickStep

\* However the tick, the runs, the operators, the threads of run_now and a
\* restart interleave: runs of one schedule overlap only after a race, until
\* which the guard covers them, and it is held only for a reason.
THEOREM GuardHolds == Spec => []GuardIsRight
<1>1. Init => IInv BY InitTyped
<1>2. IInv /\ [Next]_vars => IInv' BY StepHolds
<1>3. IInv => GuardIsRight BY DEF IInv, Typed, Guarded, GuardIsRight
<1> QED BY <1>1, <1>2, <1>3, PTL DEF Spec

-----------------------------------------------------------------------------
(* The log. *)

\* The only schedule of its task: only its own runs append to that log.
AloneInLog(c) == \A d \in Codes \ {c} : TaskOf[d] # TaskOf[c]

\* What such a run read before it appends is still what the log says.
LinesAreLog ==
  \A r \in runs : r.stage = "appending" /\ AloneInLog(r.code) /\ r.code \notin raced
    => r.lines = log[TaskOf[r.code]]

\* A new run has read nothing.
LEMMA FiresRead ==
  ASSUME LinesAreLog, NEW S, NEW spec, FireAll(S, spec), UNCHANGED <<log, raced>>
  PROVE  LinesAreLog'
<1>1. \A r \in runs' : r \in runs \/ r.stage = "fired" BY DEF FireAll, NewRun
<1> QED BY <1>1 DEF LinesAreLog, AloneInLog

\* The steps of a run: while it appends no other run of its task does.
LEMMA RunReads ==
  ASSUME IInv, LinesAreLog, NEW r \in runs, RunStep(r) \/ SettleFails(r)
  PROVE  LinesAreLog'
<1> USE DEF loop, fires, history, disk, Becomes
<1>1. r \in Runs /\ runs \in SUBSET Runs /\ log \in [Tasks -> Logs] /\ TaskOf[r.code] \in Tasks
  BY DEF IInv, Typed, TypeOK, Runs, Tasks
<1>2. raced' = raced
  BY DEF RunStep, Begins, BodyEnds, UpdateReads, UpdateSaves, LogReads, LogWrites, Ends, SettleFails
<1>3. CASE Begins(r) \/ BodyEnds(r) \/ UpdateReads(r) \/ UpdateSaves(r) \/ Ends(r) \/ SettleFails(r)
  <2>1. log' = log BY <1>3 DEF Begins, BodyEnds, UpdateReads, UpdateSaves, Ends, SettleFails
  <2>2. \A q \in runs' : q \in runs \/ q.stage # "appending"
    <3>1. [r EXCEPT !.stage = "body", !.started = now].stage # "appending" BY <1>1 DEF Runs
    <3>2. [r EXCEPT !.stage = "settling"].stage # "appending" BY <1>1 DEF Runs
    <3>3. [r EXCEPT !.stage = "saving", !.row = record[r.code]].stage # "appending" BY <1>1 DEF Runs
    <3>4. [r EXCEPT !.stage = "logging"].stage # "appending" BY <1>1 DEF Runs
    <3>5. [r EXCEPT !.stage = "logging", !.row = NoRecord].stage # "appending" BY <1>1 DEF Runs
    <3>6. CASE Begins(r) BY <3>1, <3>6 DEF Begins
    <3>7. CASE BodyEnds(r) BY <3>2, <3>7 DEF BodyEnds
    <3>8. CASE UpdateReads(r) BY <3>3, <3>4, <3>8 DEF UpdateReads
    <3>9. CASE UpdateSaves(r) BY <3>5, <3>9 DEF UpdateSaves
    <3>10. CASE Ends(r) \/ SettleFails(r) BY <3>10 DEF Ends, SettleFails
    <3> QED BY <1>3, <3>6, <3>7, <3>8, <3>9, <3>10
  <2> QED BY <1>2, <2>1, <2>2 DEF LinesAreLog, AloneInLog
<1>4. CASE LogReads(r)
  <2> DEFINE q == [r EXCEPT !.stage = "appending", !.lines = log[TaskOf[r.code]]]
  <2>1. q.code = r.code /\ q.lines = log[TaskOf[r.code]] BY <1>1 DEF Runs
  <2>2. runs' = (runs \ {r}) \cup {q} /\ log' = log BY <1>4 DEF LogReads
  <2> HIDE DEF q
  <2> QED BY <1>2, <2>1, <2>2 DEF LinesAreLog, AloneInLog
<1>5. CASE LogWrites(r)
  <2> DEFINE q == [r EXCEPT !.stage = "ending", !.lines = <<>>]
  <2>1. q.stage = "ending" BY <1>1 DEF Runs
  <2>2. runs' = (runs \ {r}) \cup {q} BY <1>5 DEF LogWrites
  <2> HIDE DEF q
  <2> SUFFICES ASSUME NEW u \in runs, u # r, AloneInLog(u.code), u.code \notin raced,
                      u.stage = "appending"
               PROVE  u.lines = log'[TaskOf[u.code]]
    BY <1>2, <2>1, <2>2 DEF LinesAreLog, AloneInLog
  <2>3. u.code # r.code BY DEF IInv, Guarded, OverlapNeedsRace
  <2>4. TaskOf[u.code] # TaskOf[r.code] BY <1>1, <2>3 DEF AloneInLog, Runs
  <2>5. log'[TaskOf[u.code]] = log[TaskOf[u.code]]
    BY <1>1, <1>5, <2>4 DEF LogWrites, Runs, Tasks
  <2> QED BY <2>5 DEF LinesAreLog
<1> QED BY <1>3, <1>4, <1>5 DEF RunStep

\* Every step.
LEMMA LinesHold ==
  ASSUME IInv, LinesAreLog, [Next]_vars
  PROVE  LinesAreLog'
<1> USE DEF loop, fires, history, disk
<1>1. ASSUME UNCHANGED <<runs, log>>, raced \subseteq raced' PROVE LinesAreLog'
  BY <1>1 DEF LinesAreLog, AloneInLog
<1>2. CASE UNCHANGED vars \/ Clock \/ TickFails \/ TickBegins \/ SyncEnds \/ AdminSaves
  BY <1>1, <1>2 DEF vars, Clock, TickFails, TickBegins, SyncEnds, AdminSaves
<1>3. ASSUME NEW c \in Codes, SyncLooks(c) \/ SyncCreates(c) \/ ReadRow(c) \/ AdminDeletes(c)
      PROVE  LinesAreLog'
  BY <1>1, <1>3 DEF SyncLooks, SyncCreates, ReadRow, AdminDeletes
<1>4. ASSUME NEW c \in Codes, NEW op \in Edits, AdminReads(op, c) PROVE LinesAreLog'
  BY <1>1, <1>4 DEF AdminReads
<1>5. CASE FireDue BY <1>5, FiresRead DEF FireDue
<1>6. CASE Restart BY <1>6 DEF Restart, LinesAreLog
<1>7. ASSUME NEW w \in Callers, NowChecks(w) \/ NowAdds(w) \/ NowStartFails(w) PROVE LinesAreLog'
  BY <1>1, <1>7 DEF NowChecks, NowAdds, NowStartFails
<1>8. ASSUME NEW w \in Callers, NowStarts(w) PROVE LinesAreLog' BY <1>8, FiresRead DEF NowStarts
<1>9. ASSUME NEW w \in Callers, NEW c \in Codes, NowReads(w, c) PROVE LinesAreLog'
  BY <1>1, <1>9 DEF NowReads
<1>10. ASSUME NEW r \in runs, RunStep(r) \/ SettleFails(r) PROVE LinesAreLog' BY <1>10, RunReads
<1> QED
  BY <1>2, <1>3, <1>4, <1>5, <1>6, <1>7, <1>8, <1>9, <1>10 DEF Next, TickStep, CallStep

\* A step of a log: it is a run that appends to what it read.
LEMMA LinesStay ==
  ASSUME IInv, LinesAreLog, Next, NEW c \in Codes, AloneInLog(c), c \notin raced
  PROVE  Appended(log[TaskOf[c]], log'[TaskOf[c]])
<1> USE DEF loop, fires, history, disk
<1>1. CASE \E r \in runs : LogWrites(r)
  <2>1. PICK r \in runs : LogWrites(r) BY <1>1
  <2>2. r \in Runs /\ log \in [Tasks -> Logs] /\ TaskOf[c] \in Tasks
    BY DEF IInv, Typed, TypeOK, Tasks
  <2> DEFINE new == Newest(Append(r.lines, <<r.code, r.id>>))
  <2>3. log' = [log EXCEPT ![TaskOf[r.code]] = new] /\ r.stage = "appending"
    BY <2>1 DEF LogWrites
  <2>4. CASE r.code = c
    <3> DEFINE kept == IF Len(r.lines) < LogCap THEN r.lines ELSE Tail(r.lines)
               line == <<r.code, r.id>>
    <3>1. r.lines = log[TaskOf[c]] BY <2>3, <2>4 DEF LinesAreLog
    <3>2. r.lines \in Logs /\ line \in Lines BY <2>2 DEF Runs, Lines
    <3>3. new = Append(kept, line) BY <3>2, Capped
    <3>4. kept \in Seq(Lines)
      <4>1. r.lines \in Seq(Lines) /\ Len(r.lines) \in Nat BY <3>2, LenProperties DEF Logs
      <4>2. CASE Len(r.lines) < LogCap BY <4>1, <4>2
      <4>3. CASE ~(Len(r.lines) < LogCap)
        <5>1. r.lines # <<>> BY <4>1, <4>3, LogAssumption, EmptySeq
        <5> QED BY <4>1, <4>3, <5>1, HeadTailProperties
      <4> QED BY <4>2, <4>3
    <3>5. new # <<>> /\ new[Len(new)] = line
      <4> HIDE DEF kept, line, new
      <4> QED BY <3>2, <3>3, <3>4, AppendProperties, LenProperties
    <3>6. log'[TaskOf[c]] = new BY <2>2, <2>3, <2>4
    <3> HIDE DEF new, line
    <3> QED BY <3>1, <3>3, <3>5, <3>6 DEF Appended
  <2>5. CASE r.code # c
    <3>1. TaskOf[r.code] # TaskOf[c] BY <2>2, <2>5 DEF AloneInLog, Runs
    <3>2. log'[TaskOf[c]] = log[TaskOf[c]] BY <2>2, <2>3, <3>1
    <3> QED BY <3>2 DEF Appended
  <2> QED BY <2>4, <2>5
<1>2. CASE ~\E r \in runs : LogWrites(r)
  <2>1. log' = log
    BY <1>2
    DEF Next, TickStep, CallStep, RunStep, Clock, TickFails, TickBegins, SyncEnds, AdminSaves, SyncLooks,
        SyncCreates, ReadRow, AdminDeletes, AdminReads, FireDue, Restart, NowChecks, NowAdds,
        NowStartFails, NowStarts, NowReads, Begins, BodyEnds, UpdateReads, UpdateSaves, LogReads,
        Ends, SettleFails
  <2> QED BY <2>1 DEF Appended
<1> QED BY <1>1, <1>2

\* Until a run_now of it races, the log of a task with one schedule loses no
\* line but its oldest at the cap, and its lines stay in order.
THEOREM LogIsKept == Spec => LogKeepsLines
<1>1. Init => IInv /\ LinesAreLog BY InitTyped DEF Init, LinesAreLog
<1>2. IInv /\ LinesAreLog /\ [Next]_vars => (IInv /\ LinesAreLog)' BY StepHolds, LinesHold
<1>3. IInv /\ LinesAreLog /\ [Next]_vars =>
        [\A c \in Codes :
           (\A d \in Codes \ {c} : TaskOf[d] # TaskOf[c]) /\ c \notin raced
             => Appended(log[TaskOf[c]], log'[TaskOf[c]])]_vars
  BY LinesStay DEF AloneInLog
<1> QED BY <1>1, <1>2, <1>3, PTL DEF Spec, LogKeepsLines
=============================================================================
