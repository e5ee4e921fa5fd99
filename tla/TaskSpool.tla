------------------------------ MODULE TaskSpool ------------------------------
(***************************************************************************)
(* The batch backbone of one server process: the file spool                *)
(* (tasks/spool.py), the worker loop that claims from it                   *)
(* (tasks/manager.py) and the executor that runs and settles a claim       *)
(* (tasks/executor.py), over a disk that outlives the process.             *)
(*                                                                         *)
(* A task is a folder and its state is the directory the folder sits in.   *)
(* The spool takes no locks and every storage call below is one action:    *)
(* spool calls run on threads (asyncio.to_thread, server.run_sync), so the *)
(* sender, the user who cancels, the worker loop and the executions        *)
(* interleave between any two of them, and the process can die there.      *)
(*                                                                         *)
(* Writing a file makes the folders above it, so a writer that located a   *)
(* folder before somebody moved or removed it makes a stray folder.        *)
(*                                                                         *)
(* Nothing in the server calls purge; it is there for whoever holds the    *)
(* spool, and it looks at no state: a batch can be purged while it waits,  *)
(* while it is claimed and while it runs.                                  *)
(***************************************************************************)
EXTENDS Naturals

CONSTANTS
  Tasks,      \* the task ids senders may use; an id names one launch, ever
  Attended,   \* bound: the tasks somebody may cancel or purge
  MaxVisits,  \* bound: how many cancels and purges there are in all
  MaxLives    \* bound: how many times the server process is started

ASSUME AttendedAssumption == Attended \subseteq Tasks
ASSUME MaxVisitsAssumption == MaxVisits \in Nat
ASSUME MaxLivesAssumption == MaxLives \in Nat \ {0}

VARIABLES
  files,      \* files[t][p]: the files of folder <p>/<t> besides the descriptor
  descr,      \* descr[t][p]: the status its descriptor.json carries, NoDescr, or
              \* Nameless: stamped where there was none, with no identity in it
  sender,     \* sender[t]: the handler inside TaskSpool.create
  canceller,  \* canceller[t]: the folder a request_cancel located, not yet marked
  purger,     \* purger[t]: the folder a purge located, not yet removed
  visits,     \* how many cancels and purges have begun
  early,      \* the batches that were purged before they were settled (history)
  loop,       \* the worker loop (manager._worker_loop)
  listed,     \* the descriptors of this drain still to be claimed
  claim,      \* the thread inside TaskSpool.assign: [task, step]
  exec,       \* exec[t]: the loop task running executor.execute
  outcome,    \* outcome[t]: its local variable
  runs,       \* runs[t]: how often the handler of t was started (history)
  server,     \* the process
  lives       \* how many processes there have been

tree == <<files, descr>>
userVars == <<canceller, purger, visits, early>>
loopVars == <<loop, listed, claim>>
execVars == <<exec, outcome, runs>>
procVars == <<server, lives>>
vars == <<files, descr, sender, canceller, purger, visits, early,
          loop, listed, claim,
          exec, outcome, runs, server, lives>>

Settled == {"terminated", "aborted"}
Places  == {"pending", "active"} \cup Settled
Files   == {"params", "progress", "cancel", "result"}

NoDescr  == "no descriptor"
Nameless == "nameless"
NoFolder == "no folder"
NoTask   == "no task"
NoClaim  == [task |-> NoTask, step |-> "none"]

\* The steps of an execution that has not ended yet.
InFlight == {"launched", "described", "running", "returned",
             "ending", "settling", "blank", "stamped"}

TypeOK ==
  /\ files \in [Tasks -> [Places -> SUBSET Files]]
  /\ descr \in [Tasks -> [Places -> Places \cup {NoDescr, Nameless}]]
  /\ sender \in [Tasks -> {"idle", "described", "done", "cut"}]
  /\ canceller \in [Tasks -> Places \cup {NoFolder}]
  /\ purger \in [Tasks -> Places \cup {NoFolder}]
  /\ visits \in Nat
  /\ early \in SUBSET Tasks
  /\ loop \in {"off", "sleeping", "draining", "claiming"}
  /\ listed \in SUBSET Tasks
  /\ claim \in [task : Tasks \cup {NoTask},
                step : {"none", "asked", "read", "blank", "stamped", "moved"}]
  /\ exec \in [Tasks -> {"none", "done", "lost", "gone"} \cup InFlight]
  /\ outcome \in [Tasks -> {"ok", "error"}]
  /\ runs \in [Tasks -> Nat]
  /\ server \in {"up", "stopping", "down"}
  /\ lives \in Nat

-----------------------------------------------------------------------------
(* The tree.                                                               *)

Exists(t, p) == descr[t][p] # NoDescr \/ files[t][p] # {}

\* A descriptor that says whose it is and what to call.
Named(t, p) == descr[t][p] \in Places

\* TaskSpool._find_folder: the first folder of t, active looked up last.
FindFolder(t) ==
  IF Exists(t, "pending") THEN "pending"
  ELSE IF Exists(t, "terminated") THEN "terminated"
  ELSE IF Exists(t, "aborted") THEN "aborted"
  ELSE IF Exists(t, "active") THEN "active"
  ELSE NoFolder

WriteFile(t, p, f) ==
  files' = [files EXCEPT ![t][p] = @ \cup {f}]

Stamp(t, p, status) ==
  descr' = [descr EXCEPT ![t][p] = status]

\* StorageNode.move_to: one rename, the whole folder with what is in it.
MoveFolder(t, from, to) ==
  /\ files' = [files EXCEPT ![t][from] = {}, ![t][to] = @ \cup files[t][from]]
  /\ descr' = [descr EXCEPT ![t][from] = NoDescr, ![t][to] = descr[t][from]]

DeleteFolder(t, p) ==
  /\ files' = [files EXCEPT ![t][p] = {}]
  /\ descr' = [descr EXCEPT ![t][p] = NoDescr]

Init ==
  /\ files = [t \in Tasks |-> [p \in Places |-> {}]]
  /\ descr = [t \in Tasks |-> [p \in Places |-> NoDescr]]
  /\ sender = [t \in Tasks |-> "idle"]
  /\ canceller = [t \in Tasks |-> NoFolder]
  /\ purger = [t \in Tasks |-> NoFolder] /\ visits = 0 /\ early = {}
  /\ loop = "sleeping" /\ listed = {} /\ claim = NoClaim
  /\ exec = [t \in Tasks |-> "none"]
  /\ outcome = [t \in Tasks |-> "ok"]
  /\ runs = [t \in Tasks |-> 0]
  /\ server = "up" /\ lives = 1

-----------------------------------------------------------------------------
(* The sender: TaskSpool.create writes the descriptor, then the params.    *)

SenderDescribes(t) ==
  /\ server = "up" /\ sender[t] = "idle"
  /\ sender' = [sender EXCEPT ![t] = "described"]
  /\ Stamp(t, "pending", "pending")
  /\ UNCHANGED <<files, userVars, loopVars, execVars, procVars>>

SenderWritesParams(t) ==
  /\ sender[t] = "described"
  /\ sender' = [sender EXCEPT ![t] = "done"]
  /\ WriteFile(t, "pending", "params")
  /\ UNCHANGED <<descr, userVars, loopVars, execVars, procVars>>

-----------------------------------------------------------------------------
(* The user: request_cancel locates the folder, then writes the marker     *)
(* into it. purge locates the folder, whatever its state, and removes it.  *)

CancelFinds(t) ==
  /\ server = "up" /\ canceller[t] = NoFolder
  /\ visits < MaxVisits /\ visits' = visits + 1
  /\ FindFolder(t) # NoFolder
  /\ canceller' = [canceller EXCEPT ![t] = FindFolder(t)]
  /\ UNCHANGED <<tree, sender, purger, early, loopVars, execVars, procVars>>

CancelMarks(t) ==
  /\ canceller[t] # NoFolder
  /\ WriteFile(t, canceller[t], "cancel")
  /\ canceller' = [canceller EXCEPT ![t] = NoFolder]
  /\ UNCHANGED <<descr, sender, purger, visits, early, loopVars, execVars, procVars>>

PurgeFinds(t) ==
  /\ server = "up" /\ purger[t] = NoFolder
  /\ visits < MaxVisits /\ visits' = visits + 1
  /\ FindFolder(t) # NoFolder
  /\ purger' = [purger EXCEPT ![t] = FindFolder(t)]
  /\ UNCHANGED <<tree, sender, canceller, early, loopVars, execVars, procVars>>

\* What it removes is what lies there by now: nothing, if the folder moved on.
PurgeRemoves(t) ==
  /\ purger[t] # NoFolder
  /\ DeleteFolder(t, purger[t])
  /\ purger' = [purger EXCEPT ![t] = NoFolder]
  /\ early' = IF purger[t] \notin Settled /\ descr[t][purger[t]] # NoDescr
              THEN early \cup {t} ELSE early
  /\ UNCHANGED <<sender, canceller, visits, loopVars, execVars, procVars>>

-----------------------------------------------------------------------------
(* The worker loop: list pending, then for each descriptor assign it in a  *)
(* thread and launch its execution as a task of the loop.                  *)

\* spool.list_pending returns the folders that hold a descriptor.
ListPending ==
  LET pending == {t \in Tasks : descr[t]["pending"] # NoDescr}
  IN  /\ loop = "sleeping"
      /\ pending # {}
      /\ loop' = "draining" /\ listed' = pending
      /\ UNCHANGED <<tree, sender, userVars, claim, execVars, procVars>>

DrainEnds ==
  /\ loop = "draining" /\ listed = {}
  /\ loop' = "sleeping"
  /\ UNCHANGED <<tree, sender, userVars, listed, claim, execVars, procVars>>

\* The loop takes the task_id of each descriptor it listed. One that has none
\* raises KeyError, and the drain is over for all that come after it.
AskClaim(t) ==
  /\ loop = "draining" /\ t \in listed
  /\ descr[t]["pending"] # Nameless
  /\ loop' = "claiming" /\ listed' = listed \ {t}
  /\ claim' = [task |-> t, step |-> "asked"]
  /\ UNCHANGED <<tree, sender, userVars, execVars, procVars>>

DrainFails ==
  /\ loop = "draining"
  /\ \E t \in listed : descr[t]["pending"] = Nameless
  /\ loop' = "sleeping" /\ listed' = {}
  /\ UNCHANGED <<tree, sender, userVars, claim, execVars, procVars>>

\* assign: the folder is there, and its descriptor is read.
ClaimReads(t) ==
  /\ claim = [task |-> t, step |-> "asked"]
  /\ Exists(t, "pending")
  /\ claim' = [claim EXCEPT !.step = IF Named(t, "pending") THEN "read" ELSE "blank"]
  /\ UNCHANGED <<tree, sender, userVars, loop, listed, execVars, procVars>>

\* It is stamped active while still in pending; what was read is written back,
\* also where a purge removed the folder meanwhile.
ClaimStamps(t) ==
  /\ claim.task = t /\ claim.step \in {"read", "blank"}
  /\ Stamp(t, "pending", IF claim.step = "read" THEN "active" ELSE Nameless)
  /\ claim' = [claim EXCEPT !.step = "stamped"]
  /\ UNCHANGED <<files, sender, userVars, loop, listed, execVars, procVars>>

\* Wrong: the folder is copied to its new place and left where it was.
ClaimCopies(t) ==
  /\ claim = [task |-> t, step |-> "stamped"]
  /\ files' = [files EXCEPT ![t]["active"] = files[t]["pending"]]
  /\ descr' = [descr EXCEPT ![t]["active"] = descr[t]["pending"]]
  /\ claim' = [claim EXCEPT !.step = "moved"]
  /\ UNCHANGED <<sender, userVars, loop, listed, execVars, procVars>>

\* The rename that is the claim.
ClaimMoves(t) ==
  /\ claim = [task |-> t, step |-> "stamped"]
  /\ Exists(t, "pending")
  /\ MoveFolder(t, "pending", "active")
  /\ claim' = [claim EXCEPT !.step = "moved"]
  /\ UNCHANGED <<sender, userVars, loop, listed, execVars, procVars>>

\* assign finds nothing in pending, before the stamp or at the rename: what it
\* raises ends the drain, and the tasks listed after t wait for the next poll.
ClaimRefused(t) ==
  /\ claim.task = t /\ claim.step \in {"asked", "stamped"}
  /\ ~Exists(t, "pending")
  /\ claim' = NoClaim /\ listed' = {}
  /\ loop' = IF loop = "claiming" THEN "sleeping" ELSE loop
  /\ UNCHANGED <<tree, sender, userVars, execVars, procVars>>

\* Wrong: the claimed task is never handed to the loop.
LaunchForgotten(t) ==
  /\ loop = "claiming" /\ claim = [task |-> t, step |-> "moved"]
  /\ loop' = "draining" /\ claim' = NoClaim
  /\ UNCHANGED <<tree, sender, userVars, listed, execVars, procVars>>

Launch(t) ==
  /\ loop = "claiming" /\ claim = [task |-> t, step |-> "moved"]
  /\ exec' = [exec EXCEPT ![t] = "launched"]
  /\ loop' = "draining" /\ claim' = NoClaim
  /\ UNCHANGED <<tree, sender, userVars, listed, outcome, runs, procVars>>

-----------------------------------------------------------------------------
(* executor.execute. The two reads come before its try block: what they    *)
(* raise ends the loop task there, and nothing settles the folder.         *)

Step(t, from, to) ==
  /\ exec[t] = from
  /\ exec' = [exec EXCEPT ![t] = to]

\* spool.get: the descriptor of whichever folder _find_folder comes to first. A
\* nameless one says no mount, which ends execute a few lines further down.
ReadDescriptor(t) ==
  LET p == FindFolder(t)
  IN  /\ IF p # NoFolder /\ Named(t, p)
         THEN Step(t, "launched", "described")
         ELSE Step(t, "launched", "lost")
      /\ UNCHANGED <<tree, sender, userVars, loopVars, outcome, runs, procVars>>

\* spool.read_params; then the handler is resolved and called.
ReadParams(t) ==
  LET p == FindFolder(t)
  IN  /\ IF p # NoFolder /\ "params" \in files[t][p]
         THEN /\ Step(t, "described", "running")
              /\ runs' = [runs EXCEPT ![t] = @ + 1]
         ELSE /\ Step(t, "described", "lost")
              /\ UNCHANGED runs
      /\ UNCHANGED <<tree, sender, userVars, loopVars, outcome, procVars>>

\* manager.publish_progress, called by the running handler. The look and the
\* write are one action: all that could come between is a purge, and a purge
\* after the write followed by WriteResult leaves as stray a folder.
PublishProgress(t) ==
  /\ exec[t] = "running"
  /\ FindFolder(t) # NoFolder /\ descr[t][FindFolder(t)] = "active"
  /\ WriteFile(t, "active", "progress")
  /\ UNCHANGED <<descr, sender, userVars, loopVars, execVars, procVars>>

HandlerReturns(t) ==
  /\ Step(t, "running", "returned")
  /\ UNCHANGED <<tree, sender, userVars, loopVars, outcome, runs, procVars>>

\* Wrong: the exception is logged, and the outcome stays what it was.
FailureOnlyLogged(t) ==
  /\ \E from \in {"running", "returned"} : Step(t, from, "ending")
  /\ UNCHANGED <<tree, sender, userVars, loopVars, outcome, runs, procVars>>

\* An exception inside the try: no such route, the handler's own (also when
\* publish_progress refuses it), a result that cannot be pickled.
HandlerFails(t) ==
  /\ \E from \in {"running", "returned"} : Step(t, from, "ending")
  /\ outcome' = [outcome EXCEPT ![t] = "error"]
  /\ UNCHANGED <<tree, sender, userVars, loopVars, runs, procVars>>

WriteResult(t) ==
  /\ Step(t, "returned", "ending")
  /\ WriteFile(t, "active", "result")
  /\ UNCHANGED <<descr, sender, userVars, loopVars, outcome, runs, procVars>>

TargetStatus(t) == IF outcome[t] = "ok" THEN "terminated" ELSE "aborted"

\* settle: the folder is there, and its descriptor is read.
SettleReads(t) ==
  /\ Exists(t, "active")
  /\ Step(t, "ending", IF Named(t, "active") THEN "settling" ELSE "blank")
  /\ UNCHANGED <<tree, sender, userVars, loopVars, outcome, runs, procVars>>

\* The terminal status on the descriptor, still in active.
SettleStamps(t) ==
  /\ \E from \in {"settling", "blank"} : Step(t, from, "stamped")
  /\ Stamp(t, "active", IF exec[t] = "settling" THEN TargetStatus(t) ELSE Nameless)
  /\ UNCHANGED <<files, sender, userVars, loopVars, outcome, runs, procVars>>

\* Wrong: a batch that failed goes back to where it waited.
SettleRequeues(t) ==
  /\ Exists(t, "active")
  /\ Step(t, "stamped", "done")
  /\ MoveFolder(t, "active", IF outcome[t] = "ok" THEN "terminated" ELSE "pending")
  /\ UNCHANGED <<sender, userVars, loopVars, outcome, runs, procVars>>

\* The rename that ends the task.
SettleMoves(t) ==
  /\ Exists(t, "active")
  /\ Step(t, "stamped", "done")
  /\ MoveFolder(t, "active", TargetStatus(t))
  /\ UNCHANGED <<sender, userVars, loopVars, outcome, runs, procVars>>

\* settle finds nothing in active, before the stamp or at the rename: it raises
\* outside the try block, and the execution is over unsettled.
SettleRefused(t) ==
  /\ ~Exists(t, "active")
  /\ \E from \in {"ending", "stamped"} : Step(t, from, "lost")
  /\ UNCHANGED <<tree, sender, userVars, loopVars, outcome, runs, procVars>>

-----------------------------------------------------------------------------
(* The process. The last of its MaxLives lives neither stops nor dies.     *)

\* manager.stop cancels the worker loop and lets the executions finish. The
\* thread inside assign goes on too, unless the pool had not started it yet.
Stop ==
  /\ server = "up" /\ lives < MaxLives
  /\ server' = "stopping"
  /\ loop' = "off" /\ listed' = {}
  /\ claim' \in {claim} \cup (IF claim.step = "asked" THEN {NoClaim} ELSE {})
  /\ UNCHANGED <<tree, sender, userVars, execVars, lives>>

\* A crash, or the end of the loop after a stop: only the disk is left.
Die ==
  /\ server # "down" /\ lives < MaxLives
  /\ server' = "down"
  /\ loop' = "off" /\ listed' = {} /\ claim' = NoClaim
  /\ sender' = [t \in Tasks |-> IF sender[t] = "described" THEN "cut" ELSE sender[t]]
  /\ canceller' = [t \in Tasks |-> NoFolder]
  /\ purger' = [t \in Tasks |-> NoFolder]
  /\ exec' = [t \in Tasks |-> IF exec[t] \in InFlight THEN "gone" ELSE exec[t]]
  /\ UNCHANGED <<tree, visits, early, outcome, runs, lives>>

\* A new process: manager.start, and not one look at what active/ holds.
Start ==
  /\ server = "down" /\ server' = "up"
  /\ lives' = lives + 1
  /\ loop' = "sleeping"
  /\ UNCHANGED <<tree, sender, userVars, listed, claim, execVars>>

LoopStep ==
  \/ ListPending
  \/ DrainEnds \/ DrainFails
  \/ \E t \in Tasks :
       \/ AskClaim(t) \/ ClaimReads(t) \/ ClaimStamps(t) \/ ClaimMoves(t)
       \/ ClaimRefused(t) \/ Launch(t)

ExecStep(t) ==
  \/ ReadDescriptor(t) \/ ReadParams(t)
  \/ HandlerReturns(t) \/ HandlerFails(t) \/ WriteResult(t)
  \/ SettleReads(t) \/ SettleStamps(t) \/ SettleMoves(t) \/ SettleRefused(t)

UserStep(t) ==
  \/ SenderDescribes(t) \/ SenderWritesParams(t)
  \/ t \in Attended /\ (CancelFinds(t) \/ CancelMarks(t))
  \/ t \in Attended /\ (PurgeFinds(t) \/ PurgeRemoves(t))

Next ==
  \/ LoopStep
  \/ \E t \in Tasks : UserStep(t) \/ ExecStep(t) \/ PublishProgress(t)
  \/ Stop \/ Die \/ Start

\* The event loop and its threads get to run, handlers end, a server that
\* went down is started again. Nobody has to cancel, purge or crash.
Fairness ==
  /\ WF_vars(LoopStep)
  /\ \A t \in Tasks : WF_vars(ExecStep(t)) /\ WF_vars(SenderWritesParams(t))
  /\ WF_vars(Die /\ server = "stopping")
  /\ WF_vars(Start)

Spec == Init /\ [][Next]_vars /\ Fairness

-----------------------------------------------------------------------------
(* Properties.                                                             *)

Described(t, p) == descr[t][p] # NoDescr
IsSettled(t) == \E p \in Settled : Described(t, p)

\* The folder of t is torn: it is not one folder, or it lacks its params.
Torn(t) ==
  \/ \E p, q \in Places : p # q /\ Exists(t, p) /\ Exists(t, q)
  \/ \E p \in Places : Described(t, p) /\ "params" \notin files[t][p]

\* spool.py, "a batch_id never resumes or relaunches itself": whatever is
\* listed again after a crash inside assign, no handler is started twice.
RunsOnce == \A t \in Tasks : runs[t] <= 1

\* spool.py, "its STATE is its POSITION": there is one descriptor, and the
\* status it carries is the state it sits in, or the one it is moving to.
\* Here and below, of the batches nobody purged before they were settled.
StatusFollowsPosition ==
  \A t \in Tasks \ early :
    /\ \A p, q \in Places : Described(t, p) /\ Described(t, q) => p = q
    /\ Described(t, "pending") => descr[t]["pending"] \in {"pending", "active"}
    /\ Described(t, "active") => descr[t]["active"] \notin {"pending", Nameless}
    /\ \A p \in Settled : Described(t, p) => descr[t][p] = p

\* executor.execute, settle: a batch under terminated/ has its result, one
\* under aborted/ has none, whatever failed on the way there.
ResultTellsOutcome ==
  \A t \in Tasks \ early :
    /\ Described(t, "terminated") => "result" \in files[t]["terminated"]
    /\ Described(t, "aborted") => "result" \notin files[t]["aborted"]

\* An execution is in flight only while its descriptor is in active/, so the
\* LookupError of settle is never raised under it.
ExecutionOwnsFolder ==
  \A t \in Tasks \ early : exec[t] \in InFlight => Described(t, "active")

\* execute ends outside its try block only over a folder that another writer
\* tore (a create that was still writing, a cancel that had located the folder
\* before the claim moved it) or that a purge took from under it.
LostOnlyWhenTorn ==
  [][\A t \in Tasks \ early : exec'[t] = "lost" => exec[t] = "lost" \/ Torn(t)]_vars

\* The folder of a batch tells the truth about it, as the four above say.
FolderTells ==
  /\ [](TypeOK /\ StatusFollowsPosition /\ ResultTellsOutcome /\ ExecutionOwnsFolder)
  /\ LostOnlyWhenTorn

\* A descriptor without identity among the pending ones makes every poll raise.
PollsFail == \E t \in Tasks : descr[t]["pending"] = Nameless

\* Nothing under pending/ is forgotten, across stops, crashes and restarts:
\* sooner or later it is claimed, unless the polls fail on another.
PendingIsClaimed ==
  \A t \in Tasks : Described(t, "pending") ~> ~Described(t, "pending") \/ PollsFail

\* In a process that stays up every batch reaches terminated/ or aborted/,
\* unless its execution was lost to a torn folder or it was purged unsettled.
BatchSettles ==
  \A t \in Tasks :
    Described(t, "pending") /\ lives = MaxLives
      ~> IsSettled(t) \/ exec[t] = "lost" \/ t \in early \/ PollsFail

\* Both: no batch is forgotten on its way.
NoneIsForgotten == PendingIsClaimed /\ BatchSettles

\* The spool implements the life of a batch: where the descriptor is, is how
\* far the batch has got. A batch that was purged is gone for good, whatever
\* late writers make of its folder.
StageOf(t) ==
  IF t \notin early /\ \E p \in Places : Described(t, p)
  THEN CHOOSE p \in Places : Described(t, p)
  ELSE IF sender[t] = "idle" THEN "absent" ELSE "gone"

Lifecycle == INSTANCE BatchLifecycle WITH stage <- [t \in Tasks |-> StageOf(t)]

ImplementsLifecycle == Lifecycle!Spec

-----------------------------------------------------------------------------
(* What the documentation says and the code does not do.                   *)

\* executor.py: "settles it once: any outcome (ok / error) moves the folder".
ExecutionSettles == \A t \in Tasks : exec[t] # "lost"
=============================================================================
