------------------------- MODULE BatchTasks_proofs -------------------------
(***************************************************************************)
(* The batch tasks: their spool, and below, their events.                  *)
(*                                                                         *)
(* Of TaskSpool, for any set of tasks and any number of lives: type        *)
(* correctness, the safety invariants, and that every step of the spool is *)
(* a step of BatchLifecycle or a stutter.                                  *)
(*                                                                         *)
(* The invariants are not inductive by themselves: that no handler starts  *)
(* twice rests on who can still have a hand on the task. Custody says      *)
(* that, per task and whatever is purged. Held says, of a batch that was   *)
(* not purged before it was settled, where its descriptor is meanwhile;    *)
(* Label, what that says, and Verdict tie the result file to the outcome.  *)
(***************************************************************************)
EXTENDS TaskSpool, TaskEvents, SequenceTheorems, TLAPS

\* The step of the claim that a thread of the pool is making of t.
Hand(t) == IF claim.task = t THEN claim.step ELSE "none"

\* What is on disk and who has a hand on the task, by whoever still holds it.
NothingOnDisk(t) == \A p \in Places : ~Exists(t, p)

Custody(t) ==
  /\ sender[t] = "idle" =>
       /\ NothingOnDisk(t) /\ canceller[t] = NoFolder /\ purger[t] = NoFolder
       /\ exec[t] = "none" /\ t \notin listed /\ Hand(t) = "none" /\ t \notin early
  /\ t \in listed => Hand(t) = "none" /\ exec[t] = "none"
  /\ Hand(t) # "none" => exec[t] = "none"
  /\ Hand(t) = "moved" => ~Described(t, "pending")
  /\ Described(t, "pending") => exec[t] = "none"
  /\ exec[t] \in {"none", "launched", "described"} => runs[t] = 0
  /\ runs[t] <= 1

\* Where the descriptor is while somebody has a hand on the task.
Held(t) ==
  /\ \A p, q \in Places : Described(t, p) /\ Described(t, q) => p = q
  /\ t \in listed => Described(t, "pending")
  /\ Hand(t) \in {"asked", "read", "stamped"} => Described(t, "pending")
  /\ Hand(t) = "moved" => Described(t, "active")
  /\ exec[t] \in InFlight => Described(t, "active")
  /\ IsSettled(t) => exec[t] = "done"
  /\ Hand(t) # "blank" /\ exec[t] # "blank" /\ \A p \in Places : descr[t][p] # Nameless

\* What the descriptor says there.
Label(t) ==
  /\ Described(t, "pending") => descr[t]["pending"] \in {"pending", "active"}
  /\ Hand(t) = "stamped" => descr[t]["pending"] = "active"
  /\ Described(t, "active") => descr[t]["active"] # "pending"
  /\ exec[t] = "stamped" => descr[t]["active"] = TargetStatus(t)
  /\ \A p \in Settled : Described(t, p) => descr[t][p] = p

\* Where a result can be, by the outcome of the execution.
NoResult(t) == \A p \in Places : "result" \notin files[t][p]

Verdict(t) ==
  /\ exec[t] \in {"none", "launched", "described", "running", "returned"}
       => NoResult(t) /\ outcome[t] = "ok"
  /\ exec[t] \in {"ending", "settling", "blank", "stamped"} =>
       IF outcome[t] = "ok" THEN "result" \in files[t]["active"] ELSE NoResult(t)
  /\ Described(t, "terminated") => "result" \in files[t]["terminated"]
  /\ Described(t, "aborted") => "result" \notin files[t]["aborted"]

\* The loop is there while the process is up; while it sleeps or drains, and
\* in a process that is gone, no thread holds a claim.
OneClaim ==
  /\ loop = "off" <=> server # "up"
  /\ loop \in {"sleeping", "draining"} \/ server = "down" => claim.step = "none"

IInv ==
  /\ TypeOK
  /\ OneClaim
  /\ \A t \in Tasks : Custody(t)
  /\ \A t \in Tasks \ early : Held(t) /\ Label(t) /\ Verdict(t)

-----------------------------------------------------------------------------
(* Type correctness.                                                       *)

LEMMA InitTypeOK == Init => TypeOK
<1> SUFFICES ASSUME Init PROVE TypeOK
  OBVIOUS
<1>1. files \in [Tasks -> [Places -> SUBSET Files]]
  BY DEF Init
<1>2. descr \in [Tasks -> [Places -> Places \cup {NoDescr, Nameless}]]
  BY DEF Init
<1>3. sender \in [Tasks -> {"idle", "described", "done", "cut"}]
  BY DEF Init
<1>4. /\ canceller \in [Tasks -> Places \cup {NoFolder}]
      /\ purger \in [Tasks -> Places \cup {NoFolder}]
  BY DEF Init
<1>5. claim \in [task : Tasks \cup {NoTask},
                 step : {"none", "asked", "read", "blank", "stamped", "moved"}]
  BY DEF Init, NoClaim
<1>6. exec \in [Tasks -> {"none", "done", "lost", "gone"} \cup InFlight]
  BY DEF Init
<1>7. outcome \in [Tasks -> {"ok", "error"}] /\ runs \in [Tasks -> Nat]
  BY DEF Init
<1>8. visits \in Nat /\ early \in SUBSET Tasks /\ lives \in Nat
  BY DEF Init
<1>9. /\ loop \in {"off", "sleeping", "draining", "claiming"}
      /\ listed \in SUBSET Tasks
      /\ server \in {"up", "stopping", "down"}
  BY DEF Init
<1> QED
  BY <1>1, <1>2, <1>3, <1>4, <1>5, <1>6, <1>7, <1>8, <1>9 DEF TypeOK

\* A folder that moves between two places leaves the tree well typed.
LEMMA MoveFolderTypeOK ==
  ASSUME NEW t \in Tasks, NEW from \in Places, NEW to \in Places, TypeOK,
         MoveFolder(t, from, to)
  PROVE  /\ files' \in [Tasks -> [Places -> SUBSET Files]]
         /\ descr' \in [Tasks -> [Places -> Places \cup {NoDescr, Nameless}]]
<1>1. [files[t] EXCEPT ![from] = {}, ![to] = @ \cup files[t][from]]
        \in [Places -> SUBSET Files]
  <2>1. files[t] \in [Places -> SUBSET Files]
    BY DEF TypeOK
  <2> QED
    BY ONLY <2>1, from \in Places, to \in Places
<1>2. [descr[t] EXCEPT ![from] = NoDescr, ![to] = descr[t][from]]
        \in [Places -> Places \cup {NoDescr, Nameless}]
  BY DEF TypeOK
<1>3. files' = [files EXCEPT
                 ![t] = [files[t] EXCEPT ![from] = {}, ![to] = @ \cup files[t][from]]]
  BY DEF TypeOK, MoveFolder
<1>4. descr' = [descr EXCEPT
                 ![t] = [descr[t] EXCEPT ![from] = NoDescr, ![to] = descr[t][from]]]
  BY DEF TypeOK, MoveFolder
<1> QED
  BY <1>1, <1>2, <1>3, <1>4 DEF TypeOK

\* Nor does a stamp, whatever it says, or a folder that is removed.
LEMMA StampTypeOK ==
  ASSUME NEW t \in Tasks, NEW p \in Places, NEW label \in Places \cup {Nameless},
         TypeOK, Stamp(t, p, label)
  PROVE  descr' \in [Tasks -> [Places -> Places \cup {NoDescr, Nameless}]]
BY DEF TypeOK, Stamp

LEMMA DeleteFolderTypeOK ==
  ASSUME NEW t \in Tasks, NEW p \in Places, TypeOK, DeleteFolder(t, p)
  PROVE  /\ files' \in [Tasks -> [Places -> SUBSET Files]]
         /\ descr' \in [Tasks -> [Places -> Places \cup {NoDescr, Nameless}]]
BY DEF TypeOK, DeleteFolder

LEMMA StepTypeOK == TypeOK /\ [Next]_vars => TypeOK'
<1> SUFFICES ASSUME TypeOK, [Next]_vars PROVE TypeOK'
  OBVIOUS
<1> USE DEF TypeOK, Places, Settled, loopVars, execVars, procVars, userVars, tree
<1>1. CASE LoopStep
  <2>1. CASE ListPending
    BY <2>1 DEF ListPending
  <2>2. CASE DrainEnds \/ DrainFails
    BY <2>2 DEF DrainEnds, DrainFails
  <2>3. ASSUME NEW t \in Tasks, AskClaim(t) PROVE TypeOK'
    BY <2>3 DEF AskClaim
  <2>4. ASSUME NEW t \in Tasks, ClaimReads(t) PROVE TypeOK'
    BY <2>4 DEF ClaimReads
  <2>5. ASSUME NEW t \in Tasks, ClaimStamps(t) PROVE TypeOK'
    BY <2>5, StampTypeOK DEF ClaimStamps
  <2>6. ASSUME NEW t \in Tasks, ClaimMoves(t) PROVE TypeOK'
    BY <2>6, MoveFolderTypeOK DEF ClaimMoves
  <2>7. ASSUME NEW t \in Tasks, ClaimRefused(t) PROVE TypeOK'
    BY <2>7 DEF ClaimRefused, NoClaim
  <2>8. ASSUME NEW t \in Tasks, Launch(t) PROVE TypeOK'
    BY <2>8 DEF Launch, NoClaim, InFlight
  <2> QED
    BY <1>1, <2>1, <2>2, <2>3, <2>4, <2>5, <2>6, <2>7, <2>8 DEF LoopStep
<1>2. ASSUME NEW t \in Tasks, UserStep(t) PROVE TypeOK'
  <2>1. CASE SenderDescribes(t)
    BY <2>1, StampTypeOK DEF SenderDescribes
  <2>2. CASE SenderWritesParams(t)
    BY <2>2 DEF SenderWritesParams, WriteFile, Files
  <2>3. CASE CancelFinds(t)
    BY <2>3 DEF CancelFinds, FindFolder
  <2>4. CASE CancelMarks(t)
    BY <2>4 DEF CancelMarks, WriteFile, Files
  <2>5. CASE PurgeFinds(t)
    BY <2>5 DEF PurgeFinds, FindFolder
  <2>6. CASE PurgeRemoves(t)
    <3>1. /\ files' \in [Tasks -> [Places -> SUBSET Files]]
          /\ descr' \in [Tasks -> [Places -> Places \cup {NoDescr, Nameless}]]
      BY <2>6, DeleteFolderTypeOK DEF PurgeRemoves
    <3> QED
      BY <2>6, <3>1 DEF PurgeRemoves
  <2> QED
    BY <1>2, <2>1, <2>2, <2>3, <2>4, <2>5, <2>6 DEF UserStep
<1>3. ASSUME NEW t \in Tasks, ExecStep(t) PROVE TypeOK'
  <2> USE DEF Step, InFlight
  <2>1. CASE ReadDescriptor(t)
    BY <2>1 DEF ReadDescriptor
  <2>2. CASE ReadParams(t)
    <3>1. UNCHANGED <<tree, sender, userVars, loopVars, outcome, procVars>>
      BY <2>2 DEF ReadParams
    <3>2. \E to \in {"running", "lost"} : exec' = [exec EXCEPT ![t] = to]
      BY <2>2 DEF ReadParams
    <3>3. runs' = [runs EXCEPT ![t] = @ + 1] \/ runs' = runs
      BY <2>2 DEF ReadParams
    <3>4. exec' \in [Tasks -> {"none", "done", "lost", "gone"} \cup InFlight]
      BY <3>2
    <3>5. runs' \in [Tasks -> Nat]
      <4>1. runs \in [Tasks -> Nat]
        OBVIOUS
      <4> QED
        BY ONLY <3>3, <4>1
    <3> QED
      BY <3>1, <3>4, <3>5
  <2>3. CASE HandlerReturns(t)
    BY <2>3 DEF HandlerReturns
  <2>4. CASE HandlerFails(t)
    BY <2>4 DEF HandlerFails
  <2>5. CASE WriteResult(t)
    BY <2>5 DEF WriteResult, WriteFile, Files
  <2>6. CASE SettleReads(t) \/ SettleRefused(t)
    BY <2>6 DEF SettleReads, SettleRefused
  <2>7. CASE SettleStamps(t)
    BY <2>7, StampTypeOK DEF SettleStamps, TargetStatus
  <2>8. CASE SettleMoves(t)
    BY <2>8, MoveFolderTypeOK DEF SettleMoves, TargetStatus
  <2> QED
    BY <1>3, <2>1, <2>2, <2>3, <2>4, <2>5, <2>6, <2>7, <2>8 DEF ExecStep
<1>4. ASSUME NEW t \in Tasks, PublishProgress(t) PROVE TypeOK'
  BY <1>4 DEF PublishProgress, WriteFile, Files
<1>5. CASE Stop
  BY <1>5 DEF Stop, NoClaim
<1>6. CASE Die
  BY <1>6 DEF Die, NoClaim
<1>7. CASE Start
  BY <1>7 DEF Start
<1>8. CASE UNCHANGED vars
  BY <1>8 DEF vars
<1> QED
  BY <1>1, <1>2, <1>3, <1>4, <1>5, <1>6, <1>7, <1>8 DEF Next

\* Every state of the spool, its actors and its process is well typed.
THEOREM TypeCorrect == Spec => []TypeOK
BY InitTypeOK, StepTypeOK, PTL DEF Spec

-----------------------------------------------------------------------------
(* A step is either the step of one task, which leaves every other task     *)
(* alone, or one of the steps of the process and its loop.                  *)

TaskStep(t) ==
  \/ AskClaim(t) \/ ClaimReads(t) \/ ClaimStamps(t) \/ ClaimMoves(t)
  \/ ClaimRefused(t) \/ Launch(t)
  \/ UserStep(t) \/ ExecStep(t) \/ PublishProgress(t)

ServerStep ==
  ListPending \/ DrainEnds \/ DrainFails \/ Stop \/ Die \/ Start \/ UNCHANGED vars

Untouched(t) ==
  /\ descr'[t] = descr[t] /\ files'[t] = files[t]
  /\ sender'[t] = sender[t] /\ canceller'[t] = canceller[t] /\ purger'[t] = purger[t]
  /\ exec'[t] = exec[t] /\ outcome'[t] = outcome[t] /\ runs'[t] = runs[t]
  /\ (t \in early') <=> (t \in early)
  /\ (t \in listed') => (t \in listed)
  /\ Hand(t)' = Hand(t)

LEMMA StepSplit ==
  ASSUME [Next]_vars
  PROVE  ServerStep \/ \E t \in Tasks : TaskStep(t)
BY DEF Next, LoopStep, ServerStep, TaskStep

\* A purge before its time is never forgotten.
LEMMA EarlyGrows ==
  ASSUME [Next]_vars
  PROVE  early \subseteq early'
<1> USE DEF tree, userVars, loopVars, execVars, procVars
<1>1. CASE ServerStep
  BY <1>1 DEF ServerStep, ListPending, DrainEnds, DrainFails, Stop, Die, Start, vars
<1>2. ASSUME NEW t \in Tasks, TaskStep(t) PROVE early \subseteq early'
  <2>1. CASE PurgeRemoves(t)
    BY <2>1 DEF PurgeRemoves
  <2>2. CASE ~PurgeRemoves(t) /\ ~ExecStep(t)
    BY <1>2, <2>2 DEF TaskStep, AskClaim, ClaimReads, ClaimStamps, ClaimMoves, ClaimRefused,
              Launch, UserStep, SenderDescribes, SenderWritesParams, CancelFinds,
              CancelMarks, PurgeFinds, PublishProgress
  <2>3. CASE ExecStep(t)
    BY <2>3 DEF ExecStep, ReadDescriptor, ReadParams, HandlerReturns, HandlerFails,
              WriteResult, SettleReads, SettleStamps, SettleMoves, SettleRefused
  <2> QED
    BY <2>1, <2>2, <2>3
<1> QED
  BY <1>1, <1>2, StepSplit

\* What a rename does to the two trees, place by place.
LEMMA MoveFolderEffect ==
  ASSUME NEW t \in Tasks, NEW from \in Places, NEW to \in Places, from # to,
         TypeOK, MoveFolder(t, from, to)
  PROVE  /\ \A u \in Tasks : u # t => descr'[u] = descr[u] /\ files'[u] = files[u]
         /\ \A p \in Places : p \notin {from, to} =>
              descr'[t][p] = descr[t][p] /\ files'[t][p] = files[t][p]
         /\ descr'[t][from] = NoDescr /\ files'[t][from] = {}
         /\ descr'[t][to] = descr[t][from]
         /\ files'[t][to] = files[t][to] \cup files[t][from]
BY DEF TypeOK, MoveFolder

\* What a stamp does to the descriptors, place by place.
LEMMA StampEffect ==
  ASSUME NEW t \in Tasks, NEW p \in Places, NEW label, TypeOK, Stamp(t, p, label)
  PROVE  /\ \A u \in Tasks : u # t => descr'[u] = descr[u]
         /\ \A q \in Places : q # p => descr'[t][q] = descr[t][q]
         /\ descr'[t][p] = label
BY DEF TypeOK, Stamp

\* What a removal does to the two trees, place by place.
LEMMA DeleteFolderEffect ==
  ASSUME NEW t \in Tasks, NEW p \in Places, TypeOK, DeleteFolder(t, p)
  PROVE  /\ \A u \in Tasks : u # t => descr'[u] = descr[u] /\ files'[u] = files[u]
         /\ \A q \in Places : q # p =>
              descr'[t][q] = descr[t][q] /\ files'[t][q] = files[t][q]
         /\ descr'[t][p] = NoDescr /\ files'[t][p] = {}
BY DEF TypeOK, DeleteFolder

\* What a written file does to the tree, place by place.
LEMMA WriteFileEffect ==
  ASSUME NEW t \in Tasks, NEW p \in Places, NEW f \in Files,
         TypeOK, WriteFile(t, p, f)
  PROVE  /\ \A u \in Tasks : u # t => files'[u] = files[u]
         /\ \A q \in Places : q # p => files'[t][q] = files[t][q]
         /\ files'[t][p] = files[t][p] \cup {f}
BY DEF TypeOK, WriteFile

LEMMA FindFolderType ==
  ASSUME NEW t \in Tasks
  PROVE  FindFolder(t) \in Places \cup {NoFolder}
BY DEF FindFolder, Places, Settled

\* What a purge removes is a folder of a place.
LEMMA PurgerPlace ==
  ASSUME TypeOK, NEW t \in Tasks, PurgeRemoves(t)
  PROVE  purger[t] \in Places /\ DeleteFolder(t, purger[t])
BY DEF TypeOK, PurgeRemoves

LEMMA OneClaimInductive ==
  /\ Init => OneClaim
  /\ TypeOK /\ OneClaim /\ [Next]_vars => OneClaim'
<1>1. Init => OneClaim
  BY DEF Init, OneClaim, NoClaim
<1>2. ASSUME TypeOK, OneClaim, [Next]_vars PROVE OneClaim'
  <2> USE <1>2 DEF OneClaim, loopVars, execVars, procVars, NoClaim
  <2>1. ASSUME NEW t \in Tasks, TaskStep(t) PROVE OneClaim'
    <3>1. CASE AskClaim(t) \/ Launch(t) \/ ClaimRefused(t)
      BY <3>1 DEF AskClaim, Launch, ClaimRefused, TypeOK
    <3>2. CASE ClaimReads(t) \/ ClaimStamps(t) \/ ClaimMoves(t)
      BY <3>2 DEF ClaimReads, ClaimStamps, ClaimMoves, TypeOK
    <3>3. CASE UserStep(t)
      BY <3>3 DEF UserStep, SenderDescribes, SenderWritesParams, CancelFinds,
                  CancelMarks, PurgeFinds, PurgeRemoves
    <3>4. CASE ExecStep(t) \/ PublishProgress(t)
      BY <3>4 DEF ExecStep, ReadDescriptor, ReadParams, HandlerReturns, HandlerFails,
                  WriteResult, SettleReads, SettleStamps, SettleMoves, SettleRefused,
                  PublishProgress
    <3> QED
      BY <2>1, <3>1, <3>2, <3>3, <3>4 DEF TaskStep
  <2>2. CASE ServerStep
    BY <2>2 DEF ServerStep, ListPending, DrainEnds, DrainFails, Stop, Die, Start, vars
  <2> QED
    BY <2>1, <2>2, StepSplit
<1> QED
  BY <1>1, <1>2

\* The step of one task leaves the others where and as they were.
LEMMA OthersUntouched ==
  ASSUME TypeOK, OneClaim, NEW t \in Tasks, TaskStep(t), NEW u \in Tasks, u # t
  PROVE  Untouched(u)
<1> USE DEF Untouched, Hand, tree, userVars, loopVars, execVars, procVars
<1>1. CASE AskClaim(t)
  BY <1>1 DEF AskClaim, OneClaim, TypeOK
<1>2. CASE ClaimReads(t)
  BY <1>2 DEF ClaimReads, TypeOK
<1>3. CASE ClaimStamps(t)
  BY <1>3 DEF ClaimStamps, Stamp, TypeOK
<1>4. CASE ClaimMoves(t)
  <2>1. descr'[u] = descr[u] /\ files'[u] = files[u]
    BY <1>4, MoveFolderEffect DEF ClaimMoves, Places
  <2> QED
    BY <1>4, <2>1 DEF ClaimMoves, TypeOK
<1>5. CASE ClaimRefused(t) \/ Launch(t)
  BY <1>5 DEF ClaimRefused, Launch, NoClaim, TypeOK
<1>6. CASE UserStep(t)
  <2>1. CASE PurgeRemoves(t)
    <3>1. descr'[u] = descr[u] /\ files'[u] = files[u]
      BY <2>1, PurgerPlace, DeleteFolderEffect
    <3> QED
      BY <2>1, <3>1 DEF PurgeRemoves, TypeOK
  <2>2. CASE ~PurgeRemoves(t)
    BY <1>6, <2>2 DEF UserStep, SenderDescribes, SenderWritesParams, CancelFinds,
                      CancelMarks, PurgeFinds, Stamp, WriteFile, TypeOK
  <2> QED
    BY <2>1, <2>2
<1>7. CASE ExecStep(t)
  <2> USE DEF Step, TypeOK
  <2>1. CASE ReadDescriptor(t) \/ ReadParams(t)
    BY <2>1 DEF ReadDescriptor, ReadParams
  <2>2. CASE HandlerReturns(t) \/ HandlerFails(t) \/ SettleReads(t) \/ SettleRefused(t)
    BY <2>2 DEF HandlerReturns, HandlerFails, SettleReads, SettleRefused
  <2>3. CASE WriteResult(t) \/ SettleStamps(t)
    BY <2>3 DEF WriteResult, WriteFile, SettleStamps, Stamp
  <2>4. CASE SettleMoves(t)
    BY <2>4 DEF SettleMoves, MoveFolder
  <2> QED
    BY <1>7, <2>1, <2>2, <2>3, <2>4 DEF ExecStep
<1>8. CASE PublishProgress(t)
  BY <1>8 DEF PublishProgress, WriteFile, TypeOK
<1> QED
  BY <1>1, <1>2, <1>3, <1>4, <1>5, <1>6, <1>7, <1>8 DEF TaskStep

\* What is said of a task stays true while nothing about it changes.
LEMMA Frame ==
  ASSUME NEW t \in Tasks, Untouched(t)
  PROVE  /\ Custody(t) => Custody(t)'
         /\ Held(t) => Held(t)'
         /\ Label(t) => Label(t)'
         /\ Verdict(t) => Verdict(t)'
<1> USE DEF Untouched, Described, Exists
<1>1. Custody(t) => Custody(t)'
  BY DEF Custody, NothingOnDisk
<1>2. Held(t) => Held(t)'
  BY DEF Held, IsSettled
<1>3. Label(t) => Label(t)'
  BY DEF Label, TargetStatus
<1>4. Verdict(t) => Verdict(t)'
  BY DEF Verdict, NoResult
<1> QED
  BY <1>1, <1>2, <1>3, <1>4

-----------------------------------------------------------------------------
(* Custody: who can have a hand on a task.                                 *)

LEMMA InitCustody == Init => \A t \in Tasks : Custody(t) /\ Held(t)
<1> SUFFICES ASSUME Init, NEW t \in Tasks PROVE Custody(t) /\ Held(t)
  OBVIOUS
<1>1. \A p \in Places : descr[t][p] = NoDescr /\ files[t][p] = {}
  BY DEF Init
<1>2. /\ Hand(t) = "none" /\ exec[t] = "none" /\ runs[t] = 0 /\ t \notin listed
      /\ canceller[t] = NoFolder /\ purger[t] = NoFolder /\ t \notin early
  BY DEF Init, Hand, NoClaim
<1>3. Custody(t)
  BY <1>1, <1>2 DEF Custody, NothingOnDisk, Exists, Described, Places
<1>4. Held(t)
  BY <1>1, <1>2 DEF Held, Described, IsSettled, InFlight, Settled, Places, NoDescr, Nameless
<1> QED
  BY <1>3, <1>4

LEMMA ServerStepCustody ==
  ASSUME TypeOK, OneClaim, ServerStep, NEW t \in Tasks, Custody(t)
  PROVE  Custody(t)'
<1> USE DEF Custody, Described, Exists, NothingOnDisk, Hand,
            TypeOK, OneClaim, tree, userVars, loopVars, execVars, procVars
<1>1. CASE ListPending
  BY <1>1 DEF ListPending, Places
<1>2. CASE DrainEnds \/ DrainFails
  BY <1>2 DEF DrainEnds, DrainFails
<1>3. CASE Stop
  BY <1>3 DEF Stop, NoClaim
<1>4. CASE Die
  BY <1>4 DEF Die, NoClaim, InFlight
<1>5. CASE Start
  BY <1>5 DEF Start
<1>6. CASE UNCHANGED vars
  BY <1>6 DEF vars
<1> QED
  BY <1>1, <1>2, <1>3, <1>4, <1>5, <1>6 DEF ServerStep

\* A task that somebody has a hand on was sent.
LEMMA SentWhenExists ==
  ASSUME NEW t \in Tasks, Custody(t), NEW p \in Places, Exists(t, p)
  PROVE  sender[t] # "idle"
BY DEF Custody, NothingOnDisk

LEMMA TaskStepCustody ==
  ASSUME TypeOK, OneClaim, NEW t \in Tasks, TaskStep(t), Custody(t)
  PROVE  Custody(t)'
<1> USE DEF tree, userVars, loopVars, execVars, procVars
<1>a. "pending" \in Places /\ "active" \in Places /\ Settled \subseteq Places
  BY DEF Places
<1>1. CASE AskClaim(t)
  BY <1>1, <1>a DEF AskClaim, OneClaim, Custody, Hand, NothingOnDisk, Exists, Described, TypeOK
<1>2. CASE ClaimReads(t)
  <2>1. Hand(t) = "asked" /\ Hand(t)' \in {"read", "blank"}
    BY <1>2 DEF ClaimReads, Hand, TypeOK
  <2> QED
    BY <1>2, <2>1 DEF ClaimReads, Custody, NothingOnDisk, Exists, Described
<1>3. CASE ClaimStamps(t)
  <2>1. Hand(t) \in {"read", "blank"} /\ Hand(t)' = "stamped"
    BY <1>3 DEF ClaimStamps, Hand, TypeOK
  <2>2. sender[t] # "idle" /\ exec[t] = "none" /\ t \notin listed
    BY <2>1 DEF Custody
  <2> QED
    BY <1>3, <2>1, <2>2 DEF ClaimStamps, Custody
<1>4. CASE ClaimMoves(t)
  <2>1. Hand(t) = "stamped" /\ Hand(t)' = "moved"
    BY <1>4 DEF ClaimMoves, Hand, TypeOK
  <2>2. sender[t] # "idle" /\ exec[t] = "none" /\ t \notin listed
    BY <2>1 DEF Custody
  <2>3. ~Described(t, "pending")'
    BY <1>4, <1>a, MoveFolderEffect DEF ClaimMoves, Described
  <2> QED
    BY <1>4, <2>1, <2>2, <2>3 DEF ClaimMoves, Custody
<1>5. CASE ClaimRefused(t)
  BY <1>5 DEF ClaimRefused, Hand, NoClaim, Custody, NothingOnDisk, Exists, Described
<1>6. CASE Launch(t)
  <2>1. Hand(t) = "moved" /\ Hand(t)' = "none"
    BY <1>6 DEF Launch, Hand, NoClaim
  <2>2. /\ sender[t] # "idle" /\ exec[t] = "none" /\ t \notin listed
        /\ ~Described(t, "pending") /\ runs[t] = 0
    BY <2>1 DEF Custody
  <2>3. exec'[t] = "launched"
    BY <1>6 DEF Launch, TypeOK
  <2> QED
    BY <1>6, <2>1, <2>2, <2>3 DEF Launch, Custody, Described
<1>7. CASE UserStep(t)
  <2>1. CASE SenderDescribes(t)
    <3>1. /\ exec[t] = "none" /\ t \notin listed /\ Hand(t) = "none"
          /\ sender'[t] = "described"
      BY <2>1 DEF SenderDescribes, Custody, TypeOK
    <3> QED
      BY <2>1, <3>1 DEF SenderDescribes, Custody, Hand
  <2>2. CASE SenderWritesParams(t)
    BY <2>2 DEF SenderWritesParams, Custody, Described, Hand, TypeOK
  <2>3. CASE CancelFinds(t) \/ PurgeFinds(t)
    <3>1. sender[t] # "idle"
      BY <2>3 DEF CancelFinds, PurgeFinds, FindFolder, Custody, NothingOnDisk, Places, Settled
    <3> QED
      BY <2>3, <3>1 DEF CancelFinds, PurgeFinds, Custody, Described, Hand
  <2>4. CASE CancelMarks(t)
    <3>1. sender[t] # "idle"
      BY <2>4 DEF CancelMarks, Custody
    <3> QED
      BY <2>4, <3>1 DEF CancelMarks, Custody, Described, Hand
  <2>5. CASE PurgeRemoves(t)
    <3>1. sender[t] # "idle"
      BY <2>5 DEF PurgeRemoves, Custody
    <3>2. Described(t, "pending")' => Described(t, "pending")
      BY <2>5, <1>a, PurgerPlace, DeleteFolderEffect DEF Described
    <3> QED
      BY <2>5, <3>1, <3>2 DEF PurgeRemoves, Custody, Hand
  <2> QED
    BY <1>7, <2>1, <2>2, <2>3, <2>4, <2>5 DEF UserStep
<1>8. CASE ExecStep(t)
  <2>a. exec[t] # "none" /\ sender[t] # "idle" /\ t \notin listed /\ Hand(t) = "none"
        /\ ~Described(t, "pending")
    BY <1>8 DEF ExecStep, ReadDescriptor, ReadParams, HandlerReturns, HandlerFails,
                WriteResult, SettleReads, SettleStamps, SettleMoves, SettleRefused, Step,
                Custody
  <2> USE DEF Step, InFlight
  <2>1. CASE ReadDescriptor(t) \/ ReadParams(t)
    BY <2>1, <2>a DEF ReadDescriptor, ReadParams, Custody, Described, Hand, TypeOK
  <2>2. CASE HandlerReturns(t) \/ HandlerFails(t) \/ SettleReads(t) \/ SettleRefused(t)
    BY <2>2, <2>a DEF HandlerReturns, HandlerFails, SettleReads, SettleRefused,
                      Custody, Described, Hand, TypeOK
  <2>3. CASE WriteResult(t)
    BY <2>3, <2>a DEF WriteResult, Custody, Described, Hand, TypeOK
  <2>4. CASE SettleStamps(t)
    <3>1. ~Described(t, "pending")'
      BY <2>4, <2>a, <1>a, StampEffect DEF SettleStamps, Described
    <3> QED
      BY <2>4, <2>a, <3>1 DEF SettleStamps, Custody, Hand, TypeOK
  <2>5. CASE SettleMoves(t)
    <3>1. TargetStatus(t) \in Places /\ TargetStatus(t) \notin {"pending", "active"}
      BY DEF TargetStatus, Places, Settled
    <3>2. ~Described(t, "pending")'
      BY <2>5, <2>a, <3>1, <1>a, MoveFolderEffect DEF SettleMoves, Described
    <3> QED
      BY <2>5, <2>a, <3>2 DEF SettleMoves, Custody, Hand, TypeOK
  <2> QED
    BY <1>8, <2>1, <2>2, <2>3, <2>4, <2>5 DEF ExecStep
<1>9. CASE PublishProgress(t)
  <2>1. sender[t] # "idle"
    BY <1>9 DEF PublishProgress, Custody
  <2> QED
    BY <1>9, <2>1 DEF PublishProgress, Custody, Described, Hand
<1> QED
  BY <1>1, <1>2, <1>3, <1>4, <1>5, <1>6, <1>7, <1>8, <1>9 DEF TaskStep

LEMMA CustodyInductive ==
  ASSUME TypeOK, OneClaim, [Next]_vars, \A t \in Tasks : Custody(t)
  PROVE  \A t \in Tasks : Custody(t)'
<1>1. CASE ServerStep
  BY <1>1, ServerStepCustody
<1>2. ASSUME NEW t \in Tasks, TaskStep(t), NEW u \in Tasks
      PROVE  Custody(u)'
  <2>1. CASE u = t
    BY <1>2, <2>1, TaskStepCustody
  <2>2. CASE u # t
    <3>1. Untouched(u)
      BY <1>2, <2>2, OthersUntouched
    <3> QED
      BY <3>1, Frame
  <2> QED
    BY <2>1, <2>2
<1> QED
  BY <1>1, <1>2, StepSplit

-----------------------------------------------------------------------------
(* Held: where the descriptor is, of a batch that is not purged early.      *)

LEMMA ServerStepHeld ==
  ASSUME TypeOK, OneClaim, ServerStep, NEW t \in Tasks, Custody(t), Held(t)
  PROVE  Held(t)'
<1> USE DEF Held, Described, Hand, IsSettled,
            TypeOK, OneClaim, tree, userVars, loopVars, execVars, procVars
<1>1. CASE ListPending
  BY <1>1 DEF ListPending, InFlight
<1>2. CASE DrainEnds \/ DrainFails
  BY <1>2 DEF DrainEnds, DrainFails
<1>3. CASE Stop
  BY <1>3 DEF Stop, NoClaim
<1>4. CASE Die
  BY <1>4 DEF Die, NoClaim, InFlight
<1>5. CASE Start
  BY <1>5 DEF Start
<1>6. CASE UNCHANGED vars
  BY <1>6 DEF vars
<1> QED
  BY <1>1, <1>2, <1>3, <1>4, <1>5, <1>6 DEF ServerStep

\* A rename of the folder that holds the descriptor: it is in the new place
\* and in no other.
LEMMA MovesDescriptor ==
  ASSUME NEW t \in Tasks, NEW from \in Places, NEW to \in Places, from # to,
         TypeOK, MoveFolder(t, from, to), Described(t, from), Held(t)
  PROVE  /\ \A p \in Places : Described(t, p)' <=> p = to
         /\ \A p \in Places : descr'[t][p] # Nameless
<1>1. \A p \in Places : Described(t, p) => p = from
  BY DEF Held
<1>2. /\ \A p \in Places : p \notin {from, to} => descr'[t][p] = descr[t][p]
      /\ descr'[t][from] = NoDescr
      /\ descr'[t][to] = descr[t][from]
  BY MoveFolderEffect
<1>3. NoDescr # Nameless /\ \A p \in Places : descr[t][p] # Nameless
  BY DEF Held, NoDescr, Nameless
<1> QED
  BY <1>1, <1>2, <1>3 DEF Described

\* A stamp on the descriptor that is there neither makes nor moves one.
LEMMA StampKeepsDescribed ==
  ASSUME NEW t \in Tasks, NEW p \in Places, NEW label \in Places,
         TypeOK, Described(t, p), Stamp(t, p, label)
  PROVE  /\ \A q \in Places : Described(t, q)' <=> Described(t, q)
         /\ (\A q \in Places : descr[t][q] # Nameless) =>
              \A q \in Places : descr'[t][q] # Nameless
BY StampEffect DEF Described, Places, Settled, NoDescr, Nameless

\* A purge that is not early leaves the descriptor where it is, unless it is
\* that of a settled batch.
LEMMA PurgeOfSettled ==
  ASSUME NEW t \in Tasks, TypeOK, PurgeRemoves(t), t \notin early'
  PROVE  /\ \A p \in Places \ Settled : Described(t, p)' <=> Described(t, p)
         /\ \A p \in Places : Described(t, p)' => Described(t, p) /\ descr'[t][p] = descr[t][p]
         /\ \A p \in Places : "result" \in files'[t][p] => "result" \in files[t][p]
         /\ \A p \in Places : Described(t, p)' => files'[t][p] = files[t][p]
<1>1. purger[t] \in Places /\ DeleteFolder(t, purger[t])
  BY PurgerPlace
<1>2. purger[t] \in Settled \/ ~Described(t, purger[t])
  BY DEF PurgeRemoves, Described
<1>3. /\ \A q \in Places : q # purger[t] =>
           descr'[t][q] = descr[t][q] /\ files'[t][q] = files[t][q]
      /\ descr'[t][purger[t]] = NoDescr /\ files'[t][purger[t]] = {}
  BY <1>1, DeleteFolderEffect
<1> QED
  BY <1>1, <1>2, <1>3 DEF Described

LEMMA TaskStepHeld ==
  ASSUME TypeOK, OneClaim, NEW t \in Tasks, TaskStep(t), Custody(t), Held(t), t \notin early'
  PROVE  Held(t)'
<1> USE DEF tree, userVars, loopVars, execVars, procVars
<1>a. "pending" \in Places /\ "active" \in Places /\ Settled \subseteq Places
  BY DEF Places
<1>1. CASE AskClaim(t)
  <2>1. t \in listed /\ Hand(t) = "none" /\ Hand(t)' = "asked" /\ t \notin listed'
    BY <1>1 DEF AskClaim, Custody, Hand, TypeOK
  <2> QED
    BY <1>1, <2>1 DEF AskClaim, Held, Described, IsSettled
<1>2. CASE ClaimReads(t)
  <2>1. Hand(t) = "asked" /\ Described(t, "pending")
    BY <1>2 DEF ClaimReads, Hand, Held
  <2>2. Named(t, "pending")
    BY <2>1, <1>a DEF Held, Described, Named, TypeOK
  <2>3. Hand(t)' = "read"
    BY <1>2, <2>2 DEF ClaimReads, Hand, TypeOK
  <2> QED
    BY <1>2, <2>1, <2>3 DEF ClaimReads, Held, Described, IsSettled
<1>3. CASE ClaimStamps(t)
  <2>1. Hand(t) = "read" /\ Described(t, "pending")
    BY <1>3 DEF ClaimStamps, Hand, Held
  <2>2. Hand(t)' = "stamped" /\ Stamp(t, "pending", "active")
    BY <1>3, <2>1 DEF ClaimStamps, Hand, TypeOK
  <2>3. /\ \A q \in Places : Described(t, q)' <=> Described(t, q)
        /\ \A q \in Places : descr'[t][q] # Nameless
    BY <2>1, <2>2, <1>a, StampKeepsDescribed DEF Held
  <2> QED
    BY <1>3, <1>a, <2>1, <2>2, <2>3 DEF ClaimStamps, Held, IsSettled
<1>4. CASE ClaimMoves(t)
  <2>1. Hand(t) = "stamped" /\ Described(t, "pending") /\ Hand(t)' = "moved"
    BY <1>4 DEF ClaimMoves, Hand, Held, TypeOK
  <2>2. /\ \A p \in Places : Described(t, p)' <=> p = "active"
        /\ \A p \in Places : descr'[t][p] # Nameless
    BY <1>4, <2>1, <1>a, MovesDescriptor DEF ClaimMoves
  <2>3. exec[t] = "none" /\ t \notin listed
    BY <2>1 DEF Custody
  <2> QED
    BY <1>4, <1>a, <2>1, <2>2, <2>3
       DEF ClaimMoves, Held, IsSettled, Settled, InFlight
<1>5. CASE ClaimRefused(t)
  <2>1. Hand(t) \in {"asked", "stamped"} /\ ~Described(t, "pending")
    BY <1>5 DEF ClaimRefused, Hand, Exists, Described
  <2> QED
    BY <2>1 DEF Held
<1>6. CASE Launch(t)
  <2>1. Hand(t) = "moved" /\ Hand(t)' = "none"
    BY <1>6 DEF Launch, Hand, NoClaim
  <2>2. Described(t, "active") /\ exec[t] = "none" /\ t \notin listed
    BY <2>1 DEF Held, Custody
  <2>3. exec'[t] = "launched"
    BY <1>6 DEF Launch, TypeOK
  <2>4. \A p \in Places : Described(t, p)' <=> Described(t, p)
    BY <1>6 DEF Launch, Described
  <2> QED
    BY <1>6, <1>a, <2>1, <2>2, <2>3, <2>4
       DEF Launch, Held, IsSettled, Settled, InFlight
<1>7. CASE UserStep(t)
  <2>1. CASE SenderDescribes(t)
    <3>1. /\ exec[t] = "none" /\ t \notin listed /\ Hand(t) = "none"
          /\ \A p \in Places : ~Described(t, p)
      BY <2>1 DEF SenderDescribes, Custody, NothingOnDisk, Exists, Described
    <3>2. /\ \A p \in Places : Described(t, p)' <=> p = "pending"
          /\ \A p \in Places : descr'[t][p] # Nameless
      <4>1. /\ \A q \in Places : q # "pending" => descr'[t][q] = descr[t][q]
            /\ descr'[t]["pending"] = "pending"
        BY <2>1, <1>a, StampEffect DEF SenderDescribes
      <4> QED
        BY <3>1, <4>1 DEF Described, NoDescr, Nameless
    <3> QED
      BY <2>1, <1>a, <3>1, <3>2
         DEF SenderDescribes, Held, IsSettled, Settled, Hand, InFlight
  <2>2. CASE SenderWritesParams(t) \/ CancelFinds(t) \/ CancelMarks(t) \/ PurgeFinds(t)
    BY <2>2 DEF SenderWritesParams, CancelFinds, CancelMarks, PurgeFinds, Held, Described,
                IsSettled, Hand
  <2>3. CASE PurgeRemoves(t)
    <3>1. /\ \A p \in Places \ Settled : Described(t, p)' <=> Described(t, p)
          /\ \A p \in Places : Described(t, p)' => Described(t, p) /\ descr'[t][p] = descr[t][p]
      BY <2>3, PurgeOfSettled
    <3>2. "pending" \notin Settled /\ "active" \notin Settled /\ NoDescr # Nameless
      BY DEF Settled, NoDescr, Nameless
    <3>3. \A p \in Places : descr'[t][p] # Nameless
      BY <3>1, <3>2 DEF Held, Described
    <3>4. Hand(t)' = Hand(t) /\ UNCHANGED <<exec, listed>>
      BY <2>3 DEF PurgeRemoves, Hand
    <3> QED
      BY <1>a, <3>1, <3>2, <3>3, <3>4 DEF Held, IsSettled
  <2> QED
    BY <1>7, <2>1, <2>2, <2>3 DEF UserStep
<1>8. CASE ExecStep(t)
  <2>a. Hand(t) = "none" /\ t \notin listed
    BY <1>8 DEF ExecStep, ReadDescriptor, ReadParams, HandlerReturns, HandlerFails,
                WriteResult, SettleReads, SettleStamps, SettleMoves, SettleRefused, Step,
                Custody
  <2>b. Hand(t)' = "none" /\ t \notin listed'
    BY <1>8, <2>a DEF ExecStep, ReadDescriptor, ReadParams, HandlerReturns, HandlerFails,
                WriteResult, SettleReads, SettleStamps, SettleMoves, SettleRefused, Hand
  <2>c. exec[t] \in InFlight /\ Described(t, "active") /\ ~IsSettled(t)
    BY <1>8 DEF ExecStep, ReadDescriptor, ReadParams, HandlerReturns, HandlerFails,
                WriteResult, SettleReads, SettleStamps, SettleMoves, SettleRefused, Step,
                Held, InFlight
  <2> USE DEF Step
  <2>1. CASE ReadDescriptor(t) \/ ReadParams(t) \/ HandlerReturns(t) \/ HandlerFails(t)
             \/ WriteResult(t) \/ SettleRefused(t)
    <3>1. exec'[t] # "blank"
      BY <2>1 DEF ReadDescriptor, ReadParams, HandlerReturns, HandlerFails, WriteResult,
                  SettleRefused, TypeOK
    <3>2. UNCHANGED descr
      BY <2>1 DEF ReadDescriptor, ReadParams, HandlerReturns, HandlerFails, WriteResult,
                  SettleRefused
    <3> QED
      BY <2>a, <2>b, <2>c, <3>1, <3>2 DEF Held, Described, IsSettled
  <2>2. CASE SettleReads(t)
    <3>1. Named(t, "active")
      BY <2>c, <1>a DEF Held, Described, Named, TypeOK
    <3>2. exec'[t] = "settling" /\ UNCHANGED descr
      BY <2>2, <3>1 DEF SettleReads, TypeOK
    <3> QED
      BY <2>a, <2>b, <2>c, <3>2 DEF Held, Described, IsSettled
  <2>3. CASE SettleStamps(t)
    <3>1. exec[t] = "settling" /\ exec'[t] = "stamped"
      BY <2>3 DEF SettleStamps, Held, TypeOK
    <3>2. TargetStatus(t) \in Places /\ Stamp(t, "active", TargetStatus(t))
      BY <2>3, <3>1 DEF SettleStamps, TargetStatus, Places, Settled
    <3>3. /\ \A p \in Places : Described(t, p)' <=> Described(t, p)
          /\ \A p \in Places : descr'[t][p] # Nameless
      BY <2>c, <3>2, <1>a, StampKeepsDescribed DEF Held
    <3> QED
      BY <1>a, <2>a, <2>b, <2>c, <3>1, <3>3 DEF Held, IsSettled
  <2>4. CASE SettleMoves(t)
    <3>1. exec'[t] = "done"
      BY <2>4 DEF SettleMoves, TypeOK
    <3>2. TargetStatus(t) \in Places /\ TargetStatus(t) \notin {"pending", "active"}
      BY DEF TargetStatus, Places, Settled
    <3>3. /\ \A p \in Places : Described(t, p)' <=> p = TargetStatus(t)
          /\ \A p \in Places : descr'[t][p] # Nameless
      BY <2>4, <2>c, <3>2, <1>a, MovesDescriptor DEF SettleMoves
    <3> QED
      BY <1>a, <2>b, <3>1, <3>2, <3>3 DEF Held, InFlight
  <2> QED
    BY <1>8, <2>1, <2>2, <2>3, <2>4 DEF ExecStep
<1>9. CASE PublishProgress(t)
  BY <1>9 DEF PublishProgress, Held, Described, IsSettled, Hand
<1> QED
  BY <1>1, <1>2, <1>3, <1>4, <1>5, <1>6, <1>7, <1>8, <1>9 DEF TaskStep

-----------------------------------------------------------------------------
(* Label: the status a descriptor carries, read off where it is.           *)

LEMMA TaskStepLabel ==
  ASSUME TypeOK, OneClaim, NEW t \in Tasks, TaskStep(t), Custody(t), Held(t), Label(t),
         t \notin early'
  PROVE  Label(t)'
<1> USE DEF tree, userVars, loopVars, execVars, procVars
<1>a. "pending" \in Places /\ "active" \in Places /\ Settled \subseteq Places
  BY DEF Places
<1>1. CASE AskClaim(t)
  BY <1>1 DEF AskClaim, Label, Hand, Described, TargetStatus
<1>2. CASE ClaimReads(t) \/ ClaimRefused(t)
  BY <1>2 DEF ClaimReads, ClaimRefused, NoClaim, Label, Hand, Described, TargetStatus, TypeOK
<1>3. CASE ClaimStamps(t)
  <2>1. Hand(t) = "read" /\ Described(t, "pending")
    BY <1>3 DEF ClaimStamps, Hand, Held
  <2>2. exec[t] = "none" /\ \A p \in Places : Described(t, p) => p = "pending"
    BY <2>1, <1>a DEF Held, Custody
  <2>3. Stamp(t, "pending", "active")
    BY <1>3, <2>1 DEF ClaimStamps, Hand
  <2>4. /\ \A q \in Places : Described(t, q)' <=> Described(t, q)
        /\ descr'[t]["pending"] = "active"
    BY <2>1, <2>3, <1>a, StampKeepsDescribed, StampEffect
  <2> QED
    BY <1>3, <1>a, <2>2, <2>4 DEF ClaimStamps, Label, Settled
<1>4. CASE ClaimMoves(t)
  <2>1. Hand(t) = "stamped" /\ Described(t, "pending") /\ Hand(t)' = "moved"
    BY <1>4 DEF ClaimMoves, Hand, Held, TypeOK
  <2>2. \A p \in Places : Described(t, p)' <=> p = "active"
    BY <1>4, <2>1, <1>a, MovesDescriptor DEF ClaimMoves
  <2>3. descr'[t]["active"] = "active" /\ exec[t] = "none"
    BY <1>4, <2>1, <1>a, MoveFolderEffect DEF ClaimMoves, Label, Custody
  <2> QED
    BY <1>4, <1>a, <2>1, <2>2, <2>3 DEF ClaimMoves, Label, Settled
<1>5. CASE Launch(t)
  BY <1>5 DEF Launch, Label, Hand, NoClaim, Described, TargetStatus, TypeOK
<1>6. CASE UserStep(t)
  <2>1. CASE SenderDescribes(t)
    <3>1. exec[t] = "none" /\ Hand(t) = "none" /\ \A p \in Places : ~Described(t, p)
      BY <2>1 DEF SenderDescribes, Custody, NothingOnDisk, Exists, Described
    <3>2. /\ \A p \in Places : Described(t, p)' <=> p = "pending"
          /\ descr'[t]["pending"] = "pending"
      <4>1. /\ \A q \in Places : q # "pending" => descr'[t][q] = descr[t][q]
            /\ descr'[t]["pending"] = "pending"
        BY <2>1, <1>a, StampEffect DEF SenderDescribes
      <4> QED
        BY <3>1, <4>1 DEF Described, NoDescr
    <3> QED
      BY <2>1, <1>a, <3>1, <3>2 DEF SenderDescribes, Label, Settled, Hand
  <2>2. CASE SenderWritesParams(t) \/ CancelFinds(t) \/ CancelMarks(t) \/ PurgeFinds(t)
    BY <2>2 DEF SenderWritesParams, CancelFinds, CancelMarks, PurgeFinds, Label, Described,
                Hand, TargetStatus
  <2>3. CASE PurgeRemoves(t)
    <3>1. \A p \in Places : Described(t, p)' => Described(t, p) /\ descr'[t][p] = descr[t][p]
      BY <2>3, PurgeOfSettled
    <3>2. \A p \in Places \ Settled : Described(t, p) => Described(t, p)'
      BY <2>3, PurgeOfSettled
    <3>3. /\ Hand(t)' = Hand(t) /\ exec'[t] = exec[t]
          /\ TargetStatus(t)' = TargetStatus(t)
      BY <2>3 DEF PurgeRemoves, Hand, TargetStatus
    <3>4. /\ Hand(t) = "stamped" => Described(t, "pending")
          /\ exec[t] = "stamped" => Described(t, "active")
      BY DEF Held, InFlight
    <3>5. "pending" \notin Settled /\ "active" \notin Settled
      BY DEF Settled
    <3> QED
      BY <1>a, <3>1, <3>2, <3>3, <3>4, <3>5 DEF Label
  <2> QED
    BY <1>6, <2>1, <2>2, <2>3 DEF UserStep
<1>7. CASE ExecStep(t)
  <2> USE DEF Step
  <2>1. CASE ReadDescriptor(t) \/ ReadParams(t) \/ HandlerReturns(t)
             \/ SettleReads(t) \/ SettleRefused(t)
    BY <2>1 DEF ReadDescriptor, ReadParams, HandlerReturns, SettleReads, SettleRefused,
                Label, Described, Hand, TargetStatus, TypeOK
  <2>2. CASE HandlerFails(t) \/ WriteResult(t)
    BY <2>2 DEF HandlerFails, WriteResult, Label, Described, Hand, TypeOK
  <2>3. CASE SettleStamps(t)
    <3>1. Described(t, "active") /\ exec'[t] = "stamped" /\ exec[t] = "settling"
      BY <2>3 DEF SettleStamps, Held, InFlight, TypeOK
    <3>2. TargetStatus(t) \in Places /\ TargetStatus(t) # "pending"
      BY DEF TargetStatus, Places, Settled
    <3>3. /\ \A p \in Places : Described(t, p)' <=> Described(t, p)
          /\ descr'[t]["active"] = TargetStatus(t)
      BY <2>3, <3>1, <3>2, <1>a, StampKeepsDescribed, StampEffect DEF SettleStamps
    <3>4. \A p \in Places : Described(t, p) => p = "active"
      BY <3>1, <1>a DEF Held
    <3>5. Hand(t) = "none" /\ TargetStatus(t)' = TargetStatus(t)
      BY <2>3, <3>1 DEF SettleStamps, Custody, TargetStatus
    <3> QED
      BY <2>3, <1>a, <3>1, <3>2, <3>3, <3>4, <3>5 DEF SettleStamps, Label, Settled, Hand
  <2>4. CASE SettleMoves(t)
    <3>1. Described(t, "active") /\ exec'[t] = "done" /\ exec[t] = "stamped"
      BY <2>4 DEF SettleMoves, Held, InFlight, TypeOK
    <3>2. TargetStatus(t) \in Places /\ TargetStatus(t) \notin {"pending", "active"}
      BY DEF TargetStatus, Places, Settled
    <3>3. \A p \in Places : Described(t, p)' <=> p = TargetStatus(t)
      BY <2>4, <3>1, <3>2, <1>a, MovesDescriptor DEF SettleMoves
    <3>4. descr'[t][TargetStatus(t)] = TargetStatus(t)
      BY <2>4, <3>1, <3>2, <1>a, MoveFolderEffect DEF SettleMoves, Label
    <3>5. Hand(t) = "none" /\ Hand(t)' = Hand(t)
      BY <2>4, <3>1 DEF SettleMoves, Custody, Hand
    <3> QED
      BY <1>a, <3>1, <3>2, <3>3, <3>4, <3>5 DEF Label
  <2> QED
    BY <1>7, <2>1, <2>2, <2>3, <2>4 DEF ExecStep
<1>8. CASE PublishProgress(t)
  BY <1>8 DEF PublishProgress, Label, Described, Hand, TargetStatus
<1> QED
  BY <1>1, <1>2, <1>3, <1>4, <1>5, <1>6, <1>7, <1>8 DEF TaskStep

LEMMA ServerStepLabel ==
  ASSUME TypeOK, ServerStep, NEW t \in Tasks, Label(t)
  PROVE  Label(t)'
BY DEF ServerStep, ListPending, DrainEnds, DrainFails, Stop, Die, Start, vars, Label,
       Described, Hand, TargetStatus, NoClaim, InFlight, TypeOK, tree, userVars, loopVars,
       execVars, procVars

-----------------------------------------------------------------------------
(* Verdict: the result, the outcome and the place it ends in agree.         *)

LEMMA ServerStepVerdict ==
  ASSUME TypeOK, ServerStep, NEW t \in Tasks, Verdict(t)
  PROVE  Verdict(t)'
BY DEF ServerStep, ListPending, DrainEnds, DrainFails, Stop, Die, Start, vars, Verdict,
       Described, NoResult, InFlight, TypeOK, tree, userVars, loopVars, execVars, procVars

\* A file that is not the result changes no verdict.
LEMMA OtherFileKeepsVerdict ==
  ASSUME TypeOK, NEW t \in Tasks, NEW p \in Places, NEW f \in Files \ {"result"},
         WriteFile(t, p, f), Verdict(t),
         UNCHANGED <<descr, exec, outcome>>
  PROVE  Verdict(t)'
<1>1. \A q \in Places : "result" \in files'[t][q] <=> "result" \in files[t][q]
  BY WriteFileEffect
<1>2. "active" \in Places /\ "terminated" \in Places /\ "aborted" \in Places
  BY DEF Places, Settled
<1> QED
  BY <1>1, <1>2 DEF Verdict, NoResult, Described

LEMMA TaskStepVerdict ==
  ASSUME TypeOK, OneClaim, NEW t \in Tasks, TaskStep(t), Custody(t), Held(t), Label(t),
         Verdict(t), t \notin early'
  PROVE  Verdict(t)'
<1> USE DEF tree, userVars, loopVars, execVars, procVars
<1>a. /\ "pending" \in Places /\ "active" \in Places
      /\ "terminated" \in Places /\ "aborted" \in Places
      /\ Settled \subseteq Places
  BY DEF Places, Settled
<1>b. ASSUME NEW from \in Places, NEW to \in Places, from # to, MoveFolder(t, from, to),
             NoResult(t)
      PROVE  NoResult(t)'
  BY <1>b, MoveFolderEffect DEF NoResult
<1>1. CASE AskClaim(t) \/ ClaimReads(t) \/ ClaimRefused(t)
  BY <1>1 DEF AskClaim, ClaimReads, ClaimRefused, Verdict, NoResult, Described
<1>2. CASE ClaimStamps(t)
  <2>1. Hand(t) = "read" /\ Described(t, "pending")
    BY <1>2 DEF ClaimStamps, Hand, Held
  <2>2. exec[t] = "none" /\ NoResult(t) /\ outcome[t] = "ok"
    BY <2>1 DEF Custody, Verdict
  <2>3. Stamp(t, "pending", "active")
    BY <1>2, <2>1 DEF ClaimStamps, Hand
  <2>4. \A q \in Places : Described(t, q)' <=> Described(t, q)
    BY <2>1, <2>3, <1>a, StampKeepsDescribed
  <2> QED
    BY <1>2, <1>a, <2>2, <2>4 DEF ClaimStamps, Verdict, NoResult
<1>3. CASE ClaimMoves(t)
  <2>1. exec[t] = "none" /\ NoResult(t) /\ outcome[t] = "ok" /\ Described(t, "pending")
    BY <1>3 DEF ClaimMoves, Hand, Held, Custody, Verdict
  <2>2. \A p \in Places : Described(t, p)' <=> p = "active"
    BY <1>3, <2>1, <1>a, MovesDescriptor DEF ClaimMoves
  <2>3. NoResult(t)'
    BY <1>3, <1>a, <1>b, <2>1 DEF ClaimMoves
  <2> QED
    BY <1>3, <1>a, <2>1, <2>2, <2>3 DEF ClaimMoves, Verdict
<1>4. CASE Launch(t)
  <2>1. exec[t] = "none"
    BY <1>4 DEF Launch, Hand, Custody
  <2> QED
    BY <1>4, <2>1 DEF Launch, Verdict, NoResult, Described, TypeOK
<1>5. CASE UserStep(t)
  <2>1. CASE SenderDescribes(t)
    <3>1. exec[t] = "none" /\ NoResult(t) /\ outcome[t] = "ok"
      BY <2>1 DEF SenderDescribes, Custody, Verdict
    <3>2. ~Described(t, "terminated")' /\ ~Described(t, "aborted")'
      BY <2>1, <1>a, StampEffect
         DEF SenderDescribes, Custody, NothingOnDisk, Exists, Described
    <3> QED
      BY <2>1, <3>1, <3>2 DEF SenderDescribes, Verdict, NoResult
  <2>2. CASE SenderWritesParams(t)
    BY <2>2, <1>a, OtherFileKeepsVerdict DEF SenderWritesParams, Files
  <2>3. CASE CancelFinds(t) \/ PurgeFinds(t)
    BY <2>3 DEF CancelFinds, PurgeFinds, Verdict, NoResult, Described
  <2>4. CASE CancelMarks(t)
    BY <2>4, OtherFileKeepsVerdict DEF CancelMarks, Files, TypeOK
  <2>5. CASE PurgeRemoves(t)
    <3>1. /\ \A p \in Places \ Settled : Described(t, p)' <=> Described(t, p)
          /\ \A p \in Places : Described(t, p)' => Described(t, p) /\ files'[t][p] = files[t][p]
          /\ \A p \in Places : "result" \in files'[t][p] => "result" \in files[t][p]
      BY <2>5, PurgeOfSettled
    <3>2. UNCHANGED <<exec, outcome>>
      BY <2>5 DEF PurgeRemoves
    <3>3. exec[t] \in {"ending", "settling", "blank", "stamped"} =>
            Described(t, "active") /\ "active" \notin Settled
      BY DEF Held, InFlight, Settled
    <3>4. NoResult(t) => NoResult(t)'
      BY <3>1 DEF NoResult
    <3> QED
      BY <1>a, <3>1, <3>2, <3>3, <3>4 DEF Verdict
  <2> QED
    BY <1>5, <2>1, <2>2, <2>3, <2>4, <2>5 DEF UserStep
<1>6. CASE ExecStep(t)
  <2> USE DEF Step
  <2>1. CASE ReadDescriptor(t) \/ ReadParams(t) \/ HandlerReturns(t)
    BY <2>1 DEF ReadDescriptor, ReadParams, HandlerReturns, Verdict, NoResult, Described,
                TypeOK
  <2>2. CASE HandlerFails(t)
    BY <2>2 DEF HandlerFails, Verdict, NoResult, Described, TypeOK
  <2>3. CASE WriteResult(t)
    <3>1. exec[t] = "returned" /\ exec'[t] = "ending" /\ outcome[t] = "ok"
      BY <2>3 DEF WriteResult, Verdict, TypeOK
    <3>2. "result" \in files'[t]["active"]
      BY <2>3, <1>a, WriteFileEffect DEF WriteResult, Files
    <3>3. ~Described(t, "terminated") /\ ~Described(t, "aborted")
      BY <3>1, <1>a DEF Held, InFlight
    <3> QED
      BY <2>3, <3>1, <3>2, <3>3 DEF WriteResult, Verdict, Described
  <2>4. CASE SettleReads(t) \/ SettleRefused(t)
    BY <2>4 DEF SettleReads, SettleRefused, Verdict, NoResult, Described, TypeOK
  <2>5. CASE SettleStamps(t)
    <3>1. Described(t, "active") /\ exec'[t] = "stamped" /\ exec[t] = "settling"
      BY <2>5 DEF SettleStamps, Held, InFlight, TypeOK
    <3>2. TargetStatus(t) \in Places /\ Stamp(t, "active", TargetStatus(t))
      BY <2>5, <3>1 DEF SettleStamps, TargetStatus, Places, Settled
    <3>3. \A p \in Places : Described(t, p)' <=> Described(t, p)
      BY <3>1, <3>2, <1>a, StampKeepsDescribed
    <3> QED
      BY <2>5, <1>a, <3>1, <3>3 DEF SettleStamps, Verdict, NoResult
  <2>6. CASE SettleMoves(t)
    <3>1. Described(t, "active") /\ exec'[t] = "done" /\ exec[t] = "stamped"
      BY <2>6 DEF SettleMoves, Held, InFlight, TypeOK
    <3>2. TargetStatus(t) \in Places /\ TargetStatus(t) # "active"
      BY DEF TargetStatus, Places, Settled
    <3>3. \A p \in Places : Described(t, p)' <=> p = TargetStatus(t)
      BY <2>6, <3>1, <3>2, <1>a, MovesDescriptor DEF SettleMoves
    <3>4. CASE outcome[t] = "ok"
      <4>1. "result" \in files'[t]["terminated"] /\ TargetStatus(t) = "terminated"
        BY <2>6, <3>1, <3>2, <3>4, <1>a, MoveFolderEffect
           DEF SettleMoves, Verdict, TargetStatus
      <4> QED
        BY <1>a, <3>1, <3>3, <4>1 DEF Verdict
    <3>5. CASE outcome[t] # "ok"
      <4>1. NoResult(t) /\ TargetStatus(t) = "aborted"
        BY <3>1, <3>5 DEF Verdict, TargetStatus
      <4>2. NoResult(t)'
        BY <2>6, <4>1, <3>2, <1>a, <1>b DEF SettleMoves
      <4> QED
        BY <1>a, <3>1, <3>3, <4>1, <4>2 DEF Verdict, NoResult
    <3> QED
      BY <3>4, <3>5
  <2> QED
    BY <1>6, <2>1, <2>2, <2>3, <2>4, <2>5, <2>6 DEF ExecStep
<1>7. CASE PublishProgress(t)
  BY <1>7, <1>a, OtherFileKeepsVerdict DEF PublishProgress, Files
<1> QED
  BY <1>1, <1>2, <1>3, <1>4, <1>5, <1>6, <1>7 DEF TaskStep

-----------------------------------------------------------------------------
(* Lost executions: only over a folder another writer has torn.             *)

\* FindFolder comes to a folder that is there, if there is one.
LEMMA FindFolderFinds ==
  ASSUME NEW t \in Tasks, Exists(t, "active")
  PROVE  FindFolder(t) \in Places /\ Exists(t, FindFolder(t))
BY DEF FindFolder, Places, Settled

LEMMA TaskStepLost ==
  ASSUME TypeOK, OneClaim, NEW t \in Tasks, TaskStep(t), Custody(t), Held(t),
         exec[t] # "lost", exec'[t] = "lost"
  PROVE  Torn(t)
<1> USE DEF tree, userVars, loopVars, execVars, procVars
<1> DEFINE p == FindFolder(t)
<1>a. "pending" \in Places /\ "active" \in Places
  BY DEF Places
<1>b. ASSUME exec[t] \in {"launched", "described"}
      PROVE  /\ Described(t, "active") /\ p \in Places /\ Exists(t, p)
             /\ Exists(t, "active") /\ p # NoFolder
  <2>1. Described(t, "active") /\ Exists(t, "active")
    BY <1>b DEF Held, InFlight, Described, Exists
  <2> QED
    BY <2>1, FindFolderFinds DEF Places, Settled, NoFolder
<1>1. CASE ReadDescriptor(t)
  <2>1. exec[t] = "launched" /\ ~Named(t, p)
    BY <1>1, <1>b DEF ReadDescriptor, Step, TypeOK
  <2>2. p # "active"
    BY <1>a, <1>b, <2>1 DEF Held, Described, Named, TypeOK
  <2> QED
    BY <1>a, <1>b, <2>1, <2>2 DEF Torn
<1>2. CASE ReadParams(t)
  <2>1. exec[t] = "described" /\ "params" \notin files[t][p]
    BY <1>2, <1>b DEF ReadParams, Step, TypeOK
  <2>2. CASE p = "active"
    BY <1>a, <1>b, <2>1, <2>2 DEF Torn
  <2>3. CASE p # "active"
    BY <1>a, <1>b, <2>1, <2>3 DEF Torn
  <2> QED
    BY <2>2, <2>3
<1>3. CASE SettleRefused(t)
  <2>1. exec[t] \in InFlight /\ ~Described(t, "active")
    BY <1>3 DEF SettleRefused, Step, InFlight, Exists, Described
  <2> QED
    BY <2>1 DEF Held
<1>4. CASE Launch(t)
  BY <1>4 DEF Launch, TypeOK
<1>5. CASE HandlerReturns(t) \/ HandlerFails(t) \/ WriteResult(t) \/ SettleReads(t)
           \/ SettleStamps(t) \/ SettleMoves(t)
  BY <1>5 DEF HandlerReturns, HandlerFails, WriteResult, SettleReads, SettleStamps,
              SettleMoves, Step, TypeOK
<1>6. CASE UserStep(t) \/ PublishProgress(t)
  BY <1>6 DEF UserStep, SenderDescribes, SenderWritesParams, CancelFinds, CancelMarks,
              PurgeFinds, PurgeRemoves, PublishProgress
<1>7. CASE AskClaim(t) \/ ClaimReads(t) \/ ClaimStamps(t) \/ ClaimMoves(t) \/ ClaimRefused(t)
  BY <1>7 DEF AskClaim, ClaimReads, ClaimStamps, ClaimMoves, ClaimRefused
<1> QED
  BY <1>1, <1>2, <1>3, <1>4, <1>5, <1>6, <1>7 DEF TaskStep, ExecStep

-----------------------------------------------------------------------------
(* The inductive invariant, and the invariants that follow from it.         *)

LEMMA InitIInv == Init => IInv
<1> SUFFICES ASSUME Init PROVE IInv
  OBVIOUS
<1>1. TypeOK /\ OneClaim /\ \A t \in Tasks : Custody(t) /\ Held(t)
  BY InitTypeOK, OneClaimInductive, InitCustody
<1>2. ASSUME NEW t \in Tasks PROVE Label(t) /\ Verdict(t)
  <2>1. \A p \in Places : descr[t][p] = NoDescr /\ files[t][p] = {}
    BY DEF Init
  <2> QED
    BY <2>1 DEF Init, Label, Verdict, NoResult, Described, Hand, NoClaim, Places, Settled
<1> QED
  BY <1>1, <1>2 DEF IInv

LEMMA StepIInv == IInv /\ [Next]_vars => IInv'
<1> SUFFICES ASSUME IInv, [Next]_vars PROVE IInv'
  OBVIOUS
<1>1. /\ TypeOK /\ OneClaim /\ \A t \in Tasks : Custody(t)
      /\ \A t \in Tasks \ early : Held(t) /\ Label(t) /\ Verdict(t)
  BY DEF IInv
<1>2. TypeOK' /\ OneClaim' /\ \A t \in Tasks : Custody(t)'
  BY <1>1, StepTypeOK, OneClaimInductive, CustodyInductive
<1>3. ASSUME NEW u \in Tasks, u \notin early'
      PROVE  Held(u)' /\ Label(u)' /\ Verdict(u)'
  <2>1. Custody(u) /\ Held(u) /\ Label(u) /\ Verdict(u)
    BY <1>1, <1>3, EarlyGrows
  <2>2. CASE ServerStep
    BY <1>1, <2>1, <2>2, ServerStepHeld, ServerStepLabel, ServerStepVerdict
  <2>3. ASSUME NEW t \in Tasks, TaskStep(t)
        PROVE  Held(u)' /\ Label(u)' /\ Verdict(u)'
    <3>1. CASE u = t
      BY <1>1, <1>3, <2>1, <2>3, <3>1, TaskStepHeld, TaskStepLabel, TaskStepVerdict
    <3>2. CASE u # t
      <4>1. Untouched(u)
        BY <1>1, <2>3, <3>2, OthersUntouched
      <4> QED
        BY <2>1, <4>1, Frame
    <3> QED
      BY <3>1, <3>2
  <2> QED
    BY <2>2, <2>3, StepSplit
<1> QED
  BY <1>2, <1>3 DEF IInv

LEMMA Invariance == Spec => []IInv
BY InitIInv, StepIInv, PTL DEF Spec

\* No handler is started twice, across crashes inside assign, stops, restarts
\* and purges, for any number of batches and of lives of the process.
THEOREM HandlersRunOnce == Spec => []RunsOnce
<1>1. IInv => RunsOnce
  BY DEF IInv, Custody, RunsOnce
<1> QED
  BY <1>1, Invariance, PTL

\* One descriptor per batch, and its status is where it is or is going, unless
\* the batch was purged before it was settled.
THEOREM PositionIsState == Spec => []StatusFollowsPosition
<1>1. IInv => StatusFollowsPosition
  BY DEF IInv, Held, Label, StatusFollowsPosition, Places
<1> QED
  BY <1>1, Invariance, PTL

\* A result lies under terminated/ and nowhere under aborted/, unless the batch
\* was purged before it was settled.
THEOREM ResultMatchesPlace == Spec => []ResultTellsOutcome
<1>1. IInv => ResultTellsOutcome
  BY DEF IInv, Verdict, ResultTellsOutcome
<1> QED
  BY <1>1, Invariance, PTL

\* An execution in flight has its descriptor in active/ to settle, until the
\* batch is purged unsettled: nothing else takes it away.
THEOREM SettleFindsFolder == Spec => []ExecutionOwnsFolder
<1>1. IInv => ExecutionOwnsFolder
  BY DEF IInv, Held, ExecutionOwnsFolder
<1> QED
  BY <1>1, Invariance, PTL

\* Of the batches that no purge took unsettled, nothing but a torn folder ends
\* an execution outside its try block.
THEOREM LostImpliesTorn == Spec => LostOnlyWhenTorn
<1> DEFINE Lost == \A t \in Tasks \ early : exec'[t] = "lost" => exec[t] = "lost" \/ Torn(t)
<1>1. IInv /\ [Next]_vars => Lost
  <2> SUFFICES ASSUME IInv, [Next]_vars, NEW u \in Tasks \ early,
                      exec'[u] = "lost", exec[u] # "lost"
               PROVE  Torn(u)
    OBVIOUS
  <2>1. TypeOK /\ OneClaim /\ Custody(u) /\ Held(u)
    BY DEF IInv
  <2>2. CASE ServerStep
    BY <2>1, <2>2 DEF ServerStep, ListPending, DrainEnds, DrainFails, Stop, Die, Start,
                      vars, execVars, TypeOK
  <2>3. ASSUME NEW t \in Tasks, TaskStep(t) PROVE Torn(u)
    <3>1. CASE u = t
      BY <2>1, <2>3, <3>1, TaskStepLost
    <3>2. CASE u # t
      BY <2>1, <2>3, <3>2, OthersUntouched DEF Untouched
    <3> QED
      BY <3>1, <3>2
  <2> QED
    BY <2>2, <2>3, StepSplit
<1>2. IInv /\ [Next]_vars => [Lost]_vars
  BY <1>1
<1> HIDE DEF Lost
<1>3. Spec => [][Lost]_vars
  BY <1>2, Invariance, PTL DEF Spec
<1> QED
  BY <1>3 DEF Lost, LostOnlyWhenTorn

-----------------------------------------------------------------------------
(* Refinement: the spool implements the life of a batch.                    *)

\* A batch with a descriptor is at the stage of the folder that holds it; one
\* that was purged unsettled is gone.
LEMMA StageFollowsDescriptor ==
  ASSUME NEW t \in Tasks, Custody(t), t \notin early => Held(t)
  PROVE  /\ t \in early => StageOf(t) = "gone"
         /\ t \notin early => \A p \in Places : Described(t, p) => StageOf(t) = p
         /\ (\A p \in Places : ~Described(t, p)) =>
              StageOf(t) = IF sender[t] = "idle" THEN "absent" ELSE "gone"
<1>1. t \in early => sender[t] # "idle"
  BY DEF Custody
<1>2. ASSUME t \notin early, NEW p \in Places, Described(t, p) PROVE StageOf(t) = p
  BY <1>2 DEF Held, StageOf
<1> QED
  BY <1>1, <1>2 DEF StageOf

LEMMA StageFollowsDescriptorNext ==
  ASSUME NEW t \in Tasks, Custody(t)', (t \notin early => Held(t))'
  PROVE  /\ t \in early' => StageOf(t)' = "gone"
         /\ t \notin early' => \A p \in Places : Described(t, p)' => StageOf(t)' = p
         /\ (\A p \in Places : ~Described(t, p)') =>
              StageOf(t)' = IF sender'[t] = "idle" THEN "absent" ELSE "gone"
<1>1. t \in early' => sender'[t] # "idle"
  BY DEF Custody
<1>2. ASSUME t \notin early', NEW p \in Places, Described(t, p)' PROVE StageOf(t)' = p
  BY <1>2 DEF Held, StageOf
<1> QED
  BY <1>1, <1>2 DEF StageOf

\* What IInv says of one task, before and after a step.
Sound(t) == Custody(t) /\ (t \notin early => Held(t))

LEMMA IInvSound ==
  ASSUME NEW t \in Tasks
  PROVE  (IInv => Sound(t)) /\ (IInv' => Sound(t)')
BY DEF IInv, Sound

\* A step that keeps a task's descriptor where it is keeps its stage.
LEMMA SamePlaceSameStage ==
  ASSUME NEW t \in Tasks, Sound(t), Sound(t)',
         (sender'[t] = "idle") <=> (sender[t] = "idle"),
         (t \in early') <=> (t \in early),
         \A p \in Places : Described(t, p)' <=> Described(t, p)
  PROVE  StageOf(t)' = StageOf(t)
<1>1. CASE t \in early
  BY <1>1, StageFollowsDescriptor, StageFollowsDescriptorNext DEF Sound
<1>2. CASE t \notin early /\ \E p \in Places : Described(t, p)
  BY <1>2, StageFollowsDescriptor, StageFollowsDescriptorNext DEF Sound
<1>3. CASE \A p \in Places : ~Described(t, p)
  BY <1>3, StageFollowsDescriptor, StageFollowsDescriptorNext DEF Sound
<1> QED
  BY <1>1, <1>2, <1>3

LEMMA InitLifecycle == Init => Lifecycle!Init
BY DEF Init, Lifecycle!Init, StageOf, Described

LEMMA ServerStepStutters ==
  ASSUME IInv, IInv', ServerStep
  PROVE  UNCHANGED [t \in Tasks |-> StageOf(t)]
<1>1. ASSUME NEW t \in Tasks PROVE StageOf(t)' = StageOf(t)
  <2>1. descr' = descr /\ early' = early
    BY DEF ServerStep, ListPending, DrainEnds, DrainFails, Stop, Die, Start, vars, tree,
           userVars
  <2>2. (sender'[t] = "idle") <=> (sender[t] = "idle")
    BY DEF ServerStep, ListPending, DrainEnds, DrainFails, Stop, Die, Start, vars, IInv,
           TypeOK
  <2>3. Sound(t) /\ Sound(t)'
    BY IInvSound
  <2>4. \A p \in Places : Described(t, p)' <=> Described(t, p)
    BY <2>1 DEF Described
  <2> QED
    BY <2>1, <2>2, <2>3, <2>4, SamePlaceSameStage
<1> QED
  BY <1>1

\* Only a purge takes a batch that is not settled, and to be gone.
LEMMA EarlyPurgeMoves ==
  ASSUME IInv, IInv', NEW t \in Tasks, PurgeRemoves(t), t \notin early, t \in early'
  PROVE  StageOf(t) \in {"pending", "active"} /\ StageOf(t)' = "gone"
<1>1. Sound(t) /\ Sound(t)' /\ TypeOK
  BY IInvSound DEF IInv
<1>2. purger[t] \in Places \ Settled /\ Described(t, purger[t])
  BY <1>1, PurgerPlace DEF PurgeRemoves, Described, TypeOK
<1>3. StageOf(t) = purger[t]
  BY <1>1, <1>2, StageFollowsDescriptor DEF Sound
<1>4. StageOf(t)' = "gone"
  BY <1>1, StageFollowsDescriptorNext DEF Sound
<1> QED
  BY <1>2, <1>3, <1>4 DEF Places

\* A step of task t moves t along its life, or leaves it where it is.
LEMMA TaskStepMoves ==
  ASSUME IInv, IInv', [Next]_vars, NEW t \in Tasks, TaskStep(t)
  PROVE  \/ StageOf(t)' = StageOf(t)
         \/ StageOf(t) = "absent" /\ StageOf(t)' = "pending"
         \/ StageOf(t) = "pending" /\ StageOf(t)' = "active"
         \/ StageOf(t) = "active" /\ StageOf(t)' \in Settled
         \/ StageOf(t) \in {"pending", "active"} \cup Settled /\ StageOf(t)' = "gone"
<1> USE DEF tree, userVars, loopVars, execVars, procVars
<1>a. TypeOK /\ OneClaim /\ Sound(t) /\ Sound(t)'
  BY IInvSound DEF IInv
<1>b. "pending" \in Places /\ "active" \in Places /\ Settled \subseteq Places
  BY DEF Places
<1>1. CASE t \in early
  <2>1. t \in early'
    BY <1>1, EarlyGrows
  <2> QED
    BY <1>a, <1>1, <2>1, StageFollowsDescriptor, StageFollowsDescriptorNext DEF Sound
<1>2. CASE t \notin early /\ t \in early'
  <2>1. PurgeRemoves(t)
    BY <1>2 DEF TaskStep, AskClaim, ClaimReads, ClaimStamps, ClaimMoves, ClaimRefused,
           Launch, UserStep, SenderDescribes, SenderWritesParams, CancelFinds, CancelMarks,
           PurgeFinds, PublishProgress, ExecStep, ReadDescriptor, ReadParams,
           HandlerReturns, HandlerFails, WriteResult, SettleReads, SettleStamps,
           SettleMoves, SettleRefused
  <2> QED
    BY <1>2, <2>1, EarlyPurgeMoves
<1>3. CASE t \notin early /\ t \notin early'
  <2>a. Custody(t) /\ Held(t) /\ Held(t)'
    BY <1>3, <1>a DEF Sound
  <2>b. ASSUME NEW p \in Places
        PROVE  /\ Described(t, p) => StageOf(t) = p
               /\ Described(t, p)' => StageOf(t)' = p
    BY <1>3, <1>a, StageFollowsDescriptor, StageFollowsDescriptorNext DEF Sound
  <2>c. ASSUME UNCHANGED descr, UNCHANGED sender PROVE StageOf(t)' = StageOf(t)
    BY <1>3, <1>a, <2>c, SamePlaceSameStage DEF Described
  <2>d. ASSUME UNCHANGED sender, \A q \in Places : Described(t, q)' <=> Described(t, q)
        PROVE  StageOf(t)' = StageOf(t)
    BY <1>3, <1>a, <2>d, SamePlaceSameStage
  <2>1. CASE AskClaim(t) \/ ClaimReads(t) \/ ClaimRefused(t) \/ Launch(t)
    BY <2>1, <2>c DEF AskClaim, ClaimReads, ClaimRefused, Launch
  <2>2. CASE ClaimStamps(t)
    <3>1. Hand(t) = "read" /\ Described(t, "pending")
      BY <2>2, <2>a DEF ClaimStamps, Hand, Held
    <3>2. Stamp(t, "pending", "active") /\ UNCHANGED sender
      BY <2>2, <3>1 DEF ClaimStamps, Hand
    <3>3. \A q \in Places : Described(t, q)' <=> Described(t, q)
      BY <3>1, <3>2, <1>a, <1>b, StampKeepsDescribed
    <3> QED
      BY <3>2, <3>3, <2>d
  <2>3. CASE ClaimMoves(t)
    <3>1. Described(t, "pending")
      BY <2>3, <2>a DEF ClaimMoves, Hand, Held
    <3>2. Described(t, "active")'
      BY <2>3, <3>1, <1>a, <1>b, <2>a, MovesDescriptor DEF ClaimMoves
    <3> QED
      BY <3>1, <3>2, <1>b, <2>b
  <2>4. CASE SenderDescribes(t)
    <3>1. sender[t] = "idle" /\ \A p \in Places : ~Described(t, p)
      BY <2>4, <2>a DEF SenderDescribes, Custody, NothingOnDisk, Exists, Described
    <3>2. Described(t, "pending")'
      <4>1. descr'[t]["pending"] = "pending"
        BY <2>4, <1>a, <1>b, StampEffect DEF SenderDescribes
      <4> QED
        BY <4>1 DEF Described, NoDescr
    <3>3. StageOf(t) = "absent"
      BY <3>1 DEF StageOf
    <3> QED
      BY <3>2, <3>3, <1>b, <2>b
  <2>5. CASE SenderWritesParams(t)
    <3>1. sender[t] # "idle" /\ sender'[t] # "idle"
      BY <2>5, <1>a DEF SenderWritesParams, TypeOK
    <3>2. \A q \in Places : Described(t, q)' <=> Described(t, q)
      BY <2>5 DEF SenderWritesParams, Described
    <3> QED
      BY <1>3, <1>a, <3>1, <3>2, SamePlaceSameStage
  <2>6. CASE CancelFinds(t) \/ CancelMarks(t) \/ PurgeFinds(t)
    BY <2>6, <2>c DEF CancelFinds, CancelMarks, PurgeFinds
  <2>7. CASE PurgeRemoves(t)
    <3>1. UNCHANGED sender
      BY <2>7 DEF PurgeRemoves
    <3>2. /\ \A p \in Places \ Settled : Described(t, p)' <=> Described(t, p)
          /\ \A p \in Places : Described(t, p)' => Described(t, p)
      BY <1>a, <1>3, <2>7, PurgeOfSettled
    <3>3. CASE \A q \in Places : Described(t, q)' <=> Described(t, q)
      BY <3>1, <3>3, <2>d
    <3>4. CASE ~\A q \in Places : Described(t, q)' <=> Described(t, q)
      <4>1. PICK p \in Settled : Described(t, p) /\ ~Described(t, p)'
        BY <3>2, <3>4, <1>b
      <4>2. \A q \in Places : ~Described(t, q)'
        BY <3>2, <4>1, <1>b, <2>a DEF Held
      <4>3. sender'[t] # "idle"
        BY <3>1, <4>1, <1>b, <2>a DEF Custody, NothingOnDisk, Exists, Described
      <4>4. StageOf(t)' = "gone"
        BY <4>2, <4>3, <1>a, StageFollowsDescriptorNext DEF Sound
      <4>5. StageOf(t) = p
        BY <4>1, <1>b, <2>b
      <4> QED
        BY <4>1, <4>4, <4>5
    <3> QED
      BY <3>3, <3>4
  <2>8. CASE ExecStep(t)
    <3>1. CASE SettleStamps(t)
      <4>1. exec[t] = "settling" /\ Described(t, "active") /\ TargetStatus(t) \in Places
        BY <3>1, <2>a DEF SettleStamps, Step, Held, InFlight, TargetStatus, Places, Settled
      <4>2. Stamp(t, "active", TargetStatus(t)) /\ UNCHANGED sender
        BY <3>1, <4>1 DEF SettleStamps
      <4>3. \A q \in Places : Described(t, q)' <=> Described(t, q)
        BY <4>1, <4>2, <1>a, <1>b, StampKeepsDescribed
      <4> QED
        BY <4>2, <4>3, <2>d
    <3>2. CASE SettleMoves(t)
      <4>1. Described(t, "active")
        BY <3>2, <2>a DEF SettleMoves, Step, Held, InFlight
      <4>2. PICK to \in Settled : to = TargetStatus(t) /\ to # "active"
        BY DEF TargetStatus, Settled
      <4>3. Described(t, to)'
        BY <3>2, <4>1, <4>2, <1>a, <1>b, <2>a, MovesDescriptor DEF SettleMoves
      <4> QED
        BY <4>1, <4>3, <1>b, <2>b
    <3>3. CASE ~SettleStamps(t) /\ ~SettleMoves(t)
      BY <2>8, <3>3, <2>c DEF ExecStep, ReadDescriptor, ReadParams, HandlerReturns,
                              HandlerFails, WriteResult, SettleReads, SettleRefused
    <3> QED
      BY <3>1, <3>2, <3>3
  <2>9. CASE PublishProgress(t)
    BY <2>9, <2>c DEF PublishProgress
  <2> QED
    BY <2>1, <2>2, <2>3, <2>4, <2>5, <2>6, <2>7, <2>8, <2>9 DEF TaskStep, UserStep
<1> QED
  BY <1>1, <1>2, <1>3

LEMMA StepLifecycle ==
  ASSUME IInv, IInv', [Next]_vars
  PROVE  [Lifecycle!Next]_([t \in Tasks |-> StageOf(t)])
<1>1. CASE ServerStep
  BY <1>1, ServerStepStutters
<1>2. ASSUME NEW t \in Tasks, TaskStep(t)
      PROVE  [Lifecycle!Next]_([u \in Tasks |-> StageOf(u)])
  <2> DEFINE stage == [u \in Tasks |-> StageOf(u)]
             stageAfter == [u \in Tasks |-> StageOf(u)']
  <2>1. ASSUME NEW u \in Tasks, u # t PROVE StageOf(u)' = StageOf(u)
    <3>1. Untouched(u) /\ Sound(u) /\ Sound(u)'
      BY <1>2, <2>1, OthersUntouched, IInvSound DEF IInv
    <3>2. \A p \in Places : Described(u, p)' <=> Described(u, p)
      BY <3>1 DEF Untouched, Described
    <3>3. /\ (sender'[u] = "idle") <=> (sender[u] = "idle")
          /\ (u \in early') <=> (u \in early)
      BY <3>1 DEF Untouched
    <3> QED
      BY <3>1, <3>2, <3>3, SamePlaceSameStage
  <2>2. stageAfter = [stage EXCEPT ![t] = StageOf(t)']
    BY <2>1
  <2>3. CASE StageOf(t)' = StageOf(t)
    BY <2>1, <2>3
  <2>4. CASE StageOf(t)' # StageOf(t)
    <3>1. ASSUME NEW from, NEW to, StageOf(t) = from, StageOf(t)' = to
          PROVE  Lifecycle!Move(t, from, to)
      BY <2>2, <3>1 DEF Lifecycle!Move
    <3>2. \/ Lifecycle!Submit(t) \/ Lifecycle!Claim(t)
          \/ Lifecycle!Finish(t) \/ Lifecycle!Purge(t)
      BY <1>2, <2>4, <3>1, TaskStepMoves
         DEF Lifecycle!Submit, Lifecycle!Claim, Lifecycle!Finish, Lifecycle!Purge,
             Lifecycle!Terminal, Settled
    <3> QED
      BY <3>2 DEF Lifecycle!Next
  <2> QED
    BY <2>3, <2>4
<1> QED
  BY <1>1, <1>2, StepSplit

\* Every behaviour of the spool, its actors and its crashes is a life of the
\* batches: submitted, claimed, finished and purged at most once each, and
\* purged whenever somebody asks for it.
THEOREM SpoolImplementsLifecycle == Spec => ImplementsLifecycle
<1>1. []IInv /\ [][Next]_vars => [][Lifecycle!Next]_([t \in Tasks |-> StageOf(t)])
  <2>1. IInv /\ IInv' /\ [Next]_vars => [Lifecycle!Next]_([t \in Tasks |-> StageOf(t)])
    BY StepLifecycle
  <2> QED
    BY <2>1, PTL
<1> QED
  BY <1>1, InitLifecycle, Invariance, PTL DEF Spec, ImplementsLifecycle, Lifecycle!Spec

\* The folder of a batch tells the truth about it: the five above together, of
\* every batch that nobody purges before it is settled.
THEOREM FoldersTell == Spec => FolderTells
BY TypeCorrect, PositionIsState, ResultMatchesPlace, SettleFindsFolder, LostImpliesTorn, PTL
DEF FolderTells

-----------------------------------------------------------------------------
(***************************************************************************)
(* The events (TaskEvents), for any tasks, streams, length of the queues   *)
(* and number of snapshots: what a client has of a task, what is in its    *)
(* hand and what is queued for it are in the order of the task, and the    *)
(* last of them is the newest of the session.                              *)
(***************************************************************************)

Stands ==
  {"off", "lists", "reads", "replays", "ready", "parked", "writes", "done", "cancelled"}
Follows(s) == at[s] \in {"ready", "parked", "writes"}

\* Of each task, what was published is no later than what is on the spool.
Published ==
  \A t \in Launched : (told[t] = -1 => snap[t] = 0) /\ (told[t] # Final => told[t] <= snap[t])

\* What a stream has by where it is: nothing before it is served, nor after.
Staged(s) ==
  /\ s \in hub <=> Follows(s)
  /\ ~Follows(s) => queue[s] = <<>>
  /\ hand[s] # NoEvent <=> at[s] = "writes"
  /\ at[s] \in {"off", "lists", "reads"} => seen[s] = Unseen
  /\ at[s] = "off" => todo[s] = {}
  /\ at[s] = "reads" => todo[s] \subseteq Launched
  /\ at[s] = "parked" /\ ~leaving => queue[s] = <<>>

\* A snapshot to replay is on the spool, and the first of its task.
Snapshots(s) ==
  at[s] = "replays" =>
    /\ \A e \in todo[s] : e \in Events /\ e[2] <= snap[e[1]] /\ seen[s][e[1]] = -1
    /\ \A e, f \in todo[s] : e[1] = f[1] => e = f

\* What a client has of a task, then what it is given, then its queue.
Later(e, f) == e[1] = f[1] => e[2] <= f[2]
Known(s) == \A t \in Launched : seen[s][t] <= told[t] \/ seen[s][t] <= snap[t]
Queued(s) ==
  \A i \in 1 .. Len(queue[s]) :
    /\ queue[s][i][2] <= told[queue[s][i][1]]
    /\ seen[s][queue[s][i][1]] <= queue[s][i][2]
    /\ hand[s] # NoEvent => Later(hand[s], queue[s][i])
    /\ \A j \in 1 .. Len(queue[s]) : i < j => Later(queue[s][i], queue[s][j])
Given(s) ==
  hand[s] # NoEvent => hand[s][2] <= told[hand[s][1]] /\ seen[s][hand[s][1]] <= hand[s][2]

\* The newest event of the session is the last a stream still has to get.
Newest(s) ==
  Follows(s) =>
    /\ queue[s] # <<>> => queue[s][Len(queue[s])] = newest
    /\ queue[s] = <<>> /\ hand[s] # NoEvent => hand[s] = newest

\* What was queued last as the server left is on its way, or was received.
Due(s) ==
  due[s] # NoEvent =>
    /\ leaving /\ due[s] \in Events
    /\ at[s] \in {"ready", "writes", "done", "cancelled"}
    /\ at[s] # "cancelled" =>
         \/ \E i \in 1 .. Len(queue[s]) : queue[s][i] = due[s]
         \/ hand[s] = due[s]
         \/ seen[s][due[s][1]] >= due[s][2]

Typed(s) ==
  /\ at[s] \in Stands
  /\ queue[s] \in Seq(Events) /\ Len(queue[s]) <= QueueSize
  /\ hand[s] \in Events \cup {NoEvent}
  /\ seen[s] \in [Launched -> -1 .. Final]

StreamOK(s) ==
  /\ Typed(s) /\ Staged(s) /\ Snapshots(s) /\ Known(s) /\ Queued(s) /\ Given(s)
  /\ Newest(s) /\ Due(s)

TasksOK ==
  /\ status \in [Launched -> {"active", "settled"}]
  /\ snap \in [Launched -> 0 .. MaxProgress] /\ told \in [Launched -> -1 .. Final]
  /\ Published

OfStreams(f) == f = [s \in Streams |-> f[s]]
Tables ==
  /\ OfStreams(at) /\ OfStreams(queue) /\ OfStreams(hand) /\ OfStreams(seen)
  /\ OfStreams(todo) /\ OfStreams(due) /\ hub \subseteq Streams /\ leaving \in BOOLEAN

EInv == TasksOK /\ Tables /\ \A s \in Streams : StreamOK(s)

-----------------------------------------------------------------------------
(* Queues. *)

LEMMA NoneIsNone == NoEvent \notin Events
BY DEF NoEvent, Events

\* The head of a queue and what is left of it.
LEMMA TailIs ==
  ASSUME NEW q \in Seq(Events), q # <<>>
  PROVE  /\ Head(q) = q[1] /\ Head(q) \in Events
         /\ Tail(q) \in Seq(Events) /\ Len(Tail(q)) = Len(q) - 1 /\ Len(q) \in Nat \ {0}
         /\ \A i \in 1 .. Len(Tail(q)) : Tail(q)[i] = q[i + 1]
BY HeadTailProperties, LenProperties, EmptySeq

\* An event is put at the end; of a full queue, the oldest goes.
LEMMA PutIs ==
  ASSUME NEW q \in Seq(Events), Len(q) <= QueueSize, NEW e \in Events
  PROVE  /\ Put(q, e) \in Seq(Events) /\ Len(Put(q, e)) <= QueueSize
         /\ Len(Put(q, e)) \in Nat \ {0} /\ Put(q, e) # <<>>
         /\ Put(q, e)[Len(Put(q, e))] = e
         /\ \E k \in {0, 1} :
              /\ Len(Put(q, e)) = Len(q) + 1 - k /\ (k = 1 <=> Len(q) = QueueSize)
              /\ \A i \in 1 .. Len(Put(q, e)) - 1 : Put(q, e)[i] = q[i + k]
<1>1. CASE Len(q) # QueueSize
  <2>1. Put(q, e) = Append(q, e) BY <1>1 DEF Put
  <2>2. Len(q) \in Nat BY LenProperties
  <2> QED BY <1>1, <2>1, <2>2, AppendProperties, EmptySeq, EventAssumption
<1>2. CASE Len(q) = QueueSize
  <2>1. q # <<>> BY <1>2, EventAssumption, EmptySeq
  <2>2. Put(q, e) = Append(Tail(q), e) BY <1>2 DEF Put
  <2>3. /\ Tail(q) \in Seq(Events) /\ Len(Tail(q)) = Len(q) - 1
        /\ \A i \in 1 .. Len(Tail(q)) : Tail(q)[i] = q[i + 1]
    BY <2>1, TailIs
  <2>4. ASSUME NEW r \in Seq(Events), Len(r) = Len(q) - 1
        PROVE  /\ Append(r, e) \in Seq(Events) /\ Append(r, e) # <<>>
               /\ Len(Append(r, e)) = Len(q) /\ Append(r, e)[Len(q)] = e
               /\ \A i \in 1 .. Len(r) : Append(r, e)[i] = r[i]
    BY <1>2, <2>4, AppendProperties, EventAssumption
  <2> QED BY <1>2, <2>2, <2>3, <2>4, EventAssumption
<1> QED BY <1>1, <1>2

-----------------------------------------------------------------------------
(* A stream. *)

\* The step of one stream is none of another, nor of the tasks.
LEMMA OneMoves ==
  ASSUME EInv, NEW s \in Streams, Reading, StreamOK(s)', hub' \subseteq Streams,
         hub' \ {s} = hub \ {s},
         OfStreams(at'), OfStreams(queue'), OfStreams(hand'), OfStreams(seen'), OfStreams(todo'),
         \A u \in Streams \ {s} : /\ at'[u] = at[u] /\ queue'[u] = queue[u] /\ hand'[u] = hand[u]
                                  /\ seen'[u] = seen[u] /\ todo'[u] = todo[u]
  PROVE  EInv'
<1>1. TasksOK' BY DEF EInv, TasksOK, Reading, task, Published
<1>2. Tables' BY DEF EInv, Tables, Reading, OfStreams
<1>3. ASSUME NEW u \in Streams, u # s PROVE StreamOK(u)'
  <2> USE DEF EInv, StreamOK, Reading, task, Follows
  <2>1. StreamOK(u) /\ (u \in hub' <=> u \in hub) BY <1>3
  <2>2. Typed(u)' /\ Staged(u)' BY <1>3, <2>1 DEF Typed, Staged
  <2>3. Snapshots(u)' /\ Known(u)' BY <1>3, <2>1 DEF Snapshots, Known
  <2>4. Queued(u)' /\ Given(u)' BY <1>3, <2>1 DEF Queued, Given
  <2>5. Newest(u)' /\ Due(u)' BY <1>3, <2>1 DEF Newest, Due
  <2> QED BY <2>2, <2>3, <2>4, <2>5
<1> QED BY <1>1, <1>2, <1>3 DEF EInv

LEMMA ServesHolds ==
  ASSUME EInv, NEW s \in Streams, Opens(s) \/ Lists(s) \/ Reads(s) \/ Replays(s) \/ Subscribes(s)
                                  \/ Parks(s)
  PROVE  EInv'
<1> SUFFICES StreamOK(s)'
  BY OneMoves DEF EInv, Tables, OfStreams, Opens, Lists, Reads, Replays, Subscribes, Parks, Goes,
     Writes
<1> USE NoneIsNone DEF EInv, Tables, OfStreams, StreamOK, Reading, task, Goes, Follows, Stands
<1>0. StreamOK(s) /\ TasksOK OBVIOUS
<1>1. CASE Opens(s)
  <2> USE <1>1 DEF Opens
  <2>1. Typed(s)' /\ Staged(s)' BY DEF Typed, Staged
  <2>2. Snapshots(s)' /\ Known(s)' BY DEF Snapshots, Known, Staged
  <2>3. Queued(s)' /\ Given(s)' BY DEF Queued, Given
  <2>4. Newest(s)' /\ Due(s)' BY DEF Newest, Due
  <2> QED BY <2>1, <2>2, <2>3, <2>4
<1>2. CASE Lists(s)
  <2> USE <1>2 DEF Lists
  <2>1. Typed(s)' /\ Staged(s)' BY DEF Typed, Staged
  <2>2. Snapshots(s)' /\ Known(s)' BY DEF Snapshots, Known
  <2>3. Queued(s)' /\ Given(s)' BY DEF Queued, Given
  <2>4. Newest(s)' /\ Due(s)' BY DEF Newest, Due
  <2> QED BY <2>1, <2>2, <2>3, <2>4
<1>3. CASE Reads(s)
  <2> USE <1>3 DEF Reads
  <2>1. Typed(s)' /\ Staged(s)' BY DEF Typed, Staged
  <2>2. Snapshots(s)' /\ Known(s)'
    <3>1. todo[s] \subseteq Launched /\ todo'[s] = {<<t,
        snap[t]>> : t \in {u \in todo[s] : snap[u] > 0}}
      BY DEF Staged
    <3>2. \A t \in Launched : <<t, snap[t]>> \in Events
      BY <1>0, EventAssumption DEF TasksOK, Events, Final
    <3>3. \A t \in Launched : seen[s][t] = -1 BY DEF Staged, Unseen
    <3>4. \A e \in todo'[s] : \E t \in Launched : e = <<t, snap[t]>> BY <3>1
    <3>5. \A e \in todo'[s] : e \in Events /\ e[2] <= snap[e[1]] /\ seen[s][e[1]] = -1
      BY <3>2, <3>3, <3>4, <1>0 DEF TasksOK
    <3>6. \A e, f \in todo'[s] : e[1] = f[1] => e = f BY <3>4
    <3> QED BY <3>5, <3>6 DEF Snapshots, Known
  <2>3. Queued(s)' /\ Given(s)' BY DEF Queued, Given
  <2>4. Newest(s)' /\ Due(s)' BY DEF Newest, Due
  <2> QED BY <2>1, <2>2, <2>3, <2>4
<1>4. CASE Replays(s)
  <2>1. PICK e \in todo[s] : Writes(s, e) /\ todo' = [todo EXCEPT ![s] = @ \ {e}]
    BY <1>4 DEF Replays
  <2> USE <1>4, <2>1 DEF Replays, Writes
  <2>2. /\ e \in Events /\ e[1] \in Launched /\ e[2] \in 0 .. Final
        /\ e[2] <= snap[e[1]] /\ seen[s][e[1]] = -1
    BY DEF Snapshots, Events
  <2>3. seen'[s] = [seen[s] EXCEPT ![e[1]] = e[2]] OBVIOUS
  <2>4. seen'[s] \in [Launched -> -1 .. Final] BY <2>2, <2>3, EventAssumption DEF Typed, Final
  <2>5. Typed(s)' /\ Staged(s)' BY <2>4 DEF Typed, Staged
  <2>6. Snapshots(s)' BY <2>2, <2>3 DEF Snapshots, Typed, Events
  <2>7. Known(s)' BY <2>2, <2>3 DEF Known, Typed
  <2>8. Queued(s)' /\ Given(s)'
    <3>1. queue'[s] = <<>> /\ hand'[s] = NoEvent BY DEF Staged
    <3> QED BY <3>1, EmptySeq DEF Queued, Given
  <2>9. Newest(s)' /\ Due(s)' BY DEF Newest, Due
  <2> QED BY <2>5, <2>6, <2>7, <2>8, <2>9
<1>5. CASE Subscribes(s)
  <2> USE <1>5 DEF Subscribes
  <2>1. Typed(s)' /\ Staged(s)' BY DEF Typed, Staged
  <2>2. Snapshots(s)' /\ Known(s)' BY DEF Snapshots, Known
  <2>3. Queued(s)' /\ Given(s)' BY DEF Queued, Given
  <2>4. Newest(s)' /\ Due(s)' BY DEF Newest, Due, Staged
  <2> QED BY <2>1, <2>2, <2>3, <2>4
<1>6. CASE Parks(s)
  <2> USE <1>6 DEF Parks
  <2>1. Typed(s)' /\ Staged(s)' BY DEF Typed, Staged
  <2>2. Snapshots(s)' /\ Known(s)' BY DEF Snapshots, Known
  <2>3. Queued(s)' /\ Given(s)' BY DEF Queued, Given
  <2>4. Newest(s)' /\ Due(s)' BY DEF Newest, Due
  <2> QED BY <2>1, <2>2, <2>3, <2>4
<1> QED BY <1>1, <1>2, <1>3, <1>4, <1>5, <1>6

\* A stream takes the head of its queue.
LEMMA TakesHolds ==
  ASSUME EInv, NEW s \in Streams, Takes(s)
  PROVE  EInv'
<1> SUFFICES StreamOK(s)'
  BY OneMoves DEF EInv, Tables, OfStreams, Takes, Goes
<1> USE NoneIsNone DEF EInv, Tables, OfStreams, StreamOK, Reading, task, Goes, Follows, Stands,
    Takes
<1> DEFINE q == queue[s]
           r == queue'[s]
<1>1. /\ q \in Seq(Events) /\ q # <<>> /\ r = Tail(q) /\ hand'[s] = q[1] /\ q[1] \in Events
      /\ r \in Seq(Events) /\ Len(r) = Len(q) - 1 /\ Len(q) \in Nat \ {0}
      /\ \A i \in 1 .. Len(r) : r[i] = q[i + 1]
  BY TailIs DEF Typed
<1>2. hand[s] = NoEvent BY DEF Staged
<1> HIDE DEF r
<1>3. Typed(s)'
  BY <1>1, EventAssumption DEF Typed, r
<1>4. Staged(s)' BY <1>1 DEF Staged
<1>5. Snapshots(s)' /\ Known(s)' BY DEF Snapshots, Known
<1>6. Queued(s)'
  <2> SUFFICES ASSUME NEW i \in 1 .. Len(r)
               PROVE  /\ r[i][2] <= told[r[i][1]] /\ seen[s][r[i][1]] <= r[i][2]
                      /\ Later(hand'[s], r[i])
                      /\ \A j \in 1 .. Len(r) : i < j => Later(r[i], r[j])
    BY DEF Queued, r, Later
  <2>1. i + 1 \in 1 .. Len(q) /\ 1 \in 1 .. Len(q) /\ 1 < i + 1 /\ r[i] = q[i + 1] BY <1>1
  <2>2. \A j \in 1 .. Len(r) : i < j => j + 1 \in 1 .. Len(q) /\ i + 1 < j + 1 /\ r[j] = q[j + 1]
    BY <1>1
  <2> QED BY <1>1, <2>1, <2>2 DEF Queued
<1>7. Given(s)'
  <2>1. 1 \in 1 .. Len(q) BY <1>1
  <2>2. q[1][2] <= told[q[1][1]] /\ seen[s][q[1][1]] <= q[1][2] BY <2>1 DEF Queued
  <2> QED BY <1>1, <2>2 DEF Given
<1>8. Newest(s)'
  <2>1. CASE r = <<>>
    <3>1. Len(r) = 0 BY <2>1
    <3>2. Len(q) = 1 BY <1>1, <3>1
    <3> QED BY <1>1, <2>1, <3>2 DEF Newest, r
  <2>2. CASE r # <<>>
    <3>1. Len(r) \in 1 .. Len(r) BY <1>1, <2>2, EmptySeq
    <3>2. r[Len(r)] = q[Len(q)] BY <1>1, <3>1
    <3> QED BY <1>1, <2>2, <3>2 DEF Newest, r
  <2> QED BY <2>1, <2>2
<1>9. Due(s)'
  <2> SUFFICES ASSUME due[s] # NoEvent
               PROVE  \/ \E i \in 1 .. Len(r) : r[i] = due[s]
                      \/ hand'[s] = due[s]
                      \/ seen[s][due[s][1]] >= due[s][2]
    BY DEF Due, r
  <2>1. ASSUME NEW i \in 1 .. Len(q), q[i] = due[s]
        PROVE  (\E j \in 1 .. Len(r) : r[j] = due[s]) \/ hand'[s] = due[s]
    <3>1. CASE i = 1 BY <1>1, <2>1, <3>1
    <3>2. CASE i # 1
      <4>1. i - 1 \in 1 .. Len(r) /\ r[i - 1] = q[i] BY <1>1, <3>2
      <4> QED BY <2>1, <4>1
    <3> QED BY <3>1, <3>2
  <2> QED BY <1>2, <2>1 DEF Due
<1> QED BY <1>3, <1>4, <1>5, <1>6, <1>7, <1>8, <1>9

\* It writes what it took.
LEMMA SendsHolds ==
  ASSUME EInv, NEW s \in Streams, Sends(s)
  PROVE  EInv'
<1> SUFFICES StreamOK(s)'
  BY OneMoves DEF EInv, Tables, OfStreams, Sends, Goes, Writes
<1> USE NoneIsNone DEF EInv, Tables, OfStreams, StreamOK, TasksOK, Reading, task, Goes, Follows,
    Stands,
        Sends, Writes
<1> DEFINE e == hand[s]
<1>1. /\ e \in Events /\ e # NoEvent /\ e[1] \in Launched /\ e[2] \in 0 .. Final
      /\ seen[s][e[1]] <= e[2] /\ e[2] <= told[e[1]]
  BY DEF Staged, Typed, Given, Events
<1>2. /\ seen'[s] = [seen[s] EXCEPT ![e[1]] = e[2]] /\ seen[s] \in [Launched -> -1 .. Final]
      /\ hand'[s] = NoEvent /\ queue' = queue
  BY DEF Typed
<1> HIDE DEF e
<1>3. seen'[s] \in [Launched -> -1 .. Final]
  <2>1. e[2] \in -1 .. Final BY <1>1, EventAssumption DEF Final
  <2> QED BY <1>1, <1>2, <2>1
<1>4. \A t \in Launched :
        /\ seen'[s][t] >= seen[s][t]
        /\ seen'[s][t] = (IF t = e[1] THEN e[2] ELSE seen[s][t])
  BY <1>1, <1>2, EventAssumption DEF Final
<1>5. Typed(s)' BY <1>2, <1>3 DEF Typed
<1>6. Staged(s)' BY <1>2 DEF Staged
<1>7. Snapshots(s)' BY DEF Snapshots
<1>8. Known(s)' BY <1>1, <1>4 DEF Known
<1>9. Queued(s)'
  <2> SUFFICES ASSUME NEW i \in 1 .. Len(queue[s])
               PROVE  seen'[s][queue[s][i][1]] <= queue[s][i][2]
    BY <1>2 DEF Queued
  <2>1. queue[s][i] \in Events /\ Later(e,
      queue[s][i]) /\ seen[s][queue[s][i][1]] <= queue[s][i][2]
    BY <1>1 DEF Queued, Typed, e
  <2> QED BY <1>4, <2>1 DEF Later, Events
<1>10. Given(s)' BY <1>2 DEF Given
<1>11. Newest(s)' BY <1>2 DEF Newest
<1>12. Due(s)'
  <2> SUFFICES ASSUME due[s] # NoEvent
               PROVE  \/ \E i \in 1 .. Len(queue[s]) : queue[s][i] = due[s]
                      \/ seen'[s][due[s][1]] >= due[s][2]
    BY <1>2 DEF Due
  <2>1. due[s] \in Events /\ due[s][1] \in Launched /\ due[s][2] \in 0 .. Final BY DEF Due, Events
  <2>2. CASE e = due[s] BY <1>1, <1>4, <2>1, <2>2, EventAssumption DEF Final
  <2>3. CASE seen[s][due[s][1]] >= due[s][2]
    BY <1>2, <1>3, <1>4, <2>1, <2>3, EventAssumption DEF Final
  <2> QED BY <2>2, <2>3 DEF Due, e
<1> QED BY <1>5, <1>6, <1>7, <1>8, <1>9, <1>10, <1>11, <1>12

\* It ends: what it had is dropped.
LEMMA EndsHolds ==
  ASSUME EInv, NEW s \in Streams, ReturnsNone(s) \/ Cancelled(s)
  PROVE  EInv'
<1>1. PICK how \in {"done", "cancelled"} :
        /\ Unsubscribes(s, how)
        /\ how = "done" => ReturnsNone(s)
  BY DEF ReturnsNone, Cancelled
<1> SUFFICES StreamOK(s)'
  BY <1>1, OneMoves DEF EInv, Tables, OfStreams, Unsubscribes, Goes
<1> USE <1>1, NoneIsNone DEF EInv, Tables, OfStreams, StreamOK, Reading, task, Goes, Follows,
    Stands,
        Unsubscribes
<1>2. /\ at'[s] = how /\ queue'[s] = <<>> /\ hand'[s] = NoEvent /\ s \notin hub'
      /\ seen'[s] = (IF how = "done" THEN seen[s] ELSE Unseen)
  OBVIOUS
<1>3. Unseen \in [Launched -> -1 .. Final] BY EventAssumption DEF Unseen, Final
<1>4. Typed(s)' BY <1>2, <1>3, EventAssumption, EmptySeq DEF Typed
<1>5. Staged(s)' BY <1>2 DEF Staged
<1>6. Snapshots(s)' BY <1>2 DEF Snapshots
<1>7. Known(s)' BY <1>2, EventAssumption DEF Known, Unseen, TasksOK
<1>8. Queued(s)' /\ Given(s)' BY <1>2, EmptySeq DEF Queued, Given
<1>9. Newest(s)' BY <1>2 DEF Newest
<1>10. Due(s)'
  <2>1. CASE how = "cancelled" BY <1>2, <2>1 DEF Due, ReturnsNone
  <2>2. CASE how = "done"
    <3>1. at[s] = "parked" \/ (at[s] = "ready" /\ queue[s] = <<>>) BY <2>2 DEF ReturnsNone
    <3>2. hand[s] = NoEvent BY <3>1 DEF Staged
    <3> QED BY <1>2, <2>2, <3>1, <3>2, EmptySeq DEF Due
  <2> QED BY <2>1, <2>2
<1> QED BY <1>4, <1>5, <1>6, <1>7, <1>8, <1>9, <1>10

-----------------------------------------------------------------------------
(* The tasks and the server. *)

\* The server leaves: what is queued last is what is due.
LEMMA LeavingHolds ==
  ASSUME EInv, StartsLeaving
  PROVE  EInv'
<1> USE DEF EInv, StartsLeaving, task, stream
<1>1. TasksOK' /\ Tables' BY DEF TasksOK, Published, Tables, OfStreams
<1>2. ASSUME NEW s \in Streams PROVE StreamOK(s)'
  <2> USE NoneIsNone DEF StreamOK, Follows
  <2>1. Typed(s)' /\ Staged(s)' BY DEF Typed, Staged
  <2>2. Snapshots(s)' /\ Known(s)' BY DEF Snapshots, Known
  <2>3. Queued(s)' /\ Given(s)' BY DEF Queued, Given
  <2>4. Newest(s)' BY DEF Newest
  <2>5. Due(s)'
    <3>1. CASE queue[s] = <<>> BY <3>1 DEF Due
    <3>2. CASE queue[s] # <<>>
      <4>1. Len(queue[s]) \in 1 .. Len(queue[s]) /\ queue[s][Len(queue[s])] \in Events
        BY <3>2, EmptySeq, LenProperties DEF Typed
      <4>2. at[s] \in {"ready", "writes"} BY <3>2 DEF Staged
      <4> QED BY <3>2, <4>1, <4>2 DEF Due
    <3> QED BY <3>1, <3>2
  <2> QED BY <2>1, <2>2, <2>3, <2>4, <2>5
<1> QED BY <1>1, <1>2

\* A snapshot is written, or a task settles: nobody is told yet.
LEMMA QuietHolds ==
  ASSUME EInv, NEW t \in Launched, WritesProgress(t) \/ Settles(t)
  PROVE  EInv'
<1> USE EventAssumption DEF EInv, WritesProgress, Settles, Quiet, stream
<1>1. TasksOK' /\ \A u \in Launched : snap'[u] >= snap[u] BY DEF TasksOK, Published, Final
<1>2. Tables' BY DEF Tables, OfStreams
<1>3. ASSUME NEW s \in Streams PROVE StreamOK(s)'
  <2> USE DEF StreamOK, Follows
  <2>1. Typed(s)' /\ Staged(s)' BY DEF Typed, Staged
  <2>2. Snapshots(s)' BY <1>1 DEF Snapshots, TasksOK, Events
  <2>3. Known(s)' BY <1>1 DEF Known, TasksOK, Typed, Final
  <2>4. Queued(s)' /\ Given(s)' BY DEF Queued, Given
  <2>5. Newest(s)' /\ Due(s)' BY DEF Newest, Due
  <2> QED BY <2>1, <2>2, <2>3, <2>4, <2>5
<1> QED BY <1>1, <1>2, <1>3

\* An event is published: it is the last of its task, in every queue.
LEMMA PublishHolds ==
  ASSUME EInv, NEW t \in Launched, Started(t) \/ PublishesProgress(t) \/ PublishesSettled(t)
  PROVE  EInv'
<1>1. PICK k \in 0 .. Final :
        /\ Publish(<<t, k>>) /\ status' = status /\ snap' = snap
        /\ told[t] <= k /\ snap[t] <= k /\ (k = Final \/ k = snap[t])
  <2> USE EventAssumption DEF EInv, TasksOK, Published, Final
  <2>1. CASE Started(t)
    <3>1. told[t] = -1 /\ snap[t] = 0 /\ 0 \in 0 .. Final BY <2>1 DEF Started
    <3> QED BY <2>1, <3>1 DEF Started
  <2>2. CASE PublishesProgress(t) BY <2>2 DEF PublishesProgress
  <2>3. CASE PublishesSettled(t) BY <2>3 DEF PublishesSettled
  <2> QED BY <2>1, <2>2, <2>3
<1> DEFINE e == <<t, k>>
<1>2. e \in Events /\ e # NoEvent /\ e[1] = t /\ e[2] = k BY NoneIsNone DEF Events
<1> HIDE DEF e
<1> USE DEF EInv
<1>3. /\ told' = [told EXCEPT ![t] = k] /\ newest' = e
      /\ \A u \in Launched : told'[u] >= told[u] /\ (u # t => told'[u] = told[u])
      /\ told'[t] = k
  BY <1>1, EventAssumption DEF e, Publish, TasksOK, Final
<1>4. TasksOK' BY <1>1, <1>3, EventAssumption DEF TasksOK, Published, Final
<1>5. Tables' BY <1>1 DEF Tables, OfStreams, Publish
<1>6. ASSUME NEW s \in Streams PROVE StreamOK(s)'
  <2> USE DEF StreamOK
  <2>1. /\ at'[s] = (IF at[s] = "parked" /\ ~leaving THEN "ready" ELSE at[s])
        /\ queue'[s] = (IF s \in hub THEN Put(queue[s], e) ELSE queue[s])
        /\ due'[s] = (IF Len(queue[s]) = QueueSize THEN NoEvent ELSE due[s])
        /\ hub' = hub /\ todo' = todo /\ hand' = hand /\ seen' = seen /\ leaving' = leaving
    BY <1>1 DEF Publish, Tables, OfStreams, e
  <2> DEFINE q == queue[s]
             r == queue'[s]
  <2>2. /\ q \in Seq(Events) /\ Len(q) <= QueueSize /\ Len(q) \in Nat
        /\ seen[s] \in [Launched -> -1 .. Final]
    BY LenProperties DEF Typed
  <2>3. Follows(s)' <=> Follows(s) BY <2>1 DEF Follows
  <2>4. s \in hub => /\ r \in Seq(Events) /\ Len(r) <= QueueSize /\ Len(r) \in Nat \ {0} /\ r # <<>>
                     /\ r[Len(r)] = e
                     /\ \E d \in {0,
                         1} : /\ Len(r) = Len(q) + 1 - d /\ (d = 1 <=> Len(q) = QueueSize)
                                          /\ \A i \in 1 .. Len(r) - 1 : r[i] = q[i + d]
    <3>1. s \in hub => r = Put(q, e) BY <2>1
    <3> HIDE DEF q, r
    <3>2. /\ Put(q, e) \in Seq(Events) /\ Len(Put(q, e)) <= QueueSize
          /\ Len(Put(q, e)) \in Nat \ {0} /\ Put(q, e) # <<>>
          /\ Put(q, e)[Len(Put(q, e))] = e
          /\ \E d \in {0, 1} :
               /\ Len(Put(q, e)) = Len(q) + 1 - d /\ (d = 1 <=> Len(q) = QueueSize)
               /\ \A i \in 1 .. Len(Put(q, e)) - 1 : Put(q, e)[i] = q[i + d]
      BY <1>2, <2>2, PutIs, Zenon
    <3> QED BY <3>1, <3>2
  <2>5. s \notin hub => r = q /\ q = <<>> BY <2>1 DEF Staged, Follows
  <2> HIDE DEF r
  <2>6. Typed(s)' BY <2>1, <2>4, <2>5 DEF Typed, Stands, r
  <2>7. Staged(s)' BY <2>1, <2>3, <2>5 DEF Staged, Follows, r
  <2>8. Snapshots(s)' BY <1>1, <2>1 DEF Snapshots
  <2>9. Known(s)' BY <1>1, <1>3, <1>4, <2>1, <2>2, EventAssumption DEF Known, TasksOK, Final
  <2>10. Given(s)'
    <3>1. hand[s] # NoEvent => hand[s][1] \in Launched /\ hand[s][2] \in 0 .. Final
      BY DEF Typed, Events
    <3>2. \A u \in Launched :
            told[u] \in -1 .. Final /\ told'[u] \in -1 .. Final /\ told'[u] >= told[u]
      BY <1>3, <1>4 DEF TasksOK
    <3> QED BY <2>1, <3>1, <3>2, EventAssumption DEF Given, Final
  <2>11. Newest(s)' BY <1>3, <2>3, <2>4 DEF Newest, Staged, r
  <2>12. CASE s \notin hub
    <3>1. Queued(s)' BY <2>5, <2>12, EmptySeq DEF Queued, r
    <3>2. Due(s)'
      <4>1. Len(queue[s]) # QueueSize BY <2>5, <2>12, EmptySeq, EventAssumption
      <4> QED BY <2>1, <4>1, <2>5, <2>12 DEF Due, r
    <3> QED BY <2>6, <2>7, <2>8, <2>9, <2>10, <2>11, <3>1, <3>2
  <2>13. CASE s \in hub
    <3>1. PICK d \in {0, 1} : /\ Len(r) = Len(q) + 1 - d /\ (d = 1 <=> Len(q) = QueueSize)
                              /\ \A i \in 1 .. Len(r) - 1 : r[i] = q[i + d]
      BY <2>4, <2>13
    <3>2. \A i \in 1 .. Len(r) - 1 : i + d \in 1 .. Len(q) /\ q[i + d] \in Events /\ r[i] = q[i + d]
      BY <2>2, <2>4, <2>13, <3>1
    <3>3. r[Len(r)] = e /\ Len(r) \in Nat \ {0} BY <2>4, <2>13
    <3>4. \A u \in Launched : told[u] \in -1 .. Final /\ told'[u] \in -1 .. Final
                              /\ seen[s][u] \in -1 .. Final
      BY <1>4, <2>2 DEF TasksOK
    <3>5. seen[s][t] <= k BY <1>1, <3>4, EventAssumption DEF Known, TasksOK, Final
    <3>6. \A f \in Events : f[1] \in Launched /\ f[2] \in 0 .. Final BY DEF Events
    <3>7. \A f \in Events : f[2] <= told[f[1]] => Later(f, e) /\ f[2] <= told'[f[1]]
      BY <1>1, <1>2, <1>3, <3>4, <3>6, EventAssumption DEF Later, Final
    <3>8. hand[s] # NoEvent => hand[s] \in Events /\ hand[s][2] <= told[hand[s][1]]
      BY DEF Typed, Given
    <3>9. Queued(s)'
      <4> SUFFICES ASSUME NEW i \in 1 .. Len(r)
                   PROVE  /\ r[i][2] <= told'[r[i][1]] /\ seen[s][r[i][1]] <= r[i][2]
                          /\ hand[s] # NoEvent => Later(hand[s], r[i])
                          /\ \A j \in 1 .. Len(r) : i < j => Later(r[i], r[j])
        BY <2>1 DEF Queued, r, Later
      <4>1. CASE i = Len(r)
        <5>1. r[i] = e BY <3>3, <4>1
        <5>2. ~ \E j \in 1 .. Len(r) : i < j BY <3>3, <4>1
        <5> QED BY <1>2, <1>3, <3>4, <3>5, <3>7, <3>8, <5>1, <5>2, EventAssumption DEF Final
      <4>2. CASE i # Len(r)
        <5>1. i \in 1 .. Len(r) - 1 /\ i + d \in 1 .. Len(q) /\ r[i] = q[i + d] /\ r[i] \in Events
          BY <3>2, <3>3, <4>2
        <5>2. /\ r[i][2] <= told[r[i][1]] /\ seen[s][r[i][1]] <= r[i][2]
              /\ hand[s] # NoEvent => Later(hand[s], r[i])
          BY <5>1 DEF Queued
        <5>3. ASSUME NEW j \in 1 .. Len(r), i < j PROVE Later(r[i], r[j])
          <6>1. CASE j = Len(r) BY <3>3, <3>7, <5>1, <5>2, <6>1
          <6>2. CASE j # Len(r)
            <7>1. j + d \in 1 .. Len(q) /\ i + d < j + d /\ r[j] = q[j + d]
              BY <3>2, <3>3, <5>3, <6>2
            <7> QED BY <5>1, <7>1 DEF Queued
          <6> QED BY <6>1, <6>2
        <5> QED BY <3>7, <5>1, <5>2, <5>3
      <4> QED BY <4>1, <4>2
    <3>10. Due(s)'
      <4>1. CASE d = 1 BY <2>1, <3>1, <4>1 DEF Due
      <4>2. CASE d = 0
        <5>1. /\ due'[s] = due[s] /\ Len(r) = Len(q) + 1
              /\ \A i \in 1 .. Len(q) : i \in 1 .. Len(r) /\ r[i] = q[i]
          BY <2>1, <2>2, <3>1, <4>2
        <5>2. due[s] # NoEvent => at'[s] = at[s] BY <2>1 DEF Due
        <5> QED BY <2>1, <5>1, <5>2 DEF Due, r
      <4> QED BY <4>1, <4>2
    <3> QED BY <2>6, <2>7, <2>8, <2>9, <2>10, <2>11, <3>9, <3>10
  <2> QED BY <2>12, <2>13
<1> QED BY <1>4, <1>5, <1>6

-----------------------------------------------------------------------------
\* The invariant holds initially, and after every step.
LEMMA InitHolds == EventsInit => EInv
<1> SUFFICES ASSUME EventsInit PROVE EInv OBVIOUS
<1> USE EventAssumption DEF EventsInit
<1>1. TasksOK BY DEF TasksOK, Published, Final
<1>2. Tables BY DEF Tables, OfStreams
<1>3. ASSUME NEW s \in Streams PROVE StreamOK(s)
  <2> USE EmptySeq DEF Follows
  <2>1. Typed(s) /\ Staged(s) BY DEF Typed, Staged, Stands, Unseen, Final
  <2>2. Snapshots(s) /\ Known(s) BY DEF Snapshots, Known, Unseen
  <2>3. Queued(s) /\ Given(s) BY DEF Queued, Given
  <2>4. Newest(s) /\ Due(s) BY DEF Newest, Due
  <2> QED BY <2>1, <2>2, <2>3, <2>4 DEF StreamOK
<1> QED BY <1>1, <1>2, <1>3 DEF EInv

LEMMA StepHolds == EInv /\ [EventsNext]_eventVars => EInv'
<1> SUFFICES ASSUME EInv, [EventsNext]_eventVars PROVE EInv' OBVIOUS
<1>1. ASSUME NEW t \in Launched, Runs(t) PROVE EInv' BY <1>1, QuietHolds, PublishHolds DEF Runs
<1>2. ASSUME NEW s \in Streams, Opens(s) \/ Serves(s) \/ Cancelled(s) PROVE EInv'
  BY <1>2, ServesHolds, TakesHolds, SendsHolds, EndsHolds DEF Serves
<1>3. CASE UNCHANGED eventVars
  <2> USE <1>3 DEF eventVars, task, stream, EInv
  <2>1. TasksOK' BY DEF TasksOK, Published
  <2>2. Tables' BY DEF Tables, OfStreams
  <2>3. ASSUME NEW s \in Streams PROVE StreamOK(s)'
    BY DEF StreamOK, Typed, Staged, Snapshots, Known, Queued, Given, Newest, Due, Follows
  <2> QED BY <2>1, <2>2, <2>3
<1> QED BY <1>1, <1>2, <1>3, LeavingHolds DEF EventsNext

LEMMA EventsInvariant == EventsSpec => []EInv
BY InitHolds, StepHolds, PTL DEF EventsSpec

\* However slow a client and however late it comes, the newest event of the
\* session is the last it still has to get (EventHub.publish), and one whose
\* stream ends with the server got what was queued before that, unless newer
\* events pushed it out (get_until_leaving).
THEOREM NothingNewMissed == EventsSpec => []NothingNewIsMissed
<1>1. EInv => NothingNewIsMissed
  <2> SUFFICES ASSUME EInv PROVE NothingNewIsMissed OBVIOUS
  <2> USE DEF EInv, StreamOK
  <2>1. EventsTypeOK
    BY DEF EventsTypeOK, TasksOK, Tables, OfStreams, Typed, Staged, Follows
  <2>2. NewestIsKept BY DEF NewestIsKept, Newest, Staged, Tables
  <2>3. DrainsBeforeLeaving
    <3> SUFFICES ASSUME NEW s \in Streams, at[s] = "done", due[s] # NoEvent
                 PROVE  seen[s][due[s][1]] >= due[s][2]
      BY DEF DrainsBeforeLeaving
    <3>1. queue[s] = <<>> /\ hand[s] = NoEvent BY DEF Staged, Follows
    <3> QED BY <3>1, EmptySeq DEF Due
  <2> QED BY <2>1, <2>2, <2>3 DEF NothingNewIsMissed
<1> QED BY <1>1, EventsInvariant, PTL

\* No step takes what a client has of a task back.
LEMMA SeenGrows ==
  ASSUME EInv, [EventsNext]_eventVars, NEW s \in Streams, NEW t \in Launched, at'[s] # "cancelled"
  PROVE  seen'[s][t] >= seen[s][t]
<1>1. StreamOK(s) /\ seen[s] \in [Launched -> -1 .. Final] BY DEF EInv, StreamOK, Typed
<1>2. seen[s][t] >= seen[s][t] BY <1>1, EventAssumption DEF Final
<1>3. CASE Replays(s)
  <2>1. PICK e \in todo[s] : Writes(s, e) BY <1>3 DEF Replays
  <2>2. e[1] \in Launched /\ e[2] \in 0 .. Final /\ seen[s][e[1]] = -1
    BY <1>1, <1>3 DEF StreamOK, Snapshots, Replays, Events
  <2>3. seen'[s] = [seen[s] EXCEPT ![e[1]] = e[2]] BY <2>1 DEF Writes, EInv, Tables, OfStreams
  <2> QED BY <1>1, <1>2, <2>2, <2>3
<1>4. CASE Sends(s)
  <2>1. seen'[s] = [seen[s] EXCEPT ![hand[s][1]] = hand[s][2]]
    BY <1>4 DEF Sends, Writes, EInv, Tables, OfStreams
  <2>2. hand[s] \in Events /\ seen[s][hand[s][1]] <= hand[s][2]
    BY <1>1, <1>4 DEF StreamOK, Staged, Typed, Given, Sends
  <2> QED BY <1>1, <1>2, <2>1, <2>2, EventAssumption DEF Events, Final
<1>5. CASE ~Replays(s) /\ ~Sends(s)
  <2> USE DEF EInv, Tables, OfStreams
  <2>1. ASSUME NEW u \in Launched, Runs(u) PROVE seen' = seen
    BY <2>1 DEF Runs, Started, WritesProgress, PublishesProgress, Settles, PublishesSettled,
        Publish,
       Quiet, stream
  <2>2. ASSUME NEW u \in Streams, Opens(u) \/ Serves(u) \/ Cancelled(u) PROVE seen'[s] = seen[s]
    <3>1. CASE Replays(u) \/ Sends(u) BY <1>5, <3>1 DEF Replays, Sends, Writes
    <3>2. CASE ReturnsNone(u) \/ Cancelled(u)
      BY <3>2 DEF ReturnsNone, Cancelled, Unsubscribes, Goes
    <3>3. CASE Opens(u) \/ Lists(u) \/ Reads(u) \/ Subscribes(u) \/ Takes(u) \/ Parks(u)
      BY <3>3 DEF Opens, Lists, Reads, Subscribes, Takes, Parks
    <3> QED BY <2>2, <3>1, <3>2, <3>3 DEF Serves
  <2>3. CASE StartsLeaving \/ UNCHANGED eventVars
    BY <1>2, <2>3 DEF StartsLeaving, eventVars, stream
  <2> QED BY <1>2, <2>1, <2>2, <2>3 DEF EventsNext
<1> QED BY <1>3, <1>4, <1>5

\* No stream takes a task back to an earlier state (_replay, _event_source).
THEOREM NoneGoesBack == EventsSpec => NeverBackwards
<1>1. EInv /\ [EventsNext]_eventVars =>
        [\A s \in Streams, t \in Launched :
           at'[s] # "cancelled" => seen'[s][t] >= seen[s][t]]_eventVars
  BY SeenGrows
<1> QED BY <1>1, EventsInvariant, PTL DEF EventsSpec, NeverBackwards
=============================================================================
