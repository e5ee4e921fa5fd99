--------------------------- MODULE Server_proofs ---------------------------
(***************************************************************************)
(* A server while it runs, and below, the command that starts and stops it.*)
(*                                                                         *)
(* Of ServerLifecycle, for any finite set of calls, any size of the pool,  *)
(* any set of databases and any number of cancellations: the safety of its *)
(* calls and of its shutdown.                                              *)
(***************************************************************************)
EXTENDS ServerLifecycle, SiteCommands, FiniteSetTheorems, TLAPS

Works == Calls \X Jobs

\* The body of a call is in the pool only while the call awaits it ...
BodyIsAwaited ==
  \A c \in Calls : work[<<c, "body">>] # "none" => pc[c] = "pooled"

\* ... and its release only once the body is over.
ReleaseIsAwaited ==
  \A c \in Calls : work[<<c, "release">>] # "none" => pc[c] = "releasing"

\* A release that is done has released.
DoneIsReleased ==
  \A c \in Calls : work[<<c, "release">>] = "done" => ~taken[c]

\* The state turned before the drain began.
LeavesBeforeDrain ==
  life \in {"draining", "stopping", "closing"} => leaving

\* Past the drain, only batches and what it gave up on are registered.
Quiet ==
  \A c \in Calls :
    Registered(c) /\ Origin[c] # "task" =>
      life \in {"serving", "draining"} \/ c \in overdue

\* Handlers are open from the hooks of the startup to those of the shutdown.
OpenInside ==
  life \in {"hooks", "serving", "draining", "stopping"} => open = Databases

IInv ==
  /\ TypeOK
  /\ BodyIsAwaited
  /\ ReleaseIsAwaited
  /\ DoneIsReleased
  /\ HeldOnlyWhenCut
  /\ LeavesBeforeDrain
  /\ Quiet
  /\ OpenInside

-----------------------------------------------------------------------------
(* The types. *)

LEMMA WorkKeys ==
  ASSUME NEW c \in Calls
  PROVE  /\ <<c, "body">> \in Works
         /\ <<c, "inner">> \in Works
         /\ <<c, "release">> \in Works
BY DEF Works, Jobs

\* Work that is queued leaves a queue of works.
LEMMA Queues ==
  ASSUME TypeOK, NEW w \in Works
  PROVE  Append(queue, w) \in Seq(Works)
<1>1. queue \in Seq(Works)
  BY DEF TypeOK, Works
<1> HIDE DEF Works
<1> QED
  BY <1>1

\* A cancellation that is allowed is counted within the bound.
LEMMA Counts ==
  ASSUME TypeOK, NEW c \in Calls, MayCancel(c)
  PROVE  [cancels EXCEPT ![c] = @ + 1] \in [Calls -> 0 .. MaxCancels]
<1>1. cancels[c] \in 0 .. MaxCancels /\ cancels[c] < MaxCancels
  BY DEF TypeOK, MayCancel
<1>2. cancels[c] + 1 \in 0 .. MaxCancels
  BY <1>1, BoundAssumption
<1> QED
  BY <1>2 DEF TypeOK

LEMMA FiniteWorks == IsFiniteSet(Works)
<1>1. IsFiniteSet(Jobs)
  <2>1. IsFiniteSet({"body"})
    BY FS_Singleton
  <2>2. IsFiniteSet({"body"} \cup {"inner"})
    BY <2>1, FS_AddElement
  <2>3. IsFiniteSet(({"body"} \cup {"inner"}) \cup {"release"})
    BY <2>2, FS_AddElement
  <2>4. Jobs = ({"body"} \cup {"inner"}) \cup {"release"}
    BY DEF Jobs
  <2> QED
    BY <2>3, <2>4
<1> QED
  BY <1>1, FinitelyManyCalls, FS_Product DEF Works

\* Fewer busy works than before keep within the threads.
LEMMA BusyShrinks ==
  ASSUME TypeOK, Busy' \subseteq Busy
  PROVE  Cardinality(Busy') <= Threads
<1>1. IsFiniteSet(Busy)
  BY FiniteWorks, FS_Subset DEF Busy, Works
<1>2. Cardinality(Busy') <= Cardinality(Busy) /\ IsFiniteSet(Busy')
  BY <1>1, FS_Subset
<1>3. Cardinality(Busy) \in Nat /\ Cardinality(Busy') \in Nat
  BY <1>1, <1>2, FS_CardinalityType
<1> QED
  BY <1>2, <1>3, BoundAssumption DEF TypeOK

\* One more is within them when there was room.
LEMMA BusyGrows ==
  ASSUME TypeOK, NEW w \in Works, Busy' \subseteq Busy \cup {w}, Cardinality(Busy) < Threads
  PROVE  Cardinality(Busy') <= Threads
<1>1. IsFiniteSet(Busy)
  BY FiniteWorks, FS_Subset DEF Busy, Works
<1>2. IsFiniteSet(Busy \cup {w}) /\ Cardinality(Busy \cup {w}) <= Cardinality(Busy) + 1
  <2>1. IsFiniteSet(Busy \cup {w}) /\ (Cardinality(Busy \cup {w}) = Cardinality(Busy) \/ Cardinality(Busy \cup {w}) = Cardinality(Busy) + 1)
    BY <1>1, FS_AddElement
  <2>2. Cardinality(Busy) \in Nat
    BY <1>1, FS_CardinalityType
  <2> QED
    BY <2>1, <2>2
<1>3. Cardinality(Busy') <= Cardinality(Busy \cup {w}) /\ IsFiniteSet(Busy')
  BY <1>2, FS_Subset
<1>4. Cardinality(Busy) \in Nat /\ Cardinality(Busy') \in Nat /\ Cardinality(Busy \cup {w}) \in Nat
  BY <1>1, <1>2, <1>3, FS_CardinalityType
<1> QED
  BY <1>2, <1>3, <1>4, BoundAssumption


\* The end of a call is well typed and makes no thread busy.
LEMMA EndsCallTypes ==
  ASSUME TypeOK, NEW c \in Calls, NEW base \in [Works -> Status],
         \A w \in Works : base[w] \in {"running", "parked"} => w \in Busy,
         EndsCall(c, base)
  PROVE  /\ pc' \in [Calls -> InFlight \cup {"new", "refused", "gone"}]
         /\ work' \in [Works -> Status]
         /\ queue' \in Seq(Works)
         /\ Busy' \subseteq Busy
<1> DEFINE r == <<c, "release">>
<1>1. r \in Works
  BY WorkKeys
<1>2. pc' \in [Calls -> InFlight \cup {"new", "refused", "gone"}]
  BY DEF TypeOK, EndsCall, InFlight
<1>3. work' \in [Works -> Status]
  BY <1>1 DEF EndsCall, Status
<1>4. queue' \in Seq(Works)
  <2>1. queue \in Seq(Works)
    BY DEF TypeOK, Works
  <2> QED
    BY <1>1, <2>1, Queues DEF EndsCall
<1>5. \A w \in Works : work'[w] \in {"running", "parked"} => base[w] \in {"running", "parked"}
  BY <1>1 DEF EndsCall, Status
<1>6. Busy' \subseteq Busy
  BY <1>5 DEF Busy, Works
<1> QED
  BY <1>2, <1>3, <1>4, <1>6

LEMMA TypeInit == Init => TypeOK
<1> SUFFICES ASSUME Init PROVE TypeOK
  OBVIOUS
<1>1. Busy = {}
  BY DEF Init, Busy
<1>2. Cardinality(Busy) = 0
  BY <1>1, FS_EmptySet
<1>3. queue \in Seq(Calls \X Jobs)
  BY DEF Init
<1>4. work \in [Calls \X Jobs -> Status]
  BY DEF Init, Status
<1>5. Cardinality(Busy) <= Threads
  BY <1>2, BoundAssumption
<1>6. cancels \in [Calls -> 0 .. MaxCancels]
  BY BoundAssumption DEF Init
<1> QED
  BY <1>3, <1>4, <1>5, <1>6 DEF Init, TypeOK, Lives

LEMMA TypeLifecycle ==
  ASSUME TypeOK, Lifecycle
  PROVE  TypeOK'
<1>1. Busy' = Busy /\ UNCHANGED callVars
  BY DEF Lifecycle, Opens, Closes, RunsHooks, FatalBoot, Started, Signal, StartsLeaving, Drained,
         DrainTimesOut, ShutdownHooksRun, TearsDown, TornDown, TasksStop, callVars, Busy
<1>2. Cardinality(Busy') <= Threads
  BY <1>1 DEF TypeOK
<1>3. /\ life' \in Lives /\ leaving' \in BOOLEAN /\ polling' \in BOOLEAN
      /\ open' \subseteq Databases /\ overdue' \subseteq Calls
  BY DEF TypeOK, Lives, Lifecycle, Opens, Closes, RunsHooks, FatalBoot, Started, Signal, StartsLeaving,
         Drained, DrainTimesOut, ShutdownHooksRun, TearsDown, TornDown, TasksStop
<1> QED
  BY <1>1, <1>2, <1>3 DEF TypeOK, callVars

LEMMA TypeCall ==
  ASSUME TypeOK, NEW c \in Calls, LoopSteps(c) \/ ThreadSteps(c)
  PROVE  TypeOK'
<1> USE WorkKeys DEF Works
<1> DEFINE Shape == /\ pc' \in [Calls -> InFlight \cup {"new", "refused", "gone"}]
                    /\ work' \in [Works -> Status]
                    /\ queue' \in Seq(Works)
                    /\ Busy' \subseteq Busy
<1>0. SUFFICES /\ UNCHANGED <<lifeVars, overdue>>
               /\ taken' \in [Calls -> BOOLEAN] /\ cancelled' \in [Calls -> BOOLEAN]
               /\ cancels' \in [Calls -> 0 .. MaxCancels] /\ cut' \in [Calls -> BOOLEAN]
               /\ Shape
  BY BusyShrinks DEF TypeOK, lifeVars
<1>1. CASE Arrives(c)
  <2>1. CASE c \in Synchronous
    <3>1. work' = [work EXCEPT ![<<c, "body">>] = "queued"]
          /\ queue' = Append(queue, <<c, "body">>) /\ pc' = [pc EXCEPT ![c] = "pooled"]
      BY <1>1, <2>1 DEF Arrives
    <3>2. work' \in [Works -> Status] /\ Busy' \subseteq Busy
      BY <3>1 DEF TypeOK, Busy, Status
    <3>3. queue' \in Seq(Works)
      BY <3>1, Queues
    <3> QED
      BY <1>1, <3>1, <3>2, <3>3 DEF Arrives, TypeOK, InFlight
  <2>2. CASE c \notin Synchronous
    BY <1>1, <2>2 DEF TypeOK, Arrives, Busy, InFlight
  <2> QED
    BY <2>1, <2>2
<1>2. CASE Refused(c)
  BY <1>2 DEF TypeOK, Refused, Busy
<1>3. CASE Takes(c)
  BY <1>3 DEF TypeOK, Takes, Busy
<1>4. CASE Asks(c)
  BY <1>4, Queues DEF TypeOK, Asks, Busy, Status, InFlight
<1>5. CASE Returns(c)
  BY <1>5, EndsCallTypes DEF TypeOK, Returns, Busy
<1>6. CASE Wakes(c)
  <2> DEFINE idle == [work EXCEPT ![<<c, "body">>] = "none", ![<<c, "inner">>] = "none"]
  <2>1. idle \in [Works -> Status] /\ \A w \in Works : idle[w] \in {"running", "parked"} => w \in Busy
    BY DEF TypeOK, Status, Busy
  <2>2. CASE c \in Synchronous \/ cancelled[c]
    <3>1. EndsCall(c, idle)
      BY <1>6, <2>2 DEF Wakes
    <3>2. /\ pc' \in [Calls -> InFlight \cup {"new", "refused", "gone"}]
          /\ work' \in [Works -> Status]
          /\ queue' \in Seq(Works)
          /\ Busy' \subseteq Busy
      <4> HIDE DEF idle, Works
      <4> QED
        BY <3>1, <2>1, EndsCallTypes
    <3> QED
      BY <1>6, <3>2 DEF Wakes, TypeOK
  <2>3. CASE ~(c \in Synchronous \/ cancelled[c])
    BY <1>6, <2>1, <2>3 DEF Wakes, TypeOK, InFlight, Busy
  <2> QED
    BY <2>2, <2>3
<1>7. CASE Unregisters(c)
  BY <1>7 DEF TypeOK, Unregisters, Busy, Status
<1>8. CASE CoroutineAsks(c)
  BY <1>8, Queues DEF TypeOK, CoroutineAsks, Busy, Status
<1>9. CASE HandsBack(c)
  BY <1>9 DEF TypeOK, HandsBack, Busy, Status
<1>10. CASE CancelHandler(c)
  <2>1. work \in [Works -> Status] /\ \A w \in Works : work[w] \in {"running", "parked"} => w \in Busy
    BY DEF TypeOK, Busy
  <2>2. /\ pc' \in [Calls -> InFlight \cup {"new", "refused", "gone"}]
        /\ work' \in [Works -> Status]
        /\ queue' \in Seq(Works)
        /\ Busy' \subseteq Busy
    BY <1>10, <2>1, EndsCallTypes DEF CancelHandler
  <2> QED
    BY <1>10, <2>2, Counts DEF CancelHandler, TypeOK
<1>11. CASE CancelQueued(c)
  <2>1. /\ [work EXCEPT ![<<c, "body">>] = "none"] \in [Works -> Status]
        /\ \A w \in Works : [work EXCEPT ![<<c, "body">>] = "none"][w] \in {"running", "parked"} => w \in Busy
    BY DEF TypeOK, Status, Busy
  <2> QED
    <3> DEFINE idle == [work EXCEPT ![<<c, "body">>] = "none"]
    <3>1. EndsCall(c, idle)
      BY <1>11 DEF CancelQueued
    <3>2. /\ pc' \in [Calls -> InFlight \cup {"new", "refused", "gone"}]
          /\ work' \in [Works -> Status]
          /\ queue' \in Seq(Works)
          /\ Busy' \subseteq Busy
      <4> HIDE DEF idle, Works
      <4> QED
        BY <3>1, <2>1, EndsCallTypes DEF idle
    <3> QED
      BY <1>11, <3>2, Counts DEF CancelQueued, TypeOK
<1>12. CASE CancelRunning(c)
  BY <1>12, Counts DEF TypeOK, CancelRunning, Busy
<1>13. CASE CancelRelease(c)
  <2>1. work' \in [Works -> Status] /\ Busy' \subseteq Busy
    BY <1>13 DEF TypeOK, CancelRelease, Busy, Status
  <2> QED
    BY <1>13, <2>1, Counts DEF CancelRelease, TypeOK, InFlight
<1>14. CASE ThreadSteps(c)
  BY <1>14 DEF TypeOK, ThreadSteps, BodyTakes, BodyParks, BodyEnds, InnerEnds, Releases, Busy, Status
<1> QED
  BY <1>1, <1>2, <1>3, <1>4, <1>5, <1>6, <1>7, <1>8, <1>9, <1>10, <1>11, <1>12, <1>13, <1>14 DEF LoopSteps

LEMMA TypeThread ==
  ASSUME TypeOK, ThreadTakes
  PROVE  TypeOK'
<1> DEFINE w == Head(queue)
<1>1. w \in Works /\ queue' \in Seq(Works)
  BY DEF TypeOK, ThreadTakes, Works
<1>2. work' \in [Works -> Status]
  BY <1>1 DEF TypeOK, ThreadTakes, Works, Status
<1>3. Busy' \subseteq Busy \cup {w}
  BY <1>1 DEF TypeOK, ThreadTakes, Works, Busy
<1>4. Cardinality(Busy') <= Threads
  BY <1>1, <1>3, BusyGrows DEF ThreadTakes
<1> QED
  BY <1>1, <1>2, <1>4 DEF TypeOK, ThreadTakes, Works, lifeVars

LEMMA TypeStep == TypeOK /\ [Next]_vars => TypeOK'
<1> SUFFICES ASSUME TypeOK, [Next]_vars PROVE TypeOK'
  OBVIOUS
<1>1. CASE Lifecycle
  BY <1>1, TypeLifecycle
<1>2. ASSUME NEW c \in Calls, LoopSteps(c) \/ ThreadSteps(c) PROVE TypeOK'
  BY <1>2, TypeCall
<1>3. CASE ThreadTakes
  BY <1>3, TypeThread
<1>4. CASE UNCHANGED vars
  BY <1>4 DEF TypeOK, vars, Busy
<1> QED
  BY <1>1, <1>2, <1>3, <1>4 DEF Next

-----------------------------------------------------------------------------
(* What the pool does for a call. *)

\* The conjuncts about one call.
CallInv(c) ==
  /\ work[<<c, "body">>] # "none" => pc[c] = "pooled"
  /\ work[<<c, "release">>] # "none" => pc[c] = "releasing"
  /\ work[<<c, "release">>] = "done" => ~taken[c]
  /\ pc[c] = "gone" /\ taken[c] => cut[c]

LEMMA CallInvIs ==
  (BodyIsAwaited /\ ReleaseIsAwaited /\ DoneIsReleased /\ HeldOnlyWhenCut)
    <=> \A c \in Calls : CallInv(c)
BY DEF BodyIsAwaited, ReleaseIsAwaited, DoneIsReleased, HeldOnlyWhenCut, CallInv

LEMMA Keys ==
  ASSUME NEW c, NEW d, NEW j, NEW k
  PROVE  <<c, j>> = <<d, k>> <=> c = d /\ j = k
OBVIOUS

\* A step of one call leaves the others alone.
LEMMA OthersUntouched ==
  ASSUME TypeOK, NEW c \in Calls, NEW d \in Calls, c # d,
         LoopSteps(c) \/ ThreadSteps(c)
  PROVE  /\ pc'[d] = pc[d] /\ taken'[d] = taken[d] /\ cut'[d] = cut[d]
         /\ work'[<<d, "body">>] = work[<<d, "body">>]
         /\ work'[<<d, "release">>] = work[<<d, "release">>]
<1> USE WorkKeys, Keys DEF Works
<1>1. pc'[d] = pc[d] /\ taken'[d] = taken[d] /\ cut'[d] = cut[d]
  BY DEF TypeOK, LoopSteps, ThreadSteps, Arrives, Refused, Takes, Asks, Returns, Wakes, Unregisters,
     CoroutineAsks, HandsBack, CancelHandler, CancelQueued, CancelRunning, CancelRelease, EndsCall,
     BodyTakes, BodyParks, BodyEnds, InnerEnds, Releases
<1>2. work'[<<d, "body">>] = work[<<d, "body">>] /\ work'[<<d, "release">>] = work[<<d, "release">>]
  BY DEF TypeOK, LoopSteps, ThreadSteps, Arrives, Refused, Takes, Asks, Returns, Wakes, Unregisters,
     CoroutineAsks, HandsBack, CancelHandler, CancelQueued, CancelRunning, CancelRelease, EndsCall,
     BodyTakes, BodyParks, BodyEnds, InnerEnds, Releases
<1> QED
  BY <1>1, <1>2

\* The end of a call keeps its part of the invariant.
LEMMA EndsCallInv ==
  ASSUME TypeOK, NEW c \in Calls, CallInv(c), pc[c] # "releasing", NEW base \in [Works -> Status],
         base[<<c, "body">>] = "none", base[<<c, "release">>] = work[<<c, "release">>],
         EndsCall(c, base), UNCHANGED <<taken, cut>>
  PROVE  CallInv(c)'
<1> USE WorkKeys, Keys DEF Works
<1>1. base[<<c, "release">>] = "none"
  BY DEF CallInv
<1>2. CASE taken[c]
  BY <1>1, <1>2 DEF CallInv, EndsCall, TypeOK
<1>3. CASE ~taken[c]
  BY <1>1, <1>3 DEF CallInv, EndsCall, TypeOK
<1> QED
  BY <1>2, <1>3

LEMMA CallStep ==
  ASSUME TypeOK, NEW c \in Calls, CallInv(c), LoopSteps(c) \/ ThreadSteps(c)
  PROVE  CallInv(c)'
<1> USE WorkKeys, Keys DEF Works
<1>1. CASE Arrives(c)
  <2>1. /\ pc[c] = "new" /\ pc'[c] \in {"pooled", "handler"}
        /\ pc'[c] # "pooled" => UNCHANGED work
        /\ UNCHANGED <<taken, cut>>
    BY <1>1 DEF TypeOK, Arrives, Offered
  <2>2. /\ work'[<<c, "body">>] # "none" => pc'[c] = "pooled" \/ work[<<c, "body">>] # "none"
        /\ work'[<<c, "release">>] = work[<<c, "release">>]
    BY <1>1, <2>1 DEF TypeOK, Arrives
  <2> QED
    BY <2>1, <2>2 DEF CallInv
<1>2. CASE Refused(c) \/ Takes(c) \/ Asks(c)
  <2>1. CASE Refused(c) \/ Takes(c)
    BY <2>1 DEF TypeOK, CallInv, Refused, Offered, Takes
  <2>2. CASE Asks(c)
    BY <2>2 DEF TypeOK, CallInv, Asks
  <2> QED
    BY <1>2, <2>1, <2>2
<1>3. CASE Returns(c)
  <2>1. pc[c] = "handler" /\ EndsCall(c, work) /\ UNCHANGED <<taken, cut>>
    BY <1>3 DEF Returns
  <2> QED
    BY <2>1, EndsCallInv DEF TypeOK, CallInv
<1>4. CASE Wakes(c)
  <2> DEFINE idle == [work EXCEPT ![<<c, "body">>] = "none", ![<<c, "inner">>] = "none"]
  <2>1. /\ idle \in [Works -> Status] /\ idle[<<c, "body">>] = "none"
        /\ idle[<<c, "release">>] = work[<<c, "release">>]
    BY DEF TypeOK, Status
  <2>2. CASE c \in Synchronous \/ cancelled[c]
    <3>1. EndsCall(c, idle) /\ pc[c] = "pooled" /\ UNCHANGED <<taken, cut>>
      BY <1>4, <2>2 DEF Wakes
    <3> HIDE DEF idle, Works
    <3> QED
      BY <3>1, <2>1, EndsCallInv
  <2>3. CASE ~(c \in Synchronous \/ cancelled[c])
    BY <1>4, <2>1, <2>3 DEF Wakes, TypeOK, CallInv
  <2> QED
    BY <2>2, <2>3
<1>5. CASE Unregisters(c)
  BY <1>5 DEF TypeOK, CallInv, Unregisters
<1>6. CASE CoroutineAsks(c) \/ HandsBack(c)
  BY <1>6 DEF TypeOK, CallInv, CoroutineAsks, HandsBack
<1>7. CASE CancelHandler(c)
  <2>1. pc[c] = "handler" /\ EndsCall(c, work) /\ UNCHANGED <<taken, cut>>
    BY <1>7 DEF CancelHandler
  <2> QED
    BY <2>1, EndsCallInv DEF TypeOK, CallInv
<1>8. CASE CancelQueued(c)
  <2> DEFINE idle == [work EXCEPT ![<<c, "body">>] = "none"]
  <2>1. /\ idle \in [Works -> Status] /\ idle[<<c, "body">>] = "none"
        /\ idle[<<c, "release">>] = work[<<c, "release">>]
    BY DEF TypeOK, Status
  <2>2. EndsCall(c, idle) /\ pc[c] = "pooled" /\ UNCHANGED <<taken, cut>>
    BY <1>8 DEF CancelQueued
  <2> HIDE DEF idle, Works
  <2> QED
    BY <2>1, <2>2, EndsCallInv
<1>9. CASE CancelRunning(c) \/ CancelRelease(c)
  BY <1>9 DEF TypeOK, CallInv, CancelRunning, CancelRelease
<1>10. CASE BodyTakes(c) \/ BodyParks(c) \/ BodyEnds(c)
  BY <1>10 DEF TypeOK, CallInv, BodyTakes, BodyParks, BodyEnds
<1>11. CASE InnerEnds(c) \/ Releases(c)
  BY <1>11 DEF TypeOK, CallInv, InnerEnds, Releases
<1> QED
  BY <1>1, <1>2, <1>3, <1>4, <1>5, <1>6, <1>7, <1>8, <1>9, <1>10, <1>11 DEF LoopSteps, ThreadSteps

LEMMA PoolStep ==
  ASSUME TypeOK, \A c \in Calls : CallInv(c), [Next]_vars
  PROVE  \A c \in Calls : CallInv(c)'
<1>1. CASE Lifecycle \/ UNCHANGED vars
  <2>1. UNCHANGED callVars
    BY <1>1 DEF Lifecycle, Opens, Closes, RunsHooks, FatalBoot, Started, Signal, StartsLeaving, Drained,
         DrainTimesOut, ShutdownHooksRun, TearsDown, TornDown, TasksStop, callVars, vars
  <2> QED
    BY <2>1 DEF callVars, CallInv
<1>2. ASSUME NEW c \in Calls, LoopSteps(c) \/ ThreadSteps(c), NEW d \in Calls PROVE CallInv(d)'
  <2>1. CASE c = d
    BY <1>2, <2>1, CallStep
  <2>2. CASE c # d
    BY <1>2, <2>2, OthersUntouched DEF CallInv
  <2> QED
    BY <2>1, <2>2
<1>3. ASSUME ThreadTakes, NEW d \in Calls PROVE CallInv(d)'
  <2>1. Head(queue) \in Works
    BY <1>3 DEF TypeOK, ThreadTakes, Works
  <2>2. UNCHANGED <<pc, taken, cut>>
    BY <1>3 DEF ThreadTakes
  <2>3. \A w \in Works : work'[w] = work[w] \/ (work[w] = "queued" /\ work'[w] = "running")
    BY <1>3, <2>1 DEF TypeOK, ThreadTakes, Works
  <2>4. \/ work'[<<d, "body">>] = work[<<d, "body">>]
        \/ work[<<d, "body">>] = "queued" /\ work'[<<d, "body">>] = "running"
    <3>1. <<d, "body">> \in Works
      BY <1>3, WorkKeys
    <3> HIDE DEF Works
    <3> QED
      BY <2>3, <3>1
  <2>6. \/ work'[<<d, "release">>] = work[<<d, "release">>]
        \/ work[<<d, "release">>] = "queued" /\ work'[<<d, "release">>] = "running"
    <3>1. <<d, "release">> \in Works
      BY <1>3, WorkKeys
    <3> HIDE DEF Works
    <3> QED
      BY <2>3, <3>1
  <2>5. CallInv(d)
    BY <1>3
  <2> QED
    BY <2>2, <2>4, <2>5, <2>6 DEF CallInv
<1> QED
  BY <1>1, <1>2, <1>3 DEF Next

-----------------------------------------------------------------------------
(* The order of the shutdown. *)

\* What a step of a call may do to the registry.
LEMMA Registers ==
  ASSUME TypeOK, NEW c \in Calls, NEW d \in Calls, LoopSteps(c) \/ ThreadSteps(c),
         Registered(d)'
  PROVE  Registered(d) \/ (d = c /\ Arrives(c))
<1>1. CASE d # c
  BY <1>1, OthersUntouched DEF Registered
<1>2. CASE d = c
  BY <1>2 DEF TypeOK, Registered, InFlight, LoopSteps, ThreadSteps, Refused, Takes, Asks, Returns, Wakes, Unregisters,
     CoroutineAsks, HandsBack, CancelHandler, CancelQueued, CancelRunning, CancelRelease, EndsCall,
     BodyTakes, BodyParks, BodyEnds, InnerEnds, Releases
<1> QED
  BY <1>1, <1>2

LEMMA CallsKeepLife ==
  ASSUME NEW c \in Calls, LoopSteps(c) \/ ThreadSteps(c)
  PROVE  UNCHANGED <<life, leaving, polling, open, overdue>>
BY DEF lifeVars, LoopSteps, ThreadSteps, Arrives, Refused, Takes, Asks, Returns, Wakes, Unregisters,
   CoroutineAsks, HandsBack, CancelHandler, CancelQueued, CancelRunning, CancelRelease,
   BodyTakes, BodyParks, BodyEnds, InnerEnds, Releases

LEMMA OrderStep ==
  ASSUME TypeOK, LeavesBeforeDrain, OpenInside, [Next]_vars
  PROVE  LeavesBeforeDrain' /\ OpenInside'
<1>1. CASE Lifecycle
  BY <1>1 DEF LeavesBeforeDrain, OpenInside, Lifecycle, Opens, Closes, RunsHooks, FatalBoot, Started,
     Signal, StartsLeaving, Drained, DrainTimesOut, ShutdownHooksRun, TearsDown, TornDown, TasksStop
<1>2. CASE \E c \in Calls : LoopSteps(c) \/ ThreadSteps(c)
  BY <1>2, CallsKeepLife DEF LeavesBeforeDrain, OpenInside
<1>3. CASE ThreadTakes \/ UNCHANGED vars
  BY <1>3 DEF LeavesBeforeDrain, OpenInside, ThreadTakes, lifeVars, vars
<1> QED
  BY <1>1, <1>2, <1>3 DEF Next

LEMMA QuietStep ==
  ASSUME TypeOK, LeavesBeforeDrain, Quiet, [Next]_vars
  PROVE  Quiet'
<1>1. CASE Lifecycle
  <2>1. UNCHANGED pc
    BY <1>1 DEF Lifecycle, Opens, Closes, RunsHooks, FatalBoot, Started, Signal, StartsLeaving, Drained,
         DrainTimesOut, ShutdownHooksRun, TearsDown, TornDown, TasksStop, callVars
  <2>2. CASE Drained
    BY <2>1, <2>2 DEF Drained, Quiet, Registered
  <2>3. CASE DrainTimesOut
    BY <2>1, <2>3 DEF DrainTimesOut, Quiet, Registered
  <2>4. CASE ~Drained /\ ~DrainTimesOut
    BY <1>1, <2>1, <2>4 DEF Quiet, Registered, Lifecycle, Opens, Closes, RunsHooks, FatalBoot, Started,
       Signal, StartsLeaving, ShutdownHooksRun, TearsDown, TornDown, TasksStop
  <2> QED
    BY <2>2, <2>3, <2>4
<1>2. ASSUME NEW c \in Calls, LoopSteps(c) \/ ThreadSteps(c) PROVE Quiet'
  <2>1. UNCHANGED <<life, leaving, overdue>>
    BY <1>2, CallsKeepLife
  <2> SUFFICES ASSUME NEW d \in Calls, Registered(d)', Origin[d] # "task"
               PROVE  life \in {"serving", "draining"} \/ d \in overdue
    BY <2>1 DEF Quiet
  <2>2. CASE Registered(d)
    BY <2>2 DEF Quiet
  <2>3. CASE d = c /\ Arrives(c)
    <3>1. Origin[c] \in {"http", "message", "task"}
      BY OriginAssumption
    <3> QED
      BY <2>3, <3>1 DEF Arrives, Offered, Admits, LeavesBeforeDrain
  <2> QED
    BY <1>2, <2>2, <2>3, Registers
<1>3. CASE ThreadTakes \/ UNCHANGED vars
  BY <1>3 DEF Quiet, Registered, ThreadTakes, lifeVars, vars
<1> QED
  BY <1>1, <1>2, <1>3 DEF Next

-----------------------------------------------------------------------------
(* The theorems. *)

LEMMA Invariant == Spec => []IInv
<1>1. Init => IInv
  <2> SUFFICES ASSUME Init PROVE IInv
    OBVIOUS
  <2>1. TypeOK
    BY TypeInit
  <2>2. \A c \in Calls : CallInv(c)
    BY WorkKeys DEF Init, CallInv, Works
  <2>3. LeavesBeforeDrain /\ Quiet /\ OpenInside
    BY DEF Init, LeavesBeforeDrain, Quiet, OpenInside, Registered, InFlight
  <2> QED
    BY <2>1, <2>2, <2>3, CallInvIs DEF IInv
<1>2. IInv /\ [Next]_vars => IInv'
  <2> SUFFICES ASSUME IInv, [Next]_vars PROVE IInv'
    OBVIOUS
  <2>1. TypeOK'
    BY TypeStep DEF IInv
  <2>2. \A c \in Calls : CallInv(c)'
    BY PoolStep, CallInvIs DEF IInv
  <2>3. BodyIsAwaited' /\ ReleaseIsAwaited' /\ DoneIsReleased' /\ HeldOnlyWhenCut'
    BY <2>2 DEF CallInv, BodyIsAwaited, ReleaseIsAwaited, DoneIsReleased, HeldOnlyWhenCut
  <2>4. LeavesBeforeDrain' /\ OpenInside'
    BY OrderStep DEF IInv
  <2>5. Quiet'
    BY QuietStep DEF IInv
  <2> QED
    BY <2>1, <2>3, <2>4, <2>5 DEF IInv
<1> QED
  BY <1>1, <1>2, PTL DEF Spec

\* Every state of the server, of its calls and of its pool is well typed, and
\* the pool never runs more works than it has threads (pool.py:84-101).
THEOREM TypeCorrect == Spec => []TypeOK
<1>1. IInv => TypeOK
  BY DEF IInv
<1> QED
  BY <1>1, Invariant, PTL

\* A call leaves the registry with its databases released, unless a
\* cancellation came out of run_cleanups (request_registry.py:118-137).
THEOREM CallsRelease == Spec => []HeldOnlyWhenCut
<1>1. IInv => HeldOnlyWhenCut
  BY DEF IInv
<1> QED
  BY <1>1, Invariant, PTL

\* The databases of a call are never released while one of its threads is at
\* work, whatever was cancelled (pool.py:103-146).
THEOREM ReleaseNeverOverlaps == Spec => []ReleaseFollowsUse
<1>1. IInv => ReleaseFollowsUse
  BY DEF IInv, BodyIsAwaited, ReleaseIsAwaited, ReleaseFollowsUse
<1> QED
  BY <1>1, Invariant, PTL

\* What the gate admitted and the drain waited for never holds a database of a
\* closed handler (lifespan.py:145-167).
THEOREM NothingHeldClosed == Spec => []HeldIsOpen
<1>1. IInv => HeldIsOpen
  BY DEF IInv, Quiet, OpenInside, HeldIsOpen
<1> QED
  BY <1>1, Invariant, PTL

\* The databases of a call are open while it holds them, idle when they are
\* given back and given back unless cut: the four above together.
THEOREM CallsKeepDatabases == Spec => []DatabasesAreKept
BY TypeCorrect, CallsRelease, ReleaseNeverOverlaps, NothingHeldClosed, PTL DEF DatabasesAreKept

-----------------------------------------------------------------------------
(***************************************************************************)
(* The command (SiteCommands), for any names, pids, shells, homes, command *)
(* lines and recipes. A step has to show of what it wrote that it fits:    *)
(* a card can be served, a launch has what its configuration declares, a   *)
(* command is at what it has open. What a step leaves alone goes on        *)
(* fitting, since homes and recipes are only added. That a site is known   *)
(* is inductive only with what the commands at its files came for: a       *)
(* command that saw the process is there to signal it.                     *)
(***************************************************************************)
MaybeHome == Homes \cup {None}
Snapshots == {None} \cup (({BaseDir} \cup Homes) \X Names)
Launched == [source: Sources, name: Names \cup {None}, home: MaybeHome, port: Nat,
             role: BOOLEAN, here: BOOLEAN]
Payloads == [source: Sources \cup Homes, name: Names \cup {None}, home: MaybeHome, port: Nat,
             role: BOOLEAN, here: BOOLEAN]
Servers == [source: Sources \cup Homes, port: Nat, site: Names \cup {None}, home: MaybeHome,
            snapshot: Snapshots]
Steps == {"build", "card", "pid", "serving", "clear"}
Served ==
  [kind: {"serve"}, pc: Steps, l: Launched, server: Servers \cup {None},
   read: Cards \cup {None}, plain: BOOLEAN,
   adopted: SUBSET {"name", "home"}]
OtherProcs == [kind: {"free", "stranger", "foreign"}]

SignalCommands == [op: {"signal"}, name: Names, pid: Pids]
FileCommands == [op: {"clear", "unlink"}, name: Names]
SetupCommands ==
  [op: {"prepare", "recipe", "save"}, name: Names, form: {f \in Forms : Accepted(f)}]
DbCommands ==
  [op: {"open", "close"}, opened: 0 .. Handlers, closed: 0 .. Handlers,
   open: SUBSET (1 .. Handlers)]
Commands == SignalCommands \cup FileCommands \cup SetupCommands \cup DbCommands

FilesTyped ==
  /\ cards \in [Names -> Cards \cup {None}]
  /\ pidfile \in [Names -> Pids \cup {None}]
  /\ homes \subseteq Homes /\ recipes \in [Homes -> Names \cup {None}]
  /\ proc \in [Pids -> OtherProcs \cup Served]
  /\ shell \in [Shells -> {Idle} \cup Commands]
  /\ used \subseteq Names \X Pids

\* What is laid out stays, and configure writes nothing before what it stands on.
Recipe(h) == h \in homes /\ recipes[h] # None

\* The handlers that a db command has open are the ones it did not close yet; a
\* signal goes to a pid that was written under the name.
CommandFits(c) ==
  /\ c.op = "open" => c.closed = 0 /\ c.open = 1 .. c.opened
  /\ c.op = "close" => c.closed <= c.opened /\ c.open = (c.closed + 1) .. c.opened
  /\ c.op = "recipe" => c.form.home \in homes
  /\ c.op = "save" => Recipe(c.form.home)
  /\ c.op = "signal" => <<c.name, c.pid>> \in used

\* What can be served: a card, or what a launch made of it.
CanBoot(c) ==
  /\ c.home \in homes \cup {None, Declared.home}
  /\ c.source = "recipe" /\ c.home \notin {None, Declared.home} => Recipe(c.home)

\* What reads the recipe outside the homes has the home it declares.
HasItsHome(c) ==
  c.source \in {"file", "recipe"} /\ c.home = None => Declared.home = None

\* A card is one that can be served as it is.
CardFits(c) == CanBoot(c) /\ HasItsHome(c)

\* The home came from a relative recipe, which is looked for elsewhere since.
Moved(q) == q.l.source = "recipe" /\ "home" \in q.adopted

\* A server has what its launch has, and a launch without a name what the recipe
\* that was built left without one.
ServerFits(q) ==
  /\ ~Moved(q) =>
       /\ q.server = [source |-> Resolved(q.l), port |-> q.l.port, site |-> q.l.name,
                      home |-> q.l.home, snapshot |-> q.server.snapshot]
       /\ q.l.name = None => /\ Resolved(q.l) \notin Homes
                             /\ Resolved(q.l) = "file" => Declared.site = None
  /\ q.adopted = {} => ~Moved(q) /\ q.server.snapshot = Snapshot(q.l)

\* A launch of a name alone is its card until it is built; from then on it has
\* what its configuration declares.
ProcFits(q) ==
  q.kind = "serve" =>
    /\ q.plain /\ q.pc \in {"build", "card"} =>
         q.read # None /\ HasItsHome(q.read) /\ Entry(q.l) = q.read
    /\ q.pc # "build" /\ ~q.l.role => CardFits(q.l) /\ ServerFits(q)
    /\ q.pc \in {"card", "pid", "clear"} => ~q.l.role /\ q.l.name \in Names

FilesFit ==
  /\ FilesTyped
  /\ leaked = {}
  /\ \A s \in Shells : CommandFits(shell[s])
  /\ \A p \in Pids : ProcFits(proc[p])
  /\ \A n \in Names : cards[n] # None => CardFits(cards[n])
  /\ \A n \in Names : pidfile[n] # None => <<n, pidfile[n]>> \in used

\* The pid file of a name is its process's, and who is at the files of a name
\* that is served has come to signal that process: until two commands race.
Known(n) ==
  /\ \A p \in Serving(n) : proc[p].pc \in {"serving", "clear"} => pidfile[n] = p
  /\ \A s \in AtFiles(n), p \in Serving(n) : shell[s].op = "signal" /\ shell[s].pid = p
AloneHolds(n) == n \notin raced => ~Overlap(n) /\ Known(n)

SitesInv ==
  /\ FilesFit
  /\ raced \subseteq Names /\ calls \in 0 .. MaxCalls
  /\ \A n \in Names : AloneHolds(n)

-----------------------------------------------------------------------------
(* What a launch is made of.                                               *)

LEMMA CommandTypes ==
  ASSUME FilesTyped, NEW s \in Shells
  PROVE  /\ shell[s].op = "signal" => shell[s] \in SignalCommands
         /\ shell[s].op \in {"clear", "unlink"} => shell[s] \in FileCommands
         /\ shell[s].op \in {"prepare", "recipe", "save"} =>
              /\ shell[s] \in SetupCommands
              /\ shell[s].form.home \in Homes /\ shell[s].form.port \in Nat
         /\ shell[s].op \in {"open", "close"} => shell[s] \in DbCommands
<1>1. shell[s] \in {Idle} \cup Commands
  BY DEF FilesTyped
<1>2. \A f \in Forms : Accepted(f) => f.home \in Homes /\ f.port \in Nat
  BY CommandAssumption DEF Accepted
<1>. QED  BY <1>1, <1>2
  DEF Idle, Commands, SignalCommands, FileCommands, SetupCommands, DbCommands

LEMMA ProcTypes ==
  ASSUME FilesTyped, NEW p \in Pids
  PROVE  /\ IsServe(p) => proc[p] \in Served
         /\ ~IsServe(p) => proc[p] \in OtherProcs
  BY DEF FilesTyped, IsServe, Served, OtherProcs

LEMMA AdoptedType ==
  ASSUME FilesFit, NEW o \in Launches, o.source \in Names => cards[o.source] # None
  PROVE  Adopted(o) \in Launched
<1>1. o \in Options
  BY LaunchesAssumption
<1>2. CASE o.source \notin Names
  BY <1>1, <1>2 DEF Adopted, Options, Launched, MaybeHome
<1>3. CASE o.source \in Names
  <2> DEFINE card == cards[o.source]
  <2>1. card \in Cards
    BY <1>3 DEF FilesFit, FilesTyped
  <2>2. Adopted(o) = [o EXCEPT !.source = card.source,
                               !.name = IF @ = None THEN o.source ELSE @,
                               !.home = IF @ = None THEN card.home ELSE @,
                               !.port = IF @ = 0 THEN card.port ELSE @]
    BY <1>3 DEF Adopted
  <2>. HIDE DEF card
  <2>3. card.source \in Sources /\ card.home \in MaybeHome /\ card.port \in Nat
    BY <2>1 DEF Cards, MaybeHome
  <2>4. /\ o = [source |-> o.source, name |-> o.name, home |-> o.home, port |-> o.port,
                role |-> o.role, here |-> o.here]
        /\ o.name \in Names \cup {None} /\ o.home \in MaybeHome /\ o.port \in Nat
        /\ o.role \in BOOLEAN /\ o.here \in BOOLEAN
    BY <1>1 DEF Options, MaybeHome
  <2>5. Adopted(o) = [source |-> card.source, name |-> IF o.name = None THEN o.source ELSE o.name,
                      home |-> IF o.home = None THEN card.home ELSE o.home,
                      port |-> IF o.port = 0 THEN card.port ELSE o.port, role |-> o.role,
                      here |-> o.here]
    BY <2>2, <2>4
  <2>. QED  BY <1>3, <2>3, <2>4, <2>5 DEF Launched
<1>. QED  BY <1>2, <1>3

\* A launch crosses to a reload as it is, but for the source.
LEMMA LaunchedArePayloads == Launched \subseteq Payloads
  BY DEF Launched, Payloads

\* Which file a source names.
LEMMA ResolvedType ==
  ASSUME NEW l \in Payloads
  PROVE  /\ Resolved(l) \in {"file", "template", "target"} \cup Homes
         /\ l.source # "recipe" => Resolved(l) = l.source
         /\ l.source = "recipe" /\ l.home # None => Resolved(l) = l.home /\ l.home \in Homes
         /\ l.source = "recipe" /\ l.home = None => Resolved(l) = "file"
  BY DEF Resolved, Payloads, Sources, MaybeHome

LEMMA DeclaredType ==
  ASSUME FilesTyped, NEW l \in Payloads
  PROVE  /\ DeclaredBy(l).site \in Names \cup {None} /\ DeclaredBy(l).home \in MaybeHome
         /\ Resolved(l) = "file" => DeclaredBy(l) = Declared
         /\ Resolved(l) \in Homes =>
              DeclaredBy(l).site = recipes[Resolved(l)] /\ DeclaredBy(l).home = Resolved(l)
         /\ Resolved(l) \in {"template", "target"} =>
              DeclaredBy(l).site = None /\ DeclaredBy(l).home = None
<1>1. "file" \notin Homes /\ "template" \notin Homes /\ "target" \notin Homes
  BY LaunchesAssumption DEF Sources
<1>2. /\ Declared.site \in Names \cup {None} /\ Declared.home \in MaybeHome
      /\ \A h \in Homes : recipes[h] \in Names \cup {None}
  BY LaunchesAssumption DEF Declarations, MaybeHome, FilesTyped
<1>3. CASE Resolved(l) = "file"
  BY <1>1, <1>2, <1>3 DEF DeclaredBy
<1>4. CASE Resolved(l) \in Homes
  BY <1>1, <1>2, <1>4 DEF DeclaredBy, MaybeHome
<1>5. CASE Resolved(l) \in {"template", "target"}
  BY <1>1, <1>5 DEF DeclaredBy, MaybeHome
<1>. QED  BY <1>3, <1>4, <1>5, ResolvedType

LEMMA CompletedType ==
  ASSUME NEW l \in Payloads, NEW d, d.site \in Names \cup {None}, d.home \in MaybeHome
  PROVE  /\ Completed(l, d) \in Payloads
         /\ Completed(l, d).source = l.source /\ Completed(l, d).port = l.port
         /\ Completed(l, d).role = l.role /\ Completed(l, d).here = l.here
         /\ Completed(l, d).name = IF l.name = None THEN d.site ELSE l.name
         /\ Completed(l, d).home = IF l.home = None THEN d.home ELSE l.home
  BY DEF Completed, Payloads, MaybeHome

LEMMA NamedType ==
  ASSUME FilesTyped, NEW l \in Payloads
  PROVE  /\ Named(l) \in Payloads
         /\ Named(l).source = l.source /\ Named(l).port = l.port /\ Named(l).role = l.role
         /\ Named(l).name = IF l.name = None THEN DeclaredBy(l).site ELSE l.name
         /\ Named(l).home = IF l.home = None THEN DeclaredBy(l).home ELSE l.home
         /\ l \in Launched => Named(l) \in Launched
<1>1. /\ Named(l) \in Payloads
      /\ Named(l).source = l.source /\ Named(l).port = l.port /\ Named(l).role = l.role
      /\ Named(l).name = IF l.name = None THEN DeclaredBy(l).site ELSE l.name
      /\ Named(l).home = IF l.home = None THEN DeclaredBy(l).home ELSE l.home
  BY DeclaredType, CompletedType DEF Named
<1>. QED  BY <1>1 DEF Payloads, Launched

LEMMA SnapshotType ==
  ASSUME NEW l \in Payloads
  PROVE  Snapshot(l) \in Snapshots
  BY DEF Snapshot, Snapshots, Payloads, MaybeHome

LEMMA ServerType ==
  ASSUME FilesTyped, NEW l \in Payloads
  PROVE  /\ ServerOf(l) \in Servers
         /\ ~l.role => ServerOf(l) = [source |-> Resolved(l), port |-> l.port,
                                      site |-> Named(l).name, home |-> Named(l).home,
                                      snapshot |-> Snapshot(l)]
<1> DEFINE bare == l.role /\ l.source \notin {"template", "target"}
           given == IF bare THEN [l EXCEPT !.name = None, !.home = None] ELSE l
           named == Completed(given, DeclaredBy(l))
<1>1. given \in Payloads
  BY DEF Payloads, MaybeHome
<1>2. named \in Payloads
  BY <1>1, DeclaredType, CompletedType
<1>3. ServerOf(l) = [source |-> Resolved(l), port |-> IF bare THEN 0 ELSE l.port,
                     site |-> named.name, home |-> named.home, snapshot |-> Snapshot(given)]
  BY DEF ServerOf
<1>4. ~l.role => ~bare /\ given = l /\ named = Named(l)
  BY DEF Named
<1>5. Snapshot(given) \in Snapshots
  BY <1>1, SnapshotType
<1>6. Resolved(l) \in Sources \cup Homes /\ l.port \in Nat
  BY ResolvedType DEF Sources, Payloads
<1>7. named.name \in Names \cup {None} /\ named.home \in MaybeHome
  BY <1>2 DEF Payloads
<1>. HIDE DEF bare, given, named
<1>. QED  BY <1>3, <1>4, <1>5, <1>6, <1>7 DEF Servers

-----------------------------------------------------------------------------
(* What a step has to show: only of what it wrote.                         *)

LEMMA StepFits ==
  ASSUME FilesFit, FilesTyped', UNCHANGED leaked,
         homes \subseteq homes', used \subseteq used',
         \A h \in Homes : recipes[h] # None => recipes'[h] # None,
         \A s \in Shells : shell'[s] = shell[s] \/ CommandFits(shell[s])',
         \A p \in Pids : proc'[p] = proc[p] \/ ProcFits(proc[p])',
         \A n \in Names : cards'[n] \in {cards[n], None} \/ CardFits(cards[n])',
         \A n \in Names : pidfile'[n] \in {pidfile[n], None} \/ <<n, pidfile'[n]>> \in used'
  PROVE  FilesFit'
<1>1. \A h : Recipe(h) => Recipe(h)'
  BY DEF FilesFit, FilesTyped, Recipe
<1>2. \A c : CanBoot(c) => CanBoot(c)'
  BY <1>1 DEF CanBoot
<1>3. \A c : CommandFits(c) => CommandFits(c)'
  BY <1>1 DEF CommandFits
<1>4. \A c : CardFits(c) => CardFits(c)'
  BY <1>2 DEF CardFits, HasItsHome
<1>5. \A q : ProcFits(q) => ProcFits(q)'
  BY <1>4 DEF ProcFits, HasItsHome, ServerFits, Moved, Entry, Snapshot, Resolved
<1>6. \A s \in Shells : CommandFits(shell[s])'
  BY <1>3 DEF FilesFit
<1>7. \A p \in Pids : ProcFits(proc[p])'
  BY <1>5 DEF FilesFit
<1>8. \A n \in Names : cards'[n] # None => CardFits(cards[n])'
  BY <1>4 DEF FilesFit
<1>9. \A n \in Names : pidfile'[n] # None => <<n, pidfile'[n]>> \in used'
  BY DEF FilesFit
<1>. QED  BY <1>6, <1>7, <1>8, <1>9 DEF FilesFit

\* A step of one shell that writes no file.
LEMMA CommandStepFits ==
  ASSUME FilesFit, NEW s \in Shells, NEW c \in {Idle} \cup Commands, Does(s, c),
         UNCHANGED <<disk, proc, used, leaked>>, CommandFits(c)
  PROVE  FilesFit'
<1>1. FilesTyped'
  BY DEF FilesFit, FilesTyped, Does, disk
<1>2. CommandFits(c)'
  BY DEF CommandFits, Recipe, disk
<1>3. \A u \in Shells : shell'[u] = shell[u] \/ shell'[u] = c
  BY DEF Does, FilesFit, FilesTyped
<1>. QED  BY <1>1, <1>2, <1>3, StepFits DEF disk

\* A step of one process that writes no file.
LEMMA ProcStepFits ==
  ASSUME FilesFit, NEW p \in Pids, NEW q \in OtherProcs \cup Served,
         proc' = [proc EXCEPT ![p] = q],
         UNCHANGED <<disk, shell, used, leaked>>, ProcFits(q)
  PROVE  FilesFit'
<1>1. FilesTyped'
  BY DEF FilesFit, FilesTyped, disk
<1>2. ProcFits(q)'
  BY DEF ProcFits, CardFits, CanBoot, HasItsHome, Recipe, ServerFits, Moved, Entry,
     Snapshot, Resolved, disk
<1>3. \A u \in Pids : proc'[u] = proc[u] \/ proc'[u] = q
  BY DEF FilesFit, FilesTyped
<1>. QED  BY <1>1, <1>2, <1>3, StepFits DEF disk

LEMMA FreeFits == Free \in OtherProcs /\ ProcFits(Free)
  BY DEF Free, OtherProcs, ProcFits

LEMMA IdleFits == Idle \in {Idle} \cup Commands /\ CommandFits(Idle)
  BY DEF Idle, CommandFits

-----------------------------------------------------------------------------
(* Every step keeps the files fit: the commands.                           *)

LEMMA ReadPidType ==
  ASSUME FilesFit, NEW n \in Names
  PROVE  ReadPid(n) # None => ReadPid(n) \in Pids /\ ReadPid(n) = pidfile[n] /\ <<n, ReadPid(n)>> \in used
  BY DEF ReadPid, FilesFit, FilesTyped

LEMMA StopFits ==
  ASSUME FilesFit, NEW s \in Shells, NEW n \in Names, Stop(s, n)
  PROVE  FilesFit'
<1>1. CASE ReadPid(n) = None
  <2>1. [op |-> "clear", name |-> n] \in {Idle} \cup Commands
    BY DEF Commands, FileCommands
  <2>2. CommandFits([op |-> "clear", name |-> n])
    BY DEF CommandFits
  <2>. QED  BY <1>1, <2>1, <2>2, CommandStepFits DEF Stop
<1>2. CASE ReadPid(n) # None
  <2> DEFINE c == [op |-> "signal", name |-> n, pid |-> ReadPid(n)]
  <2>1. c \in {Idle} \cup Commands
    BY <1>2, ReadPidType DEF Commands, SignalCommands
  <2>2. CommandFits(c)
    BY <1>2, ReadPidType DEF CommandFits
  <2>3. Does(s, c) /\ UNCHANGED <<disk, proc, used, leaked>>
    BY <1>2 DEF Stop
  <2>. HIDE DEF c
  <2>. QED  BY <2>1, <2>2, <2>3, CommandStepFits
<1>. QED  BY <1>1, <1>2

LEMMA BeginningFits ==
  ASSUME FilesFit, NEW s \in Shells,
         Db(s) \/ \E n \in Names : Remove(s, n) \/ \E f \in Forms : Configure(s, n, f)
  PROVE  FilesFit'
<1>1. CASE Db(s)
  <2> DEFINE c == [op |-> "open", opened |-> 0, closed |-> 0, open |-> {}]
  <2>1. c \in {Idle} \cup Commands
    BY CommandAssumption DEF Commands, DbCommands
  <2>2. CommandFits(c)
    BY DEF CommandFits
  <2>3. Does(s, c) /\ UNCHANGED <<disk, proc, used, leaked>>
    BY <1>1 DEF Db
  <2>. HIDE DEF c
  <2>. QED  BY <2>1, <2>2, <2>3, CommandStepFits
<1>2. ASSUME NEW n \in Names, Remove(s, n) PROVE FilesFit'
  <2>1. [op |-> "unlink", name |-> n] \in {Idle} \cup Commands
    BY DEF Commands, FileCommands
  <2>2. CommandFits([op |-> "unlink", name |-> n])
    BY DEF CommandFits
  <2>. QED  BY <1>2, <2>1, <2>2, CommandStepFits DEF Remove
<1>3. ASSUME NEW n \in Names, NEW f \in Forms, Configure(s, n, f) PROVE FilesFit'
  <2> DEFINE c == [op |-> "prepare", name |-> n, form |-> f]
  <2>1. c \in {Idle} \cup Commands
    BY <1>3 DEF Commands, SetupCommands, Configure
  <2>2. CommandFits(c)
    BY DEF CommandFits
  <2>3. Does(s, c) /\ UNCHANGED <<disk, proc, used, leaked>>
    BY <1>3 DEF Configure
  <2>. HIDE DEF c
  <2>. QED  BY <2>1, <2>2, <2>3, CommandStepFits
<1>. QED  BY <1>1, <1>2, <1>3

LEMMA DbFits ==
  ASSUME FilesFit, NEW s \in Shells,
         \/ DbClose(s) \/ DbInterrupted(s) \/ DbEnds(s)
         \/ \E raises \in BOOLEAN : DbOpen(s, raises) \/ DbOperate(s, raises)
  PROVE  FilesFit'
<1> DEFINE c == shell[s]
<1>1. FilesTyped /\ CommandFits(c) /\ leaked = {}
  BY DEF FilesFit
<1>2. /\ c.op \in {"open", "close"} /\ c \in DbCommands
      /\ c.opened \in Nat /\ c.closed \in Nat /\ c.opened <= Handlers
  <2>1. c.op \in {"open", "close"}
    BY DEF DbClose, DbInterrupted, DbEnds, DbOpen, DbOperate
  <2>2. c \in DbCommands
    BY <1>1, <2>1, CommandTypes
  <2>3. c.opened \in 0 .. Handlers /\ c.closed \in 0 .. Handlers
    BY <2>2 DEF DbCommands
  <2>. QED  BY <2>1, <2>2, <2>3, CommandAssumption
<1>3. ASSUME NEW d \in DbCommands, Does(s, d), CommandFits(d),
             UNCHANGED <<disk, proc, used, leaked>>
      PROVE  FilesFit'
  BY <1>3, CommandStepFits DEF Commands
<1>4. ASSUME NEW raises \in BOOLEAN, DbOpen(s, raises) PROVE FilesFit'
  <2>1. c.op = "open" /\ c.opened < Handlers /\ c.closed = 0 /\ c.open = 1 .. c.opened
    BY <1>1, <1>4 DEF DbOpen, CommandFits
  <2>2. CASE raises
    <3> DEFINE d == [c EXCEPT !.op = "close"]
    <3>1. Does(s, d) /\ UNCHANGED <<disk, proc, used, leaked>>
      BY <1>4, <2>2 DEF DbOpen
    <3>2. d \in DbCommands /\ CommandFits(d)
      BY <1>2, <2>1 DEF DbCommands, CommandFits
    <3>. HIDE DEF d
    <3>. QED  BY <3>1, <3>2, <1>3
  <2>3. CASE ~raises
    <3> DEFINE d == [c EXCEPT !.opened = @ + 1, !.open = @ \cup {c.opened + 1}]
    <3>1. Does(s, d) /\ UNCHANGED <<disk, proc, used, leaked>>
      BY <1>4, <2>3 DEF DbOpen
    <3>2. c.opened + 1 \in 0 .. Handlers /\ (1 .. c.opened) \cup {c.opened + 1} = 1 .. (c.opened + 1)
      BY <1>2, <2>1, CommandAssumption
    <3>3. 1 .. (c.opened + 1) \subseteq 1 .. Handlers
      BY <3>2, <1>2, CommandAssumption
    <3>4. d.op = "open" /\ d.opened = c.opened + 1 /\ d.closed = 0 /\ d.open = 1 .. d.opened
      BY <1>2, <2>1, <3>2 DEF DbCommands
    <3>5. d \in DbCommands
      BY <1>2, <2>1, <3>2, <3>3 DEF DbCommands
    <3>6. CommandFits(d)
      BY <3>4 DEF CommandFits
    <3>. HIDE DEF d
    <3>. QED  BY <3>1, <3>5, <3>6, <1>3
  <2>. QED  BY <2>2, <2>3
<1>5. ASSUME NEW raises \in BOOLEAN, DbOperate(s, raises) PROVE FilesFit'
  <2> DEFINE d == [c EXCEPT !.op = "close"]
  <2>1. Does(s, d) /\ UNCHANGED <<disk, proc, used, leaked>>
    BY <1>5 DEF DbOperate
  <2>2. d \in DbCommands /\ CommandFits(d)
    BY <1>1, <1>2, <1>5 DEF DbCommands, CommandFits, DbOperate
  <2>. HIDE DEF d
  <2>. QED  BY <2>1, <2>2, <1>3
<1>6. CASE DbClose(s)
  <2> DEFINE d == [c EXCEPT !.closed = @ + 1, !.open = @ \ {c.closed + 1}]
  <2>1. Does(s, d) /\ UNCHANGED <<disk, proc, used, leaked>>
    BY <1>6 DEF DbClose
  <2>2. c.op = "close" /\ c.closed < c.opened /\ c.open = (c.closed + 1) .. c.opened
    BY <1>1, <1>6 DEF DbClose, CommandFits
  <2>3. /\ ((c.closed + 1) .. c.opened) \ {c.closed + 1} = (c.closed + 2) .. c.opened
        /\ c.closed + 1 \in 0 .. Handlers /\ c.closed + 1 <= c.opened
        /\ (c.closed + 2) .. c.opened \subseteq 1 .. Handlers
        /\ (c.closed + 1) + 1 = c.closed + 2
    BY <1>2, <2>2, CommandAssumption
  <2>4. /\ d.op = "close" /\ d.opened = c.opened /\ d.closed = c.closed + 1
        /\ d.open = (c.closed + 2) .. c.opened
    BY <1>2, <2>2, <2>3 DEF DbCommands
  <2>5. d \in DbCommands
    BY <1>2, <2>2, <2>3 DEF DbCommands
  <2>6. CommandFits(d)
    BY <2>3, <2>4 DEF CommandFits
  <2>. HIDE DEF d
  <2>. QED  BY <2>1, <2>5, <2>6, <1>3
<1>7. CASE DbInterrupted(s)
  BY <1>7, IdleFits, CommandStepFits DEF DbInterrupted
<1>8. CASE DbEnds(s)
  <2>1. c.open = {}
    BY <1>1, <1>2, <1>8 DEF DbEnds, CommandFits
  <2>. QED  BY <1>1, <1>8, <2>1, IdleFits, CommandStepFits DEF DbEnds
<1>. QED  BY <1>4, <1>5, <1>6, <1>7, <1>8

LEMMA SignalPidFits ==
  ASSUME FilesFit, NEW s \in Shells, SignalPid(s)
  PROVE  FilesFit'
<1> DEFINE c == IF Alive(shell[s].pid) THEN Idle ELSE [op |-> "clear", name |-> shell[s].name]
           p == shell[s].pid
<1>1. FilesTyped /\ shell[s] \in SignalCommands
  BY CommandTypes DEF SignalPid, FilesFit
<1>2. p \in Pids /\ shell[s].name \in Names
  BY <1>1 DEF SignalCommands
<1>3. /\ c \in {Idle} \cup Commands /\ c.op \in {"idle", "clear"}
      /\ shell' = [shell EXCEPT ![s] = c]
  BY <1>2 DEF Commands, FileCommands, Idle, SignalPid, Does
<1>4. /\ UNCHANGED <<disk, used, leaked>>
      /\ proc' = [proc EXCEPT ![p] = IF @.kind = "stranger" THEN Free ELSE @]
  BY DEF SignalPid
<1>. HIDE DEF c, p
<1>5. \A u \in Pids : proc'[u] = proc[u] \/ proc'[u] = Free
  BY <1>1, <1>2, <1>4 DEF FilesTyped
<1>6. \A u \in Pids : proc'[u] = proc[u] \/ ProcFits(proc[u])'
  BY <1>5 DEF ProcFits, Free
<1>7. \A u \in Shells : shell'[u] = shell[u] \/ CommandFits(shell[u])'
  <2>1. \A u \in Shells : shell'[u] = shell[u] \/ shell'[u].op \in {"idle", "clear"}
    BY <1>1, <1>3 DEF FilesTyped
  <2>. QED  BY <2>1 DEF CommandFits
<1>8. FilesTyped'
  <2>1. proc' \in [Pids -> OtherProcs \cup Served]
    BY <1>1, <1>2, <1>4, <1>5, FreeFits DEF FilesTyped
  <2>. QED  BY <1>1, <1>3, <1>4, <2>1 DEF FilesTyped, disk
<1>. QED  BY <1>4, <1>6, <1>7, <1>8, StepFits DEF disk

LEMMA ClearFits ==
  ASSUME FilesFit, NEW s \in Shells, Clear(s)
  PROVE  FilesFit'
<1>1. /\ FilesTyped /\ shell[s] \in FileCommands
      /\ UNCHANGED <<cards, homes, recipes, proc, used, leaked>>
      /\ pidfile' = [pidfile EXCEPT ![shell[s].name] = None]
      /\ shell' = [shell EXCEPT ![s] = Idle]
  BY CommandTypes DEF Clear, FilesFit, Does
<1>2. \A u \in Shells : shell'[u] = shell[u] \/ CommandFits(shell[u])'
  <2>1. \A u \in Shells : shell'[u] = shell[u] \/ shell'[u] = Idle
    BY <1>1 DEF FilesTyped
  <2>. QED  BY <2>1 DEF CommandFits, Idle
<1>3. \A n \in Names : pidfile'[n] \in {pidfile[n], None}
  BY <1>1 DEF FilesTyped
<1>4. FilesTyped'
  BY <1>1 DEF FilesTyped
<1>. QED  BY <1>1, <1>2, <1>3, <1>4, StepFits

LEMMA UnlinkFits ==
  ASSUME FilesFit, NEW s \in Shells, Unlink(s)
  PROVE  FilesFit'
<1> DEFINE n == shell[s].name
           c == IF cards[n] = None THEN Idle ELSE [op |-> "clear", name |-> n]
<1>1. /\ FilesTyped /\ shell[s] \in FileCommands /\ n \in Names
      /\ UNCHANGED <<pidfile, homes, recipes, proc, used, leaked>>
      /\ cards' = [cards EXCEPT ![n] = None]
      /\ shell' = [shell EXCEPT ![s] = c]
  BY CommandTypes DEF Unlink, FilesFit, Does, FileCommands
<1>2. c \in {Idle} \cup Commands /\ c.op \in {"idle", "clear"}
  BY <1>1 DEF Commands, FileCommands, Idle
<1>. HIDE DEF c, n
<1>3. \A u \in Shells : shell'[u] = shell[u] \/ CommandFits(shell[u])'
  <2>1. \A u \in Shells : shell'[u] = shell[u] \/ shell'[u].op \in {"idle", "clear"}
    BY <1>1, <1>2 DEF FilesTyped
  <2>. QED  BY <2>1 DEF CommandFits
<1>4. \A m \in Names : cards'[m] \in {cards[m], None}
  BY <1>1 DEF FilesTyped
<1>5. FilesTyped'
  BY <1>1, <1>2 DEF FilesTyped
<1>. QED  BY <1>1, <1>3, <1>4, <1>5, StepFits

\* configure, step by step: the home, the recipe in it, the card that points at it.
LEMMA SetupFits ==
  ASSUME FilesFit, NEW s \in Shells, Prepare(s) \/ WriteRecipe(s) \/ SaveCard(s)
  PROVE  FilesFit'
<1> DEFINE c == shell[s]
           h == c.form.home
<1>1. /\ FilesTyped /\ CommandFits(c) /\ c \in SetupCommands /\ h \in Homes
      /\ c.form.port \in Nat /\ c.name \in Names /\ None \notin Names \cup Homes
  BY CommandTypes, CommandAssumption DEF FilesFit, SetupCommands, Prepare, WriteRecipe, SaveCard
<1>2. CASE Prepare(s)
  <2> DEFINE d == [c EXCEPT !.op = "recipe"]
  <2>1. /\ homes' = homes \cup {h} /\ UNCHANGED <<cards, pidfile, recipes, proc, used, leaked>>
        /\ shell' = [shell EXCEPT ![s] = d]
    BY <1>2 DEF Prepare, Does
  <2>2. d \in SetupCommands /\ d.op = "recipe" /\ d.form.home = h
    BY <1>1 DEF SetupCommands
  <2>. HIDE DEF d, h, c
  <2>3. \A u \in Shells : shell'[u] = shell[u] \/ CommandFits(shell[u])'
    <3>1. \A u \in Shells : shell'[u] = shell[u] \/ shell'[u] = d
      BY <1>1, <2>1 DEF FilesTyped
    <3>. QED  BY <2>1, <2>2, <3>1 DEF CommandFits
  <2>4. FilesTyped'
    BY <1>1, <2>1, <2>2 DEF FilesTyped, Commands
  <2>. QED  BY <2>1, <2>3, <2>4, StepFits
<1>3. CASE WriteRecipe(s)
  <2> DEFINE d == [c EXCEPT !.op = "save"]
  <2>1. /\ recipes' = [recipes EXCEPT ![h] = c.name]
        /\ UNCHANGED <<cards, pidfile, homes, proc, used, leaked>>
        /\ shell' = [shell EXCEPT ![s] = d]
    BY <1>3 DEF WriteRecipe, Does
  <2>2. d \in SetupCommands /\ d.op = "save" /\ d.form.home = h
    BY <1>1 DEF SetupCommands
  <2>3. h \in homes
    BY <1>1, <1>3 DEF WriteRecipe, CommandFits
  <2>. HIDE DEF d, h, c
  <2>4. \A g \in Homes : recipes[g] # None => recipes'[g] # None
    BY <1>1, <2>1 DEF FilesTyped
  <2>6. \A u \in Shells : shell'[u] = shell[u] \/ CommandFits(shell[u])'
    <3>1. \A u \in Shells : shell'[u] = shell[u] \/ shell'[u] = d
      BY <1>1, <2>1 DEF FilesTyped
    <3>2. homes' = homes /\ h \in homes /\ recipes'[h] # None
      BY <1>1, <2>1, <2>3 DEF FilesTyped
    <3>. QED  BY <2>2, <3>1, <3>2 DEF CommandFits, Recipe
  <2>7. FilesTyped'
    BY <1>1, <2>1, <2>2 DEF FilesTyped, Commands
  <2>. QED  BY <2>1, <2>4, <2>6, <2>7, StepFits
<1>4. CASE SaveCard(s)
  <2> DEFINE card == [source |-> "recipe", home |-> h, port |-> c.form.port]
  <2>1. /\ cards' = [cards EXCEPT ![c.name] = card]
        /\ UNCHANGED <<pidfile, homes, recipes, proc, used, leaked>>
        /\ shell' = [shell EXCEPT ![s] = Idle]
    BY <1>4 DEF SaveCard, Does
  <2>2. Recipe(h)
    BY <1>1, <1>4 DEF SaveCard, CommandFits
  <2>3. card \in Cards /\ card.source = "recipe" /\ card.home = h
    BY <1>1 DEF Cards, Sources
  <2>. HIDE DEF card, h, c
  <2>4. \A u \in Shells : shell'[u] = shell[u] \/ CommandFits(shell[u])'
    <3>1. \A u \in Shells : shell'[u] = shell[u] \/ shell'[u] = Idle
      BY <1>1, <2>1 DEF FilesTyped
    <3>. QED  BY <3>1 DEF CommandFits, Idle
  <2>5. \A n \in Names : cards'[n] \in {cards[n], None} \/ CardFits(cards[n])'
    <3>1. \A n \in Names : cards'[n] = cards[n] \/ cards'[n] = card
      BY <1>1, <2>1 DEF FilesTyped
    <3>. QED  BY <1>1, <2>1, <2>2, <2>3, <3>1 DEF CardFits, CanBoot, HasItsHome, Recipe
  <2>6. FilesTyped'
    BY <1>1, <2>1, <2>3 DEF FilesTyped
  <2>. QED  BY <2>1, <2>4, <2>5, <2>6, StepFits
<1>. QED  BY <1>2, <1>3, <1>4

-----------------------------------------------------------------------------
(* Every step keeps the files fit: the processes.                          *)

LEMMA ServeTypes ==
  ASSUME FilesFit, NEW p \in Pids, IsServe(p)
  PROVE  /\ proc[p] \in Served /\ ProcFits(proc[p])
         /\ proc[p].l \in Launched /\ proc[p].pc \in Steps
         /\ proc[p].read \in Cards \cup {None}
         /\ proc[p].pc \in {"card", "pid", "clear"} =>
              ~proc[p].l.role /\ proc[p].l.name \in Names
<1>1. proc[p] \in Served /\ ProcFits(proc[p])
  BY ProcTypes DEF FilesFit
<1>. QED  BY <1>1 DEF Served, ProcFits, IsServe

LEMMA LaunchFits ==
  ASSUME FilesFit, NEW p \in Pids, NEW o \in Launches, Launch(o, p)
  PROVE  FilesFit'
<1> DEFINE l == Adopted(o)
           read == IF o.source \in Names THEN cards[o.source] ELSE None
           plain == o.source \in Names /\ o.name = None /\ o.home = None /\ o.port = 0
           q == [kind |-> "serve", pc |-> "build", l |-> l, server |-> None,
                 read |-> read, plain |-> plain, adopted |-> {}]
<1>1. /\ o.source \in Names => cards[o.source] # None
      /\ proc' = [proc EXCEPT ![p] = q] /\ UNCHANGED <<disk, shell, used, leaked>>
  BY DEF Launch
<1>2. l \in Launched
  BY <1>1, AdoptedType
<1>3. read \in Cards \cup {None} /\ plain \in BOOLEAN
  BY DEF FilesFit, FilesTyped
<1>4. plain => read # None /\ HasItsHome(read) /\ Entry(l) = read
  <2>. SUFFICES ASSUME plain PROVE read # None /\ HasItsHome(read) /\ Entry(l) = read
    OBVIOUS
  <2>1. read = cards[o.source] /\ read \in Cards /\ read # None /\ CardFits(read)
    BY <1>1 DEF FilesFit, FilesTyped
  <2>2. o \in Options /\ o.home = None /\ o.port = 0
    BY LaunchesAssumption
  <2>3. l = [o EXCEPT !.source = read.source, !.name = o.source,
                      !.home = read.home, !.port = read.port]
    BY <2>1, <2>2 DEF Adopted, Options
  <2>. HIDE DEF l, read
  <2>4. l.source = read.source /\ l.home = read.home /\ l.port = read.port
    BY <2>2, <2>3 DEF Options
  <2>. QED  BY <2>1, <2>4 DEF Entry, Cards, CardFits
<1>. HIDE DEF l, read, plain
<1>5. q \in Served
  BY <1>2, <1>3 DEF Served, Steps
<1>6. ProcFits(q)
  BY <1>2, <1>4 DEF ProcFits
<1>. HIDE DEF q
<1>. QED  BY <1>1, <1>5, <1>6, ProcStepFits

\* What a launch becomes when it is built.
LEMMA BuiltLaunch ==
  ASSUME FilesFit, NEW l \in Launched, Boots(l), ~l.role
  PROVE  /\ Named(l) \in Launched /\ ~Named(l).role
         /\ Named(l).source = l.source /\ Named(l).port = l.port
         /\ CardFits(Named(l))
         /\ l.source # "recipe" \/ Named(l).home = l.home =>
              /\ Resolved(Named(l)) = Resolved(l)
              /\ Named(l).name = None => /\ Resolved(l) \notin Homes
                                         /\ Resolved(l) = "file" => Declared.site = None
<1>1. /\ FilesTyped /\ Declared.home \in MaybeHome /\ Declared.site \in Names \cup {None}
      /\ l \in Payloads /\ \A h \in Homes : h \notin Sources
  BY LaunchesAssumption, LaunchedArePayloads DEF FilesFit, Declarations, MaybeHome
<1>2. /\ Named(l) \in Launched
      /\ Named(l).source = l.source /\ Named(l).port = l.port /\ Named(l).role = l.role
      /\ Named(l).name = IF l.name = None THEN DeclaredBy(l).site ELSE l.name
      /\ Named(l).home = IF l.home = None THEN DeclaredBy(l).home ELSE l.home
  BY <1>1, NamedType
<1>3. /\ l.home # None => l.home \in homes
      /\ l.source = "recipe" /\ l.home # None => recipes[l.home] # None
  BY DEF Boots, IsThere
<1>4. /\ l.source \in Sources /\ l.home \in MaybeHome
      /\ l.source # "recipe" => Resolved(l) = l.source
      /\ l.source = "recipe" /\ l.home # None => Resolved(l) = l.home /\ l.home \in Homes
      /\ l.source = "recipe" /\ l.home = None => Resolved(l) = "file"
  BY <1>1, ResolvedType DEF Launched
<1>5. /\ Resolved(l) = "file" => DeclaredBy(l).site = Declared.site /\ DeclaredBy(l).home = Declared.home
      /\ Resolved(l) \in Homes =>
           DeclaredBy(l).site = recipes[Resolved(l)] /\ DeclaredBy(l).home = Resolved(l)
      /\ Resolved(l) \in {"template", "target"} => DeclaredBy(l).home = None
  BY <1>1, DeclaredType
<1>6. l.source \in {"file", "recipe", "template", "target"}
  BY <1>4 DEF Sources
<1>7. CardFits(Named(l))
  BY <1>2, <1>3, <1>4, <1>5, <1>6 DEF CardFits, CanBoot, HasItsHome, Recipe
<1>8. ASSUME l.source # "recipe" \/ Named(l).home = l.home
      PROVE  /\ Resolved(Named(l)) = Resolved(l)
             /\ Named(l).name = None => /\ Resolved(l) \notin Homes
                                        /\ Resolved(l) = "file" => Declared.site = None
  <2>1. Resolved(Named(l)) = Resolved(l)
    BY <1>2, <1>8 DEF Resolved
  <2>2. Resolved(l) \in Homes => l.source = "recipe" /\ l.home # None
    BY <1>1, <1>4, "file" \in Sources DEF Sources
  <2>. QED  BY <1>2, <1>3, <1>4, <1>5, <2>1, <2>2
<1>. QED  BY <1>2, <1>7, <1>8

LEMMA BuildFits ==
  ASSUME FilesFit, NEW p \in Pids, Build(p)
  PROVE  FilesFit'
<1> DEFINE l == proc[p].l
           named == IF l.role THEN l ELSE Named(l)
           server == ServerOf(l)
           parts == {part \in {"name", "home"} : named[part] # l[part]}
           q == [proc[p] EXCEPT !.l = named, !.server = server, !.adopted = parts,
                                !.pc = IF named.role \/ named.name = None THEN "serving" ELSE "card"]
<1>1. /\ IsServe(p) /\ proc[p].pc = "build" /\ UNCHANGED <<disk, shell, used, leaked>>
      /\ proc' = [proc EXCEPT ![p] = IF ~Boots(l) THEN Free ELSE q]
  BY DEF Build, At
<1>2. proc[p] \in Served /\ ProcFits(proc[p]) /\ l \in Launched /\ l \in Payloads
  BY <1>1, ServeTypes, LaunchedArePayloads
<1>3. CASE ~Boots(l)
  BY <1>1, <1>3, FreeFits, ProcStepFits
<1>4. CASE Boots(l)
  <2>1. /\ named \in Launched /\ named.source = l.source
        /\ ~l.role => /\ ~named.role /\ named.port = l.port /\ named = Named(l)
                      /\ CardFits(named)
        /\ l.role => named.role /\ named = l
    BY <1>2, <1>4, BuiltLaunch
  <2>2. /\ server \in Servers
        /\ ~l.role => server = [source |-> Resolved(l), port |-> l.port, site |-> named.name,
                                home |-> named.home, snapshot |-> Snapshot(l)]
    BY <1>2, ServerType DEF FilesFit
  <2>3. proc[p].plain => /\ proc[p].read # None /\ HasItsHome(proc[p].read)
                         /\ Entry(l) = proc[p].read
    BY <1>1, <1>2 DEF ProcFits, IsServe
  <2>4. proc[p].plain /\ ~l.role => Entry(named) = proc[p].read
    <3>. SUFFICES ASSUME proc[p].plain, ~l.role PROVE Entry(named) = Entry(l)
      BY <2>3
    <3>1. l.source \in {"file", "recipe"} /\ l.home = None => Declared.home = None
      BY <2>3 DEF HasItsHome, Entry
    <3>2. l.home = None => DeclaredBy(l).home = None
      <4>1. /\ l.source \in {"file", "recipe"} /\ l.home = None => Resolved(l) = "file"
            /\ l.source \in {"template", "target"} => Resolved(l) = l.source
            /\ l.source \in {"file", "recipe", "template", "target"}
        BY <1>2, ResolvedType DEF Launched, Sources
      <4>. QED  BY <1>2, <3>1, <4>1, DeclaredType DEF FilesFit
    <3>3. named.home = l.home
      BY <1>2, <2>1, <3>2, NamedType DEF FilesFit
    <3>. QED  BY <2>1, <3>3 DEF Entry
  <2>a. /\ ~l.role /\ (l.source # "recipe" \/ named.home = l.home) =>
             /\ Resolved(named) = Resolved(l)
             /\ named.name = None => /\ Resolved(l) \notin Homes
                                     /\ Resolved(l) = "file" => Declared.site = None
    BY <1>2, <1>4, <2>1, BuiltLaunch
  <2>b. /\ parts \subseteq {"name", "home"}
        /\ "home" \notin parts => named.home = l.home
        /\ parts = {} => named.name = l.name /\ named.home = l.home
    OBVIOUS
  <2>. HIDE DEF named, server, parts
  <2>5. /\ q \in Served /\ q.kind = "serve" /\ q.l = named /\ q.server = server
        /\ q.adopted = parts /\ q.plain = proc[p].plain /\ q.read = proc[p].read
        /\ q.pc = IF named.role \/ named.name = None THEN "serving" ELSE "card"
    BY <1>2, <2>1, <2>2, <2>b DEF Served, Steps
  <2>6. named.name \in Names \cup {None}
    BY <2>1 DEF Launched
  <2>7. ProcFits(q)
    <3>2. q.pc = "card" => ~named.role /\ named.name \in Names /\ ~l.role
      BY <2>1, <2>5, <2>6
    <3>3. ~named.role => CardFits(named) /\ ~l.role
      BY <2>1
    <3>4. ~named.role => ServerFits(q)
      <4>. SUFFICES ASSUME ~named.role PROVE ServerFits(q)
        OBVIOUS
      <4>1. /\ server = [source |-> Resolved(l), port |-> named.port, site |-> named.name,
                         home |-> named.home, snapshot |-> Snapshot(l)]
            /\ server.snapshot = Snapshot(l)
        BY <2>1, <2>2, <3>3
      <4>2. q.adopted = {} => Snapshot(named) = Snapshot(l)
        BY <2>5, <2>b DEF Snapshot
      <4>3. ~Moved(q) => l.source # "recipe" \/ named.home = l.home
        BY <2>1, <2>5, <2>b DEF Moved
      <4>4. q.adopted = {} => ~Moved(q)
        BY DEF Moved
      <4>. HIDE DEF q
      <4>. QED  BY <2>5, <2>a, <3>3, <4>1, <4>2, <4>3, <4>4 DEF ServerFits
    <3>5. q.plain /\ q.pc = "card" => q.read # None /\ HasItsHome(q.read) /\ Entry(q.l) = q.read
      BY <2>3, <2>4, <2>5, <3>2
    <3>. HIDE DEF q
    <3>. QED  BY <2>5, <3>2, <3>3, <3>4, <3>5 DEF ProcFits
  <2>. HIDE DEF q
  <2>. QED  BY <1>1, <1>4, <2>5, <2>7, ProcStepFits
<1>. QED  BY <1>3, <1>4

LEMMA FileCardFits ==
  ASSUME FilesFit, NEW p \in Pids, FileCard(p)
  PROVE  FilesFit'
<1> DEFINE l == proc[p].l
           q == [proc[p] EXCEPT !.pc = "pid", !.read = None]
<1>1. /\ IsServe(p) /\ proc[p].pc = "card"
      /\ cards' = [cards EXCEPT ![l.name] = Entry(l)]
      /\ proc' = [proc EXCEPT ![p] = q]
      /\ UNCHANGED <<pidfile, homes, recipes, shell, used, leaked>>
  BY DEF FileCard, At
<1>2. /\ FilesTyped /\ proc[p] \in Served /\ ProcFits(proc[p]) /\ l \in Launched
      /\ ~l.role /\ l.name \in Names
  BY <1>1, ServeTypes DEF FilesFit
<1>3. CardFits(l)
  BY <1>1, <1>2 DEF ProcFits, IsServe
<1>4. Entry(l) \in Cards /\ Entry(l).source = l.source /\ Entry(l).home = l.home
  BY <1>2 DEF Entry, Cards, Launched, MaybeHome
<1>5. CardFits(Entry(l))
  BY <1>3, <1>4 DEF CardFits, CanBoot, HasItsHome
<1>6. /\ q \in Served /\ q.kind = "serve" /\ q.pc = "pid" /\ q.l = l /\ q.plain = proc[p].plain
      /\ q.server = proc[p].server /\ q.adopted = proc[p].adopted
  BY <1>1, <1>2 DEF Served, Steps, IsServe
<1>7. ProcFits(q)
  BY <1>1, <1>2, <1>6 DEF ProcFits, ServerFits, Moved, IsServe
<1> DEFINE card == Entry(l)
<1>. HIDE DEF q, card
<1>8. \A u \in Pids : proc'[u] = proc[u] \/ ProcFits(proc[u])'
  <2>1. \A u \in Pids : proc'[u] = proc[u] \/ proc'[u] = q
    BY <1>1, <1>2 DEF FilesTyped
  <2>. QED  BY <1>1, <1>7, <2>1
    DEF ProcFits, CardFits, CanBoot, HasItsHome, Recipe, ServerFits, Moved, Entry, Snapshot,
        Resolved
<1>9. \A n \in Names : cards'[n] \in {cards[n], None} \/ CardFits(cards[n])'
  <2>1. \A n \in Names : cards'[n] = cards[n] \/ cards'[n] = card
    BY <1>1, <1>2 DEF FilesTyped, card
  <2>2. CardFits(card)
    BY <1>5 DEF card
  <2>. QED  BY <1>1, <2>1, <2>2 DEF CardFits, CanBoot, HasItsHome, Recipe
<1>10. FilesTyped'
  BY <1>1, <1>2, <1>4, <1>6 DEF FilesTyped
<1>. QED  BY <1>1, <1>8, <1>9, <1>10, StepFits

LEMMA PidStepsFit ==
  ASSUME FilesFit, NEW p \in Pids, WritePid(p) \/ ClearPid(p)
  PROVE  FilesFit'
<1> DEFINE n == proc[p].l.name
<1>1. IsServe(p) /\ proc[p].pc \in {"pid", "clear"}
  BY DEF WritePid, ClearPid, At
<1>2. FilesTyped /\ proc[p] \in Served /\ ProcFits(proc[p]) /\ n \in Names
  BY <1>1, ServeTypes DEF FilesFit
<1>3. CASE WritePid(p)
  <2> DEFINE q == [proc[p] EXCEPT !.pc = "serving"]
  <2>1. /\ proc[p].pc = "pid"
        /\ pidfile' = [pidfile EXCEPT ![n] = p] /\ used' = used \cup {<<n, p>>}
        /\ UNCHANGED <<cards, homes, recipes, shell, leaked>>
        /\ proc' = [proc EXCEPT ![p] = q]
    BY <1>3 DEF WritePid, At, Goes
  <2>2. /\ q \in Served /\ q.kind = "serve" /\ q.pc = "serving" /\ q.l = proc[p].l
        /\ q.server = proc[p].server /\ q.adopted = proc[p].adopted
    BY <1>2 DEF Served, Steps
  <2>3. ProcFits(q)
    BY <1>1, <1>2, <2>1, <2>2 DEF ProcFits, ServerFits, Moved, IsServe
  <2>. HIDE DEF q, n
  <2>4. \A u \in Pids : proc'[u] = proc[u] \/ ProcFits(proc[u])'
    <3>1. \A u \in Pids : proc'[u] = proc[u] \/ proc'[u] = q
      BY <1>2, <2>1 DEF FilesTyped
    <3>. QED  BY <2>1, <2>3, <3>1
      DEF ProcFits, CardFits, CanBoot, HasItsHome, Recipe, ServerFits, Moved, Entry, Snapshot,
        Resolved
  <2>5. \A m \in Names : pidfile'[m] \in {pidfile[m], None} \/ <<m, pidfile'[m]>> \in used'
    BY <1>2, <2>1 DEF FilesTyped
  <2>6. FilesTyped'
    BY <1>2, <2>1, <2>2 DEF FilesTyped
  <2>7. \A u \in Shells : shell'[u] = shell[u]
    BY <2>1
  <2>. QED  BY <2>1, <2>4, <2>5, <2>6, <2>7, StepFits
<1>4. CASE ClearPid(p)
  <2>1. /\ pidfile' = [pidfile EXCEPT ![n] = None] /\ proc' = [proc EXCEPT ![p] = Free]
        /\ UNCHANGED <<cards, homes, recipes, shell, used, leaked>>
    BY <1>4 DEF ClearPid
  <2>. HIDE DEF n
  <2>2. \A u \in Pids : proc'[u] = proc[u] \/ ProcFits(proc[u])'
    <3>1. \A u \in Pids : proc'[u] = proc[u] \/ proc'[u] = Free
      BY <1>2, <2>1 DEF FilesTyped
    <3>. QED  BY <3>1 DEF ProcFits, Free
  <2>3. \A m \in Names : pidfile'[m] \in {pidfile[m], None}
    BY <1>2, <2>1 DEF FilesTyped
  <2>4. FilesTyped'
    BY <1>2, <2>1, FreeFits DEF FilesTyped
  <2>. QED  BY <2>1, <2>2, <2>3, <2>4, StepFits
<1>. QED  BY <1>3, <1>4

LEMMA OtherProcStepsFit ==
  ASSUME FilesFit, NEW p \in Pids,
         \/ Leave(p) \/ Dies(p) \/ StrangerEnds(p)
         \/ \E kind \in {"stranger", "foreign"} : Recycle(p, kind)
  PROVE  FilesFit'
<1>1. CASE Leave(p)
  <2> DEFINE q == [proc[p] EXCEPT !.pc = "clear"]
  <2>1. /\ IsServe(p) /\ proc[p].pc = "serving" /\ UNCHANGED <<disk, shell, used, leaked>>
        /\ proc' = [proc EXCEPT ![p] =
             IF proc[p].l.role \/ proc[p].l.name = None THEN Free ELSE q]
    BY <1>1 DEF Leave, At
  <2>2. proc[p] \in Served /\ ProcFits(proc[p]) /\ proc[p].l \in Launched
    BY <2>1, ServeTypes
  <2>3. CASE proc[p].l.role \/ proc[p].l.name = None
    BY <2>1, <2>3, FreeFits, ProcStepFits
  <2>4. CASE ~(proc[p].l.role \/ proc[p].l.name = None)
    <3>1. /\ q \in Served /\ q.kind = "serve" /\ q.pc = "clear" /\ q.l = proc[p].l
          /\ q.server = proc[p].server /\ q.adopted = proc[p].adopted
      BY <2>2 DEF Served, Steps
    <3>2. proc[p].l.name \in Names
      BY <2>2, <2>4 DEF Launched
    <3>3. ProcFits(q)
      BY <2>1, <2>2, <2>4, <3>1, <3>2 DEF ProcFits, ServerFits, Moved, IsServe
    <3>. HIDE DEF q
    <3>. QED  BY <2>1, <2>4, <3>1, <3>3, ProcStepFits
  <2>. QED  BY <2>3, <2>4
<1>2. CASE Dies(p) \/ StrangerEnds(p)
  BY <1>2, FreeFits, ProcStepFits DEF Dies, StrangerEnds
<1>3. ASSUME NEW kind \in {"stranger", "foreign"}, Recycle(p, kind) PROVE FilesFit'
  <2>1. [kind |-> kind] \in OtherProcs /\ ProcFits([kind |-> kind])
    BY DEF OtherProcs, ProcFits
  <2>. QED  BY <1>3, <2>1, ProcStepFits DEF Recycle
<1>. QED  BY <1>1, <1>2, <1>3

\* Whatever a step is, the files fit after it.
LEMMA FilesStepFits ==
  ASSUME FilesFit,
         Call \/ (\E s \in Shells : Command(s)) \/ (\E p \in Pids : Process(p))
  PROVE  FilesFit'
<1>1. CASE Call
  BY <1>1, BeginningFits, StopFits, LaunchFits, OtherProcStepsFit DEF Call
<1>2. ASSUME NEW s \in Shells, Command(s) PROVE FilesFit'
  BY <1>2, SignalPidFits, ClearFits, UnlinkFits, SetupFits, DbFits DEF Command
<1>3. ASSUME NEW p \in Pids, Process(p) PROVE FilesFit'
  BY <1>3, BuildFits, FileCardFits, PidStepsFit, OtherProcStepsFit DEF Process
<1>. QED  BY <1>1, <1>2, <1>3

-----------------------------------------------------------------------------
(* Every step keeps a site known whose files no two commands were at.      *)

\* The process of a site that nobody races with, by what it is about to do.
LEMMA ServedAlone ==
  ASSUME NEW n \in Names, ~Overlap(n), NEW p \in Serving(n)
  PROVE  /\ p \in Pids /\ IsServe(p) /\ proc[p].l.name = n /\ ~proc[p].l.role
         /\ \A q \in Serving(n) : q = p
         /\ proc[p].pc \in {"card", "pid"} => AtFiles(n) = {}
  BY DEF Overlap, Serving

\* A shell that neither comes to the files nor changes what it is there for.
LEMMA CommandsKnown ==
  ASSUME NEW n \in Names, Known(n), UNCHANGED <<pidfile, proc>>,
         \A s \in AtFiles(n)' : s \in AtFiles(n) /\ shell'[s] = shell[s]
  PROVE  Known(n)'
<1>1. Serving(n)' = Serving(n)
  BY DEF Serving, IsServe
<1>. QED  BY <1>1 DEF Known

LEMMA QuietCommandsKnown ==
  ASSUME FilesFit, NEW n \in Names, Known(n), NEW s \in Shells,
         \/ Prepare(s) \/ WriteRecipe(s) \/ SaveCard(s)
         \/ DbClose(s) \/ DbInterrupted(s) \/ DbEnds(s) \/ Db(s)
         \/ \E raises \in BOOLEAN : DbOpen(s, raises) \/ DbOperate(s, raises)
         \/ \E m \in Names, f \in Forms : Configure(s, m, f)
  PROVE  Known(n)'
<1>1. /\ UNCHANGED <<pidfile, proc>>
      /\ \A u \in Shells : u # s => shell'[u] = shell[u]
  BY DEF FilesFit, FilesTyped, Does, disk,
     Prepare, WriteRecipe, SaveCard, DbClose, DbInterrupted, DbEnds, Db, DbOpen, DbOperate, Configure
<1>2. shell'[s].op \in {"idle", "prepare", "recipe", "save", "open", "close"}
  <2>1. CASE \E m \in Names, f \in Forms : Configure(s, m, f)
    BY <2>1 DEF FilesFit, FilesTyped, Does, Configure
  <2>2. CASE Prepare(s) \/ WriteRecipe(s) \/ SaveCard(s)
    <3>1. shell[s] \in SetupCommands
      BY <2>2, CommandTypes DEF FilesFit, Prepare, WriteRecipe, SaveCard
    <3>. QED  BY <2>2, <3>1 DEF FilesFit, FilesTyped, Does, Prepare, WriteRecipe, SaveCard, Idle, SetupCommands
  <2>3. CASE DbInterrupted(s) \/ DbEnds(s) \/ Db(s)
    BY <2>3 DEF FilesFit, FilesTyped, Does, DbInterrupted, DbEnds, Db, Idle
  <2>4. CASE DbClose(s) \/ \E raises \in BOOLEAN : DbOpen(s, raises) \/ DbOperate(s, raises)
    <3>1. shell[s] \in DbCommands /\ shell[s].op \in {"open", "close"}
      BY <2>4, CommandTypes DEF FilesFit, DbClose, DbOpen, DbOperate
    <3>2. \/ shell'[s] = [shell[s] EXCEPT !.op = "close"]
          \/ shell'[s] = [shell[s] EXCEPT !.opened = @ + 1,
                                          !.open = @ \cup {shell[s].opened + 1}]
          \/ shell'[s] = [shell[s] EXCEPT !.closed = @ + 1,
                                          !.open = @ \ {shell[s].closed + 1}]
      BY <2>4 DEF FilesFit, FilesTyped, Does, DbClose, DbOpen, DbOperate
    <3>. QED  BY <3>1, <3>2 DEF DbCommands
  <2>. QED  BY <2>1, <2>2, <2>3, <2>4
<1>3. \A u \in AtFiles(n)' : u \in AtFiles(n) /\ shell'[u] = shell[u]
  BY <1>1, <1>2 DEF AtFiles
<1>. QED  BY <1>1, <1>3, CommandsKnown

\* stop and remove judge the pid file: of a site that serves, it names the process.
LEMMA FilesCommandsKnown ==
  ASSUME FilesFit, NEW n \in Names, Known(n), ~Overlap(n), ~Overlap(n)',
         NEW s \in Shells, NEW m \in Names, Stop(s, m) \/ Remove(s, m)
  PROVE  Known(n)'
<1>1. /\ UNCHANGED <<pidfile, proc>>
      /\ \A u \in Shells : u # s => shell'[u] = shell[u]
      /\ shell'[s].name = m
      /\ shell'[s].op \in {"signal", "clear", "unlink"}
      /\ ReadPid(m) # None => shell'[s].op = "signal" /\ shell'[s].pid = ReadPid(m)
  BY DEF FilesFit, FilesTyped, Does, disk, Stop, Remove
<1>2. Serving(n)' = Serving(n)
  BY <1>1 DEF Serving, IsServe
<1>3. CASE m # n
  <2>1. \A u \in AtFiles(n)' : u \in AtFiles(n) /\ shell'[u] = shell[u]
    BY <1>1, <1>3 DEF AtFiles
  <2>. QED  BY <1>1, <2>1, CommandsKnown
<1>4. CASE m = n
  <2>. SUFFICES ASSUME NEW u \in AtFiles(n)', NEW p \in Serving(n)
                PROVE  shell'[u].op = "signal" /\ shell'[u].pid = p
    BY <1>1, <1>2 DEF Known
  <2>1. CASE u # s
    BY <2>1, <1>1 DEF Known, AtFiles
  <2>2. CASE u = s
    <3>1. proc'[p].pc \notin {"card", "pid"}
      BY <1>2, ServedAlone DEF Overlap
    <3>2. proc[p].pc \in {"serving", "clear"} /\ IsServe(p) /\ p \in Pids
      BY <3>1, <1>1 DEF Serving
    <3>3. pidfile[n] = p
      BY <3>2 DEF Known
    <3>4. ReadPid(n) = p /\ p # None
      BY <3>2, <3>3, CommandAssumption DEF ReadPid, IsServe
    <3>. QED  BY <2>2, <3>4, <1>1, <1>4
  <2>. QED  BY <2>1, <2>2
<1>. QED  BY <1>3, <1>4

LEMMA EndingCommandsKnown ==
  ASSUME FilesFit, NEW n \in Names, Known(n), NEW s \in Shells,
         SignalPid(s) \/ Clear(s) \/ Unlink(s)
  PROVE  Known(n)'
<1>1. /\ \A u \in Shells : u # s => shell'[u] = shell[u]
      /\ shell[s].op \in {"signal", "clear", "unlink"} /\ shell[s].name \in Names
  BY CommandTypes DEF FilesFit, FilesTyped, Does, SignalPid, Clear, Unlink, FileCommands, SignalCommands
<1>2. s \in AtFiles(n) <=> shell[s].name = n
  BY <1>1 DEF AtFiles
<1>3. CASE SignalPid(s)
  <2> DEFINE q == shell[s].pid
  <2>1. /\ shell[s].op = "signal" /\ q \in Pids /\ pidfile' = pidfile
        /\ proc' = [proc EXCEPT ![q] = IF @.kind = "stranger" THEN Free ELSE @]
        /\ shell'[s] = IF Alive(q) THEN Idle ELSE [op |-> "clear", name |-> shell[s].name]
    BY <1>3, CommandTypes DEF SignalPid, FilesFit, FilesTyped, Does, SignalCommands, disk
  <2>. HIDE DEF q
  <2>2. \A p \in Pids : IsServe(p)' => proc'[p] = proc[p]
    BY <2>1 DEF FilesFit, FilesTyped, IsServe, Free
  <2>3. \A p \in Serving(n)' : p \in Serving(n) /\ proc'[p] = proc[p]
    BY <2>2 DEF Serving, IsServe
  <2>4. ASSUME NEW u \in AtFiles(n)', NEW p \in Serving(n)'
        PROVE  shell'[u].op = "signal" /\ shell'[u].pid = p
    <3>1. CASE u # s
      BY <3>1, <1>1, <2>3, <2>4 DEF Known, AtFiles
    <3>2. CASE u = s
      <4>1. ~Alive(q) /\ shell[s].name = n
        BY <3>2, <2>1, <2>4 DEF AtFiles, Idle
      <4>2. p = q
        BY <4>1, <1>2, <2>3, <2>4 DEF Known, q
      <4>. QED  BY <4>1, <4>2, <2>3, <2>4 DEF Serving, IsServe, Alive
    <3>. QED  BY <3>1, <3>2
  <2>. QED  BY <2>1, <2>3, <2>4 DEF Known
<1>4. CASE Clear(s)
  <2>1. /\ proc' = proc /\ pidfile' = [pidfile EXCEPT ![shell[s].name] = None]
        /\ shell'[s] = Idle /\ shell[s].op = "clear"
    BY <1>4 DEF Clear, FilesFit, FilesTyped, Does
  <2>2. Serving(n)' = Serving(n)
    BY <2>1 DEF Serving, IsServe
  <2>3. \A u \in AtFiles(n)' : u \in AtFiles(n) /\ shell'[u] = shell[u]
    BY <1>1, <2>1 DEF AtFiles, Idle
  <2>4. shell[s].name = n => Serving(n) = {}
    BY <1>2, <2>1 DEF Known
  <2>5. shell[s].name # n => pidfile'[n] = pidfile[n]
    BY <2>1 DEF FilesFit, FilesTyped
  <2>. QED  BY <2>1, <2>2, <2>3, <2>4, <2>5 DEF Known
<1>5. CASE Unlink(s)
  <2>1. /\ proc' = proc /\ pidfile' = pidfile /\ shell[s].op = "unlink"
        /\ shell'[s] = IF cards[shell[s].name] = None THEN Idle
                       ELSE [op |-> "clear", name |-> shell[s].name]
    BY <1>5 DEF Unlink, FilesFit, FilesTyped, Does
  <2>2. Serving(n)' = Serving(n)
    BY <2>1 DEF Serving, IsServe
  <2>3. shell[s].name = n => Serving(n) = {}
    BY <1>2, <2>1 DEF Known
  <2>4. shell[s].name # n => \A u \in AtFiles(n)' : u \in AtFiles(n) /\ shell'[u] = shell[u]
    BY <1>1, <2>1 DEF AtFiles, Idle
  <2>. QED  BY <2>1, <2>2, <2>3, <2>4, CommandsKnown DEF Known
<1>. QED  BY <1>3, <1>4, <1>5

\* A step of one process, which comes to the files of n only where nobody else is.
LEMMA ProcsKnown ==
  ASSUME NEW n \in Names, Known(n), NEW p \in Pids, UNCHANGED shell,
         pidfile'[n] = pidfile[n],
         \A q \in Pids : q # p => proc'[q] = proc[q],
         p \in Serving(n)' =>
           \/ p \in Serving(n) /\ (proc'[p].pc \in {"serving", "clear"}
                                     => proc[p].pc \in {"serving", "clear"})
           \/ AtFiles(n) = {} /\ proc'[p].pc = "card"
  PROVE  Known(n)'
<1>1. \A q \in Serving(n)' : q # p => q \in Serving(n) /\ proc'[q] = proc[q]
  BY DEF Serving, IsServe
<1>2. AtFiles(n)' = AtFiles(n)
  BY DEF AtFiles
<1>. QED  BY <1>1, <1>2 DEF Known

LEMMA LaunchKnown ==
  ASSUME FilesFit, NEW n \in Names, Known(n), ~Overlap(n)', NEW p \in Pids,
         \/ Build(p)
         \/ \E o \in Launches : Launch(o, p)
  PROVE  Known(n)'
<1>1. /\ UNCHANGED <<shell, pidfile>> /\ \A q \in Pids : q # p => proc'[q] = proc[q]
  BY DEF FilesFit, FilesTyped, Build, Launch, disk
<1>2. CASE Build(p)
  <2>. SUFFICES ASSUME p \in Serving(n)' PROVE AtFiles(n) = {} /\ proc'[p].pc = "card"
    BY <1>1, ProcsKnown
  <2>1. IsServe(p) /\ proc[p].pc = "build" /\ proc[p] \in Served
    BY <1>2, ServeTypes DEF Build, At
  <2>2. /\ proc'[p].kind = "serve" /\ ~proc'[p].l.role /\ proc'[p].l.name = n
    BY DEF Serving, IsServe
  <2>3. proc'[p].pc = "card"
    <3> DEFINE l == proc[p].l
               named == IF l.role THEN l ELSE Named(l)
               server == ServerOf(l)
               changed == {part \in {"name", "home"} : named[part] # l[part]}
    <3>1. proc'[p] = IF ~Boots(l) THEN Free
                     ELSE [proc[p] EXCEPT !.l = named, !.server = server, !.adopted = changed,
                             !.pc = IF named.role \/ named.name = None THEN "serving" ELSE "card"]
      BY <1>2 DEF Build, FilesFit, FilesTyped
    <3>2. Boots(l)
      BY <2>2, <3>1 DEF Free
    <3>. HIDE DEF l, named, server, changed
    <3>3. proc'[p].l = named
          /\ proc'[p].pc = IF named.role \/ named.name = None THEN "serving" ELSE "card"
      BY <2>1, <3>1, <3>2 DEF Served
    <3>. QED  BY <2>2, <3>3, CommandAssumption
  <2>4. AtFiles(n)' = {}
    BY <2>3 DEF Overlap
  <2>. QED  BY <1>1, <2>3, <2>4 DEF AtFiles
<1>3. ASSUME NEW o \in Launches, Launch(o, p) PROVE p \notin Serving(n)'
  <2>1. proc'[p].pc = "build"
    BY <1>3 DEF Launch, FilesFit, FilesTyped
  <2>. QED  BY <2>1 DEF Serving
<1>. QED  BY <1>1, <1>2, <1>3, ProcsKnown

LEMMA RunningKnown ==
  ASSUME FilesFit, NEW n \in Names, Known(n), ~Overlap(n), NEW p \in Pids,
         \/ FileCard(p) \/ WritePid(p) \/ Leave(p) \/ ClearPid(p) \/ Dies(p) \/ StrangerEnds(p)
         \/ \E kind \in {"stranger", "foreign"} : Recycle(p, kind)
  PROVE  Known(n)'
<1>1. UNCHANGED shell /\ \A q \in Pids : q # p => proc'[q] = proc[q]
  BY DEF FilesFit, FilesTyped, FileCard, WritePid, Leave, ClearPid, Dies, StrangerEnds, Recycle,
     Goes, disk
<1>2. CASE FileCard(p)
  <2>1. proc'[p] = [proc[p] EXCEPT !.pc = "pid", !.read = None] /\ pidfile' = pidfile
    BY <1>2 DEF FileCard, FilesFit, FilesTyped
  <2>2. IsServe(p) /\ proc[p] \in Served /\ proc[p].pc = "card"
    BY <1>2, ServeTypes DEF FileCard, At
  <2>3. proc'[p].pc = "pid" /\ proc'[p].l = proc[p].l
    BY <2>1, <2>2 DEF Served
  <2>. QED  BY <1>1, <2>1, <2>2, <2>3, ProcsKnown DEF Serving
<1>3. CASE WritePid(p)
  <2>1. /\ proc'[p] = [proc[p] EXCEPT !.pc = "serving"]
        /\ pidfile' = [pidfile EXCEPT ![proc[p].l.name] = p]
    BY <1>3 DEF WritePid, Goes, FilesFit, FilesTyped
  <2>2. IsServe(p) /\ proc[p] \in Served /\ proc[p].pc = "pid" /\ ~proc[p].l.role
        /\ proc[p].l.name \in Names
    BY <1>3, ServeTypes DEF WritePid, At
  <2>3. proc'[p].pc = "serving" /\ proc'[p].l = proc[p].l /\ proc'[p].kind = "serve"
    BY <2>1, <2>2 DEF Served
  <2>4. CASE proc[p].l.name # n
    <3>1. p \notin Serving(n)' /\ pidfile'[n] = pidfile[n]
      BY <2>1, <2>3, <2>4 DEF Serving, FilesFit, FilesTyped
    <3>. QED  BY <1>1, <3>1, ProcsKnown
  <2>5. CASE proc[p].l.name = n
    <3>1. p \in Serving(n)
      BY <2>2, <2>5 DEF Serving
    <3>2. AtFiles(n) = {} /\ \A q \in Serving(n) : q = p
      BY <2>2, <3>1, ServedAlone
    <3>3. \A q \in Serving(n)' : q = p
      BY <1>1, <3>2 DEF Serving, IsServe
    <3>4. pidfile'[n] = p /\ AtFiles(n)' = {}
      BY <1>1, <2>1, <2>5, <3>2 DEF AtFiles, FilesFit, FilesTyped
    <3>. QED  BY <3>3, <3>4 DEF Known
  <2>. QED  BY <2>4, <2>5
<1>4. CASE Leave(p)
  <2>1. /\ proc'[p] = IF proc[p].l.role \/ proc[p].l.name = None THEN Free
                      ELSE [proc[p] EXCEPT !.pc = "clear"]
        /\ pidfile' = pidfile
    BY <1>4 DEF Leave, FilesFit, FilesTyped, disk
  <2>2. IsServe(p) /\ proc[p] \in Served /\ proc[p].pc = "serving"
    BY <1>4, ServeTypes DEF Leave, At
  <2>3. p \in Serving(n)' => proc'[p].l = proc[p].l
    BY <2>1, <2>2 DEF Serving, IsServe, Served, Free
  <2>4. p \in Serving(n)' => p \in Serving(n)
    BY <2>2, <2>3 DEF Serving
  <2>. QED  BY <1>1, <2>1, <2>2, <2>4, ProcsKnown
<1>5. CASE ClearPid(p)
  <2>1. /\ proc'[p] = Free /\ pidfile' = [pidfile EXCEPT ![proc[p].l.name] = None]
    BY <1>5 DEF ClearPid, FilesFit, FilesTyped
  <2>2. IsServe(p) /\ proc[p].pc = "clear" /\ ~proc[p].l.role
        /\ proc[p].l.name \in Names
    BY <1>5, ServeTypes DEF ClearPid, At
  <2>3. p \notin Serving(n)'
    BY <2>1 DEF Serving, IsServe, Free
  <2>4. CASE proc[p].l.name # n
    <3>1. pidfile'[n] = pidfile[n]
      BY <2>1, <2>4 DEF FilesFit, FilesTyped
    <3>. QED  BY <1>1, <2>3, <3>1, ProcsKnown
  <2>5. CASE proc[p].l.name = n
    <3>1. \A q \in Serving(n) : q = p
      BY <2>2, <2>5, ServedAlone DEF Serving
    <3>2. Serving(n)' = {}
      BY <1>1, <2>3, <3>1 DEF Serving, IsServe
    <3>. QED  BY <3>2 DEF Known
  <2>. QED  BY <2>4, <2>5
<1>6. CASE Dies(p) \/ StrangerEnds(p) \/ \E kind \in {"stranger", "foreign"} : Recycle(p, kind)
  <2>1. pidfile' = pidfile /\ proc'[p].kind # "serve"
    BY <1>6 DEF Dies, StrangerEnds, Recycle, Free, FilesFit, FilesTyped, disk
  <2>2. p \notin Serving(n)'
    BY <2>1 DEF Serving, IsServe
  <2>. QED  BY <1>1, <2>1, <2>2, ProcsKnown
<1>. QED  BY <1>2, <1>3, <1>4, <1>5, <1>6

LEMMA SitesInitHolds == SitesInit => SitesInv
<1>. SUFFICES ASSUME SitesInit PROVE SitesInv
  OBVIOUS
<1>1. /\ \A n \in Names : cards[n] = None /\ pidfile[n] = None
      /\ \A p \in Pids : proc[p] = Free
      /\ \A s \in Shells : shell[s] = Idle
  BY DEF SitesInit
<1>2. FilesTyped
  BY FreeFits DEF SitesInit, FilesTyped
<1>3. FilesFit
  <2>1. \A s \in Shells : CommandFits(shell[s])
    BY <1>1 DEF CommandFits, Idle
  <2>2. \A p \in Pids : ProcFits(proc[p])
    BY <1>1 DEF ProcFits, Free
  <2>. QED  BY <1>1, <1>2, <2>1, <2>2 DEF FilesFit, SitesInit
<1>4. \A n \in Names : AloneHolds(n)
  BY <1>1 DEF AloneHolds, Known, Overlap, Serving, IsServe, Free
<1>. QED  BY <1>3, <1>4, CommandAssumption DEF SitesInit, SitesInv

LEMMA SitesStepHolds == SitesInv /\ [SitesNext]_siteVars => SitesInv'
<1>. SUFFICES ASSUME SitesInv, [SitesNext]_siteVars PROVE SitesInv'
  OBVIOUS
<1>1. CASE UNCHANGED siteVars
  <2>1. UNCHANGED <<cards, pidfile, homes, recipes, proc, shell, raced, used, leaked, calls>>
    BY <1>1 DEF siteVars, disk
  <2>2. FilesTyped'
    BY <2>1 DEF SitesInv, FilesFit, FilesTyped
  <2>3. FilesFit'
    BY <2>1, <2>2, StepFits DEF SitesInv
  <2>4. \A n \in Names : AloneHolds(n)'
    BY <2>1 DEF SitesInv, AloneHolds, Known, Overlap, Serving, AtFiles, IsServe
  <2>. QED  BY <2>1, <2>3, <2>4 DEF SitesInv
<1>2. CASE SitesNext
  <2>1. FilesFit'
    BY <1>2, FilesStepFits DEF SitesNext, SitesInv
  <2>2. raced' \subseteq Names /\ calls' \in 0 .. MaxCalls
    BY <1>2, CommandAssumption DEF SitesNext, SitesInv
  <2>3. ASSUME NEW n \in Names PROVE AloneHolds(n)'
    <3>. SUFFICES ASSUME n \notin raced' PROVE ~Overlap(n)' /\ Known(n)'
      BY DEF AloneHolds
    <3>1. n \notin raced /\ ~Overlap(n)'
      BY <1>2 DEF SitesNext
    <3>2. FilesFit /\ ~Overlap(n) /\ Known(n)
      BY <3>1 DEF SitesInv, AloneHolds
    <3>3. CASE Call
      BY <3>1, <3>2, <3>3, QuietCommandsKnown, FilesCommandsKnown, LaunchKnown, RunningKnown
      DEF Call
    <3>4. ASSUME NEW s \in Shells, Command(s) PROVE Known(n)'
      BY <3>2, <3>4, QuietCommandsKnown, EndingCommandsKnown DEF Command
    <3>5. ASSUME NEW p \in Pids, Process(p) PROVE Known(n)'
      BY <3>1, <3>2, <3>5, LaunchKnown, RunningKnown DEF Process
    <3>. QED  BY <1>2, <3>1, <3>3, <3>4, <3>5 DEF SitesNext
  <2>. QED  BY <2>1, <2>2, <2>3 DEF SitesInv
<1>. QED  BY <1>1, <1>2

LEMMA SitesInvariant == SitesSpec => []SitesInv
  BY SitesInitHolds, SitesStepHolds, PTL DEF SitesSpec

-----------------------------------------------------------------------------
(* What follows.                                                           *)

\* For any names, pids, shells, command lines and recipes: a site that runs is
\* on file under its own pid until two commands are at its files together, a
\* signal goes only to a pid that was written under that name, and every card
\* whose home was not adopted from a configuration can be served, one with a
\* relative source and no home from its directory
\* (ServerLauncher.run, resolved_source, Cli.stop, SiteConfigurator.run).
THEOREM FilesStayTrue == SitesSpec => []FilesAreTrue
<1>1. SitesInv => FilesAreTrue
  <2>. SUFFICES ASSUME SitesInv PROVE FilesAreTrue
    OBVIOUS
  <2>1. FilesFit /\ FilesTyped
    BY DEF SitesInv, FilesFit
  <2>2. SitesTypeOK
    <3>1. ASSUME NEW p \in Pids
          PROVE  \/ proc[p].kind \in {"free", "stranger", "foreign"}
                 \/ /\ proc[p].pc \in {"build", "card", "pid", "serving", "clear"}
                    /\ proc[p].l \in Options /\ proc[p].l.source \in Sources
                    /\ proc[p].adopted \subseteq {"name", "home"}
      <4>1. CASE IsServe(p)
        BY <2>1, <4>1, ServeTypes DEF Served, Steps, Launched, Options, MaybeHome
      <4>2. CASE ~IsServe(p)
        BY <2>1, <4>2, ProcTypes DEF OtherProcs
      <4>. QED  BY <4>1, <4>2
    <3>. QED  BY <2>1, <3>1 DEF SitesTypeOK, FilesTyped, FilesFit, SitesInv
  <2>3. CardsBoot
    BY <2>1 DEF FilesFit, CardFits, CanBoot, Recipe, CardsBoot
  <2>4. RunningIsKnown
    BY <2>1 DEF RunningIsKnown, SitesInv, AloneHolds, Known, FilesFit, CommandFits
  <2>. QED  BY <2>2, <2>3, <2>4 DEF FilesAreTrue
<1>. QED  BY <1>1, SitesInvariant, PTL

\* For any handlers: a db command that was not cut short in its closing has
\* closed every handler it opened, whatever raised (DatabaseCommand.operate).
THEOREM DbLeavesNothingOpen == SitesSpec => []OpenedIsClosed
<1>1. SitesInv => OpenedIsClosed
  BY DEF SitesInv, FilesFit, OpenedIsClosed
<1>. QED  BY <1>1, SitesInvariant, PTL

\* For any launch and recipe: the process of a reload serves what the launch
\* built, unless a relative source was built before its configuration gave the
\* home (launcher_payload, resolved_source, serve_reloading, factory).
THEOREM ReloadServesTheSame == SitesSpec => []RebuildsTheSame
<1>1. SitesInv => RebuildsTheSame
  <2>. SUFFICES ASSUME SitesInv, NEW p \in Pids,
                       IsServe(p), proc[p].pc # "build", ~proc[p].l.role
                PROVE  LET built == proc[p].server
                           again == Rebuilt(proc[p].l, built)
                       IN /\ ~(proc[p].l.source = "recipe" /\ "home" \in proc[p].adopted)
                               => [again EXCEPT !.snapshot = None]
                                    = [built EXCEPT !.snapshot = None]
                          /\ proc[p].adopted = {} => again.snapshot = built.snapshot
    BY DEF RebuildsTheSame
  <2> DEFINE l == proc[p].l
             built == proc[p].server
  <2>1. FilesFit /\ FilesTyped /\ proc[p].kind = "serve"
    BY DEF SitesInv, FilesFit, IsServe
  <2>2. l \in Launched /\ l \in Payloads /\ ~l.role /\ HasItsHome(l) /\ ServerFits(proc[p])
    BY <2>1, ServeTypes, LaunchedArePayloads DEF ProcFits, CardFits
  <2>3. /\ ~Moved(proc[p]) =>
             /\ built = [source |-> Resolved(l), port |-> l.port, site |-> l.name,
                         home |-> l.home, snapshot |-> built.snapshot]
             /\ l.name = None => /\ Resolved(l) \notin Homes
                                 /\ Resolved(l) = "file" => Declared.site = None
        /\ proc[p].adopted = {} => ~Moved(proc[p]) /\ built.snapshot = Snapshot(l)
    BY <2>2 DEF ServerFits
  <2>4. Moved(proc[p]) <=> l.source = "recipe" /\ "home" \in proc[p].adopted
    BY DEF Moved
  <2>. SUFFICES ASSUME ~Moved(proc[p])
                PROVE  /\ [Rebuilt(l, built) EXCEPT !.snapshot = None]
                            = [built EXCEPT !.snapshot = None]
                       /\ proc[p].adopted = {} => Rebuilt(l, built).snapshot = built.snapshot
    BY <2>3, <2>4
  <2> DEFINE pay == Payload(l, built)
  <2>. HIDE DEF l, built
  <2>5. Resolved(l) \in {"file", "template", "target"} \cup Homes
    BY <2>2, ResolvedType
  <2>6. /\ pay \in Payloads /\ pay.source = Resolved(l) /\ pay.name = l.name /\ pay.home = l.home
        /\ pay.port = l.port /\ pay.role = l.role
    <3>1. pay = [l EXCEPT !.source = Resolved(l), !.port = l.port]
      <4>1. built.port = l.port
        BY <2>3
      <4>. QED  BY <4>1 DEF Payload
    <3>. HIDE DEF pay
    <3>. QED  BY <2>2, <2>5, <3>1 DEF Payloads, Sources
  <2>. HIDE DEF pay
  <2>7. Resolved(pay) = Resolved(l) /\ Snapshot(pay) = Snapshot(l)
    <3>1. Resolved(l) # "recipe"
      BY <2>5, LaunchesAssumption DEF Sources
    <3>. QED  BY <2>6, <3>1 DEF Resolved, Snapshot
  <2>8. Named(pay).name = l.name /\ Named(pay).home = l.home
    <3>1. l.name = None => DeclaredBy(pay).site = None
      BY <2>1, <2>3, <2>5, <2>6, <2>7, DeclaredType
    <3>2. l.home = None => DeclaredBy(pay).home = None
      <4>1. l.home = None => /\ Resolved(l) \notin Homes
                             /\ Resolved(l) = "file" => l.source \in {"file", "recipe"}
        BY <2>2, ResolvedType, LaunchesAssumption DEF Launched, Sources
      <4>. QED  BY <2>1, <2>2, <2>5, <2>6, <2>7, <4>1, DeclaredType DEF HasItsHome
    <3>. QED  BY <2>1, <2>6, <3>1, <3>2, NamedType
  <2>9. Rebuilt(l, built) = [source |-> Resolved(l), port |-> l.port, site |-> l.name,
                             home |-> l.home, snapshot |-> Snapshot(l)]
    BY <2>1, <2>2, <2>6, <2>7, <2>8, ServerType DEF Rebuilt, pay
  <2>. QED  BY <2>3, <2>9
<1>. QED  BY <1>1, SitesInvariant, PTL

\* In every step: to serve a name with no option of its own leaves its card as
\* it is, when nobody wrote the card since the launch read it (ServerLauncher.run).
THEOREM ServingKeepsCards == SitesSpec => ServingKeepsTheCard
<1> DEFINE Keeps ==
      \A p \in Pids :
        /\ At(p, "card") /\ At(p, "pid")'
        /\ proc[p].plain
        /\ proc[p].read = cards[proc[p].l.name]
        => cards' = cards
<1>1. SitesInv /\ [SitesNext]_siteVars => [Keeps]_siteVars
  <2>. SUFFICES ASSUME SitesInv, SitesNext, NEW p \in Pids,
                       At(p, "card"), At(p, "pid")', proc[p].plain,
                       proc[p].read = cards[proc[p].l.name]
                PROVE  cards' = cards
    OBVIOUS
  <2>1. FilesFit /\ FilesTyped /\ proc[p].pc = "card" /\ proc[p].kind = "serve" /\ IsServe(p)
    BY DEF SitesInv, FilesFit, At, IsServe
  <2>2. proc'[p].pc = "pid" /\ proc'[p] # proc[p]
    BY <2>1 DEF At
  <2>3. ASSUME NEW s \in Shells, Unlink(s) \/ SaveCard(s) PROVE FALSE
    BY <2>2, <2>3 DEF Unlink, SaveCard
  <2>4. ASSUME NEW q \in Pids, FileCard(q) PROVE cards' = cards
    <3>1. q = p
      BY <2>1, <2>2, <2>4 DEF FileCard, FilesTyped
    <3>2. cards' = [cards EXCEPT ![proc[p].l.name] = Entry(proc[p].l)]
      BY <2>4, <3>1 DEF FileCard
    <3>3. Entry(proc[p].l) = proc[p].read
      BY <2>1 DEF FilesFit, ProcFits
    <3>. QED  BY <2>1, <3>2, <3>3 DEF FilesTyped
  <2>5. CASE Call
    BY <2>5 DEF Call, Db, Stop, Remove, Configure, Launch, Recycle, disk
  <2>6. ASSUME NEW s \in Shells, Command(s) PROVE cards' = cards
    BY <2>3, <2>6 DEF Command, SignalPid, Clear, Prepare, WriteRecipe, DbClose, DbInterrupted,
       DbEnds, DbOpen, DbOperate, disk
  <2>7. ASSUME NEW q \in Pids, Process(q) PROVE cards' = cards
    BY <2>4, <2>7 DEF Process, Build, WritePid, Leave, ClearPid, Dies, StrangerEnds, disk
  <2>. QED  BY <2>5, <2>6, <2>7 DEF SitesNext
<1>. QED  BY <1>1, SitesInvariant, PTL DEF SitesSpec, ServingKeepsTheCard
=============================================================================
