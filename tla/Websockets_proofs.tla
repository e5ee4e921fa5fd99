------------------------- MODULE Websockets_proofs -------------------------
(***************************************************************************)
(* The websockets a server serves itself, and below, those it carries to   *)
(* the process of an external application, next to its requests.           *)
(*                                                                         *)
(* Of WsxConnection, for any connections, pages and messages: typing, the  *)
(* agreement of the registry with the associations, and that a page is     *)
(* reached on its live channel.                                            *)
(***************************************************************************)
EXTENDS WsxConnection, WebsocketRelay, FiniteSetTheorems, SequenceTheorems, TLAPS

\* The registry holds the connections that are served, and those cancelled in
\* their drain.
Registration ==
  \A s \in Connections :
    /\ s \in sockets <=> serve[s] \in {"reading", "ponging", "draining"} \/ s \in torn
    /\ s \in torn => serve[s] = "over"

\* A message was read on a connection past its gate.
ReadPastGate == \A m \in Messages : msg[m] # "unsent" => serve[On[m]] \notin {"new", "gate"}

\* A message that may still bind its page is on a registered socket.
BindersRegistered ==
  \A m \in Messages : msg[m] \in InFlight \ {"writing"} /\ m \notin cut => On[m] \in sockets

Bindings == \A p \in Pages : bound[p] \in sockets \cup {none}

NewestOfPage == \A p \in Pages : newest[p] # none => PageOf[newest[p]] = p

\* What bound its page is past the application.
GrantedAnswered ==
  \A m \in Messages : m \in granted => msg[m] \in {"cleaning", "writing", "done"}

Links == Registration /\ ReadPastGate /\ BindersRegistered /\ Bindings /\ GrantedAnswered
           /\ NewestOfPage

ConnectionsInv == ConnectionsTypeOK /\ Links /\ PageIsReached

\* The types of the variables, without the slots.
Typing ==
  /\ leaving \in BOOLEAN
  /\ serve \in [Connections -> {"new", "gate", "reading", "ponging", "draining", "over"}]
  /\ gone \subseteq Connections
  /\ connected \in [Connections -> BOOLEAN]
  /\ sockets \subseteq Connections
  /\ bound \in [Pages -> Connections \cup {none}]
  /\ msg \in [Messages -> InFlight \cup {"unsent", "done"}]
  /\ queue \in [Connections -> Seq(Messages)]
  /\ cut \subseteq Messages
  /\ newest \in [Pages -> Messages \cup {none}]
  /\ granted \subseteq Messages
  /\ overtaken \subseteq Pages
  /\ answered \subseteq Messages
  /\ torn \subseteq Connections

Slots == \A s \in Connections : Cardinality(Running(s)) <= MaxConcurrent

LEMMA Splits == ConnectionsTypeOK <=> Typing /\ Slots
BY DEF ConnectionsTypeOK, Typing, Slots

-----------------------------------------------------------------------------
(* Initially. *)

LEMMA Initially == ConnectionsInit => ConnectionsInv
<1> SUFFICES ASSUME ConnectionsInit PROVE ConnectionsInv
  OBVIOUS
<1> USE DEF ConnectionsInit
<1>1. Typing
  <2>1. [s \in Connections |-> <<>>] \in [Connections -> Seq(Messages)]
    OBVIOUS
  <2>2. [m \in Messages |-> "unsent"] \in [Messages -> InFlight \cup {"unsent", "done"}]
    OBVIOUS
  <2> QED
    BY <2>1, <2>2 DEF Typing
<1>2. Slots
  <2>1. \A s \in Connections : Running(s) = {}
    BY DEF Running, Of
  <2>2. Cardinality({}) = 0 /\ 0 <= MaxConcurrent
    BY FS_EmptySet, SlotAssumption
  <2> QED
    BY <2>1, <2>2 DEF Slots
<1>3. Links
  BY DEF Links, Registration, ReadPastGate, BindersRegistered, Bindings, GrantedAnswered, NewestOfPage, InFlight
<1>4. PageIsReached
  BY DEF PageIsReached
<1> QED
  BY <1>1, <1>2, <1>3, <1>4, Splits DEF ConnectionsInv

-----------------------------------------------------------------------------
(* Types. *)

LEMMA TypingStep == ASSUME Typing, [ConnectionsNext]_connectionVars PROVE Typing'
<1> USE MessageAssumption, NoneAssumption
<1>1. CASE UNCHANGED connectionVars
  BY <1>1 DEF Typing, connectionVars, registry, history
<1>2. CASE Signal
  BY <1>2 DEF Typing, Signal, registry, history
<1>3. ASSUME NEW s \in Connections, Connection(s) PROVE Typing'
  <2>1. CASE ClientLeaves(s)
    BY <2>1 DEF Typing, ClientLeaves, registry, history
  <2>2. CASE Handshake(s)
    BY <2>2 DEF Typing, Handshake, registry, history
  <2>3. CASE GateOpens(s)
    BY <2>3 DEF Typing, GateOpens, registry, history
  <2>4. CASE GateCloses(s)
    BY <2>4 DEF Typing, GateCloses, registry, history
  <2>5. CASE ReadsDisconnect(s)
    BY <2>5 DEF Typing, ReadsDisconnect, registry, history
  <2>6. CASE DrainEnds(s)
    BY <2>6 DEF Typing, DrainEnds, Unregisters, Unbound, registry, history
  <2>7. CASE DrainTimesOut(s)
    BY <2>7 DEF Typing, DrainTimesOut, Unregisters, Unbound, Tasks, Of, registry, history
  <2>8. CASE CancelGate(s)
    BY <2>8 DEF Typing, CancelGate, registry, history
  <2>9. CASE CancelReading(s)
    BY <2>9 DEF Typing, CancelReading, registry, history
  <2>10. CASE CancelDrain(s)
    BY <2>10 DEF Typing, CancelDrain, registry, history
  <2> QED
    BY <1>3, <2>1, <2>2, <2>3, <2>4, <2>5, <2>6, <2>7, <2>8, <2>9, <2>10 DEF Connection
<1>4. ASSUME NEW m \in Messages, ServesMessage(m) PROVE Typing'
  <2> USE DEF InFlight
  <2>1. CASE ReadsPing(m)
    BY <2>1 DEF Typing, ReadsPing, registry, history
  <2>2. CASE ReadsMessage(m)
    <3>1. queue' \in [Connections -> Seq(Messages)] /\ msg' \in [Messages -> InFlight \cup {"unsent", "done"}]
      BY <2>2 DEF Typing, ReadsMessage
    <3>2. newest' \in [Pages -> Messages \cup {none}] /\ overtaken' \subseteq Pages
      BY <2>2 DEF Typing, ReadsMessage
    <3> QED
      BY <2>2, <3>1, <3>2 DEF Typing, ReadsMessage, registry
  <2>3. CASE Pongs(m)
    <3>1. msg' \in [Messages -> InFlight \cup {"unsent", "done"}] /\ answered' \subseteq Messages
      BY <2>3 DEF Typing, Pongs
    <3>2. serve' \in [Connections -> {"new", "gate", "reading", "ponging", "draining", "over"}]
      <4>1. \E to \in {"reading", "draining"} : serve' = [serve EXCEPT ![On[m]] = to]
        BY <2>3 DEF Pongs
      <4> QED
        BY <4>1 DEF Typing
    <3> QED
      BY <2>3, <3>1, <3>2 DEF Typing, Pongs, registry
  <2>4. CASE TakesSlot(m)
    <3>1. On[m] \in Connections /\ queue[On[m]] \in Seq(Messages) /\ queue[On[m]] # <<>>
      BY <2>4 DEF Typing, TakesSlot
    <3>2. Tail(queue[On[m]]) \in Seq(Messages)
      BY <3>1
    <3>3. queue' \in [Connections -> Seq(Messages)] /\ msg' \in [Messages -> InFlight \cup {"unsent", "done"}]
      BY <2>4, <3>2 DEF Typing, TakesSlot
    <3> QED
      BY <2>4, <3>3 DEF Typing, TakesSlot, registry, history
  <2>5. CASE HandlerAnswers(m)
    <3>1. PageOf[m] \in Pages /\ On[m] \in Connections
      OBVIOUS
    <3>2. bound' \in [Pages -> Connections \cup {none}] /\ granted' \subseteq Messages /\ overtaken' \subseteq Pages
      <4>1. CASE Kind[m] = "open"
        <5>1. /\ bound' = [bound EXCEPT ![PageOf[m]] = On[m]] /\ granted' = granted \cup {m}
              /\ overtaken' = overtaken \cup {PageOf[m]} \/ overtaken' = overtaken
          BY <2>5, <4>1 DEF HandlerAnswers, Binds
        <5> QED
          BY <3>1, <5>1 DEF Typing
      <4>2. CASE Kind[m] # "open"
        BY <2>5, <4>2 DEF Typing, HandlerAnswers, registry, history
      <4> QED
        BY <4>1, <4>2
    <3>3. msg' \in [Messages -> InFlight \cup {"unsent", "done"}]
      BY <2>5 DEF Typing, HandlerAnswers
    <3>4. UNCHANGED <<leaving, serve, gone, connected, queue, cut, sockets, newest, answered, torn>>
      BY <2>5 DEF HandlerAnswers, Binds, registry, history
    <3> QED
      BY <3>2, <3>3, <3>4 DEF Typing
  <2>6. CASE HandlerRaises(m)
    BY <2>6 DEF Typing, HandlerRaises, registry, history
  <2>7. CASE Cleans(m)
    BY <2>7 DEF Typing, Cleans, registry, history
  <2>8. CASE Writes(m)
    BY <2>8 DEF Typing, Writes, registry, history
  <2>9. CASE CutEnds(m)
    BY <2>9 DEF Typing, CutEnds, registry, history
  <2> QED
    BY <1>4, <2>1, <2>2, <2>3, <2>4, <2>5, <2>6, <2>7, <2>8, <2>9 DEF ServesMessage
<1> QED
  BY <1>1, <1>2, <1>3, <1>4 DEF ConnectionsNext

\* Nothing but TakesSlot adds to what runs.
LEMMA RunningGrows ==
  ASSUME Typing, [ConnectionsNext]_connectionVars, NEW s \in Connections
  PROVE  \/ Running(s)' \subseteq Running(s)
         \/ \E m \in Messages : TakesSlot(m) /\ On[m] = s /\ Running(s)' = Running(s) \cup {m}
<1> USE MessageAssumption DEF Running, Of, Typing
<1>1. CASE UNCHANGED msg
  BY <1>1
<1>2. ASSUME NEW t \in Connections, CancelReading(t)
      PROVE  Running(s)' \subseteq Running(s)
  BY <1>2 DEF CancelReading, Tasks
<1>3. ASSUME NEW m \in Messages, ServesMessage(m), ~TakesSlot(m)
      PROVE  Running(s)' \subseteq Running(s)
  BY <1>3 DEF ServesMessage, ReadsPing, ReadsMessage, Pongs, HandlerAnswers, HandlerRaises, Cleans, Writes, CutEnds
<1>4. ASSUME NEW m \in Messages, TakesSlot(m), On[m] = s
      PROVE  Running(s)' = Running(s) \cup {m}
  BY <1>4 DEF TakesSlot
<1>5. ASSUME NEW m \in Messages, TakesSlot(m), On[m] # s
      PROVE  Running(s)' \subseteq Running(s)
  BY <1>5 DEF TakesSlot
<1>6. ASSUME NEW t \in Connections, Connection(t), ~CancelReading(t) PROVE UNCHANGED msg
  BY <1>6 DEF Connection, ClientLeaves, Handshake, GateOpens, GateCloses, ReadsDisconnect, DrainEnds,
     DrainTimesOut, CancelGate, CancelDrain
<1>7. Signal \/ UNCHANGED connectionVars => UNCHANGED msg
  BY DEF Signal, connectionVars
<1> HIDE DEF Running, Of, Typing
<1> QED
  BY <1>1, <1>2, <1>3, <1>4, <1>5, <1>6, <1>7 DEF ConnectionsNext

LEMMA FiniteRunning == ASSUME NEW s \in Connections PROVE IsFiniteSet(Running(s))
BY FiniteAssumption, FS_Subset DEF Running, Of

LEMMA SlotsStep == ASSUME Typing, Slots, [ConnectionsNext]_connectionVars PROVE Slots'
<1> SUFFICES ASSUME NEW s \in Connections PROVE Cardinality(Running(s)') <= MaxConcurrent
  BY DEF Slots
<1>1. IsFiniteSet(Running(s)) /\ Cardinality(Running(s)) \in Nat /\ Cardinality(Running(s)) <= MaxConcurrent
  BY FiniteRunning, FS_CardinalityType DEF Slots
<1>2. CASE Running(s)' \subseteq Running(s)
  <2>1. Cardinality(Running(s)') <= Cardinality(Running(s)) /\ Cardinality(Running(s)') \in Nat
    BY <1>1, <1>2, FS_Subset, FS_CardinalityType
  <2> QED
    BY <1>1, <2>1, SlotAssumption
<1>3. ASSUME NEW m \in Messages, TakesSlot(m), On[m] = s, Running(s)' = Running(s) \cup {m}
      PROVE  Cardinality(Running(s)') <= MaxConcurrent
  <2>1. Cardinality(Running(s)) < MaxConcurrent
    BY <1>3 DEF TakesSlot
  <2>2. Cardinality(Running(s)') \in {Cardinality(Running(s)), Cardinality(Running(s)) + 1}
    BY <1>1, <1>3, FS_AddElement
  <2> QED
    BY <1>1, <2>1, <2>2, SlotAssumption
<1> QED
  BY <1>2, <1>3, RunningGrows

-----------------------------------------------------------------------------
(* The registry and the associations. *)

LEMMA LinksStep == ASSUME Typing, Links, [ConnectionsNext]_connectionVars PROVE Links'
<1> USE MessageAssumption, NoneAssumption
<1>1. CASE UNCHANGED connectionVars \/ Signal
  BY <1>1 DEF connectionVars, Signal, Links, Registration, ReadPastGate, BindersRegistered, Bindings,
     GrantedAnswered, NewestOfPage, registry, history
<1>2. ASSUME NEW s \in Connections, Connection(s) PROVE Links'
  <2> USE DEF Typing, Links, registry, history
  <2>1. CASE ClientLeaves(s)
    BY <2>1 DEF ClientLeaves, Registration, ReadPastGate, BindersRegistered, Bindings, GrantedAnswered,
       NewestOfPage
  <2>6. CASE Handshake(s)
    BY <2>6 DEF Handshake, Registration, ReadPastGate, BindersRegistered, Bindings, GrantedAnswered,
       NewestOfPage
  <2>7. CASE GateCloses(s) \/ CancelGate(s)
    <3>1. /\ serve[s] = "gate" /\ serve' = [serve EXCEPT ![s] = "over"]
          /\ UNCHANGED <<sockets, bound, msg, cut, newest, granted, torn>>
      BY <2>7 DEF GateCloses, CancelGate
    <3>2. Registration' /\ ReadPastGate'
      BY <3>1 DEF Registration, ReadPastGate
    <3> QED
      BY <3>1, <3>2 DEF BindersRegistered, Bindings, GrantedAnswered, NewestOfPage
  <2>8. CASE ReadsDisconnect(s)
    BY <2>8 DEF ReadsDisconnect, Registration, ReadPastGate, BindersRegistered, Bindings, GrantedAnswered,
       NewestOfPage
  <2>2. CASE GateOpens(s)
    BY <2>2 DEF GateOpens, Registration, ReadPastGate, BindersRegistered, Bindings, GrantedAnswered,
       NewestOfPage
  <2>3. CASE DrainEnds(s) \/ DrainTimesOut(s)
    <3>1. \A m \in Messages : msg[m] \in InFlight /\ m \notin cut' => On[m] # s
      BY <2>3 DEF DrainEnds, DrainTimesOut, Tasks, Of
    <3>2. /\ serve[s] = "draining" /\ Unregisters(s)
          /\ UNCHANGED <<msg, granted, torn, newest>> /\ cut \subseteq cut'
      BY <2>3 DEF DrainEnds, DrainTimesOut
    <3>3. Registration' /\ ReadPastGate'
      BY <3>2 DEF Unregisters, Registration, ReadPastGate
    <3>4. BindersRegistered'
      BY <3>1, <3>2 DEF Unregisters, BindersRegistered
    <3>5. Bindings' /\ GrantedAnswered' /\ NewestOfPage'
      BY <3>2 DEF Unregisters, Unbound, Bindings, GrantedAnswered,
       NewestOfPage
    <3> QED
      BY <3>3, <3>4, <3>5
  <2>4. CASE CancelReading(s)
    <3>1. \A m \in Messages : msg'[m] = msg[m] \/ (msg[m] \in InFlight /\ msg'[m] = "done")
      BY <2>4 DEF CancelReading, Tasks, Of
    <3>2. /\ serve[s] \in {"reading", "ponging"} /\ serve' = [serve EXCEPT ![s] = "draining"]
          /\ UNCHANGED <<sockets, bound, cut, granted, torn, newest>>
      BY <2>4 DEF CancelReading
    <3>3. Registration' /\ Bindings'
      BY <3>2 DEF Registration, Bindings
    <3>4. ReadPastGate' /\ BindersRegistered' /\ GrantedAnswered' /\ NewestOfPage'
      BY <3>1, <3>2 DEF ReadPastGate, BindersRegistered, GrantedAnswered, NewestOfPage, InFlight
    <3> QED
      BY <3>3, <3>4
  <2>5. CASE CancelDrain(s)
    BY <2>5 DEF CancelDrain, Registration, ReadPastGate, BindersRegistered, Bindings, GrantedAnswered,
       NewestOfPage
  <2> QED
    BY <1>2, <2>1, <2>2, <2>3, <2>4, <2>5, <2>6, <2>7, <2>8 DEF Connection
<1>3. ASSUME NEW m \in Messages, ServesMessage(m) PROVE Links'
  <2> USE DEF Typing, Links, registry, history, InFlight
  <2>1. CASE ReadsPing(m)
    BY <2>1 DEF ReadsPing, ClientSends, Registration, ReadPastGate, BindersRegistered, Bindings, GrantedAnswered,
       NewestOfPage
  <2>2. CASE ReadsMessage(m)
    BY <2>2 DEF ReadsMessage, ClientSends, Registration, ReadPastGate, BindersRegistered, Bindings, GrantedAnswered,
       NewestOfPage
  <2>3. CASE Pongs(m)
    BY <2>3 DEF Pongs, Registration, ReadPastGate, BindersRegistered, Bindings, GrantedAnswered,
       NewestOfPage
  <2>4. CASE TakesSlot(m)
    BY <2>4 DEF TakesSlot, Registration, ReadPastGate, BindersRegistered, Bindings, GrantedAnswered,
       NewestOfPage
  <2>7. CASE HandlerRaises(m)
    BY <2>7 DEF HandlerRaises, Registration, ReadPastGate, BindersRegistered, Bindings, GrantedAnswered,
       NewestOfPage
  <2>5. CASE HandlerAnswers(m)
    <3>1. On[m] \in sockets
      BY <2>5 DEF HandlerAnswers, BindersRegistered
    <3>2. Registration' /\ ReadPastGate' /\ BindersRegistered'
      BY <2>5 DEF HandlerAnswers, Binds, Registration, ReadPastGate, BindersRegistered
    <3>3. Bindings' /\ GrantedAnswered' /\ NewestOfPage'
      BY <2>5, <3>1 DEF HandlerAnswers, Binds, Bindings, GrantedAnswered,
       NewestOfPage
    <3> QED
      BY <3>2, <3>3
  <2>6. CASE Cleans(m)
    BY <2>6 DEF Cleans, Registration, ReadPastGate, BindersRegistered, Bindings, GrantedAnswered,
       NewestOfPage
  <2>8. CASE Writes(m)
    BY <2>8 DEF Writes, Registration, ReadPastGate, BindersRegistered, Bindings, GrantedAnswered,
       NewestOfPage
  <2>9. CASE CutEnds(m)
    BY <2>9 DEF CutEnds, Registration, ReadPastGate, BindersRegistered, Bindings, GrantedAnswered,
       NewestOfPage
  <2> QED
    BY <1>3, <2>1, <2>2, <2>3, <2>4, <2>5, <2>6, <2>7, <2>8, <2>9 DEF ServesMessage
<1> QED
  BY <1>1, <1>2, <1>3 DEF ConnectionsNext

-----------------------------------------------------------------------------
(* The page on its live channel. *)

\* A connection is in use once something was granted on it, and it does not
\* come back once it is over.
LEMMA LiveStays ==
  ASSUME Typing, Links, [ConnectionsNext]_connectionVars, NEW m \in granted,
         serve'[On[m]] \in {"reading", "ponging"}
  PROVE  serve[On[m]] \in {"reading", "ponging"}
<1> USE MessageAssumption DEF Typing
<1>1. serve[On[m]] \notin {"new", "gate"}
  BY DEF Links, ReadPastGate, GrantedAnswered
<1>2. CASE UNCHANGED serve
  BY <1>2
<1>3. ASSUME NEW s \in Connections, Connection(s), ~UNCHANGED serve
      PROVE  serve[On[m]] \in {"reading", "ponging"}
  BY <1>1, <1>3 DEF Connection, ClientLeaves, Handshake, GateOpens, GateCloses, ReadsDisconnect, DrainEnds,
     DrainTimesOut, Unregisters, CancelGate, CancelReading, CancelDrain
<1>4. ASSUME NEW n \in Messages, ServesMessage(n), ~UNCHANGED serve
      PROVE  serve[On[m]] \in {"reading", "ponging"}
  BY <1>1, <1>4 DEF ServesMessage, ReadsPing, ClientSends, Pongs, ReadsMessage, TakesSlot, HandlerAnswers, HandlerRaises, Cleans,
     Writes, CutEnds
<1>5. Signal \/ UNCHANGED connectionVars => UNCHANGED serve
  BY DEF Signal, connectionVars
<1> QED
  BY <1>2, <1>3, <1>4, <1>5 DEF ConnectionsNext

LEMMA ReachedStep == ASSUME Typing, Links, PageIsReached, [ConnectionsNext]_connectionVars PROVE PageIsReached'
<1> USE MessageAssumption, NoneAssumption
<1> SUFFICES ASSUME NEW p \in Pages, newest'[p] \in granted',
                    serve'[On[newest'[p]]] \in {"reading", "ponging"}
             PROVE  bound'[p] = On[newest'[p]] \/ p \in overtaken'
  BY DEF PageIsReached
<1>1. ASSUME newest[p] \in granted, UNCHANGED newest
      PROVE  bound[p] = On[newest[p]] \/ p \in overtaken
  BY <1>1, LiveStays DEF PageIsReached
<1>2. CASE UNCHANGED <<bound, newest, granted, overtaken>>
  BY <1>1, <1>2
<1>3. ASSUME NEW s \in Connections, DrainEnds(s) \/ DrainTimesOut(s)
      PROVE  bound'[p] = On[newest'[p]] \/ p \in overtaken'
  <2>1. Unregisters(s) /\ UNCHANGED <<newest, granted, overtaken>>
    BY <1>3 DEF DrainEnds, DrainTimesOut, history
  <2>2. On[newest[p]] # s
    BY <2>1 DEF Unregisters, Typing
  <2> QED
    BY <1>1, <2>1, <2>2 DEF Unregisters, Unbound, Typing
<1>4. ASSUME NEW m \in Messages, ReadsMessage(m)
      PROVE  bound'[p] = On[newest'[p]] \/ p \in overtaken'
  <2>1. m \notin granted
    BY <1>4 DEF ReadsMessage, ClientSends, Links, GrantedAnswered
  <2>2. UNCHANGED <<bound, granted>>
    BY <1>4 DEF ReadsMessage, registry
  <2>3. newest'[p] # m
    BY <2>1, <2>2
  <2>4. newest'[p] = newest[p] /\ (p \in overtaken => p \in overtaken')
    BY <1>4, <2>3 DEF ReadsMessage, Typing
  <2>5. serve[On[newest[p]]] \in {"reading", "ponging"}
    BY <2>2, <2>4, LiveStays
  <2> QED
    BY <2>2, <2>4, <2>5 DEF PageIsReached
<1>5. ASSUME NEW m \in Messages, HandlerAnswers(m), Kind[m] = "open"
      PROVE  bound'[p] = On[newest'[p]] \/ p \in overtaken'
  <2>1. Binds(m) /\ UNCHANGED newest
    BY <1>5 DEF HandlerAnswers, Binds
  <2>2. CASE PageOf[m] # p
    <3>1. bound'[p] = bound[p] /\ (p \in overtaken => p \in overtaken')
      BY <2>1, <2>2 DEF Binds, Typing
    <3>2. newest[p] \in granted
      <4>1. newest[p] \in granted \cup {m}
        BY <2>1 DEF Binds
      <4>2. newest[p] # m
        BY <2>2 DEF Links, NewestOfPage
      <4> QED
        BY <4>1, <4>2
    <3> QED
      BY <1>1, <2>1, <3>1, <3>2
  <2>3. CASE PageOf[m] = p /\ newest[p] = m
    BY <2>1, <2>3 DEF Binds, Typing
  <2>4. CASE PageOf[m] = p /\ newest[p] # m
    <3>1. newest[p] \in granted
      BY <2>1, <2>4 DEF Binds
    <3>2. bound[p] = On[newest[p]] \/ p \in overtaken
      BY <1>1, <2>1, <3>1
    <3> QED
      BY <2>1, <2>4, <3>2 DEF Binds, Typing
  <2> QED
    BY <2>2, <2>3, <2>4
<1>6. ASSUME NEW s \in Connections, Connection(s), ~DrainEnds(s), ~DrainTimesOut(s)
      PROVE  UNCHANGED <<bound, newest, granted, overtaken>>
  BY <1>6 DEF Connection, ClientLeaves, Handshake, GateOpens, GateCloses, ReadsDisconnect, CancelGate,
     CancelReading, CancelDrain, registry, history
<1>7. ASSUME NEW m \in Messages, ServesMessage(m), ~ReadsMessage(m), ~(HandlerAnswers(m) /\ Kind[m] = "open")
      PROVE  UNCHANGED <<bound, newest, granted, overtaken>>
  BY <1>7 DEF ServesMessage, ReadsPing, Pongs, TakesSlot, HandlerAnswers, HandlerRaises, Cleans, Writes, CutEnds,
     registry, history
<1>8. Signal \/ UNCHANGED connectionVars => UNCHANGED <<bound, newest, granted, overtaken>>
  BY DEF Signal, connectionVars, registry, history
<1> QED
  BY <1>2, <1>3, <1>4, <1>5, <1>6, <1>7, <1>8 DEF ConnectionsNext

-----------------------------------------------------------------------------
LEMMA Inductive == ConnectionsSpec => []ConnectionsInv
<1>1. ConnectionsInv /\ [ConnectionsNext]_connectionVars => ConnectionsInv'
  <2> SUFFICES ASSUME ConnectionsInv, [ConnectionsNext]_connectionVars PROVE ConnectionsInv'
    OBVIOUS
  <2>1. Typing /\ Slots /\ Links /\ PageIsReached
    BY Splits DEF ConnectionsInv
  <2>2. Typing' /\ Slots'
    BY <2>1, TypingStep, SlotsStep
  <2>3. ConnectionsTypeOK'
    BY <2>2 DEF ConnectionsTypeOK, Typing, Slots
  <2>4. Links' /\ PageIsReached'
    BY <2>1, LinksStep, ReachedStep
  <2> QED
    BY <2>3, <2>4 DEF ConnectionsInv
<1> QED
  BY Initially, <1>1, PTL DEF ConnectionsSpec

\* In every state each variable has its type and no connection runs more
\* messages at once than it has slots.
THEOREM TypeCorrect == ConnectionsSpec => []ConnectionsTypeOK
<1>1. ConnectionsInv => ConnectionsTypeOK
  BY DEF ConnectionsInv
<1> QED
  BY Inductive, <1>1, PTL

\* A page is bound to a registered socket only, and a socket that stays
\* registered after its connection was cancelled in the drain.
THEOREM AssociationsAgree == ConnectionsSpec => []BoundIsRegistered
<1>1. ConnectionsInv => BoundIsRegistered
  BY DEF ConnectionsInv, Links, Registration, Bindings, BoundIsRegistered, ConnectionsTypeOK
<1> QED
  BY Inductive, <1>1, PTL

\* A page is reached on the live connection that granted its newest channel,
\* unless an older openchannel came second.
THEOREM LivePageIsReached == ConnectionsSpec => []PageIsReached
<1>1. ConnectionsInv => PageIsReached
  BY DEF ConnectionsInv
<1> QED
  BY Inductive, <1>1, PTL

\* The association of a page is the right one: the three above together.
THEOREM AssociationIsRight == ConnectionsSpec => []AssociationHolds
BY TypeCorrect, AssociationsAgree, LivePageIsReached, PTL DEF AssociationHolds

-----------------------------------------------------------------------------
(***************************************************************************)
(* Of WebsocketRelay, for every set of calls and sockets, every bound and  *)
(* every load: the slots of the mount balance, no answer that stopped      *)
(* looks whole, none that started is followed by another, and a client     *)
(* that is there learns once how its socket ended.                         *)
(***************************************************************************)

\* What is under way as a last body was sent as one.
LastIsFinished ==
  \A c \in Calls : \A i \in DOMAIN wire[c] : wire[c][i] = "last" => c \in finished

\* How often a call may have started its answer, by where it is.
StartsSoFar ==
  \A c \in Calls :
    /\ at[c] \in {"new", "line", "body"} => starts[c] = 0 /\ stream[c] = "none"
    /\ at[c] = "refusing" => stream[c] = "none"
    /\ at[c] = "opened" => starts[c] = 0

\* What a socket that is not carried yet, or no more, cannot be.
SocketsSane ==
  \A s \in Sockets :
    /\ sock[s].mount = "new" => ~sock[s].closed /\ sock[s].link = "none"
    /\ sock[s].mount = "over" => sock[s].link # "open"
    /\ sock[s].reader = "left" => sock[s].client = "gone"

CallsInv == TypeOK /\ SlotsBalance /\ NeverTruncated /\ StartsOnce /\ LastIsFinished /\ StartsSoFar
SocketsInv == SocketTypeOK /\ SocketsTold /\ SocketsSane
IInv == CallsInv /\ SocketsInv

\* The type invariant in three parts: the provers need its sequences apart.
Wires == Seq({"head", "failure", "chunk", "last"})
RestOK ==
  /\ joined \in BOOLEAN /\ deaths \in 0 .. MaxDeaths
  /\ free \in 0 .. MaxCalls
  /\ at \in [Calls -> Waiting \cup {"new", "relay", "over"}]
  /\ held \in [Calls -> BOOLEAN]
  /\ left \subseteq Calls
  /\ starts \in [Calls -> Nat]
  /\ answer \in [Calls -> {"none", "partial", "whole", "own"}]
  /\ stream \in [Calls -> {"none", "open", "closed", "aborted", "lost"}]
  /\ app \in [Calls -> Serving \cup {"none", "over"}]
  /\ finished \subseteq Calls
TypeParts == RestOK /\ line \in Seq(Calls) /\ wire \in [Calls -> Wires]

\* The parts are the type invariant, before and after a step.
LEMMA SameTypes == (TypeOK <=> TypeParts) /\ (TypeOK' <=> TypeParts')
BY DEF TypeOK, TypeParts, RestOK, Wires

\* The wire of a call that is over.
LEMMA EmptyWire == <<>> \in Wires
BY DEF Wires

-----------------------------------------------------------------------------
(* Slots. *)

Holders == {c \in Calls : held[c]}

\* A set of calls that gains a call.
LEMMA OneMore ==
  ASSUME NEW S \in SUBSET Calls, NEW c \in Calls \ S
  PROVE  Cardinality(S \cup {c}) = Cardinality(S) + 1 /\ Cardinality(S) \in Nat
<1>1. IsFiniteSet(S) BY FS_Subset, CallsAssumption
<1> QED BY <1>1, FS_AddElement, FS_CardinalityType

\* One that loses a call.
LEMMA OneLess ==
  ASSUME NEW S \in SUBSET Calls, NEW c \in S
  PROVE  Cardinality(S \ {c}) = Cardinality(S) - 1 /\ Cardinality(S) \in Nat
<1>1. IsFiniteSet(S) BY FS_Subset, CallsAssumption
<1> QED BY <1>1, FS_RemoveElement, FS_CardinalityType

\* The line keeps its type without one of its calls.
LEMMA WithoutType ==
  ASSUME line \in Seq(Calls), NEW c \in Calls
  PROVE  Without(c) \in Seq(Calls)
<1> DEFINE places == {i \in DOMAIN line : line[i] = c}
           i == CHOOSE j \in places : TRUE
<1>1. CASE places = {} BY <1>1 DEF Without
<1>2. ASSUME NEW k \in 1 .. Len(line)
      PROVE  SubSeq(line, 1, k - 1) \o SubSeq(line, k + 1, Len(line)) \in Seq(Calls)
  <2>1. Len(line) \in Nat OBVIOUS
  <2>2. SubSeq(line, 1, k - 1) \in Seq(Calls) BY <2>1, SubSeqProperties
  <2>3. SubSeq(line, k + 1, Len(line)) \in Seq(Calls) BY <2>1, SubSeqProperties
  <2> QED BY <2>2, <2>3, ConcatProperties
<1>3. CASE places # {}
  <2>1. i \in places BY <1>3
  <2>2. i \in 1 .. Len(line) BY <2>1
  <2>3. Without(c) = SubSeq(line, 1, i - 1) \o SubSeq(line, i + 1, Len(line))
    BY <1>3 DEF Without
  <2> HIDE DEF i
  <2> QED BY <1>2, <2>2, <2>3
<1> QED BY <1>1, <1>3

\* A call that is no longer waiting for its first message gives back its slot.
LEMMA ReleaseBalances ==
  ASSUME TypeOK, SlotsBalance, NEW c \in Calls, Releases(c), NEW there,
         there \notin Waiting \ {"line"}, at' = [at EXCEPT ![c] = there]
  PROVE  SlotsBalance' /\ free' \in 0 .. MaxCalls /\ line' \in Seq(Calls)
         /\ held' \in [Calls -> BOOLEAN]
<1>1. line' \in Seq(Calls) BY WithoutType DEF TypeOK, Releases
<1>2. held' = [held EXCEPT ![c] = FALSE] /\ held' \in [Calls -> BOOLEAN] BY DEF TypeOK, Releases
<1>3. \A d \in Calls : held'[d] <=> at'[d] \in Waiting \ {"line"}
  BY <1>2 DEF TypeOK, SlotsBalance
<1>4. Holders' = Holders \ {c} BY <1>2 DEF TypeOK, Holders
<1>5. free' + Cardinality(Holders') = MaxCalls /\ free' \in 0 .. MaxCalls
  <2>1. Holders \in SUBSET Calls /\ Holders' \in SUBSET Calls BY DEF Holders
  <2>2. Cardinality(Holders') \in Nat BY <2>1, FS_Subset, FS_CardinalityType, CallsAssumption
  <2>3. free + Cardinality(Holders) = MaxCalls BY DEF SlotsBalance, Holders
  <2>4. CASE held[c]
    <3>1. c \in Holders BY <2>4 DEF Holders
    <3>2. Cardinality(Holders') = Cardinality(Holders) - 1 /\ Cardinality(Holders) \in Nat
      BY <1>4, <2>1, <3>1, OneLess
    <3>3. free' = free + 1 BY <2>4 DEF Releases
    <3> QED BY <2>2, <2>3, <3>2, <3>3, SizesAssumption DEF TypeOK
  <2>5. CASE ~held[c]
    <3>1. Holders' = Holders BY <1>4, <2>5 DEF Holders
    <3>2. free' = free BY <2>5 DEF Releases
    <3> QED BY <2>3, <3>1, <3>2 DEF TypeOK
  <2> QED BY <2>4, <2>5 DEF TypeOK
<1> QED BY <1>1, <1>2, <1>3, <1>5 DEF SlotsBalance, Holders

-----------------------------------------------------------------------------
(* The steps of the calls. *)

\* Before the first request.
LEMMA InitHolds == RelayInit => IInv
<1> SUFFICES ASSUME RelayInit PROVE IInv OBVIOUS
<1> USE DEF RelayInit, Init
<1>1. TypeOK
  <2>1. <<>> \in Seq(Calls) /\ [c \in Calls |-> <<>>] \in [Calls -> Seq({"head", "failure", "chunk", "last"})]
    OBVIOUS
  <2> QED BY <2>1, SizesAssumption DEF TypeOK, Waiting, Serving
<1>2. SlotsBalance
  <2>1. Cardinality({c \in Calls : held[c]}) = 0
    <3>1. {c \in Calls : held[c]} = {} OBVIOUS
    <3> QED BY <3>1, FS_EmptySet
  <2>2. \A c \in Calls : held[c] <=> at[c] \in Waiting \ {"line"} BY DEF Waiting
  <2> QED BY <2>1, <2>2, SizesAssumption DEF SlotsBalance
<1>3. NeverTruncated /\ StartsOnce /\ LastIsFinished /\ StartsSoFar
  BY DEF NeverTruncated, StartsOnce, LastIsFinished, StartsSoFar
<1>4. SocketsInv
  <2>1. NewSocket.up \in Seq({"event", "disconnect"}) /\ NewSocket.down \in Seq({"event", "close"})
    BY DEF NewSocket
  <2> QED BY <2>1 DEF SocketsInv, SocketTypeOK, SocketsTold, SocketsSane, NewSocket
<1> QED BY <1>1, <1>2, <1>3, <1>4 DEF IInv, CallsInv

\* A step that leaves the mount's account of slots alone leaves it balanced.
LEMMA SlotsFrame ==
  ASSUME SlotsBalance, UNCHANGED <<free, held>>,
         \A c \in Calls : at'[c] \in Waiting \ {"line"} <=> at[c] \in Waiting \ {"line"}
  PROVE  SlotsBalance'
BY DEF SlotsBalance

\* Whatever ends a call: it is answered at most once after its stream opened.
LEMMA EndsHolds ==
  ASSUME CallsInv, NEW c \in Calls, Ends(c), at[c] # "new",
         UNCHANGED <<process, left, remote>>,
         answer' \in {answer, [answer EXCEPT ![c] = "own"]},
         \/ starts' = starts
         \/ at[c] \in Waiting /\ starts' = [starts EXCEPT ![c] = @ + 1]
  PROVE  CallsInv'
<1> USE DEF CallsInv, Ends
<1>1. Releases(c) /\ at' = [at EXCEPT ![c] = "over"] OBVIOUS
<1>2. SlotsBalance' /\ free' \in 0 .. MaxCalls /\ line' \in Seq(Calls) /\ held' \in [Calls -> BOOLEAN]
  BY <1>1, ReleaseBalances DEF Waiting
<1>3. TypeOK'
  <2>1. TypeParts BY SameTypes
  <2>2. wire' \in [Calls -> Wires] BY <2>1, EmptyWire DEF TypeParts
  <2>3. RestOK' BY <1>2, <2>1 DEF TypeParts, RestOK, process, remote, Waiting
  <2> QED BY <1>2, <2>2, <2>3, SameTypes DEF TypeParts
<1>5. LastIsFinished' BY DEF LastIsFinished, remote, TypeOK
<1>6. NeverTruncated' BY DEF NeverTruncated, remote, TypeOK
<1>7. StartsOnce' /\ StartsSoFar' BY DEF StartsOnce, StartsSoFar, Waiting, TypeOK
<1> QED BY <1>2, <1>3, <1>5, <1>6, <1>7

\* The steps of the mount that end a call.
LEMMA EndingsHold ==
  ASSUME CallsInv, NEW c \in Calls,
         \/ GoneInBody(c) \/ Refused(c) \/ NotOpened(c) \/ TimesOut(c) \/ FailureArrives(c)
         \/ FailsBeforeHead(c) \/ StreamFails(c) \/ ClientLeft(c) \/ Cancelled(c)
  PROVE  CallsInv'
<1> USE DEF Has, WritesStart, AnswersItself, client, Waiting
<1>1. CASE GoneInBody(c) BY <1>1, EndsHolds DEF GoneInBody
<1>2. CASE Refused(c) BY <1>2, EndsHolds DEF Refused
<1>3. CASE NotOpened(c) BY <1>3, EndsHolds DEF NotOpened
<1>4. CASE TimesOut(c) BY <1>4, EndsHolds DEF TimesOut
<1>5. CASE FailureArrives(c) BY <1>5, EndsHolds DEF FailureArrives
<1>6. CASE FailsBeforeHead(c) BY <1>6, EndsHolds DEF FailsBeforeHead
<1>7. CASE StreamFails(c) BY <1>7, EndsHolds DEF StreamFails
<1>8. CASE ClientLeft(c) BY <1>8, EndsHolds DEF ClientLeft
<1>9. CASE Cancelled(c) BY <1>9, EndsHolds DEF Cancelled
<1> QED BY <1>1, <1>2, <1>3, <1>4, <1>5, <1>6, <1>7, <1>8, <1>9

\* The steps that leave every stream empty of anything new.
LEMMA MountHolds ==
  ASSUME CallsInv, NEW c \in Calls,
         Arrives(c) \/ TooLarge(c) \/ OpensStream(c) \/ Completes(c)
  PROVE  CallsInv'
<1> USE DEF CallsInv, process, slots, client, remote
<1>1. free' = free /\ held' = held BY DEF Arrives, TooLarge, OpensStream, Completes
<1>2. \A d \in Calls : at'[d] \in Waiting \ {"line"} <=> at[d] \in Waiting \ {"line"}
  BY DEF Arrives, TooLarge, OpensStream, Completes, Waiting, TypeOK
<1>3. SlotsBalance' BY <1>1, <1>2, SlotsFrame
<1>4. line' \in Seq(Calls)
  <2>1. Append(line, c) \in Seq(Calls) BY AppendProperties DEF TypeOK
  <2> QED BY <2>1 DEF Arrives, TooLarge, OpensStream, Completes, TypeOK
<1>5. wire' = wire /\ finished' = finished /\ answer' = answer
  BY DEF Arrives, TooLarge, OpensStream, Completes
<1>6. TypeOK'
  <2>1. TypeParts BY SameTypes
  <2>2. RestOK'
    <3> USE <1>1, <1>5, <2>1 DEF TypeParts, RestOK, Waiting
    <3>1. CASE Arrives(c) BY <3>1 DEF Arrives
    <3>2. CASE TooLarge(c)
      <4>1. starts' \in [Calls -> Nat] BY <3>2 DEF TooLarge, WritesStart
      <4> QED BY <3>2, <4>1 DEF TooLarge
    <3>3. CASE OpensStream(c) BY <3>3 DEF OpensStream
    <3>4. CASE Completes(c) BY <3>4 DEF Completes
    <3> QED BY <3>1, <3>2, <3>3, <3>4
  <2> QED BY <1>4, <1>5, <2>1, <2>2, SameTypes DEF TypeParts
<1>7. LastIsFinished' /\ NeverTruncated' BY <1>5 DEF LastIsFinished, NeverTruncated
<1>8. StartsOnce' /\ StartsSoFar'
  <2>1. TypeParts BY SameTypes
  <2> USE <2>1 DEF StartsOnce, StartsSoFar, TypeParts, RestOK
  <2>2. CASE Arrives(c) BY <2>2 DEF Arrives
  <2>3. CASE TooLarge(c) BY <2>3 DEF TooLarge, WritesStart
  <2>4. CASE OpensStream(c) BY <2>4 DEF OpensStream
  <2>5. CASE Completes(c) BY <2>5 DEF Completes
  <2> QED BY <2>2, <2>3, <2>4, <2>5
<1> QED BY <1>3, <1>6, <1>7, <1>8

\* A slot for the first of the line.
LEMMA AdmittedHolds ==
  ASSUME CallsInv, NEW c \in Calls, Admitted(c)
  PROVE  CallsInv'
<1> USE DEF CallsInv, Admitted, process, client, remote
<1>1. Holders' = Holders \cup {c} /\ c \notin Holders
  BY DEF Holders, TypeOK, SlotsBalance
<1>2. Cardinality(Holders') = Cardinality(Holders) + 1 /\ Cardinality(Holders) \in Nat
  BY <1>1, OneMore DEF Holders
<1>3. free' + Cardinality(Holders') = MaxCalls /\ free' \in 0 .. MaxCalls
  BY <1>2, SizesAssumption DEF SlotsBalance, Holders, TypeOK
<1>4. \A d \in Calls : held'[d] <=> at'[d] \in Waiting \ {"line"}
  BY DEF SlotsBalance, TypeOK, Waiting
<1>5. SlotsBalance' BY <1>3, <1>4 DEF SlotsBalance, Holders
<1>6. line' \in Seq(Calls) BY HeadTailProperties DEF TypeOK
<1>7. TypeOK' BY <1>3, <1>6 DEF TypeOK, Waiting
<1>8. LastIsFinished' /\ NeverTruncated' BY DEF LastIsFinished, NeverTruncated
<1>9. StartsOnce' /\ StartsSoFar' BY DEF StartsOnce, StartsSoFar, TypeOK
<1> QED BY <1>5, <1>7, <1>8, <1>9

\* What is left of a wire is what was on it.
LEMMA TailKeeps ==
  ASSUME NEW M, NEW q \in Seq(M), q # <<>>
  PROVE  Tail(q) \in Seq(M) /\ Head(q) = q[1] /\ 1 \in DOMAIN q
         /\ \A i \in DOMAIN Tail(q) : i + 1 \in DOMAIN q /\ Tail(q)[i] = q[i + 1]
BY HeadTailProperties

\* The steps that take a message off a wire.
LEMMA RelayHolds ==
  ASSUME CallsInv, NEW c \in Calls, HeadArrives(c) \/ Relays(c)
  PROVE  CallsInv'
<1> USE DEF CallsInv, process, slots, remote, Has, WritesStart
<1>1. TypeParts /\ wire[c] \in Wires /\ wire[c] # <<>> /\ wire' = [wire EXCEPT ![c] = Tail(@)]
  BY SameTypes DEF HeadArrives, Relays, TypeParts
<1>2. Tail(wire[c]) \in Wires /\ Head(wire[c]) = wire[c][1] /\ 1 \in DOMAIN wire[c]
      /\ \A i \in DOMAIN Tail(wire[c]) :
           i + 1 \in DOMAIN wire[c] /\ Tail(wire[c])[i] = wire[c][i + 1]
  BY <1>1, TailKeeps DEF Wires
<1>3. wire' \in [Calls -> Wires] BY <1>1, <1>2 DEF TypeParts
<1>4. LastIsFinished'
  BY <1>1, <1>2 DEF LastIsFinished, HeadArrives, Relays, TypeParts
<1>5. SlotsBalance' /\ free' \in 0 .. MaxCalls /\ line' \in Seq(Calls) /\ held' \in [Calls -> BOOLEAN]
  <2>1. CASE HeadArrives(c)
    <3>1. Releases(c) /\ at' = [at EXCEPT ![c] = "relay"] BY <2>1 DEF HeadArrives
    <3> QED BY <3>1, ReleaseBalances DEF Waiting
  <2>2. CASE Relays(c) BY <2>2, SlotsFrame DEF Relays, TypeOK
  <2> QED BY <2>1, <2>2
<1>6. TypeOK'
  <2>1. CASE HeadArrives(c)
    <3>1. RestOK' BY <1>1, <1>5, <2>1 DEF HeadArrives, TypeParts, RestOK, Waiting
    <3> QED BY <1>3, <1>5, <3>1, SameTypes DEF TypeParts
  <2>2. CASE Relays(c)
    <3>1. answer' \in {answer, [answer EXCEPT ![c] = "whole"]} BY <2>2 DEF Relays
    <3>2. RestOK' BY <1>1, <1>5, <2>2, <3>1 DEF Relays, TypeParts, RestOK
    <3> QED BY <1>3, <1>5, <3>2, SameTypes DEF TypeParts
  <2> QED BY <2>1, <2>2
<1>7. NeverTruncated'
  <2>1. Head(wire[c]) = "last" => c \in finished BY <1>2 DEF LastIsFinished
  <2>2. CASE HeadArrives(c) BY <1>1, <2>2 DEF NeverTruncated, HeadArrives, TypeParts, RestOK
  <2>3. CASE Relays(c) /\ Head(wire[c]) = "last"
    BY <1>1, <2>1, <2>3 DEF NeverTruncated, Relays, TypeParts, RestOK
  <2>4. CASE Relays(c) /\ Head(wire[c]) # "last" BY <2>4 DEF NeverTruncated, Relays
  <2> QED BY <2>2, <2>3, <2>4
<1>8. StartsOnce' /\ StartsSoFar'
  <2>1. CASE HeadArrives(c)
    BY <1>1, <2>1 DEF HeadArrives, StartsOnce, StartsSoFar, TypeParts, RestOK
  <2>2. CASE Relays(c) BY <2>2 DEF Relays, StartsOnce, StartsSoFar
  <2> QED BY <2>1, <2>2
<1> QED BY <1>4, <1>5, <1>6, <1>7, <1>8

-----------------------------------------------------------------------------
(* The steps of the process. *)

\* A step that leaves the mount alone, and sends nothing.
LEMMA QuietHolds ==
  ASSUME CallsInv, UNCHANGED <<slots, at, starts, answer, wire, finished>>, RestOK',
         \A d \in Calls : stream'[d] = "none" <=> stream[d] = "none"
  PROVE  CallsInv'
<1> USE DEF CallsInv, slots
<1>1. TypeOK' BY SameTypes DEF TypeParts
<1>2. SlotsBalance' BY SlotsFrame
<1>3. NeverTruncated' /\ LastIsFinished' BY DEF NeverTruncated, LastIsFinished
<1>4. StartsOnce' /\ StartsSoFar' BY DEF StartsOnce, StartsSoFar
<1> QED BY <1>1, <1>2, <1>3, <1>4

\* A message put on a wire; a last body is one of the application.
LEMMA SendsHolds ==
  ASSUME CallsInv, NEW c \in Calls, NEW message \in {"head", "failure", "chunk", "last"},
         Sends(c, message), NEW there \in Serving, app' \in {app, [app EXCEPT ![c] = there]},
         finished' \in {finished, finished \cup {c}}, message = "last" => c \in finished'
  PROVE  CallsInv'
<1> USE DEF CallsInv, Sends, slots, client, process
<1>1. TypeParts /\ wire[c] \in Wires BY SameTypes DEF TypeParts
<1>2. Append(wire[c], message) \in Wires
      /\ \A i \in DOMAIN Append(wire[c], message) :
           Append(wire[c], message)[i] = message \/ (i \in DOMAIN wire[c] /\ Append(wire[c], message)[i] = wire[c][i])
  BY <1>1, AppendProperties DEF Wires
<1>3. TypeOK'
  <2>1. RestOK' BY <1>1 DEF TypeParts, RestOK, Serving
  <2>2. wire' \in [Calls -> Wires] BY <1>1, <1>2 DEF TypeParts
  <2> QED BY <1>1, <2>1, <2>2, SameTypes DEF TypeParts
<1>4. SlotsBalance' BY SlotsFrame
<1>5. LastIsFinished' BY <1>1, <1>2 DEF LastIsFinished, TypeParts
<1>6. NeverTruncated' BY DEF NeverTruncated
<1>7. StartsOnce' /\ StartsSoFar' BY DEF StartsOnce, StartsSoFar
<1> QED BY <1>3, <1>4, <1>5, <1>6, <1>7

\* What the process does for a call.
LEMMA ProcessHolds ==
  ASSUME CallsInv, NEW c \in Calls, InProcess(c)
  PROVE  CallsInv'
<1>1. TypeParts BY SameTypes DEF CallsInv
<1> USE <1>1 DEF TypeParts, RestOK, Serving, process, slots, client, remote
<1>2. CASE Served(c)
  <2>1. RestOK' BY <1>2 DEF Served
  <2> QED BY <1>2, <2>1, QuietHolds DEF Served
<1>3. CASE AppStarts(c) \/ BufferedStarts(c)
  <2>1. Starts(c) BY <1>3 DEF AppStarts, BufferedStarts
  <2> QED BY <2>1, SendsHolds DEF Starts
<1>4. CASE AppStreams(c) BY <1>4, SendsHolds DEF AppStreams
<1>5. CASE AppSendsLast(c) BY <1>5, SendsHolds DEF AppSendsLast
<1>6. CASE AppFailsEarly(c) BY <1>6, SendsHolds DEF AppFailsEarly
<1>7. CASE AppCloses(c)
  <2>1. RestOK' BY <1>7 DEF AppCloses
  <2> QED BY <1>7, <2>1, QuietHolds DEF AppCloses
<1>8. CASE AppFailsLate(c)
  <2>1. RestOK' BY <1>8 DEF AppFailsLate
  <2> QED BY <1>8, <2>1, QuietHolds DEF AppFailsLate
<1>9. CASE Stopped(c)
  <2>1. RestOK' BY <1>9 DEF Stopped
  <2> QED BY <1>9, <2>1, QuietHolds DEF Stopped
<1>10. CASE Drained(c)
  <2>1. RestOK' BY <1>10 DEF Drained
  <2> QED BY <1>10, <2>1, QuietHolds DEF Drained
<1> QED BY <1>2, <1>3, <1>4, <1>5, <1>6, <1>7, <1>8, <1>9, <1>10 DEF InProcess

\* What a process or a client does by itself.
LEMMA OthersHold ==
  ASSUME CallsInv, Dies \/ Rejoins \/ \E c \in Calls : Leaves(c)
  PROVE  CallsInv'
<1>1. TypeParts BY SameTypes DEF CallsInv
<1> USE <1>1 DEF TypeParts, RestOK, Serving, process, slots, client, remote
<1>2. CASE Dies
  <2>1. joined' \in BOOLEAN BY <1>2 DEF Dies
  <2>5. deaths' \in 0 .. MaxDeaths BY <1>2, SizesAssumption DEF Dies
  <2>2. app' \in [Calls -> Serving \cup {"none", "over"}] BY <1>2 DEF Dies
  <2>3. stream' \in [Calls -> {"none", "open", "closed", "aborted", "lost"}] BY <1>2 DEF Dies
  <2>4. RestOK' BY <1>2, <2>1, <2>2, <2>3, <2>5 DEF Dies
  <2> QED BY <1>2, <2>4, QuietHolds DEF Dies
<1>3. CASE Rejoins
  <2>1. RestOK' BY <1>3 DEF Rejoins
  <2> QED BY <1>3, <2>1, QuietHolds DEF Rejoins
<1>4. ASSUME NEW c \in Calls, Leaves(c) PROVE CallsInv'
  <2>1. RestOK' BY <1>4 DEF Leaves
  <2> QED BY <1>4, <2>1, QuietHolds DEF Leaves
<1> QED BY <1>2, <1>3, <1>4

\* A step of a socket is none of the calls.
LEMMA SameCalls ==
  ASSUME CallsInv, UNCHANGED vars
  PROVE  CallsInv'
<1> USE DEF vars, slots, client, process, remote
<1>1. TypeParts BY SameTypes DEF CallsInv
<1>2. RestOK' BY <1>1 DEF TypeParts, RestOK
<1> QED BY <1>2, QuietHolds

\* Every step of a call.
LEMMA CallsHold ==
  ASSUME CallsInv, NEW c \in Calls, AtMount(c) \/ InProcess(c) \/ Leaves(c)
  PROVE  CallsInv'
BY MountHolds, AdmittedHolds, EndingsHold, RelayHolds, ProcessHolds, OthersHold DEF AtMount

-----------------------------------------------------------------------------
(* The sockets. *)

\* A state of one socket.
SocketRecords ==
  [mount : {"new", "carrying", "over", "cancelled"},
   reader : {"none", "reading", "left", "stopped"},
   link : {"none", "open", "closed", "aborted", "lost"},
   up : Seq({"event", "disconnect"}), down : Seq({"event", "close"}),
   app : {"none", "serving", "ending", "draining", "over"},
   client : {"here", "gone"}, closed : BOOLEAN, got : {"nothing", "close", "1011"}]

OneSocketOK(r) ==
  /\ r.mount = "over" /\ r.client = "here" => r.got # "nothing" \/ r.link = "closed"
  /\ r.closed => r.got = "close"
  /\ r.mount = "new" => ~r.closed /\ r.link = "none"
  /\ r.mount = "over" => r.link # "open"
  /\ r.reader = "left" => r.client = "gone"

\* The invariant of the sockets is one of each socket.
LEMMA SocketByCase ==
  /\ SocketsInv <=> sock \in [Sockets -> SocketRecords] /\ \A s \in Sockets : OneSocketOK(sock[s])
  /\ SocketsInv' <=> sock' \in [Sockets -> SocketRecords] /\ \A s \in Sockets : OneSocketOK(sock'[s])
BY DEF SocketsInv, SocketTypeOK, SocketsTold, SocketsSane, SocketRecords, OneSocketOK

\* A step of one socket keeps it sane, and is no step of another.
LEMMA SocketsHold ==
  ASSUME SocketsInv, NEW s \in Sockets, SocketNext(s)
  PROVE  SocketsInv'
<1> DEFINE Events == Seq({"event", "disconnect"})
           Answers == Seq({"event", "close"})
<1>1. sock \in [Sockets -> SocketRecords] /\ OneSocketOK(sock[s]) /\ sock[s] \in SocketRecords
  BY SocketByCase
<1>2. sock[s].up \in Events /\ sock[s].down \in Answers BY <1>1 DEF SocketRecords
<1>3. <<>> \in Answers /\ Append(sock[s].up, "event") \in Events
      /\ Append(sock[s].up, "disconnect") \in Events
      /\ Append(sock[s].down, "event") \in Answers /\ Append(sock[s].down, "close") \in Answers
      /\ (sock[s].up # <<>> => Tail(sock[s].up) \in Events)
      /\ (sock[s].down # <<>> => Tail(sock[s].down) \in Answers)
  BY <1>2, AppendProperties, HeadTailProperties
<1>4. SocketRecords =
        [mount : {"new", "carrying", "over", "cancelled"},
         reader : {"none", "reading", "left", "stopped"},
         link : {"none", "open", "closed", "aborted", "lost"},
         up : Events, down : Answers,
         app : {"none", "serving", "ending", "draining", "over"},
         client : {"here", "gone"}, closed : BOOLEAN, got : {"nothing", "close", "1011"}]
  BY DEF SocketRecords
<1>5. SUFFICES ASSUME NEW r \in SocketRecords, OneSocketOK(r), sock' = [sock EXCEPT ![s] = r]
               PROVE  SocketsInv'
  <2> HIDE DEF Events, Answers
  <2> USE <1>1, <1>2, <1>3, <1>4 DEF OneSocketOK, Broken, Reads
  <2>1. CASE OpensSocket(s)
    <3> DEFINE r == [sock[s] EXCEPT !.mount = "carrying", !.reader = "reading", !.link = "open"]
    <3>1. r \in SocketRecords /\ OneSocketOK(r) BY <2>1 DEF OpensSocket
    <3>2. sock' = [sock EXCEPT ![s] = r] BY <2>1 DEF OpensSocket
    <3> QED BY <3>1, <3>2
  <2>2. CASE Unreachable(s)
    <3> DEFINE r == [sock[s] EXCEPT !.mount = "over", !.got = "1011"]
    <3>1. r \in SocketRecords /\ OneSocketOK(r) BY <2>2 DEF Unreachable
    <3>2. sock' = [sock EXCEPT ![s] = r] BY <2>2 DEF Unreachable
    <3> QED BY <3>1, <3>2
  <2>3. CASE ForwardsEvent(s)
    <3> DEFINE r == [sock[s] EXCEPT !.up = Append(@, "event")]
    <3>1. r \in SocketRecords /\ OneSocketOK(r) BY <2>3 DEF ForwardsEvent
    <3>2. sock' = [sock EXCEPT ![s] = r] BY <2>3 DEF ForwardsEvent
    <3> QED BY <3>1, <3>2
  <2>4. CASE ForwardsLeave(s)
    <3> DEFINE r == [sock[s] EXCEPT !.up = Append(@, "disconnect"), !.reader = "left"]
    <3>1. r \in SocketRecords /\ OneSocketOK(r) BY <2>4 DEF ForwardsLeave
    <3>2. sock' = [sock EXCEPT ![s] = r] BY <2>4 DEF ForwardsLeave
    <3> QED BY <3>1, <3>2
  <2>5. CASE StopsReading(s)
    <3> DEFINE r == [sock[s] EXCEPT !.reader = "stopped"]
    <3>1. r \in SocketRecords /\ OneSocketOK(r) BY <2>5 DEF StopsReading
    <3>2. sock' = [sock EXCEPT ![s] = r] BY <2>5 DEF StopsReading
    <3> QED BY <3>1, <3>2
  <2>6. CASE Carries(s)
    <3> DEFINE r == [sock[s] EXCEPT !.down = Tail(@), !.closed = @ \/ Head(sock[s].down) = "close",
                             !.got = IF Head(sock[s].down) = "close" THEN "close" ELSE @]
    <3>1. r \in SocketRecords /\ OneSocketOK(r) BY <2>6 DEF Carries
    <3>2. sock' = [sock EXCEPT ![s] = r] BY <2>6 DEF Carries
    <3> HIDE DEF r
    <3> QED BY <3>1, <3>2
  <2>7. CASE SendFails(s)
    <3> DEFINE r == Broken(s)
    <3>1. r \in SocketRecords /\ OneSocketOK(r) BY <2>7 DEF SendFails
    <3>2. sock' = [sock EXCEPT ![s] = r] BY <2>7 DEF SendFails
    <3> HIDE DEF r
    <3> QED BY <3>1, <3>2
  <2>8. CASE EndsCleanly(s)
    <3> DEFINE r == [sock[s] EXCEPT !.mount = "over", !.link = "closed"]
    <3>1. r \in SocketRecords /\ OneSocketOK(r) BY <2>8 DEF EndsCleanly
    <3>2. sock' = [sock EXCEPT ![s] = r] BY <2>8 DEF EndsCleanly
    <3> QED BY <3>1, <3>2
  <2>9. CASE Breaks(s)
    <3> DEFINE r == [Broken(s) EXCEPT !.got =
                      IF sock[s].reader # "left" /\ ~sock[s].closed THEN "1011" ELSE @]
    <3>1. r \in SocketRecords /\ OneSocketOK(r) BY <2>9 DEF Breaks
    <3>2. sock' = [sock EXCEPT ![s] = r] BY <2>9 DEF Breaks
    <3> HIDE DEF r
    <3> QED BY <3>1, <3>2
  <2>10. CASE SocketCancelled(s)
    <3> DEFINE r == [Broken(s) EXCEPT !.mount = "cancelled"]
    <3>1. r \in SocketRecords /\ OneSocketOK(r) BY <2>10 DEF SocketCancelled
    <3>2. sock' = [sock EXCEPT ![s] = r] BY <2>10 DEF SocketCancelled
    <3> HIDE DEF r
    <3> QED BY <3>1, <3>2
  <2>11. CASE ClientGoes(s)
    <3> DEFINE r == [sock[s] EXCEPT !.client = "gone"]
    <3>1. r \in SocketRecords /\ OneSocketOK(r) BY <2>11 DEF ClientGoes
    <3>2. sock' = [sock EXCEPT ![s] = r] BY <2>11 DEF ClientGoes
    <3> QED BY <3>1, <3>2
  <2>12. CASE SocketServed(s)
    <3> DEFINE r == [sock[s] EXCEPT !.app = "serving"]
    <3>1. r \in SocketRecords /\ OneSocketOK(r) BY <2>12 DEF SocketServed
    <3>2. sock' = [sock EXCEPT ![s] = r] BY <2>12 DEF SocketServed
    <3> QED BY <3>1, <3>2
  <2>13. CASE Receives(s)
    <3>1. PICK q \in Events, there \in {"serving", "ending"} :
            sock' = [sock EXCEPT ![s] = [sock[s] EXCEPT !.up = q, !.app = there]]
      <4>1. CASE sock' = [sock EXCEPT ![s].up = Tail(@), ![s].app = "serving"] /\ sock[s].up # <<>>
        BY <4>1
      <4>2. CASE sock' = [sock EXCEPT ![s].up = Tail(@), ![s].app = "ending"] /\ sock[s].up # <<>>
        BY <4>2
      <4>3. CASE sock' = [sock EXCEPT ![s].app = "ending"]
        <5>1. sock' = [sock EXCEPT ![s] = [sock[s] EXCEPT !.up = sock[s].up, !.app = "ending"]] BY <4>3
        <5> QED BY <5>1
      <4> QED BY <2>13, <4>1, <4>2, <4>3 DEF Receives
    <3> DEFINE r == [sock[s] EXCEPT !.up = q, !.app = there]
    <3>2. r \in SocketRecords /\ OneSocketOK(r) OBVIOUS
    <3> QED BY <3>1, <3>2
  <2>14. CASE SendsEvent(s)
    <3>1. PICK event \in {"event", "close"} :
            sock' = [sock EXCEPT ![s] = [sock[s] EXCEPT !.down = Append(@, event),
                                           !.app = IF event = "close" THEN "ending" ELSE @]]
      BY <2>14 DEF SendsEvent
    <3> DEFINE r == [sock[s] EXCEPT !.down = Append(@, event),
                                    !.app = IF event = "close" THEN "ending" ELSE @]
    <3>2. sock[s].app = "serving" BY <2>14 DEF SendsEvent
    <3>3. r \in SocketRecords /\ OneSocketOK(r) BY <3>2
    <3>4. sock' = [sock EXCEPT ![s] = r] BY <3>1
    <3> HIDE DEF r
    <3> QED BY <3>3, <3>4
  <2>15. CASE Returns(s)
    <3> DEFINE r == [sock[s] EXCEPT !.app = IF sock[s].link = "open" THEN "draining" ELSE "over"]
    <3>1. r \in SocketRecords /\ OneSocketOK(r) BY <2>15 DEF Returns
    <3>2. sock' = [sock EXCEPT ![s] = r] BY <2>15 DEF Returns
    <3> HIDE DEF r
    <3> QED BY <3>1, <3>2
  <2>16. CASE AppRaises(s)
    <3> DEFINE r == [sock[s] EXCEPT !.app = "over", !.link = IF @ = "open" THEN "aborted" ELSE @]
    <3>1. r \in SocketRecords /\ OneSocketOK(r) BY <2>16 DEF AppRaises
    <3>2. sock' = [sock EXCEPT ![s] = r] BY <2>16 DEF AppRaises
    <3> HIDE DEF r
    <3> QED BY <3>1, <3>2
  <2>17. CASE SocketDrained(s)
    <3> DEFINE r == [sock[s] EXCEPT !.app = "over"]
    <3>1. r \in SocketRecords /\ OneSocketOK(r) BY <2>17 DEF SocketDrained
    <3>2. sock' = [sock EXCEPT ![s] = r] BY <2>17 DEF SocketDrained
    <3> QED BY <3>1, <3>2
  <2> QED
    BY <2>1, <2>2, <2>3, <2>4, <2>5, <2>6, <2>7, <2>8, <2>9, <2>10, <2>11, <2>12, <2>13, <2>14, <2>15, <2>16, <2>17
    DEF SocketNext
<1> QED BY <1>1, <1>5, SocketByCase

\* The end of the process, for every socket at once.
LEMMA EndsSocketsHolds ==
  ASSUME SocketsInv, EndsSockets
  PROVE  SocketsInv'
<1>1. sock \in [Sockets -> SocketRecords] /\ \A s \in Sockets : OneSocketOK(sock[s])
  BY SocketByCase
<1>2. ASSUME NEW s \in Sockets PROVE sock'[s] \in SocketRecords /\ OneSocketOK(sock'[s])
  <2>1. sock'[s] = [sock[s] EXCEPT !.link = IF @ = "open" THEN "lost" ELSE @,
                       !.app = IF @ = "none" /\ sock[s].link # "open" THEN @ ELSE "over"]
    BY DEF EndsSockets
  <2>2. sock[s] \in SocketRecords /\ OneSocketOK(sock[s]) BY <1>1
  <2>3. CASE sock[s].link = "open"
    <3>1. sock'[s] = [sock[s] EXCEPT !.link = "lost", !.app = "over"] BY <2>1, <2>3
    <3> QED BY <2>2, <2>3, <3>1 DEF SocketRecords, OneSocketOK
  <2>4. CASE sock[s].link # "open" /\ sock[s].app = "none"
    <3>1. sock'[s] = [sock[s] EXCEPT !.link = sock[s].link, !.app = "none"] BY <2>1, <2>4
    <3> QED BY <2>2, <2>4, <3>1 DEF SocketRecords, OneSocketOK
  <2>5. CASE sock[s].link # "open" /\ sock[s].app # "none"
    <3>1. sock'[s] = [sock[s] EXCEPT !.app = "over"] BY <2>1, <2>2, <2>5 DEF SocketRecords
    <3> QED BY <2>2, <2>5, <3>1 DEF SocketRecords, OneSocketOK
  <2> QED BY <2>3, <2>4, <2>5
<1>3. sock' \in [Sockets -> SocketRecords] BY <1>2 DEF EndsSockets
<1> QED BY <1>2, <1>3, SocketByCase

-----------------------------------------------------------------------------
(* Together. *)

\* Every step, of a call, a socket, a process or nobody.
LEMMA StepHolds ==
  ASSUME IInv, [RelayNext]_relayVars
  PROVE  IInv'
<1> USE DEF IInv
<1>1. ASSUME NEW c \in Calls \cap load, AtMount(c) \/ InProcess(c) \/ Leaves(c), UNCHANGED <<load, sock>>
      PROVE  IInv'
  <2>1. CallsInv' BY <1>1, CallsHold
  <2>2. SocketsInv' BY <1>1, SocketByCase
  <2> QED BY <2>1, <2>2
<1>2. ASSUME NEW s \in Sockets, SocketNext(s)
      PROVE  IInv'
  <2>1. UNCHANGED <<vars, load>>
    BY <1>2
    DEF SocketNext, SocketStep, OpensSocket, Unreachable, ForwardsEvent, ForwardsLeave, StopsReading,
        Carries, SendFails, EndsCleanly, Breaks, SocketCancelled, ClientGoes, SocketServed, Receives,
        SendsEvent, Returns, AppRaises, SocketDrained
  <2>2. CallsInv' BY <2>1, SameCalls
  <2>3. SocketsInv' BY <1>2, SocketsHold
  <2> QED BY <2>2, <2>3
<1>3. CASE EndsSockets
  <2>1. Dies BY <1>3 DEF EndsSockets
  <2> QED BY <1>3, <2>1, OthersHold, EndsSocketsHolds
<1>4. CASE Rejoins /\ UNCHANGED <<load, sock>>
  <2>1. CallsInv' BY <1>4, OthersHold
  <2>2. SocketsInv' BY <1>4, SocketByCase
  <2> QED BY <2>1, <2>2
<1>5. CASE UNCHANGED relayVars
  <2>1. CallsInv' BY <1>5, SameCalls DEF relayVars
  <2>2. SocketsInv' BY <1>5, SocketByCase DEF relayVars
  <2> QED BY <2>1, <2>2
<1> QED BY <1>1, <1>2, <1>3, <1>4, <1>5 DEF RelayNext

\* However the requests, the sockets and the process interleave, the slots of
\* the mount balance, no answer that stopped looks whole, none that started is
\* followed by another, and a client that is there learns once how its socket
\* ended.
THEOREM AnswersOnce == RelaySpec => []AnsweredOnce
<1>1. RelayInit => IInv BY InitHolds
<1>2. IInv /\ [RelayNext]_relayVars => IInv' BY StepHolds
<1>3. IInv => AnsweredOnce
  BY DEF IInv, CallsInv, SocketsInv, AnsweredOnce, OneSlotOneAnswer
<1> QED BY <1>1, <1>2, <1>3, PTL DEF RelaySpec
=============================================================================
