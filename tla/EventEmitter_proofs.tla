------------------------ MODULE EventEmitter_proofs ------------------------
(***************************************************************************)
(* For any number of requests and events and any size of the buffer: no    *)
(* event gets lost between Emit and the logger without being counted, a    *)
(* completed Close has logged all that the buffer took, and only a request *)
(* that outlives the grace period of Shutdown can panic in Emit.           *)
(***************************************************************************)
EXTENDS EventEmitter, Sums, SequenceTheorems

\* How far main and the drain goroutine have come.  The channel is closed by
\* main alone, the drain goroutine ends on a closed and empty channel, and
\* main returns after it.
Phases == /\ closed <=> main \in {"closing", "exited"}
          /\ drained => closed /\ events = << >> /\ writing = << >>
          /\ main = "exited" => drained

\* A request that still runs when the channel is closed, or that has found it
\* closed, is one that Shutdown did not wait for.
Overdue == /\ closed => \A p \in Procs : status[p] = "running" => timedOut
           /\ \A p \in Procs : status[p] = "panicked" => timedOut

IInv == TypeOK /\ Phases /\ Overdue /\ EventsAccounted

-----------------------------------------------------------------------------
LEMMA InitIInv == Init => IInv
<1> SUFFICES ASSUME Init PROVE IInv
  OBVIOUS
<1>1. TypeOK
  <2>1. << >> \in Seq(Event) /\ Len(<< >>) = 0
    BY EmptySeq
  <2>2. sent \in [Procs -> 0 .. MaxEvents] /\ Len(events) <= BufferSize /\ Len(writing) <= 1
    BY <2>1, EmitterAssumption DEF Init
  <2>3. QED
    BY <2>1, <2>2 DEF Init, TypeOK
<1>2. Phases /\ Overdue
  BY DEF Init, Phases, Overdue
<1>3. EventsAccounted
  <2>1. Emitted = 0
    <3>1. IsFiniteSet(Procs) /\ DOMAIN sent = Procs /\ \A p \in Procs : sent[p] = 0
      BY EmitterAssumption DEF Init
    <3>2. QED
      BY <3>1, SumZero DEF Emitted, SumFunction
  <2>2. Panicked = {}
    BY DEF Init, Panicked
  <2>3. Cardinality(Panicked) = 0
    BY <2>2, FS_EmptySet
  <2>4. Len(<< >>) = 0 /\ << >> \o << >> \o << >> = << >>
    BY EmptySeq, ConcatEmptySeq
  <2>5. QED
    BY <2>1, <2>3, <2>4 DEF Init, EventsAccounted
<1>4. QED
  BY <1>1, <1>2, <1>3 DEF IInv

(* Each step keeps the state well formed; in particular Emit, which sends  *)
(* only when there is room, never overfills the buffer.                    *)
LEMMA NextType == TypeOK /\ [Next]_vars => TypeOK'
<1> SUFFICES ASSUME TypeOK, [Next]_vars PROVE TypeOK'
  OBVIOUS
<1>1. ASSUME NEW p \in Procs, Accept(p) PROVE TypeOK'
  BY <1>1 DEF TypeOK, Accept
<1>2. ASSUME NEW p \in Procs, Emit(p) PROVE TypeOK'
  <2>1. sent[p] + 1 \in 1 .. MaxEvents /\ sent'[p] = sent[p] + 1
    BY <1>2, EmitterAssumption DEF TypeOK, Emit
  <2>2. sent' \in [Procs -> 0 .. MaxEvents] /\ <<p, sent'[p]>> \in Event
    BY <1>2, <2>1, EmitterAssumption DEF TypeOK, Emit, Event
  <2>3. CASE /\ HasRoom /\ events' = Append(events, <<p, sent'[p]>>)
             /\ accepted' = Append(accepted, <<p, sent'[p]>>)
             /\ UNCHANGED <<dropped, status>>
    <3>1. /\ events' \in Seq(Event) /\ accepted' \in Seq(Event)
          /\ Len(events') = Len(events) + 1 /\ Len(events) \in Nat
      BY <2>2, <2>3, AppendProperties, LenProperties DEF TypeOK
    <3>2. Len(events') <= BufferSize
      BY <2>3, <3>1, EmitterAssumption DEF HasRoom
    <3>3. QED
      BY <1>2, <2>2, <2>3, <3>1, <3>2 DEF TypeOK, Emit
  <2>4. CASE Drop /\ UNCHANGED <<events, accepted, status>>
    BY <1>2, <2>2, <2>4 DEF TypeOK, Emit, Drop
  <2>5. CASE /\ status' = [status EXCEPT ![p] = "panicked"]
             /\ UNCHANGED <<events, accepted, dropped>>
    BY <1>2, <2>2, <2>5 DEF TypeOK, Emit
  <2>6. QED
    BY <1>2, <2>3, <2>4, <2>5 DEF Emit
<1>3. ASSUME NEW p \in Procs, EndRequest(p) PROVE TypeOK'
  BY <1>3 DEF TypeOK, EndRequest
<1>4. ASSUME Receive PROVE TypeOK'
  <2>1. /\ Head(events) \in Event /\ Tail(events) \in Seq(Event)
        /\ Len(Tail(events)) = Len(events) - 1 /\ Len(events) \in Nat
    BY <1>4, HeadTailProperties, LenProperties DEF TypeOK, Receive
  <2>2. <<Head(events)>> \in Seq(Event) /\ Len(<<Head(events)>>) = 1
    BY <2>1
  <2>3. Len(events') <= BufferSize
    BY <1>4, <2>1, EmitterAssumption DEF TypeOK, Receive
  <2>4. QED
    BY <1>4, <2>1, <2>2, <2>3 DEF TypeOK, Receive
<1>5. ASSUME Write PROVE TypeOK'
  <2>1. logged' \in Seq(Event)
    BY <1>5, ConcatProperties DEF TypeOK, Write
  <2>2. writing' \in Seq(Event) /\ Len(writing') <= 1
    BY <1>5, EmptySeq DEF Write
  <2>3. QED
    BY <1>5, <2>1, <2>2 DEF TypeOK, Write
<1>6. ASSUME DrainEnd PROVE TypeOK'
  BY <1>6 DEF TypeOK, DrainEnd
<1>7. ASSUME Signal PROVE TypeOK'
  BY <1>7 DEF TypeOK, Signal
<1>8. ASSUME CloseEmitter PROVE TypeOK'
  BY <1>8 DEF TypeOK, CloseEmitter, ShutdownReturns
<1>9. ASSUME Exit PROVE TypeOK'
  BY <1>9 DEF TypeOK, Exit
<1>10. ASSUME UNCHANGED vars PROVE TypeOK'
  BY <1>10 DEF TypeOK, vars
<1>11. QED
  BY <1>1, <1>2, <1>3, <1>4, <1>5, <1>6, <1>7, <1>8, <1>9, <1>10
     DEF Next, Request, Drain, Shutdown

(* The order of the shutdown: once the channel is closed nothing is sent    *)
(* on it, so that an empty channel stays empty until main returns.          *)
LEMMA NextPhases == TypeOK /\ Phases /\ [Next]_vars => Phases'
<1> SUFFICES ASSUME TypeOK, Phases, [Next]_vars PROVE Phases'
  OBVIOUS
<1>1. ASSUME NEW p \in Procs, Accept(p) PROVE Phases'
  BY <1>1 DEF Phases, Accept
<1>2. ASSUME NEW p \in Procs, Emit(p) PROVE Phases'
  BY <1>2 DEF TypeOK, Phases, Emit
<1>3. ASSUME NEW p \in Procs, EndRequest(p) PROVE Phases'
  BY <1>3 DEF Phases, EndRequest
<1>4. ASSUME Receive PROVE Phases'
  BY <1>4 DEF TypeOK, Phases, Receive
<1>5. ASSUME Write PROVE Phases'
  BY <1>5 DEF TypeOK, Phases, Write
<1>6. ASSUME DrainEnd PROVE Phases'
  BY <1>6 DEF TypeOK, Phases, DrainEnd
<1>7. ASSUME Signal PROVE Phases'
  BY <1>7 DEF TypeOK, Phases, Signal
<1>8. ASSUME CloseEmitter PROVE Phases'
  BY <1>8 DEF TypeOK, Phases, CloseEmitter
<1>9. ASSUME Exit PROVE Phases'
  BY <1>9 DEF TypeOK, Phases, Exit
<1>10. ASSUME UNCHANGED vars PROVE Phases'
  BY <1>10 DEF Phases, vars
<1>11. QED
  BY <1>1, <1>2, <1>3, <1>4, <1>5, <1>6, <1>7, <1>8, <1>9, <1>10
     DEF Next, Request, Drain, Shutdown

(* No request starts after Shutdown was called, so that the ones that run   *)
(* when the channel is closed are those that ran when it timed out.         *)
LEMMA NextOverdue == TypeOK /\ Phases /\ Overdue /\ [Next]_vars => Overdue'
<1> SUFFICES ASSUME TypeOK, Phases, Overdue, [Next]_vars PROVE Overdue'
  OBVIOUS
<1>1. ASSUME NEW p \in Procs, Accept(p) PROVE Overdue'
  BY <1>1 DEF TypeOK, Phases, Overdue, Accept
<1>2. ASSUME NEW p \in Procs, Emit(p) PROVE Overdue'
  BY <1>2 DEF TypeOK, Overdue, Emit
<1>3. ASSUME NEW p \in Procs, EndRequest(p) PROVE Overdue'
  BY <1>3 DEF TypeOK, Overdue, EndRequest
<1>4. ASSUME Receive \/ Write \/ DrainEnd \/ Signal \/ Exit PROVE Overdue'
  BY <1>4 DEF Overdue, Receive, Write, DrainEnd, Signal, Exit
<1>5. ASSUME CloseEmitter PROVE Overdue'
  BY <1>5 DEF TypeOK, Overdue, CloseEmitter, ShutdownReturns, InFlight
<1>6. ASSUME UNCHANGED vars PROVE Overdue'
  BY <1>6 DEF Overdue, vars
<1>7. QED
  BY <1>1, <1>2, <1>3, <1>4, <1>5, <1>6 DEF Next, Request, Drain, Shutdown

-----------------------------------------------------------------------------
(* The two halves of EventsAccounted. *)
Counted == Emitted = Len(logged) + Len(writing) + Len(events) + dropped + Cardinality(Panicked)
InOrder == logged \o writing \o events = accepted

(* One more event of request p is one more event emitted. *)
LEMMA EmittedPlusOne ==
    ASSUME TypeOK, NEW p \in Procs, sent' = [sent EXCEPT ![p] = @ + 1]
    PROVE  Emitted' = Emitted + 1
<1>1. IsFiniteSet(Procs) /\ DOMAIN sent = Procs /\ DOMAIN sent' = Procs
  BY EmitterAssumption DEF TypeOK
<1>2. sent \in [Procs -> Int] /\ sent[p] + 1 \in Int
  BY EmitterAssumption DEF TypeOK
<1>3. SumFunctionOnSet(sent', Procs) = SumFunctionOnSet(sent, Procs) + (sent[p] + 1) - sent[p]
  BY <1>1, <1>2, SumExcept
<1>4. SumFunctionOnSet(sent, Procs) \in Int
  BY <1>1, <1>2, SumType
<1>5. Emitted = SumFunctionOnSet(sent, Procs) /\ Emitted' = SumFunctionOnSet(sent', Procs)
  BY <1>1 DEF Emitted, SumFunction
<1>6. QED
  BY <1>2, <1>3, <1>4, <1>5

(* The numbers that Counted adds up. *)
LEMMA Lengths ==
    ASSUME TypeOK
    PROVE  /\ Len(logged) \in Nat /\ Len(writing) \in Nat /\ Len(events) \in Nat
           /\ dropped \in Nat /\ IsFiniteSet(Panicked) /\ Cardinality(Panicked) \in Nat
<1>1. Panicked \in SUBSET Procs
  BY DEF Panicked
<1>2. IsFiniteSet(Panicked) /\ Cardinality(Panicked) \in Nat
  BY <1>1, EmitterAssumption, FS_Subset, FS_CardinalityType
<1>3. QED
  BY <1>2, LenProperties DEF TypeOK

(* No step loses an event: each moves one to its next place, or counts it.  *)
LEMMA NextCounted == TypeOK /\ Counted /\ [Next]_vars => Counted'
<1> SUFFICES ASSUME TypeOK, Counted, [Next]_vars PROVE Counted'
  OBVIOUS
<1>1. ASSUME NEW p \in Procs, Emit(p) PROVE Counted'
  <2>1. Emitted' = Emitted + 1 /\ UNCHANGED <<logged, writing>>
    BY <1>1, EmittedPlusOne DEF Emit
  <2>2. CASE events' = Append(events, <<p, sent'[p]>>) /\ UNCHANGED <<dropped, status>>
    <3>1. <<p, sent'[p]>> \in Event
      BY <1>1, EmitterAssumption DEF TypeOK, Emit, Event
    <3>2. Len(events)' = Len(events) + 1
      BY <2>2, <3>1, AppendProperties DEF TypeOK
    <3>3. Panicked' = Panicked
      BY <2>2 DEF Panicked
    <3>4. QED
      BY <2>1, <2>2, <3>2, <3>3, Lengths DEF Counted
  <2>3. CASE Drop /\ UNCHANGED <<events, status>>
    <3>1. Panicked' = Panicked /\ dropped' = dropped + 1
      BY <2>3 DEF Panicked, Drop
    <3>2. QED
      BY <2>1, <2>3, <3>1, Lengths DEF Counted
  <2>4. CASE /\ status' = [status EXCEPT ![p] = "panicked"]
             /\ UNCHANGED <<events, dropped>>
    <3>1. Panicked' = Panicked \cup {p} /\ p \notin Panicked
      BY <1>1, <2>4 DEF TypeOK, Emit, Panicked
    <3>2. Cardinality(Panicked)' = Cardinality(Panicked) + 1
      BY <3>1, Lengths, FS_AddElement
    <3>3. QED
      BY <2>1, <2>4, <3>2, Lengths DEF Counted
  <2>5. QED
    BY <1>1, <2>2, <2>3, <2>4 DEF Emit
<1>2. ASSUME Receive PROVE Counted'
  <2>1. Len(events)' = Len(events) - 1
    BY <1>2, HeadTailProperties DEF TypeOK, Receive
  <2>2. Len(writing) = 0 /\ Len(writing)' = 1
    BY <1>2, EmptySeq DEF Receive
  <2>3. Emitted' = Emitted /\ Panicked' = Panicked /\ UNCHANGED <<logged, dropped>>
    BY <1>2 DEF Receive, Emitted, Panicked
  <2>4. QED
    BY <2>1, <2>2, <2>3, Lengths DEF Counted
<1>3. ASSUME Write PROVE Counted'
  <2>1. Len(logged)' = Len(logged) + Len(writing) /\ Len(writing)' = 0
    BY <1>3, ConcatProperties, EmptySeq DEF Write, TypeOK
  <2>2. Emitted' = Emitted /\ Panicked' = Panicked /\ UNCHANGED <<events, dropped>>
    BY <1>3 DEF Write, Emitted, Panicked
  <2>3. QED
    BY <2>1, <2>2, Lengths DEF Counted
<1>4. ASSUME NEW p \in Procs, Accept(p) \/ EndRequest(p) PROVE Counted'
  <2>1. Emitted' = Emitted
    BY <1>4 DEF Emitted, Accept, EndRequest
  <2>2. Panicked' = Panicked
    BY <1>4 DEF TypeOK, Panicked, Accept, EndRequest
  <2>3. QED
    BY <1>4, <2>1, <2>2 DEF Counted, Accept, EndRequest
<1>5. ASSUME DrainEnd \/ Signal \/ CloseEmitter \/ Exit \/ UNCHANGED vars
      PROVE  Counted'
  BY <1>5 DEF Counted, Emitted, Panicked, DrainEnd, Signal, CloseEmitter, Exit, vars
<1>6. QED
  BY <1>1, <1>2, <1>3, <1>4, <1>5 DEF Next, Request, Drain, Shutdown

(* Concatenation and what a queue does: an element is appended at its end,  *)
(* or moves from its head to the end of the sequence before it.             *)
LEMMA Concatenated ==
    ASSUME NEW S, NEW s \in Seq(S), NEW t \in Seq(S)
    PROVE  /\ \A x \in S : s \o Append(t, x) = Append(s \o t, x)
           /\ t # << >> => (s \o <<Head(t)>>) \o Tail(t) = s \o t
<1>1. ASSUME NEW x \in S PROVE s \o Append(t, x) = Append(s \o t, x)
  <2>1. s \o t \in Seq(S) /\ <<x>> \in Seq(S)
    BY ConcatProperties
  <2>2. (s \o t) \o <<x>> = s \o (t \o <<x>>)
    BY <2>1, ConcatAssociative
  <2>3. QED
    BY <2>1, <2>2, AppendIsConcat
<1>2. ASSUME t # << >> PROVE (s \o <<Head(t)>>) \o Tail(t) = s \o t
  <2>1. PICK h \in Seq(S), u \in Seq(S) : h = <<Head(t)>> /\ u = Tail(t) /\ h \o u = t
    <3>1. <<Head(t)>> \in Seq(S) /\ Tail(t) \in Seq(S) /\ <<Head(t)>> \o Tail(t) = t
      BY <1>2
    <3>2. QED
      BY <3>1, Zenon
  <2>2. (s \o h) \o u = s \o (h \o u)
    BY ConcatAssociative
  <2>3. QED
    BY <2>1, <2>2
<1>3. QED
  BY <1>1, <1>2

(* The events keep their order on the way from the buffer to the logger.    *)
LEMMA NextInOrder == TypeOK /\ InOrder /\ [Next]_vars => InOrder'
<1> SUFFICES ASSUME TypeOK, InOrder, [Next]_vars PROVE InOrder'
  OBVIOUS
<1>0. /\ logged \in Seq(Event) /\ writing \in Seq(Event) /\ events \in Seq(Event)
      /\ logged \o writing \in Seq(Event)
  BY ConcatProperties DEF TypeOK
<1>1. ASSUME NEW p \in Procs, Emit(p) PROVE InOrder'
  <2>1. CASE UNCHANGED <<events, accepted>>
    BY <1>1, <2>1 DEF Emit, InOrder
  <2>2. CASE /\ events' = Append(events, <<p, sent'[p]>>)
             /\ accepted' = Append(accepted, <<p, sent'[p]>>)
    <3>1. <<p, sent'[p]>> \in Event
      BY <1>1, EmitterAssumption DEF TypeOK, Emit, Event
    <3>2. \A x \in Event : (logged \o writing) \o Append(events, x)
                               = Append((logged \o writing) \o events, x)
      BY <1>0, Concatenated
    <3>3. UNCHANGED <<logged, writing>>
      BY <1>1 DEF Emit
    <3>4. QED
      BY <2>2, <3>1, <3>2, <3>3 DEF InOrder
  <2>3. QED
    BY <1>1, <2>1, <2>2 DEF Emit
<1>2. ASSUME Receive PROVE InOrder'
  <2>1. (logged \o <<Head(events)>>) \o Tail(events) = logged \o events
    BY <1>0, <1>2, Concatenated DEF Receive
  <2>2. logged \o writing = logged
    BY <1>0, <1>2, ConcatEmptySeq DEF Receive
  <2>3. QED
    BY <1>2, <2>1, <2>2 DEF Receive, InOrder
<1>3. ASSUME Write PROVE InOrder'
  <2>1. (logged \o writing) \o << >> = logged \o writing
    BY <1>0, ConcatEmptySeq
  <2>2. QED
    BY <1>3, <2>1 DEF Write, InOrder
<1>4. ASSUME NEW p \in Procs, Accept(p) \/ EndRequest(p) PROVE InOrder'
  BY <1>4 DEF InOrder, Accept, EndRequest
<1>5. ASSUME DrainEnd \/ Signal \/ CloseEmitter \/ Exit \/ UNCHANGED vars
      PROVE  InOrder'
  BY <1>5 DEF InOrder, DrainEnd, Signal, CloseEmitter, Exit, vars
<1>6. QED
  BY <1>1, <1>2, <1>3, <1>4, <1>5 DEF Next, Request, Drain, Shutdown

(* So EventsAccounted is preserved. *)
LEMMA NextAccounted == TypeOK /\ EventsAccounted /\ [Next]_vars => EventsAccounted'
<1>1. EventsAccounted <=> Counted /\ InOrder
  BY DEF EventsAccounted, Counted, InOrder
<1>2. EventsAccounted' <=> Counted' /\ InOrder'
  BY DEF EventsAccounted, Counted, InOrder
<1>3. QED
  BY <1>1, <1>2, NextCounted, NextInOrder

-----------------------------------------------------------------------------
LEMMA SpecIInv == Spec => []IInv
<1>1. IInv /\ [Next]_vars => IInv'
  BY NextType, NextPhases, NextOverdue, NextAccounted DEF IInv
<1>2. QED
  BY <1>1, InitIInv, PTL DEF Spec

(* The emitter's state is well formed: the buffer never holds more than      *)
(* BufferSize events, whatever the requests emit (LogEmitter).               *)
THEOREM EmitterTypeCorrect == Spec => []TypeOK
<1>1. IInv => TypeOK
  BY DEF IInv
<1>2. QED
  BY <1>1, SpecIInv, PTL

(* No event is lost without a trace, and events are logged in the order in   *)
(* which the buffer took them (Emit and drain).                              *)
THEOREM NoEventLost == Spec => []EventsAccounted
<1>1. IInv => EventsAccounted
  BY DEF IInv
<1>2. QED
  BY <1>1, SpecIInv, PTL

(* When main returns, all that the buffer took has been logged: Close waits  *)
(* for a drain goroutine that ends only on an empty channel to which nothing *)
(* can be added any more (Close, and the shutdown of main).                  *)
THEOREM ClosedIsDrained == Spec => []CloseDrains
<1>1. IInv => CloseDrains
  <2> SUFFICES ASSUME IInv, main = "exited" PROVE logged = accepted
    BY DEF CloseDrains
  <2>1. events = << >> /\ writing = << >>
    BY DEF IInv, Phases
  <2>2. logged \o << >> = logged
    BY ConcatEmptySeq DEF IInv, TypeOK
  <2>3. QED
    BY <2>1, <2>2 DEF IInv, EventsAccounted
<1>2. QED
  BY <1>1, SpecIInv, PTL

(* Emit panics only in a request that Shutdown gave up waiting for (Emit,    *)
(* server.Shutdown).                                                         *)
THEOREM EmitPanicsOnlyOverdue == Spec => []TelemetryNeverFailsRequests
<1>1. IInv => TelemetryNeverFailsRequests
  BY DEF IInv, Overdue, TelemetryNeverFailsRequests, Panicked
<1>2. QED
  BY <1>1, SpecIInv, PTL
=============================================================================
