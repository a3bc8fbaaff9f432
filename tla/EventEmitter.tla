---------------------------- MODULE EventEmitter ----------------------------
(***************************************************************************)
(* The buffered LogEmitter of internal/emit, its drain goroutine, and the  *)
(* shutdown sequence of cmd/koshi/main.go that closes it while request     *)
(* goroutines may still be emitting.                                       *)
(***************************************************************************)
EXTENDS Integers, Sequences, SequencesExt

CONSTANTS Procs,       \* request goroutines
          MaxEvents,   \* the events one request emits
          BufferSize   \* defaultBufferSize

ASSUME EmitterAssumption == /\ IsFiniteSet(Procs)
                            /\ MaxEvents \in Nat
                            /\ BufferSize \in Nat \ {0}

VARIABLES events,    \* the channel's buffer
          closed,    \* close(e.events) was called
          dropped,   \* the drop counter
          writing,   \* events the drain goroutine has taken, not yet logged
          drained,   \* close(e.done) was called
          logged,    \* the events handed to the logger, in order
          main,      \* where main is
          status,    \* where each request goroutine is
          sent,      \* number of events each request has emitted
          timedOut,  \* history: Shutdown's 30 seconds were over first
          accepted   \* history: the events the buffer took, in order

vars == <<events, closed, dropped, writing, drained, logged, main, status, sent, timedOut, accepted>>

Event == Procs \X (1 .. MaxEvents)

TypeOK == /\ events \in Seq(Event) /\ Len(events) <= BufferSize
          /\ closed \in BOOLEAN /\ drained \in BOOLEAN /\ timedOut \in BOOLEAN
          /\ dropped \in Nat
          /\ writing \in Seq(Event) /\ Len(writing) <= 1
          /\ logged \in Seq(Event) /\ accepted \in Seq(Event)
          /\ main \in {"serving", "shutdown", "closing", "exited"}
          /\ status \in [Procs -> {"new", "running", "ended", "panicked"}]
          /\ sent \in [Procs -> 0 .. MaxEvents]

\* NewLogEmitter, and main at its select statement.
Init == /\ events = << >> /\ closed = FALSE /\ dropped = 0
        /\ writing = << >> /\ drained = FALSE /\ logged = << >>
        /\ main = "serving"
        /\ status = [p \in Procs |-> "new"]
        /\ sent = [p \in Procs |-> 0]
        /\ timedOut = FALSE /\ accepted = << >>

-----------------------------------------------------------------------------
(* Request goroutines *)

\* Shutdown closes the listener, but still serves a connection that was open
\* and had not sent its first request.
Accept(p) == /\ main \in {"serving", "shutdown"} /\ status[p] = "new"
             /\ status' = [status EXCEPT ![p] = "running"]
             /\ UNCHANGED <<events, closed, dropped, writing, drained, logged, main,
                            sent, timedOut, accepted>>

(* Mutant: the buffer takes one event too many. *)
HasRoomForOneMore == Len(events) <= BufferSize

\* The channel has room for another event.
HasRoom == Len(events) < BufferSize

(* Mutants: a drop is not counted; a full buffer blocks. *)
DropSilently == UNCHANGED dropped
BlockWhenFull == FALSE

\* The select's default case.
Drop == dropped' = dropped + 1

\* Emit: a select with a send and a default.  A send on a closed channel
\* panics; the handler's recover emits again, and panics again.
Emit(p) ==
    /\ main # "exited" /\ status[p] = "running" /\ sent[p] < MaxEvents
    /\ sent' = [sent EXCEPT ![p] = @ + 1]
    /\ \/ /\ ~closed /\ HasRoom
          /\ events' = Append(events, <<p, sent'[p]>>)
          /\ accepted' = Append(accepted, <<p, sent'[p]>>)
          /\ UNCHANGED <<dropped, status>>
       \/ /\ ~closed /\ ~HasRoom
          /\ Drop
          /\ UNCHANGED <<events, accepted, status>>
       \/ /\ closed
          /\ status' = [status EXCEPT ![p] = "panicked"]
          /\ UNCHANGED <<events, accepted, dropped>>
    /\ UNCHANGED <<closed, writing, drained, logged, main, timedOut>>

EndRequest(p) == /\ main # "exited" /\ status[p] = "running" /\ sent[p] = MaxEvents
                 /\ status' = [status EXCEPT ![p] = "ended"]
                 /\ UNCHANGED <<events, closed, dropped, writing, drained, logged,
                                main, sent, timedOut, accepted>>

-----------------------------------------------------------------------------
(* The drain goroutine: receives, writes, and ends when the channel is       *)
(* closed and empty.                                                         *)

Receive == /\ main # "exited" /\ writing = << >> /\ events # << >>
           /\ writing' = <<Head(events)>>
           /\ events' = Tail(events)
           /\ UNCHANGED <<closed, dropped, drained, logged, main, status, sent, timedOut, accepted>>

Write == /\ main # "exited" /\ writing # << >>
         /\ logged' = logged \o writing
         /\ writing' = << >>
         /\ UNCHANGED <<events, closed, dropped, drained, main, status, sent, timedOut, accepted>>

(* Mutant: done is never closed. *)
DrainEndsSilently == FALSE

DrainEnd == /\ closed /\ events = << >> /\ writing = << >> /\ ~drained
            /\ drained' = TRUE
            /\ UNCHANGED <<events, closed, dropped, writing, logged, main, status,
                           sent, timedOut, accepted>>

-----------------------------------------------------------------------------
(* main *)

\* A signal or a server error: server.Shutdown stops accepting connections.
Signal == /\ main = "serving"
          /\ main' = "shutdown"
          /\ UNCHANGED <<events, closed, dropped, writing, drained, logged, status,
                         sent, timedOut, accepted>>

InFlight == {p \in Procs : status[p] = "running"}

(* Mutant: Shutdown does not wait. *)
ReturnsAtOnce == UNCHANGED timedOut

\* server.Shutdown returns when no request is in flight, or when its context
\* is done.
ShutdownReturns == \/ InFlight = {} /\ UNCHANGED timedOut
                   \/ InFlight # {} /\ timedOut' = TRUE

\* Then emitter.Close closes the channel
CloseEmitter == /\ main = "shutdown"
                /\ ShutdownReturns
                /\ closed' = TRUE
                /\ main' = "closing"
                /\ UNCHANGED <<events, dropped, writing, drained, logged, status,
                               sent, accepted>>

(* Mutant: Close does not wait for the drain goroutine. *)
ExitAtOnce == /\ main = "closing"
              /\ main' = "exited"
              /\ UNCHANGED <<events, closed, dropped, writing, drained, logged, status,
                             sent, timedOut, accepted>>

\* and waits for the drain goroutine before main returns.
Exit == /\ main = "closing" /\ drained
        /\ main' = "exited"
        /\ UNCHANGED <<events, closed, dropped, writing, drained, logged, status,
                       sent, timedOut, accepted>>

Request(p) == Emit(p) \/ EndRequest(p)
Drain == Receive \/ Write \/ DrainEnd
Shutdown == CloseEmitter \/ Exit

Next == \/ \E p \in Procs : Accept(p) \/ Request(p)
        \/ Drain
        \/ Signal
        \/ Shutdown

Spec == Init /\ [][Next]_vars

\* Only the request goroutines are sure to be scheduled: the logger may block
\* for ever.
RequestFairSpec == Spec /\ \A p \in Procs : WF_vars(Request(p))

-----------------------------------------------------------------------------
(* Properties *)

Emitted == SumFunction(sent)
Panicked == {p \in Procs : status[p] = "panicked"}

(* Every event that was emitted is logged, on its way, or counted as         *)
(* dropped, except the one whose emission panicked; and events are logged in *)
(* the order in which the buffer took them.                                  *)
EventsAccounted ==
    /\ Emitted = Len(logged) + Len(writing) + Len(events) + dropped + Cardinality(Panicked)
    /\ logged \o writing \o events = accepted

(* Close drains: when main returns, every accepted event has been logged,    *)
(* even if requests were still emitting when Shutdown timed out.             *)
CloseDrains == main = "exited" => logged = accepted

(* Emit never blocks the proxy path: a request ends, or fails, even if the   *)
(* drain goroutine is stuck in the logger.  (When the process has exited     *)
(* there is nobody left to wait.)                                            *)
EmitNeverBlocks ==
    \A p \in Procs : status[p] = "running" ~> status[p] # "running" \/ main = "exited"

(* Shutdown completes: once it has begun, main exits, if the drain goroutine *)
(* and main are scheduled, however many events are buffered and whatever the *)
(* requests do.                                                              *)
ShutdownCompletes == WF_vars(Drain) /\ WF_vars(Shutdown)
                         => (main = "shutdown" ~> main = "exited")

(* No request fails because of telemetry, Emit never panics, unless it       *)
(* outlives the grace period of Shutdown.                                    *)
TelemetryNeverFailsRequests == ~timedOut => Panicked = {}
=============================================================================
