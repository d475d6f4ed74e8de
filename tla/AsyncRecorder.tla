--------------------------- MODULE AsyncRecorder ---------------------------
(***************************************************************************)
(* The asynchronous audit recorder of pkg/audit/async.go.                   *)
(*                                                                         *)
(* Request goroutines (Callers) call Record, which puts the event into a    *)
(* bounded channel without ever blocking; one goroutine (run) hands the     *)
(* queued events to the sink; Close, which any number of goroutines may     *)
(* call, closes the channel, waits for run and closes the sink once.  The   *)
(* RWMutex that keeps a send from meeting a closed channel, the two         *)
(* sync.Once values and the contexts that bound Close are all explicit.     *)
(***************************************************************************)
EXTENDS Naturals, Sequences

CONSTANTS Callers,     \* goroutines that call Record
          Closers,     \* goroutines that call Close
          QueueSize,   \* capacity of the channel (DefaultQueueSize in production)
          MaxRecords   \* bound: Record calls made by one caller

ASSUME QueueSizeAssumption == QueueSize \in Nat \ {0}
ASSUME MaxRecordsAssumption == MaxRecords \in Nat

VARIABLES
  rpc,         \* where each caller is inside Record
  calls,       \* Record calls each caller has started
  cpc,         \* where each closer is inside Close, or what Close returned
  ctxDone,     \* closers whose context has expired
  closed,      \* the atomic flag
  queueClosed, \* close(r.queue) was executed
  once,        \* queueCloseOnce
  readers,     \* callers that hold r.mu for reading
  queue,       \* the channel's buffer
  drain,       \* where the run goroutine is; "exited" is close(r.done)
  current,     \* the event run is writing
  sink,        \* the sink and sinkCloseOnce
  sinkErr,     \* sinkCloseErr
  observed,    \* results reported to the observer
  accepted     \* history: events the channel took

callerVars == <<rpc, calls, readers>>
closerVars == <<cpc, ctxDone, closed, queueClosed, once>>
sinkVars   == <<sink, sinkErr>>
drainVars  == <<drain, current>>
vars == <<callerVars, closerVars, sinkVars, drainVars, queue, observed, accepted>>

Event == Callers \X (1..MaxRecords)
NoEvent == <<>>
Returned == {"nil", "sinkErr", "ctxErr"}
Results == {"written", "dropped", "sink_error"}

TypeOK ==
  /\ rpc \in [Callers -> {"idle", "prepared", "locked", "sending"}]
  /\ calls \in [Callers -> 0..MaxRecords]
  /\ cpc \in [Closers -> {"idle", "once", "lock", "closing", "waitDone", "waitSink"}
                           \cup Returned]
  /\ ctxDone \subseteq Closers
  /\ closed \in BOOLEAN /\ queueClosed \in BOOLEAN
  /\ once \in {"fresh", "running", "done"}
  /\ readers \subseteq Callers
  /\ queue \in Seq(Event) /\ Len(queue) <= QueueSize
  /\ drain \in {"receive", "writing", "exited"}
  /\ current \in Event \cup {NoEvent}
  /\ sink \in {"open", "closing", "closed"} /\ sinkErr \in BOOLEAN
  /\ observed \in [Results -> Nat]
  /\ accepted \in Nat

Init ==
  /\ rpc = [p \in Callers |-> "idle"]
  /\ calls = [p \in Callers |-> 0]
  /\ cpc = [c \in Closers |-> "idle"]
  /\ ctxDone = {}
  /\ closed = FALSE /\ queueClosed = FALSE /\ once = "fresh"
  /\ readers = {}
  /\ queue = <<>>
  /\ drain = "receive" /\ current = NoEvent
  /\ sink = "open" /\ sinkErr = FALSE
  /\ observed = [r \in Results |-> 0]
  /\ accepted = 0

Observe(r) == observed' = [observed EXCEPT ![r] = @ + 1]

-----------------------------------------------------------------------------
(* Record                                                                   *)

\* The first, lock-free test of the flag; past it the event is prepared and cloned.
Record(p) ==
  /\ rpc[p] = "idle" /\ calls[p] < MaxRecords
  /\ calls' = [calls EXCEPT ![p] = @ + 1]
  /\ rpc' = [rpc EXCEPT ![p] = IF closed THEN "idle" ELSE "prepared"]
  /\ UNCHANGED <<readers, closerVars, sinkVars, drainVars, queue, observed, accepted>>

\* A Go RWMutex admits no new reader while a writer holds it or waits for it.
RLock(p) ==
  /\ rpc[p] = "prepared"
  /\ \A c \in Closers : cpc[c] \notin {"lock", "closing"}
  /\ readers' = readers \cup {p}
  /\ rpc' = [rpc EXCEPT ![p] = "locked"]
  /\ UNCHANGED <<calls, closerVars, sinkVars, drainVars, queue, observed, accepted>>

\* The second test, under the read lock; a closed recorder returns.
NoRecheck(p) == FALSE
ClosedUnderLock(p) == closed
Recheck(p) ==
  /\ rpc[p] = "locked"
  /\ rpc' = [rpc EXCEPT ![p] = IF ClosedUnderLock(p) THEN "idle" ELSE "sending"]
  /\ readers' = IF ClosedUnderLock(p) THEN readers \ {p} ELSE readers
  /\ UNCHANGED <<calls, closerVars, sinkVars, drainVars, queue, observed, accepted>>

\* The non-blocking send: a full queue drops the event and reports it.
DropWhenFull(p) ==
  /\ Len(queue) = QueueSize
  /\ Observe("dropped")
  /\ UNCHANGED <<queue, accepted>>
Send(p) ==
  /\ rpc[p] = "sending"
  /\ \/ /\ Len(queue) < QueueSize
        /\ queue' = Append(queue, <<p, calls[p]>>)
        /\ accepted' = accepted + 1
        /\ UNCHANGED observed
     \/ DropWhenFull(p)
  /\ rpc' = [rpc EXCEPT ![p] = "idle"]
  /\ readers' = readers \ {p}
  /\ UNCHANGED <<calls, closerVars, sinkVars, drainVars>>

-----------------------------------------------------------------------------
(* Close                                                                    *)

MoveCloser(c, to) == cpc' = [cpc EXCEPT ![c] = to]

Close(c) ==
  /\ cpc[c] = "idle"
  /\ MoveCloser(c, "once")
  /\ UNCHANGED <<callerVars, ctxDone, closed, queueClosed, once, sinkVars, drainVars,
                 queue, observed, accepted>>

\* queueCloseOnce.Do: the first closer runs the body, the others wait for its end.
EnterOnce(c) ==
  /\ cpc[c] = "once"
  /\ \/ once = "fresh" /\ once' = "running" /\ MoveCloser(c, "lock")
     \/ once = "done" /\ UNCHANGED once /\ MoveCloser(c, "waitDone")
  /\ UNCHANGED <<callerVars, ctxDone, closed, queueClosed, sinkVars, drainVars,
                 queue, observed, accepted>>

StoreClosed(c) ==
  /\ cpc[c] = "lock"
  /\ readers = {}
  /\ closed' = TRUE
  /\ MoveCloser(c, "closing")
  /\ UNCHANGED <<callerVars, ctxDone, queueClosed, once, sinkVars, drainVars,
                 queue, observed, accepted>>

CloseQueue(c) ==
  /\ cpc[c] = "closing"
  /\ queueClosed' = TRUE
  /\ once' = "done"
  /\ MoveCloser(c, "waitDone")
  /\ UNCHANGED <<callerVars, ctxDone, closed, sinkVars, drainVars, queue, observed,
                 accepted>>

\* <-r.done, then sinkCloseOnce.Do, which starts the goroutine that closes the sink.
DoneIgnored(c) == TRUE
DoneReceived(c) == drain = "exited"
StartSinkClose(c) == sink' = IF sink = "open" THEN "closing" ELSE sink
QueueDrained(c) ==
  /\ cpc[c] = "waitDone"
  /\ DoneReceived(c)
  /\ StartSinkClose(c)
  /\ MoveCloser(c, "waitSink")
  /\ UNCHANGED <<callerVars, ctxDone, closed, queueClosed, once, sinkErr, drainVars,
                 queue, observed, accepted>>

SinkClosed(c) ==
  /\ cpc[c] = "waitSink"
  /\ sink = "closed"
  /\ MoveCloser(c, IF sinkErr THEN "sinkErr" ELSE "nil")
  /\ UNCHANGED <<callerVars, ctxDone, closed, queueClosed, once, sinkVars, drainVars,
                 queue, observed, accepted>>

\* Either select of Close may take the ctx.Done branch.
DrainSelect == {"waitDone"}
SelectsOnContext == {"waitDone", "waitSink"}
CloseTimeout(c) ==
  /\ cpc[c] \in SelectsOnContext
  /\ c \in ctxDone
  /\ MoveCloser(c, "ctxErr")
  /\ UNCHANGED <<callerVars, ctxDone, closed, queueClosed, once, sinkVars, drainVars,
                 queue, observed, accepted>>

\* The context of a Close call expires or is cancelled.
Expire(c) ==
  /\ c \notin ctxDone
  /\ cpc[c] \notin {"idle"} \cup Returned
  /\ ctxDone' = ctxDone \cup {c}
  /\ UNCHANGED <<callerVars, cpc, closed, queueClosed, once, sinkVars, drainVars,
                 queue, observed, accepted>>

\* The goroutine started by sinkCloseOnce.
CloseSink ==
  /\ sink = "closing"
  /\ sink' = "closed"
  /\ sinkErr' \in BOOLEAN
  /\ UNCHANGED <<callerVars, closerVars, drainVars, queue, observed, accepted>>

-----------------------------------------------------------------------------
(* run                                                                      *)

Receive ==
  /\ drain = "receive"
  /\ queue # <<>>
  /\ current' = Head(queue)
  /\ queue' = Tail(queue)
  /\ drain' = "writing"
  /\ UNCHANGED <<callerVars, closerVars, sinkVars, observed, accepted>>

\* sink.Write returns, with or without an error.
FinishWrite(r) == Observe(r) /\ UNCHANGED queue
SinkWrite ==
  /\ drain = "writing"
  /\ \E r \in {"written", "sink_error"} : FinishWrite(r)
  /\ current' = NoEvent
  /\ drain' = "receive"
  /\ UNCHANGED <<callerVars, closerVars, sinkVars, accepted>>

\* The range over the channel ends when the channel is closed and empty.
RangeStopsOnClose == queueClosed
RangeEnds == queueClosed /\ queue = <<>>
RunExit ==
  /\ drain = "receive"
  /\ RangeEnds
  /\ drain' = "exited"
  /\ UNCHANGED <<callerVars, closerVars, sinkVars, current, queue, observed,
                 accepted>>

-----------------------------------------------------------------------------
CallerStep(p) == RLock(p) \/ Recheck(p) \/ Send(p)
CloserStep(c) ==
  \/ EnterOnce(c) \/ StoreClosed(c) \/ CloseQueue(c)
  \/ QueueDrained(c) \/ SinkClosed(c) \/ CloseTimeout(c)
SinkStep == SinkWrite \/ CloseSink
DrainStep == Receive \/ RunExit

Next ==
  \/ \E p \in Callers : Record(p) \/ CallerStep(p)
  \/ \E c \in Closers : Close(c) \/ CloserStep(c) \/ Expire(c)
  \/ SinkStep \/ DrainStep

Spec == Init /\ [][Next]_vars

\* Goroutines that can run do run, and a Close call has a deadline (gateway.go:59).
\* Nothing is assumed of the sink, which may hang forever.
ThreadFairness ==
  /\ \A p \in Callers : WF_vars(CallerStep(p))
  /\ \A c \in Closers : WF_vars(CloserStep(c)) /\ WF_vars(Expire(c))
  /\ WF_vars(DrainStep)
FairSpec == Spec /\ ThreadFairness

-----------------------------------------------------------------------------
(* Properties                                                               *)

Handled == observed["written"] + observed["sink_error"]

\* A goroutine about to send never meets a closed channel: the send in Record would
\* panic.  The lock-free test alone does not give this; the recheck under RLock does.
NoSendOnClosedQueue == \A p \in Callers : rpc[p] = "sending" => ~queueClosed

\* No accepted event disappears: it is in the channel, in run's hands, or was handed to
\* the sink and reported as written or sink_error.
NoEventLost ==
  accepted = Len(queue) + (IF drain = "writing" THEN 1 ELSE 0) + Handled

\* A Close that does not return ctx.Err() has drained the recorder: every event Record
\* ever accepted, by any goroutine, has been handed to the sink.
CloseDrains ==
  \A c \in Closers : cpc[c] \in {"nil", "sinkErr"} => accepted = Handled

\* The sink is closed only after the last write returned, however many closers race.
NoWriteAfterSinkClose == sink # "open" => drain = "exited" /\ queue = <<>>

\* Racing closers report the same outcome of the one sink.Close.
ClosersAgree ==
  \A c, d \in Closers : cpc[c] = "nil" => cpc[d] # "sinkErr"

\* No caller blocks: Close returns at the latest after its context expires, even when the
\* sink hangs, and Record never waits for the queue, the sink or a Close in progress.
CallsReturn ==
  /\ \A c \in Closers : (cpc[c] = "once") ~> (cpc[c] \in Returned)
  /\ \A p \in Callers : (rpc[p] = "prepared") ~> (rpc[p] = "idle")
=============================================================================
