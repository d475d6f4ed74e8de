------------------------ MODULE AsyncRecorderProofs ------------------------
(***************************************************************************)
(* Proofs about AsyncRecorder, for any number of callers and closers and    *)
(* any queue size.  None of the safety properties is inductive alone: what  *)
(* ties them together is the lock discipline of Record and Close (a sender  *)
(* holds the read lock, and the flag and the channel change only under the  *)
(* write lock) and the order in which Close passes its two selects.         *)
(***************************************************************************)
EXTENDS AsyncRecorder, TLAPS

\* A caller in the locked part of Record holds the read lock, and one past the second
\* test still sees an open recorder.
LockInv ==
  /\ \A p \in Callers : rpc[p] \in {"locked", "sending"} => p \in readers
  /\ \A p \in Callers : rpc[p] = "sending" => ~closed
  /\ \A c \in Closers : cpc[c] = "closing" => closed
  /\ queueClosed => closed
  /\ \A p \in Callers : rpc[p] # "idle" => calls[p] # 0

\* What run has done: it exits only when nothing can be in the channel any more.
DrainInv ==
  /\ drain = "writing" => current \in Event
  /\ drain = "exited" => queueClosed /\ queue = <<>>

\* How far the sink is closed, and what the closers may have concluded from it.
SinkInv ==
  /\ sink # "open" => drain = "exited"
  /\ \A c \in Closers : cpc[c] = "waitSink" => sink # "open"
  /\ \A c \in Closers : cpc[c] = "nil" => sink = "closed" /\ ~sinkErr
  /\ \A c \in Closers : cpc[c] = "sinkErr" => sink = "closed" /\ sinkErr

IInv == TypeOK /\ LockInv /\ DrainInv /\ SinkInv /\ NoEventLost

\* The counters are numbers, which the arithmetic below needs.
LEMMA CounterTypes ==
  ASSUME TypeOK
  PROVE  /\ Len(queue) \in Nat
         /\ observed["written"] \in Nat /\ observed["sink_error"] \in Nat
         /\ Handled \in Nat /\ accepted \in Nat
  BY DEF TypeOK, Results, Handled

\* Every initial state satisfies the inductive invariant.
LEMMA InitIInv == ASSUME Init PROVE IInv
<1>1. TypeOK
  <2>1. queue \in Seq(Event) /\ Len(queue) = 0
    BY DEF Init
  <2>2. rpc \in [Callers -> {"idle", "prepared", "locked", "sending"}]
        /\ calls \in [Callers -> 0..MaxRecords] /\ observed \in [Results -> Nat]
    BY MaxRecordsAssumption DEF Init
  <2>3. cpc \in [Closers -> {"idle", "once", "lock", "closing", "waitDone", "waitSink"}
                              \cup Returned]
    BY DEF Init
  <2>4. Len(queue) <= QueueSize
    BY <2>1, QueueSizeAssumption
  <2>5. /\ ctxDone \subseteq Closers /\ readers \subseteq Callers
        /\ closed \in BOOLEAN /\ queueClosed \in BOOLEAN /\ sinkErr \in BOOLEAN
        /\ once \in {"fresh", "running", "done"}
        /\ drain \in {"receive", "writing", "exited"}
        /\ current \in Event \cup {NoEvent}
        /\ sink \in {"open", "closing", "closed"} /\ accepted \in Nat
    BY Zenon DEF Init
  <2> QED BY <2>1, <2>2, <2>3, <2>4, <2>5 DEF TypeOK
<1>2. LockInv /\ DrainInv /\ SinkInv
  BY DEF Init, LockInv, DrainInv, SinkInv
<1>3. NoEventLost
  BY DEF Init, NoEventLost, Handled, Results
<1> QED BY <1>1, <1>2, <1>3 DEF IInv

\* Record, up to the send, moves only the caller and its read lock.
LEMMA CallerPreserves ==
  ASSUME IInv, NEW p \in Callers, Record(p) \/ RLock(p) \/ Recheck(p)
  PROVE  IInv'
<1> USE DEF IInv
<1>1. UNCHANGED <<cpc, ctxDone, closed, queueClosed, once, sink, sinkErr, drain, current,
                  queue, observed, accepted>>
  BY DEF Record, RLock, Recheck, closerVars, sinkVars, drainVars
<1>2. CASE Record(p)
  <2>1. calls' \in [Callers -> 0..MaxRecords] /\ calls'[p] # 0
        /\ \A q \in Callers \ {p} : calls'[q] = calls[q]
    BY <1>2, MaxRecordsAssumption DEF Record, TypeOK
  <2>2. TypeOK'
    BY <1>1, <1>2, <2>1 DEF Record, TypeOK
  <2>3. LockInv'
    BY <1>1, <1>2, <2>1 DEF Record, LockInv, TypeOK
  <2> QED BY <1>1, <2>2, <2>3 DEF DrainInv, SinkInv, NoEventLost, Handled
<1>3. CASE RLock(p)
  BY <1>1, <1>3 DEF RLock, TypeOK, LockInv, DrainInv, SinkInv, NoEventLost, Handled
<1>4. CASE Recheck(p)
  BY <1>1, <1>4
  DEF Recheck, ClosedUnderLock, TypeOK, LockInv, DrainInv, SinkInv, NoEventLost, Handled
<1> QED BY <1>2, <1>3, <1>4

\* The send: the sender holds the lock of an open recorder, so run has not exited.
LEMMA SendPreserves == ASSUME IInv, NEW p \in Callers, Send(p) PROVE IInv'
<1> USE DEF IInv
<1>1. rpc[p] = "sending" /\ ~closed /\ drain # "exited"
  BY DEF Send, LockInv, DrainInv
<1>2. <<p, calls[p]>> \in Event
  BY <1>1, MaxRecordsAssumption DEF TypeOK, LockInv, Event
<1>3. rpc' = [rpc EXCEPT ![p] = "idle"] /\ readers' = readers \ {p}
      /\ UNCHANGED <<calls, cpc, ctxDone, closed, queueClosed, once, sink, sinkErr,
                     drain, current>>
  BY DEF Send, closerVars, sinkVars, drainVars
<1>4. CASE Len(queue) < QueueSize /\ queue' = Append(queue, <<p, calls[p]>>)
           /\ accepted' = accepted + 1 /\ observed' = observed
  <2>1. queue' \in Seq(Event) /\ Len(queue') = Len(queue) + 1
    BY <1>2, <1>4 DEF TypeOK
  <2>2. TypeOK'
    BY <1>3, <1>4, <2>1, QueueSizeAssumption DEF TypeOK
  <2>3. NoEventLost'
    BY <1>3, <1>4, <2>1, CounterTypes, SMTT(30) DEF NoEventLost, Handled
  <2> QED BY <1>1, <1>3, <2>2, <2>3 DEF LockInv, DrainInv, SinkInv, TypeOK
<1>5. CASE DropWhenFull(p)
  <2>1. queue' = queue /\ accepted' = accepted
        /\ observed' = [observed EXCEPT !["dropped"] = @ + 1]
    BY <1>5 DEF DropWhenFull, Observe
  <2>2. TypeOK'
    BY <1>3, <2>1 DEF TypeOK, Results
  <2>3. NoEventLost'
    BY <1>3, <2>1 DEF NoEventLost, Handled, TypeOK, Results
  <2> QED BY <1>1, <1>3, <2>1, <2>2, <2>3 DEF LockInv, DrainInv, SinkInv, TypeOK
<1> QED BY <1>4, <1>5 DEF Send

\* A step of one closer.  The write lock excludes every sender when the flag is set.
LEMMA CloserPreserves ==
  ASSUME IInv, NEW c \in Closers, Close(c) \/ CloserStep(c) \/ Expire(c)
  PROVE  IInv'
<1> USE DEF IInv, MoveCloser
<1>1. UNCHANGED <<rpc, calls, readers, drain, current, queue, observed, accepted>>
  BY DEF Close, CloserStep, Expire, EnterOnce, StoreClosed, CloseQueue, QueueDrained,
     SinkClosed, CloseTimeout, callerVars, drainVars
<1>2. NoEventLost'
  BY <1>1 DEF NoEventLost, Handled
<1>3. CASE Close(c)
  BY <1>1, <1>2, <1>3 DEF Close, TypeOK, LockInv, DrainInv, SinkInv, sinkVars
<1>4. CASE EnterOnce(c)
  BY <1>1, <1>2, <1>4, Zenon DEF EnterOnce, TypeOK, LockInv, DrainInv, SinkInv, sinkVars
<1>5. CASE StoreClosed(c)
  BY <1>1, <1>2, <1>5 DEF StoreClosed, TypeOK, LockInv, DrainInv, SinkInv, sinkVars
<1>6. CASE CloseQueue(c)
  BY <1>1, <1>2, <1>6 DEF CloseQueue, TypeOK, LockInv, DrainInv, SinkInv, sinkVars
<1>7. CASE QueueDrained(c)
  BY <1>1, <1>2, <1>7
  DEF QueueDrained, DoneReceived, StartSinkClose, TypeOK, LockInv, DrainInv, SinkInv
<1>8. CASE SinkClosed(c)
  BY <1>1, <1>2, <1>8 DEF SinkClosed, TypeOK, LockInv, DrainInv, SinkInv, sinkVars, Returned
<1>9. CASE CloseTimeout(c)
  BY <1>1, <1>2, <1>9 DEF CloseTimeout, SelectsOnContext, TypeOK, LockInv, DrainInv, SinkInv,
     sinkVars, Returned
<1>10. CASE Expire(c)
  BY <1>1, <1>2, <1>10 DEF Expire, TypeOK, LockInv, DrainInv, SinkInv, sinkVars
<1> QED BY <1>3, <1>4, <1>5, <1>6, <1>7, <1>8, <1>9, <1>10 DEF CloserStep

\* A step of run or of the sink.
LEMMA DrainPreserves == ASSUME IInv, SinkStep \/ DrainStep PROVE IInv'
<1> USE DEF IInv
<1>1. UNCHANGED <<rpc, calls, readers, cpc, ctxDone, closed, queueClosed, once, accepted>>
  BY DEF SinkStep, DrainStep, Receive, SinkWrite, RunExit, CloseSink, callerVars, closerVars
<1>2. LockInv'
  BY <1>1 DEF LockInv
<1>3. CASE Receive
  <2>1. UNCHANGED <<sink, sinkErr, observed>> /\ drain = "receive"
        /\ drain' = "writing" /\ queue # <<>> /\ current' = Head(queue)
        /\ queue' = Tail(queue)
    BY <1>3 DEF Receive, sinkVars
  <2>2. current' \in Event /\ queue' \in Seq(Event) /\ Len(queue') = Len(queue) - 1
    BY <2>1 DEF TypeOK
  <2>3. TypeOK'
    BY <1>1, <2>1, <2>2, CounterTypes, QueueSizeAssumption DEF TypeOK
  <2>4. NoEventLost'
    BY <1>1, <2>1, <2>2, CounterTypes DEF NoEventLost, Handled
  <2> QED BY <1>1, <1>2, <2>1, <2>2, <2>3, <2>4 DEF DrainInv, SinkInv
<1>4. CASE SinkWrite
  <2>1. PICK r \in {"written", "sink_error"} : FinishWrite(r)
    BY <1>4 DEF SinkWrite
  <2>2. UNCHANGED <<sink, sinkErr, queue>> /\ drain = "writing" /\ drain' = "receive"
        /\ current' = NoEvent
        /\ observed' = [observed EXCEPT ![r] = @ + 1]
    BY <1>4, <2>1, Zenon DEF SinkWrite, FinishWrite, Observe, sinkVars
  <2>3. TypeOK'
    BY <1>1, <2>2 DEF TypeOK, Results
  <2>4. observed'["written"] + observed'["sink_error"] = Handled + 1
    BY <2>2, CounterTypes DEF TypeOK, Results, Handled
  <2>5. NoEventLost'
    BY <1>1, <2>2, <2>4, CounterTypes DEF NoEventLost, Handled
  <2> QED BY <1>1, <1>2, <2>2, <2>3, <2>5 DEF DrainInv, SinkInv
<1>5. CASE RunExit
  BY <1>1, <1>2, <1>5
  DEF RunExit, RangeEnds, TypeOK, DrainInv, SinkInv, NoEventLost, Handled, sinkVars
<1>6. CASE CloseSink
  BY <1>1, <1>2, <1>6
  DEF CloseSink, TypeOK, DrainInv, SinkInv, NoEventLost, Handled, drainVars
<1> QED BY <1>3, <1>4, <1>5, <1>6 DEF SinkStep, DrainStep

\* The inductive invariant of the recorder.
THEOREM InductiveInvariant == Spec => []IInv
<1>1. Init => IInv
  BY InitIInv
<1>2. IInv /\ [Next]_vars => IInv'
  <2> SUFFICES ASSUME IInv, [Next]_vars PROVE IInv'
    OBVIOUS
  <2>1. CASE \E p \in Callers : Record(p) \/ CallerStep(p)
    BY <2>1, CallerPreserves, SendPreserves DEF CallerStep
  <2>2. CASE \E c \in Closers : Close(c) \/ CloserStep(c) \/ Expire(c)
    BY <2>2, CloserPreserves
  <2>3. CASE SinkStep \/ DrainStep
    BY <2>3, DrainPreserves
  <2>4. CASE UNCHANGED vars
    BY <2>4 DEF IInv, TypeOK, LockInv, DrainInv, SinkInv, NoEventLost, Handled, vars,
       callerVars, closerVars, sinkVars, drainVars
  <2> QED BY <2>1, <2>2, <2>3, <2>4 DEF Next
<1> QED BY <1>1, <1>2, PTL DEF Spec

\* Type correctness of the recorder's state.
THEOREM TypeCorrect == Spec => []TypeOK
  BY InductiveInvariant, PTL DEF IInv

\* Record never sends on a closed channel, whatever the callers and closers interleave.
THEOREM SendSafe == Spec => []NoSendOnClosedQueue
<1>1. IInv => NoSendOnClosedQueue
  BY DEF IInv, LockInv, NoSendOnClosedQueue
<1> QED BY <1>1, InductiveInvariant, PTL

\* A Close that returns without ctx.Err() has handed every accepted event to the sink.
THEOREM CloseDrainsAll == Spec => []CloseDrains
<1>1. IInv => CloseDrains
  <2> SUFFICES ASSUME IInv, NEW c \in Closers, cpc[c] \in {"nil", "sinkErr"}
               PROVE  accepted = Handled
    BY DEF CloseDrains
  <2>1. drain = "exited" /\ queue = <<>>
    BY DEF IInv, SinkInv, DrainInv
  <2> QED BY <2>1, CounterTypes DEF IInv, NoEventLost
<1> QED BY <1>1, InductiveInvariant, PTL

\* The sink sees no write after its Close, and is closed with nothing left to write.
THEOREM SinkClosedLast == Spec => []NoWriteAfterSinkClose
<1>1. IInv => NoWriteAfterSinkClose
  BY DEF IInv, SinkInv, DrainInv, NoWriteAfterSinkClose
<1> QED BY <1>1, InductiveInvariant, PTL

\* Racing closers never report different outcomes of the one sink.Close.
THEOREM ClosersConsistent == Spec => []ClosersAgree
<1>1. IInv => ClosersAgree
  BY DEF IInv, SinkInv, ClosersAgree
<1> QED BY <1>1, InductiveInvariant, PTL

\* No accepted event is lost between the channel, run and the sink.
THEOREM EventsConserved == Spec => []NoEventLost
  BY InductiveInvariant, PTL DEF IInv
=============================================================================
