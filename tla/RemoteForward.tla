---------------------------- MODULE RemoteForward ----------------------------
(***************************************************************************)
(* Remote port forwarding (ssh -R) on one Pod SSH connection:               *)
(* pkg/podssh/remotetcpip.go, pkg/podssh/client_state.go and the forward    *)
(* object of pkg/podssh/backend.                                            *)
(*                                                                         *)
(* Three kinds of goroutine meet in the table of forwards: the one that     *)
(* handles the connection's global requests in wire order, the              *)
(* serveRemoteForward goroutine of each accepted forward, and the           *)
(* connection's owner, which closes the protocol while the others may still  *)
(* run.  Every forward has a helper process of its own in the Pod.          *)
(***************************************************************************)
EXTENDS Naturals, FiniteSets

CONSTANTS Forwards,  \* tcpip-forward requests of the connection
          Binds,     \* keys of the table: requested host and actual port
          None

ASSUME NoneAssumption == None \notin Forwards \cup Binds

VARIABLES
  handler,    \* the global request being handled: [pc, f]
  reply,      \* answer to each tcpip-forward request
  op,         \* operation lifecycle of each request
  bind,       \* key of each forward that is listening or was
  listening,  \* forwards whose listener in the Pod is open
  session,    \* helper session of each forward
  exec,       \* forwards whose helper exec has not returned (terminalResult)
  acceptErr,  \* why Accept of the forward fails, if it does
  serve,      \* where the forward's serveRemoteForward goroutine is
  current,    \* the forward that goroutine took out of the table in its cleanup
  table,      \* clientState.remoteForwards
  closed,     \* clientState.closed
  closing,    \* forwards clientState.Close still has to close
  ctxDone,    \* the connection's context is cancelled
  canceled,   \* history: forwards the client asked to cancel
  lost        \* history: forwards whose helper failed by itself

handlerVars == <<handler, reply>>
helperVars  == <<listening, session, exec, acceptErr, lost>>
serveVars   == <<serve, current>>
stateVars   == <<table, closed, closing>>
vars == <<handlerVars, helperVars, serveVars, stateVars, op, bind, ctxDone, canceled>>

Idle == [pc |-> "idle", f |-> None]

TypeOK ==
  /\ handler \in [pc : {"idle", "listen", "add", "cancel", "stop"}, f : Forwards \cup {None}]
  /\ reply \in [Forwards -> {"none", "success", "failure"}]
  /\ op \in [Forwards -> {"none", "started", "ended"}]
  /\ bind \in [Forwards -> Binds \cup {None}]
  /\ listening \subseteq Forwards /\ exec \subseteq Forwards
  /\ session \in [Forwards -> {"none", "alive", "closed"}]
  /\ acceptErr \in [Forwards -> {"none", "canceled", "clientClosed"}]
  /\ serve \in [Forwards -> {"none", "accepting", "exiting", "closing", "done"}]
  /\ current \in [Forwards -> Forwards \cup {None}]
  /\ table \in [Binds -> Forwards \cup {None}]
  /\ closed \in BOOLEAN /\ ctxDone \in BOOLEAN
  /\ closing \subseteq Forwards /\ canceled \subseteq Forwards /\ lost \subseteq Forwards

Init ==
  /\ handler = Idle
  /\ reply = [f \in Forwards |-> "none"]
  /\ op = [f \in Forwards |-> "none"]
  /\ bind = [f \in Forwards |-> None]
  /\ listening = {} /\ exec = {}
  /\ session = [f \in Forwards |-> "none"]
  /\ acceptErr = [f \in Forwards |-> "none"]
  /\ serve = [f \in Forwards |-> "none"]
  /\ current = [f \in Forwards |-> None]
  /\ table = [b \in Binds |-> None]
  /\ closed = FALSE /\ closing = {}
  /\ ctxDone = FALSE /\ canceled = {} /\ lost = {}

\* The FinishOperation callback; a second completion leaves the type of op.
Finish(f) ==
  op' = [op EXCEPT ![f] = IF @ = "started" THEN "ended" ELSE "endedTwice"]

\* helperSession.Close: cancels the exec and closes the client, whose pending Accept fails.
SessionClose(f) ==
  /\ session' = [session EXCEPT ![f] = "closed"]
  /\ acceptErr' = [acceptErr EXCEPT ![f] = IF @ = "none" THEN "clientClosed" ELSE @]

-----------------------------------------------------------------------------
(* handleTCPIPForward                                                       *)

\* begin; a denial is finished at once and answered with failure.
TCPIPForward(f) ==
  /\ handler = Idle
  /\ op[f] = "none"
  /\ \/ /\ op' = [op EXCEPT ![f] = "started"]
        /\ handler' = [pc |-> "listen", f |-> f]
        /\ UNCHANGED reply
     \/ /\ op' = [op EXCEPT ![f] = "ended"]
        /\ reply' = [reply EXCEPT ![f] = "failure"]
        /\ UNCHANGED handler
  /\ UNCHANGED <<helperVars, serveVars, stateVars, bind, ctxDone, canceled>>

\* backend.RemoteForward fails: bad port, helper injection, helper connection or listen.
ListenFails(f) ==
  /\ handler = [pc |-> "listen", f |-> f]
  /\ Finish(f)
  /\ reply' = [reply EXCEPT ![f] = "failure"]
  /\ handler' = Idle
  /\ UNCHANGED <<helperVars, serveVars, stateVars, bind, ctxDone, canceled>>

\* backend.RemoteForward returns a forward that listens; the Pod's network namespace
\* admits one listener for an address.  Port 0 makes the helper choose the port.
Listens(f, b) ==
  /\ handler = [pc |-> "listen", f |-> f]
  /\ \A g \in listening : bind[g] # b
  /\ bind' = [bind EXCEPT ![f] = b]
  /\ listening' = listening \cup {f}
  /\ exec' = exec \cup {f}
  /\ session' = [session EXCEPT ![f] = "alive"]
  /\ handler' = [pc |-> "add", f |-> f]
  /\ UNCHANGED <<acceptErr, lost, serveVars, stateVars, op, reply, ctxDone, canceled>>

\* clientState.AddRemoteForward refuses a closed state and a key already taken.
AddIgnoresClose(b) == table[b] = None
MayAdd(b) == ~closed /\ table[b] = None

AddForward(f) ==
  /\ handler = [pc |-> "add", f |-> f]
  /\ IF MayAdd(bind[f])
     THEN /\ table' = [table EXCEPT ![bind[f]] = f]
          /\ serve' = [serve EXCEPT ![f] = "accepting"]
          /\ reply' = [reply EXCEPT ![f] = "success"]
          /\ UNCHANGED <<op, session, acceptErr>>
     ELSE /\ SessionClose(f)
          /\ Finish(f)
          /\ reply' = [reply EXCEPT ![f] = "failure"]
          /\ UNCHANGED <<table, serve>>
  /\ handler' = Idle
  /\ UNCHANGED <<listening, exec, lost, current, closed, closing, bind, ctxDone, canceled>>

-----------------------------------------------------------------------------
(* handleCancelTCPIPForward                                                 *)

\* RemoveRemoteForward finds a forward under the key; without one the answer is success.
CancelTCPIPForward(b) ==
  /\ handler = Idle
  /\ table[b] # None
  /\ handler' = [pc |-> "cancel", f |-> table[b]]
  /\ canceled' = canceled \cup {table[b]}
  /\ table' = [table EXCEPT ![b] = None]
  /\ UNCHANGED <<reply, helperVars, serveVars, closed, closing, op, bind, ctxDone>>

\* RemoteListener.Cancel, first half: the listener is closed locally and Accept fails.
CancelLocal(f) ==
  /\ handler = [pc |-> "cancel", f |-> f]
  /\ acceptErr' = [acceptErr EXCEPT ![f] = IF @ = "none" THEN "canceled" ELSE @]
  /\ handler' = [pc |-> "stop", f |-> f]
  /\ UNCHANGED <<reply, listening, session, exec, lost, serveVars, stateVars, op, bind,
                 ctxDone, canceled>>

\* Second half: the stop call.  A closed helper connection counts as success; any other
\* error closes the whole session.
StopCall(f) == listening' = listening \ {f}

StopListener(f) ==
  /\ handler = [pc |-> "stop", f |-> f]
  /\ \/ /\ session[f] = "alive"
        /\ StopCall(f)
        /\ UNCHANGED <<session, acceptErr>>
     \/ /\ session[f] = "alive"
        /\ SessionClose(f)
        /\ UNCHANGED listening
     \/ /\ session[f] = "closed"
        /\ UNCHANGED <<listening, session, acceptErr>>
  /\ handler' = Idle
  /\ UNCHANGED <<reply, exec, lost, serveVars, stateVars, op, bind, ctxDone, canceled>>

-----------------------------------------------------------------------------
(* serveRemoteForward                                                       *)

\* Accept returns an error.  When the client is closed it first waits for the exec's
\* terminal result, however long the exec takes to return.
AcceptFails(f) ==
  /\ serve[f] = "accepting"
  /\ \/ ctxDone
     \/ acceptErr[f] = "canceled"
     \/ acceptErr[f] = "clientClosed" /\ f \notin exec
  /\ serve' = [serve EXCEPT ![f] = "exiting"]
  /\ UNCHANGED <<handlerVars, helperVars, current, stateVars, op, bind, ctxDone, canceled>>

\* The deferred cleanup takes whatever is registered under the forward's key.
RemoveNothing(f) == UNCHANGED table
RemoveForward(f) == table' = [table EXCEPT ![bind[f]] = None]

Cleanup(f) ==
  /\ serve[f] = "exiting"
  /\ RemoveForward(f)
  /\ current' = [current EXCEPT ![f] = table[bind[f]]]
  /\ serve' = [serve EXCEPT ![f] = "closing"]
  /\ UNCHANGED <<handlerVars, helperVars, closed, closing, op, bind, ctxDone, canceled>>

\* It closes what it took and finishes the operation.
ServeEnds(f) ==
  /\ serve[f] = "closing"
  /\ IF current[f] # None THEN SessionClose(current[f]) ELSE UNCHANGED <<session, acceptErr>>
  /\ Finish(f)
  /\ serve' = [serve EXCEPT ![f] = "done"]
  /\ UNCHANGED <<handlerVars, listening, exec, lost, current, stateVars, bind, ctxDone,
                 canceled>>

-----------------------------------------------------------------------------
(* The connection's end and the helper process                              *)

\* The client disconnects, a policy deadline passes or the gateway shuts down.
CancelContext ==
  /\ ~ctxDone
  /\ ctxDone' = TRUE
  /\ UNCHANGED <<handlerVars, helperVars, serveVars, stateVars, op, bind, canceled>>

\* clientState.Close, under the lock; the forwards are closed after it is released.
CloseState ==
  /\ ctxDone /\ ~closed
  /\ closed' = TRUE
  /\ closing' = {f \in Forwards : \E b \in Binds : table[b] = f}
  /\ table' = [b \in Binds |-> None]
  /\ UNCHANGED <<handlerVars, helperVars, serveVars, op, bind, ctxDone, canceled>>

\* The operation is left to serveRemoteForward, whose Accept fails.
CloseAndFinish(f) == SessionClose(f) /\ Finish(f)
CloseOnly(f) == SessionClose(f) /\ UNCHANGED op
CloseForward(f) ==
  /\ f \in closing
  /\ closing' = closing \ {f}
  /\ CloseOnly(f)
  /\ UNCHANGED <<handlerVars, listening, exec, lost, serveVars, table, closed, bind,
                 ctxDone, canceled>>

\* The helper or its connection fails by itself: Client.Close runs, the exec has not yet
\* returned, and the listener in the Pod is gone only if the process is.
HelperFails(f) ==
  /\ session[f] = "alive" /\ ~ctxDone
  /\ SessionClose(f)
  /\ listening' \in {listening, listening \ {f}}
  /\ lost' = lost \cup {f}
  /\ UNCHANGED <<handlerVars, exec, serveVars, stateVars, op, bind, ctxDone, canceled>>

\* The exec returns once its session is closed or the connection's context, from which
\* its own is derived, is cancelled; the helper process and its listener are gone.
HelperOrphaned(f) == UNCHANGED listening
HelperExits(f) == listening' = listening \ {f}
ExecReturns(f) ==
  /\ f \in exec
  /\ session[f] = "closed" \/ ctxDone
  /\ exec' = exec \ {f}
  /\ HelperExits(f)
  /\ SessionClose(f)
  /\ UNCHANGED <<handlerVars, lost, serveVars, stateVars, op, bind, ctxDone, canceled>>

-----------------------------------------------------------------------------
HandlerStep(f) ==
  \/ ListenFails(f) \/ (\E b \in Binds : Listens(f, b)) \/ AddForward(f)
  \/ CancelLocal(f) \/ StopListener(f)
ServeStep(f) == AcceptFails(f) \/ Cleanup(f) \/ ServeEnds(f)
OwnerStep == CloseState \/ \E f \in Forwards : CloseForward(f)

Next ==
  \/ \E f \in Forwards : TCPIPForward(f) \/ HandlerStep(f) \/ ServeStep(f)
  \/ \E b \in Binds : CancelTCPIPForward(b)
  \/ CancelContext \/ OwnerStep
  \/ \E f \in Forwards : HelperFails(f) \/ ExecReturns(f)

Spec == Init /\ [][Next]_vars

\* Goroutines run, the connection's owner closes the protocol after cancelling its
\* context (server.go:68), backend calls return and a cancelled exec returns.
Fairness ==
  /\ \A f \in Forwards : WF_vars(HandlerStep(f)) /\ WF_vars(ServeStep(f))
  /\ \A f \in Forwards : WF_vars(ExecReturns(f))
  /\ WF_vars(OwnerStep)
FairSpec == Spec /\ Fairness

-----------------------------------------------------------------------------
(* Properties                                                               *)

\* Whatever is in the table has a serveRemoteForward goroutine that has not yet done its
\* cleanup: no dead forward keeps its key and blocks a later tcpip-forward.
RegisteredIsServed ==
  \A b \in Binds : table[b] # None =>
    bind[table[b]] = b /\ serve[table[b]] \in {"accepting", "exiting"}

\* What the client ended is stopped.  A tcpip-forward answered with failure leaves no helper
\* session behind; after a cancel-tcpip-forward has been answered, the listener is stopped or
\* its helper is being torn down; and once the protocol is closed and the forwards it held are
\* closed, a session is alive only if some goroutine is about to close it or it was cancelled
\* before: no forward that was being started during Close escapes it.
ClosedHoldsNothing ==
  /\ \A f \in Forwards :
       session[f] = "alive" =>
         /\ reply[f] # "failure"
         /\ closed /\ closing = {} =>
              \/ handler.f = f \/ f \in canceled
              \/ \E g \in Forwards : serve[g] = "closing" /\ current[g] = f
  /\ \A f \in canceled : handler.f # f => f \notin listening \/ session[f] = "closed"

\* "Cancel stops only this listener": a forward the client has not cancelled, whose helper
\* is healthy, is kept as long as the connection is up.
ForwardKept ==
  \A f \in Forwards :
    reply[f] = "success" /\ f \notin canceled \cup lost /\ ~ctxDone => session[f] = "alive"

\* The operations of the forwards follow the operation lifecycle: finished once, and all
\* of them after the connection has gone down.
Lifecycle == INSTANCE OperationLifecycle WITH Ops <- Forwards, status <- op, down <- ctxDone
LifecycleSpec == Lifecycle!Spec

\* After the connection has gone down no listener stays open in the Pod.
ListenersReleased == ctxDone ~> (listening = {})
=============================================================================
