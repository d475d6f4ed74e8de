-------------------------- MODULE GatewayConnection --------------------------
(***************************************************************************)
(* The life of the gateway's SSH connections, from accept to shutdown:      *)
(* pkg/gateway/server.go, authentication.go, connection_audit.go,           *)
(* operation.go and the run loop of gateway.go.                             *)
(*                                                                         *)
(* Each connection has an owner goroutine (handleConnection) that           *)
(* authenticates the client, dispatches its messages and tears the          *)
(* connection down; the handlers it starts run on their own and may get to  *)
(* their operation only when the owner is already tearing down.  An         *)
(* operation is served                                                      *)
(*   "session"   within its handler, until the connection's context ends;   *)
(*   "proxied"   within its handler, until the adapter is closed;           *)
(*   "detached"  by the adapter once its handler has returned (a remote     *)
(*               forward), until the adapter is closed;                     *)
(*   "adapter"   without a handler, by a goroutine the adapter keeps (a     *)
(*               connection to a remote forward).                           *)
(* The audit log is a history variable: the events recorded for each        *)
(* connection, in order.                                                    *)
(***************************************************************************)
EXTENDS Naturals, Sequences, FiniteSets

CONSTANTS Conns,        \* connections the listener accepts
          Ops,          \* operations the clients ask for
          Serving,      \* how operations are served
          Methods,      \* authentication methods enabled on the gateway
          MaxAttempts,  \* bound: authentication attempts of a client (x/crypto allows 6)
          None

ASSUME NoneAssumption == None \notin Conns
ASSUME FiniteAssumption == IsFiniteSet(Conns) /\ IsFiniteSet(Ops)
ASSUME ServingAssumption == Serving \subseteq {"session", "proxied", "detached", "adapter"}
ASSUME MethodsAssumption == Methods \subseteq {"publickey", "password"} /\ Methods # {}
ASSUME MaxAttemptsAssumption == MaxAttempts \in Nat

VARIABLES
  phase,        \* where the owner goroutine of each connection is
  offered,      \* authentication callbacks in force
  attempts,     \* authentication attempts made
  reported,     \* authenticationConfig's flag: this attempt already has its event
  attempt,      \* method of the attempt whose AuthLogCallback has not run yet
  published,    \* connectionState.authenticated is set
  established,  \* connectionState.established
  canceled,     \* connections whose context is cancelled
  protoClosed,  \* connections whose protocol adapter is closed
  op,           \* each operation: where it is, whose it is, how it is served
  gateway,      \* the gateway: "running", "stopping" or "stopped" (deps.Stop called)
  openConns,    \* gauge: ConnectionOpened minus ConnectionClosed
  openOps,      \* gauge: OperationStarted minus OperationFinished
  log           \* history: audit events of each connection

authVars == <<offered, attempts, reported, attempt, published>>
vars == <<phase, authVars, established, canceled, protoClosed, op, gateway, openConns,
          openOps, log>>

NoOp == [pc |-> "none", conn |-> None, serving |-> "none"]

EventTypes == {"connection.start", "authentication.result", "target_resolution.result",
               "connection.ready", "operation.start", "operation.end", "connection.end"}
Results == {"", "success", "rejected", "denied", "canceled"}
Entry == [event : EventTypes, result : Results]

TypeOK ==
  /\ phase \in [Conns -> {"none", "handshake", "serving", "closing", "waiting", "ended"}]
  /\ offered \in [Conns -> SUBSET Methods]
  /\ attempts \in [Conns -> 0..MaxAttempts]
  /\ reported \subseteq Conns /\ published \subseteq Conns /\ established \subseteq Conns
  /\ attempt \in [Conns -> Methods \cup {"none"}]
  /\ canceled \subseteq Conns /\ protoClosed \subseteq Conns
  /\ op \in [Ops -> [pc : {"none", "handler", "authorize", "running", "ended"},
                     conn : Conns \cup {None}, serving : Serving \cup {"none"}]]
  /\ gateway \in {"running", "stopping", "stopped"}
  /\ openConns \in 0..Cardinality(Conns) /\ openOps \in 0..Cardinality(Ops)
  /\ log \in [Conns -> Seq(Entry)]

Init ==
  /\ phase = [c \in Conns |-> "none"]
  /\ offered = [c \in Conns |-> {}]
  /\ attempts = [c \in Conns |-> 0]
  /\ attempt = [c \in Conns |-> "none"]
  /\ reported = {} /\ published = {} /\ established = {}
  /\ canceled = {} /\ protoClosed = {}
  /\ op = [o \in Ops |-> NoOp]
  /\ gateway = "running"
  /\ openConns = 0 /\ openOps = 0
  /\ log = [c \in Conns |-> <<>>]

Event(event, result) == [event |-> event, result |-> result]
RecordAll(c, events) == log' = [log EXCEPT ![c] = @ \o events]
Record(c, event, result) == RecordAll(c, <<Event(event, result)>>)

-----------------------------------------------------------------------------
(* Authentication                                                           *)

\* The listener accepts a connection; connection.start is recorded.
Accept(c) ==
  /\ gateway = "running"
  /\ phase[c] = "none"
  /\ phase' = [phase EXCEPT ![c] = "handshake"]
  /\ Record(c, "connection.start", "")
  /\ UNCHANGED <<authVars, established, canceled, protoClosed, op, gateway, openConns, openOps>>

\* The guarded "none" callback selects the methods the Access allows; it never succeeds.
NoClientAuth(c) ==
  /\ phase[c] = "handshake" /\ offered[c] = {} /\ attempt[c] = "none" /\ c \notin published
  /\ \E methods \in SUBSET Methods \ {{}} : offered' = [offered EXCEPT ![c] = methods]
  /\ UNCHANGED <<phase, attempts, reported, attempt, published, established, canceled,
                 protoClosed, op, gateway, openConns, openOps, log>>

\* A public key or password callback.  The credential may not match.  If it does (for a
\* key: once its signature is verified) the success is recorded and acceptAuthenticated
\* resolves the target and the session policy, selects the protocol and publishes it.
Rejected == <<Event("target_resolution.result", "rejected")>>
Resolved == <<Event("target_resolution.result", "success")>>
Authenticate(c, method) ==
  /\ phase[c] = "handshake" /\ method \in offered[c] /\ attempt[c] = "none"
  /\ c \notin published
  /\ attempts[c] < MaxAttempts
  /\ attempts' = [attempts EXCEPT ![c] = @ + 1]
  /\ attempt' = [attempt EXCEPT ![c] = method]
  /\ \/ /\ reported' = reported \ {c}
        /\ UNCHANGED <<published, log>>
     \/ /\ reported' = reported \cup {c}
        /\ \/ /\ RecordAll(c, <<Event("authentication.result", "success")>> \o Rejected)
              /\ UNCHANGED published
           \/ /\ RecordAll(c, <<Event("authentication.result", "success")>> \o Resolved)
              /\ published' \in {published, published \cup {c}}
  /\ UNCHANGED <<phase, offered, established, canceled, protoClosed, op, gateway, openConns,
                 openOps>>

\* AuthLogCallback ends the attempt: a failure that has no event yet gets one.
LogsEveryFailure(c) == c \notin published
NeedsEvent(c) == c \notin published /\ c \notin reported
AuthLog(c) ==
  /\ attempt[c] # "none"
  /\ attempt' = [attempt EXCEPT ![c] = "none"]
  /\ reported' = reported \ {c}
  /\ IF NeedsEvent(c) THEN Record(c, "authentication.result", "rejected") ELSE UNCHANGED log
  /\ UNCHANGED <<phase, offered, attempts, published, established, canceled, protoClosed, op,
                 gateway, openConns, openOps>>

\* NewServerConn returns: an error at any time, success once the adapter is published.
Authenticated(c) == c \in published
Handshake(c) ==
  /\ phase[c] = "handshake" /\ attempt[c] = "none"
  /\ \/ /\ phase' = [phase EXCEPT ![c] = "closing"]
        /\ UNCHANGED <<established, openConns, log>>
     \/ /\ Authenticated(c)
        /\ established' = established \cup {c}
        /\ Record(c, "connection.ready", "success")
        /\ openConns' = openConns + 1
        /\ phase' = [phase EXCEPT ![c] = "serving"]
  /\ UNCHANGED <<authVars, canceled, protoClosed, op, gateway, openOps>>

-----------------------------------------------------------------------------
(* Operations                                                               *)

\* The owner takes a message off the wire and starts its handler; handlers.Go counts it
\* before it runs.
StartHandler(c, o, serving) ==
  /\ phase[c] = "serving"
  /\ op[o].pc = "none" /\ serving # "adapter"
  /\ op' = [op EXCEPT ![o] = [pc |-> "handler", conn |-> c, serving |-> serving]]
  /\ UNCHANGED <<phase, authVars, established, canceled, protoClosed, gateway, openConns,
                 openOps, log>>

\* The handler gets to its operation, whatever the owner does in the meantime:
\* startOperation records the start, then the authorizer is asked.
BeginOperation(o) ==
  /\ op[o].pc = "handler"
  /\ op' = [op EXCEPT ![o].pc = "authorize"]
  /\ Record(op[o].conn, "operation.start", "")
  /\ openOps' = openOps + 1
  /\ UNCHANGED <<phase, authVars, established, canceled, protoClosed, gateway, openConns>>

\* The handler returns without an operation.
HandlerReturns(o) ==
  /\ op[o].pc = "handler"
  /\ op' = [op EXCEPT ![o].pc = "ended"]
  /\ UNCHANGED <<phase, authVars, established, canceled, protoClosed, gateway, openConns,
                 openOps, log>>

\* A goroutine the adapter keeps begins an operation, possibly after the owner has left.
AdapterBegins(c, o) ==
  /\ "adapter" \in Serving /\ c \in established
  /\ op[o].pc = "none"
  /\ op' = [op EXCEPT ![o] = [pc |-> "authorize", conn |-> c, serving |-> "adapter"]]
  /\ Record(c, "operation.start", "")
  /\ openOps' = openOps + 1
  /\ UNCHANGED <<phase, authVars, established, canceled, protoClosed, gateway, openConns>>

EndOperation(o, result) ==
  /\ op' = [op EXCEPT ![o].pc = "ended"]
  /\ Record(op[o].conn, "operation.end", result)
  /\ openOps' = openOps - 1

\* A denied operation is completed with the result "denied".
DenialNotEnded(o) == op' = [op EXCEPT ![o].pc = "ended"] /\ UNCHANGED <<log, openOps>>
DenialIsEnded(o) == EndOperation(o, "denied")
Authorize(o) ==
  /\ op[o].pc = "authorize"
  /\ \/ DenialIsEnded(o)
     \/ op' = [op EXCEPT ![o].pc = "running"] /\ UNCHANGED <<log, openOps>>
  /\ UNCHANGED <<phase, authVars, established, canceled, protoClosed, gateway, openConns>>

\* The operation ends by itself.
Complete(o) ==
  /\ op[o].pc = "running"
  /\ EndOperation(o, "success")
  /\ UNCHANGED <<phase, authVars, established, canceled, protoClosed, gateway, openConns>>

\* It is cut off: a Pod session by its context, a proxied message or an operation that
\* outlives its handler by the adapter's Close.
Unblocked(o) ==
  IF op[o].serving = "session" THEN op[o].conn \in canceled ELSE op[o].conn \in protoClosed
Cut(o) ==
  /\ op[o].pc = "running"
  /\ Unblocked(o)
  /\ EndOperation(o, "canceled")
  /\ UNCHANGED <<phase, authVars, established, canceled, protoClosed, gateway, openConns>>

-----------------------------------------------------------------------------
(* Teardown and shutdown                                                    *)

\* The client leaves or a policy deadline closes the transport: the loop over channels ends.
Disconnect(c) ==
  /\ phase[c] = "serving"
  /\ phase' = [phase EXCEPT ![c] = "closing"]
  /\ UNCHANGED <<authVars, established, canceled, protoClosed, op, gateway, openConns,
                 openOps, log>>

\* The deferred function: cancel the context and the transport, close the adapter if one
\* was published, then wait for the handlers.
ClosesAdapterLast(c) == FALSE
ClosesAdapterFirst(c) == c \in published
Close(c) ==
  /\ phase[c] = "closing"
  /\ phase' = [phase EXCEPT ![c] = "waiting"]
  /\ canceled' = canceled \cup {c}
  /\ protoClosed' = IF ClosesAdapterFirst(c) THEN protoClosed \cup {c} ELSE protoClosed
  /\ UNCHANGED <<authVars, established, op, gateway, openConns, openOps, log>>

\* Where an operation is while its handler has not returned.
CountedWhenRun(serving) ==
  IF serving = "adapter" THEN {} ELSE {"authorize"} \cup IF serving = "detached" THEN {} ELSE {"running"}
InHandler(serving) ==
  IF serving = "adapter" THEN {}
  ELSE {"handler", "authorize"} \cup IF serving = "detached" THEN {} ELSE {"running"}

\* The operations whose handlers handlers.Wait waits for.
Handled(c) == {o \in Ops : op[o].conn = c /\ op[o].pc \in InHandler(op[o].serving)}
HandlersDone(c) == Handled(c) = {}
ClosesEstablished(c) == openConns' = IF c \in established THEN openConns - 1 ELSE openConns
End(c) ==
  /\ phase[c] = "waiting"
  /\ HandlersDone(c)
  /\ phase' = [phase EXCEPT ![c] = "ended"]
  /\ ClosesEstablished(c)
  /\ Record(c, "connection.end", IF c \in established THEN "success" ELSE "rejected")
  /\ UNCHANGED <<authVars, established, canceled, protoClosed, op, gateway, openOps>>

\* The run context is cancelled: the listener closes and every connection's context with it.
Shutdown ==
  /\ gateway = "running"
  /\ gateway' = "stopping"
  /\ canceled' = {c \in Conns : phase[c] # "none"}
  /\ UNCHANGED <<phase, authVars, established, protoClosed, op, openConns, openOps, log>>

\* A cancelled context closes the transport: the handshake or the loop over channels ends.
CanceledEnds(c) ==
  /\ c \in canceled
  /\ phase[c] \in {"handshake", "serving"} /\ attempt[c] = "none"
  /\ phase' = [phase EXCEPT ![c] = "closing"]
  /\ UNCHANGED <<authVars, established, canceled, protoClosed, op, gateway, openConns,
                 openOps, log>>

\* serveSSH waits for its connections; then deps.Stop closes the audit recorder.
ConnectionsDone == \A c \in Conns : phase[c] \in {"none", "ended"}
Stop ==
  /\ gateway = "stopping"
  /\ ConnectionsDone
  /\ gateway' = "stopped"
  /\ UNCHANGED <<phase, authVars, established, canceled, protoClosed, op, openConns, openOps,
                 log>>

-----------------------------------------------------------------------------
OwnerStep(c) == Close(c) \/ End(c) \/ CanceledEnds(c) \/ AuthLog(c)
OpStep(o) == Authorize(o) \/ Cut(o)

Next ==
  \/ \E c \in Conns :
       \/ Accept(c) \/ NoClientAuth(c) \/ (\E m \in Methods : Authenticate(c, m))
       \/ Handshake(c) \/ Disconnect(c) \/ OwnerStep(c)
       \/ \E o \in Ops, serving \in Serving : StartHandler(c, o, serving)
       \/ \E o \in Ops : AdapterBegins(c, o)
  \/ \E o \in Ops : BeginOperation(o) \/ HandlerReturns(o) \/ OpStep(o) \/ Complete(o)
  \/ Shutdown \/ Stop

Spec == Init /\ [][Next]_vars

\* The owner goroutine runs, the authorizer answers, a cancelled or closed operation
\* returns, a handler returns when its connection's transport is closed, and Run goes on
\* when its servers have stopped.
Fairness ==
  /\ \A c \in Conns : WF_vars(OwnerStep(c))
  /\ \A o \in Ops : /\ WF_vars(OpStep(o))
                     /\ WF_vars(op[o].conn \in canceled /\ HandlerReturns(o))
  /\ WF_vars(Stop)
FairSpec == Spec /\ Fairness

-----------------------------------------------------------------------------
(* Properties                                                               *)

Positions(c, event) == {i \in 1..Len(log[c]) : log[c][i].event = event}
Count(c, event) == Cardinality(Positions(c, event))

\* The log tells how a connection came to be ready: every authentication attempt leaves
\* exactly one authentication.result, also when the credential matched and the target or
\* the session policy was refused afterwards, and connection.ready directly follows a
\* verified credential and a resolved target.
AttemptsReported ==
  \A c \in Conns :
    /\ attempt[c] = "none" => Count(c, "authentication.result") = attempts[c]
    /\ \A i \in Positions(c, "connection.ready") :
         /\ i > 2
         /\ log[c][i - 1] = Event("target_resolution.result", "success")
         /\ log[c][i - 2] = Event("authentication.result", "success")

\* Denials and failures also close the start/end lifecycle: the gauges and the events of
\* the connections agree on what is open, and an adapter once published is closed when its
\* connection has ended, also for a handshake that failed late.
LifecycleClosed ==
  /\ openConns = Cardinality({c \in Conns : c \in established /\ phase[c] # "ended"})
  /\ openOps = Cardinality({o \in Ops : op[o].pc \in {"authorize", "running"}})
  /\ \A c \in Conns :
       /\ Count(c, "operation.start") - Count(c, "operation.end")
            = Cardinality({o \in Ops : op[o].conn = c /\ op[o].pc \in {"authorize", "running"}})
       /\ phase[c] = "ended" /\ c \in published => c \in protoClosed

\* After connection.end, and after deps.Stop has closed the recorder, a connection's log
\* grows only by operations the adapter serves in goroutines of its own: the owner has
\* waited for every handler it started, also for one that had not got to its operation.
QuietAfterEnd ==
  [][\A c \in Conns : (phase[c] = "ended" \/ gateway = "stopped") /\ log'[c] # log[c] =>
       \E o \in Ops : /\ op'[o] # op[o] /\ op'[o].conn = c
                      /\ op'[o].serving \in {"detached", "adapter"}]_vars

\* Shutdown ends every connection and the gateway stops, and a connection whose client has
\* left is torn down: no handler keeps its owner waiting.
ShutdownCompletes ==
  /\ (gateway = "stopping") ~> (gateway = "stopped")
  /\ \A c \in Conns : (phase[c] = "closing") ~> (phase[c] = "ended")
=============================================================================
