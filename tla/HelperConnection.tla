-------------------------- MODULE HelperConnection --------------------------
(* The connection between a gateway's helper.Client and the kube-ssh-helper    *)
(* process in a Pod (pkg/spdyrpc, pkg/podssh/backend/helper): one SPDY          *)
(* transport over the exec's stdio, listen and stop RPCs from the client, and   *)
(* one stream from the helper for every TCP or agent connection it accepts.     *)
(*                                                                              *)
(* A forward is a listener the client asks for, a remote TCP listener or the    *)
(* agent socket. Both maps of the client (remoteForwardClient.forwards and      *)
(* agentForwardClient.forward) are one map here, the agent's slot under a key   *)
(* of its own; so are the maps of the helper.                                   *)
EXTENDS Naturals, FiniteSets

CONSTANTS
  Forwards,    \* the listeners asked for on this connection
  Agents,      \* those of them that are agent sockets
  Conns,       \* connections made to the listeners in the Pod
  MaxListens,  \* bound: Listen calls on this client; the gateway makes one per client
  Keys,        \* binds and the agent's slot
  Requested,   \* Forwards -> Keys, the bind a listener is asked for under
  Actual,      \* Forwards -> Keys, the bind it gets: another one for port 0
  None

ASSUME ForwardsAssumption ==
  /\ MaxListens \in Nat /\ IsFiniteSet(Forwards)
  /\ Agents \subseteq Forwards /\ None \notin Forwards \cup Conns
  /\ Requested \in [Forwards -> Keys] /\ Actual \in [Forwards -> Keys]
  /\ \A f \in Agents : Requested[f] = Actual[f]
  \* the addresses asked for on one client differ
  /\ \A f, g \in Forwards :
       f # g => {Requested[f], Actual[f]} \cap {Requested[g], Actual[g]} = {}

VARIABLES
  forwards,    \* client: the registered listener of a key
  lpc,         \* client: where the Listen call of a forward is
  fclosed,     \* client: listeners with closed set
  accept,      \* client: the goroutine that calls Accept
  cancel,      \* client: where the Cancel call of a forward is
  closer,      \* client: where Client.Close is
  closing,     \* client: listeners taken by Close and not yet closed
  cstate,      \* client: state of its spdyrpc.Connection
  link,        \* the transport
  rpc, stop,   \* the listen and stop calls of a forward on the wire
  hstate,      \* helper: state of its spdyrpc.Connection
  hctx,        \* helper: the connection's context is cancelled
  fatal,       \* helper: a registered work function failed
  hrpc,        \* helper: where handleListen is
  socket,      \* helper: the listening socket of a forward
  listeners,   \* helper: the listener of a key
  run,         \* helper: the goroutine that accepts on the socket
  armed,       \* helper: run's context.AfterFunc is registered and not started
  tcp,         \* helper: the connection and the goroutine that proxies it
  owner,       \* helper: the listener that accepted a connection
  stream,      \* client: the stream of a connection
  target       \* client: the listener dispatch found for the stream

clientVars == <<forwards, lpc, fclosed, accept, cancel>>
closeVars  == <<closer, closing, cstate>>
helperVars == <<hstate, hctx, fatal>>
listenVars == <<hrpc, socket, listeners, run, armed>>
connVars   == <<tcp, owner, stream, target>>
clientSide == <<clientVars, closeVars>>
helperSide == <<helperVars, listenVars>>
wire       == <<link, rpc, stop>>
vars == <<clientSide, wire, helperSide, connVars>>

ClientTypes ==
  /\ forwards \in [Keys -> Forwards \cup {None}]
  /\ lpc \in [Forwards -> {"idle", "added", "calling", "ok", "err", "removed",
                           "listening", "failed"}]
  /\ fclosed \subseteq Forwards
  /\ accept \in [Forwards -> {"no", "checks", "waits", "returned"}]
  /\ cancel \in [Forwards -> {"no", "removed", "closed", "calling", "done", "failed"}]
  /\ closer \in {"open", "marked", "down", "remote", "agent", "done"}
  /\ closing \subseteq Forwards
  /\ cstate \in {"serving", "closing"}

WireTypes ==
  /\ link \in {"up", "down"}
  /\ rpc \in [Forwards -> {"none", "sent", "ok", "err"}]
  /\ stop \in [Forwards -> {"none", "sent", "running", "ok", "err"}]

HelperTypes ==
  /\ hstate \in {"serving", "closing", "canceled", "closed"}
  /\ hctx \in BOOLEAN /\ fatal \in BOOLEAN
  /\ hrpc \in [Forwards -> {"none", "begun", "bound", "started", "done"}]
  /\ socket \in [Forwards -> {"none", "open", "closed"}]
  /\ listeners \in [Keys -> Forwards \cup {None}]
  /\ run \in [Forwards -> {"none", "accepts", "accepted", "done"}]
  /\ armed \subseteq Forwards

ConnTypes ==
  /\ tcp \in [Conns -> {"none", "accepted", "proxied", "closed"}]
  /\ owner \in [Conns -> Forwards \cup {None}]
  /\ stream \in [Conns -> {"none", "sent", "dispatched", "queued", "taken", "reset"}]
  /\ target \in [Conns -> Forwards \cup {None}]

TypeOK == ClientTypes /\ WireTypes /\ HelperTypes /\ ConnTypes

Init ==
  /\ forwards = [k \in Keys |-> None] /\ lpc = [f \in Forwards |-> "idle"]
  /\ fclosed = {} /\ accept = [f \in Forwards |-> "no"]
  /\ cancel = [f \in Forwards |-> "no"]
  /\ closer = "open" /\ closing = {} /\ cstate = "serving" /\ link = "up"
  /\ rpc = [f \in Forwards |-> "none"] /\ stop = [f \in Forwards |-> "none"]
  /\ hstate = "serving" /\ hctx = FALSE /\ fatal = FALSE
  /\ hrpc = [f \in Forwards |-> "none"] /\ socket = [f \in Forwards |-> "none"]
  /\ listeners = [k \in Keys |-> None]
  /\ run = [f \in Forwards |-> "none"] /\ armed = {}
  /\ tcp = [k \in Conns |-> "none"] /\ owner = [k \in Conns |-> None]
  /\ stream = [k \in Conns |-> "none"] /\ target = [k \in Conns |-> None]

-----------------------------------------------------------------------------
(* Client: the table and one listener's queue.                              *)

Unregistered(f) == [k \in Keys |-> IF forwards[k] = f THEN None ELSE forwards[k]]

\* closeLocal: the queue is emptied, its streams reset and the waiters woken.
CloseLocal(f) ==
  /\ fclosed' = fclosed \cup {f}
  /\ stream' = [k \in Conns |->
       IF stream[k] = "queued" /\ target[k] = f THEN "reset" ELSE stream[k]]
  /\ accept' = [accept EXCEPT ![f] = IF @ = "waits" THEN "checks" ELSE @]

-----------------------------------------------------------------------------
(* Client: Listen.                                                          *)

\* The listener is registered under the requested bind before the call.
Add(f) ==
  /\ lpc[f] = "idle" /\ Cardinality({g \in Forwards : lpc[g] # "idle"}) < MaxListens
  /\ \/ /\ forwards[Requested[f]] = None
        /\ forwards' = [forwards EXCEPT ![Requested[f]] = f]
        /\ lpc' = [lpc EXCEPT ![f] = "added"]
     \/ /\ forwards[Requested[f]] # None
        /\ lpc' = [lpc EXCEPT ![f] = "failed"]
        /\ UNCHANGED forwards
  /\ UNCHANGED <<fclosed, accept, cancel, closeVars, wire, helperSide, connVars>>

\* CreateStream and the request: they fail on a transport that is down.
CallListen(f) ==
  /\ lpc[f] = "added"
  /\ \/ /\ link = "up"
        /\ rpc' = [rpc EXCEPT ![f] = "sent"]
        /\ lpc' = [lpc EXCEPT ![f] = "calling"]
     \/ /\ link = "down"
        /\ lpc' = [lpc EXCEPT ![f] = "err"]
        /\ UNCHANGED rpc
  /\ UNCHANGED <<forwards, fclosed, accept, cancel, closeVars, link, stop, helperSide,
                connVars>>

\* The call's select: the response, the connection's end or the caller's context.
ListenReturns(f) ==
  /\ lpc[f] = "calling"
  /\ \/ rpc[f] = "ok" /\ lpc' = [lpc EXCEPT ![f] = "ok"]
     \/ /\ rpc[f] = "err" \/ link = "down" \/ cstate = "closing"
        /\ lpc' = [lpc EXCEPT ![f] = "err"]
  /\ UNCHANGED <<forwards, fclosed, accept, cancel, closeVars, wire, helperSide, connVars>>

ListenCanceled(f) ==
  /\ lpc[f] = "calling"
  /\ lpc' = [lpc EXCEPT ![f] = "err"]
  /\ UNCHANGED <<forwards, fclosed, accept, cancel, closeVars, wire, helperSide, connVars>>

\* A Close in between has taken the listener: it must not come back.
StillRegistered(f) == forwards[Requested[f]] = f

\* rekey moves a remote listener to its actual bind; the agent's slot stays.
Rekey(f) ==
  /\ lpc[f] = "ok"
  /\ \/ /\ f \in Agents \/ StillRegistered(f)
        /\ forwards' = IF f \in Agents THEN forwards
                       ELSE [forwards EXCEPT ![Requested[f]] = None, ![Actual[f]] = f]
        /\ lpc' = [lpc EXCEPT ![f] = "listening"]
        /\ accept' = [accept EXCEPT ![f] = "checks"]
     \/ /\ f \notin Agents /\ ~StillRegistered(f)
        /\ lpc' = [lpc EXCEPT ![f] = "removed"]
        /\ UNCHANGED <<forwards, accept>>
  /\ UNCHANGED <<fclosed, cancel, closeVars, wire, helperSide, connVars>>

RemoveIfMatch(f) ==
  /\ lpc[f] = "err"
  /\ forwards' = IF StillRegistered(f) THEN [forwards EXCEPT ![Requested[f]] = None]
                 ELSE forwards
  /\ lpc' = [lpc EXCEPT ![f] = "removed"]
  /\ UNCHANGED <<fclosed, accept, cancel, closeVars, wire, helperSide, connVars>>

ListenFails(f) ==
  /\ lpc[f] = "removed"
  /\ lpc' = [lpc EXCEPT ![f] = "failed"]
  /\ CloseLocal(f)
  /\ UNCHANGED <<forwards, cancel, closeVars, wire, helperSide, tcp, owner, target>>

-----------------------------------------------------------------------------
(* Client: streams of the helper, Accept and Cancel.                        *)

LookupActualOnly(k) == forwards[Actual[owner[k]]]

\* The actual bind first, then the requested one: the stream may precede rekey.
Lookup(k) ==
  LET f == forwards[Actual[owner[k]]]
  IN  IF f = None THEN forwards[Requested[owner[k]]] ELSE f

\* The stream is answered and dispatched, or reset if it is nobody's.
Dispatch(k) ==
  /\ stream[k] = "sent"
  /\ target' = [target EXCEPT ![k] = Lookup(k)]
  /\ stream' = [stream EXCEPT ![k] = IF Lookup(k) = None THEN "reset" ELSE "dispatched"]
  /\ UNCHANGED <<clientSide, wire, helperSide, tcp, owner>>

\* The answer could not be sent.
DispatchFails(k) ==
  /\ stream[k] = "sent" /\ link = "down"
  /\ stream' = [stream EXCEPT ![k] = "reset"]
  /\ UNCHANGED <<clientSide, wire, helperSide, tcp, owner, target>>

\* deliver's checks under the listener's lock.
Queues(f) == f \notin fclosed /\ closer = "open"

Deliver(k) ==
  LET f == target[k]
  IN  /\ stream[k] = "dispatched"
      /\ \/ /\ Queues(f)
            /\ stream' = [stream EXCEPT ![k] = "queued"]
            /\ accept' = [accept EXCEPT ![f] = IF @ = "waits" THEN "checks" ELSE @]
         \/ /\ ~Queues(f)
            /\ stream' = [stream EXCEPT ![k] = "reset"]
            /\ UNCHANGED accept
      /\ UNCHANGED <<forwards, lpc, fclosed, cancel, closeVars, wire, helperSide, tcp,
                    owner, target>>

Pending(f) == {k \in Conns : stream[k] = "queued" /\ target[k] = f}

AcceptStream(f) ==
  /\ accept[f] = "checks"
  /\ \E k \in Pending(f) : stream' = [stream EXCEPT ![k] = "taken"]
  /\ UNCHANGED <<clientSide, wire, helperSide, tcp, owner, target>>

\* Nothing is queued: Accept returns the listener's or the client's end, or waits.
AcceptChecks(f) ==
  /\ accept[f] = "checks" /\ Pending(f) = {}
  /\ accept' = [accept EXCEPT ![f] =
                  IF f \in fclosed \/ closer # "open" THEN "returned" ELSE "waits"]
  /\ UNCHANGED <<forwards, lpc, fclosed, cancel, closeVars, wire, helperSide, connVars>>

\* The caller's context ends: its AfterFunc wakes the waiter.
AcceptCanceled(f) ==
  /\ accept[f] \in {"checks", "waits"} /\ Pending(f) = {}
  /\ accept' = [accept EXCEPT ![f] = "returned"]
  /\ UNCHANGED <<forwards, lpc, fclosed, cancel, closeVars, wire, helperSide, connVars>>

\* Cancel unregisters the listener, closes it and asks the helper to stop listening.
Cancel(f) ==
  /\ lpc[f] = "listening" /\ cancel[f] = "no"
  /\ forwards' = Unregistered(f)
  /\ cancel' = [cancel EXCEPT ![f] = "removed"]
  /\ UNCHANGED <<lpc, fclosed, accept, closeVars, wire, helperSide, connVars>>

CancelCloses(f) ==
  /\ cancel[f] = "removed"
  /\ cancel' = [cancel EXCEPT ![f] = "closed"]
  /\ CloseLocal(f)
  /\ UNCHANGED <<forwards, lpc, closeVars, wire, helperSide, tcp, owner, target>>

\* What Cancel makes of the stop call's error: nil if the client is closed by then,
\* whatever the error, or if the error is one of a closed connection.
CancelResults(closedError) ==
  IF closer # "open" THEN {"done"} ELSE IF closedError THEN {"done", "failed"} ELSE {"failed"}

CallStop(f) ==
  /\ cancel[f] = "closed"
  /\ \/ /\ link = "up"
        /\ stop' = [stop EXCEPT ![f] = "sent"]
        /\ cancel' = [cancel EXCEPT ![f] = "calling"]
     \/ /\ link = "down"
        /\ \E e \in CancelResults(TRUE) : cancel' = [cancel EXCEPT ![f] = e]
        /\ UNCHANGED stop
  /\ UNCHANGED <<forwards, lpc, fclosed, accept, closeVars, link, rpc, helperSide,
                connVars>>

\* The call's select: the response, or the connection's end ...
CancelReturns(f) ==
  /\ cancel[f] = "calling"
  /\ \/ stop[f] = "ok" /\ cancel' = [cancel EXCEPT ![f] = "done"]
     \/ /\ stop[f] = "err" \/ link = "down"
        /\ \E e \in CancelResults(link = "down") : cancel' = [cancel EXCEPT ![f] = e]
  /\ UNCHANGED <<forwards, lpc, fclosed, accept, closeVars, wire, helperSide, connVars>>

\* ... or the caller's context.
CancelTimesOut(f) ==
  /\ cancel[f] = "calling"
  /\ \E e \in CancelResults(FALSE) : cancel' = [cancel EXCEPT ![f] = e]
  /\ UNCHANGED <<forwards, lpc, fclosed, accept, closeVars, wire, helperSide, connVars>>

-----------------------------------------------------------------------------
(* Client: Close and the goroutine that serves the connection.              *)

\* Serve of the client's connection returns: the transport ended or the context did.
ClientServeEnds ==
  /\ cstate = "serving" /\ link = "down"
  /\ cstate' = "closing"
  /\ UNCHANGED <<clientVars, closer, closing, wire, helperSide, connVars>>

ClientContextDone ==
  /\ cstate = "serving"
  /\ cstate' = "closing" /\ link' = "down"
  /\ UNCHANGED <<clientVars, closer, closing, rpc, stop, helperSide, connVars>>

\* Client.Close, from its owner or after Serve: closed is closed first.
ClientClose ==
  /\ closer = "open"
  /\ closer' = "marked"
  /\ UNCHANGED <<clientVars, closing, cstate, wire, helperSide, connVars>>

CloseConn ==
  /\ closer = "marked"
  /\ closer' = "down" /\ cstate' = "closing" /\ link' = "down"
  /\ UNCHANGED <<clientVars, closing, rpc, stop, helperSide, connVars>>

\* remoteForward.close and then agentForward.close: the table is taken under its lock,
\* the listeners are closed after it.
TakeForwards ==
  /\ closing = {}
  /\ \/ closer = "down" /\ closer' = "remote"
     \/ closer = "remote" /\ closer' = "agent"
  /\ LET taken == {f \in Forwards : (f \in Agents) = (closer = "remote")
                                    /\ \E k \in Keys : forwards[k] = f}
     IN  /\ closing' = taken
         /\ forwards' = [k \in Keys |-> IF forwards[k] \in taken THEN None ELSE forwards[k]]
  /\ UNCHANGED <<lpc, fclosed, accept, cancel, cstate, wire, helperSide, connVars>>

CloseTaken(f) ==
  /\ f \in closing
  /\ closing' = closing \ {f}
  /\ CloseLocal(f)
  /\ UNCHANGED <<forwards, lpc, cancel, closer, cstate, wire, helperSide, tcp, owner,
                target>>

CloseReturns ==
  /\ closer = "agent" /\ closing = {}
  /\ closer' = "done"
  /\ UNCHANGED <<clientVars, closing, cstate, wire, helperSide, connVars>>

-----------------------------------------------------------------------------
(* Helper: the connection's work.                                           *)

BeginsAlways == TRUE

\* beginWork: the wait group grows only while the connection serves.
BeginWork == hstate = "serving"

\* What Serve waits for: RPC handlers, accept loops and proxied connections.
Working ==
  \/ \E f \in Forwards : hrpc[f] \in {"begun", "bound", "started"}
                         \/ run[f] \in {"accepts", "accepted"} \/ stop[f] = "running"
  \/ \E k \in Conns : tcp[k] = "proxied"

HelperServeMissesLink ==
  /\ hstate = "serving" /\ (hctx \/ fatal)
  /\ hstate' = "closing"
  /\ UNCHANGED <<clientSide, wire, hctx, fatal, listenVars, connVars>>

\* The select of Serve and the first half of shutdown.
HelperServeEnds ==
  /\ hstate = "serving" /\ (hctx \/ fatal \/ link = "down")
  /\ hstate' = "closing"
  /\ UNCHANGED <<clientSide, wire, hctx, fatal, listenVars, connVars>>

\* The second half: the context is cancelled and the transport closed.
HelperShutdown ==
  /\ hstate = "closing"
  /\ hstate' = "canceled" /\ hctx' = TRUE /\ link' = "down"
  /\ UNCHANGED <<clientSide, rpc, stop, fatal, listenVars, connVars>>

WorkWait == ~Working

HelperServeReturns ==
  /\ hstate = "canceled" /\ WorkWait
  /\ hstate' = "closed"
  /\ UNCHANGED <<clientSide, wire, hctx, fatal, listenVars, connVars>>

\* The helper process is told to stop, or its stdio breaks.
HelperSignaled ==
  /\ ~hctx /\ hctx' = TRUE
  /\ UNCHANGED <<clientSide, wire, hstate, fatal, listenVars, connVars>>

LinkFails ==
  /\ link = "up" /\ link' = "down"
  /\ UNCHANGED <<clientSide, rpc, stop, helperSide, connVars>>

-----------------------------------------------------------------------------
(* Helper: the listen and stop handlers.                                    *)

\* handleRPCStream: the RPC is registered as work or its stream reset.
ListenArrives(f) ==
  /\ rpc[f] = "sent" /\ hrpc[f] = "none"
  /\ \/ BeginWork /\ hrpc' = [hrpc EXCEPT ![f] = "begun"] /\ UNCHANGED rpc
     \/ /\ ~BeginWork
        /\ rpc' = [rpc EXCEPT ![f] = "err"] /\ hrpc' = [hrpc EXCEPT ![f] = "done"]
  /\ UNCHANGED <<clientSide, link, stop, helperVars, socket, listeners, run, armed,
                connVars>>

\* There is one agent socket; a remote listener finds its address in use by itself.
MayOpen(f) == f \in Agents => listeners[Actual[f]] = None

Open(f) == socket' = [socket EXCEPT ![f] = "open"]

\* The socket is opened and registered, or the error is the response.
HandleListen(f) ==
  /\ hrpc[f] = "begun"
  /\ \/ /\ MayOpen(f) /\ Open(f)
        /\ listeners' = [listeners EXCEPT ![Actual[f]] = f]
        /\ hrpc' = [hrpc EXCEPT ![f] = "bound"]
        /\ UNCHANGED rpc
     \/ /\ rpc' = [rpc EXCEPT ![f] = "err"]
        /\ hrpc' = [hrpc EXCEPT ![f] = "done"]
        /\ UNCHANGED <<socket, listeners>>
  /\ UNCHANGED <<clientSide, link, stop, helperVars, run, armed, connVars>>

\* Closing a listener: the socket, and its entry if it still is this listener's.
Release(f) ==
  /\ socket' = [socket EXCEPT ![f] = "closed"]
  /\ listeners' = [k \in Keys |-> IF listeners[k] = f THEN None ELSE listeners[k]]

\* Go starts the accept loop, or the listener is closed again.
GoRun(f) ==
  /\ hrpc[f] = "bound"
  /\ \/ /\ BeginWork
        /\ run' = [run EXCEPT ![f] = "accepts"] /\ armed' = armed \cup {f}
        /\ hrpc' = [hrpc EXCEPT ![f] = "started"]
        /\ UNCHANGED <<socket, listeners, rpc>>
     \/ /\ ~BeginWork
        /\ Release(f)
        /\ rpc' = [rpc EXCEPT ![f] = "err"] /\ hrpc' = [hrpc EXCEPT ![f] = "done"]
        /\ UNCHANGED <<run, armed>>
  /\ UNCHANGED <<clientSide, link, stop, helperVars, connVars>>

\* The response follows the accept loop's start.
ListenResponds(f) ==
  /\ hrpc[f] = "started"
  /\ rpc' = [rpc EXCEPT ![f] = "ok"] /\ hrpc' = [hrpc EXCEPT ![f] = "done"]
  /\ UNCHANGED <<clientSide, link, stop, helperVars, socket, listeners, run, armed,
                connVars>>

StopArrives(f) ==
  /\ stop[f] = "sent"
  /\ stop' = [stop EXCEPT ![f] = IF BeginWork THEN "running" ELSE "err"]
  /\ UNCHANGED <<clientSide, link, rpc, helperSide, connVars>>


StopCloses(g) == Release(g)

\* handleStop closes whatever is registered under the bind.
HandleStop(f) ==
  /\ stop[f] = "running"
  /\ stop' = [stop EXCEPT ![f] = "ok"]
  /\ LET g == listeners[Actual[f]]
     IN  IF g = None THEN UNCHANGED <<socket, listeners>> ELSE StopCloses(g)
  /\ UNCHANGED <<clientSide, link, rpc, helperVars, hrpc, run, armed, connVars>>

-----------------------------------------------------------------------------
(* Helper: the accept loop and the connections.                             *)

\* Accept returns a connection.
SocketAccepts(f, k) ==
  /\ run[f] = "accepts" /\ socket[f] = "open" /\ tcp[k] = "none"
  /\ run' = [run EXCEPT ![f] = "accepted"]
  /\ tcp' = [tcp EXCEPT ![k] = "accepted"] /\ owner' = [owner EXCEPT ![k] = f]
  /\ UNCHANGED <<clientSide, wire, helperVars, hrpc, socket, listeners, armed, stream,
                target>>

\* Go starts the proxy and the loop goes on.
GoProxy(f, k) ==
  /\ run[f] = "accepted" /\ tcp[k] = "accepted" /\ owner[k] = f
  /\ BeginWork
  /\ run' = [run EXCEPT ![f] = "accepts"]
  /\ tcp' = [tcp EXCEPT ![k] = "proxied"]
  /\ UNCHANGED <<clientSide, wire, helperVars, hrpc, socket, listeners, armed, owner,
                stream, target>>

\* What a loop that ends leaves behind: the remote listener's deferred Close and remove,
\* nothing for the agent, whose AfterFunc is unregistered all the same.
LoopEnds(f) ==
  IF f \in Agents THEN UNCHANGED <<socket, listeners>> ELSE Release(f)

GoProxyFails(f, k) ==
  /\ run[f] = "accepted" /\ tcp[k] = "accepted" /\ owner[k] = f
  /\ ~BeginWork
  /\ run' = [run EXCEPT ![f] = "done"] /\ armed' = armed \ {f}
  /\ tcp' = [tcp EXCEPT ![k] = "closed"]
  /\ LoopEnds(f)
  /\ UNCHANGED <<clientSide, wire, helperVars, hrpc, owner, stream, target>>

\* Accept fails: on a closed socket the loop just ends, another error is fatal.
SocketFails(f) ==
  /\ run[f] = "accepts"
  /\ run' = [run EXCEPT ![f] = "done"] /\ armed' = armed \ {f}
  /\ Release(f)
  /\ \/ socket[f] = "closed" /\ UNCHANGED fatal
     \/ socket[f] = "open" /\ fatal' = TRUE
  /\ UNCHANGED <<clientSide, wire, hstate, hctx, hrpc, connVars>>

\* The loop's context.AfterFunc: the agent is unregistered too.
AfterFunc(f) ==
  /\ f \in armed /\ hctx
  /\ armed' = armed \ {f}
  /\ \/ f \in Agents /\ Release(f)
     \/ /\ f \notin Agents
        /\ socket' = [socket EXCEPT ![f] = "closed"] /\ UNCHANGED listeners
  /\ UNCHANGED <<clientSide, wire, helperVars, hrpc, run, connVars>>

CreateStream(k) ==
  /\ tcp[k] = "proxied" /\ stream[k] = "none" /\ link = "up"
  /\ stream' = [stream EXCEPT ![k] = "sent"]
  /\ UNCHANGED <<clientSide, wire, helperSide, tcp, owner, target>>

\* CreateStream fails or times out, a side closes, or the context ends the proxy.
ProxyEnds(k) ==
  /\ tcp[k] = "proxied"
  /\ tcp' = [tcp EXCEPT ![k] = "closed"]
  /\ UNCHANGED <<clientSide, wire, helperSide, owner, stream, target>>

-----------------------------------------------------------------------------
Listening(f) ==
  \/ Add(f) \/ CallListen(f) \/ ListenReturns(f) \/ Rekey(f) \/ RemoveIfMatch(f)
  \/ ListenFails(f)

Canceling(f) == CancelCloses(f) \/ CallStop(f) \/ CancelReturns(f)

Closing ==
  \/ CloseConn \/ TakeForwards \/ CloseReturns \/ \E f \in Forwards : CloseTaken(f)

HelperServe == HelperServeEnds \/ HelperShutdown \/ HelperServeReturns

Serving(f) ==
  \/ ListenArrives(f) \/ HandleListen(f) \/ GoRun(f) \/ ListenResponds(f)
  \/ StopArrives(f) \/ HandleStop(f) \/ AfterFunc(f)

\* The context, the peers of the sockets and the transport do as they like.
Environment ==
  \/ \E f \in Forwards : ListenCanceled(f) \/ AcceptCanceled(f) \/ Cancel(f)
                         \/ CancelTimesOut(f) \/ SocketFails(f)
                         \/ \E k \in Conns : SocketAccepts(f, k)
  \/ \E k \in Conns : ProxyEnds(k) \/ DispatchFails(k)
  \/ ClientContextDone \/ ClientClose \/ HelperSignaled \/ LinkFails

Next ==
  \/ \E f \in Forwards : Listening(f) \/ Canceling(f) \/ Serving(f)
                         \/ AcceptStream(f) \/ AcceptChecks(f)
                         \/ \E k \in Conns : GoProxy(f, k) \/ GoProxyFails(f, k)
  \/ \E k \in Conns : Dispatch(k) \/ Deliver(k) \/ CreateStream(k)
  \/ ClientServeEnds \/ Closing \/ HelperServe
  \/ Environment

Spec == Init /\ [][Next]_vars

\* Every goroutine that can run does, the client is closed once its connection ended, a
\* proxy ends when its context, its stream or the transport does, and Accept fails on a
\* closed socket.
Fairness ==
  /\ \A f \in Forwards :
       /\ WF_vars(Listening(f)) /\ WF_vars(Canceling(f)) /\ WF_vars(Serving(f))
       /\ WF_vars(AcceptStream(f)) /\ WF_vars(AcceptChecks(f))
       /\ WF_vars(socket[f] = "closed" /\ SocketFails(f))
       /\ \A k \in Conns : WF_vars(GoProxy(f, k) \/ GoProxyFails(f, k))
  /\ \A k \in Conns :
       /\ WF_vars(Dispatch(k)) /\ WF_vars(Deliver(k)) /\ WF_vars(CreateStream(k))
       /\ WF_vars((hctx \/ link = "down" \/ stream[k] = "reset") /\ ProxyEnds(k))
  /\ WF_vars(ClientServeEnds) /\ WF_vars(cstate = "closing" /\ ClientClose)
  /\ WF_vars(Closing) /\ WF_vars(HelperServe)

FairSpec == Spec /\ Fairness

-----------------------------------------------------------------------------
(* Properties                                                               *)

\* A connection made to a listener reaches its own listener in the gateway, even before
\* the listen response did: dispatch resets the stream only if the listener was cancelled,
\* its Listen failed or the connection is ending.
EarlyStreamKept ==
  \A k \in Conns :
    /\ target[k] \in {None, owner[k]}
    /\ stream[k] = "reset" =>
         \/ closer # "open" \/ link = "down" \/ cancel[owner[k]] # "no"
         \/ lpc[owner[k]] \in {"err", "removed", "failed"}

\* What is closed is released.  In the gateway a closed listener holds no stream and is in
\* no table, whichever of Listen, Cancel and Close closed it: rekey never brings one back and
\* deliver never adds to one; and once Close returned, no listener that Listen handed out is
\* open.  In the Pod, once Cancel returned without error the socket is closed, or the
\* client or the connection it lived on is closed and ShutdownReleases applies; and Serve of the helper returns only when no handler,
\* accept loop or proxied connection is left and every socket is closed, but an agent's whose
\* accept loop ended over a connection that came during the shutdown.
ClosedIsReleased ==
  /\ \A f \in fclosed : Pending(f) = {} /\ \A b \in Keys : forwards[b] # f
  /\ closer = "done" =>
       \A f \in Forwards : lpc[f] = "listening" => f \in fclosed \/ cancel[f] = "removed"
  /\ hstate = "closed" =>
       /\ ~Working
       /\ \A f \in Forwards : socket[f] = "open" =>
            f \in Agents /\ \E k \in Conns : owner[k] = f /\ stream[k] = "none"
  /\ \A f \in Forwards : cancel[f] = "done" =>
       socket[f] = "closed" \/ link = "down" \/ closer # "open"

\* When the transport goes down for any reason, or the client is closed, both sides end: Serve of the helper
\* returns, every Accept in the gateway returns and every connection in the Pod is closed.
ShutdownReleases ==
  (link = "down" \/ closer # "open") ~>
    /\ hstate = "closed" /\ closer = "done"
    /\ \A f \in Forwards : accept[f] \in {"no", "returned"}
    /\ \A k \in Conns : tcp[k] \in {"none", "closed"}

=============================================================================
