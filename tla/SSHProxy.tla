------------------------------ MODULE SSHProxy ------------------------------
(***************************************************************************)
(* The SSH proxy of one downstream connection (pkg/sshproxy/proxy.go,       *)
(* protocol.go): who holds the FinishOperation callback of each operation.  *)
(*                                                                         *)
(* The callback of an operation travels: the goroutine that began it holds  *)
(* it while the request is authorized, the upstream is dialled and the      *)
(* message is answered; then a channel, the table of remote forwards or the *)
(* agent slot holds it, until the channel ends, the forward is cancelled or *)
(* close() sweeps the table.  The goroutines are the one that handles the   *)
(* global requests in order, one handler per channel, per channel its serve *)
(* goroutine and its loop over the client's channel requests, two loops     *)
(* over what the upstream sends, and whoever calls close().                 *)
(***************************************************************************)
EXTENDS Naturals, FiniteSets

CONSTANTS Ops,              \* operations of the connection
          ClientChannels,   \* SSH channels of the connection that the client opens
          UpstreamChannels, \* those the upstream server opens
          Keys,             \* host:port keys of remote forwards
          ZeroKey,          \* the key of a request for port 0
          GlobalRequests,   \* the client's global requests: <<kind, key, WantReply>>
          ChannelTypes,     \* types of channel opened by either side
          ChannelRequests,  \* the client's requests, on each channel, that need an operation
          None

Channels == ClientChannels \cup UpstreamChannels

GlobalKinds == {"tcpip-forward", "cancel-tcpip-forward", "keepalive", "other"}

ASSUME NoneAssumption == None \notin Ops
ASSUME KeysAssumption == ZeroKey \in Keys
ASSUME KindsAssumption ==
  /\ GlobalRequests \subseteq GlobalKinds \X Keys \X BOOLEAN
  /\ ChannelTypes \subseteq {"session", "direct-tcpip", "forwarded-tcpip", "auth-agent", "other"}
  /\ ChannelRequests \in
       [Channels -> SUBSET {"shell", "exec", "subsystem", "auth-agent-req", "other"}]

VARIABLES
  status,          \* lifecycle of each operation
  global,          \* the global request being handled
  chan,            \* where each channel is
  finish,          \* the operation a channel or its handler holds
  request,         \* the client's channel request each channel is forwarding
  upRequest,       \* the upstream's global request being forwarded
  once,            \* connectOnce and its result
  transport,       \* the upstream SSH connection
  remoteForwards,  \* proxy.remoteForwards
  agentForward,    \* proxy.agentForward
  closed,          \* proxy.closed
  closer,          \* what close() took under the lock and still has to close
  protoClosed,     \* Protocol.closed
  bound,           \* keys the upstream server listens on (external)
  unconfirmed      \* history: a forward or its cancellation was sent without asking for a reply

tableVars == <<remoteForwards, agentForward, closed, closer>>
chanVars  == <<chan, finish>>
linkVars  == <<once, transport, bound, unconfirmed>>
vars == <<status, global, chanVars, request, upRequest, linkVars, tableVars, protoClosed>>

Held == Ops \cup {None}
IdleGlobal == [pc |-> "idle", kind |-> "none", key |-> ZeroKey, want |-> TRUE, op |-> None]
IdleRequest == [pc |-> "idle", effect |-> "none", op |-> None]

\* A callback completed twice would leave the type of status (FinishAll).
TypeOK ==
  /\ status \in [Ops -> {"none", "started", "ended"}]
  /\ global \in [pc : {"idle", "authorize", "connect", "send", "replied"},
                 kind : GlobalKinds \cup {"none"}, key : Keys, want : BOOLEAN, op : Held]
  /\ chan \in [Channels -> {"idle", "authorize", "connect", "open", "upAuthorize", "upOpen",
                            "serve", "ended", "rejected"}]
  /\ finish \in [Channels -> Held]
  /\ request \in [Channels -> [pc : {"idle", "authorize", "send", "sent"},
                               effect : {"session", "agent", "none"}, op : Held]]
  /\ upRequest \in [pc : {"idle", "authorize", "send"}, op : Held]
  /\ once \in {"none", "dialing", "up", "failed"}
  /\ transport \in {"none", "open", "closed"}
  /\ remoteForwards \in [Keys -> Held] /\ agentForward \in Held
  /\ closed \in BOOLEAN /\ protoClosed \in BOOLEAN
  /\ closer \in [upstream : BOOLEAN, ops : SUBSET Ops]
  /\ bound \subseteq Keys /\ unconfirmed \in BOOLEAN

Init ==
  /\ status = [o \in Ops |-> "none"]
  /\ global = IdleGlobal
  /\ chan = [c \in Channels |-> "idle"]
  /\ finish = [c \in Channels |-> None]
  /\ request = [c \in Channels |-> IdleRequest]
  /\ upRequest = [pc |-> "idle", op |-> None]
  /\ once = "none" /\ transport = "none" /\ bound = {} /\ unconfirmed = FALSE
  /\ remoteForwards = [k \in Keys |-> None] /\ agentForward = None
  /\ closed = FALSE /\ protoClosed = FALSE
  /\ closer = [upstream |-> FALSE, ops |-> {}]

-----------------------------------------------------------------------------
(* Operations and close()                                                   *)

Begin(o) == status[o] = "none" /\ status' = [status EXCEPT ![o] = "started"]

\* proxy.finish: a nil callback is skipped.
FinishAll(S) ==
  status' = [o \in Ops |-> IF o \notin S THEN status[o]
                           ELSE IF status[o] = "started" THEN "ended" ELSE "endedTwice"]
Finish(o) == FinishAll({o} \ {None})

\* close(): marks the proxy closed and takes the upstream connection and every stored
\* callback under the lock; a second call does nothing.
CloseTakesForwards == {remoteForwards[k] : k \in Keys} \ {None}
CloseTakes == ({remoteForwards[k] : k \in Keys} \cup {agentForward}) \ {None}
CloseLocked ==
  IF closed THEN UNCHANGED tableVars
  ELSE /\ closed' = TRUE
       /\ closer' = [upstream |-> once = "up", ops |-> CloseTakes]
       /\ remoteForwards' = [k \in Keys |-> None]
       /\ agentForward' = None

\* Called by Protocol.Close and by the goroutine that waits for the upstream's end.
CloseProxy ==
  /\ ~closed
  /\ protoClosed \/ (once = "up" /\ transport = "closed")
  /\ CloseLocked
  /\ UNCHANGED <<status, global, chanVars, request, upRequest, linkVars, protoClosed>>

\* After the unlock: the upstream transport first, then the callbacks one by one.
CloseUpstream ==
  /\ closer.upstream
  /\ transport' = "closed"
  /\ bound' = {}
  /\ closer' = [closer EXCEPT !.upstream = FALSE]
  /\ UNCHANGED <<status, global, chanVars, request, upRequest, once, unconfirmed,
                 remoteForwards, agentForward, closed, protoClosed>>

CloseFinishes(o) ==
  /\ ~closer.upstream
  /\ o \in closer.ops
  /\ closer' = [closer EXCEPT !.ops = @ \ {o}]
  /\ Finish(o)
  /\ UNCHANGED <<global, chanVars, request, upRequest, linkVars, remoteForwards,
                 agentForward, closed, protoClosed>>

\* Protocol.Close: later messages of the client find no proxy.
ProtocolClose ==
  /\ ~protoClosed
  /\ protoClosed' = TRUE
  /\ UNCHANGED <<status, global, chanVars, request, upRequest, linkVars, tableVars>>

-----------------------------------------------------------------------------
(* connect                                                                  *)

StartDial ==
  /\ once = "none"
  /\ global.pc = "connect" \/ \E c \in Channels : chan[c] = "connect"
  /\ once' = "dialing"
  /\ UNCHANGED <<status, global, chanVars, request, upRequest, transport, bound, unconfirmed, tableVars,
                 protoClosed>>

\* The connector fails, or it succeeds and the connection is kept unless close() came first.
KeepAlways == TRUE
MayKeepUpstream == ~closed
DialReturns ==
  /\ once = "dialing"
  /\ \/ once' = "failed" /\ UNCHANGED transport
     \/ IF MayKeepUpstream THEN once' = "up" /\ transport' = "open"
                           ELSE once' = "failed" /\ transport' = "closed"
  /\ UNCHANGED <<status, global, chanVars, request, upRequest, bound, unconfirmed, tableVars,
                 protoClosed>>

\* The upstream server or the network ends the connection.
UpstreamEnds ==
  /\ transport = "open"
  /\ transport' = "closed"
  /\ bound' = {}
  /\ UNCHANGED <<status, global, chanVars, request, upRequest, once, unconfirmed, tableVars,
                 protoClosed>>

-----------------------------------------------------------------------------
(* handleRequest                                                            *)

\* Whether the plan of a global request has an operation: a cancel or a keepalive has none.
PlanGlobalRequest(kind) == kind \in {"tcpip-forward", "other"}

\* A cancel of an unknown key is answered with failure and changes nothing.
HandleRequest(kind, key, want, o) ==
  /\ ~protoClosed
  /\ global.pc = "idle"
  /\ IF PlanGlobalRequest(kind)
     THEN /\ Begin(o)
          /\ global' = [pc |-> "authorize", kind |-> kind, key |-> key, want |-> want, op |-> o]
     ELSE /\ kind = "cancel-tcpip-forward" => remoteForwards[key] # None
          /\ global' = [pc |-> "connect", kind |-> kind, key |-> key, want |-> want,
                        op |-> None]
          /\ UNCHANGED status
  /\ UNCHANGED <<chanVars, request, upRequest, linkVars, tableVars, protoClosed>>

\* begin returns: a denial, or a forward of a key already in the table, is finished.
AuthorizeRequest ==
  /\ global.pc = "authorize"
  /\ \/ Finish(global.op) /\ global' = IdleGlobal
     \/ /\ global.kind = "tcpip-forward" => remoteForwards[global.key] = None
        /\ global' = [global EXCEPT !.pc = "connect"]
        /\ UNCHANGED status
  /\ UNCHANGED <<chanVars, request, upRequest, linkVars, tableVars, protoClosed>>

ConnectRequest ==
  /\ global.pc = "connect"
  /\ \/ /\ once = "failed"
        /\ Finish(global.op)
        /\ CloseLocked
        /\ global' = IdleGlobal
     \/ /\ once = "up"
        /\ global' = [global EXCEPT !.pc = "send"]
        /\ UNCHANGED <<status, tableVars>>
  /\ UNCHANGED <<chanVars, request, upRequest, linkVars, protoClosed>>

\* actualRemoteForwardKey: a request for port 0 is kept under the port in the reply.
RequestedKey(key, port) == key
ActualRemoteForwardKey(key, port) == IF key = ZeroKey THEN port ELSE key

\* What the upstream server does when it accepts the request; "port" is the key it listens
\* on afterwards (external).
UpstreamAccepts(kind, key, port) ==
  CASE kind = "tcpip-forward" ->
         /\ port \notin bound \cup {ZeroKey}
         /\ key # ZeroKey => port = key
         /\ bound' = bound \cup {port}
    [] kind = "cancel-tcpip-forward" -> port = key /\ bound' = bound \ {key}
    [] OTHER -> port = key /\ UNCHANGED bound

\* SendRequest: an error, a rejection, or an acceptance.  Without WantReply it returns at
\* once with no payload, whatever the upstream does.
SendRequest ==
  /\ global.pc = "send"
  /\ \/ /\ transport = "closed" \/ global.want
        /\ Finish(global.op)
        /\ global' = IdleGlobal
        /\ UNCHANGED <<bound, unconfirmed>>
     \/ /\ transport = "open" /\ global.want
        /\ \E port \in Keys :
             /\ UpstreamAccepts(global.kind, global.key, port)
             /\ global' = [global EXCEPT !.pc = "replied",
                                         !.key = ActualRemoteForwardKey(@, port)]
        /\ UNCHANGED <<status, unconfirmed>>
     \/ /\ transport = "open" /\ ~global.want
        /\ UNCHANGED bound \/ \E port \in Keys : UpstreamAccepts(global.kind, global.key, port)
        /\ global' = [global EXCEPT !.pc = "replied"]
        /\ unconfirmed' = (unconfirmed \/ global.kind \in {"tcpip-forward", "cancel-tcpip-forward"})
        /\ UNCHANGED status
  /\ UNCHANGED <<chanVars, request, upRequest, once, transport, tableVars, protoClosed>>

\* addRemoteForward stores the callback unless close() has already swept the table.
MayStore == ~closed
AddAndFinish(key, o) ==
  /\ remoteForwards' = [remoteForwards EXCEPT ![key] = o]
  /\ Finish(o)
AddRemoteForward(key, o) ==
  IF MayStore
  THEN remoteForwards' = [remoteForwards EXCEPT ![key] = o] /\ UNCHANGED status
  ELSE Finish(o) /\ UNCHANGED remoteForwards

RemoveRemoteForward(key) ==
  /\ remoteForwards' = [remoteForwards EXCEPT ![key] = None]
  /\ Finish(remoteForwards[key])

ApplyRequest ==
  /\ global.pc = "replied"
  /\ CASE global.kind = "tcpip-forward" -> AddRemoteForward(global.key, global.op)
       [] global.kind = "cancel-tcpip-forward" -> RemoveRemoteForward(global.key)
       [] OTHER -> Finish(global.op) /\ UNCHANGED remoteForwards
  /\ global' = IdleGlobal
  /\ UNCHANGED <<chanVars, request, upRequest, linkVars, agentForward, closed, closer,
                 protoClosed>>

-----------------------------------------------------------------------------
(* handleChannel and serve                                                  *)

MoveChannel(c, to) == chan' = [chan EXCEPT ![c] = to]

\* The channel's handler or serve goroutine finishes what the channel holds.
EndChannel(c, to) ==
  /\ MoveChannel(c, to)
  /\ finish' = [finish EXCEPT ![c] = None]
  /\ Finish(finish[c])

\* A session channel is opened without an operation; the others begin one.
ParseChannelOperation(type) == type # "session"

HandleChannel(c, type, o) ==
  /\ ~protoClosed
  /\ chan[c] = "idle"
  /\ IF ParseChannelOperation(type)
     THEN /\ Begin(o)
          /\ MoveChannel(c, "authorize")
          /\ finish' = [finish EXCEPT ![c] = o]
     ELSE MoveChannel(c, "connect") /\ UNCHANGED <<status, finish>>
  /\ UNCHANGED <<global, request, upRequest, linkVars, tableVars, protoClosed>>

AuthorizeChannel(c) ==
  /\ \/ chan[c] \in {"authorize", "upAuthorize"} /\ EndChannel(c, "rejected")
     \/ chan[c] = "authorize" /\ MoveChannel(c, "connect") /\ UNCHANGED <<status, finish>>
     \/ chan[c] = "upAuthorize" /\ MoveChannel(c, "upOpen") /\ UNCHANGED <<status, finish>>
  /\ UNCHANGED <<global, request, upRequest, linkVars, tableVars, protoClosed>>

ConnectChannel(c) ==
  /\ chan[c] = "connect"
  /\ \/ once = "failed" /\ EndChannel(c, "rejected") /\ CloseLocked
     \/ once = "up" /\ MoveChannel(c, "open") /\ UNCHANGED <<status, finish, tableVars>>
  /\ UNCHANGED <<global, request, upRequest, linkVars, protoClosed>>

\* The far side refuses the channel, or the near side's Accept fails, or both are open and
\* the serve goroutine starts.
OpenChannel(c) ==
  /\ chan[c] \in {"open", "upOpen"}
  /\ \/ EndChannel(c, "rejected")
     \/ transport = "open" /\ MoveChannel(c, "serve") /\ UNCHANGED <<status, finish>>
  /\ UNCHANGED <<global, request, upRequest, linkVars, tableVars, protoClosed>>

\* operationForUpstreamChannel: forwarded-tcpip and agent channels need a stored callback.
UpstreamChannelAllowed(type) ==
  CASE type = "forwarded-tcpip" -> \E k \in Keys : remoteForwards[k] # None
    [] type = "auth-agent" -> agentForward # None
    [] OTHER -> FALSE

\* serveUpstreamChannels handles one channel at a time.
UpstreamChannel(c, type, o) ==
  /\ once = "up" /\ chan[c] = "idle"
  /\ \A d \in Channels : chan[d] \notin {"upAuthorize", "upOpen"}
  /\ \/ /\ UpstreamChannelAllowed(type)
        /\ MoveChannel(c, "upOpen")
        /\ UNCHANGED <<status, finish>>
     \/ /\ type = "other"
        /\ Begin(o)
        /\ MoveChannel(c, "upAuthorize")
        /\ finish' = [finish EXCEPT ![c] = o]
  /\ UNCHANGED <<global, request, upRequest, linkVars, tableVars, protoClosed>>

\* ioproxy.Proxy returns, having closed both channels: both directions ended, or the
\* connection's context is cancelled.  serve then finishes what the channel holds.
ProxyReturns(c) ==
  /\ chan[c] = "serve"
  /\ EndChannel(c, "ended")
  /\ UNCHANGED <<global, request, upRequest, linkVars, tableVars, protoClosed>>

-----------------------------------------------------------------------------
(* forwardRequests: the loop over the client's channel requests, which outlives serve *)

\* What an accepted channel request does with its operation.  Environment, terminal and
\* signal requests have none and pass through.
PlanDownstreamRequest(type) ==
  CASE type \in {"shell", "exec", "subsystem"} -> "session"
    [] type = "auth-agent-req" -> "agent"
    [] OTHER -> "none"

ChannelRequest(c, type, o) ==
  /\ chan[c] \in {"serve", "ended"}
  /\ request[c].pc = "idle"
  /\ Begin(o)
  /\ request' = [request EXCEPT ![c] = [pc |-> "authorize", effect |-> PlanDownstreamRequest(type),
                                         op |-> o]]
  /\ UNCHANGED <<global, chanVars, upRequest, linkVars, tableVars, protoClosed>>

\* A denied request is finished.  A request on a closed channel fails; one the upstream
\* rejects is finished.
ForwardChannelRequest(c) ==
  /\ \/ /\ request[c].pc \in {"authorize", "send"}
        /\ Finish(request[c].op)
        /\ request' = [request EXCEPT ![c] = IdleRequest]
     \/ /\ request[c].pc = "authorize"
        /\ request' = [request EXCEPT ![c].pc = "send"]
        /\ UNCHANGED status
     \/ /\ request[c].pc = "send"
        /\ chan[c] = "serve" /\ transport = "open"
        /\ request' = [request EXCEPT ![c].pc = "sent"]
        /\ UNCHANGED status
  /\ UNCHANGED <<global, chanVars, upRequest, linkVars, tableVars, protoClosed>>

\* replaceFinish: the channel holds the new operation; the previous one is finished.
ReplaceFinish(c, o) ==
  /\ finish' = [finish EXCEPT ![c] = o]
  /\ Finish(finish[c])
  /\ UNCHANGED agentForward

\* setAgentForward: likewise for the connection's agent slot.
SetAgentForward(o) ==
  IF closed
  THEN Finish(o) /\ UNCHANGED agentForward
  ELSE agentForward' = o /\ Finish(agentForward)

ApplyChannelRequest(c) ==
  /\ request[c].pc = "sent"
  /\ CASE request[c].effect = "session" -> ReplaceFinish(c, request[c].op)
       [] request[c].effect = "agent" -> SetAgentForward(request[c].op) /\ UNCHANGED finish
       [] OTHER -> Finish(request[c].op) /\ UNCHANGED <<finish, agentForward>>
  /\ request' = [request EXCEPT ![c] = IdleRequest]
  /\ UNCHANGED <<global, chan, upRequest, linkVars, remoteForwards, closed, closer, protoClosed>>

-----------------------------------------------------------------------------
(* serveUpstreamRequests                                                    *)

UpstreamRequest(o) ==
  /\ once = "up"
  /\ upRequest.pc = "idle"
  /\ Begin(o)
  /\ upRequest' = [pc |-> "authorize", op |-> o]
  /\ UNCHANGED <<global, chanVars, request, linkVars, tableVars, protoClosed>>

\* Denied, or answered by the client, or the client is gone: finished in any case.
ForwardUpstreamRequest ==
  /\ \/ /\ upRequest.pc = "authorize"
        /\ upRequest' = [upRequest EXCEPT !.pc = "send"]
        /\ UNCHANGED status
     \/ /\ upRequest.pc # "idle"
        /\ Finish(upRequest.op)
        /\ upRequest' = [pc |-> "idle", op |-> None]
  /\ UNCHANGED <<global, chanVars, request, linkVars, tableVars, protoClosed>>

-----------------------------------------------------------------------------
ClientMessage ==
  \E o \in Ops :
    \/ \E req \in GlobalRequests : HandleRequest(req[1], req[2], req[3], o)
    \/ \E c \in ClientChannels, type \in ChannelTypes : HandleChannel(c, type, o)
    \/ \E c \in Channels : \E type \in ChannelRequests[c] : ChannelRequest(c, type, o)
UpstreamMessage ==
  \E o \in Ops :
    \/ UpstreamRequest(o)
    \/ \E c \in UpstreamChannels, type \in ChannelTypes : UpstreamChannel(c, type, o)

DialStep == StartDial \/ DialReturns
GlobalStep == AuthorizeRequest \/ ConnectRequest \/ SendRequest \/ ApplyRequest
ChannelStep(c) == AuthorizeChannel(c) \/ ConnectChannel(c) \/ OpenChannel(c)
RequestStep(c) == ForwardChannelRequest(c) \/ ApplyChannelRequest(c)
CloseStep == CloseProxy \/ CloseUpstream \/ \E o \in Ops : CloseFinishes(o)

Next ==
  \/ ClientMessage \/ UpstreamMessage
  \/ DialStep \/ GlobalStep \/ ForwardUpstreamRequest
  \/ \E c \in Channels : ChannelStep(c) \/ RequestStep(c) \/ ProxyReturns(c)
  \/ CloseStep \/ ProtocolClose \/ UpstreamEnds

Spec == Init /\ [][Next]_vars

\* Goroutines run; dialling, authorizing and waiting for an answer end, at the latest when
\* the transports are closed; ioproxy.Proxy returns once the context is cancelled.
Fairness ==
  /\ WF_vars(DialStep) /\ WF_vars(GlobalStep) /\ WF_vars(ForwardUpstreamRequest)
  /\ WF_vars(CloseStep)
  /\ \A c \in Channels : /\ WF_vars(ChannelStep(c)) /\ WF_vars(RequestStep(c))
                         /\ WF_vars(protoClosed /\ ProxyReturns(c))
FairSpec == Spec /\ Fairness

-----------------------------------------------------------------------------
(* Properties                                                               *)

\* Somebody who will still look at it holds the callback of every started operation: a
\* handler, a channel that is still served, the table, the agent slot or close().  Two cases
\* are left out: the answer to a session request that comes when the channel has ended, and
\* forwards whose requests did not ask for a reply and came to share a key.
HeldBy(o) ==
  \/ global.op = o \/ upRequest.op = o
  \/ \E c \in Channels : (finish[c] = o /\ chan[c] # "ended") \/ request[c].op = o
  \/ \E k \in Keys : remoteForwards[k] = o
  \/ agentForward = o \/ o \in closer.ops
Abandoned(o) == status[o] = "started" /\ ~HeldBy(o)
OutstandingIsHeld ==
  \A o \in Ops : Abandoned(o) =>
    unconfirmed \/ \E c \in Channels : finish[c] = o /\ chan[c] = "ended"

\* close() leaves nothing behind: a handler that finishes its request while close() runs
\* stores nothing, and no upstream connection stays open, also when the first message was
\* still dialling it.
ClosedHoldsNothing ==
  closed =>
    /\ agentForward = None /\ \A k \in Keys : remoteForwards[k] = None
    /\ ~closer.upstream => transport # "open"

\* While the connection is up, the table follows the upstream server's listeners: the only
\* difference is the request being handled, as long as the client asks for replies.
TableFollowsUpstream ==
  transport = "open" /\ ~closed /\ ~unconfirmed =>
    \A k \in Keys : (k \in bound) # (remoteForwards[k] # None) => global.key = k /\ global.pc = "replied"

\* What the protocol seam asks of the adapter: the callback of a started operation is
\* completed once, and at the latest after the connection has gone down.  The proxy does
\* not keep the second half: a callback can be abandoned.
Lifecycle == INSTANCE OperationLifecycle WITH down <- protoClosed
LifecycleSpec == Lifecycle!Spec

\* What the proxy does keep of it: every step is a step of the operation lifecycle, so no
\* callback is completed twice or before its operation began, and once the protocol is
\* closed each is completed, but for the abandoned ones (OutstandingIsHeld says which they
\* are).
CompletedOnce ==
  /\ Lifecycle!Safety
  /\ \A o \in Ops : protoClosed ~> (status[o] # "started" \/ Abandoned(o))
=============================================================================
