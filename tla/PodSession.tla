----------------------------- MODULE PodSession -----------------------------
(* A session channel of a Pod connection (pkg/podssh/session_handler.go,       *)
(* session.go, operation.go, agentforward.go) and the proxied streams beside   *)
(* it: direct-tcpip channels and agent connections (directtcpip.go,            *)
(* agentforward.go, pkg/ioproxy).                                              *)
(*                                                                              *)
(* The request loop owns the session's parameters, starts one task that runs    *)
(* the command, and tears the session down. The connection's context ends every *)
(* session and stream, the session's context only the session's own.            *)
EXTENDS Naturals

CONSTANTS
  Streams,      \* streams proxied beside the session
  MaxEnv,       \* bound: env requests
  MaxResizes,   \* bound: window-change requests
  MaxAgents     \* bound: agent forwarding requests

ASSUME BoundsAssumption ==
  MaxEnv \in Nat /\ MaxResizes \in Nat /\ MaxAgents \in Nat
\* The names of the session's own operations.
ASSUME StreamsAssumption == "exec" \notin Streams /\ "agent" \notin Streams

VARIABLES
  connDone,    \* the connection's context is cancelled
  ctxDone,     \* the session's context is cancelled
  channel,     \* the session channel
  loop,        \* where the request loop is
  params,      \* the session's parameters
  winch,       \* the window queue: 0 when empty, else the size in it
  resizes,     \* window-change requests accepted, each with the next size
  started,     \* a shell, exec or subsystem request was accepted
  fixed,       \* history: the parameters when it was
  exec,        \* where the task is
  used,        \* the parameters the command was built from
  size,        \* the last size the backend took from the queue
  exits,       \* exit statuses sent
  agent,       \* the session's agent forwarding
  asked,       \* agent forwarding requests handled
  open,        \* the operations begun and not finished
  st,          \* where a stream's handler is
  kind,        \* how a stream is served
  copies,      \* directions still being copied
  result       \* the remote's terminal result is there

startVars  == <<started, fixed, asked>>
loopVars   == <<loop, params, resizes, startVars>>
execVars   == <<exec, used, size, exits>>
streamVars == <<st, kind, copies, result>>
vars == <<connDone, ctxDone, channel, winch, loopVars, execVars, agent, open, streamVars>>

Directions == {"toRemote", "toClient"}
Params == [env : 0..MaxEnv, pty : BOOLEAN, agent : BOOLEAN]
Unset == [env |-> 0, pty |-> FALSE, agent |-> FALSE]
Ops == {"exec", "agent"} \cup Streams

TypeOK ==
  /\ connDone \in BOOLEAN /\ ctxDone \in BOOLEAN
  /\ channel \in {"open", "closed"}
  /\ loop \in {"serves", "resizes", "agent", "agentWait", "wait", "done"}
  /\ params \in Params /\ fixed \in Params /\ used \in Params
  /\ winch \in 0..MaxResizes /\ resizes \in 0..MaxResizes /\ size \in 0..MaxResizes
  /\ started \in BOOLEAN
  /\ exec \in {"none", "started", "resolved", "running", "finished", "exited"}
  /\ exits \in 0..1
  /\ agent \in {"none", "serving", "closing", "ended"}
  /\ open \subseteq Ops /\ asked \in 0..MaxAgents
  /\ st \in [Streams -> {"none", "dialing", "proxy", "waiting", "returned", "done"}]
  /\ kind \in [Streams -> {"none", "dial", "portforward", "agent"}]
  /\ copies \in [Streams -> SUBSET Directions]
  /\ result \in [Streams -> BOOLEAN]

Init ==
  /\ connDone = FALSE /\ ctxDone = FALSE /\ channel = "open" /\ loop = "serves"
  /\ params = Unset /\ fixed = Unset /\ used = Unset
  /\ winch = 0 /\ resizes = 0 /\ size = 0 /\ started = FALSE
  /\ exec = "none" /\ exits = 0 /\ agent = "none"
  /\ open = {} /\ asked = 0
  /\ st = [s \in Streams |-> "none"] /\ kind = [s \in Streams |-> "none"]
  /\ copies = [s \in Streams |-> {}] /\ result = [s \in Streams |-> FALSE]

-----------------------------------------------------------------------------
(* The operation lifecycle every handler keeps.                             *)

Begin(o) == open' = open \cup {o}
Denied(o) == UNCHANGED open
Finish(o) == open' = open \ {o}

-----------------------------------------------------------------------------
(* The request loop. Refused requests change nothing.                       *)

MayConfigure == ~started

EnvRequest ==
  /\ loop = "serves" /\ MayConfigure /\ params.env < MaxEnv
  /\ params' = [params EXCEPT !.env = @ + 1]
  /\ UNCHANGED <<connDone, ctxDone, channel, loop, winch, resizes, startVars,
                 execVars, agent, open, streamVars>>

PTYRequest ==
  /\ loop = "serves" /\ ~started /\ ~params.pty
  /\ params' = [params EXCEPT !.pty = TRUE]
  /\ UNCHANGED <<connDone, ctxDone, channel, loop, winch, resizes, startVars,
                 execVars, agent, open, streamVars>>

KeepStaleSize == UNCHANGED winch

\* The select that takes a size nobody has read yet out of the queue.
DrainWindow == winch' = 0

WindowChangeRequest ==
  /\ loop = "serves" /\ params.pty /\ resizes < MaxResizes
  /\ DrainWindow
  /\ loop' = "resizes"
  /\ UNCHANGED <<connDone, ctxDone, channel, params, resizes, startVars, execVars,
                 agent, open, streamVars>>

\* The send blocks on a full queue.
SendWindow ==
  /\ loop = "resizes" /\ winch = 0
  /\ resizes' = resizes + 1 /\ winch' = resizes + 1
  /\ loop' = "serves"
  /\ UNCHANGED <<connDone, ctxDone, channel, params, startVars, execVars, agent,
                 open, streamVars>>

\* acceptAgentForward: a denied operation is finished at once.
AgentForwardRequest ==
  /\ loop = "serves" /\ ~started /\ agent = "none" /\ asked < MaxAgents
  /\ asked' = asked + 1
  /\ \/ Begin("agent") /\ loop' = "agent"
     \/ Denied("agent") /\ UNCHANGED loop
  /\ UNCHANGED <<connDone, ctxDone, channel, params, winch, resizes, started, fixed,
                 execVars, agent, streamVars>>

\* The backend's answer: the accept loop starts or the operation ends.
AgentForwardOpened ==
  /\ loop = "agent"
  /\ loop' = "serves"
  /\ \/ /\ agent' = "serving" /\ params' = [params EXCEPT !.agent = TRUE]
        /\ UNCHANGED open
     \/ Finish("agent") /\ UNCHANGED <<agent, params>>
  /\ UNCHANGED <<connDone, ctxDone, channel, winch, resizes, startVars, execVars,
                 streamVars>>

\* A shell, exec or sftp request: the reply and the task, or the session's end.
StartRequest ==
  /\ loop = "serves" /\ ~started
  /\ started' = TRUE /\ fixed' = params
  /\ \/ exec' = "started" /\ UNCHANGED ctxDone
     \/ ctxDone' = TRUE /\ UNCHANGED exec
  /\ UNCHANGED <<connDone, channel, loop, params, winch, resizes, asked, used, size, exits,
                 agent, open, streamVars>>

\* The loop ends with the context or the channel; the deferred function cancels, closes
\* the channel, the window queue and the agent forward, and waits for its accept loop.
LoopEnds ==
  /\ loop = "serves" /\ (ctxDone \/ channel = "closed")
  /\ ctxDone' = TRUE /\ channel' = "closed"
  /\ agent' = IF agent = "serving" THEN "closing" ELSE agent
  /\ loop' = "agentWait"
  /\ UNCHANGED <<connDone, params, winch, resizes, startVars, execVars, open, streamVars>>

AgentClosed ==
  /\ loop = "agentWait" /\ agent \in {"none", "ended"}
  /\ loop' = "wait"
  /\ UNCHANGED <<connDone, ctxDone, channel, winch, params, resizes, startVars,
                 execVars, agent, open, streamVars>>

NoTaskWait == TRUE

TasksWait == exec \in {"none", "exited"}

HandlerReturns ==
  /\ loop = "wait" /\ TasksWait
  /\ loop' = "done"
  /\ UNCHANGED <<connDone, ctxDone, channel, winch, params, resizes, startVars,
                 execVars, agent, open, streamVars>>

-----------------------------------------------------------------------------
(* The task of the session and the backend.                                 *)

\* resolveSession builds the command of a shell or exec from the parameters.
ResolveSession ==
  /\ exec = "started"
  /\ exec' = "resolved" /\ used' = params
  /\ UNCHANGED <<connDone, ctxDone, channel, winch, loopVars, size, exits, agent, open,
                 streamVars>>

\* runSessionOperation: a denied operation is finished and ends the task.
BeginExec ==
  /\ exec = "resolved"
  /\ \/ Begin("exec") /\ exec' = "running"
     \/ Denied("exec") /\ exec' = "finished"
  /\ UNCHANGED <<connDone, ctxDone, channel, winch, loopVars, used, size, exits, agent,
                 streamVars>>

\* The backend returns by itself or because the context ended.
ExecReturns ==
  /\ exec = "running"
  /\ Finish("exec") /\ exec' = "finished"
  /\ UNCHANGED <<connDone, ctxDone, channel, winch, loopVars, used, size, exits, agent,
                 streamVars>>

\* Exit sends the status while the channel is open, closes it and cancels the session.
Exit ==
  /\ exec = "finished"
  /\ exec' = "exited"
  /\ exits' = IF channel = "open" THEN exits + 1 ELSE exits
  /\ channel' = "closed" /\ ctxDone' = TRUE
  /\ UNCHANGED <<connDone, winch, loopVars, used, size, agent, open, streamVars>>

\* windowSizeQueue.Next in the backend: a later size than the initial one.
NextSize ==
  /\ exec = "running" /\ used.pty /\ winch # 0
  /\ size' = winch /\ winch' = 0
  /\ UNCHANGED <<connDone, ctxDone, channel, loopVars, exec, used, exits, agent, open,
                 streamVars>>

\* serveAgentForward ends when the forward is closed, the context ends or Accept fails.
AgentEnds ==
  /\ agent \in {"serving", "closing"}
  /\ agent' = "ended"
  /\ Finish("agent")
  /\ UNCHANGED <<connDone, ctxDone, channel, winch, loopVars, execVars, streamVars>>

\* The AfterFunc of the session closes its channel.
ContextClosesChannel ==
  /\ ctxDone /\ channel = "open"
  /\ channel' = "closed"
  /\ UNCHANGED <<connDone, ctxDone, winch, loopVars, execVars, agent, open, streamVars>>

ClientCloses ==
  /\ channel = "open"
  /\ channel' = "closed"
  /\ UNCHANGED <<connDone, ctxDone, winch, loopVars, execVars, agent, open, streamVars>>

ConnectionDone ==
  /\ ~connDone
  /\ connDone' = TRUE /\ ctxDone' = TRUE
  /\ UNCHANGED <<channel, winch, loopVars, execVars, agent, open, streamVars>>

-----------------------------------------------------------------------------
(* Streams: direct-tcpip channels and connections to the agent socket.      *)

sessionVars == <<connDone, ctxDone, channel, winch, loopVars, execVars, agent>>

StreamDone(s) == IF kind[s] = "agent" THEN ctxDone ELSE connDone

\* Both ends are closed by the returning handler.
Closed(s) == st[s] \in {"returned", "done"}

\* Pod port forwarding for loopback hosts, a dial through the helper otherwise.
PortForward(s) == \E k \in {"dial", "portforward"} : kind' = [kind EXCEPT ![s] = k]

\* handleDirectTCPIP up to the dial.
DirectTCPIP(s) ==
  /\ st[s] = "none"
  /\ \/ Begin(s) /\ st' = [st EXCEPT ![s] = "dialing"]
     \/ Denied(s) /\ st' = [st EXCEPT ![s] = "done"]
  /\ PortForward(s)
  /\ UNCHANGED <<sessionVars, copies, result>>

\* A connection to the agent socket, for which a channel to the client is opened.
AgentStream(s) ==
  /\ st[s] = "none" /\ agent \in {"serving", "closing"}
  /\ kind' = [kind EXCEPT ![s] = "agent"]
  /\ st' = [st EXCEPT ![s] = "dialing"]
  /\ UNCHANGED <<sessionVars, open, copies, result>>

EndOperation(s) == IF kind[s] = "agent" THEN UNCHANGED open ELSE Finish(s)

\* What was opened is closed again and the operation finished.
DialFails(s) == st' = [st EXCEPT ![s] = "done"] /\ EndOperation(s) /\ UNCHANGED copies

Dialed(s) ==
  /\ st[s] = "dialing"
  /\ \/ /\ st' = [st EXCEPT ![s] = "proxy"] /\ copies' = [copies EXCEPT ![s] = Directions]
        /\ UNCHANGED open
     \/ DialFails(s)
  /\ UNCHANGED <<sessionVars, kind, result>>

\* The remote ends by itself, or is made to: see Stopped.
RemoteEnds(s) ==
  /\ st[s] \in {"proxy", "waiting"} /\ ~result[s]
  /\ result' = [result EXCEPT ![s] = TRUE]
  /\ UNCHANGED <<sessionVars, open, st, kind, copies>>


\* A helper dial is stopped by its context. Wait of a Pod port forward resets the data
\* stream, that of a helper dial stops nothing.
Stopped(s) ==
  \/ kind[s] = "dial" /\ StreamDone(s)
  \/ kind[s] = "portforward" /\ st[s] = "waiting"

\* A direction ends when its reader has no more or its writer takes no more.
CopyEnds(s, d) ==
  /\ d \in copies[s]
  /\ copies' = [copies EXCEPT ![s] = @ \ {d}]
  /\ UNCHANGED <<sessionVars, open, st, kind, result>>

-----------------------------------------------------------------------------
(* ioproxy.ProxyWithObserver.                                               *)

FirstCopyDone(s) == copies[s] # Directions

\* Both directions reported to the proxy.
CopiesDone(s) == copies[s] = {}

CopiesReported(s) ==
  /\ st[s] = "proxy" /\ CopiesDone(s)
  /\ st' = [st EXCEPT ![s] = "waiting"]
  /\ UNCHANGED <<sessionVars, open, kind, copies, result>>

\* closeBoth of the returning proxy.
ProxyCloses(s) ==
  /\ st' = [st EXCEPT ![s] = "returned"]
  /\ UNCHANGED <<sessionVars, open, kind, copies, result>>

ContextUnheard(s) == FALSE

\* The select of the proxy may take the context while reports are pending.
ContextHeard(s) == StreamDone(s)

ProxyCancelled(s) == st[s] = "proxy" /\ ContextHeard(s) /\ ProxyCloses(s)

\* Agent streams have no terminal result to wait for.
ProxyWaited(s) == st[s] = "waiting" /\ (result[s] \/ kind[s] = "agent") /\ ProxyCloses(s)

StreamFinishes(s) ==
  /\ st[s] = "returned"
  /\ st' = [st EXCEPT ![s] = "done"]
  /\ EndOperation(s)
  /\ UNCHANGED <<sessionVars, kind, copies, result>>

-----------------------------------------------------------------------------
Requests ==
  \/ EnvRequest \/ PTYRequest \/ WindowChangeRequest \/ AgentForwardRequest \/ StartRequest

Loop ==
  \/ SendWindow \/ LoopEnds \/ AgentClosed \/ HandlerReturns

Task == ResolveSession \/ BeginExec \/ Exit

ProxySteps(s) ==
  \/ CopiesReported(s) \/ ProxyCancelled(s) \/ ProxyWaited(s) \/ StreamFinishes(s)

Next ==
  \/ Requests \/ AgentForwardOpened \/ Loop \/ Task \/ ExecReturns \/ NextSize \/ AgentEnds
  \/ ContextClosesChannel \/ ClientCloses \/ ConnectionDone
  \/ \E s \in Streams :
       \/ DirectTCPIP(s) \/ AgentStream(s) \/ Dialed(s) \/ ProxySteps(s) \/ RemoteEnds(s)
       \/ \E d \in Directions : CopyEnds(s, d)

Spec == Init /\ [][Next]_vars

\* The goroutines of the gateway keep running. The backend returns when the context
\* ends, a dial when the connection does, an accept loop when it is closed too; a copy
\* ends once its stream is closed, and a remote once it is stopped.
Fairness ==
  /\ WF_vars(Loop) /\ WF_vars(Task)
  /\ WF_vars(ctxDone /\ AgentForwardOpened) /\ WF_vars(ctxDone /\ ExecReturns)
  /\ WF_vars((ctxDone \/ agent = "closing") /\ AgentEnds)
  /\ \A s \in Streams :
       /\ WF_vars(connDone /\ Dialed(s))
       /\ WF_vars(ProxySteps(s))
       /\ WF_vars(Stopped(s) /\ RemoteEnds(s))
       /\ \A d \in Directions : WF_vars(Closed(s) /\ CopyEnds(s, d))

FairSpec == Spec /\ Fairness

-----------------------------------------------------------------------------
(* Properties.                                                              *)

\* What the backend gets while the loop goes on serving requests: the command is built from
\* the parameters the client had configured when it was started, and nothing changes them
\* afterwards (serverSession); the window queue holds the latest size only and its one
\* producer never blocks on it (handleWindowChangeRequest), so the latest size is in the
\* queue or with the backend.
BackendSees ==
  /\ started => params = fixed
  /\ exec \notin {"none", "started"} => used = fixed
  /\ loop = "resizes" => winch = 0
  /\ winch # 0 => winch = resizes
  /\ loop # "resizes" /\ resizes # 0 => resizes \in {winch, size}

\* handleRequests returns after the command and the agent's accept loop, with their
\* operations finished, whatever order they and the client end in.
HandlerEndsLast ==
  loop = "done" =>
    /\ exec \in {"none", "exited"} /\ agent \in {"none", "ended"}
    /\ {"exec", "agent"} \cap open = {}

\* Proxy closes a stream that is still being copied in one direction only when its
\* context ended: a half-close lets the peer's remaining data drain.
HalfCloseKept == \A s \in Streams : Closed(s) => copies[s] = {} \/ StreamDone(s)

\* Everything ends: a cancelled session returns with its channel closed; every stream of an
\* ended connection ends, with no copy left behind and its operation finished; and Proxy
\* returns once both directions have ended, unless it waits for the result of a helper
\* dial, whose Wait stops nothing (handleRequests, ProxyWithObserver, handleDirectTCPIP,
\* proxyAgentForwardConnection, portForwardStream.Wait).
SessionAndStreamsEnd ==
  /\ ctxDone ~> loop = "done" /\ channel = "closed"
  /\ \A s \in Streams :
       /\ connDone /\ st[s] # "none" ~> st[s] = "done" /\ copies[s] = {} /\ s \notin open
       /\ st[s] = "proxy" /\ copies[s] = {} /\ kind[s] # "dial" ~> st[s] \in {"returned", "done"}
=============================================================================
