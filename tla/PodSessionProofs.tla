-------------------------- MODULE PodSessionProofs --------------------------
(***************************************************************************)
(* Proofs about PodSession, for any set of proxied streams and any number   *)
(* of requests on the session.                                              *)
(***************************************************************************)
EXTENDS PodSession, TLAPS

\* What the loop has handed to the task, and when it may still change the parameters.
StartInv ==
  /\ started => params = fixed
  /\ loop = "agent" => ~started
  /\ exec # "none" => started
  /\ exec \notin {"none", "started"} => used = fixed
  /\ exits = 1 => exec = "exited"

\* The latest window size is on its way or has arrived.
WindowInv ==
  /\ loop = "resizes" => winch = 0 /\ resizes < MaxResizes
  /\ winch # 0 => winch = resizes
  /\ loop # "resizes" /\ resizes # 0 => resizes \in {winch, size}

\* Whose operations are open, and what the teardown of the loop has waited for.
TeardownInv ==
  /\ "exec" \in open => exec = "running"
  /\ "agent" \in open => agent \in {"serving", "closing"} \/ loop = "agent"
  /\ loop = "agent" => agent = "none"
  /\ loop \in {"wait", "done"} => agent \in {"none", "ended"}
  /\ loop = "done" => exec \in {"none", "exited"}

\* A direction is copied from the dial on until it ends or its stream is closed over it.
CopyInv ==
  /\ connDone => ctxDone
  /\ \A s \in Streams :
       /\ st[s] \in {"none", "dialing", "waiting"} => copies[s] = {}
       /\ Closed(s) => copies[s] = {} \/ StreamDone(s)

IInv == TypeOK /\ StartInv /\ WindowInv /\ TeardownInv /\ CopyInv

-----------------------------------------------------------------------------
\* A new session has nothing.
LEMMA InitIInv == Init => IInv
<1> SUFFICES ASSUME Init PROVE IInv
  OBVIOUS
<1> USE BoundsAssumption DEF Init
<1>1. TypeOK
  <2>1. Unset \in Params
    <3>1. 0 \in 0..MaxEnv /\ FALSE \in BOOLEAN
      OBVIOUS
    <3> QED BY <3>1 DEF Unset, Params
  <2>2. copies \in [Streams -> SUBSET Directions] /\ open \subseteq Ops
    OBVIOUS
  <2>3. result \in [Streams -> BOOLEAN] /\ connDone \in BOOLEAN /\ ctxDone \in BOOLEAN
        /\ started \in BOOLEAN
    BY Zenon
  <2>4. /\ winch \in 0..MaxResizes /\ resizes \in 0..MaxResizes /\ size \in 0..MaxResizes
        /\ exits \in 0..1 /\ asked \in 0..MaxAgents
    OBVIOUS
  <2>5. /\ st \in [Streams -> {"none", "dialing", "proxy", "waiting", "returned", "done"}]
        /\ kind \in [Streams -> {"none", "dial", "portforward", "agent"}]
    OBVIOUS
  <2> QED BY <2>1, <2>2, <2>3, <2>4, <2>5 DEF TypeOK
<1>2. StartInv /\ WindowInv /\ TeardownInv /\ CopyInv
  BY DEF StartInv, WindowInv, TeardownInv, CopyInv, Closed, StreamDone
<1> QED BY <1>1, <1>2 DEF IInv

\* What a step of the session leaves to the streams: contexts are only ever cancelled.
LEMMA CopiesUntouched ==
  ASSUME IInv, UNCHANGED streamVars, ctxDone => ctxDone', connDone => connDone',
         connDone' => ctxDone'
  PROVE  CopyInv'
  BY DEF IInv, CopyInv, streamVars, Closed, StreamDone

\* The session leaves the streams alone, and never revives a context.
LEMMA SessionContexts ==
  ASSUME IInv,
         \/ EnvRequest \/ PTYRequest \/ WindowChangeRequest \/ AgentForwardRequest \/ StartRequest
         \/ AgentForwardOpened \/ SendWindow \/ LoopEnds \/ AgentClosed \/ HandlerReturns
         \/ ResolveSession \/ BeginExec \/ ExecReturns \/ Exit \/ NextSize \/ AgentEnds
         \/ ContextClosesChannel \/ ClientCloses \/ ConnectionDone
  PROVE  /\ UNCHANGED streamVars
         /\ (ctxDone => ctxDone') /\ (connDone => connDone') /\ (connDone' => ctxDone')
<1>1. /\ UNCHANGED streamVars
      /\ connDone' = connDone \/ (connDone' = TRUE /\ ctxDone' = TRUE)
      /\ ctxDone' = ctxDone \/ ctxDone' = TRUE
  <2>1. CASE EnvRequest \/ PTYRequest \/ WindowChangeRequest \/ AgentForwardRequest \/ StartRequest
    BY <2>1, Zenon DEF EnvRequest, PTYRequest, WindowChangeRequest, AgentForwardRequest,
       StartRequest, streamVars
  <2>2. CASE AgentForwardOpened \/ SendWindow \/ LoopEnds \/ AgentClosed \/ HandlerReturns
    BY <2>2, Zenon DEF AgentForwardOpened, SendWindow, LoopEnds, AgentClosed, HandlerReturns,
       streamVars
  <2>3. CASE ResolveSession \/ BeginExec \/ ExecReturns \/ Exit \/ NextSize \/ AgentEnds
    BY <2>3, Zenon DEF ResolveSession, BeginExec, ExecReturns, Exit, Finish, NextSize, AgentEnds,
       streamVars
  <2>4. CASE ContextClosesChannel \/ ClientCloses \/ ConnectionDone
    BY <2>4, Zenon DEF ContextClosesChannel, ClientCloses, ConnectionDone, streamVars
  <2> QED BY <2>1, <2>2, <2>3, <2>4, Zenon
<1>2. connDone \in BOOLEAN /\ ctxDone \in BOOLEAN /\ (connDone => ctxDone)
  BY Zenon DEF IInv, TypeOK, CopyInv
<1> QED BY <1>1, <1>2

\* The request loop, the task, the backend and the contexts.
LEMMA SessionPreserves ==
  ASSUME IInv,
         \/ EnvRequest \/ PTYRequest \/ WindowChangeRequest \/ AgentForwardRequest \/ StartRequest
         \/ AgentForwardOpened \/ SendWindow \/ LoopEnds \/ AgentClosed \/ HandlerReturns
         \/ ResolveSession \/ BeginExec \/ ExecReturns \/ Exit \/ NextSize \/ AgentEnds
         \/ ContextClosesChannel \/ ClientCloses \/ ConnectionDone
  PROVE  IInv'
<1> USE BoundsAssumption, StreamsAssumption
    DEF IInv, TypeOK, StartInv, WindowInv, TeardownInv, startVars, loopVars, execVars,
        Begin, Denied, Finish, Ops
<1>1. CopyInv'
  BY SessionContexts, CopiesUntouched, Zenon
<1>2. CASE EnvRequest
  <2>1. TypeOK'
    <3>1. params' \in Params
      BY <1>2 DEF EnvRequest, Params
    <3> QED BY <1>2, <3>1 DEF EnvRequest, MayConfigure, streamVars
  <2>2. StartInv'
    BY <1>2 DEF EnvRequest, MayConfigure, streamVars
  <2>3. WindowInv'
    BY <1>2 DEF EnvRequest, MayConfigure, streamVars
  <2>4. TeardownInv'
    BY <1>2 DEF EnvRequest, MayConfigure, streamVars
  <2> QED BY <1>1, <2>1, <2>2, <2>3, <2>4
<1>3. CASE PTYRequest
  <2>1. TypeOK'
    <3>1. params' \in Params
      BY <1>3, Zenon DEF PTYRequest, Params
    <3> QED BY <1>3, <3>1 DEF PTYRequest, streamVars
  <2>2. StartInv'
    BY <1>3 DEF PTYRequest, streamVars
  <2>3. WindowInv'
    BY <1>3 DEF PTYRequest, streamVars
  <2>4. TeardownInv'
    BY <1>3 DEF PTYRequest, streamVars
  <2> QED BY <1>1, <2>1, <2>2, <2>3, <2>4
<1>4. CASE WindowChangeRequest
  BY <1>1, <1>4 DEF WindowChangeRequest, DrainWindow, streamVars
<1>5. CASE AgentForwardRequest
  <2>1. TypeOK'
    <3>1. asked' \in 0..MaxAgents
      BY <1>5 DEF AgentForwardRequest
    <3>2. open' \subseteq Ops /\ loop' \in {"serves", "agent"}
      BY <1>5, Zenon DEF AgentForwardRequest
    <3> QED BY <1>5, <3>1, <3>2 DEF AgentForwardRequest, streamVars
  <2>2. StartInv'
    BY <1>5 DEF AgentForwardRequest, streamVars
  <2>3. WindowInv'
    BY <1>5 DEF AgentForwardRequest, streamVars
  <2>4. TeardownInv'
    BY <1>5 DEF AgentForwardRequest, streamVars
  <2> QED BY <1>1, <2>1, <2>2, <2>3, <2>4
<1>6. CASE StartRequest
  <2>1. TypeOK'
    BY <1>6, Zenon DEF StartRequest, streamVars
  <2>2. StartInv'
    BY <1>6 DEF StartRequest, streamVars
  <2>3. WindowInv'
    BY <1>6 DEF StartRequest, streamVars
  <2>4. TeardownInv'
    BY <1>6 DEF StartRequest, streamVars
  <2> QED BY <1>1, <2>1, <2>2, <2>3, <2>4
<1>7. CASE AgentForwardOpened
  <2>1. TypeOK'
    <3>1. params' \in Params
      <4>1. CASE params' = [params EXCEPT !.agent = TRUE]
        BY <4>1, Zenon DEF Params
      <4>2. CASE params' = params
        BY <4>2
      <4> QED BY <1>7, <4>1, <4>2 DEF AgentForwardOpened
    <3> QED BY <1>7, <3>1 DEF AgentForwardOpened, streamVars
  <2>2. StartInv'
    BY <1>7 DEF AgentForwardOpened, streamVars
  <2>3. WindowInv'
    BY <1>7 DEF AgentForwardOpened, streamVars
  <2>4. TeardownInv'
    BY <1>7 DEF AgentForwardOpened, streamVars
  <2> QED BY <1>1, <2>1, <2>2, <2>3, <2>4
<1>8. CASE SendWindow
  <2>1. TypeOK'
    BY <1>8 DEF SendWindow, streamVars
  <2>2. StartInv'
    BY <1>8 DEF SendWindow, streamVars
  <2>3. WindowInv'
    BY <1>8 DEF SendWindow, streamVars
  <2>4. TeardownInv'
    BY <1>8 DEF SendWindow, streamVars
  <2> QED BY <1>1, <2>1, <2>2, <2>3, <2>4
<1>9. CASE LoopEnds
  BY <1>1, <1>9 DEF LoopEnds, streamVars
<1>10. CASE AgentClosed
  BY <1>1, <1>10 DEF AgentClosed, streamVars
<1>11. CASE HandlerReturns
  BY <1>1, <1>11 DEF HandlerReturns, TasksWait, streamVars
<1>12. CASE ResolveSession
  BY <1>1, <1>12 DEF ResolveSession, streamVars
<1>13. CASE BeginExec
  <2>1. TypeOK'
    BY <1>13, Zenon DEF BeginExec, streamVars
  <2>2. StartInv'
    BY <1>13 DEF BeginExec, streamVars
  <2>3. WindowInv'
    BY <1>13 DEF BeginExec, streamVars
  <2>4. TeardownInv'
    BY <1>13 DEF BeginExec, streamVars
  <2> QED BY <1>1, <2>1, <2>2, <2>3, <2>4
<1>14. CASE ExecReturns
  BY <1>1, <1>14 DEF ExecReturns, streamVars
<1>15. CASE Exit
  BY <1>1, <1>15 DEF Exit, streamVars
<1>16. CASE NextSize
  BY <1>1, <1>16 DEF NextSize, streamVars
<1>17. CASE AgentEnds
  BY <1>1, <1>17 DEF AgentEnds, streamVars
<1>18. CASE ContextClosesChannel
  BY <1>1, <1>18 DEF ContextClosesChannel, streamVars
<1>19. CASE ClientCloses
  BY <1>1, <1>19 DEF ClientCloses, streamVars
<1>20. CASE ConnectionDone
  BY <1>1, <1>20 DEF ConnectionDone, streamVars
<1> QED BY <1>2, <1>3, <1>4, <1>5, <1>6, <1>7, <1>8, <1>9, <1>10, <1>11, <1>12, <1>13, <1>14, <1>15, <1>16, <1>17, <1>18, <1>19, <1>20, Zenon

\* The handler of a stream, its copies and the proxy: the session is left alone, and of the
\* operations only the stream's own is begun or finished.
LEMMA StreamPreserves ==
  ASSUME IInv, NEW s \in Streams,
         \/ DirectTCPIP(s) \/ AgentStream(s) \/ Dialed(s) \/ ProxySteps(s) \/ RemoteEnds(s)
         \/ \E d \in Directions : CopyEnds(s, d)
  PROVE  IInv'
<1> USE DEF Begin, Denied, Finish, EndOperation, DialFails
<1>1. /\ UNCHANGED sessionVars
      /\ open' \in {open, open \cup {s}, open \ {s}}
  BY DEF sessionVars, DirectTCPIP, AgentStream, Dialed, ProxySteps, RemoteEnds, CopyEnds,
         CopiesReported, ProxyCancelled, ProxyWaited, ProxyCloses, StreamFinishes
<1>2. /\ st \in [Streams -> {"none", "dialing", "proxy", "waiting", "returned", "done"}]
      /\ kind \in [Streams -> {"none", "dial", "portforward", "agent"}]
      /\ copies \in [Streams -> SUBSET Directions]
      /\ result \in [Streams -> BOOLEAN]
      /\ CopyInv
  BY DEF IInv, TypeOK
<1>3. SUFFICES
        /\ st' \in [Streams -> {"none", "dialing", "proxy", "waiting", "returned", "done"}]
        /\ kind' \in [Streams -> {"none", "dial", "portforward", "agent"}]
        /\ copies' \in [Streams -> SUBSET Directions]
        /\ result' \in [Streams -> BOOLEAN]
        /\ CopyInv'
  <2>1. UNCHANGED <<connDone, ctxDone, channel, winch, loop, params, resizes, started, fixed,
                    asked, exec, used, size, exits, agent>>
    BY <1>1 DEF sessionVars, loopVars, startVars, execVars
  <2>2. /\ open' \subseteq Ops
        /\ "exec" \in open' <=> "exec" \in open
        /\ "agent" \in open' <=> "agent" \in open
    BY <1>1, StreamsAssumption DEF IInv, TypeOK, Ops
  <2>3. StartInv' /\ WindowInv' /\ TeardownInv'
    BY <2>1, <2>2 DEF IInv, StartInv, WindowInv, TeardownInv
  <2> QED BY <1>3, <2>1, <2>2, <2>3 DEF IInv, TypeOK
<1>4. connDone' = connDone /\ ctxDone' = ctxDone
  BY <1>1 DEF sessionVars
<1> USE DEF CopyInv, Closed, StreamDone
<1>5. CASE DirectTCPIP(s)
  BY <1>2, <1>4, <1>5 DEF DirectTCPIP, PortForward
<1>6. CASE AgentStream(s)
  BY <1>2, <1>4, <1>6 DEF AgentStream
<1>7. CASE Dialed(s)
  BY <1>2, <1>4, <1>7 DEF Dialed
<1>8. CASE RemoteEnds(s)
  BY <1>2, <1>4, <1>8 DEF RemoteEnds
<1>9. ASSUME NEW d \in Directions, CopyEnds(s, d)
      PROVE  /\ copies' \in [Streams -> SUBSET Directions] /\ CopyInv'
             /\ UNCHANGED <<st, kind, result>>
  BY <1>2, <1>4, <1>9 DEF CopyEnds
<1>10. CASE CopiesReported(s)
  BY <1>2, <1>4, <1>10 DEF CopiesReported, CopiesDone
<1>11. CASE ProxyCancelled(s)
  BY <1>2, <1>4, <1>11 DEF ProxyCancelled, ContextHeard, ProxyCloses
<1>12. CASE ProxyWaited(s)
  BY <1>2, <1>4, <1>12 DEF ProxyWaited, ProxyCloses
<1>13. CASE StreamFinishes(s)
  BY <1>2, <1>4, <1>13 DEF StreamFinishes
<1> QED BY <1>2, <1>5, <1>6, <1>7, <1>8, <1>9, <1>10, <1>11, <1>12, <1>13 DEF ProxySteps

-----------------------------------------------------------------------------
\* The invariant holds in every reachable state.
THEOREM InductiveInvariant == Spec => []IInv
<1>1. IInv /\ [Next]_vars => IInv'
  <2> SUFFICES ASSUME IInv, [Next]_vars PROVE IInv'
    OBVIOUS
  <2>1. CASE UNCHANGED vars
    BY <2>1
    DEF vars, loopVars, startVars, execVars, streamVars, IInv, TypeOK, StartInv, WindowInv,
        TeardownInv, CopyInv, Closed, StreamDone
  <2>2. CASE Next
    BY <2>2, SessionPreserves, StreamPreserves DEF Next, Requests, Loop, Task
  <2> QED BY <2>1, <2>2
<1> QED BY <1>1, InitIInv, PTL DEF Spec

\* Every variable keeps its type; one exit status at most is sent (Exit of sessionChannel).
THEOREM TypeCorrect == Spec => []TypeOK
<1>1. IInv => TypeOK
  BY DEF IInv
<1> QED BY <1>1, InductiveInvariant, PTL

\* The backend runs what was configured when the command was started, and gets the latest
\* window size, however many requests the client sends in between.
THEOREM BackendSeesConfigured == Spec => []BackendSees
<1>1. IInv => BackendSees
  BY DEF IInv, StartInv, WindowInv, BackendSees
<1> QED BY <1>1, InductiveInvariant, PTL

\* handleRequests returns last, with the operations of the command and the agent finished.
THEOREM HandlerIsLast == Spec => []HandlerEndsLast
<1>1. IInv => HandlerEndsLast
  BY DEF IInv, TeardownInv, HandlerEndsLast
<1> QED BY <1>1, InductiveInvariant, PTL

\* ioproxy closes over a direction that is still being copied only when the context ended.
THEOREM HalfCloseDrains == Spec => []HalfCloseKept
<1>1. IInv => HalfCloseKept
  BY DEF IInv, CopyInv, HalfCloseKept
<1> QED BY <1>1, InductiveInvariant, PTL
=============================================================================
