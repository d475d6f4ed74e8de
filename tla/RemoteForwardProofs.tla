------------------------- MODULE RemoteForwardProofs -------------------------
(***************************************************************************)
(* Proofs about RemoteForward, for any number of forwards and addresses.    *)
(* The goroutine that handles requests, the one that serves a forward and   *)
(* the owner that closes the protocol hand a forward on to each other; the  *)
(* inductive invariant says at every point in whose hands it is.            *)
(***************************************************************************)
EXTENDS RemoteForward, TLAPS

\* What the request handler knows about the forward in its hands.
HandlerInv ==
  /\ handler.pc = "idle" => handler.f = None
  /\ handler.pc # "idle" => handler.f \in Forwards
  /\ handler.pc = "listen" => session[handler.f] = "none"
  /\ handler.pc = "add" => session[handler.f] # "none" /\ bind[handler.f] \in Binds
  /\ handler.pc \in {"listen", "add"} =>
       /\ op[handler.f] = "started" /\ serve[handler.f] = "none"
       /\ reply[handler.f] = "none" /\ handler.f \notin canceled
  /\ handler.pc \in {"cancel", "stop"} => handler.f \in canceled

\* How the operation, the serving goroutine and the helper session of a forward move
\* together.
ForwardInv ==
  \A f \in Forwards :
    /\ op[f] = "none" => session[f] = "none" /\ serve[f] = "none" /\ reply[f] = "none"
    /\ serve[f] \in {"accepting", "exiting", "closing"} => op[f] = "started"
    /\ serve[f] = "none" => f \notin canceled
    /\ serve[f] # "none" => session[f] # "none" /\ bind[f] \in Binds /\ reply[f] = "success"

\* A forward whose session is alive is in somebody's hands, and a closed table is empty;
\* closing is filled once, by the close.
OwnedInv ==
  /\ IF closed THEN \A b \in Binds : table[b] = None ELSE closing = {}
  /\ \A f \in Forwards : session[f] = "alive" =>
       \/ handler.f = f \/ f \in canceled \/ f \in closing
       \/ \E b \in Binds : table[b] = f
       \/ \E g \in Forwards : serve[g] = "closing" /\ current[g] = f

\* A cancelled forward that the handler has let go of is stopped, and a refused one holds
\* no session.
StoppedInv ==
  /\ \A f \in canceled : handler.f # f => f \notin listening \/ session[f] = "closed"
  /\ \A f \in Forwards : reply[f] = "failure" => session[f] # "alive"
  /\ \A f \in closing \cup exec : session[f] # "none"
  /\ \A g \in Forwards : current[g] # None => session[current[g]] # "none"

IInv == TypeOK /\ HandlerInv /\ ForwardInv /\ RegisteredIsServed /\ OwnedInv /\ StoppedInv

-----------------------------------------------------------------------------
\* A new connection has no forward in anybody's hands.
LEMMA InitIInv == Init => IInv
<1> SUFFICES ASSUME Init PROVE IInv
  OBVIOUS
<1> USE NoneAssumption DEF Init, Idle
<1>1. TypeOK
  BY Zenon DEF TypeOK
<1>2. HandlerInv /\ ForwardInv
  BY DEF HandlerInv, ForwardInv
<1>3. RegisteredIsServed /\ OwnedInv /\ StoppedInv
  BY DEF RegisteredIsServed, OwnedInv, StoppedInv
<1> QED BY <1>1, <1>2, <1>3 DEF IInv

\* A step of the handler: tcpip-forward, and the second half of cancel-tcpip-forward.
LEMMA HandlerPreserves ==
  ASSUME IInv, NEW f \in Forwards, TCPIPForward(f) \/ HandlerStep(f)
  PROVE  IInv'
<1> USE NoneAssumption DEF Idle, IInv, TypeOK, HandlerInv, ForwardInv, RegisteredIsServed,
        OwnedInv, StoppedInv, handlerVars, helperVars, serveVars, stateVars
<1>1. CASE TCPIPForward(f)
  BY <1>1 DEF TCPIPForward
<1>2. CASE ListenFails(f)
  BY <1>2 DEF ListenFails, Finish
<1>3. CASE \E b \in Binds : Listens(f, b)
  BY <1>3 DEF Listens
<1>4. CASE AddForward(f)
  BY <1>4, SMTT(30) DEF AddForward, MayAdd, SessionClose, Finish
<1>5. CASE CancelLocal(f)
  BY <1>5 DEF CancelLocal
<1>6. CASE StopListener(f)
  BY <1>6 DEF StopListener, StopCall, SessionClose
<1> QED BY <1>1, <1>2, <1>3, <1>4, <1>5, <1>6, Zenon DEF HandlerStep

\* cancel-tcpip-forward takes a forward out of the table.
LEMMA CancelPreserves ==
  ASSUME IInv, NEW b \in Binds, CancelTCPIPForward(b)
  PROVE  IInv'
<1> USE NoneAssumption DEF Idle, IInv, TypeOK, HandlerInv, ForwardInv, RegisteredIsServed,
        OwnedInv, StoppedInv, handlerVars, helperVars, serveVars, stateVars
<1> QED BY DEF CancelTCPIPForward

\* A step of the goroutine that serves a forward.
LEMMA ServePreserves ==
  ASSUME IInv, NEW f \in Forwards, ServeStep(f)
  PROVE  IInv'
<1> USE NoneAssumption DEF Idle, IInv, TypeOK, HandlerInv, ForwardInv, RegisteredIsServed,
        OwnedInv, StoppedInv, handlerVars, helperVars, serveVars, stateVars
<1>1. CASE AcceptFails(f)
  BY <1>1 DEF AcceptFails
<1>2. CASE Cleanup(f)
  BY <1>2 DEF Cleanup, RemoveForward
<1>3. CASE ServeEnds(f)
  BY <1>3 DEF ServeEnds, SessionClose, Finish
<1> QED BY <1>1, <1>2, <1>3 DEF ServeStep

\* A step of the connection's owner.
LEMMA OwnerPreserves ==
  ASSUME IInv, CancelContext \/ OwnerStep
  PROVE  IInv'
<1> USE NoneAssumption DEF Idle, IInv, TypeOK, HandlerInv, ForwardInv, RegisteredIsServed,
        OwnedInv, StoppedInv, handlerVars, helperVars, serveVars, stateVars
<1>1. CASE CancelContext
  BY <1>1 DEF CancelContext
<1>2. CASE CloseState
  BY <1>2 DEF CloseState
<1>3. ASSUME NEW f \in Forwards, CloseForward(f) PROVE IInv'
  BY <1>3 DEF CloseForward, CloseOnly, SessionClose
<1> QED BY <1>1, <1>2, <1>3 DEF OwnerStep

\* A step of a helper.
LEMMA HelperPreserves ==
  ASSUME IInv, NEW f \in Forwards, HelperFails(f) \/ ExecReturns(f)
  PROVE  IInv'
<1> USE NoneAssumption DEF Idle, IInv, TypeOK, HandlerInv, ForwardInv, RegisteredIsServed,
        OwnedInv, StoppedInv, handlerVars, helperVars, serveVars, stateVars
<1>1. CASE HelperFails(f)
  BY <1>1 DEF HelperFails, SessionClose
<1>2. CASE ExecReturns(f)
  BY <1>2 DEF ExecReturns, HelperExits, SessionClose
<1> QED BY <1>1, <1>2

\* In whose hands every forward is, at every point of the protocol.
THEOREM InductiveInvariant == Spec => []IInv
<1>1. Init => IInv
  BY InitIInv
<1>2. IInv /\ [Next]_vars => IInv'
  <2> SUFFICES ASSUME IInv, [Next]_vars PROVE IInv'
    OBVIOUS
  <2>1. CASE UNCHANGED vars
    BY <2>1 DEF IInv, TypeOK, HandlerInv, ForwardInv, RegisteredIsServed, OwnedInv,
       StoppedInv, vars, handlerVars, helperVars, serveVars, stateVars
  <2> QED BY <2>1, HandlerPreserves, CancelPreserves, ServePreserves, OwnerPreserves,
             HelperPreserves DEF Next
<1> QED BY <1>1, <1>2, PTL DEF Spec

\* Type correctness, which includes that no operation is finished twice.
THEOREM TypeCorrect == Spec => []TypeOK
  BY InductiveInvariant, PTL DEF IInv

\* No dead forward keeps its key: what is registered has a goroutine that will remove it.
THEOREM TableIsServed == Spec => []RegisteredIsServed
  BY InductiveInvariant, PTL DEF IInv

\* A refused, cancelled or closed forward holds no session and no listener that nobody is
\* about to release, even when it was being started while the protocol was closed.
THEOREM CloseReleases == Spec => []ClosedHoldsNothing
<1>1. IInv => ClosedHoldsNothing
  BY NoneAssumption
  DEF IInv, TypeOK, OwnedInv, StoppedInv, ClosedHoldsNothing
<1> QED BY <1>1, InductiveInvariant, PTL

-----------------------------------------------------------------------------
\* One step of the protocol is one step of the operation lifecycle, or leaves it alone.
LEMMA StepSimulation ==
  ASSUME IInv, [Next]_vars
  PROVE  [Lifecycle!Next]_(Lifecycle!vars)
<1> USE DEF IInv, TypeOK, HandlerInv, ForwardInv, Lifecycle!Next, Lifecycle!vars,
        Lifecycle!Begin, Lifecycle!Finish, Lifecycle!Deny, Lifecycle!GoDown,
        handlerVars, helperVars, serveVars, stateVars
<1>1. ASSUME NEW f \in Forwards, TCPIPForward(f)
      PROVE  Lifecycle!Begin(f) \/ Lifecycle!Deny(f)
  BY <1>1 DEF TCPIPForward
<1>2. ASSUME NEW f \in Forwards, HandlerStep(f) \/ ServeStep(f)
      PROVE  Lifecycle!Finish(f) \/ UNCHANGED Lifecycle!vars
  BY <1>2, SMTT(30) DEF HandlerStep, ListenFails, Listens, AddForward, CancelLocal, StopListener,
              ServeStep, AcceptFails, Cleanup, ServeEnds, Finish
<1>3. CASE \E b \in Binds : CancelTCPIPForward(b)
  BY <1>3 DEF CancelTCPIPForward
<1>4. CASE CancelContext
  BY <1>4, Zenon DEF CancelContext
<1>5. CASE OwnerStep
  BY <1>5 DEF OwnerStep, CloseState, CloseForward, CloseOnly
<1>6. CASE \E f \in Forwards : HelperFails(f) \/ ExecReturns(f)
  BY <1>6 DEF HelperFails, ExecReturns
<1>7. CASE UNCHANGED vars
  BY <1>7 DEF vars
<1> QED BY <1>1, <1>2, <1>3, <1>4, <1>5, <1>6, <1>7, Zenon DEF Next

\* The protocol implements the safety part of the operation lifecycle: an operation starts
\* before it ends and ends once, and the connection goes down once.
THEOREM LifecycleRefined == Spec => Lifecycle!Safety
<1>1. Init => Lifecycle!Init
  BY DEF Init, Lifecycle!Init
<1>2. IInv /\ [Next]_vars => [Lifecycle!Next]_(Lifecycle!vars)
  BY StepSimulation
<1> QED BY <1>1, <1>2, InductiveInvariant, PTL DEF Spec, Lifecycle!Safety
=============================================================================
