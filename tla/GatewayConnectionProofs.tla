---------------------- MODULE GatewayConnectionProofs ----------------------
(***************************************************************************)
(* Proofs about GatewayConnection, for any finite number of connections and *)
(* operations and any number of authentication attempts.                    *)
(***************************************************************************)
EXTENDS GatewayConnection, FiniteSetTheorems, SequenceTheorems, TLAPS

Active == {"authorize", "running"}
OpenConns == {c \in Conns : c \in established /\ phase[c] # "ended"}
ActiveOps == {o \in Ops : op[o].pc \in Active}
ActiveOf(c) == {o \in Ops : op[o].conn = c /\ op[o].pc \in Active}

PositionsIn(s, event) == {i \in 1..Len(s) : s[i].event = event}
CountIn(s, event) == Cardinality(PositionsIn(s, event))

\* How far a connection has come.
PhaseInv ==
  \A c \in Conns :
    /\ phase[c] = "none" => log[c] = <<>>
    /\ c \in published => phase[c] # "none"
    /\ c \in established => c \in published /\ phase[c] \notin {"none", "handshake"}
    /\ phase[c] = "serving" => c \in established
    /\ attempt[c] # "none" => phase[c] = "handshake"
    /\ phase[c] \in {"waiting", "ended"} /\ c \in published => c \in protoClosed
    /\ gateway = "stopped" => phase[c] \in {"none", "ended"}

\* An attempt has its event by the time AuthLogCallback has run.
AttemptInv ==
  \A c \in Conns :
    /\ attempt[c] # "none" /\ c \in published => c \in reported
    /\ attempt[c] # "none" => attempts[c] > 0
    /\ CountIn(log[c], "authentication.result") =
         IF attempt[c] # "none" /\ c \notin reported THEN attempts[c] - 1 ELSE attempts[c]

\* The end of a log to which connection.ready may be added.
Verified(s) ==
  /\ Len(s) >= 2
  /\ s[Len(s)] = Event("target_resolution.result", "success")
  /\ s[Len(s) - 1] = Event("authentication.result", "success")

\* Every connection.ready in a log was added to such an end.
ReadyVerified(s) ==
  \A i \in PositionsIn(s, "connection.ready") :
    /\ i > 2
    /\ s[i - 1] = Event("target_resolution.result", "success")
    /\ s[i - 2] = Event("authentication.result", "success")

ReadyInv ==
  \A c \in Conns :
    /\ phase[c] = "handshake" /\ c \in published => Verified(log[c])
    /\ ReadyVerified(log[c])

\* An operation belongs to an established connection, whose owner waits for its handler.
OpInv ==
  \A o \in Ops :
    /\ op[o].pc # "none" => op[o].conn \in established
    /\ op[o].pc \in InHandler(op[o].serving) =>
         phase[op[o].conn] \in {"serving", "closing", "waiting"}

\* The gauges and the log agree on what is open.
GaugeInv ==
  /\ openConns = Cardinality(OpenConns)
  /\ openOps = Cardinality(ActiveOps)
  /\ \A c \in Conns :
       CountIn(log[c], "operation.start") - CountIn(log[c], "operation.end")
         = Cardinality(ActiveOf(c))

IInv == TypeOK /\ PhaseInv /\ AttemptInv /\ ReadyInv /\ OpInv /\ GaugeInv

-----------------------------------------------------------------------------
(* Logs that grow                                                           *)

\* A log with one more event.
Grown(s, t, e) == s \in Seq(Entry) /\ e \in Entry /\ t = s \o <<e>>

\* It is what it was, and the event.
LEMMA GrownLog ==
  ASSUME NEW s, NEW t, NEW e, Grown(s, t, e)
  PROVE  /\ t \in Seq(Entry) /\ Len(s) \in Nat /\ Len(t) = Len(s) + 1 /\ t[Len(t)] = e
         /\ \A i \in 1..Len(s) : t[i] = s[i]
<1>1. s \in Seq(Entry) /\ <<e>> \in Seq(Entry) /\ t = s \o <<e>> /\ Len(<<e>>) = 1
  BY DEF Grown
<1>2. Len(s) \in Nat
  BY <1>1, LenProperties, Zenon
<1>3. /\ t \in Seq(Entry) /\ Len(t) = Len(s) + 1
      /\ \A i \in 1 .. Len(s) + 1 : t[i] = IF i <= Len(s) THEN s[i] ELSE <<e>>[i - Len(s)]
  BY <1>1, ConcatProperties, Zenon
<1> QED BY <1>2, <1>3

\* Counts of events are numbers.
LEMMA CountIsNat ==
  ASSUME NEW s \in Seq(Entry), NEW event
  PROVE  IsFiniteSet(PositionsIn(s, event)) /\ CountIn(s, event) \in Nat
<1>1. Len(s) \in Nat
  BY LenProperties, Zenon
<1>2. IsFiniteSet(1..Len(s))
  BY <1>1, FS_Interval
<1>3. IsFiniteSet(PositionsIn(s, event))
  BY <1>2, FS_Subset, Zenon DEF PositionsIn
<1> QED BY <1>3, FS_CardinalityType, Zenon DEF CountIn

\* An event is counted under its name.
LEMMA GrownCount ==
  ASSUME NEW s, NEW t, NEW e, Grown(s, t, e), NEW event
  PROVE  /\ CountIn(s, event) \in Nat
         /\ CountIn(t, event) = IF e.event = event THEN CountIn(s, event) + 1
                                ELSE CountIn(s, event)
<1>1. /\ t \in Seq(Entry) /\ Len(s) \in Nat /\ Len(t) = Len(s) + 1 /\ t[Len(t)] = e
      /\ \A i \in 1..Len(s) : t[i] = s[i]
  BY GrownLog
<1>2. IsFiniteSet(PositionsIn(s, event)) /\ CountIn(s, event) \in Nat
  BY CountIsNat, Zenon DEF Grown
<1>3. CASE e.event = event
  <2>1. PositionsIn(t, event) = PositionsIn(s, event) \cup {Len(t)}
    BY <1>1, <1>3 DEF PositionsIn
  <2>2. Len(t) \notin PositionsIn(s, event)
    BY <1>1 DEF PositionsIn
  <2> QED BY <1>2, <1>3, <2>1, <2>2, FS_AddElement, ZenonT(60) DEF CountIn
<1>4. CASE e.event # event
  <2>1. PositionsIn(t, event) = PositionsIn(s, event)
    BY <1>1, <1>4 DEF PositionsIn
  <2> QED BY <1>2, <1>4, <2>1, Zenon DEF CountIn
<1> QED BY <1>2, <1>3, <1>4, Zenon

\* connection.ready is added to a verified end only.
LEMMA GrownReady ==
  ASSUME NEW s, NEW t, NEW e, Grown(s, t, e), ReadyVerified(s),
         e.event = "connection.ready" => Verified(s)
  PROVE  ReadyVerified(t)
<1>1. /\ t \in Seq(Entry) /\ Len(s) \in Nat /\ Len(t) = Len(s) + 1 /\ t[Len(t)] = e
      /\ \A i \in 1..Len(s) : t[i] = s[i]
  BY GrownLog
<1> SUFFICES ASSUME NEW i \in PositionsIn(t, "connection.ready")
             PROVE  /\ i > 2
                    /\ t[i - 1] = Event("target_resolution.result", "success")
                    /\ t[i - 2] = Event("authentication.result", "success")
  BY Zenon DEF ReadyVerified
<1>2. CASE i = Len(t)
  BY <1>1, <1>2 DEF Verified, PositionsIn
<1>3. CASE i # Len(t)
  <2>1. i \in 1..Len(s) /\ i \in PositionsIn(s, "connection.ready")
    BY <1>1, <1>3 DEF PositionsIn
  <2>2. /\ i > 2 /\ s[i - 1] = Event("target_resolution.result", "success")
        /\ s[i - 2] = Event("authentication.result", "success")
    BY <2>1, Zenon DEF ReadyVerified
  <2>3. i - 1 \in 1..Len(s) /\ i - 2 \in 1..Len(s)
    BY <1>1, <2>1, <2>2
  <2> QED BY <1>1, <2>2, <2>3, Zenon
<1> QED BY <1>2, <1>3, Zenon

\* A gauge counts a part of what there is.
LEMMA PartBound ==
  ASSUME NEW T, IsFiniteSet(T), NEW S \in SUBSET T
  PROVE  IsFiniteSet(S) /\ Cardinality(S) \in 0..Cardinality(T)
  BY FS_Subset, FS_CardinalityType

OneMoreOpen(starts, ends, open) == (starts + 1) - ends = open + 1

\* One more started operation, one more open one.
LEMMA OneMore ==
  ASSUME NEW starts \in Nat, NEW ends \in Nat, NEW open, starts - ends = open
  PROVE  OneMoreOpen(starts, ends, open)
  BY DEF OneMoreOpen

\* A handler that runs is starting, asks the authorizer or serves its operation.
LEMMA HandlerStates ==
  /\ \A s : InHandler(s) \subseteq {"handler", "authorize", "running"}
  /\ \A s : s \notin {"detached", "adapter"} =>
             InHandler(s) = {"handler", "authorize", "running"}
  BY DEF InHandler

-----------------------------------------------------------------------------
(* The steps                                                                *)

\* Nothing is open when the gateway starts.
LEMMA InitIInv == Init => IInv
<1> SUFFICES ASSUME Init PROVE IInv
  BY Zenon
<1> USE DEF Init, NoOp
<1>1. \A event : \A c \in Conns : CountIn(log[c], event) = 0
  <2>1. \A event : PositionsIn(<<>>, event) = {}
    BY DEF PositionsIn
  <2> QED BY <2>1, FS_EmptySet, Zenon DEF CountIn
<1>2. OpenConns = {} /\ ActiveOps = {} /\ \A c \in Conns : ActiveOf(c) = {}
  BY Zenon DEF OpenConns, ActiveOps, ActiveOf, Active
<1>3. GaugeInv
  <2>1. Cardinality({}) = 0
    BY FS_EmptySet, Zenon
  <2>2. \A c \in Conns : CountIn(log[c], "operation.start") = 0
                         /\ CountIn(log[c], "operation.end") = 0
    BY <1>1, Zenon
  <2>3. openConns = 0 /\ openOps = 0
    BY Zenon
  <2> HIDE DEF Init
  <2> QED BY <1>2, <2>1, <2>2, <2>3 DEF GaugeInv
<1>4. TypeOK
  <2>1. op \in [Ops -> [pc : {"none", "handler", "authorize", "running", "ended"},
                        conn : Conns \cup {None}, serving : Serving \cup {"none"}]]
    BY Zenon
  <2>2. 0 \in 0..Cardinality(Conns) /\ 0 \in 0..Cardinality(Ops) /\ 0 \in 0..MaxAttempts
    BY FiniteAssumption, FS_CardinalityType, MaxAttemptsAssumption
  <2>3. log \in [Conns -> Seq(Entry)]
    OBVIOUS
  <2> QED BY <2>1, <2>2, <2>3, Zenon DEF TypeOK
<1>5. PhaseInv /\ OpInv
  BY HandlerStates, Zenon DEF PhaseInv, OpInv
<1>6. AttemptInv
  BY <1>1, Zenon DEF AttemptInv
<1>7. ReadyInv
  BY DEF ReadyInv, ReadyVerified, PositionsIn
<1> QED BY <1>3, <1>4, <1>5, <1>6, <1>7, Zenon DEF IInv

\* Where an owner goroutine may go without an event: towards the end of its connection.
Leaves(c) ==
  \/ phase'[c] = phase[c]
  \/ /\ phase[c] \in {"handshake", "serving", "closing"} /\ attempt[c] = "none"
     /\ phase'[c] \in {"closing", "waiting"}

\* Steps without an event that touch no operation.
LEMMA QuietPreserves ==
  ASSUME IInv,
         \/ Shutdown \/ Stop
         \/ \E c \in Conns : NoClientAuth(c) \/ Disconnect(c) \/ Close(c) \/ CanceledEnds(c)
  PROVE  IInv'
<1>1. /\ UNCHANGED <<log, op, established, published, attempt, attempts, reported, openConns,
                     openOps>>
      /\ gateway' = "stopped" => gateway = "stopped" \/ ConnectionsDone
      /\ gateway' \in {"running", "stopping", "stopped"}
  BY Zenon DEF IInv, TypeOK, Shutdown, Stop, NoClientAuth, Disconnect, Close, CanceledEnds, authVars
<1>2. offered' \in [Conns -> SUBSET Methods]
  <2>1. CASE UNCHANGED offered
    BY <2>1, Zenon DEF IInv, TypeOK
  <2>2. ASSUME NEW c \in Conns, NoClientAuth(c)
        PROVE  offered' \in [Conns -> SUBSET Methods]
    <3>1. PICK methods \in SUBSET Methods : offered' = [offered EXCEPT ![c] = methods]
      BY <2>2, Zenon DEF NoClientAuth
    <3> QED BY <3>1, Zenon DEF IInv, TypeOK
  <2> QED BY <2>1, <2>2, Zenon DEF Shutdown, Stop, Disconnect, Close, CanceledEnds, authVars
<1>3. canceled' \subseteq Conns /\ protoClosed' \subseteq Conns
  BY Zenon DEF IInv, TypeOK, Shutdown, Stop, NoClientAuth, Disconnect, Close, CanceledEnds, authVars
<1>4. phase' \in [Conns -> {"none", "handshake", "serving", "closing", "waiting", "ended"}]
      /\ \A c \in Conns : Leaves(c)
  <2>1. CASE UNCHANGED phase
    BY <2>1, Zenon DEF IInv, TypeOK, Leaves
  <2>2. ASSUME NEW c \in Conns, Disconnect(c) \/ Close(c) \/ CanceledEnds(c)
        PROVE  phase' \in [Conns -> {"none", "handshake", "serving", "closing", "waiting", "ended"}]
               /\ \A d \in Conns : Leaves(d)
    BY <2>2, ZenonT(60) DEF IInv, TypeOK, PhaseInv, Disconnect, Close, CanceledEnds, Leaves
  <2> QED BY <2>1, <2>2, Zenon DEF Shutdown, Stop, NoClientAuth
<1>5. GaugeInv'
  <2>1. OpenConns' = OpenConns
    BY <1>1, <1>4, Zenon DEF OpenConns, Leaves
  <2>2. ActiveOps' = ActiveOps /\ \A c \in Conns : ActiveOf(c)' = ActiveOf(c)
    BY <1>1, Zenon DEF ActiveOps, ActiveOf
  <2> QED BY <1>1, <2>1, <2>2, Zenon DEF IInv, GaugeInv
<1>6. PhaseInv'
  <2>1. protoClosed \subseteq protoClosed'
    BY Zenon DEF Shutdown, Stop, NoClientAuth, Disconnect, Close, CanceledEnds, authVars
  <2>2. \A c \in Conns : phase'[c] \in {"waiting", "ended"} /\ c \in published => c \in protoClosed'
    <3>1. CASE UNCHANGED phase
      BY <2>1, <3>1, Zenon DEF IInv, PhaseInv
    <3>2. ASSUME NEW c \in Conns, Disconnect(c) \/ CanceledEnds(c)
          PROVE  \A d \in Conns : phase'[d] \in {"waiting", "ended"} /\ d \in published
                                 => d \in protoClosed'
      <4>1. phase' = [phase EXCEPT ![c] = "closing"]
        BY <3>2, Zenon DEF Disconnect, CanceledEnds
      <4> QED BY <2>1, <4>1, Zenon DEF IInv, TypeOK, PhaseInv
    <3>3. ASSUME NEW c \in Conns, Close(c)
          PROVE  \A d \in Conns : phase'[d] \in {"waiting", "ended"} /\ d \in published
                                 => d \in protoClosed'
      <4>1. /\ phase' = [phase EXCEPT ![c] = "waiting"]
            /\ c \in published => c \in protoClosed'
        BY <3>3, Zenon DEF Close, ClosesAdapterFirst
      <4> QED BY <2>1, <4>1, Zenon DEF IInv, TypeOK, PhaseInv
    <3> QED BY <3>1, <3>2, <3>3, Zenon DEF Shutdown, Stop, NoClientAuth
  <2> QED BY <1>1, <1>4, <2>2, Zenon DEF IInv, PhaseInv, Leaves, ConnectionsDone
<1>7. AttemptInv'
  BY <1>1, Zenon DEF IInv, AttemptInv
<1>8. ReadyInv'
  BY <1>1, <1>4, Zenon DEF IInv, ReadyInv, Leaves
<1>9. OpInv'
  <2>1. \A o \in Ops : op[o].pc # "none" => op[o].conn \in Conns
    BY Zenon DEF IInv, TypeOK, OpInv
  <2>2. \A o \in Ops : op[o].pc \in InHandler(op[o].serving) => op[o].pc # "none"
    BY HandlerStates, Zenon
  <2> QED BY <1>1, <1>4, <2>1, <2>2, Zenon DEF IInv, OpInv, Leaves
<1>10. TypeOK'
  BY <1>1, <1>2, <1>4, <1>3, Zenon DEF IInv, TypeOK
<1> QED BY <1>5, <1>6, <1>7, <1>8, <1>9, <1>10, Zenon DEF IInv

\* What recording one event does to the logs.
LEMMA Recorded ==
  ASSUME IInv, NEW c \in Conns, NEW event \in EventTypes, NEW result \in Results,
         Record(c, event, result), event = "connection.ready" => Verified(log[c])
  PROVE  /\ log' \in [Conns -> Seq(Entry)]
         /\ \A d \in Conns \ {c} : log'[d] = log[d]
         /\ \A x : /\ CountIn(log[c], x) \in Nat
                   /\ CountIn(log'[c], x) = IF event = x THEN CountIn(log[c], x) + 1
                                            ELSE CountIn(log[c], x)
         /\ \A d \in Conns : ReadyVerified(log'[d])
<1> DEFINE e == Event(event, result)
<1>1. e \in Entry /\ e.event = event
  BY Zenon DEF Entry, Event
<1>2. log \in [Conns -> Seq(Entry)] /\ log' = [log EXCEPT ![c] = @ \o <<e>>]
  BY Zenon DEF IInv, TypeOK, Record, RecordAll
<1> HIDE DEF e
<1>3. log'[c] = log[c] \o <<e>> /\ \A d \in Conns \ {c} : log'[d] = log[d]
  BY <1>2, Zenon
<1>4. Grown(log[c], log'[c], e)
  BY <1>1, <1>2, <1>3, Zenon DEF Grown
<1>5. log' \in [Conns -> Seq(Entry)]
  BY <1>2, <1>3, <1>4, GrownLog, Zenon
<1>6. \A x : /\ CountIn(log[c], x) \in Nat
             /\ CountIn(log'[c], x) = IF event = x THEN CountIn(log[c], x) + 1
                                      ELSE CountIn(log[c], x)
  BY <1>1, <1>4, GrownCount
<1>7. \A d \in Conns : ReadyVerified(log[d])
  BY Zenon DEF IInv, ReadyInv
<1>8. ReadyVerified(log'[c])
  BY <1>1, <1>4, <1>7, GrownReady, Zenon
<1> QED BY <1>3, <1>5, <1>6, <1>7, <1>8, Zenon

\* A connection is accepted.
LEMMA AcceptPreserves ==
  ASSUME IInv, NEW c \in Conns, Accept(c)
  PROVE  IInv'
<1>1. /\ UNCHANGED <<offered, attempts, reported, attempt, published, established, canceled,
                     protoClosed, op, gateway, openConns, openOps>>
      /\ phase[c] = "none" /\ phase' = [phase EXCEPT ![c] = "handshake"] /\ gateway = "running"
      /\ Record(c, "connection.start", "")
  BY Zenon DEF Accept, authVars
<1>2. /\ log' \in [Conns -> Seq(Entry)] /\ \A d \in Conns \ {c} : log'[d] = log[d]
      /\ \A x : /\ CountIn(log[c], x) \in Nat
                /\ CountIn(log'[c], x) = IF "connection.start" = x THEN CountIn(log[c], x) + 1
                                         ELSE CountIn(log[c], x)
      /\ \A d \in Conns : ReadyVerified(log'[d])
  <2>1. "connection.start" \in EventTypes /\ "" \in Results
    BY Zenon DEF EventTypes, Results
  <2> QED BY <1>1, <2>1, Recorded, Zenon
<1>3. /\ phase' \in [Conns -> {"none", "handshake", "serving", "closing", "waiting", "ended"}]
      /\ phase'[c] = "handshake" /\ \A d \in Conns \ {c} : phase'[d] = phase[d]
      /\ c \notin published /\ c \notin established
  BY <1>1, Zenon DEF IInv, TypeOK, PhaseInv
<1>4. GaugeInv'
  <2>1. OpenConns' = OpenConns /\ ActiveOps' = ActiveOps
        /\ \A d \in Conns : ActiveOf(d)' = ActiveOf(d)
    BY <1>1, <1>3, Zenon DEF OpenConns, ActiveOps, ActiveOf
  <2>2. \A d \in Conns : CountIn(log'[d], "operation.start") = CountIn(log[d], "operation.start")
                         /\ CountIn(log'[d], "operation.end") = CountIn(log[d], "operation.end")
    BY <1>2, Zenon
  <2> QED BY <1>1, <2>1, <2>2, Zenon DEF IInv, GaugeInv
<1>5. AttemptInv'
  <2>1. \A d \in Conns :
          CountIn(log'[d], "authentication.result") = CountIn(log[d], "authentication.result")
    BY <1>2, Zenon
  <2> QED BY <1>1, <2>1, Zenon DEF IInv, AttemptInv
<1>6. PhaseInv' /\ OpInv'
  <2>1. PhaseInv'
    BY <1>1, <1>2, <1>3, ZenonT(60) DEF IInv, PhaseInv
  <2>2. \A o \in Ops : op[o].pc # "none" => op[o].conn \in Conns \ {c}
    BY <1>3, Zenon DEF IInv, TypeOK, OpInv
  <2>3. OpInv'
    BY <1>1, <1>3, <2>2, HandlerStates, Zenon DEF IInv, OpInv
  <2> QED BY <2>1, <2>3, Zenon
<1>7. ReadyInv'
  BY <1>1, <1>2, <1>3, Zenon DEF IInv, ReadyInv
<1>8. TypeOK'
  BY <1>1, <1>2, <1>3, Zenon DEF IInv, TypeOK
<1> QED BY <1>4, <1>5, <1>6, <1>7, <1>8, Zenon DEF IInv

\* What the authentication callbacks leave alone.
LEMMA AuthenticationKeeps ==
  ASSUME IInv, NEW c \in Conns, phase[c] = "handshake",
         UNCHANGED <<phase, offered, established, canceled, protoClosed, op, gateway, openConns,
                     openOps>>,
         \A d \in Conns \ {c} : /\ log'[d] = log[d] /\ attempts'[d] = attempts[d]
                                /\ attempt'[d] = attempt[d] /\ (d \in reported' <=> d \in reported)
                                /\ (d \in published' <=> d \in published),
         \A x \in {"operation.start", "operation.end"} : CountIn(log'[c], x) = CountIn(log[c], x),
         log' \in [Conns -> Seq(Entry)], attempts' \in [Conns -> 0..MaxAttempts],
         attempt' \in [Conns -> Methods \cup {"none"}], reported' \subseteq Conns,
         published' \subseteq Conns,
         \A d \in Conns : ReadyVerified(log'[d]),
         c \in published' => Verified(log'[c]),
         attempt'[c] # "none" => attempts'[c] > 0 /\ (c \in published' => c \in reported'),
         CountIn(log'[c], "authentication.result") =
           IF attempt'[c] # "none" /\ c \notin reported' THEN attempts'[c] - 1 ELSE attempts'[c]
  PROVE  IInv'
<1>1. GaugeInv'
  <2>1. OpenConns' = OpenConns /\ ActiveOps' = ActiveOps
        /\ \A d \in Conns : ActiveOf(d)' = ActiveOf(d)
    BY Zenon DEF OpenConns, ActiveOps, ActiveOf
  <2>2. \A d \in Conns : CountIn(log'[d], "operation.start") = CountIn(log[d], "operation.start")
                         /\ CountIn(log'[d], "operation.end") = CountIn(log[d], "operation.end")
    BY Zenon
  <2> QED BY <2>1, <2>2, Zenon DEF IInv, GaugeInv
<1>2. AttemptInv'
  BY Zenon DEF IInv, AttemptInv
<1>3. PhaseInv' /\ OpInv'
  BY ZenonT(60) DEF IInv, PhaseInv, OpInv
<1>4. ReadyInv'
  BY Zenon DEF IInv, ReadyInv
<1>5. TypeOK'
  BY Zenon DEF IInv, TypeOK
<1> QED BY <1>1, <1>2, <1>3, <1>4, <1>5, Zenon DEF IInv

\* An authentication callback.
LEMMA AuthenticatePreserves ==
  ASSUME IInv, NEW c \in Conns, NEW method \in Methods, Authenticate(c, method)
  PROVE  IInv'
<1>1. /\ UNCHANGED <<phase, offered, established, canceled, protoClosed, op, gateway, openConns,
                     openOps>>
      /\ phase[c] = "handshake" /\ attempt[c] = "none" /\ c \notin published
      /\ attempts[c] < MaxAttempts
      /\ attempts' = [attempts EXCEPT ![c] = @ + 1] /\ attempt' = [attempt EXCEPT ![c] = method]
  BY Zenon DEF Authenticate
<1>2. /\ attempts' \in [Conns -> 0..MaxAttempts] /\ attempts'[c] = attempts[c] + 1
      /\ attempts'[c] > 0 /\ attempts[c] \in Nat
      /\ attempt' \in [Conns -> Methods \cup {"none"}] /\ attempt'[c] # "none"
      /\ \A d \in Conns \ {c} : attempts'[d] = attempts[d] /\ attempt'[d] = attempt[d]
  BY <1>1, MethodsAssumption, MaxAttemptsAssumption DEF IInv, TypeOK
<1>3. CountIn(log[c], "authentication.result") = attempts[c]
  BY <1>1, Zenon DEF IInv, AttemptInv
<1>4. log \in [Conns -> Seq(Entry)] /\ reported \subseteq Conns /\ published \subseteq Conns
      /\ \A d \in Conns : ReadyVerified(log[d])
  BY Zenon DEF IInv, TypeOK, ReadyInv
<1>5. CASE reported' = reported \ {c} /\ UNCHANGED <<published, log>>
  <2>1. /\ c \notin reported' /\ c \notin published' /\ reported' \subseteq Conns
        /\ published' \subseteq Conns /\ log' \in [Conns -> Seq(Entry)]
        /\ \A d \in Conns : ReadyVerified(log'[d])
    BY <1>1, <1>4, <1>5, Zenon
  <2>2. CountIn(log'[c], "authentication.result") = attempts'[c] - 1
    BY <1>2, <1>3, <1>5
  <2>3. \A d \in Conns \ {c} : /\ log'[d] = log[d] /\ (d \in reported' <=> d \in reported)
                               /\ (d \in published' <=> d \in published)
    BY <1>5, Zenon
  <2>4. \A x \in {"operation.start", "operation.end"} : CountIn(log'[c], x) = CountIn(log[c], x)
    BY <1>5, Zenon
  <2> QED BY <1>1, <1>2, <2>1, <2>2, <2>3, <2>4, AuthenticationKeeps, Zenon
<1>6. ASSUME NEW result \in {"success", "rejected"}, reported' = reported \cup {c},
             RecordAll(c, <<Event("authentication.result", "success")>>
                            \o <<Event("target_resolution.result", result)>>),
             published' \in {published, published \cup {c}},
             c \in published' => result = "success"
      PROVE  IInv'
  <2> DEFINE a == Event("authentication.result", "success")
             b == Event("target_resolution.result", result)
             m == log[c] \o <<a>>
  <2>1. /\ a \in Entry /\ b \in Entry /\ a.event = "authentication.result"
        /\ b.event = "target_resolution.result"
    BY Zenon DEF Entry, Event, EventTypes, Results
  <2>2. log' = [log EXCEPT ![c] = @ \o (<<a>> \o <<b>>)]
    BY <1>6, Zenon DEF RecordAll
  <2>3. result = "success" => b = Event("target_resolution.result", "success")
    BY Zenon
  <2> HIDE DEF b
  <2>4. log'[c] = log[c] \o (<<a>> \o <<b>>) /\ \A d \in Conns \ {c} : log'[d] = log[d]
    BY <1>4, <2>2, Zenon
  <2>5. log'[c] = m \o <<b>>
    <3>1. log[c] \in Seq(Entry) /\ <<a>> \in Seq(Entry) /\ <<b>> \in Seq(Entry)
      BY <1>4, <2>1
    <3> HIDE DEF a
    <3> QED BY <2>4, <3>1, ConcatAssociative
  <2>6. Grown(log[c], m, a)
    BY <1>4, <2>1, Zenon DEF Grown
  <2>7. m[Len(m)] = Event("authentication.result", "success")
    BY <2>6, GrownLog
  <2>8. a.event # "connection.ready" /\ b.event # "connection.ready"
    BY <2>1, Zenon
  <2>9. m \in Seq(Entry) /\ Len(m) \in Nat /\ Len(m) >= 1
    <3>1. /\ m \in Seq(Entry) /\ Len(log[c]) \in Nat /\ Len(m) = Len(log[c]) + 1
      BY <2>6, GrownLog, ZenonT(60)
    <3> QED BY <3>1
  <2> HIDE DEF a, m
  <2>10. Grown(m, log'[c], b)
    BY <2>1, <2>5, <2>9, Zenon DEF Grown
  <2>11. /\ log'[c] \in Seq(Entry) /\ Len(log'[c]) = Len(m) + 1 /\ log'[c][Len(m) + 1] = b
         /\ \A i \in 1..Len(m) : log'[c][i] = m[i]
    BY <2>10, GrownLog
  <2>12. log' \in [Conns -> Seq(Entry)]
    BY <1>4, <2>2, <2>4, <2>11, Zenon
  <2>13. \A x \in {"operation.start", "operation.end"} : CountIn(log'[c], x) = CountIn(log[c], x)
    BY <2>1, <2>6, <2>10, GrownCount
  <2>14. CountIn(log'[c], "authentication.result") = CountIn(log[c], "authentication.result") + 1
    BY <2>1, <2>6, <2>10, GrownCount
  <2>15. \A d \in Conns : ReadyVerified(log'[d])
    <3>1. ReadyVerified(m)
      BY <1>4, <2>6, <2>8, GrownReady, Zenon
    <3>2. ReadyVerified(log'[c])
      BY <2>8, <2>10, <3>1, GrownReady, Zenon
    <3> QED BY <1>4, <2>4, <3>2, Zenon
  <2>16. c \in published' => Verified(log'[c])
    BY <1>6, <2>3, <2>7, <2>9, <2>11 DEF Verified
  <2> QED BY <1>1, <1>2, <1>3, <1>4, <1>6, <2>4, <2>12, <2>13, <2>14, <2>15, <2>16,
             AuthenticationKeeps, ZenonT(60)
<1> QED BY <1>1, <1>5, <1>6, Zenon DEF Authenticate, Rejected, Resolved

\* AuthLogCallback.
LEMMA AuthLogPreserves ==
  ASSUME IInv, NEW c \in Conns, AuthLog(c)
  PROVE  IInv'
<1>1. /\ UNCHANGED <<phase, offered, attempts, published, established, canceled, protoClosed, op,
                     gateway, openConns, openOps>>
      /\ attempt[c] # "none" /\ attempt' = [attempt EXCEPT ![c] = "none"]
      /\ reported' = reported \ {c}
  BY Zenon DEF AuthLog
<1>2. /\ attempt' \in [Conns -> Methods \cup {"none"}] /\ attempt'[c] = "none"
      /\ \A d \in Conns \ {c} : attempt'[d] = attempt[d]
      /\ attempts \in [Conns -> 0..MaxAttempts] /\ attempts[c] \in Nat
      /\ log \in [Conns -> Seq(Entry)] /\ reported \subseteq Conns /\ published \subseteq Conns
  BY <1>1, MaxAttemptsAssumption DEF IInv, TypeOK
<1>3. /\ phase[c] = "handshake" /\ c \in published => Verified(log[c])
      /\ phase[c] = "handshake" /\ \A d \in Conns : ReadyVerified(log[d])
      /\ c \in published => c \in reported
      /\ CountIn(log[c], "authentication.result") =
           IF c \notin reported THEN attempts[c] - 1 ELSE attempts[c]
  BY <1>1, Zenon DEF IInv, PhaseInv, AttemptInv, ReadyInv
<1>4. CASE NeedsEvent(c)
  <2>1. Record(c, "authentication.result", "rejected") /\ c \notin published /\ c \notin reported
    BY <1>4, Zenon DEF AuthLog, NeedsEvent
  <2>2. /\ log' \in [Conns -> Seq(Entry)] /\ \A d \in Conns \ {c} : log'[d] = log[d]
        /\ \A x : /\ CountIn(log[c], x) \in Nat
                  /\ CountIn(log'[c], x) = IF "authentication.result" = x
                                           THEN CountIn(log[c], x) + 1 ELSE CountIn(log[c], x)
        /\ \A d \in Conns : ReadyVerified(log'[d])
    <3>1. "authentication.result" \in EventTypes /\ "rejected" \in Results
      BY Zenon DEF EventTypes, Results
    <3> QED BY <2>1, <3>1, Recorded, Zenon
  <2>3. \A x \in {"operation.start", "operation.end"} : CountIn(log'[c], x) = CountIn(log[c], x)
    BY <2>2, Zenon
  <2>4. CountIn(log'[c], "authentication.result") = attempts[c]
    BY <1>2, <1>3, <2>1, <2>2
  <2> QED BY <1>1, <1>2, <1>3, <2>1, <2>2, <2>3, <2>4, AuthenticationKeeps, Zenon
<1>5. CASE ~NeedsEvent(c)
  <2>1. UNCHANGED log /\ c \in reported
    BY <1>3, <1>5, Zenon DEF AuthLog, NeedsEvent
  <2> QED BY <1>1, <1>2, <1>3, <2>1, AuthenticationKeeps, Zenon
<1> QED BY <1>4, <1>5, Zenon

\* NewServerConn returns.
LEMMA HandshakePreserves ==
  ASSUME IInv, NEW c \in Conns, Handshake(c)
  PROVE  IInv'
<1>1. /\ UNCHANGED <<offered, attempts, reported, attempt, published, canceled, protoClosed, op,
                     gateway, openOps>>
      /\ phase[c] = "handshake" /\ attempt[c] = "none"
  BY Zenon DEF Handshake, authVars
<1>2. /\ phase \in [Conns -> {"none", "handshake", "serving", "closing", "waiting", "ended"}]
      /\ c \notin established /\ gateway # "stopped" /\ established \subseteq Conns
      /\ \A o \in Ops : op[o].pc # "none" => op[o].conn \in Conns \ {c}
  BY <1>1, Zenon DEF IInv, TypeOK, PhaseInv, OpInv
<1>3. ActiveOps' = ActiveOps /\ \A d \in Conns : ActiveOf(d)' = ActiveOf(d)
  BY <1>1, Zenon DEF ActiveOps, ActiveOf
<1>4. ASSUME NEW to \in {"serving", "closing"}, phase' = [phase EXCEPT ![c] = to]
      PROVE  /\ phase' \in [Conns -> {"none", "handshake", "serving", "closing", "waiting",
                                      "ended"}]
             /\ phase'[c] = to /\ \A d \in Conns \ {c} : phase'[d] = phase[d]
  BY <1>2, <1>4, Zenon
<1>5. CASE phase' = [phase EXCEPT ![c] = "closing"] /\ UNCHANGED <<established, openConns, log>>
  <2>1. /\ phase' \in [Conns -> {"none", "handshake", "serving", "closing", "waiting", "ended"}]
        /\ phase'[c] = "closing" /\ \A d \in Conns \ {c} : phase'[d] = phase[d]
    BY <1>4, <1>5, Zenon
  <2>2. OpenConns' = OpenConns
    BY <1>2, <1>5, <2>1 DEF OpenConns
  <2>3. GaugeInv'
    BY <1>1, <1>3, <1>5, <2>2, Zenon DEF IInv, GaugeInv
  <2>4. AttemptInv'
    BY <1>1, <1>5, Zenon DEF IInv, AttemptInv
  <2>5. PhaseInv'
    BY <1>1, <1>2, <1>5, <2>1, Zenon DEF IInv, PhaseInv
  <2>6. ReadyInv'
    BY <1>1, <1>5, <2>1, Zenon DEF IInv, ReadyInv
  <2>7. OpInv'
    BY <1>1, <1>2, <1>5, <2>1, HandlerStates, Zenon DEF IInv, OpInv
  <2>8. TypeOK'
    BY <1>1, <1>5, <2>1, Zenon DEF IInv, TypeOK
  <2> QED BY <2>3, <2>4, <2>5, <2>6, <2>7, <2>8, Zenon DEF IInv
<1>6. CASE /\ Authenticated(c) /\ established' = established \cup {c}
           /\ Record(c, "connection.ready", "success") /\ openConns' = openConns + 1
           /\ phase' = [phase EXCEPT ![c] = "serving"]
  <2>1. /\ phase' \in [Conns -> {"none", "handshake", "serving", "closing", "waiting", "ended"}]
        /\ phase'[c] = "serving" /\ \A d \in Conns \ {c} : phase'[d] = phase[d]
    BY <1>4, <1>6, Zenon
  <2>2. c \in published /\ Verified(log[c])
    BY <1>1, <1>6, Zenon DEF Authenticated, IInv, ReadyInv
  <2>3. /\ log' \in [Conns -> Seq(Entry)] /\ \A d \in Conns \ {c} : log'[d] = log[d]
        /\ \A x : /\ CountIn(log[c], x) \in Nat
                  /\ CountIn(log'[c], x) = IF "connection.ready" = x THEN CountIn(log[c], x) + 1
                                           ELSE CountIn(log[c], x)
        /\ \A d \in Conns : ReadyVerified(log'[d])
    <3>1. "connection.ready" \in EventTypes /\ "success" \in Results
      BY Zenon DEF EventTypes, Results
    <3> QED BY <1>6, <2>2, <3>1, Recorded, Zenon
  <2>4. \A d \in Conns :
          /\ CountIn(log'[d], "authentication.result") = CountIn(log[d], "authentication.result")
          /\ CountIn(log'[d], "operation.start") = CountIn(log[d], "operation.start")
          /\ CountIn(log'[d], "operation.end") = CountIn(log[d], "operation.end")
    BY <2>3, Zenon
  <2>5. OpenConns' = OpenConns \cup {c} /\ c \notin OpenConns
    BY <1>2, <1>6, <2>1 DEF OpenConns
  <2>6. Cardinality(OpenConns') = Cardinality(OpenConns) + 1
    <3>1. IsFiniteSet(OpenConns)
      BY FiniteAssumption, FS_Subset, Zenon DEF OpenConns
    <3> QED BY <2>5, <3>1, FS_AddElement, Zenon
  <2>7. GaugeInv'
    BY <1>1, <1>3, <1>6, <2>4, <2>6, Zenon DEF IInv, GaugeInv
  <2>8. AttemptInv'
    BY <1>1, <2>4, Zenon DEF IInv, AttemptInv
  <2>9. PhaseInv'
    BY <1>1, <1>2, <1>6, <2>1, <2>2, <2>3 DEF IInv, PhaseInv
  <2>10. ReadyInv'
    BY <1>1, <2>1, <2>3, Zenon DEF IInv, ReadyInv
  <2>11. OpInv'
    BY <1>1, <1>2, <1>6, <2>1, HandlerStates, Zenon DEF IInv, OpInv
  <2>12. openConns' \in 0..Cardinality(Conns)
    <3>1. OpenConns' \in SUBSET Conns
      BY Zenon DEF OpenConns
    <3> QED BY <2>7, <3>1, FiniteAssumption, PartBound, Zenon DEF GaugeInv
  <2>13. TypeOK'
    BY <1>1, <1>2, <1>6, <2>1, <2>3, <2>12, Zenon DEF IInv, TypeOK
  <2> QED BY <2>7, <2>8, <2>9, <2>10, <2>11, <2>13, Zenon DEF IInv
<1> QED BY <1>5, <1>6, Zenon DEF Handshake

\* The owner ends its connection.
LEMMA EndPreserves ==
  ASSUME IInv, NEW c \in Conns, End(c)
  PROVE  IInv'
<1>1. /\ UNCHANGED <<offered, attempts, reported, attempt, published, established, canceled,
                     protoClosed, op, gateway, openOps>>
      /\ phase[c] = "waiting" /\ HandlersDone(c) /\ phase' = [phase EXCEPT ![c] = "ended"]
      /\ openConns' = IF c \in established THEN openConns - 1 ELSE openConns
  BY Zenon DEF End, ClosesEstablished, authVars
<1>2. /\ phase' \in [Conns -> {"none", "handshake", "serving", "closing", "waiting", "ended"}]
      /\ phase'[c] = "ended" /\ \A d \in Conns \ {c} : phase'[d] = phase[d]
  BY <1>1, Zenon DEF IInv, TypeOK
<1>3. PICK result \in Results : Record(c, "connection.end", result)
  <2>1. "success" \in Results /\ "rejected" \in Results
    BY Zenon DEF Results
  <2> QED BY <2>1, Zenon DEF End
<1>4. /\ log' \in [Conns -> Seq(Entry)] /\ \A d \in Conns \ {c} : log'[d] = log[d]
      /\ \A x : /\ CountIn(log[c], x) \in Nat
                /\ CountIn(log'[c], x) = IF "connection.end" = x THEN CountIn(log[c], x) + 1
                                         ELSE CountIn(log[c], x)
      /\ \A d \in Conns : ReadyVerified(log'[d])
  <2>1. "connection.end" \in EventTypes
    BY Zenon DEF EventTypes
  <2> QED BY <1>3, <2>1, Recorded, Zenon
<1>5. \A d \in Conns :
        /\ CountIn(log'[d], "authentication.result") = CountIn(log[d], "authentication.result")
        /\ CountIn(log'[d], "operation.start") = CountIn(log[d], "operation.start")
        /\ CountIn(log'[d], "operation.end") = CountIn(log[d], "operation.end")
  BY <1>4, Zenon
<1>6. ActiveOps' = ActiveOps /\ \A d \in Conns : ActiveOf(d)' = ActiveOf(d)
  BY <1>1, Zenon DEF ActiveOps, ActiveOf
<1>7. /\ OpenConns' = OpenConns \ {c} /\ (c \in OpenConns <=> c \in established)
  BY <1>1, <1>2, Zenon DEF OpenConns
<1>8. openConns' = Cardinality(OpenConns')
  <2>1. IsFiniteSet(OpenConns)
    BY FiniteAssumption, FS_Subset, Zenon DEF OpenConns
  <2> QED BY <1>1, <1>7, <2>1, FS_RemoveElement, Zenon DEF IInv, GaugeInv
<1>9. GaugeInv'
  BY <1>1, <1>5, <1>6, <1>8, Zenon DEF IInv, GaugeInv
<1>10. AttemptInv'
  BY <1>1, <1>5, Zenon DEF IInv, AttemptInv
<1>11. PhaseInv'
  BY <1>1, <1>2, <1>4, Zenon DEF IInv, PhaseInv
<1>12. ReadyInv'
  BY <1>1, <1>2, <1>4, Zenon DEF IInv, ReadyInv
<1>13. OpInv'
  <2>1. \A o \in Ops : op[o].pc \in InHandler(op[o].serving) => op[o].conn # c
    BY <1>1, Zenon DEF HandlersDone, Handled
  <2>2. \A o \in Ops : op[o].pc # "none" => op[o].conn \in Conns
    BY Zenon DEF IInv, TypeOK, OpInv
  <2> QED BY <1>1, <1>2, <2>1, <2>2, HandlerStates, Zenon DEF IInv, OpInv
<1>14. openConns' \in 0..Cardinality(Conns)
  <2>1. OpenConns' \in SUBSET Conns
    BY Zenon DEF OpenConns
  <2> QED BY <1>8, <2>1, FiniteAssumption, PartBound, Zenon
<1>15. TypeOK'
  BY <1>1, <1>2, <1>4, <1>14, Zenon DEF IInv, TypeOK
<1> QED BY <1>9, <1>10, <1>11, <1>12, <1>13, <1>15, Zenon DEF IInv

Operation == [pc : {"none", "handler", "authorize", "running", "ended"},
              conn : Conns \cup {None}, serving : Serving \cup {"none"}]

\* What an operation step leaves alone, once the gauges are settled.
LEMMA OperationKeeps ==
  ASSUME IInv, NEW c \in established,
         UNCHANGED <<phase, offered, attempts, reported, attempt, published, established,
                     canceled, protoClosed, gateway, openConns>>,
         \A d \in Conns \ {c} : log'[d] = log[d], log' \in [Conns -> Seq(Entry)],
         CountIn(log'[c], "authentication.result") = CountIn(log[c], "authentication.result"),
         \A d \in Conns : ReadyVerified(log'[d]),
         op' \in [Ops -> Operation], openOps' = Cardinality(ActiveOps'),
         \A d \in Conns :
           CountIn(log'[d], "operation.start") - CountIn(log'[d], "operation.end")
             = Cardinality(ActiveOf(d)'),
         OpInv'
  PROVE  IInv'
<1>1. c \in Conns /\ phase[c] \notin {"none", "handshake"}
  BY Zenon DEF IInv, TypeOK, PhaseInv
<1>2. GaugeInv'
  <2>1. OpenConns' = OpenConns
    BY Zenon DEF OpenConns
  <2> QED BY <2>1, Zenon DEF IInv, GaugeInv
<1>3. AttemptInv'
  <2>1. \A d \in Conns :
          CountIn(log'[d], "authentication.result") = CountIn(log[d], "authentication.result")
    BY Zenon
  <2> QED BY <2>1, Zenon DEF IInv, AttemptInv
<1>4. PhaseInv'
  BY <1>1, Zenon DEF IInv, PhaseInv
<1>5. ReadyInv'
  BY <1>1, Zenon DEF IInv, ReadyInv
<1>6. openOps' \in 0..Cardinality(Ops)
  <2>1. ActiveOps' \in SUBSET Ops
    BY Zenon DEF ActiveOps
  <2> QED BY <2>1, FiniteAssumption, PartBound, Zenon
<1>7. TypeOK'
  BY <1>6, Zenon DEF IInv, TypeOK, Operation
<1> QED BY <1>2, <1>3, <1>4, <1>5, <1>7, Zenon DEF IInv

\* startOperation.
LEMMA BeginPreserves ==
  ASSUME IInv, NEW c \in Conns, NEW o \in Ops, NEW new \in Operation,
         new.pc = "authorize", new.conn = c, op[o].pc \notin Active, c \in established,
         "authorize" \in InHandler(new.serving) => phase[c] \in {"serving", "closing", "waiting"},
         op' = [op EXCEPT ![o] = new], openOps' = openOps + 1, Record(c, "operation.start", ""),
         UNCHANGED <<phase, authVars, established, canceled, protoClosed, gateway, openConns>>
  PROVE  IInv'
<1>1. UNCHANGED <<phase, offered, attempts, reported, attempt, published, established,
                  canceled, protoClosed, gateway, openConns>>
  BY Zenon DEF authVars
<1>3. /\ log' \in [Conns -> Seq(Entry)] /\ \A d \in Conns \ {c} : log'[d] = log[d]
      /\ \A x : /\ CountIn(log[c], x) \in Nat
                /\ CountIn(log'[c], x) = IF "operation.start" = x THEN CountIn(log[c], x) + 1
                                         ELSE CountIn(log[c], x)
      /\ \A d \in Conns : ReadyVerified(log'[d])
  <2>1. "operation.start" \in EventTypes /\ "" \in Results
    BY Zenon DEF EventTypes, Results
  <2> QED BY <1>1, <2>1, Recorded, Zenon
<1>5. /\ op' \in [Ops -> Operation] /\ op'[o] = new /\ \A q \in Ops \ {o} : op'[q] = op[q]
  BY Zenon DEF IInv, TypeOK, Operation
<1>6. /\ ActiveOps' = ActiveOps \cup {o} /\ o \notin ActiveOps
      /\ ActiveOf(c)' = ActiveOf(c) \cup {o} /\ o \notin ActiveOf(c)
      /\ \A d \in Conns \ {c} : ActiveOf(d)' = ActiveOf(d)
  BY <1>5, Zenon DEF ActiveOps, ActiveOf, Active
<1>7. IsFiniteSet(ActiveOps) /\ IsFiniteSet(ActiveOf(c))
  BY FiniteAssumption, FS_Subset, Zenon DEF ActiveOps, ActiveOf
<1>8. openOps' = Cardinality(ActiveOps')
  BY <1>1, <1>6, <1>7, FS_AddElement, Zenon DEF IInv, GaugeInv
<1>9. ASSUME NEW d \in Conns
      PROVE  CountIn(log'[d], "operation.start") - CountIn(log'[d], "operation.end")
               = Cardinality(ActiveOf(d)')
  <2>1. CountIn(log[d], "operation.start") - CountIn(log[d], "operation.end")
          = Cardinality(ActiveOf(d))
    BY Zenon DEF IInv, GaugeInv
  <2>2. CASE d = c
    <3>1. Cardinality(ActiveOf(c)') = Cardinality(ActiveOf(c)) + 1
      <4>1. o \notin ActiveOf(c) /\ ActiveOf(c)' = ActiveOf(c) \cup {o}
        BY <1>6, Zenon
      <4>2. Cardinality(ActiveOf(c) \cup {o}) = Cardinality(ActiveOf(c)) + 1
        BY <1>7, <4>1, FS_AddElement, Zenon
      <4> QED BY <4>1, <4>2, Zenon
    <3>2. /\ CountIn(log'[c], "operation.start") = CountIn(log[c], "operation.start") + 1
          /\ CountIn(log'[c], "operation.end") = CountIn(log[c], "operation.end")
          /\ CountIn(log[c], "operation.start") \in Nat /\ CountIn(log[c], "operation.end") \in Nat
      BY <1>3, Zenon
    <3>3. (CountIn(log[c], "operation.start") + 1) - CountIn(log[c], "operation.end")
            = Cardinality(ActiveOf(c)) + 1
      <4>1. CountIn(log[c], "operation.start") - CountIn(log[c], "operation.end")
              = Cardinality(ActiveOf(c))
        BY <2>1, <2>2, Zenon
      <4>2. CountIn(log[c], "operation.start") \in Nat /\ CountIn(log[c], "operation.end") \in Nat
        BY <3>2, Zenon
      <4>3. OneMoreOpen(CountIn(log[c], "operation.start"), CountIn(log[c], "operation.end"),
                        Cardinality(ActiveOf(c)))
        BY <4>1, <4>2, OneMore, Zenon
      <4> QED BY <4>3, Zenon DEF OneMoreOpen
    <3> QED BY <2>2, <3>1, <3>2, <3>3, Zenon
  <2>3. CASE d # c
    BY <1>3, <1>6, <2>1, <2>3, Zenon
  <2> QED BY <2>2, <2>3, Zenon
<1>10. OpInv'
  BY <1>1, <1>5, Zenon DEF IInv, OpInv
<1>11. CountIn(log'[c], "authentication.result") = CountIn(log[c], "authentication.result")
  BY <1>3, Zenon
<1> QED BY <1>1, <1>3, <1>5, <1>8, <1>9, <1>10, <1>11, OperationKeeps, ZenonT(60)

\* An operation is denied, ends or is cut off.
LEMMA EndOperationPreserves ==
  ASSUME IInv, NEW o \in Ops, NEW result \in Results, op[o].pc \in Active,
         EndOperation(o, result),
         UNCHANGED <<phase, authVars, established, canceled, protoClosed, gateway, openConns>>
  PROVE  IInv'
<1>0. PICK c \in Conns : c = op[o].conn
  BY Zenon DEF IInv, TypeOK, OpInv, Active
<1> DEFINE new == [op[o] EXCEPT !.pc = "ended"]
<1>1. /\ UNCHANGED <<phase, offered, attempts, reported, attempt, published, established,
                     canceled, protoClosed, gateway, openConns>>
      /\ openOps' = openOps - 1 /\ Record(c, "operation.end", result)
  BY <1>0, Zenon DEF EndOperation, authVars
<1>2. op \in [Ops -> Operation] /\ c \in established
  BY <1>0, Zenon DEF IInv, TypeOK, Operation, OpInv, Active
<1>3. new \in Operation /\ new.pc = "ended" /\ new.conn = c
  BY <1>0, <1>2, Zenon DEF Operation
<1>4. op' = [op EXCEPT ![o] = new]
  BY <1>2, Zenon DEF EndOperation
<1> HIDE DEF new
<1>5. /\ op' \in [Ops -> Operation] /\ op'[o] = new /\ \A q \in Ops \ {o} : op'[q] = op[q]
  BY <1>2, <1>3, <1>4, Zenon
<1>6. /\ ActiveOps' = ActiveOps \ {o} /\ o \in ActiveOps
      /\ ActiveOf(c)' = ActiveOf(c) \ {o} /\ o \in ActiveOf(c)
      /\ \A d \in Conns \ {c} : ActiveOf(d)' = ActiveOf(d)
  BY <1>0, <1>3, <1>5, Zenon DEF ActiveOps, ActiveOf, Active
<1>7. /\ log' \in [Conns -> Seq(Entry)] /\ \A d \in Conns \ {c} : log'[d] = log[d]
      /\ \A x : /\ CountIn(log[c], x) \in Nat
                /\ CountIn(log'[c], x) = IF "operation.end" = x THEN CountIn(log[c], x) + 1
                                         ELSE CountIn(log[c], x)
      /\ \A d \in Conns : ReadyVerified(log'[d])
  <2>1. "operation.end" \in EventTypes
    BY Zenon DEF EventTypes
  <2> QED BY <1>1, <1>2, <2>1, Recorded, Zenon
<1>8. IsFiniteSet(ActiveOps) /\ IsFiniteSet(ActiveOf(c))
  BY FiniteAssumption, FS_Subset, Zenon DEF ActiveOps, ActiveOf
<1>9. openOps' = Cardinality(ActiveOps')
  BY <1>1, <1>6, <1>8, FS_RemoveElement, Zenon DEF IInv, GaugeInv
<1>10. ASSUME NEW d \in Conns
       PROVE  CountIn(log'[d], "operation.start") - CountIn(log'[d], "operation.end")
                = Cardinality(ActiveOf(d)')
  <2>1. CountIn(log[d], "operation.start") - CountIn(log[d], "operation.end")
          = Cardinality(ActiveOf(d))
    BY Zenon DEF IInv, GaugeInv
  <2>2. CASE d = c
    <3>1. Cardinality(ActiveOf(c)') = Cardinality(ActiveOf(c)) - 1
      BY <1>6, <1>8, FS_RemoveElement, ZenonT(60)
    <3>2. /\ CountIn(log'[c], "operation.end") = CountIn(log[c], "operation.end") + 1
          /\ CountIn(log'[c], "operation.start") = CountIn(log[c], "operation.start")
          /\ CountIn(log[c], "operation.start") \in Nat /\ CountIn(log[c], "operation.end") \in Nat
      BY <1>7, Zenon
    <3> QED BY <2>1, <2>2, <3>1, <3>2
  <2>3. CASE d # c
    BY <1>6, <1>7, <2>1, <2>3, Zenon
  <2> QED BY <2>2, <2>3, Zenon
<1>11. OpInv'
  BY <1>1, <1>2, <1>3, <1>5, HandlerStates, Zenon DEF IInv, OpInv
<1>12. CountIn(log'[c], "authentication.result") = CountIn(log[c], "authentication.result")
  BY <1>7, Zenon
<1> QED BY <1>1, <1>2, <1>5, <1>7, <1>9, <1>10, <1>11, <1>12, OperationKeeps, Zenon

\* A step of a handler without an event: it starts, returns, or the authorizer allows it.
LEMMA QuietOperationPreserves ==
  ASSUME IInv, NEW o \in Ops, NEW new \in Operation, op' = [op EXCEPT ![o] = new],
         new.pc # "none", new.conn \in established,
         new.pc \in Active <=> op[o].pc \in Active,
         new.pc \in Active => new.conn = op[o].conn,
         new.pc \in InHandler(new.serving) =>
           phase[new.conn] \in {"serving", "closing", "waiting"},
         UNCHANGED <<log, openOps, phase, authVars, established, canceled, protoClosed, gateway,
                     openConns>>
  PROVE  IInv'
<1>1. /\ op' \in [Ops -> Operation] /\ op'[o] = new /\ \A q \in Ops \ {o} : op'[q] = op[q]
  BY Zenon DEF IInv, TypeOK, Operation
<1>2. ActiveOps' = ActiveOps
  BY <1>1, Zenon DEF ActiveOps
<1>3. \A d \in Conns : ActiveOf(d)' = ActiveOf(d)
  BY <1>1 DEF ActiveOf
<1>4. OpInv'
  BY <1>1, Zenon DEF IInv, OpInv
<1>5. log \in [Conns -> Seq(Entry)] /\ \A d \in Conns : ReadyVerified(log[d])
  BY Zenon DEF IInv, TypeOK, ReadyInv
<1> QED BY <1>1, <1>2, <1>3, <1>4, <1>5, OperationKeeps, Zenon DEF IInv, GaugeInv, authVars

\* The steps of an operation that record its start or no event.
LEMMA HandlerPreserves ==
  ASSUME IInv, NEW o \in Ops,
         \/ \E c \in Conns : AdapterBegins(c, o) \/ \E s \in Serving : StartHandler(c, o, s)
         \/ BeginOperation(o) \/ HandlerReturns(o)
         \/ /\ op[o].pc = "authorize" /\ op' = [op EXCEPT ![o].pc = "running"]
            /\ UNCHANGED <<log, openOps, phase, authVars, established, canceled, protoClosed,
                           gateway, openConns>>
  PROVE  IInv'
<1>1. op \in [Ops -> Operation] /\ established \subseteq Conns
  BY Zenon DEF IInv, TypeOK, Operation
<1>2. ASSUME NEW pc \in {"authorize", "running", "ended"}, op' = [op EXCEPT ![o].pc = pc]
      PROVE  \E new \in Operation : /\ op' = [op EXCEPT ![o] = new] /\ new.pc = pc
                                    /\ new.conn = op[o].conn /\ new.serving = op[o].serving
  <2> DEFINE new == [op[o] EXCEPT !.pc = pc]
  <2>1. /\ new \in Operation /\ new.pc = pc /\ new.conn = op[o].conn
        /\ new.serving = op[o].serving
    BY <1>1, Zenon DEF Operation
  <2>2. op' = [op EXCEPT ![o] = new]
    BY <1>1, <1>2, Zenon
  <2> HIDE DEF new
  <2> QED BY <2>1, <2>2, Zenon
<1>3. ASSUME NEW c \in Conns, NEW pc \in {"handler", "authorize"}, NEW s \in Serving
      PROVE  /\ [pc |-> pc, conn |-> c, serving |-> s] \in Operation
             /\ [pc |-> pc, conn |-> c, serving |-> s].pc = pc
             /\ [pc |-> pc, conn |-> c, serving |-> s].conn = c
             /\ [pc |-> pc, conn |-> c, serving |-> s].serving = s
  BY Zenon DEF Operation
<1>4. op[o].pc # "none" => op[o].conn \in established
  BY Zenon DEF IInv, OpInv
<1>5. \A pc \in {"handler", "authorize"} : op[o].pc = pc /\ (pc \in InHandler(op[o].serving)
           \/ "running" \in InHandler(op[o].serving))
         => phase[op[o].conn] \in {"serving", "closing", "waiting"}
  <2>1. \A s : "running" \in InHandler(s) => {"handler", "authorize"} \subseteq InHandler(s)
    BY DEF InHandler
  <2> QED BY <2>1, Zenon DEF IInv, OpInv
<1>6. \A s : "handler" \in InHandler(s) <=> "authorize" \in InHandler(s)
  BY DEF InHandler
<1>7. "ended" \notin Active /\ "handler" \notin Active /\ "none" \notin Active
      /\ "authorize" \in Active /\ "running" \in Active
      /\ \A s : "ended" \notin InHandler(s)
  BY HandlerStates DEF Active
<1>8. ASSUME NEW c \in Conns, AdapterBegins(c, o) PROVE IInv'
  <2>1. "authorize" \notin InHandler("adapter")
    BY DEF InHandler
  <2>2. /\ "adapter" \in Serving /\ c \in established /\ op[o].pc = "none"
        /\ op' = [op EXCEPT ![o] = [pc |-> "authorize", conn |-> c, serving |-> "adapter"]]
        /\ Record(c, "operation.start", "") /\ openOps' = openOps + 1
        /\ UNCHANGED <<phase, authVars, established, canceled, protoClosed, gateway, openConns>>
    BY <1>8, Zenon DEF AdapterBegins
  <2> DEFINE new == [pc |-> "authorize", conn |-> c, serving |-> "adapter"]
  <2>3. new \in Operation /\ new.pc = "authorize" /\ new.conn = c /\ new.serving = "adapter"
    BY <1>3, <2>2, Zenon
  <2>4. op' = [op EXCEPT ![o] = new]
    BY <2>2, Zenon
  <2> HIDE DEF new
  <2>5. op[o].pc \notin Active /\ ~("authorize" \in InHandler(new.serving))
    BY <1>7, <2>1, <2>2, <2>3, Zenon
  <2> QED BY <2>2, <2>3, <2>4, <2>5, BeginPreserves, Zenon
<1>9. ASSUME NEW c \in Conns, NEW s \in Serving, StartHandler(c, o, s) PROVE IInv'
  <2>1. /\ phase[c] = "serving" /\ op[o].pc = "none"
        /\ op' = [op EXCEPT ![o] = [pc |-> "handler", conn |-> c, serving |-> s]]
        /\ UNCHANGED <<phase, authVars, established, canceled, protoClosed, gateway, openConns,
                       openOps, log>>
    BY <1>9, Zenon DEF StartHandler
  <2>2. c \in established
    BY <2>1, Zenon DEF IInv, PhaseInv
  <2> DEFINE new == [pc |-> "handler", conn |-> c, serving |-> s]
  <2>3. new \in Operation /\ new.pc = "handler" /\ new.conn = c
    BY <1>3, Zenon
  <2>4. op' = [op EXCEPT ![o] = new]
    BY <2>1, Zenon
  <2> HIDE DEF new
  <2>5. /\ new.pc # "none" /\ new.conn \in established /\ new.pc \notin Active
        /\ op[o].pc \notin Active /\ phase[new.conn] \in {"serving", "closing", "waiting"}
    BY <1>7, <2>1, <2>2, <2>3, Zenon
  <2> QED BY <2>1, <2>3, <2>4, <2>5, QuietOperationPreserves, Zenon
<1>10. CASE BeginOperation(o)
  <2>1. /\ op[o].pc = "handler" /\ op' = [op EXCEPT ![o].pc = "authorize"]
        /\ Record(op[o].conn, "operation.start", "") /\ openOps' = openOps + 1
        /\ UNCHANGED <<phase, authVars, established, canceled, protoClosed, gateway, openConns>>
    BY <1>10, Zenon DEF BeginOperation
  <2>2. op[o].conn \in established /\ op[o].conn \in Conns
    BY <1>1, <1>4, <2>1, Zenon
  <2>3. PICK new \in Operation : /\ op' = [op EXCEPT ![o] = new] /\ new.pc = "authorize"
                                 /\ new.conn = op[o].conn /\ new.serving = op[o].serving
    BY <1>2, <2>1, Zenon
  <2>4. "authorize" \in InHandler(new.serving)
          => phase[op[o].conn] \in {"serving", "closing", "waiting"}
    BY <1>5, <1>6, <2>1, <2>3, Zenon
  <2> QED BY <1>7, <2>1, <2>2, <2>3, <2>4, BeginPreserves, Zenon
<1>11. CASE HandlerReturns(o)
  <2>1. /\ op[o].pc = "handler" /\ op' = [op EXCEPT ![o].pc = "ended"]
        /\ UNCHANGED <<phase, authVars, established, canceled, protoClosed, gateway, openConns,
                       openOps, log>>
    BY <1>11, Zenon DEF HandlerReturns
  <2>2. PICK new \in Operation : /\ op' = [op EXCEPT ![o] = new] /\ new.pc = "ended"
                                 /\ new.conn = op[o].conn
    BY <1>2, <2>1, Zenon
  <2>3. /\ new.pc # "none" /\ new.conn \in established /\ new.pc \notin Active
        /\ op[o].pc \notin Active /\ new.pc \notin InHandler(new.serving)
    BY <1>4, <1>7, <2>1, <2>2, Zenon
  <2> QED BY <2>1, <2>2, <2>3, QuietOperationPreserves, Zenon
<1>12. CASE /\ op[o].pc = "authorize" /\ op' = [op EXCEPT ![o].pc = "running"]
            /\ UNCHANGED <<log, openOps, phase, authVars, established, canceled, protoClosed,
                           gateway, openConns>>
  <2>1. PICK new \in Operation : /\ op' = [op EXCEPT ![o] = new] /\ new.pc = "running"
                                 /\ new.conn = op[o].conn /\ new.serving = op[o].serving
    BY <1>2, <1>12, Zenon
  <2>2. "running" \in InHandler(new.serving)
          => phase[new.conn] \in {"serving", "closing", "waiting"}
    BY <1>5, <1>12, <2>1, Zenon
  <2>3. /\ new.pc # "none" /\ new.conn \in established /\ new.pc \in Active
        /\ op[o].pc \in Active
    BY <1>4, <1>7, <1>12, <2>1, Zenon
  <2> QED BY <1>12, <2>1, <2>2, <2>3, QuietOperationPreserves, Zenon
<1> QED BY <1>8, <1>9, <1>10, <1>11, <1>12, Zenon

-----------------------------------------------------------------------------
\* The invariant holds in every reachable state.
THEOREM InductiveInvariant == Spec => []IInv
<1>1. IInv /\ [Next]_vars => IInv'
  <2> SUFFICES ASSUME IInv, [Next]_vars PROVE IInv'
    BY Zenon
  <2>1. CASE UNCHANGED vars
    BY <2>1
    DEF vars, authVars, IInv, TypeOK, PhaseInv, AttemptInv, ReadyInv, OpInv, GaugeInv, OpenConns,
        ActiveOps, ActiveOf
  <2>2. ASSUME NEW o \in Ops, BeginOperation(o) \/ HandlerReturns(o) \/ OpStep(o) \/ Complete(o)
        PROVE  IInv'
    <3>1. "denied" \in Results /\ "canceled" \in Results /\ "success" \in Results
      BY Zenon DEF Results
    <3>2. CASE op[o].pc \in Active /\ \E result \in Results : EndOperation(o, result)
      <4>1. UNCHANGED <<phase, authVars, established, canceled, protoClosed, gateway, openConns>>
        BY <2>2, Zenon DEF OpStep, Authorize, Cut, Complete, BeginOperation, HandlerReturns
      <4> QED BY <3>2, <4>1, EndOperationPreserves, Zenon
    <3>3. CASE op[o].pc = "authorize" /\ op' = [op EXCEPT ![o].pc = "running"]
               /\ UNCHANGED <<log, openOps, phase, authVars, established, canceled, protoClosed,
                              gateway, openConns>>
      BY <3>3, HandlerPreserves, Zenon
    <3>4. CASE Authorize(o)
      BY <3>1, <3>2, <3>3, <3>4, Zenon DEF Authorize, DenialIsEnded, Active
    <3>5. CASE Cut(o) \/ Complete(o)
      BY <3>1, <3>2, <3>5, Zenon DEF Cut, Complete, Active
    <3> QED BY <2>2, <3>4, <3>5, HandlerPreserves, Zenon DEF OpStep
  <2>3. ASSUME NEW c \in Conns,
               \/ Accept(c) \/ NoClientAuth(c) \/ (\E m \in Methods : Authenticate(c, m))
               \/ Handshake(c) \/ Disconnect(c) \/ OwnerStep(c)
               \/ \E o \in Ops, serving \in Serving : StartHandler(c, o, serving)
               \/ \E o \in Ops : AdapterBegins(c, o)
        PROVE  IInv'
    BY <2>3, AcceptPreserves, QuietPreserves, AuthenticatePreserves, HandshakePreserves,
       EndPreserves, AuthLogPreserves, HandlerPreserves, Zenon DEF OwnerStep
  <2> QED BY <2>1, <2>2, <2>3, QuietPreserves, Zenon DEF Next
<1> QED BY <1>1, InitIInv, PTL DEF Spec

\* Every variable keeps its type, and no gauge becomes negative or exceeds what there is.
THEOREM TypeCorrect == Spec => []TypeOK
<1>1. IInv => TypeOK
  BY Zenon DEF IInv
<1> QED BY <1>1, InductiveInvariant, PTL

\* Every authentication attempt leaves one authentication.result, and connection.ready follows
\* a verified credential and a resolved target (authenticationConfig, acceptAuthenticated).
THEOREM AttemptsAreReported == Spec => []AttemptsReported
<1>1. IInv => AttemptsReported
  BY Zenon DEF IInv, AttemptInv, ReadyInv, AttemptsReported, Count, Positions, CountIn, PositionsIn,
         ReadyVerified
<1> QED BY <1>1, InductiveInvariant, PTL

\* The gauges and the audit log agree on the connections and operations that are open, and
\* an ended connection's adapter is closed.
THEOREM LifecycleIsClosed == Spec => []LifecycleClosed
<1>1. IInv => LifecycleClosed
  BY Zenon DEF IInv, GaugeInv, PhaseInv, LifecycleClosed, Count, Positions, CountIn, PositionsIn, OpenConns,
         ActiveOps, ActiveOf, Active
<1> QED BY <1>1, InductiveInvariant, PTL

\* What may still be recorded on a connection, by whom.
LateEvent(c) ==
  \E o \in Ops : /\ op'[o] # op[o] /\ op'[o].conn = c
                 /\ op'[o].serving \in {"detached", "adapter"}

\* An operation's event on an ended connection is not a handler's.
LEMMA LateOperation ==
  ASSUME IInv, NEW o \in Ops, op[o].pc \in {"handler", "authorize", "running"},
         NEW pc \in {"authorize", "ended"}, op[o].pc # pc, op' = [op EXCEPT ![o].pc = pc],
         NEW event, NEW result, Record(op[o].conn, event, result),
         NEW c \in Conns, phase[c] = "ended", log'[c] # log[c]
  PROVE  LateEvent(c)
<1>1. op \in [Ops -> Operation] /\ log \in [Conns -> Seq(Entry)]
  BY Zenon DEF IInv, TypeOK, Operation
<1>2. c = op[o].conn
  BY <1>1, Zenon DEF Record, RecordAll
<1>3. op[o].serving \in {"detached", "adapter"}
  BY <1>2, HandlerStates, Zenon DEF IInv, OpInv
<1>4. op'[o].pc = pc /\ op'[o].conn = op[o].conn /\ op'[o].serving = op[o].serving
  BY <1>1, Zenon DEF Operation
<1> QED BY <1>2, <1>3, <1>4, Zenon DEF LateEvent

\* After connection.end and the end of the recorder no handler's event is recorded on the
\* connection (handlers.Wait in handleConnection, deps.Stop in RunWithDependencies).
THEOREM EndIsQuiet == Spec => QuietAfterEnd
<1> DEFINE Quiet == \A c \in Conns : (phase[c] = "ended" \/ gateway = "stopped")
                                     /\ log'[c] # log[c] => LateEvent(c)
<1>1. IInv /\ [Next]_vars => Quiet \/ UNCHANGED vars
  <2> SUFFICES ASSUME IInv, Next, NEW c \in Conns, phase[c] = "ended" \/ gateway = "stopped",
                      log'[c] # log[c]
               PROVE  LateEvent(c)
    BY Zenon
  <2>1. phase[c] \in {"none", "ended"} /\ (phase[c] = "none" => gateway # "running")
    BY Zenon DEF IInv, PhaseInv
  <2>2. attempt[c] = "none" /\ log \in [Conns -> Seq(Entry)]
    BY <2>1, Zenon DEF IInv, PhaseInv, TypeOK
  <2>3. \A d \in Conns : (\E events : RecordAll(d, events)) => d = c
    BY <2>2, Zenon DEF RecordAll
  <2>4. ASSUME NEW d \in Conns,
               \/ Accept(d) \/ NoClientAuth(d) \/ (\E m \in Methods : Authenticate(d, m))
               \/ Handshake(d) \/ Disconnect(d) \/ OwnerStep(d)
        PROVE  LateEvent(c)
    <3>1. CASE Accept(d)
      BY <2>1, <2>3, <3>1, Zenon DEF Accept, Record
    <3>2. CASE NoClientAuth(d) \/ Disconnect(d) \/ Close(d) \/ CanceledEnds(d)
      BY <3>2, Zenon DEF NoClientAuth, Disconnect, Close, CanceledEnds
    <3>3. ASSUME NEW m \in Methods, Authenticate(d, m) PROVE LateEvent(c)
      BY <2>1, <2>3, <3>3, Zenon DEF Authenticate
    <3>4. CASE Handshake(d)
      BY <2>1, <2>3, <3>4, Zenon DEF Handshake, Record
    <3>5. CASE End(d)
      BY <2>1, <2>3, <3>5, Zenon DEF End, Record
    <3>6. CASE AuthLog(d)
      <4>1. d # c
        BY <2>2, <3>6, Zenon DEF AuthLog
      <4> QED BY <2>3, <3>6, <4>1, Zenon DEF AuthLog, Record
    <3> QED BY <2>4, <3>1, <3>2, <3>3, <3>4, <3>5, <3>6, Zenon DEF OwnerStep
  <2>5. ASSUME NEW d \in Conns, NEW o \in Ops,
               AdapterBegins(d, o) \/ \E s \in Serving : StartHandler(d, o, s)
        PROVE  LateEvent(c)
    <3>1. AdapterBegins(d, o)
      BY <2>5, Zenon DEF StartHandler
    <3>2. d = c
      BY <2>3, <3>1, Zenon DEF AdapterBegins, Record
    <3>3. op'[o] = [pc |-> "authorize", conn |-> d, serving |-> "adapter"] /\ op[o].pc = "none"
      BY <3>1, Zenon DEF AdapterBegins, IInv, TypeOK
    <3>4. op'[o].pc = "authorize" /\ op'[o].conn = d /\ op'[o].serving = "adapter"
      BY <3>3
    <3> QED BY <3>2, <3>3, <3>4, Zenon DEF LateEvent
  <2>6. ASSUME NEW o \in Ops, BeginOperation(o) \/ HandlerReturns(o) \/ OpStep(o) \/ Complete(o)
        PROVE  LateEvent(c)
    <3>1. op[o].pc # "none" => phase[c] = "ended" \/ op[o].conn # c
      BY <2>1, Zenon DEF IInv, OpInv, PhaseInv
    <3>2. ASSUME op[o].pc \in {"handler", "authorize", "running"},
                 NEW pc \in {"authorize", "ended"}, op[o].pc # pc,
                 op' = [op EXCEPT ![o].pc = pc], NEW event, NEW result,
                 Record(op[o].conn, event, result)
          PROVE  LateEvent(c)
      <4>1. op[o].conn \in Conns
        BY <3>2, Zenon DEF IInv, TypeOK, OpInv
      <4>2. phase[c] = "ended"
        BY <2>3, <3>1, <3>2, <4>1, Zenon DEF Record
      <4> QED BY <3>2, <4>2, LateOperation, Zenon
    <3>3. CASE BeginOperation(o)
      BY <3>2, <3>3, Zenon DEF BeginOperation
    <3>4. CASE HandlerReturns(o)
      BY <3>4, Zenon DEF HandlerReturns
    <3>5. CASE Authorize(o)
      BY <3>2, <3>5, Zenon DEF Authorize, DenialIsEnded, EndOperation
    <3>6. CASE Cut(o) \/ Complete(o)
      BY <3>2, <3>6, Zenon DEF Cut, Complete, EndOperation
    <3> QED BY <2>6, <3>3, <3>4, <3>5, <3>6, Zenon DEF OpStep
  <2>7. ~(Shutdown \/ Stop)
    BY Zenon DEF Shutdown, Stop
  <2> QED BY <2>4, <2>5, <2>6, <2>7, Zenon DEF Next
<1>2. QuietAfterEnd <=> [][Quiet]_vars
  BY PTL DEF QuietAfterEnd, LateEvent
<1> QED BY <1>1, <1>2, InductiveInvariant, PTL DEF Spec
=============================================================================
