------------------------- MODULE PodDataPlaneProofs -------------------------
(***************************************************************************)
(* Proofs about PodDataPlane, for any finite number of requests, any number *)
(* of Pods under the name and any number of container starts.               *)
(***************************************************************************)
EXTENDS PodDataPlane, FiniteSetTheorems, TLAPS

Resolved == {"prepare", "doChan", "wait", "prepared", "unprepared", "exec", "stream"}
ByNamePlaces == {"acquire", "copy", "copying", "untar", "probe", "join", "execByName"}

\* A container that was started at some time: only those can be known to anybody.
Started(c) == c \in ContainerIDs /\ c[1] <= pod /\ c[2] <= container[c[1]]
NodeStreams == {r \in Requests : req[r].pc \in AtNode}

\* The two transports do not mix.
TransportInv ==
  /\ transport = "cri" =>
       /\ \A r \in Requests : req[r].pc \notin ByNamePlaces
       /\ \A p \in PodIDs : helpers[p] = None
  /\ transport = "apiserver" =>
       /\ \A r \in Requests : req[r].pc \notin {"locate", "begin"} \cup (AtNode \ {"stream"})
       /\ ready = {} /\ \A c \in ContainerIDs : inflight[c] = "none"
       /\ serve = "serving"

\* What is known of a request at each place.
RequestInv ==
  \A r \in Requests :
    /\ req[r].pc \notin {"idle", "done"} => req[r].uid \in PodIDs
    /\ transport = "cri" /\ req[r].pc \in AtNode \cup {"begin"} => req[r].loc = req[r].uid
    /\ transport = "cri" /\ req[r].pc \in Resolved =>
         Started(req[r].cid) /\ req[r].cid[1] = req[r].loc
    /\ req[r].pc = "wait" => inflight[req[r].cid] # "none"
    /\ req[r].pc = "join" => req[r].owner \in Requests
    /\ transport = "cri" /\ req[r].err = "canceled" => r \notin live \/ serve # "serving"

\* Nobody knows a container or a Pod before it exists.
StartedInv ==
  /\ \A p \in sandboxes : p <= pod
  /\ \A c \in ready : Started(c)
  /\ \A c \in ContainerIDs : inflight[c] # "none" => Started(c)

\* The streams are counted, and drained tells when the count has reached zero for good.
DrainInv ==
  /\ transport = "cri" => activeStreams = Cardinality(NodeStreams)
  /\ drained = "none" <=> serve \in {"serving", "canceled"}
  /\ drained = "closed" => NodeStreams = {}

\* What copyHelperAcquirer remembers, whose it is, and whom the others wait for.
AcquirerInv ==
  /\ \A r \in Requests : state[r] = "running" => req[r].pc \in Owning
  /\ \A r \in Requests : req[r].pc = "join" => state[req[r].owner] # "none"
  /\ \A r \in Requests : req[r].pc \in Owning =>
       state[r] = "running" /\ helpers[req[r].uid] = r
  /\ \A p \in PodIDs : helpers[p] # None =>
       \/ /\ state[helpers[p]] = "running"
          /\ req[helpers[p]].pc \in Owning /\ req[helpers[p]].uid = p
       \/ /\ state[helpers[p]] = "ready"
          /\ req[helpers[p]].pc \in {"execByName", "stream", "done"}

IInv == /\ TypeOK /\ TransportInv /\ RequestInv /\ StartedInv /\ DrainInv /\ AcquirerInv
        /\ CachedHelperIntact

-----------------------------------------------------------------------------
\* Nothing is known when the gateway and the node start.
LEMMA InitIInv == Init => IInv
<1> SUFFICES ASSUME Init PROVE IInv
  BY Zenon
<1> USE BoundsAssumption DEF Init, NoRequest
<1>1. TypeOK
  BY DEF TypeOK, Request, Places, PodIDs, ContainerIDs, NoContainer
<1>2. TransportInv
  BY Zenon DEF TransportInv, ByNamePlaces, AtNode
<1>3. RequestInv
  BY Zenon DEF RequestInv, AtNode, Resolved
<1>4. StartedInv /\ AcquirerInv
  BY DEF StartedInv, AcquirerInv, Owning
<1>5. NodeStreams = {}
  BY Zenon DEF NodeStreams, AtNode
<1>6. DrainInv
  BY <1>5, FS_EmptySet, Zenon DEF DrainInv
<1>7. CachedHelperIntact
  BY Zenon DEF CachedHelperIntact
<1> QED BY <1>1, <1>2, <1>3, <1>4, <1>6, <1>7, Zenon DEF IInv

\* A container once started stays started.
LEMMA StartedStays ==
  ASSUME TypeOK, NEW c, Started(c), pod' \in PodIDs, pod <= pod',
         \A p \in PodIDs : container'[p] \in 1..MaxContainers /\ container[p] <= container'[p]
  PROVE  Started(c)'
  BY BoundsAssumption DEF Started, TypeOK, PodIDs, ContainerIDs

\* A step that only forgets a prepared container or ends a request's context, or nothing.
LEMMA ForgettingPreserves ==
  ASSUME IInv, UNCHANGED <<clusterVars, intact, req, nodeVars, inflight, acquirerVars>>,
         ready' \subseteq ready, live' \subseteq live
  PROVE  IInv'
<1>1. UNCHANGED <<transport, pod, sandboxes, container, intact, req, serve, drained,
                  activeStreams, inflight, helpers, state>>
  BY Zenon DEF clusterVars, nodeVars, acquirerVars
<1>2. TypeOK'
  BY <1>1, Zenon DEF IInv, TypeOK
<1>3. \A c : (Started(c)' <=> Started(c)) /\ (Running(c)' <=> Running(c))
  BY <1>1, Zenon DEF Started, Running, Current
<1>4. TransportInv'
  <2>1. transport = "apiserver" => ready' = {}
    BY Zenon DEF IInv, TransportInv
  <2> QED BY <1>1, <2>1, Zenon DEF IInv, TransportInv
<1>5. RequestInv'
  BY <1>1, <1>3, Zenon DEF IInv, RequestInv
<1>6. StartedInv'
  BY <1>1, <1>3, Zenon DEF IInv, StartedInv
<1>7. DrainInv'
  BY <1>1, Zenon DEF IInv, DrainInv, NodeStreams
<1>8. AcquirerInv'
  BY <1>1 DEF IInv, AcquirerInv
<1>9. CachedHelperIntact'
  BY <1>1, <1>3, Zenon DEF IInv, CachedHelperIntact
<1> QED BY <1>2, <1>4, <1>5, <1>6, <1>7, <1>8, <1>9, Zenon DEF IInv

\* The cluster replaces Pods and restarts containers.
LEMMA ClusterPreserves ==
  ASSUME IInv, Cluster
  PROVE  IInv'
<1> USE DEF IInv
<1>1. CASE ReplacePod
  <2>1. UNCHANGED <<transport, container, intact, req, live, serve, drained, activeStreams,
                    ready, inflight, helpers, state>>
        /\ pod < MaxPods /\ pod' = pod + 1 /\ sandboxes' = sandboxes \cup {pod + 1}
    BY <1>1, Zenon DEF ReplacePod, nodeVars, managerVars, acquirerVars
  <2>2. TypeOK'
    BY <2>1, BoundsAssumption DEF TypeOK, PodIDs
  <2>3. \A c : Started(c) => Started(c)'
    <3>1. /\ pod' \in PodIDs /\ pod <= pod'
          /\ \A p \in PodIDs : container'[p] \in 1..MaxContainers /\ container[p] <= container'[p]
      BY <2>1, <2>2, BoundsAssumption DEF TypeOK, PodIDs
    <3> QED BY <3>1, StartedStays, Zenon
  <2>4. \A c \in ContainerIDs : Started(c) /\ Running(c)' => Running(c)
    BY <2>1, BoundsAssumption DEF Started, Running, Current, TypeOK, PodIDs
  <2>6. CachedHelperIntact'
    BY <2>1, <2>4, Zenon DEF CachedHelperIntact, StartedInv, Started, TypeOK
  <2>7. RequestInv'
    BY <2>1, <2>3, Zenon DEF RequestInv
  <2>8. StartedInv'
    BY <2>1, <2>3, BoundsAssumption DEF StartedInv, TypeOK, PodIDs
  <2>9. TransportInv' /\ DrainInv' /\ AcquirerInv'
    BY <2>1 DEF TransportInv, DrainInv, AcquirerInv, NodeStreams
  <2> QED BY <2>2, <2>6, <2>7, <2>8, <2>9, Zenon
<1>2. CASE RemoveSandbox
  <2>1. UNCHANGED <<transport, pod, container, req, live, serve, drained, activeStreams,
                    ready, inflight, helpers, state>>
    BY <1>2, Zenon DEF RemoveSandbox, nodeVars, managerVars, acquirerVars
  <2>2. PICK p \in sandboxes : sandboxes' = sandboxes \ {p}
                               /\ intact' = {f \in intact : f[1][1] # p}
    BY <1>2, Zenon DEF RemoveSandbox
  <2>3. TypeOK'
    BY <2>1, <2>2, Zenon DEF TypeOK
  <2>4. \A c : Started(c)' <=> Started(c)
    BY <2>1, Zenon DEF Started
  <2>5. \A c : Running(c)' => Running(c) /\ c[1] # p
    BY <2>1, <2>2, Zenon DEF Running, Current
  <2>6. CachedHelperIntact'
    BY <2>1, <2>2, <2>5, Zenon DEF CachedHelperIntact, HelperFile
  <2>7. RequestInv' /\ StartedInv'
    BY <2>1, <2>2, <2>4, Zenon DEF RequestInv, StartedInv
  <2>8. TransportInv' /\ DrainInv' /\ AcquirerInv'
    BY <2>1 DEF TransportInv, DrainInv, AcquirerInv, NodeStreams
  <2> QED BY <2>3, <2>6, <2>7, <2>8, Zenon
<1>3. CASE RestartContainer
  <2>1. UNCHANGED <<transport, pod, sandboxes, req, live, serve, drained, activeStreams,
                    ready, inflight, helpers, state>>
    BY <1>3, Zenon DEF RestartContainer, nodeVars, managerVars, acquirerVars
  <2>2. PICK p \in sandboxes : /\ container[p] < MaxContainers
                               /\ container' = [container EXCEPT ![p] = @ + 1]
                               /\ intact' = {f \in intact : f[1] # Current(p)}
    BY <1>3, Zenon DEF RestartContainer
  <2>3. TypeOK'
    BY <2>1, <2>2, BoundsAssumption DEF TypeOK
  <2>4. \A c : Started(c) => Started(c)'
    <3>1. /\ pod' \in PodIDs /\ pod <= pod'
          /\ \A q \in PodIDs : container'[q] \in 1..MaxContainers /\ container[q] <= container'[q]
      BY <2>1, <2>2, <2>3, BoundsAssumption DEF TypeOK, PodIDs
    <3> QED BY <3>1, StartedStays, Zenon
  <2>5. \A c \in ContainerIDs : Started(c) /\ Running(c)' => Running(c) /\ c # Current(p)
    BY <2>1, <2>2, BoundsAssumption DEF Started, Running, Current, TypeOK, PodIDs, ContainerIDs
  <2>7. CachedHelperIntact'
    BY <2>1, <2>2, <2>5, Zenon DEF CachedHelperIntact, StartedInv, Started, TypeOK, HelperFile
  <2>8. RequestInv' /\ StartedInv'
    BY <2>1, <2>2, <2>4, Zenon DEF RequestInv, StartedInv
  <2>9. TransportInv' /\ DrainInv' /\ AcquirerInv'
    BY <2>1 DEF TransportInv, DrainInv, AcquirerInv, NodeStreams
  <2> QED BY <2>3, <2>7, <2>8, <2>9, Zenon
<1>4. CASE CacheExpires
  <2> HIDE DEF IInv
  <2> QED BY <1>4, ForgettingPreserves, Zenon DEF CacheExpires
<1>5. CASE ReplicaCopies
  <2>1. /\ UNCHANGED <<transport, pod, sandboxes, container, req, live, serve, drained,
                       activeStreams, ready, inflight, helpers, state>>
        /\ transport = "apiserver"
    BY <1>5, Zenon DEF ReplicaCopies, clusterVars, nodeVars, managerVars, acquirerVars
  <2>2. intact' \subseteq ContainerIDs \X PodIDs
    <3>1. PICK p \in 1..pod : \/ intact' = intact \ {<<Current(pod), p>>}
                             \/ intact' = intact \cup {<<Current(pod), p>>}
      BY <1>5, Zenon DEF ReplicaCopies
    <3>2. p \in PodIDs /\ pod \in PodIDs
      BY BoundsAssumption DEF TypeOK, PodIDs
    <3>3. Current(pod) \in ContainerIDs
      BY <3>2, Zenon DEF TypeOK, Current, ContainerIDs
    <3>4. <<Current(pod), p>> \in ContainerIDs \X PodIDs /\ intact \subseteq ContainerIDs \X PodIDs
      BY <3>2, <3>3, Zenon DEF TypeOK
    <3>5. \A f : intact \subseteq f /\ <<Current(pod), p>> \in f => intact' \subseteq f
      BY <3>1, Zenon
    <3> QED BY <3>4, <3>5, Zenon
  <2>3. TypeOK'
    BY <2>1, <2>2, Zenon DEF TypeOK
  <2>4. \A c : Started(c)' <=> Started(c)
    BY <2>1, Zenon DEF Started
  <2>5. RequestInv' /\ StartedInv'
    BY <2>1, <2>4, Zenon DEF RequestInv, StartedInv
  <2>6. TransportInv' /\ DrainInv' /\ AcquirerInv'
    BY <2>1 DEF TransportInv, DrainInv, AcquirerInv, NodeStreams
  <2>7. CachedHelperIntact'
    BY <2>1, <2>6, Zenon DEF CachedHelperIntact, TransportInv
  <2> QED BY <2>3, <2>5, <2>6, <2>7, Zenon
<1> QED BY <1>1, <1>2, <1>3, <1>4, <1>5, Zenon DEF Cluster

-----------------------------------------------------------------------------
(* A step of one request                                                    *)

\* What a request may become in a step that leaves the preparations and the acquirer alone.
MayBecome(r, new) ==
  /\ new \in Request
  /\ transport = "cri" =>
       /\ new.pc \notin ByNamePlaces
       /\ new.pc \in AtNode <=> req[r].pc \in AtNode
       /\ new.pc \in AtNode \cup {"begin"} => new.loc = new.uid
       /\ new.pc \in Resolved => Started(new.cid) /\ new.cid[1] = new.loc
       /\ new.err = "canceled" => r \notin live \/ serve # "serving"
  /\ transport = "apiserver" =>
       /\ new.pc \notin {"locate", "begin"} \cup (AtNode \ {"stream"})
       /\ new.pc \in Owning <=> req[r].pc \in Owning
       /\ new.pc \in Owning => new.uid = req[r].uid
       /\ req[r].pc \in {"execByName", "stream", "done"} => new.pc \in {"execByName", "stream", "done"}
  /\ new.pc \notin {"idle", "done"} => new.uid \in PodIDs
  /\ new.pc = "wait" => inflight[new.cid] # "none"
  /\ new.pc # "join"

\* Such a step preserves what the invariant says about requests.
LEMMA RequestMoves ==
  ASSUME IInv, NEW r \in Requests, NEW new, MayBecome(r, new), req' = [req EXCEPT ![r] = new],
         UNCHANGED <<transport, pod, container, live, nodeVars, managerVars, helpers, state>>
  PROVE  /\ req' \in [Requests -> Request] /\ TransportInv' /\ RequestInv' /\ DrainInv'
         /\ AcquirerInv'
<1> USE DEF IInv, nodeVars, managerVars
<1>1. /\ req' \in [Requests -> Request] /\ req'[r] = new
      /\ \A s \in Requests \ {r} : req'[s] = req[s]
  BY Zenon DEF TypeOK, MayBecome
<1>2. TransportInv'
  BY <1>1, Zenon DEF TransportInv, MayBecome
<1>3. \A c : Started(c)' <=> Started(c)
  BY Zenon DEF Started
<1>4. RequestInv'
  BY <1>1, <1>3 DEF RequestInv, MayBecome, TypeOK
<1>5. DrainInv'
  <2>1. CASE transport = "cri"
    <3>1. NodeStreams' = NodeStreams
      BY <1>1, <2>1, Zenon DEF NodeStreams, MayBecome
    <3> QED BY <3>1, Zenon DEF DrainInv
  <2>2. CASE transport = "apiserver"
    BY <2>2, Zenon DEF DrainInv, TransportInv
  <2> QED BY <2>1, <2>2, Zenon DEF TypeOK
<1>6. AcquirerInv'
  <2>1. CASE transport = "cri"
    <3>1. \A s \in Requests : req[s].pc \notin ByNamePlaces /\ req'[s].pc \notin ByNamePlaces
      BY <1>1, <2>1, Zenon DEF TransportInv, MayBecome
    <3>2. \A s \in Requests : req'[s].pc \notin Owning /\ req'[s].pc # "join" /\ state[s] # "running"
      <4>1. Owning \subseteq ByNamePlaces /\ "join" \in ByNamePlaces
        BY Zenon DEF Owning, ByNamePlaces
      <4>2. \A s \in Requests : state[s] = "running" => req[s].pc \in Owning
        BY Zenon DEF AcquirerInv
      <4> QED BY <3>1, <4>1, <4>2, Zenon
    <3>3. \A p \in PodIDs : helpers'[p] = None
      BY <2>1, Zenon DEF TransportInv
    <3> QED BY <3>2, <3>3, Zenon DEF AcquirerInv
  <2>2. CASE transport = "apiserver"
    <3>1. \A s \in Requests : req'[s].pc \in Owning =>
            req[s].pc \in Owning /\ req'[s].uid = req[s].uid
      BY <1>1, <2>2, Zenon DEF MayBecome
    <3>2. \A s \in Requests : req[s].pc \in Owning => req'[s].pc \in Owning
      BY <1>1, <2>2, Zenon DEF MayBecome
    <3>3. \A s \in Requests : req[s].pc \in {"execByName", "stream", "done"} =>
            req'[s].pc \in {"execByName", "stream", "done"}
      BY <1>1, <2>2, Zenon DEF MayBecome
    <3>4. \A s \in Requests : req'[s].pc = "join" => req'[s] = req[s]
      BY <1>1, Zenon DEF MayBecome
    <3> QED BY <3>1, <3>2, <3>3, <3>4, NoneAssumption DEF AcquirerInv, TypeOK
  <2> QED BY <2>1, <2>2, Zenon DEF TypeOK
<1> QED BY <1>1, <1>2, <1>4, <1>5, <1>6, Zenon

\* The rest of the invariant does not mention the requests.
LEMMA OnlyRequestMoves ==
  ASSUME IInv, NEW r \in Requests, NEW new, MayBecome(r, new), req' = [req EXCEPT ![r] = new],
         UNCHANGED <<clusterVars, intact, live, nodeVars, managerVars, acquirerVars>>
  PROVE  IInv'
<1> USE DEF clusterVars, nodeVars, managerVars, acquirerVars
<1>1. /\ req' \in [Requests -> Request] /\ TransportInv' /\ RequestInv' /\ DrainInv'
      /\ AcquirerInv'
  BY RequestMoves, Zenon
<1>2. TypeOK'
  BY <1>1, Zenon DEF IInv, TypeOK
<1>3. StartedInv'
  BY Zenon DEF IInv, StartedInv, Started
<1>4. CachedHelperIntact'
  BY Zenon DEF IInv, CachedHelperIntact, Running, Current
<1> QED BY <1>1, <1>2, <1>3, <1>4, Zenon DEF IInv

\* A finished request.
LEMMA DoneUpdate ==
  ASSUME NEW err \in {"none", "error", "canceled"}
  PROVE  LET n == [NoRequest EXCEPT !.pc = "done", !.err = err] IN
         n \in Request /\ n.pc = "done" /\ n.err = err
<1>1. NoRequest \in Request
  <2>1. "idle" \in Places /\ 0 \in 0..MaxPods
    BY BoundsAssumption DEF Places
  <2> QED BY <2>1, Zenon DEF NoRequest, Request
<1>2. "done" \in Places
  BY Zenon DEF Places
<1> QED BY <1>1, <1>2, Zenon DEF Request

\* The steps that only move a request on: the gateway's, the handler's of the node that
\* neither count streams nor join a preparation, and the joins and execs by name.
LEMMA RequestPreserves ==
  ASSUME IInv, NEW r \in Requests,
         \/ Start(r) \/ Locate(r) \/ StreamEnds(r) \/ HandlerFails(r) \/ ResolveRuntimeTarget(r)
         \/ NodeExec(r) \/ PrepareCached(r) \/ PrepareReturns(r) \/ PrepareCanceled(r)
         \/ JoinReturns(r) \/ ExecByName(r)
  PROVE  IInv'
<1> DEFINE Rest == UNCHANGED <<clusterVars, intact, live, nodeVars, managerVars, acquirerVars>>
<1>1. Rest
  BY Zenon DEF Start, Locate, StreamEnds, HandlerFails, ResolveRuntimeTarget, NodeExec, PrepareCached,
         PrepareReturns, PrepareCanceled, JoinReturns, ExecByName
<1>2. req \in [Requests -> Request] /\ req[r] \in Request
  BY Zenon DEF IInv, TypeOK
<1>3. SUFFICES \E new : MayBecome(r, new) /\ req' = [req EXCEPT ![r] = new]
  BY <1>1, OnlyRequestMoves, Zenon
<1>4. pod \in PodIDs /\ pod \in 0..MaxPods /\ transport \in {"cri", "apiserver"}
  BY BoundsAssumption DEF IInv, TypeOK, PodIDs
<1> USE DEF AtNode, Resolved, ByNamePlaces, Owning
<1>5. ASSUME NEW err \in {"none", "error", "canceled"}, Done(r, err),
             transport = "cri" /\ err = "canceled" => r \notin live \/ serve # "serving",
             req[r].pc \notin AtNode \/ transport # "cri", req[r].pc \notin Owning
      PROVE  \E new : MayBecome(r, new) /\ req' = [req EXCEPT ![r] = new]
  <2> DEFINE new == [NoRequest EXCEPT !.pc = "done", !.err = err]
  <2>1. new \in Request /\ new.pc = "done" /\ new.err = err
    BY <1>5, DoneUpdate, Zenon
  <2>2. req' = [req EXCEPT ![r] = new]
    BY <1>5, Zenon DEF Done
  <2> HIDE DEF new
  <2>3. MayBecome(r, new)
    BY <1>5, <2>1, Zenon DEF MayBecome
  <2> QED BY <2>2, <2>3, Zenon
<1>6. CASE Start(r)
  <2>1. PICK op \in {"exec", "helper", "portForward"} :
          /\ req[r].pc = "idle"
          /\ req' = [req EXCEPT ![r].op = op, ![r].uid = pod,
               ![r].pc = IF transport = "cri" THEN "locate"
                         ELSE IF op = "helper" THEN "acquire" ELSE "execByName"]
    BY <1>6, Zenon DEF Start
  <2>2. PICK to \in {"locate", "acquire", "execByName"} :
          /\ req' = [req EXCEPT ![r].op = op, ![r].uid = pod, ![r].pc = to]
          /\ to = "locate" <=> transport = "cri"
    BY <2>1, Zenon
  <2> DEFINE new == [req[r] EXCEPT !.op = op, !.uid = pod, !.pc = to]
  <2>3. new \in Request /\ new.pc = to /\ new.uid = pod /\ new.err = req[r].err
    <3>1. to \in Places
      BY Zenon DEF Places
    <3> QED BY <1>2, <1>4, <3>1, Zenon DEF Request
  <2>4. req' = [req EXCEPT ![r] = new]
    BY <1>2, <2>2, Zenon
  <2> HIDE DEF new
  <2>5. MayBecome(r, new)
    BY <1>4, <2>1, <2>2, <2>3, Zenon DEF MayBecome, IInv, RequestInv
  <2> QED BY <2>4, <2>5, Zenon
<1>7. CASE Locate(r)
  <2>1. CASE SameInstance(req[r].uid, pod) /\ req' = [req EXCEPT ![r].pc = "begin", ![r].loc = pod]
    <3> DEFINE new == [req[r] EXCEPT !.pc = "begin", !.loc = pod]
    <3>1. /\ new \in Request /\ new.pc = "begin" /\ new.loc = pod /\ new.uid = req[r].uid
          /\ new.err = req[r].err
      <4>1. "begin" \in Places
        BY Zenon DEF Places
      <4> QED BY <1>2, <1>4, <4>1, Zenon DEF Request
    <3>2. req' = [req EXCEPT ![r] = new]
      BY <1>2, <2>1, Zenon
    <3> HIDE DEF new
    <3>3. MayBecome(r, new)
      BY <1>4, <1>7, <2>1, <3>1, Zenon DEF Locate, SameInstance, MayBecome, IInv, RequestInv, TransportInv
    <3> QED BY <3>2, <3>3, Zenon
  <2>2. CASE Done(r, "error")
    BY <1>5, <1>7, <2>2, Zenon DEF Locate
  <2> QED BY <1>7, <2>1, <2>2, Zenon DEF Locate
<1>8. ASSUME NEW to \in {"exec", "doChan", "stream", "ending", "execByName"}, Goto(r, to),
             transport = "cri" => req[r].pc \in AtNode /\ to # "execByName",
             transport = "apiserver" => req[r].pc = "join" /\ to = "execByName",
             to \in Resolved => req[r].pc \in Resolved
      PROVE  \E new : MayBecome(r, new) /\ req' = [req EXCEPT ![r] = new]
  <2> DEFINE new == [req[r] EXCEPT !.pc = to]
  <2>1. /\ new \in Request /\ new.pc = to /\ new.loc = req[r].loc /\ new.uid = req[r].uid
        /\ new.cid = req[r].cid /\ new.err = req[r].err
    <3>1. to \in Places
      BY Zenon DEF Places
    <3> QED BY <1>2, <3>1, Zenon DEF Request
  <2>2. req' = [req EXCEPT ![r] = new]
    BY <1>2, <1>8, Zenon DEF Goto
  <2> HIDE DEF new
  <2>3. MayBecome(r, new)
    BY <1>4, <1>8, <2>1, Zenon DEF MayBecome, IInv, RequestInv
  <2> QED BY <2>2, <2>3, Zenon
<1>9. ASSUME NEW err \in {"error", "canceled"}, Fail(r, "ending", err),
             transport = "cri", req[r].pc \in AtNode, err = "canceled" => r \notin live
      PROVE  \E new : MayBecome(r, new) /\ req' = [req EXCEPT ![r] = new]
  <2> DEFINE new == [req[r] EXCEPT !.pc = "ending", !.err = err]
  <2>1. /\ new \in Request /\ new.pc = "ending" /\ new.loc = req[r].loc /\ new.uid = req[r].uid
        /\ new.err = err
    <3>1. "ending" \in Places
      BY Zenon DEF Places
    <3> QED BY <1>2, <1>9, <3>1, ZenonT(60) DEF Request
  <2>2. req' = [req EXCEPT ![r] = new]
    BY <1>2, <1>9, Zenon DEF Fail
  <2> HIDE DEF new
  <2>3. MayBecome(r, new)
    BY <1>4, <1>9, <2>1, Zenon DEF MayBecome, IInv, RequestInv
  <2> QED BY <2>2, <2>3, Zenon
<1>10. req[r].pc \in AtNode \ {"stream"} => transport = "cri"
  BY <1>4, Zenon DEF IInv, TransportInv
<1>11. CASE StreamEnds(r)
  <2>1. CASE transport = "cri"
    BY <1>8, <1>11, <2>1, Zenon DEF StreamEnds
  <2>2. CASE transport # "cri"
    BY <1>5, <1>11, <2>2, Zenon DEF StreamEnds
  <2> QED BY <2>1, <2>2, Zenon
<1>12. CASE HandlerFails(r)
  BY <1>9, <1>10, <1>12, Zenon DEF HandlerFails
<1>13. CASE NodeExec(r)
  BY <1>8, <1>10, <1>13, Zenon DEF NodeExec
<1>14. CASE PrepareCached(r)
  BY <1>8, <1>10, <1>14, Zenon DEF PrepareCached
<1>15. CASE PrepareReturns(r)
  BY <1>8, <1>10, <1>15, Zenon DEF PrepareReturns
<1>16. CASE PrepareCanceled(r)
  BY <1>9, <1>10, <1>16, Zenon DEF PrepareCanceled
<1>17. CASE ResolveRuntimeTarget(r)
  <2>1. PICK to \in {"prepare", "exec"} :
          req' = [req EXCEPT ![r].cid = Current(req[r].loc), ![r].pc = to]
    BY <1>17, Zenon DEF ResolveRuntimeTarget
  <2>2. req[r].pc = "resolve" /\ req[r].loc \in sandboxes /\ transport = "cri"
    BY <1>10, <1>17, Zenon DEF ResolveRuntimeTarget
  <2>3. Started(Current(req[r].loc)) /\ Current(req[r].loc)[1] = req[r].loc
    <3>1. /\ req[r].loc \in PodIDs /\ req[r].loc <= pod
          /\ container[req[r].loc] \in 1..MaxContainers
      BY <2>2, Zenon DEF IInv, TypeOK, StartedInv
    <3>2. container[req[r].loc] <= container[req[r].loc]
      BY <3>1, BoundsAssumption
    <3> QED BY <3>1, <3>2, Zenon DEF Started, Current, ContainerIDs
  <2> DEFINE new == [req[r] EXCEPT !.cid = Current(req[r].loc), !.pc = to]
  <2>4. /\ new \in Request /\ new.pc = to /\ new.loc = req[r].loc /\ new.uid = req[r].uid
        /\ new.cid = Current(req[r].loc) /\ new.err = req[r].err
    <3>1. to \in Places /\ Current(req[r].loc) \in ContainerIDs
      BY <2>3, Zenon DEF Places, Started
    <3> QED BY <1>2, <3>1, Zenon DEF Request
  <2>5. req' = [req EXCEPT ![r] = new]
    BY <1>2, <2>1, Zenon
  <2> HIDE DEF new
  <2>6. MayBecome(r, new)
    BY <2>2, <2>3, <2>4, Zenon DEF MayBecome, IInv, RequestInv
  <2> QED BY <2>5, <2>6, Zenon
<1>18. CASE JoinReturns(r)
  <2>1. req[r].pc = "join" /\ transport = "apiserver" /\ req[r].owner \in Requests
    BY <1>4, <1>18, Zenon DEF JoinReturns, IInv, TransportInv, RequestInv
  <2>2. req[req[r].owner].err \in {"none", "error", "canceled"}
    BY <1>2, <2>1, Zenon DEF Request
  <2>3. CASE Goto(r, "execByName")
    BY <1>8, <2>1, <2>3, Zenon
  <2>4. CASE \E err \in {"none", "error", "canceled"} : Done(r, err)
    BY <1>5, <2>1, <2>4, Zenon
  <2> QED BY <1>18, <2>2, <2>3, <2>4, Zenon DEF JoinReturns
<1>19. CASE ExecByName(r)
  <2>1. req[r].pc = "execByName" /\ transport = "apiserver"
    BY <1>4, <1>19, Zenon DEF ExecByName, IInv, TransportInv
  <2>2. CASE req' = [req EXCEPT ![r].pc = "stream", ![r].cid = Current(pod)]
    <3> DEFINE new == [req[r] EXCEPT !.pc = "stream", !.cid = Current(pod)]
    <3>1. new \in Request /\ new.pc = "stream" /\ new.uid = req[r].uid
      <4>1. "stream" \in Places
        BY Zenon DEF Places
      <4>2. Current(pod) \in ContainerIDs
        BY <1>4, Zenon DEF IInv, TypeOK, Current, ContainerIDs
      <4> QED BY <1>2, <4>1, <4>2, Zenon DEF Request
    <3>2. req' = [req EXCEPT ![r] = new]
      BY <1>2, <2>2, Zenon
    <3> HIDE DEF new
    <3>3. MayBecome(r, new)
      BY <2>1, <3>1, Zenon DEF MayBecome, IInv, RequestInv
    <3> QED BY <3>2, <3>3, Zenon
  <2>3. CASE Done(r, "error")
    BY <1>5, <2>1, <2>3, Zenon
  <2> QED BY <1>19, <2>2, <2>3, Zenon DEF ExecByName
<1> QED BY <1>6, <1>7, <1>11, <1>12, <1>13, <1>14, <1>15, <1>16, <1>17, <1>18, <1>19, Zenon

\* The context of a request is done.
LEMMA CancelPreserves ==
  ASSUME IInv, NEW r \in Requests, Cancel(r)
  PROVE  IInv'
  BY ForgettingPreserves, Zenon DEF Cancel, managerVars

-----------------------------------------------------------------------------
(* The node: streams are counted, preparations shared                       *)

\* What is known of a request behind the CRI transport.
CriRequest(r) ==
  /\ req[r].pc \notin ByNamePlaces
  /\ req[r].pc \notin {"idle", "done"} => req[r].uid \in PodIDs
  /\ req[r].pc \in AtNode \cup {"begin"} => req[r].loc = req[r].uid
  /\ req[r].pc \in Resolved => Started(req[r].cid) /\ req[r].cid[1] = req[r].loc
  /\ req[r].pc = "wait" => inflight[req[r].cid] # "none"
  /\ req[r].err = "canceled" => r \notin live \/ serve # "serving"

\* A step of the node keeps the invariant if it keeps that, the types, the count of streams
\* and what the manager knows.
LEMMA NodeMoves ==
  ASSUME IInv, transport = "cri", UNCHANGED <<clusterVars, acquirerVars>>,
         TypeOK', \A r \in Requests : CriRequest(r)', DrainInv', StartedInv',
         CachedHelperIntact'
  PROVE  IInv'
<1>1. UNCHANGED <<transport, helpers, state>>
  BY Zenon DEF clusterVars, acquirerVars
<1>2. TransportInv'
  BY <1>1, Zenon DEF IInv, TransportInv, CriRequest
<1>3. RequestInv'
  BY <1>1, Zenon DEF RequestInv, CriRequest, ByNamePlaces
<1>4. AcquirerInv'
  BY <1>1, Zenon DEF IInv, TransportInv, AcquirerInv, CriRequest, ByNamePlaces, Owning
<1> QED BY <1>2, <1>3, <1>4, Zenon DEF IInv

\* The invariant says as much of every request.
LEMMA CriRequests ==
  ASSUME IInv, transport = "cri"
  PROVE  \A r \in Requests : CriRequest(r)
  BY Zenon DEF IInv, TransportInv, RequestInv, CriRequest

\* What the invariant says about everything but the requests and the count of streams.
LEMMA RestPreserved ==
  ASSUME IInv, UNCHANGED <<clusterVars, intact, managerVars, acquirerVars>>
  PROVE  StartedInv' /\ CachedHelperIntact'
  BY Zenon DEF IInv, StartedInv, CachedHelperIntact, Started, Running, Current, clusterVars,
         managerVars, acquirerVars

\* beginStream and endStream.
LEMMA StreamPreserves ==
  ASSUME IInv, NEW r \in Requests, BeginStream(r) \/ EndStream(r)
  PROVE  IInv'
<1>1. /\ UNCHANGED <<clusterVars, intact, live, serve, managerVars, acquirerVars>>
      /\ req[r].pc \in {"begin", "ending"}
  BY Zenon DEF BeginStream, EndStream
<1>2. /\ req \in [Requests -> Request] /\ req[r] \in Request /\ IsFiniteSet(NodeStreams)
      /\ transport \in {"cri", "apiserver"}
  BY RequestsAssumption, FS_Subset, Zenon DEF IInv, TypeOK, NodeStreams
<1>3. transport = "cri" /\ activeStreams = Cardinality(NodeStreams) /\ activeStreams \in Nat
  BY <1>1, <1>2, Zenon DEF IInv, TypeOK, TransportInv, DrainInv, AtNode
<1>4. \A s \in Requests : CriRequest(s)
  BY <1>3, CriRequests, Zenon
<1>5. \A c : Started(c)' <=> Started(c)
  BY <1>1, Zenon DEF Started, clusterVars
<1>6. SUFFICES /\ req' \in [Requests -> Request] /\ \A s \in Requests : CriRequest(s)'
               /\ activeStreams' \in Nat /\ drained' \in {"none", "open", "closed"} /\ DrainInv'
  BY <1>1, <1>3, RestPreserved, NodeMoves, Zenon
  DEF IInv, TypeOK, clusterVars, managerVars, acquirerVars
<1>7. ASSUME NEW new, new \in Request, req' = [req EXCEPT ![r] = new],
             new.pc \in {"resolve", "done"}, new.err = req[r].err \/ new.err = "error",
             new.pc = "resolve" => new.loc = req[r].loc /\ new.uid = req[r].uid
                                   /\ req[r].pc = "begin"
      PROVE  req' \in [Requests -> Request] /\ \A s \in Requests : CriRequest(s)'
  <2>1. /\ req' \in [Requests -> Request] /\ req'[r] = new
        /\ \A s \in Requests \ {r} : req'[s] = req[s]
    BY <1>2, <1>7, Zenon
  <2>2. UNCHANGED <<live, serve, inflight>>
    BY <1>1, Zenon DEF managerVars
  <2>3. CriRequest(r)'
    BY <1>1, <1>4, <1>7, <2>1, <2>2, Zenon DEF CriRequest, ByNamePlaces, AtNode, Resolved
  <2>4. \A s \in Requests \ {r} : CriRequest(s)'
    BY <1>4, <1>5, <2>1, <2>2, Zenon DEF CriRequest
  <2> QED BY <2>1, <2>3, <2>4, Zenon
<1>8. CASE BeginStream(r)
  <2>1. CASE AcceptStream
    <3> DEFINE new == [req[r] EXCEPT !.pc = "resolve"]
    <3>1. /\ new \in Request /\ new.pc = "resolve" /\ new.loc = req[r].loc
          /\ new.uid = req[r].uid /\ new.err = req[r].err
      <4>1. "resolve" \in Places
        BY Zenon DEF Places
      <4> QED BY <1>2, <4>1, Zenon DEF Request
    <3>2. /\ req' = [req EXCEPT ![r] = new] /\ req[r].pc = "begin"
          /\ activeStreams' = activeStreams + 1 /\ drained' = drained
      BY <1>2, <1>8, <2>1, Zenon DEF BeginStream, Goto
    <3> HIDE DEF new
    <3>3. req' \in [Requests -> Request] /\ \A s \in Requests : CriRequest(s)'
      BY <1>7, <3>1, <3>2, Zenon
    <3>4. NodeStreams' = NodeStreams \cup {r} /\ r \notin NodeStreams
      BY <1>2, <3>1, <3>2, Zenon DEF NodeStreams, AtNode
    <3>5. Cardinality(NodeStreams') = Cardinality(NodeStreams) + 1
      BY <1>2, <3>4, FS_AddElement, Zenon
    <3>6. DrainInv'
      BY <1>1, <1>3, <2>1, <3>2, <3>5, Zenon DEF IInv, DrainInv, AcceptStream
    <3> QED BY <1>3, <3>2, <3>3, <3>6 DEF IInv, TypeOK
  <2>2. CASE ~AcceptStream
    <3> DEFINE new == [NoRequest EXCEPT !.pc = "done", !.err = "error"]
    <3>1. new \in Request /\ new.pc = "done" /\ new.err = "error"
      BY DoneUpdate, Zenon
    <3>2. /\ req' = [req EXCEPT ![r] = new] /\ req[r].pc = "begin"
          /\ activeStreams' = activeStreams /\ drained' = drained
      BY <1>8, <2>2, Zenon DEF BeginStream, Done
    <3> HIDE DEF new
    <3>3. req' \in [Requests -> Request] /\ \A s \in Requests : CriRequest(s)'
      BY <1>7, <3>1, <3>2, Zenon
    <3>4. NodeStreams' = NodeStreams
      BY <1>2, <3>1, <3>2, Zenon DEF NodeStreams, AtNode
    <3>5. DrainInv'
      BY <1>1, <1>3, <3>2, <3>4, Zenon DEF IInv, DrainInv, clusterVars
    <3> QED BY <1>3, <3>2, <3>3, <3>5, Zenon DEF IInv, TypeOK
  <2> QED BY <2>1, <2>2, Zenon
<1>9. CASE EndStream(r)
  <2> DEFINE new == [NoRequest EXCEPT !.pc = "done", !.err = req[r].err]
  <2>1. new \in Request /\ new.pc = "done" /\ new.err = req[r].err
    <3>1. req[r].err \in {"none", "error", "canceled"}
      BY <1>2, Zenon DEF Request
    <3> QED BY <3>1, DoneUpdate, Zenon
  <2>2. /\ req' = [req EXCEPT ![r] = new] /\ req[r].pc = "ending"
        /\ activeStreams' = activeStreams - 1
        /\ drained' = IF drained = "open" /\ activeStreams = 1 THEN "closed" ELSE drained
    BY <1>9, Zenon DEF EndStream, Done
  <2> HIDE DEF new
  <2>3. req' \in [Requests -> Request] /\ \A s \in Requests : CriRequest(s)'
    BY <1>7, <2>1, <2>2, Zenon
  <2>4. NodeStreams' = NodeStreams \ {r} /\ r \in NodeStreams
    BY <1>2, <2>1, <2>2, Zenon DEF NodeStreams, AtNode
  <2>5. Cardinality(NodeStreams') = Cardinality(NodeStreams) - 1 /\ IsFiniteSet(NodeStreams')
    BY <1>2, <2>4, FS_RemoveElement, Zenon
  <2>6. Cardinality(NodeStreams') \in Nat
    BY <2>5, FS_CardinalityType, Zenon
  <2>7. activeStreams = 1 => NodeStreams' = {}
    BY <1>3, <2>5, FS_EmptySet
  <2>8. DrainInv'
    BY <1>1, <1>3, <2>2, <2>4, <2>5, <2>7, Zenon DEF IInv, DrainInv
  <2> QED BY <1>3, <2>2, <2>3, <2>5, <2>6, <2>8, Zenon DEF IInv, TypeOK
<1> QED BY <1>8, <1>9, Zenon

\* DoChan joins the preparation of a container, or starts it.
LEMMA DoChanPreserves ==
  ASSUME IInv, NEW r \in Requests, DoChan(r)
  PROVE  IInv'
<1>1. /\ UNCHANGED <<clusterVars, intact, live, nodeVars, ready, acquirerVars>>
      /\ req[r].pc = "doChan"
      /\ inflight' = [inflight EXCEPT ![req[r].cid] = IF @ = "none" THEN "begin" ELSE @]
  BY Zenon DEF DoChan
<1>2. /\ req \in [Requests -> Request] /\ req[r] \in Request
      /\ transport \in {"cri", "apiserver"}
      /\ inflight \in [ContainerIDs -> {"none", "begin", "inject", "probe"}]
  BY Zenon DEF IInv, TypeOK
<1>3. transport = "cri"
  BY <1>1, <1>2, Zenon DEF IInv, TransportInv, AtNode
<1>4. \A s \in Requests : CriRequest(s)
  BY <1>3, CriRequests, Zenon
<1>5. Started(req[r].cid) /\ req[r].cid \in ContainerIDs
  BY <1>1, <1>4, Zenon DEF CriRequest, Resolved, Started
<1>6. /\ inflight' \in [ContainerIDs -> {"none", "begin", "inject", "probe"}]
      /\ inflight'[req[r].cid] # "none"
      /\ \A c \in ContainerIDs \ {req[r].cid} : inflight'[c] = inflight[c]
  BY <1>1, <1>2, <1>5, Zenon
<1> DEFINE new == [req[r] EXCEPT !.pc = "wait"]
<1>7. /\ new \in Request /\ new.pc = "wait" /\ new.loc = req[r].loc /\ new.cid = req[r].cid
      /\ new.uid = req[r].uid /\ new.err = req[r].err
  <2>1. "wait" \in Places
    BY Zenon DEF Places
  <2> QED BY <1>2, <2>1, Zenon DEF Request
<1>8. req' = [req EXCEPT ![r] = new]
  BY <1>2, Zenon DEF DoChan, Goto
<1> HIDE DEF new
<1>9. /\ req' \in [Requests -> Request] /\ req'[r] = new
      /\ \A s \in Requests \ {r} : req'[s] = req[s]
  BY <1>2, <1>7, <1>8, Zenon
<1>10. \A c : Started(c)' <=> Started(c)
  BY <1>1, Zenon DEF Started, clusterVars
<1>11. UNCHANGED <<live, serve>>
  BY <1>1, Zenon DEF nodeVars
<1>12. CriRequest(r)'
  BY <1>1, <1>4, <1>6, <1>7, <1>9, <1>10, <1>11, Zenon DEF CriRequest, ByNamePlaces, AtNode, Resolved
<1>13. ASSUME NEW s \in Requests \ {r}
       PROVE  CriRequest(s)'
  <2>1. CriRequest(s) /\ req'[s] = req[s]
    BY <1>4, <1>9, Zenon
  <2>2. req[s].pc = "wait" => inflight'[req[s].cid] # "none"
    BY <1>6, <2>1, Zenon DEF CriRequest, Resolved, Started
  <2> QED BY <1>10, <1>11, <2>1, <2>2, Zenon DEF CriRequest
<1>14. DrainInv'
  <2>1. NodeStreams' = NodeStreams
    BY <1>1, <1>7, <1>9, Zenon DEF NodeStreams, AtNode
  <2> QED BY <1>1, <2>1, Zenon DEF IInv, DrainInv, nodeVars, clusterVars
<1>15. StartedInv'
  BY <1>1, <1>5, <1>6, <1>10, Zenon DEF IInv, StartedInv, clusterVars, acquirerVars
<1>16. CachedHelperIntact'
  BY <1>1, Zenon DEF IInv, CachedHelperIntact, Running, Current, clusterVars, acquirerVars
<1>17. TypeOK'
  BY <1>1, <1>6, <1>9, Zenon DEF IInv, TypeOK, clusterVars, nodeVars, acquirerVars
<1> QED BY <1>1, <1>3, <1>12, <1>13, <1>14, <1>15, <1>16, <1>17, NodeMoves, Zenon

\* The context of serve is done, and the node starts to drain.
LEMMA ShutdownPreserves ==
  ASSUME IInv, ContextDone \/ StartStreamDrain
  PROVE  IInv'
<1>1. /\ UNCHANGED <<clusterVars, intact, req, live, activeStreams, managerVars, acquirerVars>>
      /\ serve' \in {"canceled", "draining"} /\ serve' # "serving"
      /\ transport = "cri"
  BY Zenon DEF ContextDone, StartStreamDrain, IInv, TypeOK, TransportInv
<1>2. \A r \in Requests : CriRequest(r)'
  BY <1>1, CriRequests, Zenon DEF CriRequest, Started, clusterVars, managerVars
<1>3. StartedInv' /\ CachedHelperIntact'
  BY <1>1, RestPreserved, Zenon
<1>4. NodeStreams' = NodeStreams
  BY <1>1, Zenon DEF NodeStreams
<1>5. activeStreams = 0 => NodeStreams = {}
  <2>1. IsFiniteSet(NodeStreams)
    BY RequestsAssumption, FS_Subset, Zenon DEF NodeStreams
  <2> QED BY <1>1, <2>1, FS_EmptySet, Zenon DEF IInv, DrainInv
<1>6. DrainInv' /\ drained' \in {"none", "open", "closed"}
  <2>1. CASE ContextDone
    BY <1>1, <1>4, <2>1, Zenon DEF ContextDone, IInv, DrainInv, TypeOK, clusterVars
  <2>2. CASE StartStreamDrain
    BY <1>1, <1>4, <1>5, <2>2, Zenon DEF StartStreamDrain, IInv, DrainInv, TypeOK, clusterVars
  <2> QED BY <2>1, <2>2, Zenon
<1>7. TypeOK'
  BY <1>1, <1>6, Zenon DEF IInv, TypeOK, clusterVars, managerVars, acquirerVars
<1> QED BY <1>1, <1>2, <1>3, <1>6, <1>7, NodeMoves, Zenon

\* The process of the node ends.
LEMMA ServeReturnsPreserves ==
  ASSUME IInv, ServeReturns
  PROVE  IInv'
<1> DEFINE over == [NoRequest EXCEPT !.pc = "done", !.err = "error"]
<1>1. over \in Request /\ over.pc = "done" /\ over.err = "error"
  BY DoneUpdate, Zenon
<1>2. /\ UNCHANGED <<clusterVars, intact, live, drained, acquirerVars>>
      /\ serve = "draining" /\ serve' = "stopped" /\ activeStreams' = 0 /\ ready' = {}
      /\ inflight' = [c \in ContainerIDs |-> "none"]
      /\ req' = [r \in Requests |-> IF req[r].pc \in AtNode THEN over ELSE req[r]]
  BY Zenon DEF ServeReturns
<1> HIDE DEF over
<1>3. transport = "cri"
  BY <1>2, Zenon DEF IInv, TypeOK, TransportInv
<1>4. \A r \in Requests : CriRequest(r)
  BY <1>3, CriRequests, Zenon
<1>5. req' \in [Requests -> Request] /\ \A r \in Requests : req'[r].pc \notin AtNode
  BY <1>1, <1>2, Zenon DEF IInv, TypeOK, AtNode
<1>6. \A r \in Requests : CriRequest(r)'
  <2> SUFFICES ASSUME NEW r \in Requests PROVE CriRequest(r)'
    BY Zenon
  <2>1. CASE req[r].pc \in AtNode
    BY <1>1, <1>2, <2>1, Zenon DEF CriRequest, AtNode, ByNamePlaces, Resolved
  <2>2. CASE req[r].pc \notin AtNode
    BY <1>2, <1>4, <2>2, Zenon DEF CriRequest, AtNode, ByNamePlaces, Resolved
  <2> QED BY <2>1, <2>2, Zenon
<1>7. DrainInv'
  <2>1. NodeStreams' = {}
    BY <1>5, Zenon DEF NodeStreams
  <2> QED BY <1>2, <2>1, FS_EmptySet, Zenon DEF IInv, DrainInv
<1>8. StartedInv'
  BY <1>2, Zenon DEF IInv, StartedInv, Started, clusterVars, acquirerVars
<1>9. CachedHelperIntact'
  BY <1>2, Zenon DEF IInv, CachedHelperIntact, Running, Current, clusterVars, acquirerVars
<1>10. TypeOK'
  BY <1>2, <1>5, Zenon DEF IInv, TypeOK, clusterVars, acquirerVars
<1> QED BY <1>2, <1>3, <1>6, <1>7, <1>8, <1>9, <1>10, NodeMoves, Zenon

\* The result of a preparation reaches everyone who waits for it.
LEMMA CompleteServes ==
  ASSUME IInv, transport = "cri", NEW c \in ContainerIDs,
         NEW to \in {"prepared", "unprepared"}, NEW err \in {"none", "error", "canceled"},
         err = "canceled" => serve # "serving", Complete(c, to, err),
         UNCHANGED <<clusterVars, live, nodeVars>>
  PROVE  /\ req' \in [Requests -> Request] /\ DrainInv'
         /\ inflight' \in [ContainerIDs -> {"none", "begin", "inject", "probe"}]
         /\ \A d \in ContainerIDs : inflight'[d] # "none" => inflight[d] # "none"
         /\ \A r \in Requests : CriRequest(r)'
<1> DEFINE new(r) == [req[r] EXCEPT !.pc = to, !.err = err]
           waits(r) == req[r].pc = "wait" /\ req[r].cid = c
<1>1. /\ inflight' = [inflight EXCEPT ![c] = "none"]
      /\ req' = [r \in Requests |-> IF waits(r) THEN new(r) ELSE req[r]]
  BY Zenon DEF Complete
<1>2. req \in [Requests -> Request]
      /\ inflight \in [ContainerIDs -> {"none", "begin", "inject", "probe"}]
  BY Zenon DEF IInv, TypeOK
<1>3. ASSUME NEW r \in Requests
      PROVE  /\ new(r) \in Request /\ new(r).pc = to /\ new(r).loc = req[r].loc
             /\ new(r).cid = req[r].cid /\ new(r).uid = req[r].uid /\ new(r).err = err
  <2>1. to \in Places
    BY Zenon DEF Places
  <2> QED BY <1>2, <1>3, <2>1, ZenonT(60) DEF Request
<1> HIDE DEF new
<1>4. /\ inflight' \in [ContainerIDs -> {"none", "begin", "inject", "probe"}]
      /\ inflight'[c] = "none" /\ \A d \in ContainerIDs \ {c} : inflight'[d] = inflight[d]
  BY <1>1, <1>2, Zenon
<1>5. req' \in [Requests -> Request]
  BY <1>1, <1>2, <1>3, Zenon
<1>6. \A d : Started(d)' <=> Started(d)
  BY Zenon DEF Started, clusterVars
<1>7. UNCHANGED <<live, serve>>
  BY Zenon DEF nodeVars
<1>8. ASSUME NEW r \in Requests
      PROVE  CriRequest(r)'
  <2>1. CriRequest(r)
    BY CriRequests, Zenon
  <2>2. CASE waits(r)
    <3>1. req'[r] = new(r)
      BY <1>1, <2>2, Zenon
    <3> QED BY <1>3, <1>6, <1>7, <2>1, <2>2, <3>1, Zenon DEF CriRequest, AtNode, ByNamePlaces, Resolved
  <2>3. CASE ~waits(r)
    <3>1. req'[r] = req[r]
      BY <1>1, <2>3, Zenon
    <3>2. req[r].pc = "wait" => inflight'[req[r].cid] # "none"
      BY <1>4, <2>1, <2>3, Zenon DEF CriRequest, Resolved, Started
    <3> QED BY <1>6, <1>7, <2>1, <3>1, <3>2, Zenon DEF CriRequest
  <2> QED BY <2>2, <2>3, Zenon
<1>9. DrainInv'
  <2>1. \A r \in Requests : req'[r].pc \in AtNode <=> req[r].pc \in AtNode
    BY <1>1, <1>3, Zenon DEF AtNode
  <2>2. NodeStreams' = NodeStreams
    BY <2>1, Zenon DEF NodeStreams
  <2> QED BY <2>2, Zenon DEF IInv, DrainInv, nodeVars, clusterVars
<1> QED BY <1>4, <1>5, <1>8, <1>9, Zenon

\* A preparation of the helperManager.
LEMMA PreparationPreserves ==
  ASSUME IInv, NEW c \in ContainerIDs, Preparation(c)
  PROVE  IInv'
<1>1. UNCHANGED <<clusterVars, live, nodeVars, acquirerVars>> /\ inflight[c] # "none"
  BY Zenon DEF Preparation, BeginPrepare, Inject, Probe, PrepareFails
<1>2. transport = "cri"
  BY <1>1, Zenon DEF IInv, TypeOK, TransportInv
<1>3. \A d : (Started(d)' <=> Started(d)) /\ (Running(d)' <=> Running(d))
  BY <1>1, Zenon DEF Started, Running, Current, clusterVars
<1>4. Started(c)
  BY <1>1, Zenon DEF IInv, StartedInv
<1>5. HelperFile(c) \in ContainerIDs \X PodIDs
  BY Zenon DEF HelperFile, ContainerIDs
<1>6. \A p \in PodIDs : helpers'[p] = None
  BY <1>1, <1>2, Zenon DEF IInv, TransportInv, acquirerVars
<1>7. ASSUME ready' \subseteq ContainerIDs, intact' \subseteq ContainerIDs \X PodIDs,
             req' \in [Requests -> Request],
             inflight' \in [ContainerIDs -> {"none", "begin", "inject", "probe"}],
             \A r \in Requests : CriRequest(r)', DrainInv',
             \A d \in ready' : Started(d) /\ (Running(d) => HelperFile(d) \in intact'),
             \A d \in ContainerIDs : inflight'[d] # "none" => inflight[d] # "none"
      PROVE  IInv'
  <2>1. TypeOK'
    BY <1>1, <1>7, Zenon DEF IInv, TypeOK, clusterVars, nodeVars, acquirerVars
  <2>2. StartedInv'
    BY <1>1, <1>3, <1>7, Zenon DEF IInv, StartedInv, clusterVars, acquirerVars
  <2>3. CachedHelperIntact'
    BY <1>3, <1>6, <1>7, Zenon DEF CachedHelperIntact, HelperFile
  <2> QED BY <1>1, <1>2, <1>7, <2>1, <2>2, <2>3, NodeMoves, Zenon
<1>8. /\ ready \subseteq ContainerIDs /\ intact \subseteq ContainerIDs \X PodIDs
      /\ req \in [Requests -> Request]
      /\ inflight \in [ContainerIDs -> {"none", "begin", "inject", "probe"}]
      /\ \A d \in ready : Started(d) /\ (Running(d) => HelperFile(d) \in intact)
  BY Zenon DEF IInv, TypeOK, StartedInv, CachedHelperIntact
<1>9. ASSUME req' = req, NEW step \in {"inject", "probe"},
             inflight' = [inflight EXCEPT ![c] = step]
      PROVE  /\ req' \in [Requests -> Request] /\ \A r \in Requests : CriRequest(r)'
             /\ DrainInv'
             /\ inflight' \in [ContainerIDs -> {"none", "begin", "inject", "probe"}]
             /\ \A d \in ContainerIDs : inflight'[d] # "none" => inflight[d] # "none"
  <2>1. /\ inflight' \in [ContainerIDs -> {"none", "begin", "inject", "probe"}]
        /\ \A d \in ContainerIDs : inflight'[d] # "none" <=> inflight[d] # "none"
    BY <1>1, <1>8, <1>9, Zenon
  <2>2. \A r \in Requests : CriRequest(r)'
    <3> SUFFICES ASSUME NEW r \in Requests PROVE CriRequest(r)'
      BY Zenon
    <3>1. CriRequest(r)
      BY <1>2, CriRequests, Zenon
    <3>2. req[r].pc = "wait" => inflight'[req[r].cid] # "none"
      BY <2>1, <3>1, Zenon DEF CriRequest, Resolved, Started
    <3> QED BY <1>1, <1>3, <1>9, <3>1, <3>2, Zenon DEF CriRequest, nodeVars
  <2>3. DrainInv'
    BY <1>1, <1>9, Zenon DEF IInv, DrainInv, NodeStreams, nodeVars, clusterVars
  <2> QED BY <1>8, <1>9, <2>1, <2>2, <2>3, Zenon
<1>10. CASE BeginPrepare(c)
  <2>1. CASE PreparedMeanwhile(c)
    <3>1. Complete(c, "prepared", "none") /\ UNCHANGED <<intact, ready>>
      BY <1>10, <2>1, Zenon DEF BeginPrepare
    <3> QED BY <1>1, <1>2, <1>7, <1>8, <3>1, CompleteServes, Zenon
  <2>2. CASE ~PreparedMeanwhile(c)
    <3>1. /\ inflight' = [inflight EXCEPT ![c] = "inject"] /\ UNCHANGED <<req, ready>>
          /\ intact' = intact \ {HelperFile(c)} /\ c \notin ready
      BY <1>10, <2>2, Zenon DEF BeginPrepare, PreparedMeanwhile
    <3>2. \A d \in ready' : Started(d) /\ (Running(d) => HelperFile(d) \in intact')
      BY <1>8, <3>1, Zenon DEF HelperFile
    <3> QED BY <1>7, <1>8, <1>9, <3>1, <3>2, Zenon
  <2> QED BY <2>1, <2>2, Zenon
<1>11. CASE Inject(c)
  <2>1. /\ inflight' = [inflight EXCEPT ![c] = "probe"] /\ UNCHANGED <<req, ready>>
        /\ intact' = intact \cup {HelperFile(c)}
    BY <1>11, Zenon DEF Inject
  <2> QED BY <1>5, <1>7, <1>8, <1>9, <2>1, Zenon
<1>12. CASE Probe(c)
  <2>1. /\ Complete(c, "prepared", "none") /\ UNCHANGED intact /\ ready' = ready \cup {c}
        /\ HelperFile(c) \in intact
    BY <1>12, Zenon DEF Probe
  <2>2. \A d \in ready' : Started(d) /\ (Running(d) => HelperFile(d) \in intact')
    BY <1>4, <1>8, <2>1, Zenon
  <2> QED BY <1>1, <1>2, <1>7, <1>8, <2>1, <2>2, CompleteServes, Zenon
<1>13. CASE PrepareFails(c)
  <2>1. PICK err \in {"error", "canceled"} :
          Complete(c, "unprepared", err) /\ (err = "canceled" => serve # "serving")
    BY <1>13, Zenon DEF PrepareFails, PrepareContextDone
  <2>2. UNCHANGED <<intact, ready>>
    BY <1>13, Zenon DEF PrepareFails
  <2> QED BY <1>1, <1>2, <1>7, <1>8, <2>1, <2>2, CompleteServes, Zenon
<1> QED BY <1>10, <1>11, <1>12, <1>13, Zenon DEF Preparation

-----------------------------------------------------------------------------
(* The acquirer                                                             *)

\* What is known of a request behind the API server transport.
ApiRequest(r) ==
  /\ req[r].pc \notin {"locate", "begin"} \cup (AtNode \ {"stream"})
  /\ req[r].pc \notin {"idle", "done"} => req[r].uid \in PodIDs
  /\ req[r].pc = "join" => req[r].owner \in Requests

\* The steps of copyHelperAcquirer.
LEMMA AcquirerPreserves ==
  ASSUME IInv, NEW r \in Requests,
         \/ HelperState(r) \/ CopyWithShell(r) \/ CopyWithTar(r) \/ CopyEnds(r)
         \/ ProbeVersion(r) \/ AcquireFails(r)
  PROVE  IInv'
<1>1. /\ UNCHANGED <<clusterVars, live, nodeVars, managerVars>>
      /\ req[r].pc \in {"acquire"} \cup Owning
  BY Zenon DEF HelperState, CopyWithShell, CopyWithTar, Copying, CopyEnds, ProbeVersion,
         AcquireFails, Owning
<1>2. /\ req \in [Requests -> Request] /\ req[r] \in Request
      /\ helpers \in [PodIDs -> Requests \cup {None}] /\ intact \subseteq ContainerIDs \X PodIDs
      /\ state \in [Requests -> {"none", "running", "ready", "failed"}]
  BY Zenon DEF IInv, TypeOK
<1>3. transport = "apiserver"
  BY <1>1, Zenon DEF IInv, TypeOK, TransportInv, ByNamePlaces, Owning
<1>4. (\A s \in Requests : ApiRequest(s)) /\ req[r].uid \in PodIDs
  BY <1>1, <1>3, Zenon DEF IInv, TransportInv, RequestInv, ApiRequest, Owning
<1>5. \A c : (Started(c)' <=> Started(c)) /\ (Running(c)' <=> Running(c))
  BY <1>1, Zenon DEF Started, Running, Current, clusterVars
<1>6. Started(Current(pod)) /\ Current(pod) \in ContainerIDs
  <2>1. pod \in PodIDs /\ container[pod] \in 1..MaxContainers
    BY Zenon DEF IInv, TypeOK
  <2>2. pod <= pod /\ container[pod] <= container[pod]
    BY <2>1, BoundsAssumption DEF PodIDs
  <2> QED BY <2>1, <2>2, Zenon DEF Started, Current, ContainerIDs
<1>7. /\ AcquirerInv
      /\ \A s \in Requests : state[s] = "running" => req[s].pc \in Owning
      /\ \A s \in Requests : req[s].pc = "join" =>
           req[s].owner \in Requests /\ state[req[s].owner] # "none"
      /\ \A p \in PodIDs : helpers[p] # None => state[helpers[p]] # "none"
  <2>1. AcquirerInv
    BY Zenon DEF IInv
  <2>2. \A s \in Requests : req[s].pc = "join" => req[s].owner \in Requests
    BY <1>4, Zenon DEF ApiRequest
  <2> QED BY <2>1, <2>2 DEF AcquirerInv
<1>8. ASSUME req' \in [Requests -> Request], intact' \subseteq ContainerIDs \X PodIDs,
             helpers' \in [PodIDs -> Requests \cup {None}],
             state' \in [Requests -> {"none", "running", "ready", "failed"}],
             \A s \in Requests : ApiRequest(s)', AcquirerInv'
      PROVE  IInv'
  <2>1. TypeOK'
    BY <1>1, <1>8, Zenon DEF IInv, TypeOK, clusterVars, nodeVars, managerVars
  <2>2. TransportInv'
    BY <1>1, <1>3, <1>8, Zenon DEF IInv, TransportInv, ApiRequest, clusterVars, nodeVars, managerVars
  <2>3. RequestInv'
    BY <1>1, <1>3, <1>8, Zenon DEF RequestInv, ApiRequest, clusterVars, AtNode
  <2>4. StartedInv'
    BY <1>1, <1>5, <1>8, Zenon DEF IInv, StartedInv, clusterVars, managerVars
  <2>5. DrainInv'
    BY <1>1, <1>3, Zenon DEF IInv, DrainInv, TransportInv, clusterVars, nodeVars
  <2>6. CachedHelperIntact'
    BY <1>1, <1>3, <2>2, Zenon DEF CachedHelperIntact, TransportInv, clusterVars
  <2> QED BY <1>8, <2>1, <2>2, <2>3, <2>4, <2>5, <2>6, Zenon DEF IInv
\* The request itself moves to a place of the API server transport.
<1>9. ASSUME NEW new, new \in Request, req' = [req EXCEPT ![r] = new],
             new.pc \in ByNamePlaces \cup {"done"}, new.pc # "done" => new.uid = req[r].uid,
             new.pc = "join" => new.owner \in Requests
      PROVE  /\ req' \in [Requests -> Request] /\ \A s \in Requests : ApiRequest(s)'
             /\ req'[r] = new /\ \A s \in Requests \ {r} : req'[s] = req[s]
  <2>1. /\ req' \in [Requests -> Request] /\ req'[r] = new
        /\ \A s \in Requests \ {r} : req'[s] = req[s]
    BY <1>2, <1>9, Zenon
  <2>2. \A s \in Requests \ {r} : ApiRequest(s)'
    BY <1>4, <2>1, Zenon DEF ApiRequest
  <2>3. ApiRequest(r)'
    BY <1>4, <1>9, <2>1, Zenon DEF ApiRequest, ByNamePlaces, AtNode
  <2> QED BY <2>1, <2>2, <2>3, Zenon
<1>10. CASE HelperState(r)
  <2>1. req[r].pc = "acquire" /\ UNCHANGED intact
    BY <1>10, Zenon DEF HelperState
  <2>2. \A p \in PodIDs : helpers[p] # r
    BY <1>2, <1>7, <2>1, NoneAssumption DEF AcquirerInv, Owning
  <2>3. CASE helpers[req[r].uid] = None
    <3> DEFINE new == [req[r] EXCEPT !.pc = "copy"]
    <3>1. new \in Request /\ new.pc = "copy" /\ new.uid = req[r].uid
      <4>1. "copy" \in Places
        BY Zenon DEF Places
      <4> QED BY <1>2, <4>1, Zenon DEF Request
    <3>2. /\ req' = [req EXCEPT ![r] = new]
          /\ helpers' = [helpers EXCEPT ![req[r].uid] = r]
          /\ state' = [state EXCEPT ![r] = "running"]
      BY <1>2, <1>10, <2>3, Zenon DEF HelperState, Goto
    <3> HIDE DEF new
    <3>3. /\ req' \in [Requests -> Request] /\ \A s \in Requests : ApiRequest(s)'
          /\ req'[r] = new /\ \A s \in Requests \ {r} : req'[s] = req[s]
      BY <1>9, <3>1, <3>2, Zenon DEF ByNamePlaces
    <3>4. /\ helpers' \in [PodIDs -> Requests \cup {None}] /\ helpers'[req[r].uid] = r
          /\ \A p \in PodIDs \ {req[r].uid} : helpers'[p] = helpers[p]
          /\ state' \in [Requests -> {"none", "running", "ready", "failed"}]
          /\ state'[r] = "running" /\ \A s \in Requests \ {r} : state'[s] = state[s]
      BY <1>2, <1>4, <3>2, Zenon
    <3>5. AcquirerInv'
      <4>1. ASSUME NEW s \in Requests, req'[s].pc \in Owning
            PROVE  state'[s] = "running" /\ helpers'[req'[s].uid] = s
        <5>1. CASE s = r
          BY <3>1, <3>3, <3>4, <5>1, Zenon
        <5>2. CASE s # r
          <6>1. req'[s] = req[s] /\ state[s] = "running" /\ helpers[req[s].uid] = s
            BY <1>7, <3>3, <4>1, <5>2, Zenon DEF AcquirerInv
          <6>2. req[s].uid \in PodIDs /\ req[s].uid # req[r].uid
            BY <1>4, <2>3, <4>1, <6>1, NoneAssumption, Zenon DEF ApiRequest, Owning
          <6> QED BY <3>4, <5>2, <6>1, <6>2, Zenon
        <5> QED BY <5>1, <5>2, Zenon
      <4>2. ASSUME NEW p \in PodIDs, helpers'[p] # None
            PROVE  \/ /\ state'[helpers'[p]] = "running"
                      /\ req'[helpers'[p]].pc \in Owning /\ req'[helpers'[p]].uid = p
                   \/ /\ state'[helpers'[p]] = "ready"
                      /\ req'[helpers'[p]].pc \in {"execByName", "stream", "done"}
        <5>1. CASE p = req[r].uid
          BY <3>1, <3>3, <3>4, <5>1, Zenon DEF Owning
        <5>2. CASE p # req[r].uid
          <6>1. helpers'[p] = helpers[p] /\ helpers[p] \in Requests \ {r}
            BY <1>2, <2>2, <3>4, <4>2, <5>2, Zenon
          <6> QED BY <1>7, <3>3, <3>4, <4>2, <6>1 DEF AcquirerInv
        <5> QED BY <5>1, <5>2, Zenon
      <4>3. \A s \in Requests : state'[s] = "running" => req'[s].pc \in Owning
        BY <1>7, <3>1, <3>3, <3>4, Zenon DEF Owning
      <4>4. ASSUME NEW s \in Requests, req'[s].pc = "join"
            PROVE  state'[req'[s].owner] # "none"
        <5>1. req'[s] = req[s] /\ req[s].owner \in Requests /\ state[req[s].owner] # "none"
          BY <1>7, <3>1, <3>3, <4>4, Zenon
        <5> QED BY <3>4, <5>1, Zenon
      <4> QED BY <4>1, <4>2, <4>3, <4>4, Zenon DEF AcquirerInv
    <3> QED BY <1>2, <1>7, <1>8, <2>1, <3>3, <3>4, <3>5, Zenon
  <2>4. CASE helpers[req[r].uid] # None
    <3> DEFINE new == [req[r] EXCEPT !.pc = "join", !.owner = helpers[req[r].uid]]
    <3>1. new \in Request /\ new.pc = "join" /\ new.uid = req[r].uid /\ new.owner = helpers[req[r].uid]
      <4>1. "join" \in Places
        BY Zenon DEF Places
      <4>2. helpers[req[r].uid] \in Requests
        BY <1>2, <1>4, <2>4, Zenon
      <4> QED BY <1>2, <4>1, <4>2, Zenon DEF Request
    <3>2. req' = [req EXCEPT ![r] = new] /\ UNCHANGED <<helpers, state>>
      BY <1>2, <1>10, <2>4, Zenon DEF HelperState
    <3> HIDE DEF new
    <3>5. new.owner \in Requests /\ state[new.owner] # "none"
      BY <1>2, <1>4, <1>7, <2>4, <3>1, Zenon
    <3>3. /\ req' \in [Requests -> Request] /\ \A s \in Requests : ApiRequest(s)'
          /\ req'[r] = new /\ \A s \in Requests \ {r} : req'[s] = req[s]
      BY <1>9, <3>1, <3>2, <3>5, Zenon DEF ByNamePlaces
    <3>4. AcquirerInv'
      <4>1. state[r] # "running"
        BY <1>7, <2>1, Zenon DEF AcquirerInv, Owning
      <4>2. \A s \in Requests : req'[s].pc = "join" => state[req'[s].owner] # "none"
        BY <1>7, <3>3, <3>5, Zenon
      <4> QED BY <1>2, <1>7, <2>2, <3>1, <3>2, <3>3, <4>1, <4>2 DEF AcquirerInv, Owning
    <3> QED BY <1>2, <1>7, <1>8, <2>1, <3>2, <3>3, <3>4, <3>5, Zenon
  <2> QED BY <2>3, <2>4, Zenon
\* The owner of a state, which nobody else owns.
<1>11. req[r].pc \in Owning =>
         /\ state[r] = "running" /\ helpers[req[r].uid] = r
         /\ \A p \in PodIDs \ {req[r].uid} : helpers[p] # r
         /\ \A s \in Requests \ {r} : req[s].pc \in Owning => req[s].uid # req[r].uid
  BY <1>2, <1>4, <1>7, NoneAssumption DEF AcquirerInv
<1>12. CASE CopyWithShell(r) \/ CopyWithTar(r) \/ CopyEnds(r)
  <2>1. PICK to \in {"copying", "untar", "probe"}, cid \in ContainerIDs \cup {NoContainer} :
          req' = [req EXCEPT ![r].pc = to, ![r].cid = cid]
    <3>1. CASE CopyWithShell(r) \/ CopyWithTar(r)
      BY <1>6, <3>1, Zenon DEF CopyWithShell, CopyWithTar, Copying
    <3>2. CASE CopyEnds(r)
      <4>1. req' = [req EXCEPT ![r].pc = "probe", ![r].cid = req[r].cid]
        BY <1>2, <3>2, ZenonT(60) DEF CopyEnds, Goto, Request
      <4>2. req[r].cid \in ContainerIDs \cup {NoContainer}
        BY <1>2, Zenon DEF Request
      <4> QED BY <4>1, <4>2, Zenon
    <3> QED BY <1>12, <3>1, <3>2, Zenon
  <2> DEFINE new == [req[r] EXCEPT !.pc = to, !.cid = cid]
  <2>2. new \in Request /\ new.pc = to /\ new.uid = req[r].uid
    <3>1. to \in Places
      BY Zenon DEF Places
    <3> QED BY <1>2, <3>1, Zenon DEF Request
  <2>3. req' = [req EXCEPT ![r] = new]
    BY <1>2, <2>1, Zenon
  <2> HIDE DEF new
  <2>4. /\ req' \in [Requests -> Request] /\ \A s \in Requests : ApiRequest(s)'
        /\ req'[r] = new /\ \A s \in Requests \ {r} : req'[s] = req[s]
    BY <1>9, <2>2, <2>3, Zenon DEF ByNamePlaces
  <2>5. UNCHANGED <<helpers, state>> /\ req[r].pc \in Owning
    BY <1>12, Zenon DEF CopyWithShell, CopyWithTar, Copying, CopyEnds, acquirerVars, Owning
  <2>6. AcquirerInv'
    <3>1. \A s \in Requests : /\ req'[s].pc \in Owning <=> req[s].pc \in Owning
                              /\ req'[s].uid = req[s].uid
      BY <2>2, <2>4, <2>5, Zenon DEF Owning
    <3>2. \A s \in Requests : req[s].pc \in {"execByName", "stream", "done"} =>
            req'[s].pc \in {"execByName", "stream", "done"}
      BY <2>4, <2>5, Zenon DEF Owning
    <3>3. \A s \in Requests : req'[s].pc = "join" => req'[s] = req[s]
      BY <2>2, <2>4, Zenon
    <3> QED BY <1>2, <1>7, <2>5, <3>1, <3>2, <3>3 DEF AcquirerInv
  <2>7. intact' \subseteq ContainerIDs \X PodIDs
    <3>1. CASE CopyWithShell(r) \/ CopyWithTar(r)
      BY <1>2, <3>1, Zenon DEF CopyWithShell, CopyWithTar, Copying
    <3>2. CASE CopyEnds(r)
      <4>1. req[r].cid \in ContainerIDs
        <5>1. req[r].cid \in ContainerIDs \cup {NoContainer} /\ Running(req[r].cid)
          BY <1>2, <3>2, Zenon DEF CopyEnds, Request
        <5>2. req[r].cid[1] \in PodIDs
          BY <5>1, Zenon DEF Running, IInv, TypeOK
        <5> QED BY <5>1, <5>2 DEF NoContainer, PodIDs
      <4> QED BY <1>2, <1>4, <3>2, <4>1 DEF CopyEnds
    <3> QED BY <1>12, <3>1, <3>2, Zenon
  <2> QED BY <1>2, <1>8, <2>4, <2>5, <2>6, <2>7, Zenon
<1>13. CASE ProbeVersion(r)
  <2> DEFINE new == [req[r] EXCEPT !.pc = "execByName"]
  <2>1. new \in Request /\ new.pc = "execByName" /\ new.uid = req[r].uid
    <3>1. "execByName" \in Places
      BY Zenon DEF Places
    <3> QED BY <1>2, <3>1, Zenon DEF Request
  <2>2. /\ req' = [req EXCEPT ![r] = new] /\ req[r].pc \in Owning
        /\ state' = [state EXCEPT ![r] = "ready"]
        /\ UNCHANGED intact
    BY <1>2, <1>13, Zenon DEF ProbeVersion, Goto, FinishHelperState, Owning
  <2>3. helpers' = helpers
    BY <1>2, <1>13, Zenon DEF ProbeVersion, FinishHelperState
  <2> HIDE DEF new
  <2>4. /\ req' \in [Requests -> Request] /\ \A s \in Requests : ApiRequest(s)'
        /\ req'[r] = new /\ \A s \in Requests \ {r} : req'[s] = req[s]
    BY <1>9, <2>1, <2>2, Zenon DEF ByNamePlaces
  <2>5. /\ state' \in [Requests -> {"none", "running", "ready", "failed"}] /\ state'[r] = "ready"
        /\ \A s \in Requests \ {r} : state'[s] = state[s]
    BY <1>2, <2>2, Zenon
  <2>6. AcquirerInv'
    <3>1. \A s \in Requests : state'[s] = "running" => req'[s].pc \in Owning
      BY <1>7, <2>4, <2>5, Zenon
    <3>2. \A s \in Requests : req'[s].pc = "join" => state'[req'[s].owner] # "none"
      <4>1. \A s \in Requests : req'[s].pc = "join" =>
              req'[s] = req[s] /\ req[s].owner \in Requests /\ state[req[s].owner] # "none"
        BY <1>7, <2>1, <2>4, Zenon
      <4>2. \A o \in Requests : state[o] # "none" => state'[o] # "none"
        BY <2>5, Zenon
      <4> QED BY <4>1, <4>2, Zenon
    <3> QED BY <1>2, <1>7, <1>11, <2>1, <2>2, <2>3, <2>4, <2>5, <3>1, <3>2 DEF AcquirerInv, Owning
  <2> QED BY <1>2, <1>8, <2>2, <2>3, <2>4, <2>5, <2>6, Zenon
<1>14. CASE AcquireFails(r)
  <2>1. PICK err \in {"error", "canceled"} : Done(r, err)
    BY <1>14, Zenon DEF AcquireFails
  <2> DEFINE new == [NoRequest EXCEPT !.pc = "done", !.err = err]
  <2>2. new \in Request /\ new.pc = "done"
    BY DoneUpdate, Zenon
  <2>3. /\ req' = [req EXCEPT ![r] = new] /\ req[r].pc \in Owning
        /\ state' = [state EXCEPT ![r] = "failed"]
        /\ helpers' = [p \in PodIDs |-> IF helpers[p] = r THEN None ELSE helpers[p]]
        /\ UNCHANGED intact
    BY <1>14, <2>1, Zenon DEF AcquireFails, Done, FinishHelperState, Owning
  <2> HIDE DEF new
  <2>4. /\ req' \in [Requests -> Request] /\ \A s \in Requests : ApiRequest(s)'
        /\ req'[r] = new /\ \A s \in Requests \ {r} : req'[s] = req[s]
    BY <1>9, <2>2, <2>3, Zenon
  <2>5. /\ state' \in [Requests -> {"none", "running", "ready", "failed"}]
        /\ state'[r] = "failed" /\ \A s \in Requests \ {r} : state'[s] = state[s]
        /\ helpers' \in [PodIDs -> Requests \cup {None}]
        /\ \A p \in PodIDs : helpers'[p] # r /\ (helpers[p] # r => helpers'[p] = helpers[p])
                             /\ (helpers'[p] # None => helpers'[p] = helpers[p])
    BY <1>2, <2>3, NoneAssumption, Zenon
  <2>6. AcquirerInv'
    <3>1. \A s \in Requests : req'[s].pc \in Owning => s # r
      BY <2>2, <2>4, Zenon DEF Owning
    <3>2. \A s \in Requests : req'[s].pc \in Owning =>
            state'[s] = "running" /\ helpers'[req'[s].uid] = s
      BY <1>4, <1>7, <2>4, <2>5, <3>1 DEF AcquirerInv, ApiRequest, Owning
    <3>3. \A p \in PodIDs : helpers'[p] # None =>
            helpers'[p] = helpers[p] /\ helpers[p] \in Requests \ {r}
      BY <1>2, <2>5, Zenon
    <3>4. \A s \in Requests : state'[s] = "running" => req'[s].pc \in Owning
      BY <1>7, <2>4, <2>5, Zenon
    <3>5. \A s \in Requests : req'[s].pc = "join" => state'[req'[s].owner] # "none"
      <4>1. \A s \in Requests : req'[s].pc = "join" =>
              req'[s] = req[s] /\ req[s].owner \in Requests /\ state[req[s].owner] # "none"
        BY <1>7, <2>2, <2>4, Zenon
      <4>2. \A o \in Requests : state[o] # "none" => state'[o] # "none"
        BY <2>5, Zenon
      <4> QED BY <4>1, <4>2, Zenon
    <3> QED BY <1>7, <2>4, <2>5, <3>2, <3>3, <3>4, <3>5 DEF AcquirerInv
  <2> QED BY <1>2, <1>8, <2>3, <2>4, <2>5, <2>6, Zenon
<1> QED BY <1>10, <1>12, <1>13, <1>14, Zenon

-----------------------------------------------------------------------------
\* The invariant holds in every reachable state, whichever transport the gateway uses and
\* however Pods are replaced, containers restarted and requests cancelled.
THEOREM InductiveInvariant == Spec => []IInv
<1>1. IInv /\ [Next]_vars => IInv'
  <2> SUFFICES ASSUME IInv, [Next]_vars PROVE IInv'
    BY Zenon
  <2>1. CASE UNCHANGED vars
    BY <2>1, ForgettingPreserves, Zenon DEF vars, managerVars
  <2>2. CASE Cluster \/ ContextDone \/ StartStreamDrain \/ ServeReturns
    BY <2>2, ClusterPreserves, ShutdownPreserves, ServeReturnsPreserves, Zenon
  <2>3. ASSUME NEW c \in ContainerIDs, Preparation(c) PROVE IInv'
    BY <2>3, PreparationPreserves, Zenon
  <2>4. ASSUME NEW r \in Requests, Start(r) \/ Locate(r) \/ StreamEnds(r) \/ Cancel(r) PROVE IInv'
    BY <2>4, RequestPreserves, CancelPreserves, Zenon
  <2>5. ASSUME NEW r \in Requests, Node(r) PROVE IInv'
    BY <2>5, RequestPreserves, StreamPreserves, DoChanPreserves, Zenon DEF Node
  <2>6. ASSUME NEW r \in Requests, Acquirer(r) PROVE IInv'
    BY <2>6, RequestPreserves, AcquirerPreserves, Zenon DEF Acquirer
  <2> QED BY <2>1, <2>2, <2>3, <2>4, <2>5, <2>6, Zenon DEF Next
<1> QED BY <1>1, InitIInv, PTL DEF Spec

\* Every place of a request, every container a request names and every cached container is one
\* the system has.
THEOREM TypeCorrect == Spec => []TypeOK
<1>1. IInv => TypeOK
  BY Zenon DEF IInv
<1> QED BY <1>1, InductiveInvariant, PTL

\* Through CRI a command runs in the Pod instance its connection was bound to (locate and
\* resolveRuntimeTarget), for every number of Pods that follow each other under the name.
THEOREM BoundToInstance == Spec => []RightInstance
<1>1. IInv => RightInstance
  BY Zenon DEF IInv, RequestInv, RightInstance, AtNode, Resolved
<1> QED BY <1>1, InductiveInvariant, PTL

\* What helperManager has cached for a running container is a complete helper in it (the second
\* look of prepare), however preparations, restarts and evictions interleave.
THEOREM CacheIsIntact == Spec => []CachedHelperIntact
<1>1. IInv => CachedHelperIntact
  BY Zenon DEF IInv
<1> QED BY <1>1, InductiveInvariant, PTL

\* The drained channel is closed only when no handler is left and none can start
\* (beginStream, endStream and startStreamDrain under the server's mutex).
THEOREM DrainIsComplete == Spec => []DrainedIsIdle
<1>1. IInv => DrainedIsIdle
  BY Zenon DEF IInv, DrainInv, DrainedIsIdle, NodeStreams
<1> QED BY <1>1, InductiveInvariant, PTL

\* Nobody waits for a preparation that nobody makes, on the node and in the gateway, and on the
\* node none inherits the cancellation of the request that started it (prepare of helperManager,
\* Acquire and finishHelperState of copyHelperAcquirer).
THEOREM PreparationIsShared == Spec => []WaitersAreServed
<1>1. IInv => WaitersAreServed
  <2> SUFFICES ASSUME IInv PROVE WaitersAreServed
    BY Zenon
  <2>1. ASSUME NEW r \in Requests, req[r].pc = "join"
        PROVE  Preparing(req[r].owner) \/ state[req[r].owner] \in {"ready", "failed"}
    <3>1. req[r].owner \in Requests /\ state[req[r].owner] # "none"
      BY <2>1, Zenon DEF IInv, RequestInv, AcquirerInv
    <3>2. state[req[r].owner] \in {"running", "ready", "failed"}
      BY <3>1, Zenon DEF IInv, TypeOK
    <3> QED BY <3>1, <3>2, Zenon DEF IInv, AcquirerInv, Preparing
  <2> QED BY <2>1, Zenon DEF IInv, RequestInv, AcquirerInv, WaitersAreServed, Preparing
<1> QED BY <1>1, InductiveInvariant, PTL
=============================================================================
