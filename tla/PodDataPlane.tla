---------------------------- MODULE PodDataPlane ----------------------------
(* How a command or a helper command reaches a container                     *)
(* (pkg/podssh/backend).  The CRI transport locates the Pod a connection is  *)
(* bound to and calls kube-ssh-node, which resolves the container, prepares  *)
(* the helper in it (helperManager) and proxies the stream, until it drains. *)
(* The API server transport prepares the helper from the gateway             *)
(* (copyHelperAcquirer) and executes by Pod name; other replicas of the      *)
(* gateway do the same with helpers of their own.                            *)
(*                                                                           *)
(* The Pods of one namespace and name are numbered in the order they are     *)
(* created, and so are the containers of each; the number of a Pod is its    *)
(* UID and stands for its node, and <<pod, n>> is a container's ID.          *)
EXTENDS Naturals, FiniteSets

CONSTANTS
  Requests,       \* operations of connections
  MaxPods,        \* bound: Pods created under the name
  MaxContainers,  \* bound: starts of a Pod's container
  None

ASSUME NoneAssumption == None \notin Requests
ASSUME RequestsAssumption == IsFiniteSet(Requests)
ASSUME BoundsAssumption == MaxPods \in Nat \ {0} /\ MaxContainers \in Nat \ {0}

VARIABLES
  transport,      \* the gateway's Pod transport, fixed by its options
  pod,            \* the Pod the API server has under the name
  sandboxes,      \* Pods with a ready sandbox on the node
  container,      \* the running container of each Pod
  intact,         \* complete helper files, by container and Pod UID in the path
  req,            \* place, kind and binding of each request
  live,           \* requests whose context is not done
  serve,          \* server.serve: serving, draining or stopped
  drained,        \* the drained channel: none, open or closed
  activeStreams,
  ready,          \* helperManager.ready: containers with a cached helper
  inflight,       \* helperManager.inflight: the preparation of each container
  helpers,        \* copyHelperAcquirer.helpers: the state of each target, by owner
  state           \* the copyHelperState of each owner

clusterVars == <<transport, pod, sandboxes, container>>
nodeVars == <<serve, drained, activeStreams>>
managerVars == <<ready, inflight>>
acquirerVars == <<helpers, state>>
vars == <<clusterVars, intact, req, live, nodeVars, managerVars, acquirerVars>>

PodIDs == 1..MaxPods
ContainerIDs == PodIDs \X (1..MaxContainers)
NoContainer == <<0, 0>>
Current(p) == <<p, container[p]>>
HelperFile(c) == <<c, c[1]>>
Running(c) == c[1] \in sandboxes /\ c = Current(c[1])

NoRequest == [pc |-> "idle", op |-> "exec", uid |-> 0, loc |-> 0,
              cid |-> NoContainer, owner |-> None, err |-> "none"]

Places == {"idle", "locate", "begin", "resolve", "prepare", "doChan", "wait", "prepared",
           "unprepared", "exec", "stream", "ending", "acquire", "copy", "copying", "untar", "probe",
           "join", "execByName", "done"}

Request == [pc : Places, op : {"exec", "helper", "portForward"},
            uid : 0..MaxPods, loc : 0..MaxPods, cid : ContainerIDs \cup {NoContainer},
            owner : Requests \cup {None}, err : {"none", "error", "canceled"}]

TypeOK ==
  /\ transport \in {"cri", "apiserver"}
  /\ pod \in PodIDs /\ sandboxes \subseteq PodIDs
  /\ container \in [PodIDs -> 1..MaxContainers]
  /\ intact \subseteq ContainerIDs \X PodIDs
  /\ req \in [Requests -> Request]
  /\ live \subseteq Requests
  /\ serve \in {"serving", "canceled", "draining", "stopped"}
  /\ drained \in {"none", "open", "closed"} /\ activeStreams \in Nat
  /\ ready \subseteq ContainerIDs
  /\ inflight \in [ContainerIDs -> {"none", "begin", "inject", "probe"}]
  /\ helpers \in [PodIDs -> Requests \cup {None}]
  /\ state \in [Requests -> {"none", "running", "ready", "failed"}]

Init ==
  /\ transport \in {"cri", "apiserver"}
  /\ pod = 1 /\ sandboxes = {1}
  /\ container = [p \in PodIDs |-> 1]
  /\ intact = {}
  /\ req = [r \in Requests |-> NoRequest]
  /\ live = Requests
  /\ serve = "serving" /\ drained = "none" /\ activeStreams = 0
  /\ ready = {}
  /\ inflight = [c \in ContainerIDs |-> "none"]
  /\ helpers = [p \in PodIDs |-> None]
  /\ state = [r \in Requests |-> "none"]

Goto(r, pc) == req' = [req EXCEPT ![r].pc = pc]
Fail(r, pc, err) == req' = [req EXCEPT ![r].pc = pc, ![r].err = err]
Done(r, err) == req' = [req EXCEPT ![r] = [NoRequest EXCEPT !.pc = "done", !.err = err]]

-----------------------------------------------------------------------------
(* The cluster and the clients.                                              *)

ReplacePod ==
  /\ pod < MaxPods
  /\ pod' = pod + 1
  /\ sandboxes' = sandboxes \cup {pod + 1}
  /\ UNCHANGED <<transport, container, intact, req, live, nodeVars, managerVars, acquirerVars>>

RemoveSandbox == \E p \in sandboxes \ {pod} :
  /\ sandboxes' = sandboxes \ {p}
  /\ intact' = {f \in intact : f[1][1] # p}
  /\ UNCHANGED <<transport, pod, container, req, live, nodeVars, managerVars, acquirerVars>>

(* A container that is started again has a new file system.                  *)
RestartContainer == \E p \in sandboxes :
  /\ container[p] < MaxContainers
  /\ container' = [container EXCEPT ![p] = @ + 1]
  /\ intact' = {f \in intact : f[1] # Current(p)}
  /\ UNCHANGED <<transport, pod, sandboxes, req, live, nodeVars, managerVars, acquirerVars>>

(* The context of a request is done while the request looks at it; in the    *)
(* other steps it only is one more reason to fail.                           *)
Cancel(r) ==
  /\ r \in live
  /\ req[r].pc \in {"wait", "prepared", "unprepared", "copy", "copying", "untar", "probe", "join"}
  /\ live' = live \ {r}
  /\ UNCHANGED <<clusterVars, intact, req, nodeVars, managerVars, acquirerVars>>

(* A connection bound to the current Pod asks for an operation.              *)
Start(r) == \E op \in {"exec", "helper", "portForward"} :
  /\ req[r].pc = "idle"
  /\ req' = [req EXCEPT ![r].op = op, ![r].uid = pod,
       ![r].pc = IF transport = "cri" THEN "locate"
                 ELSE IF op = "helper" THEN "acquire" ELSE "execByName"]
  /\ UNCHANGED <<clusterVars, intact, live, nodeVars, managerVars, acquirerVars>>

-----------------------------------------------------------------------------
(* The gateway's side of the CRI transport.                                  *)

ByName(uid, p) == TRUE

SameInstance(uid, p) == uid = p

(* locate fails when the Pod was replaced.                                   *)
Locate(r) ==
  /\ req[r].pc = "locate"
  /\ \/ SameInstance(req[r].uid, pod)
        /\ req' = [req EXCEPT ![r].pc = "begin", ![r].loc = pod]
     \/ Done(r, "error")
  /\ UNCHANGED <<clusterVars, intact, live, nodeVars, managerVars, acquirerVars>>

-----------------------------------------------------------------------------
(* kube-ssh-node: the handlers of server.                                    *)

AcceptAlways == serve # "stopped"

AcceptStream == serve \in {"serving", "canceled"}

(* A draining node answers 503, a stopped one does not answer.               *)
BeginStream(r) ==
  /\ req[r].pc = "begin"
  /\ IF AcceptStream
     THEN activeStreams' = activeStreams + 1 /\ Goto(r, "resolve")
     ELSE UNCHANGED activeStreams /\ Done(r, "error")
  /\ UNCHANGED <<clusterVars, intact, live, serve, drained, managerVars, acquirerVars>>

(* The deferred endStream of every handler.                                  *)
EndStream(r) ==
  /\ req[r].pc = "ending"
  /\ activeStreams' = activeStreams - 1
  /\ drained' = IF drained = "open" /\ activeStreams = 1 THEN "closed" ELSE drained
  /\ Done(r, req[r].err)
  /\ UNCHANGED <<clusterVars, intact, live, serve, managerVars, acquirerVars>>

(* Any call of a handler may fail, with the request's context or without.    *)
HandlerFails(r) ==
  /\ req[r].pc \in {"resolve", "exec"}
  /\ Fail(r, "ending", "error")
  /\ UNCHANGED <<clusterVars, intact, live, nodeVars, managerVars, acquirerVars>>

(* The ready sandbox of the located Pod and its running container.           *)
ResolveRuntimeTarget(r) ==
  /\ req[r].pc = "resolve"
  /\ req[r].loc \in sandboxes
  /\ req' = [req EXCEPT ![r].cid = Current(req[r].loc),
                        ![r].pc = IF req[r].op = "helper" THEN "prepare" ELSE "exec"]
  /\ UNCHANGED <<clusterVars, intact, live, nodeVars, managerVars, acquirerVars>>

NodeExec(r) ==
  /\ req[r].pc = "exec"
  /\ IF req[r].op = "portForward" THEN req[r].cid[1] \in sandboxes ELSE Running(req[r].cid)
  /\ Goto(r, "stream")
  /\ UNCHANGED <<clusterVars, intact, live, nodeVars, managerVars, acquirerVars>>

StreamEnds(r) ==
  /\ req[r].pc = "stream"
  /\ IF transport = "cri" THEN Goto(r, "ending") ELSE Done(r, "none")
  /\ UNCHANGED <<clusterVars, intact, live, nodeVars, managerVars, acquirerVars>>

(* The context of serve and of its helperManager is done.                    *)
ContextDone ==
  /\ transport = "cri" /\ serve = "serving"
  /\ serve' = "canceled"
  /\ UNCHANGED <<clusterVars, intact, req, live, drained, activeStreams, managerVars, acquirerVars>>

StartStreamDrain ==
  /\ serve = "canceled"
  /\ serve' = "draining"
  /\ drained' = IF activeStreams = 0 THEN "closed" ELSE "open"
  /\ UNCHANGED <<clusterVars, intact, req, live, activeStreams, managerVars, acquirerVars>>

AtNode == {"resolve", "prepare", "doChan", "wait", "prepared", "unprepared",
           "exec", "stream", "ending"}

(* serve returns when the streams are drained or the shutdown times out, and *)
(* with its process end the handlers and the preparations that are left.     *)
ServeReturns ==
  /\ serve = "draining"
  /\ serve' = "stopped"
  /\ req' = [r \in Requests |->
       IF req[r].pc \in AtNode
       THEN [NoRequest EXCEPT !.pc = "done", !.err = "error"] ELSE req[r]]
  /\ activeStreams' = 0
  /\ ready' = {}
  /\ inflight' = [c \in ContainerIDs |-> "none"]
  /\ UNCHANGED <<clusterVars, intact, live, drained, acquirerVars>>

-----------------------------------------------------------------------------
(* helperManager.prepare: a cache and one preparation at a time per          *)
(* container, on the manager's context.                                      *)

PrepareCached(r) ==
  /\ req[r].pc = "prepare"
  /\ Goto(r, IF req[r].cid \in ready THEN "exec" ELSE "doChan")
  /\ UNCHANGED <<clusterVars, intact, live, nodeVars, managerVars, acquirerVars>>

DoChan(r) ==
  LET c == req[r].cid IN
  /\ req[r].pc = "doChan"
  /\ Goto(r, "wait")
  /\ inflight' = [inflight EXCEPT ![c] = IF @ = "none" THEN "begin" ELSE @]
  /\ UNCHANGED <<clusterVars, intact, live, nodeVars, ready, acquirerVars>>

(* The result of the preparation of c goes to everyone who waits for it.     *)
Complete(c, pc, err) ==
  /\ inflight' = [inflight EXCEPT ![c] = "none"]
  /\ req' = [r \in Requests |->
       IF req[r].pc = "wait" /\ req[r].cid = c
       THEN [req[r] EXCEPT !.pc = pc, !.err = err] ELSE req[r]]

NoSecondLook(c) == FALSE

(* The second look at the cache, inside the preparation.                     *)
PreparedMeanwhile(c) == c \in ready

BeginPrepare(c) ==
  /\ inflight[c] = "begin"
  /\ IF PreparedMeanwhile(c)
     THEN Complete(c, "prepared", "none") /\ UNCHANGED intact
     ELSE /\ inflight' = [inflight EXCEPT ![c] = "inject"]
          /\ intact' = intact \ {HelperFile(c)}         \* cat > path
          /\ UNCHANGED req
  /\ UNCHANGED <<clusterVars, live, nodeVars, ready, acquirerVars>>

Inject(c) ==
  /\ inflight[c] = "inject" /\ Running(c)
  /\ intact' = intact \cup {HelperFile(c)}
  /\ inflight' = [inflight EXCEPT ![c] = "probe"]
  /\ UNCHANGED <<clusterVars, req, live, nodeVars, ready, acquirerVars>>

Probe(c) ==
  /\ inflight[c] = "probe" /\ Running(c) /\ HelperFile(c) \in intact
  /\ ready' = ready \cup {c}
  /\ Complete(c, "prepared", "none")
  /\ UNCHANGED <<clusterVars, intact, live, nodeVars, acquirerVars>>

PrepareContextDone(c) == serve # "serving"

PrepareFails(c) ==
  /\ inflight[c] \in {"begin", "inject", "probe"}
  /\ \/ PrepareContextDone(c) /\ Complete(c, "unprepared", "canceled")
     \/ Complete(c, "unprepared", "error")
  /\ UNCHANGED <<clusterVars, intact, live, nodeVars, ready, acquirerVars>>

PrepareReturns(r) ==
  /\ req[r].pc \in {"prepared", "unprepared"}
  /\ Goto(r, IF req[r].pc = "prepared" THEN "exec" ELSE "ending")
  /\ UNCHANGED <<clusterVars, intact, live, nodeVars, managerVars, acquirerVars>>

PrepareCanceled(r) ==
  /\ req[r].pc \in {"wait", "prepared", "unprepared"} /\ r \notin live
  /\ Fail(r, "ending", "canceled")
  /\ UNCHANGED <<clusterVars, intact, live, nodeVars, managerVars, acquirerVars>>

(* The cached path expires or is evicted.                                    *)
CacheExpires == \E c \in ready :
  /\ ready' = ready \ {c}
  /\ UNCHANGED <<clusterVars, intact, req, live, nodeVars, inflight, acquirerVars>>

-----------------------------------------------------------------------------
(* copyHelperAcquirer.Acquire: the first request for a target prepares the   *)
(* helper on its own context, the others wait for it.                        *)

HelperState(r) ==
  LET u == req[r].uid IN
  /\ req[r].pc = "acquire"
  /\ IF helpers[u] = None
     THEN /\ helpers' = [helpers EXCEPT ![u] = r]
          /\ state' = [state EXCEPT ![r] = "running"]
          /\ Goto(r, "copy")
     ELSE /\ req' = [req EXCEPT ![r].pc = "join", ![r].owner = helpers[u]]
          /\ UNCHANGED <<helpers, state>>
  /\ UNCHANGED <<clusterVars, intact, live, nodeVars, managerVars>>

DoneStaysOpen(r, ok) ==
  /\ state' = [state EXCEPT ![r] = IF ok THEN "ready" ELSE @]
  /\ helpers' = [p \in PodIDs |-> IF ~ok /\ helpers[p] = r THEN None ELSE helpers[p]]

(* A failed state is forgotten before its waiters are told.                  *)
FinishHelperState(r, ok) ==
  /\ state' = [state EXCEPT ![r] = IF ok THEN "ready" ELSE "failed"]
  /\ helpers' = [p \in PodIDs |-> IF ~ok /\ helpers[p] = r THEN None ELSE helpers[p]]

(* Every exec is by name: it runs in the container the Pod has by then.      *)
Copying(r, pc) ==
  /\ intact' = intact \ {<<Current(pod), req[r].uid>>}
  /\ req' = [req EXCEPT ![r].pc = pc, ![r].cid = Current(pod)]
  /\ UNCHANGED <<clusterVars, live, nodeVars, managerVars, acquirerVars>>

CopyWithShell(r) == req[r].pc = "copy" /\ Copying(r, "copying")

(* The shell could not be run, or failed.                                    *)
CopyWithTar(r) == req[r].pc \in {"copy", "copying"} /\ Copying(r, "untar")

CopyEnds(r) ==
  /\ req[r].pc \in {"copying", "untar"} /\ Running(req[r].cid)
  /\ intact' = intact \cup {<<req[r].cid, req[r].uid>>}
  /\ Goto(r, "probe")
  /\ UNCHANGED <<clusterVars, live, nodeVars, managerVars, acquirerVars>>

ProbeVersion(r) ==
  /\ req[r].pc = "probe" /\ <<Current(pod), req[r].uid>> \in intact
  /\ FinishHelperState(r, TRUE)
  /\ Goto(r, "execByName")
  /\ UNCHANGED <<clusterVars, intact, live, nodeVars, managerVars>>

Owning == {"copy", "copying", "untar", "probe"}

(* The binary cannot be read, or a step fails, with the owner's context or   *)
(* without.                                                                  *)
AcquireFails(r) ==
  /\ req[r].pc \in Owning
  /\ FinishHelperState(r, FALSE)
  /\ Done(r, IF r \in live THEN "error" ELSE "canceled")
  /\ UNCHANGED <<clusterVars, intact, live, nodeVars, managerVars>>

JoinReturns(r) ==
  /\ req[r].pc = "join"
  /\ \/ state[req[r].owner] = "ready" /\ Goto(r, "execByName")
     \/ state[req[r].owner] = "failed" /\ Done(r, req[req[r].owner].err)
     \/ r \notin live /\ Done(r, "canceled")
  /\ UNCHANGED <<clusterVars, intact, live, nodeVars, managerVars, acquirerVars>>

(* Exec and port forwarding name the Pod and not its UID.                    *)
ExecByName(r) ==
  /\ req[r].pc = "execByName"
  /\ \/ req' = [req EXCEPT ![r].pc = "stream", ![r].cid = Current(pod)]
     \/ Done(r, "error")
  /\ UNCHANGED <<clusterVars, intact, live, nodeVars, managerVars, acquirerVars>>

(* Another replica copies a helper to a path that does not tell replicas     *)
(* apart, and is done with it.                                               *)
ReplicaCopies == \E p \in 1..pod :
  /\ transport = "apiserver"
  /\ \/ intact' = intact \ {<<Current(pod), p>>}
     \/ intact' = intact \cup {<<Current(pod), p>>}
  /\ UNCHANGED <<clusterVars, req, live, nodeVars, managerVars, acquirerVars>>

-----------------------------------------------------------------------------
Cluster == ReplacePod \/ RemoveSandbox \/ RestartContainer \/ CacheExpires \/ ReplicaCopies

Node(r) ==
  \/ BeginStream(r) \/ EndStream(r) \/ HandlerFails(r) \/ ResolveRuntimeTarget(r)
  \/ NodeExec(r)
  \/ PrepareCached(r) \/ DoChan(r) \/ PrepareReturns(r) \/ PrepareCanceled(r)

Preparation(c) == BeginPrepare(c) \/ Inject(c) \/ Probe(c) \/ PrepareFails(c)

Acquirer(r) ==
  \/ HelperState(r) \/ CopyWithShell(r) \/ CopyWithTar(r) \/ CopyEnds(r)
  \/ ProbeVersion(r) \/ AcquireFails(r) \/ JoinReturns(r) \/ ExecByName(r)

Next ==
  \/ Cluster \/ ContextDone \/ StartStreamDrain \/ ServeReturns
  \/ \E r \in Requests :
       Start(r) \/ Cancel(r) \/ Locate(r) \/ StreamEnds(r) \/ Node(r) \/ Acquirer(r)
  \/ \E c \in ContainerIDs : Preparation(c)

Spec == Init /\ [][Next]_vars

-----------------------------------------------------------------------------
(* Through CRI a command runs in a container of the Pod instance that its    *)
(* connection was bound to, although the Pod may be replaced under its name  *)
(* at any moment between binding, locate and the node's own look-up.         *)
RightInstance ==
  \A r \in Requests :
    (transport = "cri" /\ req[r].pc = "stream") => req[r].cid[1] = req[r].uid

(* A helper that helperManager has cached for a container is complete there: *)
(* no second preparation rewrites it while the cache still hands it out, and *)
(* a container that is restarted is another one (prepare 69-97).             *)
CachedHelperIntact ==
  \A c \in ready : Running(c) => HelperFile(c) \in intact

(* When serve is told that its streams are drained, no handler is running    *)
(* and none will start (beginStream, endStream, startStreamDrain).           *)
DrainedIsIdle ==
  drained = "closed" => \A r \in Requests : req[r].pc \notin AtNode

(* Nobody waits for a preparation that nobody makes: behind every waiter is  *)
(* a preparation in flight on the node, or in the gateway an owner that is   *)
(* still at work or has finished, whatever was forgotten or acquired anew    *)
(* since.  What copyHelperAcquirer remembers is never a failure.  And a      *)
(* preparation on the node does not inherit the cancellation of the request  *)
(* that started it: through CRI a request is canceled only when its own      *)
(* context is done or the node shuts down (prepareCtx of prepare).           *)
Preparing(r) == state[r] = "running" /\ req[r].pc \in Owning
WaitersAreServed ==
  /\ \A r \in Requests :
       transport = "cri" /\ req[r].err = "canceled" => r \notin live \/ serve # "serving"
  /\ \A r \in Requests : req[r].pc = "wait" => inflight[req[r].cid] # "none"
  /\ \A r \in Requests : req[r].pc = "join" =>
       Preparing(req[r].owner) \/ state[req[r].owner] \in {"ready", "failed"}
  /\ \A p \in PodIDs : helpers[p] # None =>
       Preparing(helpers[p]) \/ state[helpers[p]] = "ready"

=============================================================================
