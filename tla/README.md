# A verification of kube-ssh in TLA+

kube-ssh is an SSH gateway for Kubernetes. A client connects with an ordinary SSH
client; the gateway authenticates it, resolves its user name to a target, and serves
the SSH connection either into a Pod or through to an external SSH server. This
directory models the concurrent and stateful parts of it, checks them with TLC on
small instances, and proves with TLAPS most of the safety properties of eight of its
eleven state machines for every instance.

Paths below are relative to the repository. `PROJECT.json` maps each definition to
the lines it translates.

## 1. The system

| Part | Where | State | What happens to it |
|---|---|---|---|
| Connection owner | `pkg/gateway` | phase of each connection, handlers, gauges, audit log | accept, authentication callbacks, operations, teardown, shutdown |
| Session policy | `pkg/gateway/session_policy*.go` | policy in force, activity time stamps, one timer | apply a policy, store activity, timer fires, close |
| Audit recorder | `pkg/audit` | bounded channel, closed flag, lock, sink | Record, the draining goroutine, Close with a deadline |
| Access status | `pkg/accesspolicy` | informer caches, work queue | events, sync and status update |
| Login and policy | `pkg/authn`, `pkg/authz`, `pkg/accesspolicy`, `pkg/podtarget`, `pkg/target`, `pkg/wildcard` | identity, target, session policy and operation of each connection; connection counts | authenticate, resolve, read the session policy, authorize, connect, release |
| Pod protocol | `pkg/podssh` | session parameters, window queue, forwards, agent forwarding | requests, the command's task, direct-tcpip, tcpip-forward and cancel, Close |
| SSH proxy protocol | `pkg/sshproxy` | upstream connection, table of forwards, agent slot | messages both ways, connect once, close |
| Pod data plane | `pkg/podssh/backend/{apiserver,cri}` | Pod binding, helper caches, active streams | locate, prepare a helper, exec, drain of the node |
| Helper connection | `pkg/spdyrpc`, `pkg/podssh/backend/helper` | two RPC endpoints, listeners, streams | listen, stop, dispatch, shutdown |
| File transfer | `pkg/podssh/backend/helper/scp.go` | a tree on either side, two byte streams | send, store, acknowledge, fail |
| Byte proxy | `pkg/ioproxy` | two copies and a terminal result | copy ends, half-close, context ends |

How they interact: the owner starts a handler for each message and gives it to a
protocol adapter (Pod or SSH proxy). The adapter calls back to begin an operation,
which is authorized, counted and audited, and must complete the callback it got. The
Pod adapter reaches the container through a transport (API server, or CRI through
`kube-ssh-node`), and for forwarding it starts a helper process there and talks SPDY
RPC to it over the exec's standard streams. Access objects feed authentication,
target selection, session policy and the External connector through informer caches.

What makes it hard: every connection has many goroutines that end in any order;
callbacks change hands between them; caches are stale when they are used; Pods and
containers are replaced under their names; preparations are shared between requests
that are cancelled separately; and everything must end when the connection or the
process does.

## 2. Modules

`MCx.tla` and `.cfg` files instantiate a module for TLC; they hold constants only.
`xProofs.tla` has the theorems about module `x`; section 4 goes through them.

* **AsyncRecorder** - `pkg/audit/async.go`. One action per step of `Record` between
  two points where another goroutine can be seen (lock-free test, `RLock`, recheck,
  non-blocking send, `RUnlock`), of `run`, and of `Close` (the two `sync.Once`, the
  write lock, the two selects against the caller's context).
* **OperationLifecycle** - the abstract specification of `pkg/sshprotocol`: a begun
  operation is completed once, and at the latest after the connection has gone down.
  RemoteForward implements it (`INSTANCE ... WITH`, property `LifecycleSpec`). SSHProxy
  implements its safety part, and misses the other half by the callbacks it abandons:
  `CompletedOnce` is what it keeps, `ssh_proxy_completed` shows what it does not.
* **RemoteForward** - `remotetcpip.go`, `client_state.go` and the helper session
  behind each forward: the request handlers, `serveRemoteForward` with its deferred
  cleanup, and `Close` of the protocol.
* **SSHProxy** - `proxy.go` and `protocol.go` of `pkg/sshproxy`: global requests,
  channels and channel requests in both directions, `connectOnce`, and `close()` in
  its three parts (sweep under the lock, transport, callbacks). The upstream server is
  external: it accepts or refuses, listens on ports, and goes away.
* **GatewayConnection** - owner goroutine, authentication callbacks, handlers,
  operations, audit log (a history variable) and the two gauges, and `Run` with its
  shutdown. A handler that the owner has started gets to its operation when it is
  scheduled, which may be while the owner closes and waits. An operation is served in a
  handler that ends with the connection's context ("session") or when the adapter is
  closed ("proxied"), by the adapter once its handler has returned ("detached"), or by a
  goroutine the adapter starts without a handler ("adapter").
* **SessionPolicyConn** - the duration arithmetic of `session_policy.go` and the
  timer of `session_policy_conn.go`; time is a counter.
* **HelperConnection** - the gateway's `helper.Client` and the helper process on one
  SPDY connection: Listen with its rekey for port 0, dispatch and deliver of streams
  that may precede the Listen response, Cancel, Close, and both endpoints' shutdown
  with the work registered on them. A stop call that fails, for whatever reason, once
  `Close` has marked the client is `ErrClientClosed`, which `Cancel` reports as success
  (`CancelResults`).
* **PodSession** - the request loop of a session, the task that runs the command, the
  window queue, agent forwarding, and streams through `ioproxy.Proxy`.
* **AccessStatus** - the status controller: API server objects, three caches with
  undelivered notifications, the rate-limited queue and one worker.
* **AccessLogin** - a client's way from an SSH user name and a credential to a running
  operation: the authenticator chain (static keys and passwords, Access credentials with
  their Secret, webhook, anonymous), `acceptAuthenticated`, the resolver chain, the
  session policy, the authorizer chain with limits and defaults, and
  `Connector.Connect`. Each of these reads the caches for itself, so the Accesses, the
  Secret and the Pods may change between any two of them; that is what the module is
  about. It composes **TargetSelection** (the selector: strategies, affinity, counting and
  release) and **Wildcard** (`pattern.go`, with the definition of a glob as reference).
* **ScpTransfer** - `scp.go`: source and sink paired over the two streams of a session.
  Files change while they are sent, any file system call may fail, the session may be
  cut and either helper be told to stop. A `Chtimes` that fails is not noticed.
* **PodDataPlane** - both transports: `locate`, the node's handlers and drain,
  `helperManager.prepare` (cache, single flight, second look), and
  `copyHelperAcquirer.Acquire` (owner and waiters, the shell and the tar copy, each an
  exec of its own). Other replicas of the gateway write helpers to the same paths. A
  Pod's number is its UID; `<<pod, n>>` is the ID of its n-th container.

Common abstractions: payloads, keys and addresses are model values; an outside party
(authorizer, backend, API server, upstream) answers in any way it can; a select
between a context and a result may take either when both are ready. Operators named
as a slip in the code (`NoRecheck`, `ByName`, `DoneStaysOpen`...) stand before the
definition they differ from; they are the mutants that show the properties can fail.

## 3. What TLC checks

| Run | Instance | Distinct states | Properties |
|---|---|---|---|
| async_recorder | 2 recording and 2 closing goroutines, channel of 1, 2 records each | 119,370 | NoSendOnClosedQueue, CloseDrains, NoWriteAfterSinkClose, CallsReturn |
| remote_forward | 2 forwards on 2 addresses | 112,482 | RegisteredIsServed, ClosedHoldsNothing, LifecycleSpec, ListenersReleased |
| remote_forward_kept | 2 forwards on an address | (violation) | ForwardKept |
| ssh_proxy | 2 operations, a channel opened by either side, all messages, with and without reply | 320,493 | OutstandingIsHeld, ClosedHoldsNothing, TableFollowsUpstream, CompletedOnce |
| ssh_proxy_completed | the same | (violation) | LifecycleSpec |
| gateway_connection | owners: 2 connections, 2 attempts, 1 operation of each kind; deadline wrapper: a reader and a writer, durations -1 (none), 1 and 2, 4 instants, one policy change | 448,718 | AttemptsReported, LifecycleClosed, QuietAfterEnd, TimeoutsEnforced, ShutdownCompletes |
| helper_connection | a listener on port 0 or the agent socket, 1 connection | 192,656 | EarlyStreamKept, ClosedIsReleased, ShutdownReleases |
| pod_session | 1 session, 1 stream, 2 resizes, 1 agent request | 173,064 | BackendSees, HandlerEndsLast, HalfCloseKept, SessionAndStreamsEnd |
| access_status | 1 Access, 4 specs, 1 Pod, 2 changes, 2 failed updates, 1 requeue | 528,792 | ObservedGenerationHonest, StatusConverges |
| access_login | 2 connections of 2 attempts, 2 Accesses with 6 specs, 2 Pods, 2 endpoints of weights 1 and 2, 2 configurations, 3 events | 487,296 | ConnectionsCounted, ConnectsResolvedSpec, OneAccess, ListedMaterialDecides, LimitsHold, MatchIsGlob, RevokedStartsNothing |
| pod_data_plane | 2 requests, 2 Pods, 2 containers each, both transports | 651,774 | RightInstance, CachedHelperIntact, DrainedIsIdle, WaitersAreServed |
| scp_transfer | a directory, a subdirectory, files of 2 and 0 bytes, a link; 3 kinds of target | 368,056 | SuccessIsStored, PathsMirrored, TransferEnds |

What some of them show:

* **gateway_connection**: each failed attempt has its event (`AttemptsReported`), gauges
  and log agree and every published adapter is closed (`LifecycleClosed`), nothing is
  recorded after `connection.end` or after the recorder was closed but by operations the
  adapter keeps for itself (`QuietAfterEnd`), and the shutdown ends
  (`ShutdownCompletes`). SessionPolicyConn is explored in the same run, while the owners
  are at rest: they share no variable, and to an owner an expired policy is a client that
  disconnects. `TimeoutsEnforced` is its property.
* **access_login**: a connection opens only with target and session policy of the Access
  that authenticated it (`OneAccess`, with the exceptions named below); an operation
  starts only if the Access as it is at that moment, with that credential, allows it
  (`RevokedStartsNothing`), and never beyond the gateway's limits, whoever
  authenticated (`LimitsHold`); a key or password that an Access lists decides the login
  in the whole chain of authenticators, where only the gateway's own static ones come
  before it: two credentials that share it fail, nothing is left to the webhook or to
  anonymous access, and in an Access the status controller calls valid it logs in as its
  credential (`ListedMaterialDecides`); every count is given back
  and the selection follows what connections hold (`ConnectionsCounted`); a proxied
  connection goes to the revision that was resolved (`ConnectsResolvedSpec`).
  `MatchIsGlob` compares the greedy scan with the definition for every pattern and value
  of at most 4 characters, and the session's environment names with both allow lists.
* **pod_data_plane**: through CRI a command runs in the Pod it was bound to
  (`RightInstance`); what the node's manager has cached is complete
  (`CachedHelperIntact`); nobody waits for a preparation that nobody makes, in the node
  or in the gateway (`WaitersAreServed`); drained means idle (`DrainedIsIdle`).
* **scp_transfer**: success on either side means the tree is stored where and as it was
  sent, times excepted where the file system did not take them (`SuccessIsStored`,
  `PathsMirrored`), and neither side waits for the other for
  ever except over a file that shrank (`TransferEnds`).

Each property is stated in words above its definition. `TypeOK` is not a property of
the runs: where a module defines it, it is part of the proved inductive invariant.

Why the bounds are enough: the code treats goroutines of one kind alike and the
properties relate at most two of them (a sender and a closer, an old and a new
forward, a leader and a waiter), so two of each meet in every order. One Access and
one key suffice where the code handles keys independently. The bounds on attempts,
changes, failures and restarts (`Max...`) allow one more than the first occurrence.
`MaxEvents` of access_login counts accepted connections and cache changes together: a
connection with two changes between its reads, or two connections with one. Its Accesses
may be there from the start (`InitialSpecs`), so that no event is spent on creating them,
and `MaxAttempts` is 2 (one attempt refused late, then another) where the library has six.
The names "a" and "a.c" are there because a locator can be read both ways.
`MaxRequeues` is 1 where the code has 5: what matters is a retry that is left and one
that is not. The caps only end behaviours; `CHECK_DEADLOCK FALSE` is set because a
system whose clients have left, or whose bounded inputs are used up, does stop.
Symmetry is used only in runs without liveness.

Fairness: weak fairness of each goroutine's own steps (the Go scheduler runs a
runnable goroutine), of timers and expired contexts, and of an outside call only once
its context is done or its transport closed, as the code passes a context to each of
them. Nothing makes a user, a healthy backend, a sink or an upstream server act. The
API server answering a status update is the one exception (AccessStatus), where the
client's request timeout plays that part. In ScpTransfer the two halves are fair and the
session's end is not: `cut ~> BothEnded` says what follows from it.

### Two disagreements

`remote_forward_kept`: `serveRemoteForward`'s cleanup (`pkg/podssh/remotetcpip.go:104`)
removes and closes whatever is registered under its address. After a cancel and a new
`tcpip-forward` of the same address, the old goroutine can close the new forward,
while `backend/helper/remote_forward.go:231` says "Cancel stops only this listener."

`ssh_proxy_completed`: a shell, exec or subsystem request whose reply is applied after
the channel's `serve` has ended stores its callback in the channel
(`pkg/sshproxy/proxy.go:347`), where nobody looks again; `close()` sweeps forwards and
agent only. The operation is never completed, while `pkg/sshprotocol/README.md:9` says
that a callback "must be completed once" and `proxy.go:139` that close ends "all
outstanding operation lifecycles". `OutstandingIsHeld` and `CompletedOnce` say that this
and the shared key below are all that is lost.

### Observations met while modelling

These shape the statements above and are not runs of their own.

* Forwards requested without a reply can come to share a key in the table, and one
  callback overwrites the other (`pkg/sshproxy/proxy.go:477`).
* Goroutines an adapter keeps for itself can record `operation.end` after
  `connection.end`; `QuietAfterEnd` excepts them.
* An agent connection accepted between the two halves of the helper's shutdown ends
  the accept loop together with the callback that would close the socket
  (`helper/agent_forward.go:113`); `ClosedIsReleased` lets this one socket stay.
* The gateway's helper cache is keyed by target and Pod UID
  (`apiserver/helper_copy.go:303`), and so is the path of the file, which replicas of the
  gateway share (`helper_copy.go:193`). After a container restart a lease names a file the
  new container lacks, and another replica can be rewriting it, while `DESIGN.md:362` says
  "按容器 ID 缓存" (cached by container ID) and `helper_acquirer.go:17` "ready to execute in
  the target container". `Invalidate` has no caller. The model does all of this
  (`RestartContainer`, `ReplicaCopies`, `ExecByName`), and no property claims otherwise:
  `CachedHelperIntact` is about the node's cache only.
* The owner in the gateway prepares on its own context, so that cancelling it fails the
  waiters with its error; `WaitersAreServed` excludes that for the node's manager only.
* `Proxy` of a helper dial waits for the terminal result until the connection ends
  (`backend/port_forward.go:82`); `SessionAndStreamsEnd` excepts that wait.
* Conflicts of a status update use up the same requeues as failures; `StatusConverges`
  excepts a key that was given up.
* A login bound to an Access that is gone when `Resolve` reads it falls through to the
  direct Pod resolver (`accesspolicy/resolver.go:129`) and is stopped by the session
  policy's read, unless the Access is back by then. This is the exception in `OneAccess`.
* A static or webhook identity is resolved through Accesses first, while
  `DESIGN.md:391-397` names the Pod resolver for it, and with a suffix locator it gets the
  global session policy instead of the Access's, whose settings
  `apis/ssh/v1/access_types.go:278-288` describes without that restriction. `OneAccess`
  states its last conjunct for plain names only.
* A target selected for an attempt that is rejected afterwards stays counted until the
  connection ends; `ConnectionsCounted` counts it as held.
* A webhook authenticator never passes, so an anonymous login after it is not reached.
* A key removed from a credential that stays in the Access ends no connection and denies
  no operation: the authorizer looks the credential up by name.
* A file that shrinks between `Stat` and the copy leaves both scp halves waiting until
  the session ends; a gained zero byte is taken for the terminator and dropped; the end
  of the stream inside a directory is success for the sink.

## 4. What is proved

Every theorem is about the `Spec` that the runs check, for every value of the constants
that satisfies the `ASSUME`s of the module. Those say that bounds are natural numbers,
that placeholders (`None`, `NoName`) are not elements of the sets they stand beside, and
which kinds of request exist; where something is counted they also say that the set is
finite. The ones that say more are named below. All but one theorem have no other
hypothesis.

Each proof module has the same order: an inductive invariant `IInv`, one lemma per action
(or per goroutine where actions are short) that it keeps `IInv`, the theorem
`InductiveInvariant` (`Spec => []IInv`), and the properties that follow from it. `IInv`
is needed because no property is inductive as it stands: it says what a goroutine knows
at each place of its code. `TypeCorrect` is `Spec => []TypeOK`; AccessLogin has no
`TypeOK`, and the shape of its records is part of `IInv`.

| Module | Theorem | States |
|---|---|---|
| AsyncRecorderProofs | `SendSafe`, `CloseDrainsAll`, `SinkClosedLast` | NoSendOnClosedQueue, CloseDrains, NoWriteAfterSinkClose |
| | `EventsConserved`, `ClosersConsistent` | an accepted event is queued, being written or reported; racing Close calls agree about the sink's result |
| RemoteForwardProofs | `TableIsServed`, `CloseReleases` | RegisteredIsServed, ClosedHoldsNothing |
| | `LifecycleRefined` | the safety part of LifecycleSpec |
| SSHProxyProofs | `CallbacksKept`, `CloseReleases`, `TableIsUpstreams` | OutstandingIsHeld, ClosedHoldsNothing, TableFollowsUpstream |
| | `LifecycleRefined` | the safety part of LifecycleSpec, which is that of CompletedOnce |
| GatewayConnectionProofs | `AttemptsAreReported`, `LifecycleIsClosed`, `EndIsQuiet` | AttemptsReported, LifecycleClosed, QuietAfterEnd |
| HelperConnectionProofs | `EarlyStreamsAreKept`, `ClosingReleases` | EarlyStreamKept, ClosedIsReleased |
| PodSessionProofs | `BackendSeesConfigured`, `HandlerIsLast`, `HalfCloseDrains` | BackendSees, HandlerEndsLast, HalfCloseKept |
| PodDataPlaneProofs | `BoundToInstance`, `CacheIsIntact`, `DrainIsComplete`, `PreparationIsShared` | RightInstance, CachedHelperIntact, DrainedIsIdle, WaitersAreServed |
| AccessLoginProofs | `ResolvedSpecConnected`, `OneAccessThroughout`, `ListedMaterialDecided`, `NothingStartsRevoked` | ConnectsResolvedSpec, OneAccess, ListedMaterialDecides, RevokedStartsNothing |
| | `LimitsEnforced` | LimitsHold, if `ShellPatternsRead` |

The arguments:

* **AsyncRecorder**: a sender is safe because it holds the read lock and saw the flag
  false under it, while flag and channel change only under the write lock (`LockInv`).
  `DrainInv` says what `run` has done when it exits (channel closed and empty),
  `SinkInv` what each place in `Close` implies about the sink.
* **RemoteForward**: a forward is handed from the request handler to the goroutine that
  serves it and to `Close`. `HandlerInv`, `ForwardInv` and `OwnedInv` say in whose hands
  it and its session are at each point, `StoppedInv` that one refused or ended has none.
  Then every step finishes the operation that its goroutine owns, or none, which is the
  refinement of OperationLifecycle.
* **SSHProxy**: ownership again. A callback can be at seven kinds of place (three kinds of
  goroutine, the channel, the table, the agent slot, the list of `close()`); `OwnInv` says
  that it is at one at a time, `KeptInv` that it is somewhere until it is called or lost
  in a way `OutstandingIsHeld` names. One lemma about moving callbacks (`Moved`) serves
  all actions. `LinkInv` has the upstream connection against `close()`, `TableInv` the
  table against the upstream's listeners.
* **GatewayConnection**: the properties count events of a log. Lemmas say how a count
  changes when an event is appended; `AttemptInv`, `ReadyInv` and `GaugeInv` tie the
  counts to the phase of the connection and to the gauges, and `OpInv` a handler and its
  operation to a connection whose owner still waits for it. `QuietAfterEnd` is an action
  property: a step that records belongs to a goroutine whose connection has not ended, or
  to the adapter. The sets of connections and operations are
  finite here.
* **HelperConnection**: a listener is followed through the client's table before and
  after rekey (`TableInv`, `CloseInv`), the calls on both sides (`RpcInv`), the helper's
  sockets and who will close them (`ListenersInv`, `KeeperInv`, `StopInv`), and its
  connections and their streams (`ConnInv`, `StreamInv`). `ForwardsAssumption` says that
  the addresses asked for on one client differ; the gateway starts a helper session, with
  a client of its own, for every forward (`startHelperSession`).
* **PodSession**: `StartInv` and `WindowInv` relate what was configured to what the
  task was given, `TeardownInv` lists what the loop has waited for, `CopyInv` says when
  a copy can have ended.
* **PodDataPlane**: nobody knows a Pod or a container before it exists (`StartedInv`),
  so that what is cached never speaks of one that is yet to come; `RequestInv` and `AcquirerInv` say
  what a request holds at each place, who owns a preparation and that whoever is waited
  for is at work or has finished; `DrainInv` has the
  number of streams, by the cardinality theorems of the library.
* **AccessLogin**: each read of the caches may be stale at the next one. `RevisionInv` says
  that the Access an External target came from has a later revision than the target by
  now, or still the spec it was resolved from; `AccessInv` that identity, target and
  session policy are of one Access, or the caches have changed between two reads;
  `LimitsInv` what is within the limits at which stage. A new Access
  gets a uid no target has (`CacheInv`). `RevokedStartsNothing` is an action property:
  `OnlyBeginStarts` says that no other step starts an operation, `BeginAllowed` that
  this one read the Access as it is then. `ListedMaterialDecides` is about every state the
  caches can be in: `FirstAnswerIs` says what a chain answers when one member decides,
  `OnlyMatch` that the only credential listing a key is the one found. `SpecsAssumption` says that initial specs are among those an edit can
  give, `MaterialAssumption` that an empty line is no key, as `splitSecretLines` sees
  to, and `WebhookAssumption` that a webhook's answer names no Access, because
  `webhook.go` gives it no `Extra`. `LimitsEnforced` has the hypothesis
  `ShellPatternsRead`: where `Match` accepts a shell for a pattern of the limits, the
  pattern as a glob does. That is the scan of `pattern.go`, a fold over a sequence, and
  needs induction over data; `MatchIsGlob` checks it for short texts.

The modules with theorems, and those they use, take sequences from `Sequences` and folds
from `Folds` and `FiniteSetsExt`; `SequencesExt` is left to the others, as the
bags it brings along slow down every obligation.

Only model-checked, and why:

* liveness: `CallsReturn`, `ListenersReleased`, `ShutdownCompletes`, `ShutdownReleases`,
  `SessionAndStreamsEnd`, `StatusConverges`, `TransferEnds`, and the fair part of
  `LifecycleSpec` (RemoteForward) and of `CompletedOnce` (SSHProxy). The prover has no rules for fairness and `ENABLED`;
* `MatchIsGlob`, and `ConnectionsCounted` with its cardinalities of what all connections
  hold and the fold of the selector: induction over data;
* `SuccessIsStored` and `PathsMirrored` of ScpTransfer, which relate trees and byte
  sequences read in pieces: the same;
* `TimeoutsEnforced` (SessionPolicyConn) and `ObservedGenerationHonest` (AccessStatus): no
  proof has been written.

## 5. What is not modelled

Webhooks, the API server, the upstream server and the SSH library are external: they
answer in any way the code handles. Texts are not parsed: a user name, a locator and an
scp header are records of their parts, and key fingerprints are equality. sftp is a
library and the helper's dial a copy loop that PodSession sees from the gateway. The
status controller's filter of Pods by container policy is not told apart from their being
candidates at all.
Option validation, TLS reloading, metrics other than the two gauges, commands and
generated code have no behaviour the properties are about. `PROJECT.json` lists every
part with its reason.

AccessLogin takes the authentication callbacks one connection at a time and without the
audit log; GatewayConnection has the log, the gauges and the shutdown and takes the
verdict as an input. They are not composed: their product is out of TLC's reach, and
what passes between them is the verdict and the published adapter.

## 6. Plan

Order of what follows, most important first.

1. Prove `TimeoutsEnforced` (the arithmetic is linear, the invariant is about the pending
   timer) and `ObservedGenerationHonest` (the cached object is never newer than the
   server's); the counting half of `ConnectionsCounted`.
2. Model: a second Pod in AccessStatus; two sessions that share a helper process.
