---------------------------- MODULE AccessStatus ----------------------------
(* The status controller of the Access policy runtime (pkg/accesspolicy):    *)
(* one Access object with the Secret and the Pods it refers to.  The API     *)
(* server holds the objects; informers copy them into the gateway's caches   *)
(* and notify the controller, whose worker projects the Access into its      *)
(* status.                                                                   *)
(*                                                                           *)
(* A cache catches up with the API server in one step: the intermediate      *)
(* events of a watch are not told apart.                                     *)
EXTENDS Naturals

CONSTANTS
  Pods,         \* names of the Pods the selector matches
  Specs,        \* the specs the Access may be given
  MaxRequeues,  \* requeues before a key is dropped; 5 in the code
  MaxChanges,   \* bound: changes made by the users of the API server
  MaxFailures   \* bound: status updates that fail for no reason of ours

VARIABLES
  api,          \* the objects at the API server
  cache,        \* the objects in the gateway's informer caches
  notices,      \* informer notifications not yet handled
  queued,       \* the Access key is in the work queue
  delayed,      \* the Access key waits for its rate-limited requeue
  requeues,     \* NumRequeues of the key
  worker,       \* the worker's place in sync, its snapshot and its status
  lost,         \* the worker gave up on a failure and nothing queued the key
  changes, failures

queueVars == <<queued, delayed, requeues, worker, lost, failures>>
objectVars == <<api, cache, notices, changes>>
vars == <<objectVars, queueVars>>

None == [uid |-> 0]
PodStates == {"absent", "pending", "ready", "ended"}
Kinds == {"access", "secret", "pods"}
NoStatus == [gen |-> 0, valid |-> FALSE, ready |-> FALSE]
Idle == [pc |-> "idle", snap |-> None, status |-> NoStatus]

NewAccess(uid, s) == [uid |-> uid, gen |-> 1, rv |-> 1, spec |-> s, status |-> NoStatus]

AcceptAccess(a) == a # None /\ a.spec.mine

(* The caches have synced and Start has queued every accepted Access.        *)
Init ==
  /\ api \in [access : {None} \cup {NewAccess(1, s) : s \in Specs},
              secret : BOOLEAN, pods : [Pods -> PodStates]]
  /\ cache = api
  /\ notices = {}
  /\ queued = AcceptAccess(cache.access)
  /\ delayed = FALSE /\ requeues = 0
  /\ worker = Idle
  /\ lost = FALSE
  /\ changes = 0 /\ failures = 0

-----------------------------------------------------------------------------
(* The users of the API server.                                              *)

Changed(objects) ==
  /\ changes < MaxChanges
  /\ changes' = changes + 1
  /\ api' = objects
  /\ UNCHANGED <<cache, notices, queueVars>>

CreateAccess == \E s \in Specs :
  /\ api.access = None
  /\ Changed([api EXCEPT !.access = NewAccess(changes + 2, s)])

UpdateAccess == \E s \in Specs :
  /\ api.access # None /\ s # api.access.spec
  /\ Changed([api EXCEPT !.access.spec = s, !.access.gen = @ + 1, !.access.rv = @ + 1])

DeleteAccess ==
  /\ api.access # None
  /\ Changed([api EXCEPT !.access = None])

ChangeSecret == Changed([api EXCEPT !.secret = ~@])

ChangePod == \E p \in Pods, s \in PodStates :
  /\ s # api.pods[p]
  /\ Changed([api EXCEPT !.pods[p] = s])

-----------------------------------------------------------------------------
(* Informers and the event handlers of the status controller.                *)

Informed(k) ==
  /\ cache[k] # api[k]
  /\ cache' = [cache EXCEPT ![k] = api[k]]
  /\ notices' = notices \cup {k}
  /\ UNCHANGED <<api, queueVars, changes>>

Add == queued' = TRUE /\ lost' = FALSE

(* AccessEventHandler has no DeleteFunc, and does not look at the class.     *)
AccessEventAdds == cache.access # None

EnqueueAllAdds == AcceptAccess(cache.access)

EventAdds(k) == IF k = "access" THEN AccessEventAdds ELSE EnqueueAllAdds

IgnoresPods(k) == k # "pods" /\ EventAdds(k)

HandlerAdds(k) == EventAdds(k)

Notify(k) ==
  /\ k \in notices
  /\ notices' = notices \ {k}
  /\ IF HandlerAdds(k) THEN Add ELSE UNCHANGED <<queued, lost>>
  /\ UNCHANGED <<api, cache, delayed, requeues, worker, failures, changes>>

-----------------------------------------------------------------------------
(* The status projection.                                                    *)

ActivePods(pods) == {p \in Pods : pods[p] \in {"pending", "ready"}}
ReadyPods(pods) == {p \in Pods : pods[p] = "ready"}
CandidatePods(pods) ==
  IF ReadyPods(pods) # {} THEN ReadyPods(pods) ELSE ActivePods(pods)

(* material: "secret" when a credential is read from the Secret, "none" when *)
(* the spec is invalid whatever the Secret holds.                            *)
ValidateCredential(material, secret) == material = "inline" \/ (material = "secret" /\ secret)

ValidateAccess(a, secret) == ValidateCredential(a.spec.material, secret)

StatusFor(a, secret, pods) ==
  LET valid == ValidateAccess(a, secret) IN
  [gen |-> a.gen, valid |-> valid,
   ready |-> valid /\ (a.spec.type = "External" \/ CandidatePods(pods) # {})]

-----------------------------------------------------------------------------
(* The status controller's worker.                                           *)

DelayElapses ==
  /\ delayed
  /\ delayed' = FALSE
  /\ Add
  /\ UNCHANGED <<objectVars, requeues, worker, failures>>

(* processNext takes the key; an Add from here on queues it again.           *)
ProcessNext ==
  /\ queued /\ worker.pc = "idle"
  /\ queued' = FALSE
  /\ worker' = [Idle EXCEPT !.pc = "get"]
  /\ UNCHANGED <<objectVars, delayed, requeues, lost, failures>>

Forget == requeues' = 0 /\ UNCHANGED delayed

SyncDone == worker' = Idle /\ Forget /\ UNCHANGED lost

SyncGet ==
  /\ worker.pc = "get"
  /\ IF AcceptAccess(cache.access)
     THEN /\ worker' = [worker EXCEPT !.pc = "status", !.snap = cache.access]
          /\ UNCHANGED <<requeues, delayed, lost>>
     ELSE SyncDone
  /\ UNCHANGED <<objectVars, queued, failures>>

SyncStatus ==
  /\ worker.pc = "status"
  /\ LET s == StatusFor(worker.snap, cache.secret, cache.pods) IN
     IF s = worker.snap.status
     THEN SyncDone
     ELSE /\ worker' = [worker EXCEPT !.pc = "update", !.status = s]
          /\ UNCHANGED <<requeues, delayed, lost>>
  /\ UNCHANGED <<objectVars, queued, failures>>

(* What processNext does with an error of sync.                              *)
SyncFails(transient) ==
  IF requeues < MaxRequeues
  THEN delayed' = TRUE /\ requeues' = requeues + 1 /\ UNCHANGED lost
  ELSE Forget /\ lost' = (transient /\ ~queued)

UnconditionalUpdate(a, snap) == TRUE

(* The update is a copy of the snapshot, with its uid and resourceVersion:   *)
(* the API server refuses it when the object has changed since.              *)
SameVersion(a, snap) == a.uid = snap.uid /\ a.rv = snap.rv

UpdateStatus ==
  /\ worker.pc = "update"
  /\ LET a == api.access IN
     \/ /\ a = None
        /\ SyncDone
        /\ UNCHANGED <<api, failures>>
     \/ /\ a # None /\ SameVersion(a, worker.snap)
        /\ api' = [api EXCEPT !.access.status = worker.status, !.access.rv = @ + 1]
        /\ SyncDone
        /\ UNCHANGED failures
     \/ /\ a # None /\ ~SameVersion(a, worker.snap)
        /\ worker' = Idle /\ SyncFails(FALSE)
        /\ UNCHANGED <<api, failures>>
     \/ /\ failures < MaxFailures
        /\ failures' = failures + 1
        /\ worker' = Idle /\ SyncFails(TRUE)
        /\ UNCHANGED api
  /\ UNCHANGED <<cache, notices, changes, queued>>

-----------------------------------------------------------------------------
Users == CreateAccess \/ UpdateAccess \/ DeleteAccess \/ ChangeSecret \/ ChangePod

Controller ==
  \/ \E k \in Kinds : Informed(k) \/ Notify(k)
  \/ DelayElapses \/ ProcessNext \/ SyncGet \/ SyncStatus \/ UpdateStatus

Next == Users \/ Controller

Spec == Init /\ [][Next]_vars

(* The informers deliver, the queue's goroutines and the worker run, and the *)
(* API server answers an update.                                             *)
FairSpec ==
  /\ Spec
  /\ \A k \in Kinds : WF_vars(Informed(k)) /\ WF_vars(Notify(k))
  /\ WF_vars(DelayElapses) /\ WF_vars(ProcessNext)
  /\ WF_vars(SyncGet) /\ WF_vars(SyncStatus) /\ WF_vars(UpdateStatus)

-----------------------------------------------------------------------------
(* A status that claims to have observed the current generation was computed *)
(* from the current spec: its verdict is one this spec can have, with the    *)
(* Secret or without it, although sync works on a cached, possibly stale     *)
(* copy (statusFor, updateStatus).                                           *)
ObservedGenerationHonest ==
  LET a == api.access IN
  (a # None /\ a.status.gen = a.gen) =>
    /\ \E secret \in BOOLEAN : a.status.valid = ValidateAccess(a, secret)
    /\ a.status.valid /\ a.spec.type = "External" => a.status.ready
    /\ a.status.ready => a.status.valid

(* The status of the Access at the API server says what the objects at the   *)
(* API server imply.                                                         *)
StatusReflects ==
  AcceptAccess(api.access) =>
    api.access.status = StatusFor(api.access, api.secret, api.pods)

(* Once the objects stop changing, the status settles on what they imply,    *)
(* unless the worker gave up after MaxRequeues failed updates (processNext). *)
StatusConverges == <>[](StatusReflects \/ lost)
=============================================================================
