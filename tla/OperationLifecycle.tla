------------------------- MODULE OperationLifecycle -------------------------
(***************************************************************************)
(* What every SSH connection protocol promises about the operations it      *)
(* begins (pkg/sshprotocol): the FinishOperation callback of a started       *)
(* operation is completed once, and at the latest after the connection has  *)
(* gone down.  The gateway turns the two calls into operation.start and     *)
(* operation.end audit events and into the active-operations gauge, so this  *)
(* is the abstract specification the protocol adapters have to implement.   *)
(***************************************************************************)
CONSTANT Ops

VARIABLES status,  \* "none", "started" or "ended", for each operation
          down     \* the connection's context is cancelled

vars == <<status, down>>

Init ==
  /\ status = [o \in Ops |-> "none"]
  /\ down = FALSE

\* BeginOperationFunc returned a FinishOperation callback.
Begin(o) ==
  /\ status[o] = "none"
  /\ status' = [status EXCEPT ![o] = "started"]
  /\ UNCHANGED down

\* The callback is completed, with whatever result.
Finish(o) ==
  /\ status[o] = "started"
  /\ status' = [status EXCEPT ![o] = "ended"]
  /\ UNCHANGED down

\* A denied operation begins and ends within one call of the adapter.
Deny(o) ==
  /\ status[o] = "none"
  /\ status' = [status EXCEPT ![o] = "ended"]
  /\ UNCHANGED down

GoDown ==
  /\ ~down
  /\ down' = TRUE
  /\ UNCHANGED status

Next == GoDown \/ \E o \in Ops : Begin(o) \/ Finish(o) \/ Deny(o)

Safety == Init /\ [][Next]_vars

\* An operation may run as long as the connection is up; it ends once it is down.
Spec ==
  /\ Safety
  /\ \A o \in Ops : WF_vars(down /\ Finish(o))
=============================================================================
