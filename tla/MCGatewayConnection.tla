------------------------ MODULE MCGatewayConnection ------------------------
(* A small instance of the gateway's side of a connection: the owners of two *)
(* connections with one operation, in every way of being served, and the     *)
(* deadline wrapper (SessionPolicyConn) of one connection with a reader and a *)
(* writer goroutine, for a few instants: two idle periods and a changed       *)
(* policy.  Owner and wrapper share no variable in the model (an expired      *)
(* policy is a Disconnect to the owner), so each is explored while the other  *)
(* is at rest.                                                                *)
EXTENDS GatewayConnection, Integers

CONSTANTS c1, c2, o1, reader, writer,
          Streams, Durations, MaxTime, MaxApplies, NoTime

ASSUME DurationsAssumption == Durations \subseteq Int
ASSUME MaxTimeAssumption == MaxTime \in Nat /\ NoTime \notin Int

TwoConns == {c1, c2}
OneOp == {o1}
AllServing == {"session", "proxied", "detached", "adapter"}
OneMethod == {"publickey"}
TwoStreams == {reader, writer}
MCDurations == {-1, 1, 2}

VARIABLES now, opts, policy, lastActivity, touching, timer, firing, expired, closed, applies,
          activity

deadlineVars == <<now, opts, policy, lastActivity, touching, timer, firing, expired, closed,
                  applies, activity>>
Deadline == INSTANCE SessionPolicyConn

\* One of the wrapper's initial states, and the owners' only one.
NoLimits == [limitIdle |-> -1, limitMax |-> -1, idle |-> -1, max |-> -1]
WrapperRests == Deadline!Init /\ opts = NoLimits
OwnersRest == gateway = "running" /\ \A c \in Conns : phase[c] = "none"

MCInit == Init /\ Deadline!Init
MCNext ==
  \/ WrapperRests /\ Next /\ UNCHANGED deadlineVars
  \/ OwnersRest /\ Deadline!Next /\ UNCHANGED vars
MCSpec == MCInit /\ [][MCNext]_<<vars, deadlineVars>> /\ Fairness

\* SessionPolicyConn's property: an open connection outlives neither the durations in
\* force nor the configured limits.
TimeoutsEnforced == Deadline!TimeoutsEnforced
=============================================================================
