------------------------- MODULE MCHelperConnection -------------------------
(* A small instance of HelperConnection: a remote listener on port 0 and the  *)
(* agent socket on one client, as in the helper's own tests.                 *)
EXTENDS HelperConnection

CONSTANTS remote, agent, k1

MCForwards == {remote, agent}
OneAgent == {agent}
OneConn == {k1}
MCKeys == {"host:0", "host:4022", "agent"}
MCRequested == [f \in Forwards |-> IF f \in Agents THEN "agent" ELSE "host:0"]
MCActual == [f \in Forwards |-> IF f \in Agents THEN "agent" ELSE "host:4022"]
=============================================================================
