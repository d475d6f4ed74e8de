----------------------------- MODULE MCSSHProxy -----------------------------
(* A small instance of SSHProxy: two operations, a channel opened by either *)
(* side, and one port besides port 0.                                        *)
EXTENDS SSHProxy

CONSTANTS o1, o2, c1, c2

TwoOps == {o1, o2}
OneClientChannel == {c1}
OneUpstreamChannel == {c2}
MCKeys == {"host:0", "host:22"}
MCZeroKey == "host:0"

MCGlobal == ({"tcpip-forward", "cancel-tcpip-forward"} \X MCKeys \X BOOLEAN)
            \cup {<<"keepalive", MCZeroKey, FALSE>>, <<"other", MCZeroKey, TRUE>>}
AllTypes == {"session", "direct-tcpip", "forwarded-tcpip", "auth-agent", "other"}
\* The client sends its requests on the channel it opened.
MCRequests ==
  [c \in Channels |-> IF c = c1 THEN {"shell", "auth-agent-req", "other"} ELSE {}]
=============================================================================
