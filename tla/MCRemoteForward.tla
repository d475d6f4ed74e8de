--------------------------- MODULE MCRemoteForward ---------------------------
(* A small instance of RemoteForward: two tcpip-forward requests on  *)
(* one or two addresses, so that an address is forwarded again after a cancel *)
EXTENDS RemoteForward

CONSTANTS f1, f2, b1, b2

TwoForwards == {f1, f2}
OneBind == {b1}
TwoBinds == {b1, b2}
=============================================================================
