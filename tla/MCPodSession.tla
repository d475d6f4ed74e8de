---------------------------- MODULE MCPodSession ----------------------------
(* One session with one stream beside it.                                     *)
EXTENDS PodSession

CONSTANT s1

OneStream == {s1}

=============================================================================
