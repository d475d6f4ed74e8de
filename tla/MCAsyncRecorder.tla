-------------------------- MODULE MCAsyncRecorder --------------------------
(* A small instance of AsyncRecorder for TLC: two goroutines that record      *)
(* and two that close, around a channel of capacity one.                     *)
EXTENDS AsyncRecorder

CONSTANTS p1, p2, c1, c2

MCCallers == {p1, p2}
MCClosers == {c1, c2}
=============================================================================
