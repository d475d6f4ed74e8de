--------------------------- MODULE MCAccessStatus ---------------------------
(* A small instance of AccessStatus: specs that differ in type, material and *)
(* gateway class.                                                            *)
EXTENDS AccessStatus

CONSTANT p1

MCPods == {p1}
PodSpec == [type |-> "Pod", mine |-> TRUE, material |-> "secret"]
ExternalSpec == [type |-> "External", mine |-> TRUE, material |-> "inline"]
ForeignSpec == [ExternalSpec EXCEPT !.mine = FALSE]
EmptySpec == [PodSpec EXCEPT !.material = "none"]
MCSpecs == {PodSpec, ExternalSpec, ForeignSpec, EmptySpec}
=============================================================================
