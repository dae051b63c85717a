--------------------------- MODULE MCJsonlStore ---------------------------
(* Instances of JsonlStore for TLC. *)
EXTENDS JsonlStore

AllFaults == FaultKind
OnlyKill == {"kill"}
=============================================================================
