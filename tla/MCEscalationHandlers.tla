------------------------ MODULE MCEscalationHandlers ------------------------
(* Instance of EscalationHandlers for TLC. *)
EXTENDS EscalationHandlers

CONSTANTS c1, c2, q1

\* Two refunds of one request.
MCCalls == {c1, c2}
MCRequests == {q1}
MCrequest == [t \in MCCalls |-> q1]

\* Every script of up to two answers.
MCScripts == UNION {[1 .. n -> Answers] : n \in 0 .. 2}
=============================================================================
