---------------------------- MODULE MCAgentServer ----------------------------
(* Instance of AgentServer for TLC. *)
EXTENDS AgentServer, TLC

CONSTANTS e1, e2, e3, m1, m2, a1, a2, s1, s2
ThreeEvents == {e1, e2, e3}
TwoMemories == {m1, m2}
TwoAddresses == {a1, a2}
TwoIds == {s1, s2}
Pairs == TwoMemories \X TwoIds
AllFaults == FaultKind
Symmetric ==
    Permutations(ThreeEvents) \cup Permutations(TwoMemories)
        \cup Permutations(TwoAddresses) \cup Permutations(TwoIds)
=============================================================================
