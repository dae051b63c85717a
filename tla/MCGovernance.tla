---------------------------- MODULE MCGovernance ----------------------------
(* Instances of Governance for TLC. *)
EXTENDS Governance, TLC

Rule(id, klass, verif, response) ==
    [id |-> id, klass |-> klass, verif |-> verif, response |-> response]

\* Every kind of constraint call_tool treats differently, declared out of the
\* order of the enforcement points.
AllKinds ==
    << Rule("paa-esc",  "escalation", "PAA", "block"),
       Rule("atm-hard", "hard",       "ATM", "block"),
       Rule("pag-esc",  "escalation", "PAG", "escalate"),
       Rule("pag-susp", "escalation", "PAG", "suspend_route_default_deny"),
       Rule("atm-soft", "soft",       "ATM", "throttle_log"),
       Rule("pag-hard", "hard",       "PAG", "log"),
       Rule("paa-soft", "soft",       "PAA", "log") >>

\* A rule per enforcement point, for two calls at once.
ThreePoints ==
    << Rule("pag-susp", "escalation", "PAG", "suspend_route_default_deny"),
       Rule("atm-hard", "hard",       "ATM", "block"),
       Rule("paa-esc",  "escalation", "PAA", "escalate") >>

CONSTANTS c1, c2
OneCall == {c1}
TwoCalls == {c1, c2}
OnlySecond == {c2}
AllFaults == FaultKind
MemoryFaults == {"no_memory", "memory_raises"}
=============================================================================
