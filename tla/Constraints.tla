---------------------------- MODULE Constraints ----------------------------
(***************************************************************************)
(* The constraint model of sarc_governance/constraints.py: the three       *)
(* enumerations, the class-to-point table of the paper, what a Constraint  *)
(* may be once __post_init__ has accepted it, and what a ConstraintSpec    *)
(* may be once it has rejected duplicate ids.                              *)
(*                                                                         *)
(* A predicate is arbitrary Python over a context dictionary: it is not    *)
(* part of the record.  The modules that evaluate one choose its verdict.  *)
(***************************************************************************)
EXTENDS Naturals, Sequences

ConstraintClass == {"hard", "soft", "escalation"}

EnforcementPoint == {"PAG", "ATM", "PAA", "ER"}

Response == {"block", "block_or_escalate", "throttle_log", "escalate",
             "suspend_route_default_deny", "log"}

\* _CLASS_POINTS: where a constraint of a class may be verified.  No class
\* admits ER, which is the router and not an inline point.
ClassPoints ==
    [hard |-> {"PAG", "ATM"}, soft |-> {"ATM", "PAA"}, escalation |-> {"PAG", "PAA"}]

allowed_points(klass) == ClassPoints[klass]

is_compatible(klass, point) ==
    klass \in ConstraintClass /\ point \in allowed_points(klass)

\* The constraints that __post_init__ lets through, over a set of ids.
Constraint(Ids) ==
    {c \in [id : Ids, klass : ConstraintClass,
            verif : EnforcementPoint, response : Response] :
        is_compatible(c.klass, c.verif)}

\* A ConstraintSpec: accepted constraints in declaration order, no id twice.
IsConstraintSpec(s) ==
    /\ s \in Seq(Constraint({s[i].id : i \in DOMAIN s}))
    /\ \A i, j \in DOMAIN s : s[i].id = s[j].id => i = j

\* ConstraintSpec.at(point), as the positions of the matching constraints: a
\* loop over the list is a loop over these positions in increasing order.
at(s, point) == {i \in DOMAIN s : s[i].verif = point}
=============================================================================
