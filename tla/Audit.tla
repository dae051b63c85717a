------------------------------- MODULE Audit -------------------------------
(***************************************************************************)
(* audit_trace (sarc_governance/audit.py): a finished trace against a      *)
(* ConstraintSpec, in the two schemas it accepts.                          *)
(*                                                                         *)
(*   flat          one record per evaluation, what GovernanceToolset emits *)
(*   action level  one record per action with the evaluations it holds     *)
(*                                                                         *)
(* The list of discrepancies is a set here: their order, how often one is  *)
(* repeated and their wording are left out.                                *)
(***************************************************************************)
EXTENDS Constraints

disc(action_id, cid, type) == [action_id |-> action_id, constraint |-> cid, type |-> type]

\* constraints = {c.id: c for c in spec.constraints}, its keys and its entries.
Declared(spec) == {spec[i].id : i \in DOMAIN spec}
Matched(spec, cid) == spec[CHOOSE i \in DOMAIN spec : spec[i].id = cid]

\* I1: the constraints of the spec that no evaluation of the action mentions.
Missing(spec, action_id, evaluated_ids) ==
    {disc(action_id, cid, "coverage") : cid \in Declared(spec) \ evaluated_ids}

\* Mutant of Flaws: compares the response of a constraint that did not fire.
Flaws_IgnoresFired(spec, action_id, cid, point, fired, response) ==
    {disc(action_id, cid, type) : type \in
        {type \in {"coverage", "placement", "response"} :
            \/ type = "coverage" /\ cid \notin Declared(spec)
            \/ /\ type = "placement" /\ cid \in Declared(spec)
               /\ ~is_compatible(Matched(spec, cid).klass, point)
            \/ /\ type = "response" /\ cid \in Declared(spec)
               /\ point \in EnforcementPoint
               /\ response # Matched(spec, cid).response}}

\* What the loops over the evaluations say of one: an id the spec does not
\* have, I2 (a point that is none or that the class does not admit) and I3.
Flaws(spec, action_id, cid, point, fired, response) ==
    {disc(action_id, cid, type) : type \in
        {type \in {"coverage", "placement", "response"} :
            \/ type = "coverage" /\ cid \notin Declared(spec)
            \/ /\ type = "placement" /\ cid \in Declared(spec)
               /\ ~is_compatible(Matched(spec, cid).klass, point)
            \/ /\ type = "response" /\ cid \in Declared(spec)
               /\ point \in EnforcementPoint
               /\ fired /\ response # Matched(spec, cid).response}}

\* Mutant of audit_flat: takes the ids of the action from the fired records.
audit_flat_FiredIds(spec, trace) ==
    LET Of(a) == {k \in DOMAIN trace : trace[k].action_id = a}
        missing == UNION {Missing(spec, a, {trace[k].constraint_id : k \in {l \in Of(a) : trace[l].fired}}) :
                            a \in {trace[k].action_id : k \in DOMAIN trace}}
        flaws == UNION {Flaws(spec, trace[k].action_id, trace[k].constraint_id, trace[k].point,
                              trace[k].fired, trace[k].response) : k \in DOMAIN trace}
    IN  missing \cup flaws

\* Records are grouped by action id alone, whoever wrote them.
audit_flat(spec, trace) ==
    LET Of(a) == {k \in DOMAIN trace : trace[k].action_id = a}
        missing == UNION {Missing(spec, a, {trace[k].constraint_id : k \in Of(a)}) :
                            a \in {trace[k].action_id : k \in DOMAIN trace}}
        flaws == UNION {Flaws(spec, trace[k].action_id, trace[k].constraint_id, trace[k].point,
                              trace[k].fired, trace[k].response) : k \in DOMAIN trace}
    IN  missing \cup flaws

\* evaluated = {e["id"]: e ...}: the last of several evaluations of an id stays.
LastPerId(list) ==
    {list[k] : k \in {k \in DOMAIN list :
        \A l \in DOMAIN list : list[l].id = list[k].id => l <= k}}

\* Mutant of audit_action_level: passes over the ids the spec does not have.
audit_action_level_KnownOnly(spec, trace, check_attribution) ==
    LET Evaluations(k) == LastPerId(trace[k].evaluated)
        missing == UNION {Missing(spec, trace[k].action_id, {e.id : e \in Evaluations(k)}) : k \in DOMAIN trace}
        FlawsIn(k) == UNION {Flaws(spec, trace[k].action_id, e.id, e.verif, e.fired, e.response) :
                               e \in {d \in Evaluations(k) : d.id \in Declared(spec)}}
        nameless == {k \in DOMAIN trace : check_attribution /\ ~trace[k].authority_nonempty}
    IN  missing \cup (UNION {FlawsIn(k) : k \in DOMAIN trace})
        \cup {disc(trace[k].action_id, "None", "attribution") : k \in nameless}

audit_action_level(spec, trace, check_attribution) ==
    LET Evaluations(k) == LastPerId(trace[k].evaluated)
        missing == UNION {Missing(spec, trace[k].action_id, {e.id : e \in Evaluations(k)}) : k \in DOMAIN trace}
        FlawsIn(k) == UNION {Flaws(spec, trace[k].action_id, e.id, e.verif, e.fired, e.response) :
                               e \in Evaluations(k)}
        nameless == {k \in DOMAIN trace : check_attribution /\ ~trace[k].authority_nonempty}
    IN  missing \cup (UNION {FlawsIn(k) : k \in DOMAIN trace})
        \cup {disc(trace[k].action_id, "None", "attribution") : k \in nameless}

\* The first record decides which schema the whole trace is read in.
is_flat_trace(trace) == {"constraint_id", "point"} \subseteq DOMAIN trace[1]

audit_trace(spec, trace, check_attribution) ==
    IF trace = <<>> THEN {}
    ELSE IF is_flat_trace(trace) THEN audit_flat(spec, trace)
    ELSE audit_action_level(spec, trace, check_attribution)
=============================================================================
