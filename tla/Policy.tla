------------------------------- MODULE Policy -------------------------------
(***************************************************************************)
(* From a spec file to a ConstraintSpec (sarc_governance/specs.py), and    *)
(* what policy.py computes from it: the checksum and the diff.             *)
(*                                                                         *)
(* A file is a sequence of entries, a registry a function from predicate   *)
(* names to callables.  A loaded constraint holds the callable, no longer  *)
(* its name.  SHA-256 is taken as collision-free: a checksum is what it    *)
(* covers.  The description of a constraint, one more field that counts as *)
(* the response does, and the parsing of YAML and JSON are left out.       *)
(***************************************************************************)
EXTENDS Constraints

CONSTANT FunctionName       \* the __name__ of each callable

-----------------------------------------------------------------------------
(* Loading.                                                                *)

Fields(c) == [id |-> c.id, klass |-> c.klass, verif |-> c.verif, response |-> c.response]

\* No exception on the way: every name resolves, every constraint is one that
\* __post_init__ accepts, and no id comes twice.
Loadable(file, names) ==
    /\ \A i \in DOMAIN file :
        /\ file[i].predicate \in DOMAIN names
        /\ Fields(file[i]) \in Constraint({file[i].id})
    /\ \A i, j \in DOMAIN file : file[i].id = file[j].id => i = j

\* _parse, given what the names resolve to: the registry, or in it the
\* extra_predicates, which take precedence.
Loaded(file, names) ==
    [i \in DOMAIN file |->
        [id |-> file[i].id, klass |-> file[i].klass,
         verif |-> file[i].verif, response |-> file[i].response,
         predicate |-> names[file[i].predicate]]]

-----------------------------------------------------------------------------
(* Checksum and diff.                                                      *)

\* Mutant of canonical_constraint: the class and the point are left out.
canonical_constraint_Partial(c) ==
    [id |-> c.id, response |-> c.response, predicate |-> FunctionName[c.predicate]]

canonical_constraint(c) ==
    [id |-> c.id, klass |-> c.klass, verif |-> c.verif, response |-> c.response,
     predicate |-> FunctionName[c.predicate]]

\* Mutant of policy_checksum: the constraints are hashed as they come.
policy_checksum_Unsorted(spec) == {<<i, canonical_constraint(spec[i])>> : i \in DOMAIN spec}

\* The constraints are sorted by id before they are hashed: their order in the
\* file is forgotten, and ids being unique a set is left.
policy_checksum(spec) == {canonical_constraint(spec[i]) : i \in DOMAIN spec}

\* old_map and new_map of diff_policies.
ById(spec) ==
    [cid \in {spec[i].id : i \in DOMAIN spec} |->
        canonical_constraint(spec[CHOOSE i \in DOMAIN spec : spec[i].id = cid])]

\* Mutant of diff_policies: a changed constraint is looked for in the response.
diff_policies_Responses(old, new) ==
    LET before == ById(old)
        after  == ById(new)
        common == DOMAIN before \cap DOMAIN after
    IN  [added   |-> {after[cid] : cid \in DOMAIN after \ DOMAIN before},
         removed |-> {before[cid] : cid \in DOMAIN before \ DOMAIN after},
         changed |-> {<<before[cid], after[cid]>> :
                        cid \in {c \in common : before[c].response # after[c].response}}]

diff_policies(old, new) ==
    LET before == ById(old)
        after  == ById(new)
        common == DOMAIN before \cap DOMAIN after
    IN  [added   |-> {after[cid] : cid \in DOMAIN after \ DOMAIN before},
         removed |-> {before[cid] : cid \in DOMAIN before \ DOMAIN after},
         changed |-> {<<before[cid], after[cid]>> :
                        cid \in {c \in common : before[c] # after[c]}}]

\* policy diff --exit-code returns 0.
NoChange(diff) == diff.added = {} /\ diff.removed = {} /\ diff.changed = {}
=============================================================================
