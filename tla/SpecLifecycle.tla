--------------------------- MODULE SpecLifecycle ---------------------------
(***************************************************************************)
(* A spec file that is edited, approved with a pinned checksum and loaded  *)
(* into a process whose predicate registry changes and is empty again      *)
(* after a restart (sarc_governance/predicates.py, specs.py, policy.py).   *)
(*                                                                         *)
(* Who compares the checksums is the deployment, not the library: Approve  *)
(* and Deploy follow the pattern that docs/policy-lifecycle.md gives.      *)
(***************************************************************************)
EXTENDS Policy

CONSTANTS
    Files,          \* the contents the spec file may have, valid or not
    Builtins,       \* the registry of a new process
    Registrable,    \* the callables that are ever registered
    Extras,         \* the values of extra_predicates that tests use
    None            \* no spec

ASSUME FilesAssumption == \A f \in Files : f \in Seq({f[i] : i \in DOMAIN f})
ASSUME BuiltinsAssumption == \A n \in DOMAIN Builtins : Builtins[n] \in Registrable
ASSUME NamesAssumption == Registrable \subseteq DOMAIN FunctionName

VARIABLES
    registry,       \* _REGISTRY of the process
    file,           \* what the spec file holds
    approved,       \* the spec whose checksum is pinned
    running,        \* the spec the process governs with
    reviewed        \* the approved one when it was deployed

vars == <<registry, file, approved, running, reviewed>>

\* What the names of two dictionaries resolve to when the first is looked at first.
Over(first, second) ==
    [n \in DOMAIN first \cup DOMAIN second |->
        IF n \in DOMAIN first THEN first[n] ELSE second[n]]

Init ==
    /\ registry = Builtins
    /\ file \in Files
    /\ approved = None
    /\ running = None
    /\ reviewed = None

\* register: a name may be taken again, and what has been loaded keeps the
\* callable it holds.
Register(n, fn) ==
    /\ registry' = Over([m \in {n} |-> fn], registry)
    /\ UNCHANGED <<file, approved, running, reviewed>>

EditFile(content) ==
    /\ file' = content
    /\ UNCHANGED <<registry, approved, running, reviewed>>

\* Mutant of LoadWithExtras: the extra predicates enter the registry.
LoadWithExtras_Registers(extra) ==
    /\ Loadable(file, Over(extra, registry))
    /\ registry' = Over(extra, registry)
    /\ UNCHANGED <<file, approved, running, reviewed>>

\* load_spec(path, extra_predicates=...) in a test: for this load only, and what
\* it returns is thrown away with the test.
LoadWithExtras(extra) ==
    /\ Loadable(file, Over(extra, registry))
    /\ UNCHANGED vars

\* The release pipeline loads the file and pins the checksum of the spec.
Approve ==
    /\ Loadable(file, registry)
    /\ approved' = Loaded(file, registry)
    /\ UNCHANGED <<registry, file, running, reviewed>>

\* safe_load_spec, which takes no extra predicates, and the comparison with the
\* pinned checksum; a load that raises or a drift leaves the process as it was.
Deploy ==
    /\ approved # None
    /\ Loadable(file, registry)
    /\ policy_checksum(Loaded(file, registry)) = policy_checksum(approved)
    /\ running' = Loaded(file, registry)
    /\ reviewed' = approved
    /\ UNCHANGED <<registry, file, approved>>

Restart ==
    /\ registry' = Builtins
    /\ running' = None
    /\ reviewed' = None
    /\ UNCHANGED <<file, approved>>

Next ==
    \/ \E f \in Files : \E i \in DOMAIN f : \E fn \in Registrable : Register(f[i].predicate, fn)
    \/ \E content \in Files : EditFile(content)
    \/ \E extra \in Extras : LoadWithExtras(extra)
    \/ Approve \/ Deploy \/ Restart

Spec == Init /\ [][Next]_vars

-----------------------------------------------------------------------------
(* Properties.                                                             *)

FunctionsOf(spec) == {spec[i].predicate : i \in DOMAIN spec}

\* Whatever the file holds, a spec that came out of a load is a ConstraintSpec.
TypeOK ==
    \A spec \in {approved, running, reviewed} \ {None} :
        /\ IsConstraintSpec([i \in DOMAIN spec |-> Fields(spec[i])])
        /\ FunctionsOf(spec) \subseteq DOMAIN FunctionName

\* safe_load_spec ("every predicate must be registered"): what governs a process
\* has been registered, even if the names it goes by were given to other
\* callables by earlier loads with extra predicates.
RunsOnlyRegistered == running # None => FunctionsOf(running) \subseteq Registrable

Denying == {"block", "block_or_escalate", "suspend_route_default_deny"}

\* A call is denied when, of the callables, those in F answer true.
DeniedBy(spec, F) ==
    \E i \in DOMAIN spec :
        /\ spec[i].predicate \in F
        /\ \/ spec[i].verif \in {"PAG", "ATM"} /\ spec[i].klass = "hard"
           \/ spec[i].verif = "PAG" /\ spec[i].response \in Denying

\* What the pinned checksum is for (policy-lifecycle.md): if no two callables of
\* the two specs share a __name__, the spec that runs denies exactly what the
\* reviewed one denies, in whatever order the file lists the constraints and
\* whatever was edited, registered or restarted since.  (Lambdas share a name.)
PinnedGate ==
    LET both == FunctionsOf(running) \cup FunctionsOf(reviewed)
    IN  (running # None /\ \A f, g \in both : FunctionName[f] = FunctionName[g] => f = g)
        => \A F \in SUBSET both : DeniedBy(running, F) = DeniedBy(reviewed, F)

\* The two checks of a change agree: diff_policies, on which policy diff
\* --exit-code fails a review, finds no change between the approved spec and what
\* the file now loads to exactly when the file passes the pinned checksum.
DiffMatchesChecksum ==
    approved # None /\ Loadable(file, registry) =>
        LET new == Loaded(file, registry)
        IN  NoChange(diff_policies(approved, new)) <=> policy_checksum(approved) = policy_checksum(new)

\* The diff is complete: the old checksum without what was removed or changed,
\* with what was added or changed to, is the new one.
DiffRebuilds ==
    approved # None /\ Loadable(file, registry) =>
        LET new == Loaded(file, registry)
            d   == diff_policies(approved, new)
        IN  policy_checksum(new) =
              ((policy_checksum(approved) \ (d.removed \cup {p[1] : p \in d.changed}))
                 \cup d.added \cup {p[2] : p \in d.changed})
=============================================================================
