------------------------ MODULE SpecLifecycleProofs ------------------------
(***************************************************************************)
(* Proofs about Policy and SpecLifecycle, for every set of files, every    *)
(* registry and every naming of the callables.                             *)
(***************************************************************************)
EXTENDS SpecLifecycle, SequenceTheorems, TLAPS

UniqueIds(spec) == \A i, j \in DOMAIN spec : spec[i].id = spec[j].id => i = j

-----------------------------------------------------------------------------
(* The checksum and the diff, of any two specs.                            *)

\* A constraint is found again under its id.
LEMMA ByIdFinds ==
    ASSUME NEW spec, UniqueIds(spec)
    PROVE  /\ \A i \in DOMAIN spec :
                /\ spec[i].id \in DOMAIN ById(spec)
                /\ ById(spec)[spec[i].id] = canonical_constraint(spec[i])
           /\ \A cid \in DOMAIN ById(spec) :
                \E i \in DOMAIN spec : cid = spec[i].id /\ ById(spec)[cid] = canonical_constraint(spec[i])
<1>1. ASSUME NEW i \in DOMAIN spec
      PROVE  /\ spec[i].id \in DOMAIN ById(spec)
             /\ ById(spec)[spec[i].id] = canonical_constraint(spec[i])
  <2>1. i = CHOOSE j \in DOMAIN spec : spec[j].id = spec[i].id
    BY DEF UniqueIds
  <2> QED BY <2>1 DEF ById
<1>2. ASSUME NEW cid \in DOMAIN ById(spec)
      PROVE  \E i \in DOMAIN spec : cid = spec[i].id /\ ById(spec)[cid] = canonical_constraint(spec[i])
  <2>1. PICK i \in DOMAIN spec : cid = spec[i].id
    BY DEF ById
  <2> QED BY <2>1, <1>1
<1> QED BY <1>1, <1>2

\* The canonical constraint keeps the id.
LEMMA CanonicalId == \A c : canonical_constraint(c).id = c.id
  BY DEF canonical_constraint

\* The checksum is what ById maps to.
LEMMA ChecksumById ==
    ASSUME NEW spec, UniqueIds(spec)
    PROVE  policy_checksum(spec) = {ById(spec)[cid] : cid \in DOMAIN ById(spec)}
  BY ByIdFinds DEF policy_checksum

\* diff_policies finds no change exactly when the checksums are equal.
THEOREM DiffIsChecksum ==
    ASSUME NEW old, NEW new, UniqueIds(old), UniqueIds(new)
    PROVE  NoChange(diff_policies(old, new)) <=> policy_checksum(old) = policy_checksum(new)
<1> DEFINE B == ById(old)
           A == ById(new)
<1>1. NoChange(diff_policies(old, new)) <=>
          /\ DOMAIN A = DOMAIN B
          /\ \A cid \in DOMAIN A : A[cid] = B[cid]
  <2>1. diff_policies(old, new).added = {} <=> DOMAIN A \subseteq DOMAIN B
    BY DEF diff_policies
  <2>2. diff_policies(old, new).removed = {} <=> DOMAIN B \subseteq DOMAIN A
    BY DEF diff_policies
  <2>3. diff_policies(old, new).changed = {} <=> \A cid \in DOMAIN A \cap DOMAIN B : B[cid] = A[cid]
    BY DEF diff_policies
  <2> QED BY <2>1, <2>2, <2>3 DEF NoChange
<1>2. \A cid \in DOMAIN A : A[cid].id = cid
  BY ByIdFinds, CanonicalId
<1>3. \A cid \in DOMAIN B : B[cid].id = cid
  BY ByIdFinds, CanonicalId
<1>4. policy_checksum(new) = {A[cid] : cid \in DOMAIN A}
  BY ChecksumById
<1>5. policy_checksum(old) = {B[cid] : cid \in DOMAIN B}
  BY ChecksumById
<1> HIDE DEF A, B
<1>6. ASSUME policy_checksum(old) = policy_checksum(new)
      PROVE  DOMAIN A = DOMAIN B /\ \A cid \in DOMAIN A : A[cid] = B[cid]
  <2>1. ASSUME NEW cid \in DOMAIN A  PROVE cid \in DOMAIN B /\ A[cid] = B[cid]
    <3>1. A[cid] \in {B[c] : c \in DOMAIN B}
      BY <1>4, <1>5, <1>6
    <3> QED BY <3>1, <1>2, <1>3
  <2>2. ASSUME NEW cid \in DOMAIN B  PROVE cid \in DOMAIN A
    <3>1. B[cid] \in {A[c] : c \in DOMAIN A}
      BY <1>4, <1>5, <1>6
    <3> QED BY <3>1, <1>2, <1>3
  <2> QED BY <2>1, <2>2
<1>7. ASSUME DOMAIN A = DOMAIN B, \A cid \in DOMAIN A : A[cid] = B[cid]
      PROVE  policy_checksum(old) = policy_checksum(new)
  BY <1>4, <1>5, <1>7
<1> QED BY <1>1, <1>6, <1>7

\* The diff rebuilds the new checksum from the old one.
THEOREM DiffIsComplete ==
    ASSUME NEW old, NEW new, UniqueIds(old), UniqueIds(new)
    PROVE  LET d == diff_policies(old, new)
           IN  policy_checksum(new) =
                 ((policy_checksum(old) \ (d.removed \cup {p[1] : p \in d.changed}))
                    \cup d.added \cup {p[2] : p \in d.changed})
<1> DEFINE B == ById(old)
           A == ById(new)
           d == diff_policies(old, new)
           common == {cid \in DOMAIN B \cap DOMAIN A : B[cid] # A[cid]}
<1>1. d.added = {A[cid] : cid \in DOMAIN A \ DOMAIN B}
  BY DEF diff_policies
<1>2. d.removed = {B[cid] : cid \in DOMAIN B \ DOMAIN A}
  BY DEF diff_policies
<1>0. d.changed = {<<B[cid], A[cid]>> : cid \in common}
  BY DEF diff_policies
<1>3. {p[1] : p \in d.changed} = {B[cid] : cid \in common}
  <2> HIDE DEF A, B, d, common
  <2>1. \A cid \in common : <<B[cid], A[cid]>>[1] = B[cid]
    OBVIOUS
  <2>2. \A p \in d.changed : \E cid \in common : p[1] = B[cid]
    BY <1>0, <2>1
  <2>3. \A cid \in common : \E p \in d.changed : p[1] = B[cid]
    BY <1>0, <2>1
  <2>4. \A x \in {p[1] : p \in d.changed} : x \in {B[cid] : cid \in common}
    BY <2>2
  <2>5. \A x \in {B[cid] : cid \in common} : x \in {p[1] : p \in d.changed}
    BY <2>3
  <2> QED BY <2>4, <2>5
<1>4. {p[2] : p \in d.changed} = {A[cid] : cid \in common}
  <2> HIDE DEF A, B, d, common
  <2>1. \A cid \in common : <<B[cid], A[cid]>>[2] = A[cid]
    OBVIOUS
  <2>2. \A p \in d.changed : \E cid \in common : p[2] = A[cid]
    BY <1>0, <2>1
  <2>3. \A cid \in common : \E p \in d.changed : p[2] = A[cid]
    BY <1>0, <2>1
  <2>4. \A x \in {p[2] : p \in d.changed} : x \in {A[cid] : cid \in common}
    BY <2>2
  <2>5. \A x \in {A[cid] : cid \in common} : x \in {p[2] : p \in d.changed}
    BY <2>3
  <2> QED BY <2>4, <2>5
<1>5. \A cid \in DOMAIN A : A[cid].id = cid
  BY ByIdFinds, CanonicalId
<1>6. \A cid \in DOMAIN B : B[cid].id = cid
  BY ByIdFinds, CanonicalId
<1>7. policy_checksum(new) = {A[cid] : cid \in DOMAIN A}
  BY ChecksumById
<1>8. policy_checksum(old) = {B[cid] : cid \in DOMAIN B}
  BY ChecksumById
<1> HIDE DEF A, B, d
<1>9. \A x : x \in {A[cid] : cid \in DOMAIN A} <=>
         \/ /\ x \in {B[cid] : cid \in DOMAIN B}
            /\ x \notin {B[cid] : cid \in DOMAIN B \ DOMAIN A}
            /\ x \notin {B[cid] : cid \in common}
         \/ x \in {A[cid] : cid \in DOMAIN A \ DOMAIN B}
         \/ x \in {A[cid] : cid \in common}
  BY <1>5, <1>6
<1>10. policy_checksum(new) =
          ((policy_checksum(old) \ (d.removed \cup {p[1] : p \in d.changed}))
             \cup d.added \cup {p[2] : p \in d.changed})
  <2> DEFINE Sum == policy_checksum(old)
  <2>1. \A x : x \in policy_checksum(new) <=>
           \/ /\ x \in Sum /\ x \notin d.removed
              /\ x \notin {p[1] : p \in d.changed}
           \/ x \in d.added
           \/ x \in {p[2] : p \in d.changed}
    BY <1>1, <1>2, <1>3, <1>4, <1>7, <1>8, <1>9, Zenon
  <2> HIDE DEF Sum
  <2> QED BY <2>1, Zenon DEF Sum
<1> QED BY <1>10 DEF d

-----------------------------------------------------------------------------
(* What a load returns, and the invariant.                                 *)

Valid(spec) ==
    /\ IsConstraintSpec([i \in DOMAIN spec |-> Fields(spec[i])])
    /\ UniqueIds(spec)
    /\ FunctionsOf(spec) \subseteq Registrable

Registered == \A n \in DOMAIN registry : registry[n] \in Registrable

\* A load that does not raise returns a valid spec, whatever the file holds.
LEMMA LoadedIsValid ==
    ASSUME NEW f \in Files, Registered, Loadable(f, registry)
    PROVE  Valid(Loaded(f, registry))
<1> DEFINE s == Loaded(f, registry)
           t == [i \in DOMAIN s |-> Fields(s[i])]
<1>1. DOMAIN s = DOMAIN f
  BY DEF Loaded
<1>2. \A i \in DOMAIN f : Fields(s[i]) = Fields(f[i]) /\ s[i].id = f[i].id
  BY DEF Loaded, Fields
<1>3. \A i \in DOMAIN f : s[i].predicate \in Registrable
  BY DEF Loaded, Loadable, Registered
<1>4. \A i \in DOMAIN f : Fields(f[i]) \in Constraint({f[i].id})
  BY DEF Loadable
<1>5. \A i, j \in DOMAIN f : f[i].id = f[j].id => i = j
  BY DEF Loadable
<1>6. PICK n \in Nat : DOMAIN f = 1..n
  <2>1. f \in Seq({f[i] : i \in DOMAIN f})
    BY FilesAssumption
  <2> QED BY <2>1
<1> HIDE DEF s
<1>7. UniqueIds(s)
  BY <1>1, <1>2, <1>5 DEF UniqueIds
<1>8. FunctionsOf(s) \subseteq Registrable
  BY <1>1, <1>3 DEF FunctionsOf
<1>9. IsConstraintSpec(t)
  <2>1. DOMAIN t = 1..n /\ \A i \in 1..n : t[i] = Fields(f[i]) /\ t[i].id = f[i].id
    BY <1>1, <1>2, <1>6 DEF Fields
  <2>2. \A i \in 1..n : t[i] \in Constraint({t[j].id : j \in 1..n})
    BY <2>1, <1>4, <1>6 DEF Constraint
  <2>3. t \in [1..n -> Constraint({t[j].id : j \in 1..n})]
    BY <2>1, <2>2
  <2>4. t \in Seq(Constraint({t[j].id : j \in DOMAIN t}))
    BY <2>1, <2>3, SeqDef
  <2>5. \A i, j \in DOMAIN t : t[i].id = t[j].id => i = j
    BY <2>1, <1>5, <1>6
  <2> QED BY <2>4, <2>5 DEF IsConstraintSpec
<1> QED BY <1>7, <1>8, <1>9 DEF Valid, s

\* Every spec kept came out of a load, and the one that runs has passed the
\* comparison with the one reviewed.
Inv ==
    /\ Registered
    /\ file \in Files
    /\ approved # None => Valid(approved)
    /\ running # None => Valid(running)
    /\ reviewed # None => Valid(reviewed)
    /\ running # None => policy_checksum(running) = policy_checksum(reviewed)

LEMMA InitInv == Init => Inv
  BY BuiltinsAssumption DEF Init, Inv, Registered

LEMMA NextInv == Inv /\ [Next]_vars => Inv'
<1> SUFFICES ASSUME Inv, [Next]_vars  PROVE Inv'
  OBVIOUS
<1> USE DEF Inv
<1>1. ASSUME NEW n, NEW fn \in Registrable, Register(n, fn)  PROVE Inv'
  <2>1. Registered'
    BY <1>1 DEF Register, Registered, Over
  <2> QED BY <1>1, <2>1 DEF Register
<1>2. ASSUME NEW content \in Files, EditFile(content)  PROVE Inv'
  BY <1>2 DEF EditFile, Registered
<1>3. ASSUME NEW extra \in Extras, LoadWithExtras(extra)  PROVE Inv'
  BY <1>3 DEF LoadWithExtras, vars, Registered
<1>4. ASSUME Approve  PROVE Inv'
  <2>1. Valid(Loaded(file, registry))
    BY <1>4, LoadedIsValid DEF Approve
  <2> QED BY <1>4, <2>1 DEF Approve, Registered
<1>5. ASSUME Deploy  PROVE Inv'
  <2>1. Valid(Loaded(file, registry))
    BY <1>5, LoadedIsValid DEF Deploy
  <2> QED BY <1>5, <2>1 DEF Deploy, Registered
<1>6. ASSUME Restart  PROVE Inv'
  BY <1>6, BuiltinsAssumption DEF Restart, Registered
<1>7. ASSUME UNCHANGED vars  PROVE Inv'
  BY <1>7 DEF vars, Registered
<1> QED BY <1>1, <1>2, <1>3, <1>4, <1>5, <1>6, <1>7 DEF Next

THEOREM Invariance == Spec => []Inv
  BY InitInv, NextInv, PTL DEF Spec

-----------------------------------------------------------------------------
(* The theorems.                                                           *)

\* What approved, running and reviewed hold are valid specs of named callables.
THEOREM LifecycleTypes == Spec => []TypeOK
<1>1. Inv => TypeOK
  BY NamesAssumption DEF Inv, TypeOK, Valid
<1> QED BY <1>1, Invariance, PTL

\* A process governs with registered callables only.
THEOREM OnlyRegistered == Spec => []RunsOnlyRegistered
<1>1. Inv => RunsOnlyRegistered
  BY DEF Inv, RunsOnlyRegistered, Valid
<1> QED BY <1>1, Invariance, PTL

\* Equal checksums and distinct names: the same denials.
LEMMA SameDenials ==
    ASSUME NEW a, NEW b, NEW F,
           policy_checksum(a) = policy_checksum(b),
           \A f, g \in FunctionsOf(a) \cup FunctionsOf(b) :
               FunctionName[f] = FunctionName[g] => f = g,
           DeniedBy(a, F)
    PROVE  DeniedBy(b, F)
<1>1. PICK i \in DOMAIN a :
        /\ a[i].predicate \in F
        /\ \/ a[i].verif \in {"PAG", "ATM"} /\ a[i].klass = "hard"
           \/ a[i].verif = "PAG" /\ a[i].response \in Denying
  BY DEF DeniedBy
<1>2. PICK j \in DOMAIN b : canonical_constraint(b[j]) = canonical_constraint(a[i])
  BY <1>1 DEF policy_checksum
<1>3. /\ b[j].klass = a[i].klass /\ b[j].verif = a[i].verif /\ b[j].response = a[i].response
      /\ FunctionName[b[j].predicate] = FunctionName[a[i].predicate]
  BY <1>2 DEF canonical_constraint
<1>4. b[j].predicate = a[i].predicate
  BY <1>3 DEF FunctionsOf
<1> QED BY <1>1, <1>3, <1>4 DEF DeniedBy

\* The pinned checksum protects the gate while names identify callables.
THEOREM PinTheorem == Spec => []PinnedGate
<1>1. Inv => PinnedGate
  <2> SUFFICES ASSUME Inv, running # None,
                      \A f, g \in FunctionsOf(running) \cup FunctionsOf(reviewed) :
                          FunctionName[f] = FunctionName[g] => f = g,
                      NEW F \in SUBSET (FunctionsOf(running) \cup FunctionsOf(reviewed))
               PROVE  DeniedBy(running, F) = DeniedBy(reviewed, F)
    BY DEF PinnedGate
  <2>1. policy_checksum(running) = policy_checksum(reviewed)
    BY DEF Inv
  <2>2. DeniedBy(running, F) => DeniedBy(reviewed, F)
    BY <2>1, SameDenials
  <2>3. DeniedBy(reviewed, F) => DeniedBy(running, F)
    BY <2>1, SameDenials
  <2>4. DeniedBy(running, F) \in BOOLEAN /\ DeniedBy(reviewed, F) \in BOOLEAN
    BY DEF DeniedBy
  <2> QED BY <2>2, <2>3, <2>4
<1> QED BY <1>1, Invariance, PTL

\* The diff of a review and the pinned checksum agree.
THEOREM DiffTheorem == Spec => []DiffMatchesChecksum
<1>1. Inv => DiffMatchesChecksum
  <2> SUFFICES ASSUME Inv, approved # None, Loadable(file, registry)
               PROVE  LET new == Loaded(file, registry)
                      IN  NoChange(diff_policies(approved, new))
                            <=> policy_checksum(approved) = policy_checksum(new)
    BY DEF DiffMatchesChecksum
  <2>1. UniqueIds(approved) /\ UniqueIds(Loaded(file, registry))
    BY LoadedIsValid DEF Inv, Valid
  <2> QED BY <2>1, DiffIsChecksum
<1> QED BY <1>1, Invariance, PTL

\* The diff of a review is complete.
THEOREM DiffRebuildsTheorem == Spec => []DiffRebuilds
<1>1. Inv => DiffRebuilds
  <2> SUFFICES ASSUME Inv, approved # None, Loadable(file, registry)
               PROVE  LET new == Loaded(file, registry)
                          d   == diff_policies(approved, new)
                      IN  policy_checksum(new) =
                            ((policy_checksum(approved) \ (d.removed \cup {p[1] : p \in d.changed}))
                               \cup d.added \cup {p[2] : p \in d.changed})
    BY DEF DiffRebuilds
  <2>1. UniqueIds(approved) /\ UniqueIds(Loaded(file, registry))
    BY LoadedIsValid DEF Inv, Valid
  <2> QED BY <2>1, DiffIsComplete
<1> QED BY <1>1, Invariance, PTL
=============================================================================
