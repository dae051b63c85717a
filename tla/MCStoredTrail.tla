--------------------------- MODULE MCStoredTrail ---------------------------
(* An instance of StoredTrail for TLC. *)
EXTENDS StoredTrail, TLC

Rule(id, klass, verif, response) ==
    [id |-> id, klass |-> klass, verif |-> verif, response |-> response]

InForce ==
    << Rule("amount",   "hard", "PAG", "block"),
       Rule("supplier", "soft", "PAA", "throttle_log") >>

\* The spec in force; the same in another order; another response; a class that
\* does not admit the recorded point; a constraint more; one less.
SomeRevisions ==
    { InForce,
      << InForce[2], InForce[1] >>,
      << Rule("amount", "hard", "PAG", "log"), InForce[2] >>,
      << InForce[1], Rule("supplier", "hard", "ATM", "throttle_log") >>,
      InForce \o << Rule("tenant", "soft", "PAA", "log") >>,
      << InForce[2] >> }

CONSTANTS c1, c2
TwoCalls == {c1, c2}
SomeFaults == {"memory_raises", "tool_raises", "cancel"}
NoCalls == {}

\* Select is the SelectSeq of the standard module, on all short sequences.
SomeSequences == UNION {[1 .. n -> 1 .. 3] : n \in 0 .. 4}

ASSUME SelectIsSelectSeq ==
    \A seq \in SomeSequences : \A allowed \in SUBSET (1 .. 3) :
        LET Allowed(x) == x \in allowed
        IN  Select(seq, {i \in DOMAIN seq : seq[i] \in allowed}) = SelectSeq(seq, Allowed)
=============================================================================
