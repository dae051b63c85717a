-------------------------- MODULE MCSpecLifecycle --------------------------
(* An instance of SpecLifecycle for TLC. *)
EXTENDS SpecLifecycle, TLC

Entry(id, klass, verif, response, predicate) ==
    [id |-> id, klass |-> klass, verif |-> verif, response |-> response, predicate |-> predicate]

amount   == Entry("amount", "hard", "PAG", "block", "over_limit")
supplier == Entry("supplier", "escalation", "PAG", "escalate", "new_supplier")

\* Two constraints; in the other order; another response; another class and
\* point; another predicate; one removed; an id twice; a class and a point that
\* do not fit.
SomeFiles ==
    { << amount, supplier >>,
      << supplier, amount >>,
      << amount, [supplier EXCEPT !.response = "block"] >>,
      << [amount EXCEPT !.klass = "soft", !.verif = "PAA"], supplier >>,
      << [amount EXCEPT !.predicate = "new_supplier"], supplier >>,
      << supplier >>,
      << amount, [supplier EXCEPT !.id = "amount"] >>,
      << [amount EXCEPT !.verif = "PAA"] >> }

CONSTANTS over, lambda1, lambda2, stub
Names ==
    (over :> "over_limit") @@ (lambda1 :> "<lambda>") @@ (lambda2 :> "<lambda>")
    @@ (stub :> "in_test")

NewProcess == [n \in {"over_limit"} |-> over]
Callables == {over, lambda1, lambda2}
TestExtras == {[n \in {"new_supplier"} |-> stub], [n \in {"over_limit"} |-> stub]}
=============================================================================
