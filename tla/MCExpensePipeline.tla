-------------------------- MODULE MCExpensePipeline --------------------------
(* Instance of ExpensePipeline for TLC. *)
EXTENDS ExpensePipeline, TLC

CONSTANTS x1, x2, x3, x4
FourSubmissions == {x1, x2, x3, x4}

Expense(amount, blacklisted) == [amount |-> amount, blacklisted |-> blacklisted]

\* Below the validation, at both its limits and above, above the escalation, and
\* two of a blacklisted vendor.  Four submissions can book exactly 5000.
SomeExpenses ==
    { Expense(499, FALSE), Expense(500, FALSE), Expense(1500, FALSE), Expense(1501, FALSE),
      Expense(2500, FALSE), Expense(499, TRUE), Expense(500, TRUE) }

Symmetric == Permutations(FourSubmissions)
=============================================================================
