------------------------ MODULE ExpensePipelineProofs ------------------------
(***************************************************************************)
(* The expense pipeline for any number of submissions of any expenses.     *)
(***************************************************************************)
EXTENDS ExpensePipeline, TLAPS

\* Only a memory that suspends lets two submissions be under way, so without it
\* the spend a submission was built with is still the spend.
Alone ==
    \/ suspends
    \/ /\ \A s, r \in Submissions : pc[s] \in Awaits /\ pc[r] \in Awaits => s = r
       /\ \A s \in Submissions : pc[s] \in {"approval", "limit"} => captured[s] = daily_spend

\* What each submission under way has behind it.
Validated ==
    /\ \A s \in Submissions : captured[s] <= daily_spend
    /\ \A s \in Submissions : pc[s] \in {"approval", "limit", "submitted"} /\ expense[s].amount >= 500 =>
           validation[s] = Approves(s) /\ ~expense[s].blacklisted
    /\ \A s \in Submissions : pc[s] \in {"limit", "submitted"} => validation[s] # "no"

Queued ==
    \A s \in Submissions, c \in ConstraintIds : <<s, c>> \in escalations =>
        \/ pc[s] = "blocked"
        \/ pc[s] = "approval" /\ expense[s].amount > 2000

IInv == TypeOK /\ Alone /\ Validated /\ Queued /\ LimitHolds /\ BookedOnlyValidated

LEMMA InitIInv == Init => IInv
<1> SUFFICES ASSUME Init PROVE IInv
    OBVIOUS
<1> USE DEF Init
<1>1. TypeOK /\ Alone /\ Validated
  BY DEF TypeOK, Alone, Validated, Awaits
<1>2. Queued /\ LimitHolds /\ BookedOnlyValidated
  BY DEF Queued, LimitHolds, BookedOnlyValidated, Submitted
<1> QED BY <1>1, <1>2 DEF IInv

\* What an expense is.
LEMMA ExpenseTypes ==
    ASSUME TypeOK, NEW s \in Submissions
    PROVE  expense[s].amount \in Nat /\ expense[s].blacklisted \in BOOLEAN
<1> QED BY ExpensesAssumption DEF TypeOK

\* A submission goes on to the ERP with what the validator said of it.
LEMMA BuildIInv ==
    ASSUME IInv, NEW s \in Submissions, Runs(s), pc[s] \in {"idle", "delegate"},
           NEW approved \in {"none", "yes", "no"}, BuildSubmission(s, approved),
           expense[s].amount >= 500 => approved = Approves(s) /\ ~expense[s].blacklisted,
           \/ escalations' = escalations
           \/ /\ expense[s].amount > 2000
              /\ escalations' = escalations \cup {<<s, "escalate_large_expense">>},
           expense' = expense, suspends' = suspends, daily_spend' = daily_spend
    PROVE  IInv'
<1> USE DEF IInv
<1>1. /\ pc' = [pc EXCEPT ![s] = "approval"]
      /\ validation' = [validation EXCEPT ![s] = approved]
      /\ captured' = [captured EXCEPT ![s] = daily_spend]
      /\ expense' = expense /\ suspends' = suspends /\ daily_spend' = daily_spend
  BY DEF BuildSubmission, Goto
<1>2. "escalate_large_expense" \in ConstraintIds
  BY DEF ConstraintIds
<1>3. TypeOK'
  BY <1>1, <1>2 DEF TypeOK, Awaits
<1>4. Alone'
  BY <1>1 DEF Alone, Runs, Awaits, TypeOK
<1>5. Validated'
  BY <1>1 DEF Validated, TypeOK, Approves
<1>6. Queued'
  BY <1>1 DEF Queued, TypeOK
<1>7. LimitHolds'
  BY <1>1 DEF LimitHolds
<1>8. BookedOnlyValidated'
  <2>1. \A r \in Submissions \ {s} : pc'[r] = pc[r] /\ captured'[r] = captured[r]
    BY <1>1 DEF TypeOK
  <2>2. pc'[s] = "approval" /\ Submitted' = Submitted /\ s \notin Submitted
    BY <1>1 DEF Submitted, TypeOK
  <2>3. \A r \in Submissions \ {s}, c \in ConstraintIds : <<r, c>> \in escalations' <=> <<r, c>> \in escalations
    OBVIOUS
  <2> QED BY <1>1, <2>1, <2>2, <2>3 DEF BookedOnlyValidated, Submitted
<1> QED BY <1>3, <1>4, <1>5, <1>6, <1>7, <1>8

\* A denial, by either toolset.
LEMMA DenialIInv ==
    ASSUME IInv, NEW s \in Submissions, pc[s] \in Awaits, Goto(s, "blocked"),
           NEW c \in ConstraintIds, Escalate(s, c),
           UNCHANGED <<expense, suspends, validation, captured, daily_spend>>
    PROVE  IInv'
<1> USE DEF IInv
<1>1. /\ pc' = [pc EXCEPT ![s] = "blocked"] /\ escalations' = escalations \cup {<<s, c>>}
      /\ expense' = expense /\ suspends' = suspends /\ validation' = validation
      /\ captured' = captured /\ daily_spend' = daily_spend
  BY DEF Goto, Escalate
<1>2. TypeOK' /\ Alone' /\ LimitHolds'
  BY <1>1 DEF TypeOK, Alone, LimitHolds, Awaits
<1>3. Validated'
  BY <1>1 DEF Validated, TypeOK, Approves
<1>4. Queued'
  BY <1>1 DEF Queued, TypeOK
<1>5. BookedOnlyValidated'
  <2>1. pc'[s] = "blocked" /\ \A r \in Submissions \ {s} : pc'[r] = pc[r]
    BY <1>1 DEF TypeOK
  <2>2. Submitted' = Submitted /\ s \notin Submitted
    BY <2>1 DEF Submitted, Awaits
  <2>3. \A r \in Submissions \ {s}, d \in ConstraintIds : <<r, d>> \in escalations' <=> <<r, d>> \in escalations
    BY <1>1
  <2>4. <<s, c>> \in escalations'
    BY <1>1
  <2> QED BY <1>1, <2>1, <2>2, <2>3, <2>4 DEF BookedOnlyValidated, Submitted
<1> QED BY <1>2, <1>3, <1>4, <1>5

LEMMA StartIInv == ASSUME IInv, NEW s \in Submissions, Start(s) PROVE IInv'
<1>1. CASE expense[s].amount >= 500 /\ Goto(s, "delegate") /\ UNCHANGED <<validation, captured>>
  <2>1. /\ pc' = [pc EXCEPT ![s] = "delegate"] /\ pc[s] = "idle" /\ Runs(s)
        /\ UNCHANGED <<expense, suspends, validation, captured, daily_spend, escalations>>
    BY <1>1 DEF Start, Goto
  <2>2. TypeOK' /\ LimitHolds'
    BY <2>1 DEF IInv, TypeOK, LimitHolds, Awaits
  <2>3. Alone'
    BY <2>1 DEF IInv, TypeOK, Alone, Runs, Awaits
  <2>4. Validated' /\ Queued'
    BY <2>1 DEF IInv, TypeOK, Validated, Queued, Approves
  <2>5. BookedOnlyValidated'
    BY <2>1 DEF IInv, TypeOK, BookedOnlyValidated, Submitted
  <2> QED BY <2>2, <2>3, <2>4, <2>5 DEF IInv
<1>2. CASE expense[s].amount < 500 /\ BuildSubmission(s, "none")
  <2>1. ~(expense[s].amount >= 500)
    BY <1>2, ExpenseTypes DEF IInv
  <2>2. expense[s].amount >= 500 => "none" = Approves(s) /\ ~expense[s].blacklisted
    BY <2>1
  <2>3. /\ Runs(s) /\ pc[s] \in {"idle", "delegate"} /\ BuildSubmission(s, "none")
        /\ expense' = expense /\ suspends' = suspends /\ daily_spend' = daily_spend
        /\ "none" \in {"none", "yes", "no"}
        /\ \/ escalations' = escalations
           \/ /\ expense[s].amount > 2000
              /\ escalations' = escalations \cup {<<s, "escalate_large_expense">>}
    BY <1>2 DEF Start
  <2> QED BY <2>2, <2>3, BuildIInv
<1> QED BY <1>1, <1>2 DEF Start

LEMMA DelegateIInv == ASSUME IInv, NEW s \in Submissions, Delegate(s) PROVE IInv'
<1>1. CASE expense[s].blacklisted
  <2>1. /\ Escalate(s, "block_blacklisted_vendor") /\ Goto(s, "blocked") /\ pc[s] \in Awaits
        /\ UNCHANGED <<expense, suspends, validation, captured, daily_spend>>
    BY <1>1 DEF Delegate, Awaits
  <2>2. "block_blacklisted_vendor" \in ConstraintIds
    BY DEF ConstraintIds
  <2> QED BY <2>1, <2>2, DenialIInv
<1>2. CASE ~expense[s].blacklisted
  <2>1. /\ Runs(s) /\ pc[s] \in {"idle", "delegate"} /\ BuildSubmission(s, Approves(s))
        /\ expense' = expense /\ suspends' = suspends /\ daily_spend' = daily_spend
        /\ \/ escalations' = escalations
           \/ /\ expense[s].amount > 2000
              /\ escalations' = escalations \cup {<<s, "escalate_large_expense">>}
    BY <1>2 DEF Delegate, Escalate
  <2>2. Approves(s) \in {"none", "yes", "no"}
    BY DEF Approves
  <2>3. expense[s].amount >= 500 => Approves(s) = Approves(s) /\ ~expense[s].blacklisted
    BY <1>2
  <2> QED BY <2>1, <2>2, <2>3, BuildIInv
<1> QED BY <1>1, <1>2

LEMMA CheckIInv ==
    ASSUME IInv, NEW s \in Submissions, CheckApproval(s) \/ CheckLimit(s) PROVE IInv'
<1>1. CASE CheckApproval(s) /\ block_rejected_expense(s)
  <2>1. "block_rejected_expense" \in ConstraintIds /\ pc[s] \in Awaits
    BY <1>1 DEF ConstraintIds, CheckApproval, Awaits
  <2> QED BY <1>1, <2>1, DenialIInv DEF CheckApproval
<1>2. CASE CheckLimit(s) /\ block_daily_limit(s)
  <2>1. "block_daily_limit" \in ConstraintIds /\ pc[s] \in Awaits
    BY <1>2 DEF ConstraintIds, CheckLimit, Awaits
  <2> QED BY <1>2, <2>1, DenialIInv DEF CheckLimit
<1>3. CASE CheckApproval(s) /\ ~block_rejected_expense(s)
  <2>1. /\ pc' = [pc EXCEPT ![s] = "limit"] /\ pc[s] = "approval"
        /\ UNCHANGED <<expense, suspends, validation, captured, daily_spend, escalations>>
    BY <1>3 DEF CheckApproval, Goto
  <2>2. validation[s] # "no"
    BY <1>3 DEF block_rejected_expense
  <2>3. TypeOK' /\ Alone' /\ LimitHolds'
    BY <2>1 DEF IInv, TypeOK, Alone, LimitHolds, Awaits
  <2>4. Validated'
    BY <2>1, <2>2 DEF IInv, TypeOK, Validated, Approves
  <2>5. \A c \in ConstraintIds : <<s, c>> \notin escalations
    <3>1. ~(expense[s].amount > 2000)
      BY <2>1, <2>2, ExpenseTypes DEF IInv, Validated, Approves
    <3> QED BY <2>1, <3>1 DEF IInv, Queued
  <2>6. Queued'
    BY <2>1, <2>5 DEF IInv, TypeOK, Queued
  <2>7. BookedOnlyValidated'
    BY <2>1 DEF IInv, TypeOK, BookedOnlyValidated, Submitted
  <2> QED BY <2>3, <2>4, <2>6, <2>7 DEF IInv
<1>4. CASE CheckLimit(s) /\ ~block_daily_limit(s)
  <2>1. /\ pc' = [pc EXCEPT ![s] = "submitted"] /\ pc[s] = "limit" /\ Runs(s)
        /\ daily_spend' = daily_spend + expense[s].amount
        /\ UNCHANGED <<expense, suspends, validation, captured, escalations>>
    BY <1>4 DEF CheckLimit, Goto
  <2>2. /\ expense[s].amount \in Nat /\ daily_spend \in Nat /\ daily_spend' \in Nat
        /\ daily_spend <= daily_spend' /\ captured \in [Submissions -> Nat]
        /\ captured[s] + expense[s].amount <= daily_spend'
    BY <2>1, ExpenseTypes DEF IInv, TypeOK, Validated
  <2>3. TypeOK'
    BY <2>1, <2>2 DEF IInv, TypeOK
  <2>4. Alone'
    <3>1. suspends \/ \A r \in Submissions : pc'[r] \notin Awaits
      BY <2>1 DEF IInv, TypeOK, Runs, Awaits
    <3> QED BY <2>1, <3>1 DEF Alone, Awaits
  <2>5. LimitHolds'
    <3>1. suspends \/ captured[s] = daily_spend
      BY <2>1 DEF IInv, Alone
    <3>2. ~(captured[s] + expense[s].amount > 5000)
      BY <1>4 DEF block_daily_limit
    <3> QED BY <2>1, <2>2, <3>1, <3>2 DEF LimitHolds
  <2>6. \A r \in Submissions : captured[r] <= daily_spend'
    BY <2>2 DEF IInv, Validated
  <2>7. Validated'
    BY <2>1, <2>6 DEF IInv, TypeOK, Validated, Approves
  <2>8. \A c \in ConstraintIds : <<s, c>> \notin escalations
    BY <2>1 DEF IInv, Queued
  <2>9. Queued'
    BY <2>1, <2>8 DEF IInv, TypeOK, Queued
  <2>10. BookedOnlyValidated'
    <3>1. Submitted' = Submitted \cup {s} /\ \A r \in Submissions \ {s} : pc'[r] = pc[r]
      BY <2>1 DEF IInv, TypeOK, Submitted
    <3>2. expense[s].amount >= 500 => expense[s].amount <= 1500 /\ ~expense[s].blacklisted
      BY <2>1, <2>2 DEF IInv, Validated, Approves
    <3>3. \A r \in Submitted : captured[r] + expense[r].amount <= daily_spend'
      <4> TAKE r \in Submitted
      <4>1. /\ captured[r] \in Nat /\ expense[r].amount \in Nat
            /\ captured[r] + expense[r].amount <= daily_spend
        BY ExpenseTypes DEF IInv, TypeOK, BookedOnlyValidated, Submitted
      <4> QED BY <2>2, <4>1
    <3>4. \A r \in Submissions : pc'[r] = "blocked" => \E c \in ConstraintIds : <<r, c>> \in escalations'
      BY <2>1 DEF IInv, TypeOK, BookedOnlyValidated
    <3>5. \A r \in Submitted : expense[r].amount >= 500 =>
              expense[r].amount <= 1500 /\ ~expense[r].blacklisted
      BY DEF IInv, BookedOnlyValidated
    <3>6. \A r \in Submitted, c \in ConstraintIds : <<r, c>> \notin escalations
      BY DEF IInv, BookedOnlyValidated
    <3> QED BY <2>1, <2>2, <2>8, <3>1, <3>2, <3>3, <3>4, <3>5, <3>6 DEF BookedOnlyValidated
  <2> QED BY <2>3, <2>4, <2>5, <2>7, <2>9, <2>10 DEF IInv
<1> QED BY <1>1, <1>2, <1>3, <1>4

LEMMA NextIInv == IInv /\ [Next]_vars => IInv'
<1> SUFFICES ASSUME IInv, [Next]_vars PROVE IInv'
    OBVIOUS
<1>1. CASE Next
  BY <1>1, StartIInv, DelegateIInv, CheckIInv DEF Next
<1>2. CASE UNCHANGED vars
  BY <1>2 DEF vars, IInv, TypeOK, Alone, Validated, Approves, Queued, LimitHolds,
        BookedOnlyValidated, Submitted
<1> QED BY <1>1, <1>2

LEMMA SpecIInv == Spec => []IInv
<1> QED BY InitIInv, NextIInv, PTL DEF Spec

\* Every submission's arguments and the spend stay in their domains.
THEOREM PipelineTypes == Spec => []TypeOK
<1>1. IInv => TypeOK
  BY DEF IInv
<1> QED BY <1>1, SpecIInv, PTL

\* With a memory that never suspends the coordinator, no number of concurrent
\* submissions takes the spend above the limit.
THEOREM DailyLimit == Spec => []LimitHolds
<1>1. IInv => LimitHolds
  BY DEF IInv
<1> QED BY <1>1, SpecIInv, PTL

\* For any expenses, however the submissions interleave, what is booked was
\* validated, was not escalated, and what was denied was.
THEOREM OnlyValidatedBooked == Spec => []BookedOnlyValidated
<1>1. IInv => BookedOnlyValidated
  BY DEF IInv
<1> QED BY <1>1, SpecIInv, PTL
=============================================================================
