--------------------------- MODULE ExpensePipeline ---------------------------
(***************************************************************************)
(* Two governed toolsets, one inside the other: examples/multi_agent_      *)
(* governed.  A coordinator submits expenses to an ERP; from 500 on it     *)
(* asks a validator first, through a toolset that is governed as well.     *)
(*                                                                         *)
(* submit_expense is called for several expenses at once.  A submission    *)
(* can be suspended only where the coordinator's memory takes an event.    *)
(* The memory of the example never suspends, so there each submission runs *)
(* to its end; one that does I/O may.  The validator's memory is always    *)
(* the example's.                                                          *)
(***************************************************************************)
EXTENDS Naturals, FiniteSets

CONSTANTS
    Submissions,    \* the calls of submit_expense
    Expenses        \* what may be submitted

ASSUME SubmissionsAssumption == IsFiniteSet(Submissions)
ASSUME ExpensesAssumption == Expenses \subseteq [amount : Nat, blacklisted : BOOLEAN]

VARIABLES
    expense,        \* per submission: what it submits
    suspends,       \* whether the coordinator's memory suspends
    pc,             \* per submission: the await it is at, or how it ended
    validation,     \* per submission: "approved" of _validation_result
    captured,       \* per submission: _daily_spend in its arguments
    daily_spend,    \* CoordinatorToolset._daily_spend
    escalations     \* _escalations: <<submission, constraint>>

vars == <<expense, suspends, pc, validation, captured, daily_spend, escalations>>

-----------------------------------------------------------------------------
Init ==
    /\ expense \in [Submissions -> Expenses]
    /\ suspends \in BOOLEAN
    /\ pc = [s \in Submissions |-> "idle"]
    /\ validation = [s \in Submissions |-> "none"]
    /\ captured = [s \in Submissions |-> 0]
    /\ daily_spend = 0
    /\ escalations = {}

Awaits == {"delegate", "approval", "limit"}
ConstraintIds ==
    { "block_blacklisted_vendor", "escalate_large_expense",
      "block_rejected_expense", "block_daily_limit" }
Goto(s, label) == pc' = [pc EXCEPT ![s] = label]

\* The event loop runs s: no other submission is under way, unless the memory
\* suspends it.
Runs(s) == suspends \/ \A r \in Submissions \ {s} : pc[r] \notin Awaits

\* The arguments of erp.submit_expense are built, with the spend of this moment.
BuildSubmission(s, approved) ==
    /\ validation' = [validation EXCEPT ![s] = approved]
    /\ captured' = [captured EXCEPT ![s] = daily_spend]
    /\ Goto(s, "approval")

\* submit_expense: from 500 on, delegate.validate_expense comes first.
Start(s) ==
    /\ pc[s] = "idle" /\ Runs(s)
    /\ \/ /\ expense[s].amount >= 500
          /\ Goto(s, "delegate")
          /\ UNCHANGED <<validation, captured>>
       \/ /\ expense[s].amount < 500
          /\ BuildSubmission(s, "none")
    /\ UNCHANGED <<expense, suspends, daily_spend, escalations>>

\* ValidatorToolset.
Approves(s) == IF expense[s].amount > 1500 THEN "no" ELSE "yes"

\* _escalation_handler, the handler of both routers: a denial is routed too.
Escalate(s, constraint) == escalations' = escalations \cup {<<s, constraint>>}

\* The coordinator's rules do not concern delegate.validate_expense.  The tool
\* takes the validator's governed call, all in one go: a blacklisted vendor is
\* denied there, and the violation comes out of the coordinator's call as well;
\* more than 2000 is escalated and goes on.
Delegate(s) ==
    /\ pc[s] = "delegate" /\ Runs(s)
    /\ \/ /\ expense[s].blacklisted
          /\ Escalate(s, "block_blacklisted_vendor")
          /\ Goto(s, "blocked")
          /\ UNCHANGED <<validation, captured>>
       \/ /\ ~expense[s].blacklisted
          /\ IF expense[s].amount > 2000
             THEN Escalate(s, "escalate_large_expense")
             ELSE UNCHANGED escalations
          /\ BuildSubmission(s, Approves(s))
    /\ UNCHANGED <<expense, suspends, daily_spend>>

\* Mutant of block_rejected_expense: asks for an approval that is there.
block_rejected_expense_MissingOnly(s) == validation[s] = "none" /\ expense[s].amount >= 500

block_rejected_expense(s) == validation[s] = "no"

\* Mutant of block_daily_limit: leaves out the amount at hand.
block_daily_limit_SpentOnly(s) == captured[s] > 5000

block_daily_limit(s) == captured[s] + expense[s].amount > 5000

\* The record of block_rejected_expense is stored: the rule denies or the next
\* one is evaluated.
CheckApproval(s) ==
    /\ pc[s] = "approval" /\ Runs(s)
    /\ \/ /\ block_rejected_expense(s)
          /\ Escalate(s, "block_rejected_expense")
          /\ Goto(s, "blocked")
       \/ /\ ~block_rejected_expense(s)
          /\ Goto(s, "limit")
          /\ UNCHANGED escalations
    /\ UNCHANGED <<expense, suspends, validation, captured, daily_spend>>

\* The record of block_daily_limit is stored: the rule denies or the ERP books
\* the expense, without suspending.
CheckLimit(s) ==
    /\ pc[s] = "limit" /\ Runs(s)
    /\ \/ /\ block_daily_limit(s)
          /\ Escalate(s, "block_daily_limit")
          /\ Goto(s, "blocked")
          /\ UNCHANGED daily_spend
       \/ /\ ~block_daily_limit(s)
          /\ Goto(s, "submitted")
          /\ daily_spend' = daily_spend + expense[s].amount
          /\ UNCHANGED escalations
    /\ UNCHANGED <<expense, suspends, validation, captured>>

Next ==
    \E s \in Submissions : Start(s) \/ Delegate(s) \/ CheckApproval(s) \/ CheckLimit(s)

Spec == Init /\ [][Next]_vars

-----------------------------------------------------------------------------
(* Properties.                                                             *)

TypeOK ==
    /\ expense \in [Submissions -> Expenses]
    /\ suspends \in BOOLEAN
    /\ pc \in [Submissions -> {"idle", "blocked", "submitted"} \cup Awaits]
    /\ validation \in [Submissions -> {"none", "yes", "no"}]
    /\ captured \in [Submissions -> Nat]
    /\ daily_spend \in Nat
    /\ escalations \subseteq Submissions \X ConstraintIds

Submitted == {s \in Submissions : pc[s] = "submitted"}

\* "Block ERP submission if daily spend would exceed $5,000": it never does, as
\* long as nothing suspends between the capture of the spend and the booking.
\* (With a memory that suspends, two submissions checked against the same spend
\* can exceed it together.)
LimitHolds == suspends \/ daily_spend <= 5000

\* However the submissions interleave, what is booked from 500 on was approved
\* for this very amount by the validator, whose denial, two governed calls
\* deep, is final; what was escalated is not booked, and what was denied, by
\* either toolset, was escalated; no booking was checked against more than what
\* had been booked.
BookedOnlyValidated ==
    /\ \A s \in Submitted : expense[s].amount >= 500 =>
           expense[s].amount <= 1500 /\ ~expense[s].blacklisted
    /\ \A s \in Submitted, c \in ConstraintIds : <<s, c>> \notin escalations
    /\ \A s \in Submissions : pc[s] = "blocked" => \E c \in ConstraintIds : <<s, c>> \in escalations
    /\ \A s \in Submitted : captured[s] + expense[s].amount <= daily_spend
=============================================================================
