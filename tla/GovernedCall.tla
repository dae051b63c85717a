---------------------------- MODULE GovernedCall ----------------------------
(***************************************************************************)
(* What governance promises about one tool call, with no constraints, no   *)
(* enforcement points, no records and no handlers in sight:                *)
(*                                                                         *)
(*   - the tool runs only while the call has not been denied;              *)
(*   - a result reaches the caller only if the call was never denied;      *)
(*   - a denied call ends as refused, after the escalation channel has     *)
(*     been told, or is aborted by an exception or a cancellation.         *)
(*                                                                         *)
(* GovernanceToolset.call_tool (module Governance) implements this.        *)
(***************************************************************************)
CONSTANT Calls

VARIABLES
    stage,      \* where each call stands
    executed,   \* the calls whose tool was started
    denied,     \* the calls some constraint has denied
    alerted     \* the calls the escalation channel has been told about

vars == <<stage, executed, denied, alerted>>

Open == {"checking", "executing", "reviewing"}
Closed == {"returned", "refused", "aborted"}

Init ==
    /\ stage = [t \in Calls |-> "idle"]
    /\ executed = {}
    /\ denied = {}
    /\ alerted = {}

Move(t, from, to) == stage[t] = from /\ stage' = [stage EXCEPT ![t] = to]

Begin(t) == Move(t, "idle", "checking") /\ UNCHANGED <<executed, denied, alerted>>

\* A constraint denies the call, before the tool runs or after it has run.
Deny(t) ==
    /\ stage[t] \in {"checking", "reviewing"}
    /\ denied' = denied \cup {t}
    /\ UNCHANGED <<stage, executed, alerted>>

Alert(t) ==
    /\ stage[t] \in {"checking", "reviewing"}
    /\ alerted' = alerted \cup {t}
    /\ UNCHANGED <<stage, executed, denied>>

Execute(t) ==
    /\ t \notin denied
    /\ Move(t, "checking", "executing")
    /\ executed' = executed \cup {t}
    /\ UNCHANGED <<denied, alerted>>

Answer(t) == Move(t, "executing", "reviewing") /\ UNCHANGED <<executed, denied, alerted>>

Release(t) ==
    /\ t \notin denied
    /\ Move(t, "reviewing", "returned")
    /\ UNCHANGED <<executed, denied, alerted>>

Refuse(t) ==
    /\ t \in denied \cap alerted
    /\ stage[t] \in {"checking", "reviewing"}
    /\ stage' = [stage EXCEPT ![t] = "refused"]
    /\ UNCHANGED <<executed, denied, alerted>>

Abort(t) ==
    /\ stage[t] \in Open
    /\ stage' = [stage EXCEPT ![t] = "aborted"]
    /\ UNCHANGED <<executed, denied, alerted>>

Next ==
    \E t \in Calls :
        \/ Begin(t) \/ Deny(t) \/ Alert(t) \/ Execute(t)
        \/ Answer(t) \/ Release(t) \/ Refuse(t) \/ Abort(t)

Spec == Init /\ [][Next]_vars
=============================================================================
