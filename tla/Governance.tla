----------------------------- MODULE Governance -----------------------------
(***************************************************************************)
(* GovernanceToolset.call_tool (sarc_governance/governance.py) with the    *)
(* EscalationRouter it awaits (escalation.py): concurrent asyncio tasks,   *)
(* each taking one tool call through                                       *)
(*                                                                         *)
(*    PAG constraints -> the wrapped tool -> ATM constraints -> PAA        *)
(*                                                                         *)
(* A call waits at three awaits: memory.add_event ("emit"), the escalation *)
(* handler ("route") and the wrapped tool ("tool").  No step here spans one *)
(* of them; the code between two of them may take several steps.           *)
(* The environment decides what a predicate answers and how each awaited   *)
(* object behaves, within the kinds of fault in Faults.                    *)
(***************************************************************************)
EXTENDS Constraints, FiniteSets

CONSTANTS
    Calls,      \* the concurrent calls of one GovernanceToolset
    Rules,      \* its ConstraintSpec, a sequence of constraints
    Faults,     \* the faults of the environment that may occur
    Hung        \* the calls whose memory, handler or tool may never answer

FaultKind == {"no_memory", "memory_raises", "getter_raises", "predicate_raises",
              "tool_raises", "handler_raises", "cancel"}

ASSUME CallsAssumption == IsFiniteSet(Calls)
ASSUME RulesAssumption == IsConstraintSpec(Rules)
ASSUME FaultsAssumption == Faults \subseteq FaultKind
ASSUME HungAssumption == Hung \subseteq Calls

VARIABLES
    action_seq, \* _action_seq
    action_id,  \* per call: the n of its "act-n", 0 before it has one
    pc,         \* per call: what it does or waits for
    phase,      \* per call: the enforcement point it has reached
    evaluated,  \* per call: the positions of the rules it has evaluated
    fired,      \* per call: those of them whose predicate was true
    cur,        \* per call: the last position evaluated, 0 before the first
    outcome,    \* per call: how call_tool ended, "none" until then
    trace,      \* the governance events the memory has persisted, in order
    lost,       \* <<call, position>> of records dropped or logged as failed
    routed,     \* <<call, position>> handed to the escalation handler
    dispatched  \* the calls whose wrapped tool has been started

callVars == <<action_id, pc, phase, evaluated, fired, cur, outcome>>
vars == <<action_seq, callVars, trace, lost, routed, dispatched>>

-----------------------------------------------------------------------------
(* The rules, by position.                                                 *)

Pos == DOMAIN Rules
At(p) == at(Rules, p)

Denying == {"block", "block_or_escalate", "suspend_route_default_deny"}

\* Mutant of Stops: forgets the responses that deny by default.
Stops_HardOnly(i) == Rules[i].verif \in {"PAG", "ATM"} /\ Rules[i].klass = "hard"

\* The rule ends the call when it fires: any hard one, and before the tool
\* an escalation one whose response denies.
Stops(i) ==
    \/ (Rules[i].verif \in {"PAG", "ATM"} /\ Rules[i].klass = "hard")
    \/ (Rules[i].verif = "PAG" /\ Rules[i].response \in Denying)

\* The rule is handed to the router when it fires.
Routes(i) == Stops(i) \/ Rules[i].klass = "escalation"

\* Mutant of NextRule: takes the rules of a point in any order.
NextRule_AnyOrder(t, i) == i \in At(phase[t]) \ evaluated[t]

\* The loops run point by point, in declaration order within a point.
NextRule(t, i) ==
    /\ i \in At(phase[t]) \ evaluated[t]
    /\ \A j \in At(phase[t]) \ evaluated[t] : i <= j

LoopDone(t) == At(phase[t]) \subseteq evaluated[t]

-----------------------------------------------------------------------------
Init ==
    /\ action_seq = 0
    /\ action_id = [t \in Calls |-> 0]
    /\ pc = [t \in Calls |-> "idle"]
    /\ phase = [t \in Calls |-> "PAG"]
    /\ evaluated = [t \in Calls |-> {}]
    /\ fired = [t \in Calls |-> {}]
    /\ cur = [t \in Calls |-> 0]
    /\ outcome = [t \in Calls |-> "none"]
    /\ trace = <<>>
    /\ lost = {}
    /\ routed = {}
    /\ dispatched = {}

Goto(t, label) == pc' = [pc EXCEPT ![t] = label]

End(t, how) ==
    /\ pc' = [pc EXCEPT ![t] = "done"]
    /\ outcome' = [outcome EXCEPT ![t] = how]

Verdicts == <<phase, evaluated, fired, cur>>

\* Mutant of next_action_id: numbers the call by how many are in flight.
next_action_id_CountInFlight(t) ==
    /\ action_seq' = Cardinality({s \in Calls : pc[s] \notin {"idle", "done"}}) + 1
    /\ action_id' = [action_id EXCEPT ![t] = action_seq']

\* The body of the async-with does not await: it is one step, and the lock is
\* never held across a suspension.
next_action_id(t) ==
    /\ action_seq' = action_seq + 1
    /\ action_id' = [action_id EXCEPT ![t] = action_seq + 1]

\* call_tool is entered.
Enter(t) ==
    /\ pc[t] = "idle"
    /\ next_action_id(t)
    /\ Goto(t, "loop")
    /\ UNCHANGED <<Verdicts, outcome, trace, lost, routed, dispatched>>

\* Mutant of Evaluate: builds a record only for a predicate that was true.
Evaluate_RecordsOnlyFired(t) ==
    /\ pc[t] = "loop"
    /\ \E i \in Pos : \E f \in {{}, {i}} :
        /\ NextRule(t, i)
        /\ evaluated' = [evaluated EXCEPT ![t] = @ \cup {i}]
        /\ fired' = [fired EXCEPT ![t] = @ \cup f]
        /\ cur' = [cur EXCEPT ![t] = i]
        /\ Goto(t, IF f = {} THEN "loop" ELSE "emit")
    /\ UNCHANGED <<action_seq, action_id, phase, outcome, trace, lost, routed, dispatched>>

\* One iteration of a loop up to its await: the predicate answers and the
\* TraceRecord is built.
Evaluate(t) ==
    /\ pc[t] = "loop"
    /\ \E i \in Pos : \E f \in {{}, {i}} :
        /\ NextRule(t, i)
        /\ evaluated' = [evaluated EXCEPT ![t] = @ \cup {i}]
        /\ fired' = [fired EXCEPT ![t] = @ \cup f]
        /\ cur' = [cur EXCEPT ![t] = i]
    /\ Goto(t, "emit")
    /\ UNCHANGED <<action_seq, action_id, phase, outcome, trace, lost, routed, dispatched>>

\* Nothing catches what a predicate raises: no record, no routing.
PredicateRaises(t) ==
    /\ "predicate_raises" \in Faults
    /\ pc[t] = "loop"
    /\ ~LoopDone(t)
    /\ End(t, "error")
    /\ UNCHANGED <<action_seq, action_id, Verdicts, trace, lost, routed, dispatched>>

-----------------------------------------------------------------------------
(* _emit, and what the loop does once it has returned.                     *)

\* Mutant of Record: reads the counter when the record is built.
Record_CurrentSeq(t) ==
    [call |-> t, action_id |-> action_seq, rule |-> cur[t],
     fired |-> cur[t] \in fired[t]]

Record(t) ==
    [call |-> t, action_id |-> action_id[t], rule |-> cur[t],
     fired |-> cur[t] \in fired[t]]

Persist(t) == trace' = Append(trace, Record(t))

\* Mutant of AfterEmit: a stopping rule waits for a handler that is not called.
AfterEmit_SkipsHandler(t) ==
    \/ /\ cur[t] \in fired[t] /\ Routes(cur[t])
       /\ Goto(t, "route")
       /\ routed' = IF Stops(cur[t]) THEN routed ELSE routed \cup {<<t, cur[t]>>}
    \/ /\ ~(cur[t] \in fired[t] /\ Routes(cur[t]))
       /\ Goto(t, "loop")
       /\ UNCHANGED routed

\* Mutant of AfterEmit: a lock shared by _emit and route is held over the handler.
AfterEmit_SharesLock(t) ==
    /\ \A s \in Calls : pc[s] # "route"
    /\ \/ /\ cur[t] \in fired[t] /\ Routes(cur[t])
          /\ Goto(t, "route")
          /\ routed' = routed \cup {<<t, cur[t]>>}
       \/ /\ ~(cur[t] \in fired[t] /\ Routes(cur[t]))
          /\ Goto(t, "loop")
          /\ UNCHANGED routed

\* A fired rule that routes is handed to the handler; otherwise the loop goes on.
AfterEmit(t) ==
    \/ /\ cur[t] \in fired[t] /\ Routes(cur[t])
       /\ Goto(t, "route")
       /\ routed' = routed \cup {<<t, cur[t]>>}
    \/ /\ ~(cur[t] \in fired[t] /\ Routes(cur[t]))
       /\ Goto(t, "loop")
       /\ UNCHANGED routed

\* Mutant of EmitPersists: a fired rule is handed over before it is stored.
EmitPersists_RoutesFirst(t) ==
    /\ pc[t] = "emit"
    /\ IF cur[t] \in fired[t] THEN UNCHANGED trace ELSE Persist(t)
    /\ AfterEmit(t)
    /\ UNCHANGED <<action_seq, action_id, Verdicts, outcome, lost, dispatched>>

EmitPersists(t) ==
    /\ pc[t] = "emit"
    /\ Persist(t)
    /\ AfterEmit(t)
    /\ UNCHANGED <<action_seq, action_id, Verdicts, outcome, lost, dispatched>>

\* No memory, or no session id: _emit returns without a word.
EmitDrops(t) ==
    /\ "no_memory" \in Faults
    /\ pc[t] = "emit"
    /\ lost' = lost \cup {<<t, cur[t]>>}
    /\ AfterEmit(t)
    /\ UNCHANGED <<action_seq, action_id, Verdicts, outcome, trace, dispatched>>

\* add_event raises, before or after it has stored the event; _emit logs it.
EmitFails(t) ==
    /\ "memory_raises" \in Faults
    /\ pc[t] = "emit"
    /\ Persist(t) \/ UNCHANGED trace
    /\ lost' = lost \cup {<<t, cur[t]>>}
    /\ AfterEmit(t)
    /\ UNCHANGED <<action_seq, action_id, Verdicts, outcome, dispatched>>

\* memory_getter and session_id_getter are called outside the try.
GetterRaises(t) ==
    /\ "getter_raises" \in Faults
    /\ pc[t] = "emit"
    /\ End(t, "error")
    /\ UNCHANGED <<action_seq, action_id, Verdicts, trace, lost, routed, dispatched>>

-----------------------------------------------------------------------------
(* EscalationRouter.route, and what the loop does once it has returned.    *)

\* Mutant of AfterRoute: only the pre-action gate raises.
AfterRoute_GateOnly(t) ==
    \/ (Stops(cur[t]) /\ phase[t] = "PAG" /\ End(t, "violation"))
    \/ (~(Stops(cur[t]) /\ phase[t] = "PAG") /\ Goto(t, "loop") /\ UNCHANGED outcome)

\* Mutant of AfterRoute: a handler that has been told counts as an approval.
AfterRoute_Approves(t) ==
    \/ (Rules[cur[t]].klass = "hard" /\ End(t, "violation"))
    \/ (Rules[cur[t]].klass # "hard" /\ Goto(t, "loop") /\ UNCHANGED outcome)

AfterRoute(t) ==
    \/ (Stops(cur[t]) /\ End(t, "violation"))
    \/ (~Stops(cur[t]) /\ Goto(t, "loop") /\ UNCHANGED outcome)

HandlerReturns(t) ==
    /\ pc[t] = "route"
    /\ AfterRoute(t)
    /\ UNCHANGED <<action_seq, action_id, Verdicts, trace, lost, routed, dispatched>>

\* route suppresses the exception: the caller cannot tell it from a return.
HandlerRaises(t) ==
    /\ "handler_raises" \in Faults
    /\ pc[t] = "route"
    /\ AfterRoute(t)
    /\ UNCHANGED <<action_seq, action_id, Verdicts, trace, lost, routed, dispatched>>

-----------------------------------------------------------------------------
(* From one enforcement point to the next.                                 *)

Dispatch(t) ==
    /\ pc[t] = "loop" /\ phase[t] = "PAG" /\ LoopDone(t)
    /\ Goto(t, "tool")
    /\ phase' = [phase EXCEPT ![t] = "ATM"]
    /\ dispatched' = dispatched \cup {t}
    /\ UNCHANGED <<action_seq, action_id, evaluated, fired, cur, outcome, trace, lost, routed>>

ToolReturns(t) ==
    /\ pc[t] = "tool"
    /\ Goto(t, "loop")
    /\ UNCHANGED <<action_seq, action_id, Verdicts, outcome, trace, lost, routed, dispatched>>

\* The tool's exception propagates: neither ATM nor PAA is evaluated.
ToolRaises(t) ==
    /\ "tool_raises" \in Faults
    /\ pc[t] = "tool"
    /\ End(t, "error")
    /\ UNCHANGED <<action_seq, action_id, Verdicts, trace, lost, routed, dispatched>>

StartPAA(t) ==
    /\ pc[t] = "loop" /\ phase[t] = "ATM" /\ LoopDone(t)
    /\ phase' = [phase EXCEPT ![t] = "PAA"]
    /\ UNCHANGED <<action_seq, action_id, pc, evaluated, fired, cur, outcome,
                   trace, lost, routed, dispatched>>

Return(t) ==
    /\ pc[t] = "loop" /\ phase[t] = "PAA" /\ LoopDone(t)
    /\ End(t, "returned")
    /\ UNCHANGED <<action_seq, action_id, Verdicts, trace, lost, routed, dispatched>>

\* The task is cancelled at an await.  CancelledError is no Exception: neither
\* _emit nor route stops it.  A record in flight may have been stored already.
Cancel(t) ==
    /\ "cancel" \in Faults
    /\ pc[t] \in {"emit", "route", "tool"}
    /\ End(t, "cancelled")
    /\ (pc[t] = "emit" /\ Persist(t)) \/ UNCHANGED trace
    /\ UNCHANGED <<action_seq, action_id, Verdicts, lost, routed, dispatched>>

\* The code's own steps, and the answers it waits for.
Run(t) == Evaluate(t) \/ Dispatch(t) \/ StartPAA(t) \/ Return(t)

Answer(t) ==
    \/ EmitPersists(t) \/ EmitDrops(t) \/ EmitFails(t) \/ GetterRaises(t)
    \/ HandlerReturns(t) \/ HandlerRaises(t)
    \/ ToolReturns(t) \/ ToolRaises(t)

Next ==
    \E t \in Calls :
        Enter(t) \/ Run(t) \/ PredicateRaises(t) \/ Answer(t) \/ Cancel(t)

Spec == Init /\ [][Next]_vars

\* The event loop resumes every ready task; what a call awaits answers, except
\* for the calls in Hung.  Nobody has to start a call.
Fairness ==
    /\ \A t \in Calls : WF_vars(Run(t))
    /\ \A t \in Calls \ Hung : WF_vars(Answer(t))

FairSpec == Spec /\ Fairness

-----------------------------------------------------------------------------
(* Properties.                                                             *)

Outcome == {"none", "returned", "violation", "error", "cancelled"}

TraceEvent == [call : Calls, action_id : Nat, rule : Pos, fired : BOOLEAN]

\* Every variable has its type, and what is said to have fired was evaluated.
TypeOK ==
    /\ action_seq \in Nat
    /\ action_id \in [Calls -> Nat]
    /\ pc \in [Calls -> {"idle", "loop", "emit", "route", "tool", "done"}]
    /\ phase \in [Calls -> {"PAG", "ATM", "PAA"}]
    /\ evaluated \in [Calls -> SUBSET Pos]
    /\ fired \in [Calls -> SUBSET Pos]
    /\ \A t \in Calls : fired[t] \subseteq evaluated[t]
    /\ cur \in [Calls -> Pos \cup {0}]
    /\ \A t \in Calls : pc[t] \in {"emit", "route"} => cur[t] \in Pos
    /\ outcome \in [Calls -> Outcome]
    /\ trace \in Seq(TraceEvent)
    /\ lost \subseteq Calls \X Pos
    /\ routed \subseteq Calls \X Pos
    /\ dispatched \subseteq Calls

\* What the documents call a deny at a gate: a hard constraint, or before the
\* tool a response that blocks or defaults to deny.
MustDenyBefore(i) ==
    /\ Rules[i].verif = "PAG"
    /\ \/ Rules[i].klass = "hard"
       \/ Rules[i].response \in {"block", "block_or_escalate", "suspend_route_default_deny"}

MustDenyAfter(i) == Rules[i].verif = "ATM" /\ Rules[i].klass = "hard"

\* The pre-action gate (security-model.md, "never silently turns a deny into
\* an allow"): the wrapped tool is started only for a call all of whose PAG
\* constraints were evaluated and none of whose denying ones fired, whatever
\* the memory, the handler or the predicates did meanwhile.
GateHolds ==
    \A t \in dispatched :
        /\ At("PAG") \subseteq evaluated[t]
        /\ \A i \in fired[t] : ~MustDenyBefore(i)

\* A result is returned only if the tool ran, every constraint of every inline
\* point was evaluated on it, and no denying constraint fired: the result of a
\* call stopped at ATM is withheld although its side effect has happened.
ReleasedOnlyIfClean ==
    \A t \in Calls : outcome[t] = "returned" =>
        /\ t \in dispatched
        /\ Pos \subseteq evaluated[t]
        /\ \A i \in fired[t] : ~MustDenyBefore(i) /\ ~MustDenyAfter(i)

\* ConstraintViolation is raised only for a denying constraint that fired, after
\* the handler was called for it, and conversely a call with such a constraint
\* ends that way unless an exception or a cancellation ends it first.
DenialIsFinal ==
    \A t \in Calls : pc[t] = "done" =>
        LET deny == {i \in fired[t] : MustDenyBefore(i) \/ MustDenyAfter(i)}
        IN  /\ outcome[t] = "violation" => \E i \in deny : <<t, i>> \in routed
            /\ deny # {} => outcome[t] \in {"violation", "error", "cancelled"}

PointRank == [PAG |-> 1, ATM |-> 2, PAA |-> 3]

Before(i, j) ==
    LET p == PointRank[Rules[i].verif]
        q == PointRank[Rules[j].verif]
    IN  p < q \/ (p = q /\ i < j)

\* The order of evaluation (failure-modes.md:35-37): constraints are evaluated
\* point by point in the order of the spec without a gap, and none after a
\* denying constraint has fired.
EvaluationOrder ==
    \A t \in Calls : \A j \in evaluated[t] : \A i \in Pos : Before(i, j) =>
        /\ i \in evaluated[t]
        /\ i \in fired[t] => ~MustDenyBefore(i) /\ ~MustDenyAfter(i)

\* The trace tells the truth however the calls interleave (trace.py: the action
\* id identifies the tool invocation): the events of a call are those of one id,
\* come in the order of evaluation, none twice, and each bears the verdict its
\* predicate gave.
OrderedTrace ==
    \A k \in DOMAIN trace :
        LET e == trace[k] IN
        /\ e.fired <=> e.rule \in fired[e.call]
        /\ e.rule \in evaluated[e.call]
        /\ \A t \in Calls : action_id[t] = e.action_id <=> t = e.call
        /\ \A l \in DOMAIN trace :
              k < l /\ trace[l].call = e.call => Before(e.rule, trace[l].rule)

Recorded == {<<trace[k].call, trace[k].rule>> : k \in DOMAIN trace}

\* The record is written first: nothing is handed to the escalation handler
\* before its trace record is stored or known to be lost.
RecordedBeforeRouted == routed \subseteq Recorded \cup lost

\* No gap in the audit: once a call has returned or been refused, each of its
\* evaluations is in the trace or is one the memory failed to keep.
AuditComplete ==
    \A t \in Calls : outcome[t] \in {"returned", "violation"} =>
        \A i \in evaluated[t] : <<t, i>> \in Recorded \cup lost

\* A call whose memory, handler and tool answer comes to an end, even while
\* those of another call hang: no call holds anything another one waits for.
Finishes ==
    \A t \in Calls \ Hung : pc[t] # "idle" ~> pc[t] = "done"

-----------------------------------------------------------------------------
(* The refinement of GovernedCall.                                         *)

ClosedStage ==
    [returned |-> "returned", violation |-> "refused", error |-> "aborted",
     cancelled |-> "aborted", none |-> "aborted"]

StageOf(t) ==
    IF pc[t] = "idle" THEN "idle"
    ELSE IF pc[t] = "done" THEN ClosedStage[outcome[t]]
    ELSE IF pc[t] = "tool" THEN "executing"
    ELSE IF phase[t] = "PAG" THEN "checking" ELSE "reviewing"

Stage == [t \in Calls |-> StageOf(t)]
Denied == {t \in Calls : \E i \in fired[t] : MustDenyBefore(i) \/ MustDenyAfter(i)}
Alerted == {t \in Calls : \E i \in Pos : <<t, i>> \in routed}

Gate == INSTANCE GovernedCall WITH
    stage <- Stage, executed <- dispatched, denied <- Denied, alerted <- Alerted

\* call_tool implements the promise of GovernedCall.
ImplementsGate == Gate!Spec
=============================================================================
