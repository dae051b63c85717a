-------------------------- MODULE GovernanceProofs --------------------------
(***************************************************************************)
(* Theorems about governed calls and the trail they leave, for every set   *)
(* of calls, every ConstraintSpec and every combination of faults:         *)
(* of Governance, of the audit of a session that any number of toolsets    *)
(* write (GovernedAudit), and of a session in a chained store              *)
(* (StoredTrail).                                                          *)
(***************************************************************************)
EXTENDS StoredTrail, FiniteSetTheorems, WellFoundedInduction, TLAPS

-----------------------------------------------------------------------------
(* The rules.                                                              *)

\* Every rule sits at an inline point: ConstraintSpec rejects the rest.
LEMMA RulesAreInline ==
    /\ Pos \subseteq Nat \ {0}
    /\ \A i \in Pos : Rules[i].verif \in {"PAG", "ATM", "PAA"}
<1>1. PICK S : Rules \in Seq(Constraint(S))
  BY RulesAssumption DEF IsConstraintSpec
<1>2. \A i \in Pos : Rules[i] \in Constraint(S) /\ i \in Nat \ {0}
  BY <1>1 DEF Pos
<1>3. \A i \in Pos : is_compatible(Rules[i].klass, Rules[i].verif)
  BY <1>2 DEF Constraint
<1>4. QED
  BY <1>2, <1>3 DEF is_compatible, allowed_points, ClassPoints, ConstraintClass

\* The rules that end a call are the ones the documents say must deny it.
LEMMA StopsIsDeny ==
    \A i \in Pos : Stops(i) <=> MustDenyBefore(i) \/ MustDenyAfter(i)
BY DEF Stops, MustDenyBefore, MustDenyAfter, Denying

LEMMA AtIsPos == \A p : At(p) \subseteq Pos
BY DEF At, at, Pos

-----------------------------------------------------------------------------
(* Type correctness.                                                       *)

LEMMA InitType == Init => TypeOK
BY DEF Init, TypeOK, Outcome

\* What a call hands to the memory is an event of the trace.
LEMMA PersistType ==
    ASSUME TypeOK, NEW t \in Calls, cur[t] \in Pos, Persist(t)
    PROVE  trace' \in Seq(TraceEvent)
<1>1. Record(t) \in TraceEvent
  <2>1. (cur[t] \in fired[t]) \in BOOLEAN
    OBVIOUS
  <2>2. action_id[t] \in Nat
    BY DEF TypeOK
  <2>3. QED
    BY <2>1, <2>2, Zenon DEF Record, TraceEvent
<1>2. QED
  BY <1>1 DEF TypeOK, Persist

\* Leaving _emit, a call goes on to the handler or to the next iteration.
LEMMA AfterEmitType ==
    ASSUME TypeOK, NEW t \in Calls, cur[t] \in Pos, AfterEmit(t)
    PROVE  /\ pc' \in [Calls -> {"idle", "loop", "emit", "route", "tool", "done"}]
           /\ \A s \in Calls \ {t} : pc'[s] = pc[s]
           /\ routed' \subseteq Calls \X Pos
<1>1. <<t, cur[t]>> \in Calls \X Pos
  OBVIOUS
<1>2. routed' \subseteq routed \cup {<<t, cur[t]>>}
  BY DEF AfterEmit
<1>3. routed' \subseteq Calls \X Pos
  BY <1>1, <1>2 DEF TypeOK
<1>4. pc' \in {[pc EXCEPT ![t] = "route"], [pc EXCEPT ![t] = "loop"]}
  BY DEF AfterEmit, Goto
<1>5. QED
  BY <1>3, <1>4 DEF TypeOK

LEMMA NextType == TypeOK /\ [Next]_vars => TypeOK'
<1> SUFFICES ASSUME TypeOK, [Next]_vars PROVE TypeOK'
  OBVIOUS
<1>1. CASE UNCHANGED vars
  BY <1>1 DEF TypeOK, vars, callVars, TraceEvent
<1>2. ASSUME NEW t \in Calls, Enter(t) PROVE TypeOK'
  BY <1>2 DEF TypeOK, Enter, next_action_id, Goto, Verdicts
<1>3. ASSUME NEW t \in Calls, Evaluate(t) PROVE TypeOK'
  BY <1>3 DEF TypeOK, Evaluate, Goto
<1>4. ASSUME NEW t \in Calls, PredicateRaises(t) PROVE TypeOK'
  BY <1>4 DEF TypeOK, PredicateRaises, End, Outcome, Verdicts
<1>5. ASSUME NEW t \in Calls, EmitPersists(t) PROVE TypeOK'
  <2>1. cur[t] \in Pos /\ AfterEmit(t)
    BY <1>5 DEF TypeOK, EmitPersists
  <2>2. trace' \in Seq(TraceEvent)
    BY <1>5, <2>1, PersistType DEF TypeOK, EmitPersists
  <2>3. QED
    BY <1>5, <2>1, <2>2, AfterEmitType DEF TypeOK, EmitPersists, Verdicts
<1>6. ASSUME NEW t \in Calls, EmitDrops(t) PROVE TypeOK'
  <2>1. cur[t] \in Pos /\ AfterEmit(t)
    BY <1>6 DEF TypeOK, EmitDrops
  <2>3. QED
    BY <1>6, <2>1, AfterEmitType DEF TypeOK, EmitDrops, Verdicts
<1>7. ASSUME NEW t \in Calls, EmitFails(t) PROVE TypeOK'
  <2>1. cur[t] \in Pos /\ AfterEmit(t)
    BY <1>7 DEF TypeOK, EmitFails
  <2>2. trace' \in Seq(TraceEvent)
    BY <1>7, <2>1, PersistType DEF TypeOK, EmitFails
  <2>3. QED
    BY <1>7, <2>1, <2>2, AfterEmitType DEF TypeOK, EmitFails, Verdicts
<1>8. ASSUME NEW t \in Calls, GetterRaises(t) PROVE TypeOK'
  BY <1>8 DEF TypeOK, GetterRaises, End, Outcome, Verdicts
<1>9. ASSUME NEW t \in Calls, HandlerReturns(t) PROVE TypeOK'
  BY <1>9 DEF TypeOK, HandlerReturns, AfterRoute, Goto, End, Outcome, Verdicts
<1>10. ASSUME NEW t \in Calls, HandlerRaises(t) PROVE TypeOK'
  BY <1>10 DEF TypeOK, HandlerRaises, AfterRoute, Goto, End, Outcome, Verdicts
<1>11. ASSUME NEW t \in Calls, Dispatch(t) PROVE TypeOK'
  BY <1>11 DEF TypeOK, Dispatch, Goto
<1>12. ASSUME NEW t \in Calls, ToolReturns(t) PROVE TypeOK'
  BY <1>12 DEF TypeOK, ToolReturns, Goto, Verdicts
<1>13. ASSUME NEW t \in Calls, ToolRaises(t) PROVE TypeOK'
  BY <1>13 DEF TypeOK, ToolRaises, End, Outcome, Verdicts
<1>14. ASSUME NEW t \in Calls, StartPAA(t) PROVE TypeOK'
  BY <1>14 DEF TypeOK, StartPAA
<1>15. ASSUME NEW t \in Calls, Return(t) PROVE TypeOK'
  BY <1>15 DEF TypeOK, Return, End, Outcome, Verdicts
<1>16. ASSUME NEW t \in Calls, Cancel(t) PROVE TypeOK'
  <2>1. trace' \in Seq(TraceEvent)
    BY <1>16, PersistType DEF TypeOK, Cancel
  <2>2. QED
    BY <1>16, <2>1 DEF TypeOK, Cancel, End, Outcome, Verdicts
<1>17. QED
  BY <1>1, <1>2, <1>3, <1>4, <1>5, <1>6, <1>7, <1>8, <1>9, <1>10, <1>11, <1>12, <1>13, <1>14, <1>15, <1>16 DEF Next, Run, Answer

\* Every reachable state of Governance is well typed.
THEOREM TypeCorrect == Spec => []TypeOK
<1>1. QED
  BY InitType, NextType, PTL DEF Spec

-----------------------------------------------------------------------------
(* The inductive invariant.  The properties speak of what a call has done; *)
(* it is kept by where the call stands, so the invariant ties each place   *)
(* of the coroutine to the rules evaluated and fired on the way there.     *)

Rank(p) == PointRank[p]

\* A rule that stops the call has fired.
Stopped(t) == \E i \in fired[t] : Stops(i)

CallInv(t) ==
    \* A call that has not been entered has done nothing.
    /\ pc[t] = "idle" => /\ evaluated[t] = {}
                         /\ phase[t] = "PAG"
                         /\ action_id[t] = 0
    /\ pc[t] = "done" <=> outcome[t] # "none"
    \* The tool runs exactly when the call leaves PAG.
    /\ t \in dispatched <=> phase[t] # "PAG"
    /\ pc[t] = "tool" => phase[t] = "ATM"
    \* A point is left only when its loop is over, and none is entered early.
    /\ phase[t] # "PAG" => At("PAG") \subseteq evaluated[t]
    /\ phase[t] = "PAA" => At("ATM") \subseteq evaluated[t]
    /\ \A i \in evaluated[t] : Rank(Rules[i].verif) <= Rank(phase[t])
    \* A stopping rule that fired is the last one evaluated, and the call is on
    \* its way out: it never gets back to a loop or on to the tool.
    /\ Stopped(t) => /\ pc[t] \in {"emit", "route", "done"}
                     /\ \A i \in fired[t] : Stops(i) => i = cur[t]
                     /\ phase[t] # "PAG" => ~MustDenyBefore(cur[t])
    /\ pc[t] \in {"emit", "route"} => cur[t] \in evaluated[t]
    \* No gap is left behind, and the last one evaluated is the furthest.
    /\ \A j \in evaluated[t] : \A i \in Pos : Before(i, j) => i \in evaluated[t]
    /\ \A j \in evaluated[t] : j = cur[t] \/ Before(j, cur[t])
    /\ pc[t] = "route" => cur[t] \in fired[t] /\ <<t, cur[t]>> \in routed
    /\ outcome[t] = "violation" => /\ cur[t] \in fired[t] /\ Stops(cur[t])
                                   /\ <<t, cur[t]>> \in routed
    /\ outcome[t] = "returned" => /\ phase[t] = "PAA"
                                  /\ At("PAA") \subseteq evaluated[t]
                                  /\ ~Stopped(t)

IInv == TypeOK /\ \A t \in Calls : CallInv(t)

LEMMA InitInv == Init => IInv
<1> SUFFICES ASSUME Init PROVE IInv
  OBVIOUS
<1>1. TypeOK
  BY InitType
<1>2. ASSUME NEW t \in Calls PROVE CallInv(t)
  BY DEF Init, CallInv, Stopped
<1>3. QED
  BY <1>1, <1>2 DEF IInv

\* The step of one call leaves the part of the state of another one alone.
Untouched(s) ==
    /\ action_id'[s] = action_id[s]
    /\ pc'[s] = pc[s]
    /\ phase'[s] = phase[s]
    /\ evaluated'[s] = evaluated[s]
    /\ fired'[s] = fired[s]
    /\ cur'[s] = cur[s]
    /\ outcome'[s] = outcome[s]
    /\ (s \in dispatched') <=> (s \in dispatched)
    /\ routed \subseteq routed'

LEMMA UntouchedKeeps ==
    ASSUME NEW s \in Calls, CallInv(s), Untouched(s)
    PROVE  CallInv(s)'
BY DEF CallInv, Untouched, Stopped, Stops, MustDenyBefore, At, at, Rank, Before,
       PointRank, Pos, Denying

LEMMA StepTouchesOne ==
    ASSUME TypeOK, NEW t \in Calls, NEW s \in Calls \ {t},
           Enter(t) \/ Run(t) \/ PredicateRaises(t) \/ Answer(t) \/ Cancel(t)
    PROVE  Untouched(s)
<1>1. CASE Enter(t)
  BY <1>1 DEF TypeOK, Untouched, Enter, next_action_id, Goto, Verdicts
<1>2. CASE Evaluate(t)
  BY <1>2 DEF TypeOK, Untouched, Evaluate, Goto
<1>3. CASE PredicateRaises(t)
  BY <1>3 DEF TypeOK, Untouched, PredicateRaises, End, Verdicts
<1>4. CASE EmitPersists(t)
  BY <1>4 DEF TypeOK, Untouched, EmitPersists, AfterEmit, Goto, Verdicts
<1>5. CASE EmitDrops(t)
  BY <1>5 DEF TypeOK, Untouched, EmitDrops, AfterEmit, Goto, Verdicts
<1>6. CASE EmitFails(t)
  BY <1>6 DEF TypeOK, Untouched, EmitFails, AfterEmit, Goto, Verdicts
<1>7. CASE GetterRaises(t)
  BY <1>7 DEF TypeOK, Untouched, GetterRaises, End, Verdicts
<1>8. CASE HandlerReturns(t)
  BY <1>8 DEF TypeOK, Untouched, HandlerReturns, AfterRoute, Goto, End, Verdicts
<1>9. CASE HandlerRaises(t)
  BY <1>9 DEF TypeOK, Untouched, HandlerRaises, AfterRoute, Goto, End, Verdicts
<1>10. CASE Dispatch(t)
  BY <1>10 DEF TypeOK, Untouched, Dispatch, Goto
<1>11. CASE ToolReturns(t)
  BY <1>11 DEF TypeOK, Untouched, ToolReturns, Goto, Verdicts
<1>12. CASE ToolRaises(t)
  BY <1>12 DEF TypeOK, Untouched, ToolRaises, End, Verdicts
<1>13. CASE StartPAA(t)
  BY <1>13 DEF TypeOK, Untouched, StartPAA
<1>14. CASE Return(t)
  BY <1>14 DEF TypeOK, Untouched, Return, End, Verdicts
<1>15. CASE Cancel(t)
  BY <1>15 DEF TypeOK, Untouched, Cancel, End, Verdicts
<1>16. QED
  BY <1>1, <1>2, <1>3, <1>4, <1>5, <1>6, <1>7, <1>8, <1>9, <1>10, <1>11, <1>12, <1>13, <1>14, <1>15 DEF Run, Answer

LEMMA NextInv == IInv /\ [Next]_vars => IInv'
<1> SUFFICES ASSUME IInv, [Next]_vars PROVE IInv'
  OBVIOUS
<1> USE DEF IInv
<1>1. TypeOK /\ TypeOK'
  BY NextType
<1>2. CASE UNCHANGED vars
  <2>1. ASSUME NEW s \in Calls PROVE CallInv(s)'
    BY <1>2, UntouchedKeeps DEF Untouched, vars, callVars
  <2>2. QED
    BY <1>1, <2>1
<1>3. ASSUME NEW t \in Calls,
             Enter(t) \/ Run(t) \/ PredicateRaises(t) \/ Answer(t) \/ Cancel(t)
      PROVE  CallInv(t)'
  <2> HIDE DEF IInv
  <2>0. CallInv(t) /\ TypeOK
    BY DEF IInv
  <2>1. CASE Enter(t)
    BY <2>0, <2>1, RulesAreInline DEF TypeOK, CallInv, Stopped, Stops, MustDenyBefore, Denying, At, at, Rank, Before,
           PointRank, Pos, Enter, next_action_id, Goto, Verdicts
  <2>2. CASE Evaluate(t)
    BY <2>0, <2>2, RulesAreInline DEF TypeOK, CallInv, Stopped, Stops, MustDenyBefore, Denying, At, at, Rank, Before,
           PointRank, Pos, NextRule, Evaluate, Goto
  <2>3. CASE PredicateRaises(t)
    BY <2>0, <2>3, RulesAreInline DEF TypeOK, CallInv, Stopped, Stops, MustDenyBefore, Denying, At, at, Rank, Before,
           PointRank, Pos, PredicateRaises, End, Verdicts
  <2>4. CASE EmitPersists(t)
    BY <2>0, <2>4, RulesAreInline, SMTT(30) DEF TypeOK, CallInv, Stopped, Stops, MustDenyBefore, Denying, At, at, Rank, Before,
           PointRank, Pos, Routes, EmitPersists, AfterEmit, Goto, Verdicts
  <2>5. CASE EmitDrops(t)
    BY <2>0, <2>5, RulesAreInline, SMTT(30) DEF TypeOK, CallInv, Stopped, Stops, MustDenyBefore, Denying, At, at, Rank, Before,
           PointRank, Pos, Routes, EmitDrops, AfterEmit, Goto, Verdicts
  <2>6. CASE EmitFails(t)
    BY <2>0, <2>6, RulesAreInline, SMTT(30) DEF TypeOK, CallInv, Stopped, Stops, MustDenyBefore, Denying, At, at, Rank, Before,
           PointRank, Pos, Routes, EmitFails, AfterEmit, Goto, Verdicts
  <2>7. CASE GetterRaises(t)
    BY <2>0, <2>7, RulesAreInline DEF TypeOK, CallInv, Stopped, Stops, MustDenyBefore, Denying, At, at, Rank, Before,
           PointRank, Pos, GetterRaises, End, Verdicts
  <2>8. CASE HandlerReturns(t)
    BY <2>0, <2>8, RulesAreInline, SMTT(30) DEF TypeOK, CallInv, Stopped, Stops, MustDenyBefore, Denying, At, at, Rank, Before,
           PointRank, Pos, HandlerReturns, AfterRoute, Goto, End, Verdicts
  <2>9. CASE HandlerRaises(t)
    BY <2>0, <2>9, RulesAreInline DEF TypeOK, CallInv, Stopped, Stops, MustDenyBefore, Denying, At, at, Rank, Before,
           PointRank, Pos, HandlerRaises, AfterRoute, Goto, End, Verdicts
  <2>10. CASE Dispatch(t)
    BY <2>0, <2>10, RulesAreInline DEF TypeOK, CallInv, Stopped, Stops, MustDenyBefore, Denying, At, at, Rank, Before,
           PointRank, Pos, LoopDone, Dispatch, Goto
  <2>11. CASE ToolReturns(t)
    BY <2>0, <2>11, RulesAreInline DEF TypeOK, CallInv, Stopped, Stops, MustDenyBefore, Denying, At, at, Rank, Before,
           PointRank, Pos, ToolReturns, Goto, Verdicts
  <2>12. CASE ToolRaises(t)
    BY <2>0, <2>12, RulesAreInline DEF TypeOK, CallInv, Stopped, Stops, MustDenyBefore, Denying, At, at, Rank, Before,
           PointRank, Pos, ToolRaises, End, Verdicts
  <2>13. CASE StartPAA(t)
    BY <2>0, <2>13, RulesAreInline DEF TypeOK, CallInv, Stopped, Stops, MustDenyBefore, Denying, At, at, Rank, Before,
           PointRank, Pos, LoopDone, StartPAA
  <2>14. CASE Return(t)
    BY <2>0, <2>14, RulesAreInline DEF TypeOK, CallInv, Stopped, Stops, MustDenyBefore, Denying, At, at, Rank, Before,
           PointRank, Pos, LoopDone, Return, End, Verdicts
  <2>15. CASE Cancel(t)
    BY <2>0, <2>15, RulesAreInline DEF TypeOK, CallInv, Stopped, Stops, MustDenyBefore, Denying, At, at, Rank, Before,
           PointRank, Pos, Cancel, End, Verdicts
  <2>16. QED
    BY <1>3, <2>1, <2>2, <2>3, <2>4, <2>5, <2>6, <2>7, <2>8, <2>9, <2>10, <2>11, <2>12, <2>13, <2>14, <2>15 DEF Run, Answer
<1>4. QED
  <2>1. CASE \E t \in Calls :
               Enter(t) \/ Run(t) \/ PredicateRaises(t) \/ Answer(t) \/ Cancel(t)
    BY <1>1, <1>3, <2>1, StepTouchesOne, UntouchedKeeps
  <2>2. QED
    BY <1>2, <2>1 DEF Next

THEOREM InvariantHolds == Spec => []IInv
<1>1. QED
  BY InitInv, NextInv, PTL DEF Spec

-----------------------------------------------------------------------------
(* What the invariant implies.                                             *)

\* The pre-action gate: no tool is started past a deny (GateHolds).
THEOREM GateTheorem == Spec => []GateHolds
<1>1. IInv => GateHolds
  <2> SUFFICES ASSUME IInv, NEW t \in dispatched
               PROVE  /\ At("PAG") \subseteq evaluated[t]
                      /\ \A i \in fired[t] : ~MustDenyBefore(i)
    BY DEF GateHolds
  <2>1. CallInv(t) /\ TypeOK
    BY DEF IInv, TypeOK
  <2>2. phase[t] # "PAG"
    BY <2>1 DEF CallInv
  <2>3. ASSUME NEW i \in fired[t], MustDenyBefore(i) PROVE FALSE
    <3>1. t \in Calls /\ i \in Pos
      BY <2>1 DEF TypeOK
    <3>2. Stops(i)
      BY <2>3, <3>1, StopsIsDeny
    <3>3. i = cur[t] /\ ~MustDenyBefore(cur[t])
      BY <2>1, <2>2, <3>2 DEF CallInv, Stopped
    <3>4. QED
      BY <2>3, <3>3
  <2>4. QED
    BY <2>1, <2>2, <2>3 DEF CallInv
<1>2. QED
  BY <1>1, InvariantHolds, PTL

\* A result reaches the caller only past every constraint (ReleasedOnlyIfClean).
THEOREM ReleaseTheorem == Spec => []ReleasedOnlyIfClean
<1>1. IInv => ReleasedOnlyIfClean
  <2> SUFFICES ASSUME IInv, NEW t \in Calls, outcome[t] = "returned"
               PROVE  /\ t \in dispatched
                      /\ Pos \subseteq evaluated[t]
                      /\ \A i \in fired[t] : ~MustDenyBefore(i) /\ ~MustDenyAfter(i)
    BY DEF ReleasedOnlyIfClean
  <2>1. CallInv(t) /\ TypeOK
    BY DEF IInv
  <2>2. phase[t] = "PAA" /\ t \in dispatched
    BY <2>1 DEF CallInv
  <2>3. Pos \subseteq evaluated[t]
    <3>1. \A p \in {"PAG", "ATM", "PAA"} : At(p) \subseteq evaluated[t]
      BY <2>1, <2>2 DEF CallInv
    <3>2. QED
      BY <3>1, RulesAreInline DEF At, at, Pos
  <2>4. \A i \in fired[t] : i \in Pos /\ ~Stops(i)
    BY <2>1 DEF CallInv, Stopped, TypeOK
  <2>5. QED
    BY <2>2, <2>3, <2>4, StopsIsDeny
<1>2. QED
  BY <1>1, InvariantHolds, PTL

\* A ConstraintViolation is deserved and announced, and a deserved one is
\* raised unless the call is ended first (DenialIsFinal).
THEOREM DenialTheorem == Spec => []DenialIsFinal
<1>1. IInv => DenialIsFinal
  <2> SUFFICES ASSUME IInv, NEW t \in Calls, pc[t] = "done"
      PROVE LET deny == {i \in fired[t] : MustDenyBefore(i) \/ MustDenyAfter(i)}
            IN  /\ outcome[t] = "violation" => \E i \in deny : <<t, i>> \in routed
                /\ deny # {} => outcome[t] \in {"violation", "error", "cancelled"}
    BY DEF DenialIsFinal
  <2>1. CallInv(t) /\ TypeOK
    BY DEF IInv
  <2>2. \A i \in fired[t] : Stops(i) <=> MustDenyBefore(i) \/ MustDenyAfter(i)
    BY <2>1, StopsIsDeny DEF TypeOK
  <2>3. outcome[t] = "violation" =>
           cur[t] \in fired[t] /\ Stops(cur[t]) /\ <<t, cur[t]>> \in routed
    BY <2>1 DEF CallInv
  <2>4. outcome[t] \in {"returned", "violation", "error", "cancelled"}
    BY <2>1 DEF CallInv, TypeOK, Outcome
  <2>5. outcome[t] = "returned" => \A i \in fired[t] : ~Stops(i)
    BY <2>1 DEF CallInv, Stopped
  <2>6. QED
    BY <2>2, <2>3, <2>4, <2>5
<1>2. QED
  BY <1>1, InvariantHolds, PTL

\* Constraints are evaluated in the order of the spec, without a gap, and none
\* after a denying one has fired (EvaluationOrder).
THEOREM OrderTheorem == Spec => []EvaluationOrder
<1>1. IInv => EvaluationOrder
  <2> SUFFICES ASSUME IInv, NEW t \in Calls, NEW j \in evaluated[t],
                      NEW i \in Pos, Before(i, j)
               PROVE  /\ i \in evaluated[t]
                      /\ i \in fired[t] => ~MustDenyBefore(i) /\ ~MustDenyAfter(i)
    BY DEF EvaluationOrder
  <2>1. CallInv(t) /\ TypeOK /\ j \in Pos
    BY DEF IInv, TypeOK
  <2>2. i \in evaluated[t]
    BY <2>1 DEF CallInv
  <2>3. ASSUME i \in fired[t], Stops(i) PROVE FALSE
    <3>1. i = cur[t]
      BY <2>1, <2>3 DEF CallInv, Stopped
    <3>2. j = cur[t] \/ Before(j, cur[t])
      BY <2>1 DEF CallInv
    <3>3. QED
      BY <2>1, <3>1, <3>2, RulesAreInline DEF Before, PointRank
  <2>4. QED
    BY <2>2, <2>3, StopsIsDeny
<1>2. QED
  BY <1>1, InvariantHolds, PTL

-----------------------------------------------------------------------------
(* The audit trail.                                                        *)

\* Storing a record adds one event and touches no other.
LEMMA PersistRecords ==
    ASSUME TypeOK, NEW t \in Calls, Persist(t)
    PROVE  Recorded' = Recorded \cup {<<t, cur[t]>>}
<1>1. /\ DOMAIN trace' = DOMAIN trace \cup {Len(trace) + 1}
      /\ \A k \in DOMAIN trace : trace'[k] = trace[k]
      /\ trace'[Len(trace) + 1] = Record(t)
  BY DEF TypeOK, Persist
<1>2. QED
  BY <1>1 DEF Recorded, Record

\* Every evaluation is recorded or lost, except the one whose record is in
\* flight and the one whose record an exception or a cancellation preempted.
AuditInv(t) ==
    \A i \in evaluated[t] :
        \/ <<t, i>> \in Recorded \cup lost
        \/ i = cur[t] /\ (pc[t] = "emit" \/ outcome[t] \in {"error", "cancelled"})

AInv ==
    /\ IInv
    /\ \A t \in Calls : AuditInv(t)
    /\ RecordedBeforeRouted

\* What a step does to the audit trail: nothing, or it settles the record of
\* the rule just evaluated, or it ends the call with that record in flight.
Keeps == Recorded' = Recorded /\ lost' = lost /\ routed' = routed

Settles(t) ==
    /\ <<t, cur[t]>> \in Recorded' \cup lost'
    /\ Recorded \cup lost \subseteq Recorded' \cup lost'
    /\ routed' \subseteq routed \cup {<<t, cur[t]>>}

Preempts(t) ==
    /\ outcome'[t] \in {"error", "cancelled"}
    /\ Recorded \cup lost \subseteq Recorded' \cup lost'
    /\ routed' = routed

LEMMA StepAudits ==
    ASSUME TypeOK, NEW t \in Calls,
           Enter(t) \/ Run(t) \/ PredicateRaises(t) \/ Answer(t) \/ Cancel(t)
    PROVE  \/ pc[t] # "emit" /\ Keeps
           \/ pc[t] = "emit" /\ UNCHANGED <<evaluated, cur>> /\ (Settles(t) \/ Preempts(t))
<1>0. trace' = trace => Recorded' = Recorded
  BY DEF Recorded
<1>1. CASE Enter(t)
  BY <1>0, <1>1 DEF Enter, next_action_id, Keeps
<1>2. CASE Evaluate(t)
  BY <1>0, <1>2 DEF Evaluate, Keeps
<1>3. CASE PredicateRaises(t)
  BY <1>0, <1>3 DEF PredicateRaises, Keeps
<1>4. CASE EmitPersists(t)
  BY <1>4, PersistRecords DEF EmitPersists, AfterEmit, Settles, Verdicts
<1>5. CASE EmitDrops(t)
  BY <1>0, <1>5 DEF EmitDrops, AfterEmit, Settles, Verdicts
<1>6. CASE EmitFails(t)
  BY <1>0, <1>6, PersistRecords DEF EmitFails, AfterEmit, Settles, Verdicts
<1>7. CASE GetterRaises(t)
  BY <1>0, <1>7 DEF TypeOK, GetterRaises, End, Preempts, Verdicts
<1>8. CASE HandlerReturns(t)
  BY <1>0, <1>8 DEF HandlerReturns, Keeps
<1>9. CASE HandlerRaises(t)
  BY <1>0, <1>9 DEF HandlerRaises, Keeps
<1>10. CASE Dispatch(t)
  BY <1>0, <1>10 DEF Dispatch, Keeps
<1>11. CASE ToolReturns(t)
  BY <1>0, <1>11 DEF ToolReturns, Keeps
<1>12. CASE ToolRaises(t)
  BY <1>0, <1>12 DEF ToolRaises, Keeps
<1>13. CASE StartPAA(t)
  BY <1>0, <1>13 DEF StartPAA, Keeps
<1>14. CASE Return(t)
  BY <1>0, <1>14 DEF Return, Keeps
<1>15. CASE Cancel(t)
  <2>1. outcome'[t] = "cancelled"
    BY <1>15 DEF TypeOK, Cancel, End
  <2>2. CASE pc[t] = "emit"
    BY <1>0, <1>15, <2>1, <2>2, PersistRecords DEF Cancel, Preempts, Verdicts
  <2>3. CASE pc[t] # "emit"
    BY <1>0, <1>15, <2>3 DEF Cancel, Keeps
  <2>4. QED
    BY <2>2, <2>3
<1>16. QED
  BY <1>1, <1>2, <1>3, <1>4, <1>5, <1>6, <1>7, <1>8, <1>9, <1>10, <1>11, <1>12, <1>13, <1>14, <1>15 DEF Run, Answer

LEMMA NextAudit == AInv /\ [Next]_vars => AInv'
<1> SUFFICES ASSUME AInv, [Next]_vars PROVE AInv'
  OBVIOUS
<1>1. IInv /\ IInv' /\ TypeOK
  BY NextInv DEF AInv, IInv
<1>2. CASE UNCHANGED vars
  BY <1>1, <1>2 DEF AInv, AuditInv, RecordedBeforeRouted, Recorded, vars, callVars
<1>3. ASSUME NEW t \in Calls,
             Enter(t) \/ Run(t) \/ PredicateRaises(t) \/ Answer(t) \/ Cancel(t)
      PROVE  RecordedBeforeRouted' /\ \A s \in Calls : AuditInv(s)'
  <2>1. /\ CallInv(t) /\ AuditInv(t) /\ RecordedBeforeRouted
        /\ \A s \in Calls : AuditInv(s)
    BY <1>1 DEF AInv, IInv
  <2>2. Recorded \cup lost \subseteq Recorded' \cup lost'
    BY <1>1, <1>3, StepAudits DEF Keeps, Settles, Preempts
  <2>3. RecordedBeforeRouted'
    BY <1>1, <1>3, <2>1, <2>2, StepAudits
    DEF RecordedBeforeRouted, Keeps, Settles, Preempts
  <2>4. \A s \in Calls \ {t} : AuditInv(s)'
    BY <1>1, <1>3, <2>1, <2>2, StepTouchesOne DEF Untouched, AuditInv
  <2>5. AuditInv(t)'
    <3>1. CASE pc[t] = "emit"
      BY <1>1, <1>3, <2>1, <2>2, <3>1, StepAudits DEF AuditInv, Settles, Preempts
    <3>2. CASE pc[t] # "emit"
      <4>1. \A i \in evaluated[t] : <<t, i>> \in Recorded \cup lost
        <5>1. outcome[t] \notin {"error", "cancelled"}
          BY <1>1, <1>3, <2>1 DEF CallInv, Enter, next_action_id, Run, Evaluate, Dispatch, StartPAA, Return,
             PredicateRaises, Answer, EmitPersists, EmitDrops, EmitFails, GetterRaises,
             HandlerReturns, HandlerRaises, ToolReturns, ToolRaises, Cancel
        <5>2. QED
          BY <2>1, <3>2, <5>1 DEF AuditInv
      <4>2. \/ evaluated' = evaluated
            \/ pc'[t] = "emit" /\ evaluated'[t] = evaluated[t] \cup {cur'[t]}
        BY <1>1, <1>3, <3>2 DEF TypeOK, Enter, next_action_id, Run, Evaluate, Goto, Dispatch, StartPAA, Return,
           PredicateRaises, Answer, EmitPersists, EmitDrops, EmitFails, GetterRaises,
           HandlerReturns, HandlerRaises, ToolReturns, ToolRaises, Cancel, Verdicts
      <4>3. QED
        BY <2>2, <4>1, <4>2 DEF AuditInv
    <3>3. QED
      BY <3>1, <3>2
  <2>6. QED
    BY <2>3, <2>4, <2>5
<1>4. QED
  <2>1. CASE \E t \in Calls :
               Enter(t) \/ Run(t) \/ PredicateRaises(t) \/ Answer(t) \/ Cancel(t)
    BY <1>1, <1>3, <2>1 DEF AInv
  <2>2. QED
    BY <1>2, <2>1 DEF Next

LEMMA AuditHolds == Spec => []AInv
<1>1. Init => AInv
  BY InitInv DEF Init, AInv, AuditInv, RecordedBeforeRouted
<1>2. QED
  BY <1>1, NextAudit, PTL DEF Spec

\* Once a call has returned or been refused, no evaluation of it is missing
\* from the trace unless the memory lost it (AuditComplete).
THEOREM AuditTheorem == Spec => []AuditComplete
<1>1. AInv => AuditComplete
  BY DEF AInv, IInv, CallInv, AuditInv, AuditComplete
<1>2. QED
  BY <1>1, AuditHolds, PTL

\* Nothing reaches the escalation handler ahead of its record
\* (RecordedBeforeRouted).
THEOREM RecordedFirstTheorem == Spec => []RecordedBeforeRouted
<1>1. AInv => RecordedBeforeRouted
  BY DEF AInv
<1>2. QED
  BY <1>1, AuditHolds, PTL

-----------------------------------------------------------------------------
(* The events of the trace, and whose they are.                            *)

\* Each event carries the id of the call it is an event of.
IdsInTrace ==
    \A k \in DOMAIN trace :
        /\ trace[k].action_id = action_id[trace[k].call]
        /\ pc[trace[k].call] # "idle"

\* The events of the trace: each is of a call and of a rule.
LEMMA EventTyped ==
    ASSUME TypeOK
    PROVE  /\ DOMAIN trace = 1..Len(trace) /\ Len(trace) \in Nat
           /\ (trace # <<>>) => Len(trace) > 0
           /\ \A k \in DOMAIN trace : trace[k].call \in Calls /\ trace[k].rule \in Pos
<1>1. trace \in Seq(TraceEvent)
  BY DEF TypeOK
<1>2. \A k \in DOMAIN trace : trace[k] \in TraceEvent
  BY <1>1
<1>3. \A e \in TraceEvent : e.call \in Calls /\ e.rule \in Pos
  BY DEF TraceEvent
<1> QED BY <1>1, <1>2, <1>3

\* A call writes its own events only, and has its id before it writes one.
LEMMA StepIds ==
    ASSUME TypeOK, IdsInTrace, NEW t \in Calls,
           Enter(t) \/ Run(t) \/ PredicateRaises(t) \/ Answer(t) \/ Cancel(t)
    PROVE  IdsInTrace'
<1>1. CASE trace' = trace /\ action_id' = action_id /\ \A s \in Calls : pc[s] # "idle" => pc'[s] # "idle"
  BY <1>1, EventTyped DEF IdsInTrace
<1>2. CASE Enter(t)
  <2>1. /\ pc[t] = "idle" /\ trace' = trace
        /\ \A s \in Calls \ {t} : action_id'[s] = action_id[s] /\ pc'[s] = pc[s]
    BY <1>2 DEF TypeOK, Enter, next_action_id, Goto
  <2> QED BY <2>1, EventTyped DEF IdsInTrace
<1>3. CASE /\ Persist(t) /\ action_id' = action_id /\ pc[t] = "emit"
           /\ \A s \in Calls : pc[s] # "idle" => pc'[s] # "idle"
  <2>1. \A k \in DOMAIN trace' :
          \/ k \in DOMAIN trace /\ trace'[k] = trace[k]
          \/ trace'[k] = Record(t)
    BY <1>3 DEF TypeOK, Persist
  <2>2. Record(t).action_id = action_id[t] /\ Record(t).call = t
    BY DEF Record
  <2>3. \A k \in DOMAIN trace : trace[k].call \in Calls
    BY EventTyped
  <2> QED BY <1>3, <2>1, <2>2, <2>3 DEF IdsInTrace
<1>4. Enter(t) \/ \A s \in Calls : pc[s] # "idle" => pc'[s] # "idle"
  BY DEF TypeOK, Run, Evaluate, Dispatch, StartPAA, Return, PredicateRaises, Answer, AfterEmit,
     EmitPersists, EmitDrops, EmitFails, GetterRaises, HandlerReturns, HandlerRaises,
     AfterRoute, ToolReturns, ToolRaises, Cancel, Goto, End
<1>5. Enter(t) \/ (action_id' = action_id /\ (trace' = trace \/ (Persist(t) /\ pc[t] = "emit")))
  BY DEF Run, Evaluate, Dispatch, StartPAA, Return, PredicateRaises, Answer,
     EmitPersists, EmitDrops, EmitFails, GetterRaises, HandlerReturns, HandlerRaises,
     ToolReturns, ToolRaises, Cancel
<1> QED BY <1>1, <1>2, <1>3, <1>4, <1>5

LEMMA NextIds == TypeOK /\ IdsInTrace /\ [Next]_vars => IdsInTrace'
<1> SUFFICES ASSUME TypeOK, IdsInTrace, [Next]_vars  PROVE IdsInTrace'
  OBVIOUS
<1>1. CASE UNCHANGED vars
  BY <1>1 DEF vars, callVars, IdsInTrace
<1> QED BY <1>1, StepIds DEF Next

-----------------------------------------------------------------------------
(* Action ids.                                                             *)

\* No two calls of a toolset have the same.
UniqueActionIds ==
    \A s, t \in Calls : action_id[s] = action_id[t] /\ action_id[s] # 0 => s = t

IdInv ==
    /\ TypeOK
    /\ \A t \in Calls : action_id[t] <= action_seq
    /\ \A t \in Calls : pc[t] # "idle" => action_id[t] # 0
    /\ UniqueActionIds

LEMMA NextIdInv == IdInv /\ [Next]_vars => IdInv'
<1> SUFFICES ASSUME IdInv, [Next]_vars PROVE IdInv'
  OBVIOUS
<1>1. TypeOK /\ TypeOK'
  BY NextType DEF IdInv
<1>2. ASSUME NEW t \in Calls, Enter(t)  PROVE IdInv'
  <2>1. /\ action_id' = [action_id EXCEPT ![t] = action_seq + 1]
        /\ action_seq' = action_seq + 1
        /\ \A s \in Calls \ {t} : pc'[s] = pc[s]
    BY <1>1, <1>2 DEF TypeOK, Enter, next_action_id, Goto
  <2> QED BY <1>1, <2>1 DEF TypeOK, IdInv, UniqueActionIds
<1>3. CASE /\ action_seq' = action_seq /\ action_id' = action_id
           /\ \A s \in Calls : pc'[s] # "idle" => pc[s] # "idle"
  BY <1>1, <1>3 DEF IdInv, UniqueActionIds
<1>4. ASSUME NEW t \in Calls, ~Enter(t),
             Enter(t) \/ Run(t) \/ PredicateRaises(t) \/ Answer(t) \/ Cancel(t)
      PROVE  /\ action_seq' = action_seq /\ action_id' = action_id
             /\ \A s \in Calls : pc'[s] # "idle" => pc[s] # "idle"
  <2>1. action_seq' = action_seq /\ action_id' = action_id
    BY <1>4 DEF Run, Evaluate, Dispatch, StartPAA, Return,
     PredicateRaises, Answer, EmitPersists, EmitDrops, EmitFails, GetterRaises,
     HandlerReturns, HandlerRaises, ToolReturns, ToolRaises, Cancel
  <2>2. pc[t] # "idle"
    BY <1>4 DEF Run, Evaluate, Dispatch, StartPAA, Return,
     PredicateRaises, Answer, EmitPersists, EmitDrops, EmitFails, GetterRaises,
     HandlerReturns, HandlerRaises, ToolReturns, ToolRaises, Cancel
  <2>3. \A s \in Calls \ {t} : pc'[s] = pc[s]
    BY <1>1, <1>4, StepTouchesOne DEF Untouched
  <2> QED BY <2>1, <2>2, <2>3
<1>5. CASE UNCHANGED vars
  BY <1>3, <1>5 DEF vars, callVars
<1> QED BY <1>2, <1>3, <1>4, <1>5 DEF Next

LEMMA IdsHold == Spec => []IdInv
<1>1. Init => IdInv
  BY InitType DEF Init, IdInv, UniqueActionIds
<1> QED BY <1>1, NextIdInv, PTL DEF Spec

-----------------------------------------------------------------------------
(* The events tell what was evaluated, in its order.                       *)

\* The event bears the verdict, and comes before the evaluation in hand and
\* before the later events of its call.
Truthful(k) ==
    LET e == trace[k] IN
    /\ e.rule \in evaluated[e.call]
    /\ e.fired <=> e.rule \in fired[e.call]
    /\ pc[e.call] = "emit" => Before(e.rule, cur[e.call])
    /\ \A l \in DOMAIN trace : k < l /\ trace[l].call = e.call => Before(e.rule, trace[l].rule)

EventsInv == \A k \in DOMAIN trace : Truthful(k)

\* Nothing is written, and no call starts to wait for the memory.
LEMMA SilentStep ==
    ASSUME TypeOK, EventsInv, trace' = trace, evaluated' = evaluated, fired' = fired, cur' = cur,
           \A s \in Calls : pc'[s] = "emit" => pc[s] = "emit"
    PROVE  EventsInv'
BY EventTyped DEF EventsInv, Truthful, Before

LEMMA EvaluateStep ==
    ASSUME IInv, IInv', EventsInv, NEW t \in Calls, Evaluate(t)
    PROVE  EventsInv'
<1>0. PICK i \in Pos : \E f \in {{}, {i}} :
        /\ NextRule(t, i)
        /\ evaluated' = [evaluated EXCEPT ![t] = @ \cup {i}]
        /\ fired' = [fired EXCEPT ![t] = @ \cup f]
        /\ cur' = [cur EXCEPT ![t] = i]
  BY DEF Evaluate
<1>1. PICK f \in {{}, {i}} :
        /\ NextRule(t, i)
        /\ evaluated' = [evaluated EXCEPT ![t] = @ \cup {i}]
        /\ fired' = [fired EXCEPT ![t] = @ \cup f]
        /\ cur' = [cur EXCEPT ![t] = i]
  BY <1>0
<1>2. TypeOK /\ trace' = trace /\ i \notin evaluated[t] /\ CallInv(t)'
  BY <1>1 DEF IInv, Evaluate, NextRule
<1>3. /\ cur'[t] = i /\ evaluated'[t] = evaluated[t] \cup {i} /\ fired'[t] = fired[t] \cup f
      /\ \A s \in Calls \ {t} : /\ pc'[s] = pc[s] /\ cur'[s] = cur[s]
                               /\ evaluated'[s] = evaluated[s] /\ fired'[s] = fired[s]
  BY <1>1, <1>2 DEF TypeOK, Evaluate, Goto
<1>4. \A j \in evaluated[t] : Before(j, i) /\ (j \in fired'[t] <=> j \in fired[t])
  <2>1. \A j \in evaluated'[t] : j = cur'[t] \/ Before(j, cur'[t])
    BY <1>2 DEF CallInv, Before
  <2>2. \A j \in evaluated[t] : j # i /\ (j \in f => j = i)
    BY <1>1, <1>2
  <2> QED BY <1>3, <2>1, <2>2 DEF Before
<1>5. ASSUME NEW k \in DOMAIN trace  PROVE Truthful(k)'
  <2>1. Truthful(k) /\ trace[k].call \in Calls
    BY <1>2, EventTyped DEF EventsInv
  <2>2. \A l \in DOMAIN trace : k < l /\ trace[l].call = trace[k].call => Before(trace[k].rule, trace[l].rule)
    BY <2>1 DEF Truthful
  <2>3. CASE trace[k].call = t
    BY <1>2, <1>3, <1>4, <2>1, <2>2, <2>3 DEF Truthful, Before
  <2>4. CASE trace[k].call # t
    BY <1>2, <1>3, <2>1, <2>2, <2>4 DEF Truthful, Before
  <2> QED BY <2>3, <2>4
<1> QED BY <1>2, <1>5 DEF EventsInv

LEMMA PersistStep ==
    ASSUME IInv, EventsInv, NEW t \in Calls, pc[t] = "emit", Persist(t), pc'[t] # "emit",
           evaluated' = evaluated, fired' = fired, cur' = cur,
           \A s \in Calls \ {t} : pc'[s] = pc[s]
    PROVE  EventsInv'
<1>0. PICK n : n = Len(trace)
  OBVIOUS
<1>1. TypeOK /\ cur[t] \in evaluated[t]
  BY DEF IInv, CallInv
<1>2. /\ n \in Nat /\ DOMAIN trace = 1 .. n /\ DOMAIN trace' = 1 .. n + 1
      /\ trace'[n + 1] = Record(t) /\ \A k \in 1 .. n : trace'[k] = trace[k] /\ trace[k].call \in Calls
  BY <1>0, <1>1, EventTyped DEF TypeOK, Persist
<1>3. /\ Record(t).call = t /\ Record(t).rule = cur[t]
      /\ Record(t).fired = (cur[t] \in fired[t])
  BY DEF Record
<1>4. ASSUME NEW k \in 1 .. n  PROVE Truthful(k)'
  <2>1. Truthful(k) /\ trace'[k] = trace[k]
    BY <1>2 DEF EventsInv
  <2>2. \A l \in 1 .. n + 1 : k < l /\ trace'[l].call = trace[k].call => Before(trace[k].rule, trace'[l].rule)
    <3>1. ASSUME NEW l \in 1 .. n, k < l, trace'[l].call = trace[k].call
          PROVE  Before(trace[k].rule, trace'[l].rule)
      BY <1>2, <2>1, <3>1 DEF Truthful
    <3>2. t = trace[k].call => Before(trace[k].rule, cur[t])
      BY <2>1 DEF Truthful
    <3> QED BY <1>2, <1>3, <3>1, <3>2
  <2>3. /\ trace[k].rule \in evaluated[trace[k].call]
        /\ trace[k].fired <=> trace[k].rule \in fired[trace[k].call]
        /\ pc'[trace[k].call] = "emit" => Before(trace[k].rule, cur[trace[k].call])
    <3>1. trace[k].call \in Calls
      BY <1>2
    <3> QED BY <2>1, <3>1 DEF Truthful
  <2>4. \A l \in DOMAIN trace' : k < l /\ trace'[l].call = trace[k].call => Before(trace[k].rule, trace'[l].rule)
    BY <1>2, <2>2
  <2> QED BY <2>1, <2>3, <2>4, SMTT(30) DEF Truthful, Before
<1>5. Truthful(n + 1)'
  <2>1. \A l \in DOMAIN trace' : ~(n + 1 < l)
    BY <1>2
  <2>2. trace'[n + 1].rule = cur[t] /\ trace'[n + 1].call = t
    BY <1>2, <1>3
  <2>3. trace'[n + 1].fired <=> cur[t] \in fired'[t]
    BY <1>2, <1>3, Zenon
  <2>4. /\ trace'[n + 1].rule \in evaluated'[t]
        /\ pc'[t] = "emit" => Before(trace'[n + 1].rule, cur'[t])
        /\ \A l \in DOMAIN trace' : n + 1 < l /\ trace'[l].call = t => Before(trace'[n + 1].rule, trace'[l].rule)
    BY <1>1, <2>1, <2>2
  <2> QED BY <2>2, <2>3, <2>4, Zenon DEF Truthful
<1> QED BY <1>2, <1>4, <1>5 DEF EventsInv

LEMMA StepTells ==
    ASSUME IInv, IInv', EventsInv, NEW t \in Calls,
           Enter(t) \/ Run(t) \/ PredicateRaises(t) \/ Answer(t) \/ Cancel(t)
    PROVE  EventsInv'
<1>1. TypeOK
  BY DEF IInv
<1>2. CASE Evaluate(t)
  BY <1>2, EvaluateStep
<1>3. CASE ~Evaluate(t)
  <2>1. evaluated' = evaluated /\ fired' = fired /\ cur' = cur
    BY <1>3 DEF Enter, Run, Dispatch, StartPAA, Return, PredicateRaises, Answer,
       EmitPersists, EmitDrops, EmitFails, GetterRaises, HandlerReturns, HandlerRaises,
       ToolReturns, ToolRaises, Cancel, Verdicts
  <2>2. \A s \in Calls \ {t} : pc'[s] = pc[s]
    BY <1>1, StepTouchesOne DEF Untouched
  <2>3. pc'[t] # "emit" \/ (trace' = trace /\ pc' = pc)
    BY <1>1, <1>3 DEF TypeOK, Enter, Run, Dispatch, StartPAA, Return, PredicateRaises, Answer,
       AfterEmit, AfterRoute, Goto, End, EmitPersists, EmitDrops, EmitFails, GetterRaises,
       HandlerReturns, HandlerRaises, ToolReturns, ToolRaises, Cancel, Verdicts
  <2>4. trace' = trace \/ (pc[t] = "emit" /\ Persist(t))
    BY <1>3 DEF Enter, Run, Dispatch, StartPAA, Return, PredicateRaises, Answer,
       EmitPersists, EmitDrops, EmitFails, GetterRaises, HandlerReturns, HandlerRaises,
       ToolReturns, ToolRaises, Cancel
  <2>5. CASE trace' = trace
    BY <1>1, <2>1, <2>2, <2>3, <2>5, SilentStep
  <2>6. CASE trace' # trace
    BY <2>1, <2>2, <2>3, <2>4, <2>6, PersistStep
  <2> QED BY <2>5, <2>6
<1> QED BY <1>2, <1>3

\* The trace tells the truth, however the calls interleave (OrderedTrace).
THEOREM TraceTheorem == Spec => []OrderedTrace
<1>1. Init => EventsInv /\ IdsInTrace
  BY DEF Init, EventsInv, IdsInTrace
<1>2. IInv /\ IInv' /\ EventsInv /\ [Next]_vars => EventsInv'
  <2> SUFFICES ASSUME IInv, IInv', EventsInv, [Next]_vars  PROVE EventsInv'
    OBVIOUS
  <2>1. CASE UNCHANGED vars
    BY <2>1, SilentStep DEF IInv, vars, callVars
  <2> QED BY <2>1, StepTells DEF Next
<1>3. IInv /\ IdsInTrace /\ [Next]_vars => IdsInTrace'
  BY NextIds DEF IInv
<1>4. IInv /\ IdInv /\ EventsInv /\ IdsInTrace => OrderedTrace
  <2> SUFFICES ASSUME IInv, IdInv, EventsInv, IdsInTrace, NEW k \in DOMAIN trace
               PROVE  /\ trace[k].fired <=> trace[k].rule \in fired[trace[k].call]
                      /\ trace[k].rule \in evaluated[trace[k].call]
                      /\ \A t \in Calls : action_id[t] = trace[k].action_id <=> t = trace[k].call
                      /\ \A l \in DOMAIN trace : k < l /\ trace[l].call = trace[k].call =>
                            Before(trace[k].rule, trace[l].rule)
    BY DEF OrderedTrace
  <2>1. Truthful(k) /\ trace[k].call \in Calls
    BY EventTyped DEF EventsInv, IInv
  <2>2. trace[k].action_id = action_id[trace[k].call] /\ action_id[trace[k].call] # 0
    BY <2>1 DEF IdsInTrace, IdInv
  <2>3. \A t \in Calls : action_id[t] = trace[k].action_id <=> t = trace[k].call
    BY <2>1, <2>2 DEF IdInv, UniqueActionIds
  <2> QED BY <2>1, <2>3 DEF Truthful
<1> QED BY <1>1, <1>2, <1>3, <1>4, InvariantHolds, IdsHold, PTL DEF Spec

-----------------------------------------------------------------------------
(* The refinement of GovernedCall.                                         *)

\* A step of one call moves the abstract state of that call only.
LEMMA StepMaps ==
    ASSUME TypeOK, NEW t \in Calls,
           Enter(t) \/ Run(t) \/ PredicateRaises(t) \/ Answer(t) \/ Cancel(t)
    PROVE  /\ Stage' = [Stage EXCEPT ![t] = StageOf(t)']
           /\ \A s \in Calls \ {t} : s \in Denied' <=> s \in Denied
           /\ \A s \in Calls \ {t} : s \in Alerted' <=> s \in Alerted
<1>1. \A s \in Calls \ {t} : Untouched(s)
  BY StepTouchesOne
<1>2. \A s \in Calls \ {t} : StageOf(s)' = StageOf(s)
  BY <1>1 DEF Untouched, StageOf
<1>3. Stage' = [Stage EXCEPT ![t] = StageOf(t)']
  BY <1>2 DEF Stage
<1>4. \A s \in Calls \ {t} : s \in Denied' <=> s \in Denied
  BY <1>1 DEF Untouched, Denied, MustDenyBefore, MustDenyAfter
<1>5. \A s \in Calls \ {t}, i \in Pos : <<s, i>> \in routed' <=> <<s, i>> \in routed
  BY DEF Enter, next_action_id, Run, Evaluate, Dispatch, StartPAA, Return, PredicateRaises, Answer,
     EmitPersists, EmitDrops, EmitFails, AfterEmit, GetterRaises, HandlerReturns,
     HandlerRaises, ToolReturns, ToolRaises, Cancel
<1>6. QED
  BY <1>3, <1>4, <1>5 DEF Alerted

\* A call is denied in the abstract exactly when a stopping rule has fired.
LEMMA DeniedIsStopped == TypeOK => \A t \in Calls : t \in Denied <=> Stopped(t)
BY StopsIsDeny DEF Denied, Stopped, TypeOK

LEMMA NextRefines == IInv /\ [Next]_vars => [Gate!Next]_(Gate!vars)
<1> SUFFICES ASSUME IInv, [Next]_vars PROVE [Gate!Next]_(Gate!vars)
  OBVIOUS
<1>0. TypeOK /\ TypeOK' /\ IInv'
  BY NextInv DEF IInv
<1>1. CASE UNCHANGED vars
  BY <1>1 DEF vars, callVars, Gate!vars, Stage, StageOf, Denied, Alerted
<1>2. ASSUME NEW t \in Calls,
             Enter(t) \/ Run(t) \/ PredicateRaises(t) \/ Answer(t) \/ Cancel(t)
      PROVE  Gate!Next \/ UNCHANGED Gate!vars
  <2>1. /\ CallInv(t)
        /\ Stage' = [Stage EXCEPT ![t] = StageOf(t)']
        /\ Stage[t] = StageOf(t)
        /\ Stage = [s \in Calls |-> Stage[s]]
    <3>1. CallInv(t)
      BY DEF IInv
    <3>2. Stage' = [Stage EXCEPT ![t] = StageOf(t)']
      BY <1>0, <1>2, StepMaps
    <3>3. Stage[t] = StageOf(t) /\ Stage = [s \in Calls |-> Stage[s]]
      BY DEF Stage
    <3>4. QED
      BY <3>1, <3>2, <3>3
  <2>2. fired' = fired => Denied' = Denied
    BY DEF Denied, MustDenyBefore, MustDenyAfter
  <2>3. routed' = routed => Alerted' = Alerted
    BY DEF Alerted
  <2>4. (t \in Denied <=> Stopped(t)) /\ (Stopped(t) => pc[t] \in {"emit", "route", "done"})
    BY <1>0, <2>1, DeniedIsStopped DEF CallInv
  <2>5. CASE Enter(t)
    <3>1. StageOf(t) = "idle" /\ StageOf(t)' = "checking"
      BY <1>0, <2>1, <2>5 DEF TypeOK, CallInv, Enter, next_action_id, Goto, StageOf, Verdicts
    <3>2. Gate!Begin(t)
      BY <2>1, <2>2, <2>3, <2>5, <3>1 DEF Gate!Begin, Gate!Move, Enter, next_action_id, Verdicts
    <3>3. QED
      BY <3>2 DEF Gate!Next
  <2>6. CASE Evaluate(t)
    <3>1. StageOf(t) \in {"checking", "reviewing"} /\ Stage' = Stage
      BY <1>0, <2>1, <2>6 DEF TypeOK, Evaluate, Goto, StageOf, Stage
    <3>2. Alerted' = Alerted /\ dispatched' = dispatched
      BY <2>3, <2>6 DEF Evaluate
    <3>3. Denied' = Denied \/ Denied' = Denied \cup {t}
      <4>1. t \in Denied => t \in Denied'
        BY <1>0, <2>6 DEF TypeOK, Evaluate, Denied, MustDenyBefore, MustDenyAfter
      <4>2. QED
        BY <1>0, <1>2, <4>1, StepMaps DEF Denied
    <3>4. CASE Denied' = Denied
      BY <3>1, <3>2, <3>4 DEF Gate!vars
    <3>5. CASE Denied' = Denied \cup {t}
      BY <2>1, <3>1, <3>2, <3>5 DEF Gate!Next, Gate!Deny
    <3>6. QED
      BY <3>3, <3>4, <3>5
  <2>7. CASE PredicateRaises(t) \/ GetterRaises(t) \/ ToolRaises(t) \/ Cancel(t)
    <3>1. StageOf(t) \in {"checking", "executing", "reviewing"} /\ StageOf(t)' = "aborted"
      BY <1>0, <2>7 DEF TypeOK, PredicateRaises, GetterRaises, ToolRaises, Cancel, End,
         StageOf, ClosedStage
    <3>2. Gate!Abort(t)
      BY <2>1, <2>2, <2>3, <2>7, <3>1
      DEF Gate!Abort, Gate!Open, PredicateRaises, GetterRaises, ToolRaises, Cancel, Verdicts
    <3>3. QED
      BY <3>2 DEF Gate!Next
  <2>8. CASE EmitPersists(t) \/ EmitDrops(t) \/ EmitFails(t)
    <3>1. StageOf(t) \in {"checking", "reviewing"} /\ Stage' = Stage
      BY <1>0, <2>1, <2>8 DEF TypeOK, EmitPersists, EmitDrops, EmitFails, AfterEmit, Goto,
         Verdicts, StageOf, Stage
    <3>2. Denied' = Denied /\ dispatched' = dispatched
      BY <2>2, <2>8 DEF EmitPersists, EmitDrops, EmitFails, Verdicts
    <3>3. Alerted' = Alerted \/ Alerted' = Alerted \cup {t}
      <4>1. t \in Alerted => t \in Alerted'
        BY <2>8 DEF Alerted, EmitPersists, EmitDrops, EmitFails, AfterEmit
      <4>2. QED
        BY <1>0, <1>2, <4>1, StepMaps DEF Alerted
    <3>4. CASE Alerted' = Alerted
      BY <3>1, <3>2, <3>4 DEF Gate!vars
    <3>5. CASE Alerted' = Alerted \cup {t}
      BY <2>1, <3>1, <3>2, <3>5 DEF Gate!Next, Gate!Alert
    <3>6. QED
      BY <3>3, <3>4, <3>5
  <2>9. CASE HandlerReturns(t) \/ HandlerRaises(t)
    <3>1. /\ StageOf(t) \in {"checking", "reviewing"}
          /\ Denied' = Denied /\ Alerted' = Alerted /\ dispatched' = dispatched
      BY <1>0, <2>1, <2>2, <2>3, <2>9
      DEF TypeOK, HandlerReturns, HandlerRaises, Verdicts, StageOf
    <3>2. t \in Alerted
      BY <1>0, <2>1, <2>9 DEF TypeOK, CallInv, HandlerReturns, HandlerRaises, Alerted
    <3>3. CASE Stops(cur[t])
      <4>1. StageOf(t)' = "refused"
        BY <1>0, <2>9, <3>3 DEF TypeOK, HandlerReturns, HandlerRaises, AfterRoute, End,
           StageOf, ClosedStage
      <4>2. t \in Denied
        BY <2>1, <2>4, <2>9, <3>3 DEF CallInv, HandlerReturns, HandlerRaises, Stopped
      <4>3. Gate!Refuse(t)
        BY <2>1, <3>1, <3>2, <4>1, <4>2 DEF Gate!Refuse
      <4>4. QED
        BY <4>3 DEF Gate!Next
    <3>4. CASE ~Stops(cur[t])
      <4>1. StageOf(t)' = StageOf(t)
        BY <1>0, <2>9, <3>4 DEF TypeOK, HandlerReturns, HandlerRaises, AfterRoute, Goto,
           Verdicts, StageOf
      <4>2. QED
        BY <2>1, <3>1, <4>1 DEF Gate!vars
    <3>5. QED
      BY <3>3, <3>4
  <2>10. CASE Dispatch(t)
    <3>1. StageOf(t) = "checking" /\ StageOf(t)' = "executing"
      BY <1>0, <2>10 DEF TypeOK, Dispatch, Goto, StageOf
    <3>2. Gate!Execute(t)
      BY <2>1, <2>2, <2>3, <2>4, <2>10, <3>1 DEF Gate!Execute, Gate!Move, Dispatch
    <3>3. QED
      BY <3>2 DEF Gate!Next
  <2>11. CASE ToolReturns(t)
    <3>1. StageOf(t) = "executing" /\ StageOf(t)' = "reviewing"
      BY <1>0, <2>1, <2>11 DEF TypeOK, CallInv, ToolReturns, Goto, StageOf, Verdicts
    <3>2. Gate!Answer(t)
      BY <2>1, <2>2, <2>3, <2>11, <3>1 DEF Gate!Answer, Gate!Move, ToolReturns, Verdicts
    <3>3. QED
      BY <3>2 DEF Gate!Next
  <2>12. CASE StartPAA(t)
    <3>1. Stage' = Stage
      BY <1>0, <2>1, <2>12 DEF TypeOK, StartPAA, StageOf, Stage
    <3>2. QED
      BY <2>2, <2>3, <2>12, <3>1 DEF StartPAA, Gate!vars
  <2>13. CASE Return(t)
    <3>1. StageOf(t) = "reviewing" /\ StageOf(t)' = "returned"
      BY <1>0, <2>13 DEF TypeOK, Return, End, StageOf, ClosedStage
    <3>2. Gate!Release(t)
      BY <2>1, <2>2, <2>3, <2>4, <2>13, <3>1 DEF Gate!Release, Gate!Move, Return, Verdicts
    <3>3. QED
      BY <3>2 DEF Gate!Next
  <2>14. QED
    BY <1>2, <2>5, <2>6, <2>7, <2>8, <2>9, <2>10, <2>11, <2>12, <2>13 DEF Run, Answer
<1>3. QED
  BY <1>1, <1>2 DEF Next

\* call_tool implements the promise of GovernedCall (ImplementsGate): the tool
\* runs and a result is released only for a call that no constraint denied.
THEOREM RefinementTheorem == Spec => ImplementsGate
<1>1. Init => Gate!Init
  BY DEF Init, Gate!Init, Stage, StageOf, Denied, Alerted
<1>2. QED
  BY <1>1, NextRefines, InvariantHolds, PTL DEF Spec, ImplementsGate, Gate!Spec

-----------------------------------------------------------------------------
(* The session.  AInv and EventsInv say nothing of the counter, so a fresh *)
(* toolset keeps them.                                                     *)

SInv == AInv /\ IdsInTrace

LEMMA FreshKeeps == SInv /\ FreshToolset => SInv'
<1> SUFFICES ASSUME SInv, FreshToolset  PROVE SInv'
  OBVIOUS
<1>1. UNCHANGED <<callVars, trace, lost, routed, dispatched>> /\ action_seq' = 0
  BY DEF FreshToolset
<1>2. TypeOK'
  BY <1>1 DEF SInv, AInv, IInv, TypeOK, callVars
<1>3. \A t \in Calls : CallInv(t)'
  BY <1>1 DEF SInv, AInv, IInv, CallInv, callVars, Stopped
<1>4. Recorded' = Recorded
  BY <1>1 DEF Recorded
<1>5. (\A t \in Calls : AuditInv(t)') /\ RecordedBeforeRouted' /\ IdsInTrace'
  BY <1>1, <1>4 DEF SInv, AInv, AuditInv, RecordedBeforeRouted, IdsInTrace, callVars
<1> QED BY <1>2, <1>3, <1>5 DEF SInv, AInv, IInv

LEMMA SessionInvariant == SSpec => []SInv
<1>1. SInit => SInv
  BY InitInv DEF SInit, Init, SInv, AInv, AuditInv, RecordedBeforeRouted, IdsInTrace
<1>2. SInv /\ [SNext]_<<vars, toolsets>> => SInv'
  <2> SUFFICES ASSUME SInv, [SNext]_<<vars, toolsets>>  PROVE SInv'
    OBVIOUS
  <2>1. CASE FreshToolset
    BY <2>1, FreshKeeps
  <2>2. CASE [Next]_vars
    BY <2>2, NextAudit, NextIds DEF SInv, AInv, IInv
  <2> QED BY <2>1, <2>2 DEF SNext
<1> QED BY <1>1, <1>2, PTL DEF SSpec

-----------------------------------------------------------------------------
(* The audit against the spec in force.                                    *)

LEMMA RuleOfId ==
    \A i \in Pos : Rules[i].id \in Declared(Rules) /\ Matched(Rules, Rules[i].id) = Rules[i]
<1>1. \A i, j \in Pos : Rules[i].id = Rules[j].id => i = j
  BY RulesAssumption DEF IsConstraintSpec, Pos
<1>2. ASSUME NEW i \in Pos  PROVE i = CHOOSE j \in DOMAIN Rules : Rules[j].id = Rules[i].id
  BY <1>1 DEF Pos
<1> QED BY <1>2 DEF Declared, Matched, Pos

\* What the audit reads of the events, in the flat schema.
LEMMA ReadsEvents ==
    ASSUME TypeOK
    PROVE  /\ DOMAIN FlatTrace = DOMAIN trace
           /\ \A k \in DOMAIN trace : FlatTrace[k] = to_dict(trace[k])
           /\ \A spec : Report(spec) = audit_flat(spec, FlatTrace)
<1>1. DOMAIN FlatTrace = DOMAIN trace /\ \A k \in DOMAIN trace : FlatTrace[k] = to_dict(trace[k])
  BY DEF FlatTrace
<1>2. CASE trace = <<>>
  <2>1. DOMAIN trace = {}
    BY <1>2
  <2>2. FlatTrace = <<>>
    <3>1. FlatTrace = [k \in {} |-> to_dict(trace[k])]
      BY <2>1, Zenon DEF FlatTrace
    <3> QED BY <3>1
  <2>3. \A spec : audit_flat(spec, FlatTrace) = {}
    BY <1>1, <2>1 DEF audit_flat
  <2> QED BY <1>1, <2>2, <2>3 DEF Report, audit_trace
<1>3. CASE trace # <<>>
  <2>1. 1 \in DOMAIN trace
    BY <1>3, EventTyped
  <2>2. FlatTrace # <<>> /\ is_flat_trace(FlatTrace)
    BY <1>1, <2>1 DEF is_flat_trace, to_dict
  <2> QED BY <1>1, <2>2 DEF Report, audit_trace
<1> QED BY <1>2, <1>3

\* The ids that the events of an action mention.
Mentioned(a) == {Rules[trace[k].rule].id : k \in {k \in DOMAIN trace : trace[k].action_id = a}}

FlawsOf(spec, e) ==
    Flaws(spec, e.action_id, Rules[e.rule].id, Rules[e.rule].verif, e.fired, Rules[e.rule].response)

\* What is in the report: what an action lacks, and what is wrong with an event.
LEMMA InReport ==
    ASSUME TypeOK
    PROVE  \A spec : \A d : d \in Report(spec) <=>
             \E k \in DOMAIN trace : \/ d \in Missing(spec, trace[k].action_id, Mentioned(trace[k].action_id))
                                     \/ d \in FlawsOf(spec, trace[k])
<1> SUFFICES ASSUME NEW spec, NEW d
    PROVE  d \in Report(spec) <=>
             \E k \in DOMAIN trace : \/ d \in Missing(spec, trace[k].action_id, Mentioned(trace[k].action_id))
                                     \/ d \in FlawsOf(spec, trace[k])
  OBVIOUS
<1>1. /\ DOMAIN FlatTrace = DOMAIN trace
      /\ \A k \in DOMAIN trace : /\ FlatTrace[k].action_id = trace[k].action_id
                                 /\ FlatTrace[k].constraint_id = Rules[trace[k].rule].id
                                 /\ FlatTrace[k].point = Rules[trace[k].rule].verif
                                 /\ FlatTrace[k].fired = trace[k].fired
                                 /\ FlatTrace[k].response = Rules[trace[k].rule].response
  BY ReadsEvents DEF to_dict
<1>2. ASSUME NEW a
      PROVE  {FlatTrace[k].constraint_id : k \in {k \in DOMAIN FlatTrace : FlatTrace[k].action_id = a}}
             = Mentioned(a)
  BY <1>1 DEF Mentioned
<1> DEFINE Ids(a) == {FlatTrace[k].constraint_id : k \in {k \in DOMAIN FlatTrace : FlatTrace[k].action_id = a}}
           Lacks(a) == Missing(spec, a, Ids(a))
           Wrong(k) == Flaws(spec, FlatTrace[k].action_id, FlatTrace[k].constraint_id, FlatTrace[k].point,
                             FlatTrace[k].fired, FlatTrace[k].response)
           AllLacks == UNION {Lacks(a) : a \in {FlatTrace[k].action_id : k \in DOMAIN FlatTrace}}
           AllWrong == UNION {Wrong(k) : k \in DOMAIN FlatTrace}
<1>3. Report(spec) = AllLacks \cup AllWrong
  BY ReadsEvents DEF audit_flat
<1>4. \A a : Lacks(a) = Missing(spec, a, Mentioned(a))
  BY <1>2
<1>5. \A k \in DOMAIN trace : Wrong(k) = FlawsOf(spec, trace[k])
  BY <1>1 DEF FlawsOf
<1> HIDE DEF Lacks, Wrong, Ids
<1>6. d \in AllLacks <=> \E k \in DOMAIN trace : d \in Missing(spec, trace[k].action_id, Mentioned(trace[k].action_id))
  <2>1. d \in AllLacks <=> \E k \in DOMAIN FlatTrace : d \in Lacks(FlatTrace[k].action_id)
    OBVIOUS
  <2> QED BY <1>1, <1>4, <2>1
<1>7. d \in AllWrong <=> \E k \in DOMAIN trace : d \in FlawsOf(spec, trace[k])
  <2>1. d \in AllWrong <=> \E k \in DOMAIN FlatTrace : d \in Wrong(k)
    OBVIOUS
  <2> QED BY <1>1, <1>5, <2>1
<1> HIDE DEF AllLacks, AllWrong
<1>8. d \in Report(spec) <=> d \in AllLacks \/ d \in AllWrong
  BY <1>3
<1> QED BY <1>6, <1>7, <1>8

\* An event of the toolset has neither a wrong place nor a wrong response.
LEMMA EventsHaveNoFlaw ==
    ASSUME TypeOK, NEW k \in DOMAIN trace
    PROVE  FlawsOf(Rules, trace[k]) = {}
<1> DEFINE i == trace[k].rule
<1>1. i \in Pos
  BY EventTyped
<1>2. Rules[i].id \in Declared(Rules) /\ Matched(Rules, Rules[i].id) = Rules[i]
  BY <1>1, RuleOfId
<1>3. PICK S : Rules \in Seq(Constraint(S))
  BY RulesAssumption DEF IsConstraintSpec
<1>4. is_compatible(Rules[i].klass, Rules[i].verif)
  BY <1>1, <1>3 DEF Pos, Constraint
<1> HIDE DEF i
<1> QED BY <1>2, <1>4 DEF Flaws, FlawsOf, i

\* What a discrepancy of the report is: a constraint no event of the id has.
LEMMA ReportIsMissing ==
    ASSUME TypeOK, NEW d \in Report(Rules)
    PROVE  /\ d.type = "coverage"
           /\ d.constraint \in Declared(Rules)
           /\ \A k \in DOMAIN trace : trace[k].action_id = d.action_id =>
                  Rules[trace[k].rule].id # d.constraint
<1>1. \A k \in DOMAIN trace : FlawsOf(Rules, trace[k]) = {}
  BY EventsHaveNoFlaw
<1>2. PICK k \in DOMAIN trace : d \in Missing(Rules, trace[k].action_id, Mentioned(trace[k].action_id))
  BY <1>1, InReport
<1> QED BY <1>2 DEF Missing, Mentioned, disc

\* No false alarm, whatever the calls, faults and toolsets (AlarmHasCause).
THEOREM AlarmTheorem == SSpec => []AlarmHasCause
<1>1. SInv => \A d \in Report(Rules) : d.type = "coverage"
  BY ReportIsMissing DEF SInv, AInv, IInv
<1>2. ASSUME SInv, NEW d \in Report(Rules), NEW t \in Seen, action_id[t] = d.action_id
      PROVE  \E i \in Pos : /\ Rules[i].id = d.constraint
                            /\ <<t, i>> \notin Recorded
                            /\ outcome[t] # "returned" \/ <<t, i>> \in lost
  <2>1. /\ d.constraint \in Declared(Rules)
        /\ \A k \in DOMAIN trace : trace[k].action_id = d.action_id =>
               Rules[trace[k].rule].id # d.constraint
    BY <1>2, ReportIsMissing DEF SInv, AInv, IInv
  <2>2. PICK i \in Pos : Rules[i].id = d.constraint
    BY <2>1 DEF Declared, Pos
  <2>3. <<t, i>> \notin Recorded
    BY <1>2, <2>1, <2>2 DEF SInv, IdsInTrace, Recorded
  <2>4. outcome[t] = "returned" => <<t, i>> \in lost
    <3>1. t \in Calls
      BY DEF Seen
    <3>2. ASSUME outcome[t] = "returned"  PROVE i \in evaluated[t]
      <4>1. phase[t] = "PAA" /\ At("PAA") \subseteq evaluated[t]
        BY <1>2, <3>1, <3>2 DEF SInv, AInv, IInv, CallInv
      <4>2. At("PAG") \subseteq evaluated[t] /\ At("ATM") \subseteq evaluated[t]
        BY <1>2, <3>1, <4>1 DEF SInv, AInv, IInv, CallInv
      <4> QED BY <4>1, <4>2, RulesAreInline DEF At, at, Pos
    <3>3. ASSUME outcome[t] = "returned"  PROVE <<t, i>> \in Recorded \cup lost
      BY <1>2, <3>1, <3>2, <3>3 DEF SInv, AInv, IInv, CallInv, AuditInv
    <3> QED BY <2>3, <3>3
  <2> QED BY <2>2, <2>3, <2>4
<1>3. SInv => AlarmHasCause
  BY <1>1, <1>2 DEF AlarmHasCause
<1> QED BY <1>3, SessionInvariant, PTL

-----------------------------------------------------------------------------
(* The audit of a session of one toolset, against any revision.            *)

\* While there is one toolset the calls have ids of their own.
SessionIds == toolsets \in Nat \ {0} /\ (toolsets = 1 => IdInv)

LEMMA SessionIdsHold == SSpec => []SessionIds
<1>1. SInit => SessionIds
  BY InitType DEF SInit, Init, SessionIds, IdInv, UniqueActionIds
<1>2. SessionIds /\ [SNext]_<<vars, toolsets>> => SessionIds'
  <2> SUFFICES ASSUME SessionIds, [SNext]_<<vars, toolsets>>  PROVE SessionIds'
    OBVIOUS
  <2>1. CASE FreshToolset
    BY <2>1 DEF FreshToolset, SessionIds
  <2>2. CASE [Next]_vars /\ UNCHANGED toolsets
    BY <2>2, NextIdInv DEF SessionIds
  <2> QED BY <2>1, <2>2 DEF SNext
<1> QED BY <1>1, <1>2, PTL DEF SSpec

\* A spec has one entry of an id it declares.
LEMMA EntryOfId ==
    ASSUME NEW spec, IsConstraintSpec(spec), NEW i \in DOMAIN spec
    PROVE  /\ spec[i].id \in Declared(spec)
           /\ Matched(spec, spec[i].id) = spec[i]
           /\ spec[i].klass \in ConstraintClass
<1>1. \A j, k \in DOMAIN spec : spec[j].id = spec[k].id => j = k
  BY DEF IsConstraintSpec
<1>2. i = CHOOSE j \in DOMAIN spec : spec[j].id = spec[i].id
  BY <1>1
<1>3. spec[i].id \in Declared(spec) /\ Matched(spec, spec[i].id) = spec[i]
  BY <1>2 DEF Declared, Matched
<1>4. PICK S : spec \in Seq(Constraint(S))
  BY DEF IsConstraintSpec
<1>5. spec[i] \in Constraint(S)
  BY <1>4
<1> QED BY <1>3, <1>5 DEF Constraint

\* The evaluation is one that the spec asks for.
Fits(spec, e) ==
    \E i \in DOMAIN spec :
        /\ Rules[e.rule].id = spec[i].id
        /\ Rules[e.rule].verif \in ClassPoints[spec[i].klass]
        /\ e.fired => Rules[e.rule].response = spec[i].response

\* The audit finds a flaw in an evaluation exactly if the spec did not ask for it.
LEMMA FlawlessIfFits ==
    ASSUME NEW spec, IsConstraintSpec(spec), NEW e, Rules[e.rule].verif \in EnforcementPoint
    PROVE  /\ \A d \in FlawsOf(spec, e) : d.action_id = e.action_id
           /\ FlawsOf(spec, e) = {} <=> Fits(spec, e)
<1> DEFINE r == Rules[e.rule]
           Of(type) == disc(e.action_id, r.id, type)
           Undeclared == r.id \notin Declared(spec)
           Misplaced == r.id \in Declared(spec) /\ ~is_compatible(Matched(spec, r.id).klass, r.verif)
           Mishandled == r.id \in Declared(spec) /\ e.fired /\ r.response # Matched(spec, r.id).response
<1>1. FlawsOf(spec, e) = {Of(type) : type \in {type \in {"coverage", "placement", "response"} :
          \/ type = "coverage" /\ Undeclared
          \/ type = "placement" /\ Misplaced
          \/ type = "response" /\ Mishandled}}
  BY DEF FlawsOf, Flaws
<1>2. \A type : Of(type).action_id = e.action_id
  BY DEF disc
<1>3. FlawsOf(spec, e) = {} <=> ~Undeclared /\ ~Misplaced /\ ~Mishandled
  <2> HIDE DEF Of, Undeclared, Misplaced, Mishandled
  <2> QED BY <1>1
<1>4. ASSUME Fits(spec, e)  PROVE ~Undeclared /\ ~Misplaced /\ ~Mishandled
  <2>1. PICK i \in DOMAIN spec :
          /\ r.id = spec[i].id
          /\ r.verif \in ClassPoints[spec[i].klass]
          /\ e.fired => r.response = spec[i].response
    BY <1>4 DEF Fits
  <2> QED BY <2>1, EntryOfId DEF is_compatible, allowed_points
<1>5. ASSUME ~Undeclared, ~Misplaced, ~Mishandled  PROVE Fits(spec, e)
  <2>1. PICK i \in DOMAIN spec : spec[i].id = r.id
    BY <1>5 DEF Declared
  <2> QED BY <1>5, <2>1, EntryOfId DEF is_compatible, allowed_points, Fits
<1>6. \A d \in FlawsOf(spec, e) : \E type : d = Of(type)
  <2> HIDE DEF Of, Undeclared, Misplaced, Mishandled
  <2> QED BY <1>1
<1> HIDE DEF Of, Undeclared, Misplaced, Mishandled
<1> QED BY <1>2, <1>3, <1>4, <1>5, <1>6

\* What the events of a call and those of its id have to do with each other.
LEMMA OwnEvents ==
    ASSUME TypeOK, IdsInTrace, IdInv, NEW t \in Seen
    PROVE  /\ \A k \in DOMAIN trace : trace[k].action_id = action_id[t] <=> trace[k] \in EventsOf(t)
           /\ \E k \in DOMAIN trace : trace[k].action_id = action_id[t]
           /\ Mentioned(action_id[t]) = {Rules[e.rule].id : e \in EventsOf(t)}
<1>1. t \in Calls
  BY DEF Seen
<1>2. ASSUME NEW k \in DOMAIN trace  PROVE trace[k].action_id = action_id[t] <=> trace[k].call = t
  <2>1. trace[k].call \in Calls
    BY EventTyped
  <2>2. trace[k].action_id = action_id[trace[k].call] /\ action_id[trace[k].call] # 0
    BY <2>1 DEF IdsInTrace, IdInv
  <2> QED BY <1>1, <2>1, <2>2 DEF IdInv, UniqueActionIds
<1>3. \A k \in DOMAIN trace : trace[k] \in EventsOf(t) <=> trace[k].call = t
  BY DEF EventsOf
<1>4. \E k \in DOMAIN trace : trace[k].call = t
  BY DEF Seen, EventsOf
<1>5. Mentioned(action_id[t]) = {Rules[e.rule].id : e \in EventsOf(t)}
  BY <1>2 DEF Mentioned, EventsOf
<1> QED BY <1>2, <1>3, <1>4, <1>5

\* The report has nothing of the action of a call that conforms, and something
\* of one that does not.
LEMMA ReportIsExact ==
    ASSUME TypeOK, IdsInTrace, IdInv, NEW spec, IsConstraintSpec(spec), NEW t \in Seen
    PROVE  Conforms(t, spec) <=> \A d \in Report(spec) : d.action_id # action_id[t]
<1> DEFINE a == action_id[t]
<1>0. \A e \in EventsOf(t) : \E k \in DOMAIN trace : e = trace[k]
  BY DEF EventsOf
<1>1. \A k \in DOMAIN trace : Rules[trace[k].rule].verif \in EnforcementPoint
  BY EventTyped, RulesAreInline DEF EnforcementPoint
<1>2. /\ \A k \in DOMAIN trace : trace[k].action_id = a <=> trace[k] \in EventsOf(t)
      /\ \E k \in DOMAIN trace : trace[k].action_id = a
      /\ Mentioned(a) = {Rules[e.rule].id : e \in EventsOf(t)}
  BY OwnEvents
<1>3. Conforms(t, spec) <=> Declared(spec) \subseteq Mentioned(a) /\ \A e \in EventsOf(t) : Fits(spec, e)
  BY <1>2 DEF Conforms, Declared, Fits
<1>4. \A b : \A d \in Missing(spec, b, Mentioned(b)) : d.action_id = b
  BY DEF Missing, disc
<1>5. Missing(spec, a, Mentioned(a)) = {} <=> Declared(spec) \subseteq Mentioned(a)
  BY DEF Missing
<1>6. \A e \in EventsOf(t) : FlawsOf(spec, e) = {} <=> Fits(spec, e)
  BY <1>0, <1>1, FlawlessIfFits
<1>7. \A k \in DOMAIN trace : \A d \in FlawsOf(spec, trace[k]) : d.action_id = trace[k].action_id
  BY <1>1, FlawlessIfFits
<1>8. \A d : d \in Report(spec) <=>
        \E k \in DOMAIN trace : \/ d \in Missing(spec, trace[k].action_id, Mentioned(trace[k].action_id))
                                \/ d \in FlawsOf(spec, trace[k])
  BY InReport
<1> HIDE DEF a
<1>9. ASSUME Conforms(t, spec), NEW d \in Report(spec), d.action_id = a  PROVE FALSE
  <2>1. PICK k \in DOMAIN trace : \/ d \in Missing(spec, trace[k].action_id, Mentioned(trace[k].action_id))
                                  \/ d \in FlawsOf(spec, trace[k])
    BY <1>8
  <2>2. trace[k].action_id = a /\ trace[k] \in EventsOf(t)
    BY <1>2, <1>4, <1>7, <1>9, <2>1
  <2> QED BY <1>3, <1>5, <1>6, <1>9, <2>1, <2>2
<1>10. ASSUME \A d \in Report(spec) : d.action_id # a  PROVE Conforms(t, spec)
  <2>1. Missing(spec, a, Mentioned(a)) = {}
    BY <1>2, <1>4, <1>8, <1>10
  <2>2. \A e \in EventsOf(t) : FlawsOf(spec, e) = {}
    <3> SUFFICES ASSUME NEW e \in EventsOf(t), NEW d \in FlawsOf(spec, e)  PROVE FALSE
      OBVIOUS
    <3>1. PICK k \in DOMAIN trace : e = trace[k]
      BY <1>0
    <3> QED BY <1>2, <1>7, <1>8, <1>10, <3>1
  <2> QED BY <1>3, <1>5, <1>6, <2>1, <2>2
<1> QED BY <1>9, <1>10 DEF a

\* Whatever is reported is of an action that a call has left an event of.
LEMMA ReportIsOfSeen ==
    ASSUME TypeOK, IdsInTrace, NEW spec, IsConstraintSpec(spec), NEW d \in Report(spec)
    PROVE  \E t \in Seen : d.action_id = action_id[t]
<1>1. PICK k \in DOMAIN trace : \/ d \in Missing(spec, trace[k].action_id, Mentioned(trace[k].action_id))
                                \/ d \in FlawsOf(spec, trace[k])
  BY InReport
<1>2. Rules[trace[k].rule].verif \in EnforcementPoint
  BY EventTyped, RulesAreInline DEF EnforcementPoint
<1>3. d.action_id = trace[k].action_id
  <2>1. CASE d \in Missing(spec, trace[k].action_id, Mentioned(trace[k].action_id))
    BY <2>1 DEF Missing, disc
  <2>2. CASE d \in FlawsOf(spec, trace[k])
    BY <1>2, <2>2, FlawlessIfFits
  <2> QED BY <1>1, <2>1, <2>2
<1>4. trace[k].call \in Seen
  BY EventTyped DEF Seen, EventsOf
<1> QED BY <1>3, <1>4 DEF IdsInTrace

\* The audit of a session of one toolset reports exactly the actions that do not
\* conform to the spec it is made against, whichever revision (AuditExact).
THEOREM AuditExactTheorem == SSpec => []AuditExact
<1>1. ASSUME SInv, SessionIds, toolsets = 1, NEW spec \in Revisions
      PROVE  /\ \A t \in Seen : Conforms(t, spec) <=> \A d \in Report(spec) : d.action_id # action_id[t]
             /\ (\A t \in Seen : Conforms(t, spec)) <=> cmd_audit(spec, "list", FALSE) = 0
  <2>1. TypeOK /\ IdsInTrace /\ IdInv /\ IsConstraintSpec(spec)
    BY <1>1, RevisionsAssumption DEF SInv, AInv, IInv, SessionIds
  <2>2. \A t \in Seen : Conforms(t, spec) <=> \A d \in Report(spec) : d.action_id # action_id[t]
    BY <2>1, ReportIsExact
  <2>3. \A d \in Report(spec) : \E t \in Seen : d.action_id = action_id[t]
    BY <2>1, ReportIsOfSeen
  <2>4. cmd_audit(spec, "list", FALSE) = 0 <=> Report(spec) = {}
    BY DEF cmd_audit
  <2> QED BY <2>2, <2>3, <2>4
<1>2. SInv /\ SessionIds => AuditExact
  BY <1>1 DEF AuditExact
<1> QED BY <1>2, SessionInvariant, SessionIdsHold, PTL

-----------------------------------------------------------------------------
(* The stored trail is a session.                                          *)

LEMMA TrailStep == TNext => SNext
BY DEF TNext, SNext, StoreAppends, StoreRejects, StoreRaises, Otherwise, Reopen, Next, Answer, storeVars

\* Calls over a chained store are the session that GovernedAudit describes, so
\* that whatever is shown of a session holds of the stored one.
THEOREM TrailIsSession == TSpec => SSpec
<1>1. TInit => SInit
  BY DEF TInit
<1>2. [TNext]_<<vars, toolsets, storeVars>> => [SNext]_<<vars, toolsets>>
  BY TrailStep
<1> QED BY <1>1, <1>2, PTL DEF TSpec, SSpec

\* The audit of a stored trail raises no false alarm (AlarmHasCause).
THEOREM StoredAlarmTheorem == TSpec => []AlarmHasCause
BY TrailIsSession, AlarmTheorem, PTL

\* The audit of a stored trail is exact as well (AuditExact).
THEOREM StoredAuditExact == TSpec => []AuditExact
BY TrailIsSession, AuditExactTheorem, PTL

LEMMA SessionEvents == SSpec => []EventsInv
<1>1. SInit => EventsInv
  BY DEF SInit, Init, EventsInv
<1>2. SInv /\ SInv' /\ EventsInv /\ [SNext]_<<vars, toolsets>> => EventsInv'
  <2> SUFFICES ASSUME SInv, SInv', EventsInv, [SNext]_<<vars, toolsets>>  PROVE EventsInv'
    OBVIOUS
  <2>1. IInv /\ IInv' /\ TypeOK
    BY DEF SInv, AInv, IInv
  <2>2. CASE FreshToolset
    BY <2>1, <2>2, SilentStep DEF FreshToolset, callVars
  <2>3. CASE UNCHANGED vars
    BY <2>1, <2>3, SilentStep DEF vars, callVars
  <2>4. CASE Next
    BY <2>1, <2>4, StepTells DEF Next
  <2> QED BY <2>2, <2>3, <2>4 DEF SNext
<1> QED BY <1>1, <1>2, SessionInvariant, PTL DEF SSpec

-----------------------------------------------------------------------------
(* The two schemas.                                                        *)

\* Induction over the positions of a sequence: the least one that fails.
LEMMA Least == ASSUME NEW T \in SUBSET Nat, T # {} PROVE \E x \in T : \A y \in T : x <= y
<1>1. PICK x \in T : \A y \in T : <<y, x>> \notin OpToRel(<, Nat)
  BY NatLessThanWellFounded, WFMin, Zenon
<1>2. \E z \in T : \A y \in T : ~(y < z)
  BY <1>1, Zenon DEF OpToRel
<1> QED BY <1>2

\* The selected positions are counted in their order, each of them once.
LEMMA Ranked ==
    ASSUME NEW P \in SUBSET Nat, IsFiniteSet(P)
    PROVE  /\ Cardinality(P) \in Nat
           /\ \A k \in 1 .. Cardinality(P) : Nth(P, k) \in P
           /\ \A i \in P : \E k \in 1 .. Cardinality(P) : Nth(P, k) = i
           /\ \A k, l \in 1 .. Cardinality(P) : k < l => Nth(P, k) < Nth(P, l)
<1> DEFINE n == Cardinality(P)
           UpTo(i) == {j \in P : j <= i}
           Index == [i \in P |-> Cardinality(UpTo(i))]
<1>1. n \in Nat
  BY FS_CardinalityType
<1>2. ASSUME NEW i \in P  PROVE IsFiniteSet(UpTo(i)) /\ Index[i] \in 1 .. n
  <2>1. UpTo(i) \in SUBSET P /\ i \in UpTo(i)
    OBVIOUS
  <2>2. IsFiniteSet(UpTo(i)) /\ Cardinality(UpTo(i)) <= n
    BY <2>1, FS_Subset
  <2>3. Cardinality(UpTo(i)) \in Nat /\ Cardinality(UpTo(i)) # 0
    BY <2>1, <2>2, FS_CardinalityType, FS_EmptySet
  <2> QED BY <1>1, <2>2, <2>3
<1>3. ASSUME NEW i \in P, NEW j \in P, i < j  PROVE Index[i] < Index[j]
  <2>0. (\A x \in P : x <= i => x <= j) /\ j <= j /\ ~(j <= i)
    BY <1>3
  <2>1. UpTo(i) \in SUBSET UpTo(j) /\ j \in UpTo(j) /\ j \notin UpTo(i)
    BY <2>0
  <2>2. Cardinality(UpTo(i)) <= Cardinality(UpTo(j)) /\ Cardinality(UpTo(i)) # Cardinality(UpTo(j))
    BY <1>2, <2>1, FS_Subset
  <2>3. Cardinality(UpTo(i)) \in Nat /\ Cardinality(UpTo(j)) \in Nat
    BY <1>2, FS_CardinalityType
  <2> QED BY <2>2, <2>3
<1>4. \A i, j \in P : i # j => Index[i] # Index[j]
  <2> SUFFICES ASSUME NEW i \in P, NEW j \in P, i # j  PROVE Index[i] # Index[j]
    OBVIOUS
  <2>1. i < j \/ j < i
    OBVIOUS
  <2>2. Index[i] \in Nat /\ Index[j] \in Nat
    BY <1>2
  <2> HIDE DEF Index
  <2> QED BY <1>3, <2>1, <2>2
<1>5. \A k \in 1 .. n : \E i \in P : Index[i] = k
  <2>1. Index \in Injection(P, 1 .. n)
    BY <1>2, <1>4 DEF Injection, IsInjective
  <2>2. IsFiniteSet(1 .. n) /\ Cardinality(1 .. n) = n
    BY <1>1, FS_Interval
  <2>3. Index \in Surjection(P, 1 .. n)
    BY <2>1, <2>2, FS_Injection
  <2> QED BY <2>3 DEF Surjection
<1>6. ASSUME NEW k \in 1 .. n  PROVE Nth(P, k) \in P /\ Index[Nth(P, k)] = k
  BY <1>5 DEF Nth
<1>7. ASSUME NEW i \in P  PROVE Nth(P, Index[i]) = i
  <2>1. Index[Nth(P, Index[i])] = Index[i] /\ Nth(P, Index[i]) \in P
    BY <1>2, <1>6
  <2> HIDE DEF Index
  <2> QED BY <1>4, <2>1
<1>8. ASSUME NEW k \in 1 .. n, NEW l \in 1 .. n, k < l  PROVE Nth(P, k) < Nth(P, l)
  <2> DEFINE x == Nth(P, k)
             y == Nth(P, l)
  <2>1. x \in P /\ y \in P /\ Index[x] = k /\ Index[y] = l
    BY <1>6
  <2> HIDE DEF x, y
  <2>2. x < y \/ x = y \/ y < x
    BY <2>1
  <2>3. ~(l < k) /\ k # l
    BY <1>8
  <2> HIDE DEF Index
  <2>4. x < y
    BY <1>3, <2>1, <2>2, <2>3
  <2> QED BY <2>4 DEF x, y
<1> HIDE DEF Index
<1> QED BY <1>1, <1>2, <1>6, <1>7, <1>8

\* Of the positions of a list that satisfy something there is a last one.
LEMMA Last ==
    ASSUME NEW n \in Nat, NEW T \in SUBSET (1 .. n), T # {}
    PROVE  \E x \in T : \A y \in T : y <= x
<1> DEFINE Back == {n - y : y \in T}
<1>1. Back \in SUBSET Nat /\ Back # {}
  <2>1. \A y \in T : n - y \in Nat
    OBVIOUS
  <2> QED BY <2>1
<1>2. PICK b \in Back : \A c \in Back : b <= c
  BY <1>1, Least
<1>3. PICK x \in T : b = n - x
  BY <1>2
<1>4. ASSUME NEW y \in T  PROVE y <= x
  <2>1. n - y \in Back /\ y \in Nat /\ x \in Nat
    BY <1>3
  <2>2. n - x <= n - y
    BY <1>2, <1>3, <2>1
  <2> QED BY <2>1, <2>2
<1> QED BY <1>4

\* The positions of the events of an action, in their order, and the list of
\* evaluations that its record holds.
PositionsOf(a) == {k \in DOMAIN trace : trace[k].action_id = a}
Count(a) == Cardinality(PositionsOf(a))
Kth(a, k) == Nth(PositionsOf(a), k)
ListOf(a) == ActionRecord(a).evaluated

\* The evaluation in the record of an action that an event becomes.
Evaluation(e) ==
    [id |-> Rules[e.rule].id, verif |-> Rules[e.rule].verif, fired |-> e.fired,
     response |-> Rules[e.rule].response]

LEMMA OrderOfEvents ==
    ASSUME TypeOK, NEW a
    PROVE  /\ Count(a) \in Nat
           /\ \A k \in 1 .. Count(a) : Kth(a, k) \in PositionsOf(a)
           /\ \A i \in PositionsOf(a) : \E k \in 1 .. Count(a) : Kth(a, k) = i
           /\ \A k, l \in 1 .. Count(a) : k < l => Kth(a, k) < Kth(a, l)
<1>1. PositionsOf(a) \in SUBSET Nat /\ IsFiniteSet(PositionsOf(a))
  <2>1. PositionsOf(a) \in SUBSET (1 .. Len(trace)) /\ Len(trace) \in Nat
    BY EventTyped DEF PositionsOf
  <2>2. IsFiniteSet(1 .. Len(trace))
    BY <2>1, FS_Interval
  <2> QED BY <2>1, <2>2, FS_Subset
<1> QED BY <1>1, Ranked DEF Count, Kth

\* The record of an action holds the evaluations of its events, in their order.
LEMMA RecordOfAction ==
    ASSUME TypeOK, NEW a
    PROVE  /\ ActionRecord(a).action_id = a /\ ActionRecord(a).authority_nonempty = TRUE
           /\ "constraint_id" \notin DOMAIN ActionRecord(a)
           /\ DOMAIN ListOf(a) = 1 .. Count(a)
           /\ \A k \in 1 .. Count(a) : ListOf(a)[k] = Evaluation(trace[Kth(a, k)])
<1> DEFINE own == Select(FlatTrace, PositionsOf(a))
<1>1. DOMAIN own = 1 .. Count(a) /\ \A k \in 1 .. Count(a) : own[k] = FlatTrace[Kth(a, k)]
  BY DEF Select, Count, Kth
<1>2. /\ ActionRecord(a).action_id = a /\ ActionRecord(a).authority_nonempty = TRUE
      /\ "constraint_id" \notin DOMAIN ActionRecord(a)
      /\ ListOf(a) = [k \in DOMAIN own |-> [id |-> own[k].constraint_id, verif |-> own[k].point,
                                            fired |-> own[k].fired, response |-> own[k].response]]
  BY DEF ActionRecord, PositionsOf, ListOf
<1> HIDE DEF own
<1>3. ASSUME NEW k \in 1 .. Count(a)  PROVE ListOf(a)[k] = Evaluation(trace[Kth(a, k)])
  <2>1. PICK m \in DOMAIN trace : m = Kth(a, k)
    BY OrderOfEvents DEF PositionsOf
  <2>2. own[k] = to_dict(trace[m])
    BY <1>1, <2>1, ReadsEvents
  <2>3. ListOf(a)[k] = [id |-> own[k].constraint_id, verif |-> own[k].point,
                        fired |-> own[k].fired, response |-> own[k].response]
    BY <1>1, <1>2
  <2> QED BY <2>1, <2>2, <2>3 DEF to_dict, Evaluation
<1> QED BY <1>1, <1>2, <1>3

LEMMA IdOfEvaluation == \A e : Evaluation(e).id = Rules[e.rule].id
BY DEF Evaluation

\* The record of an action mentions the ids that its events mention.
LEMMA RecordMentions ==
    ASSUME TypeOK, NEW a
    PROVE  {e.id : e \in LastPerId(ListOf(a))} = Mentioned(a)
<1>1. \A k \in 1 .. Count(a) : ListOf(a)[k].id = Rules[trace[Kth(a, k)].rule].id
  <2>1. \A k \in 1 .. Count(a) : ListOf(a)[k] = Evaluation(trace[Kth(a, k)])
    BY RecordOfAction
  <2> QED BY <2>1, IdOfEvaluation
<1>2. \A c : c \in Mentioned(a) <=> \E i \in PositionsOf(a) : c = Rules[trace[i].rule].id
  BY DEF Mentioned, PositionsOf
<1>3. DOMAIN ListOf(a) = 1 .. Count(a) /\ Count(a) \in Nat
  BY OrderOfEvents, RecordOfAction
<1>4. ASSUME NEW e \in LastPerId(ListOf(a))  PROVE e.id \in Mentioned(a)
  <2>1. PICK k \in 1 .. Count(a) : e = ListOf(a)[k]
    BY <1>3 DEF LastPerId
  <2> QED BY <1>1, <1>2, <2>1, OrderOfEvents
<1>5. ASSUME NEW c \in Mentioned(a)  PROVE \E e \in LastPerId(ListOf(a)) : e.id = c
  <2> DEFINE T == {l \in 1 .. Count(a) : ListOf(a)[l].id = c}
  <2>1. \E k \in 1 .. Count(a) : ListOf(a)[k].id = c
    BY <1>1, <1>2, OrderOfEvents
  <2>2. T \in SUBSET (1 .. Count(a)) /\ T # {}
    BY <2>1
  <2>3. PICK x \in T : \A y \in T : y <= x
    <3> HIDE DEF T
    <3> QED BY <1>3, <2>2, Last
  <2>4. ListOf(a)[x] \in LastPerId(ListOf(a)) /\ ListOf(a)[x].id = c
    BY <1>3, <2>3 DEF LastPerId
  <2> QED BY <2>4
<1> QED BY <1>4, <1>5

\* What the action-level audit says of an action: what it lacks, as the flat
\* one, and the flaws of those of its events that are the last of their rule.
LEMMA InActionReport ==
    ASSUME TypeOK, NEW spec, NEW a, NEW d
    PROVE  d \in audit_trace(spec, <<ActionRecord(a)>>, TRUE) <=>
             \/ d \in Missing(spec, a, Mentioned(a))
             \/ \E e \in LastPerId(ListOf(a)) : d \in Flaws(spec, a, e.id, e.verif, e.fired, e.response)
<1> DEFINE Missed(trace1) == UNION {Missing(spec, trace1[k].action_id, {e.id : e \in LastPerId(trace1[k].evaluated)}) :
                                     k \in DOMAIN trace1}
           FlawsIn(trace1, k) == UNION {Flaws(spec, trace1[k].action_id, e.id, e.verif, e.fired, e.response) :
                                          e \in LastPerId(trace1[k].evaluated)}
           AllFlaws(trace1) == UNION {FlawsIn(trace1, k) : k \in DOMAIN trace1}
           Nameless(trace1) == {disc(trace1[k].action_id, "None", "attribution") :
                                  k \in {k \in DOMAIN trace1 : TRUE /\ ~trace1[k].authority_nonempty}}
           Found == UNION {Flaws(spec, a, e.id, e.verif, e.fired, e.response) : e \in LastPerId(ListOf(a))}
<1>1. PICK t1 : t1 = <<ActionRecord(a)>>
  OBVIOUS
<1>2. /\ t1 # <<>> /\ DOMAIN t1 = {1} /\ t1[1].action_id = a /\ t1[1].authority_nonempty = TRUE
      /\ "constraint_id" \notin DOMAIN t1[1] /\ t1[1].evaluated = ListOf(a)
  <2>1. /\ ActionRecord(a).action_id = a /\ ActionRecord(a).authority_nonempty = TRUE
        /\ "constraint_id" \notin DOMAIN ActionRecord(a)
    BY RecordOfAction
  <2>2. t1 # <<>> /\ DOMAIN t1 = {1} /\ t1[1] = ActionRecord(a)
    BY <1>1
  <2>3. ActionRecord(a).evaluated = ListOf(a)
    BY DEF ListOf
  <2> QED BY <2>1, <2>2, <2>3
<1>3. audit_trace(spec, t1, TRUE) = (Missed(t1) \cup AllFlaws(t1)) \cup Nameless(t1)
  <2>1. audit_trace(spec, t1, TRUE) = audit_action_level(spec, t1, TRUE)
    BY <1>2 DEF audit_trace, is_flat_trace
  <2>2. audit_action_level(spec, t1, TRUE) = (Missed(t1) \cup AllFlaws(t1)) \cup Nameless(t1)
    BY DEF audit_action_level
  <2> QED BY <2>1, <2>2
<1>4. Missed(t1) = Missing(spec, a, Mentioned(a))
  <2>1. Missing(spec, t1[1].action_id, {e.id : e \in LastPerId(t1[1].evaluated)}) = Missing(spec, a, Mentioned(a))
    BY <1>2, RecordMentions
  <2> QED BY <1>2, <2>1
<1>5. AllFlaws(t1) = Found
  <2>1. FlawsIn(t1, 1) = Found
    BY <1>2
  <2> HIDE DEF FlawsIn, Found
  <2> QED BY <1>2, <2>1
<1>6. Nameless(t1) = {}
  BY <1>2
<1>7. d \in Found <=> \E e \in LastPerId(ListOf(a)) : d \in Flaws(spec, a, e.id, e.verif, e.fired, e.response)
  OBVIOUS
<1> HIDE DEF Missed, AllFlaws, Nameless, Found
<1>8. d \in audit_trace(spec, t1, TRUE) <=> d \in Missing(spec, a, Mentioned(a)) \/ d \in Found
  BY <1>3, <1>4, <1>5, <1>6
<1> QED BY <1>1, <1>7, <1>8

\* The flaws that the action-level audit finds are flaws of events of the action.
LEMMA FlawOfRecord ==
    ASSUME TypeOK, NEW spec, NEW a, NEW e \in LastPerId(ListOf(a))
    PROVE  \E k \in PositionsOf(a) :
              Flaws(spec, a, e.id, e.verif, e.fired, e.response) = FlawsOf(spec, trace[k])
<1>1. PICK l \in 1 .. Count(a) : e = ListOf(a)[l]
  BY RecordOfAction DEF LastPerId
<1>2. PICK k \in PositionsOf(a) : e = Evaluation(trace[k])
  <2>1. \A i \in 1 .. Count(a) : ListOf(a)[i] = Evaluation(trace[Kth(a, i)])
    BY RecordOfAction
  <2>2. Kth(a, l) \in PositionsOf(a)
    BY <1>1, OrderOfEvents
  <2> QED BY <1>1, <2>1, <2>2
<1>3. trace[k].action_id = a
  BY DEF PositionsOf
<1> QED BY <1>2, <1>3 DEF Evaluation, FlawsOf

\* In a session of one toolset every event is the last of its action and rule.
LEMMA EveryEventIsLast ==
    ASSUME TypeOK, IdsInTrace, IdInv, EventsInv, NEW k \in DOMAIN trace, NEW a, a = trace[k].action_id
    PROVE  Evaluation(trace[k]) \in LastPerId(ListOf(a))
<1>1. k \in PositionsOf(a)
  BY DEF PositionsOf
<1>2. PICK j \in 1 .. Count(a) : Kth(a, j) = k
  BY <1>1, OrderOfEvents
<1>3. ListOf(a)[j] = Evaluation(trace[k])
  <2>1. \A i \in 1 .. Count(a) : ListOf(a)[i] = Evaluation(trace[Kth(a, i)])
    BY RecordOfAction, ZenonT(30)
  <2> QED BY <1>2, <2>1
<1>4. ASSUME NEW l \in PositionsOf(a), Rules[trace[l].rule].id = Rules[trace[k].rule].id  PROVE l = k
  <2>1. l \in DOMAIN trace /\ trace[l].action_id = trace[k].action_id
    BY DEF PositionsOf
  <2>2. trace[l].call = trace[k].call
    <3>1. trace[k].call \in Calls /\ trace[l].call \in Calls
      BY <2>1, EventTyped
    <3> QED BY <2>1, <3>1 DEF IdsInTrace, IdInv, UniqueActionIds
  <2>3. trace[l].rule = trace[k].rule
    <3>1. trace[k].rule \in Pos /\ trace[l].rule \in Pos
      BY <2>1, EventTyped
    <3> QED BY <1>4, <3>1, RulesAssumption DEF IsConstraintSpec, Pos
  <2>4. ~Before(trace[k].rule, trace[k].rule)
    <3>1. trace[k].rule \in Pos
      BY EventTyped
    <3>2. trace[k].rule \in Nat /\ PointRank[Rules[trace[k].rule].verif] \in Nat
      <4>1. Rules[trace[k].rule].verif \in {"PAG", "ATM", "PAA"}
        BY <3>1, RulesAreInline
      <4>2. \A p \in {"PAG", "ATM", "PAA"} : PointRank[p] \in Nat
        BY DEF PointRank
      <4> QED BY <3>1, <4>1, <4>2, RulesAreInline
    <3> QED BY <3>2 DEF Before
  <2>5. ~(k < l) /\ ~(l < k)
    BY <2>1, <2>2, <2>3, <2>4 DEF EventsInv, Truthful
  <2> QED BY <2>1, <2>5, EventTyped
<1>5. ASSUME NEW l \in 1 .. Count(a), ListOf(a)[l].id = ListOf(a)[j].id  PROVE l <= j
  <2>1. ListOf(a)[l].id = Rules[trace[Kth(a, l)].rule].id /\ ListOf(a)[j].id = Rules[trace[k].rule].id
    <3>1. ListOf(a)[l] = Evaluation(trace[Kth(a, l)])
      BY RecordOfAction
    <3> QED BY <1>3, <3>1, IdOfEvaluation
  <2>2. Kth(a, l) = k
    BY <1>4, <1>5, <2>1, OrderOfEvents
  <2>3. ~(j < l)
    <3>1. k \in Nat
      BY EventTyped
    <3> QED BY <1>2, <2>2, <3>1, OrderOfEvents
  <2> QED BY <2>3, OrderOfEvents
<1> QED BY <1>3, <1>5, RecordOfAction DEF LastPerId

\* The action-level audit reports no more than the flat one, and in a session of
\* one toolset the same, whichever revision it is made against (SchemasAgree).
THEOREM SchemasTheorem == SSpec => []SchemasAgree
<1>1. ASSUME TypeOK, NEW spec, NEW d \in ActionReport(spec)  PROVE d \in Report(spec)
  <2>1. PICK a \in ActionIds : d \in audit_trace(spec, <<ActionRecord(a)>>, TRUE)
    BY DEF ActionReport
  <2>2. PICK k \in DOMAIN trace : a = trace[k].action_id
    BY DEF ActionIds
  <2>3. CASE d \in Missing(spec, a, Mentioned(a))
    BY <1>1, <2>2, <2>3, InReport
  <2>4. CASE d \notin Missing(spec, a, Mentioned(a))
    <3>1. PICK e \in LastPerId(ListOf(a)) : d \in Flaws(spec, a, e.id, e.verif, e.fired, e.response)
      BY <1>1, <2>1, <2>4, InActionReport
    <3>2. PICK l \in PositionsOf(a) : d \in FlawsOf(spec, trace[l])
      BY <1>1, <3>1, FlawOfRecord
    <3>3. l \in DOMAIN trace
      BY DEF PositionsOf
    <3> QED BY <1>1, <3>2, <3>3, InReport
  <2> QED BY <2>3, <2>4
<1>2. ASSUME TypeOK, IdsInTrace, IdInv, EventsInv, NEW spec, NEW d \in Report(spec)
      PROVE  d \in ActionReport(spec)
  <2>1. PICK k \in DOMAIN trace : \/ d \in Missing(spec, trace[k].action_id, Mentioned(trace[k].action_id))
                                  \/ d \in FlawsOf(spec, trace[k])
    BY <1>2, InReport
  <2>2. PICK a \in ActionIds : a = trace[k].action_id
    BY DEF ActionIds
  <2>3. d \in audit_trace(spec, <<ActionRecord(a)>>, TRUE)
    <3>1. CASE d \in Missing(spec, a, Mentioned(a))
      BY <1>2, <3>1, InActionReport
    <3>2. CASE d \in FlawsOf(spec, trace[k])
      <4> DEFINE e == Evaluation(trace[k])
      <4>1. e \in LastPerId(ListOf(a))
        BY <1>2, <2>2, EveryEventIsLast
      <4>2. d \in Flaws(spec, a, e.id, e.verif, e.fired, e.response)
        BY <2>2, <3>2 DEF FlawsOf, Evaluation
      <4> HIDE DEF e
      <4> QED BY <1>2, <4>1, <4>2, InActionReport
    <3> QED BY <2>1, <2>2, <3>1, <3>2
  <2> QED BY <2>3 DEF ActionReport
<1>3. SInv /\ SessionIds /\ EventsInv => SchemasAgree
  <2> SUFFICES ASSUME SInv, SessionIds, EventsInv, NEW spec \in Revisions
               PROVE  /\ ActionReport(spec) \subseteq Report(spec)
                      /\ toolsets = 1 => Report(spec) \subseteq ActionReport(spec)
    BY DEF SchemasAgree
  <2>1. TypeOK /\ IdsInTrace /\ (toolsets = 1 => IdInv)
    BY DEF SInv, AInv, IInv, SessionIds
  <2> QED BY <1>1, <1>2, <2>1
<1> QED BY <1>3, SessionInvariant, SessionIdsHold, SessionEvents, PTL

-----------------------------------------------------------------------------
(* Hash chains.                                                            *)

StoredRecord ==
    [chained : {TRUE}, body : TraceEvent, prev_hash : Seq(TraceEvent),
     record_hash : TraceEvent, chain_hash : Seq(TraceEvent)]

IsChain(rs) ==
    /\ rs \in Seq(StoredRecord)
    /\ \A k \in DOMAIN rs : rs[k] = append_record(rs[k].body, rs[k].prev_hash)

\* The hash of the newest record.
Newest(rs) == IF rs = <<>> THEN <<>> ELSE rs[Len(rs)].chain_hash

LEMMA AllChained ==
    ASSUME NEW rs, IsChain(rs), NEW k \in DOMAIN rs
    PROVE  rs[k].chained
<1> DEFINE b == rs[k].body
           p == rs[k].prev_hash
<1>1. append_record(b, p).chained
  BY DEF append_record
<1>2. rs[k] = append_record(b, p)
  BY DEF IsChain
<1> QED BY <1>1, <1>2

LEMMA NewestTyped ==
    ASSUME NEW rs, IsChain(rs)
    PROVE  Newest(rs) \in Seq(TraceEvent)
<1>1. rs \in Seq(StoredRecord)
  BY DEF IsChain
<1>2. CASE rs # <<>>
  <2>1. Len(rs) \in 1 .. Len(rs) /\ \A k \in 1 .. Len(rs) : rs[k] \in StoredRecord
    BY <1>1, <1>2
  <2>2. \A r \in StoredRecord : r.chain_hash \in Seq(TraceEvent)
    BY DEF StoredRecord
  <2> QED BY <1>2, <2>1, <2>2 DEF Newest
<1>3. CASE rs = <<>>
  BY <1>3 DEF Newest
<1> QED BY <1>2, <1>3

\* What a store recovers is the hash of the newest record.
LEMMA RecoversNewest ==
    ASSUME NEW rs, IsChain(rs)
    PROVE  LastChainHash(rs) = Newest(rs)
<1>1. rs \in Seq(StoredRecord) /\ DOMAIN rs = 1 .. Len(rs) /\ Len(rs) \in Nat
  BY DEF IsChain
<1>2. \A k \in DOMAIN rs : rs[k].chained
  BY AllChained
<1>3. {i \in DOMAIN rs : rs[i].chained} = DOMAIN rs
  BY <1>2
<1>4. CASE rs = <<>>
  BY <1>3, <1>4 DEF LastChainHash, Newest, GENESIS_PREV_HASH
<1>5. CASE rs # <<>>
  <2>1. Len(rs) \in DOMAIN rs
    BY <1>1, <1>5
  <2>2. Len(rs) = CHOOSE i \in DOMAIN rs : \A j \in DOMAIN rs : j <= i
    BY <1>1, <2>1
  <2>3. DOMAIN rs # {}
    BY <2>1
  <2> DEFINE S == {i \in DOMAIN rs : rs[i].chained}
  <2>4. S = DOMAIN rs
    BY <1>3
  <2>5. LastChainHash(rs) = IF S = {} THEN GENESIS_PREV_HASH
                            ELSE rs[CHOOSE i \in S : \A j \in S : j <= i].chain_hash
    BY Zenon DEF LastChainHash
  <2>6. LastChainHash(rs) = rs[CHOOSE i \in DOMAIN rs : \A j \in DOMAIN rs : j <= i].chain_hash
    BY <2>3, <2>4, <2>5, Zenon
  <2>7. LastChainHash(rs) = rs[Len(rs)].chain_hash
    BY <2>2, <2>6, Zenon
  <2> QED BY <1>5, <2>7 DEF Newest
<1> QED BY <1>4, <1>5

\* A chain verifies if and only if each record names the hash before it.
LEMMA VerifiesIffLinked ==
    ASSUME NEW rs, IsChain(rs)
    PROVE  Verifies(rs) <=> \A k \in DOMAIN rs : rs[k].prev_hash = PrevAt(rs, <<>>, k)
<1>1. Verifies(rs) <=> \A k \in DOMAIN rs : Breaks(rs, <<>>, k) = {}
  <2> DEFINE B(k) == Breaks(rs, <<>>, k)
  <2>1. Verifies(rs) <=> UNION {{i} \X B(i) : i \in DOMAIN rs} = {}
    BY Zenon DEF Verifies, verify_chain, GENESIS_PREV_HASH
  <2> HIDE DEF B
  <2>2. ASSUME UNION {{i} \X B(i) : i \in DOMAIN rs} = {}, NEW k \in DOMAIN rs, NEW b \in B(k)
        PROVE  FALSE
    <3>1. <<k, b>> \in {k} \X B(k)
      OBVIOUS
    <3> QED BY <2>2, <3>1, Zenon
  <2>3. ASSUME \A k \in DOMAIN rs : B(k) = {}, NEW x \in UNION {{i} \X B(i) : i \in DOMAIN rs}
        PROVE  FALSE
    <3>1. PICK i \in DOMAIN rs : x \in {i} \X B(i)
      BY Zenon
    <3> QED BY <2>3, <3>1
  <2>4. UNION {{i} \X B(i) : i \in DOMAIN rs} = {} <=> \A k \in DOMAIN rs : B(k) = {}
    BY <2>2, <2>3, Zenon
  <2> QED BY <2>1, <2>4 DEF B
<1>2. ASSUME NEW k \in DOMAIN rs
      PROVE  Breaks(rs, <<>>, k) = {} <=> rs[k].prev_hash = PrevAt(rs, <<>>, k)
  <2>1. /\ rs[k].chained
        /\ rs[k].record_hash = canonical_event_hash(rs[k].body)
        /\ rs[k].chain_hash = chain_link(rs[k].prev_hash, rs[k].record_hash)
    <3>1. rs[k] = append_record(rs[k].body, rs[k].prev_hash)
      BY DEF IsChain
    <3> DEFINE b == rs[k].body
               p == rs[k].prev_hash
    <3>2. /\ append_record(b, p).chained
          /\ append_record(b, p).record_hash = canonical_event_hash(b)
          /\ append_record(b, p).chain_hash = chain_link(p, canonical_event_hash(b))
      BY DEF append_record
    <3> QED BY <3>1, <3>2
  <2> QED BY <2>1 DEF Breaks
<1> QED BY <1>1, <1>2

LEMMA ChainGrows ==
    ASSUME NEW rs, IsChain(rs), NEW b \in TraceEvent, NEW p \in Seq(TraceEvent)
    PROVE  /\ IsChain(Append(rs, append_record(b, p)))
           /\ Newest(Append(rs, append_record(b, p))) = Append(p, b)
           /\ Verifies(Append(rs, append_record(b, p))) <=> Verifies(rs) /\ p = Newest(rs)
<1> DEFINE r == append_record(b, p)
           qs == Append(rs, r)
<1>1. /\ r.body = b /\ r.prev_hash = p /\ r.chain_hash = Append(p, b) /\ r.chained
      /\ r = append_record(r.body, r.prev_hash)
  BY DEF append_record, canonical_event_hash, chain_link
<1>2. r \in StoredRecord
  <2>1. Append(p, b) \in Seq(TraceEvent)
    OBVIOUS
  <2> QED BY <2>1 DEF append_record, canonical_event_hash, chain_link, StoredRecord
<1>3. rs \in Seq(StoredRecord) /\ Len(rs) \in Nat /\ DOMAIN rs = 1 .. Len(rs)
  BY DEF IsChain
<1> HIDE DEF r
<1>4. /\ qs \in Seq(StoredRecord) /\ Len(qs) = Len(rs) + 1 /\ DOMAIN qs = 1 .. Len(rs) + 1
      /\ qs[Len(rs) + 1] = r /\ \A k \in 1 .. Len(rs) : qs[k] = rs[k]
  BY <1>2, <1>3
<1>5. IsChain(qs)
  <2>1. \A k \in DOMAIN qs : qs[k] = append_record(qs[k].body, qs[k].prev_hash)
    BY <1>1, <1>3, <1>4 DEF IsChain
  <2> QED BY <1>4, <2>1 DEF IsChain
<1>6. Newest(qs) = Append(p, b)
  <2>1. qs # <<>>
    BY <1>3, <1>4
  <2> QED BY <1>1, <1>4, <2>1 DEF Newest
<1>7. \A k \in 1 .. Len(rs) : PrevAt(qs, <<>>, k) = PrevAt(rs, <<>>, k)
  BY <1>3, <1>4 DEF PrevAt
<1>8. PrevAt(qs, <<>>, Len(rs) + 1) = Newest(rs)
  <2>1. CASE rs = <<>>
    BY <1>3, <2>1 DEF PrevAt, Newest
  <2>2. CASE rs # <<>>
    <3>1. Len(rs) # 0 /\ Len(rs) \in 1 .. Len(rs)
      BY <1>3, <2>2
    <3>2. rs[Len(rs)].chained
      BY <1>3, <3>1, AllChained
    <3>3. qs[Len(rs)] = rs[Len(rs)] /\ (Len(rs) + 1) - 1 = Len(rs) /\ Len(rs) + 1 # 1
      BY <1>3, <1>4, <3>1
    <3> HIDE DEF qs
    <3> QED BY <2>2, <3>2, <3>3 DEF PrevAt, Newest
  <2> QED BY <2>1, <2>2
<1>9. Verifies(qs) <=> Verifies(rs) /\ p = Newest(rs)
  <2>1. Verifies(qs) <=> \A k \in DOMAIN qs : qs[k].prev_hash = PrevAt(qs, <<>>, k)
    BY <1>5, VerifiesIffLinked
  <2>2. Verifies(rs) <=> \A k \in DOMAIN rs : rs[k].prev_hash = PrevAt(rs, <<>>, k)
    BY VerifiesIffLinked
  <2>3. \A k \in 1 .. Len(rs) :
            qs[k].prev_hash = PrevAt(qs, <<>>, k) <=> rs[k].prev_hash = PrevAt(rs, <<>>, k)
    BY <1>4, <1>7
  <2>4. qs[Len(rs) + 1].prev_hash = PrevAt(qs, <<>>, Len(rs) + 1) <=> p = Newest(rs)
    BY <1>1, <1>4, <1>8
  <2>5. DOMAIN qs = DOMAIN rs \cup {Len(rs) + 1}
    BY <1>3, <1>4
  <2> HIDE DEF qs
  <2> QED BY <1>3, <2>1, <2>2, <2>3, <2>4, <2>5
<1> QED BY <1>5, <1>6, <1>9 DEF r

-----------------------------------------------------------------------------
(* The invariant of the stored trail.                                      *)

\* Nothing that was chained is missing of what the call evaluated before a recorded
\* evaluation.
Closed(t) ==
    \A i, j \in evaluated[t] :
        Before(i, j) /\ <<t, j>> \in Recorded => <<t, i>> \in Recorded \cup rejected

\* Nothing of it at all is missing of a call on its way, but the record in flight.
Level(t) ==
    pc[t] \notin {"idle", "done"} =>
        \A i \in evaluated[t] :
            <<t, i>> \in Recorded \cup rejected \/ (pc[t] = "emit" /\ i = cur[t])

\* What is lost was emitted.
Emitted ==
    \A t \in Calls : \A i :
        <<t, i>> \in lost => i \in evaluated[t] /\ ~(pc[t] = "emit" /\ i = cur[t])

\* The store's hash is that of the newest record until the append of a chained one
\* raises; from then on it is longer, and the next does not link to the one before.
TrailInv ==
    /\ IsChain(rows)
    /\ last \in Seq(TraceEvent)
    /\ Len(Newest(rows)) <= Len(last)
    /\ Len(Newest(rows)) = Len(last) => Newest(rows) = last
    /\ Emitted /\ rejected \subseteq lost
    /\ lost \subseteq rejected => Verifies(rows) /\ last = Newest(rows)
    /\ Verifies(rows) => \A t \in Calls : Closed(t)
    /\ Verifies(rows) /\ last = Newest(rows) => \A t \in Calls : Level(t)

LEMMA RecordTyped ==
    ASSUME TypeOK, NEW t \in Calls, pc[t] = "emit"
    PROVE  /\ Record(t) \in TraceEvent
           /\ Chained(t).chain_hash = Append(last, Record(t))
           /\ cur[t] \in Pos
<1>1. cur[t] \in Pos /\ action_id[t] \in Nat
  BY DEF TypeOK
<1>2. (cur[t] \in fired[t]) \in BOOLEAN
  OBVIOUS
<1>3. Record(t) \in TraceEvent
  BY <1>1, <1>2, Zenon DEF Record, TraceEvent
<1>4. Chained(t).chain_hash = Append(last, Record(t))
  BY DEF Chained, append_record, canonical_event_hash, chain_link
<1> QED BY <1>1, <1>3, <1>4

\* The record in flight is emitted, and is lost at most then.
LEMMA EmittedStays ==
    ASSUME AInv, Emitted, NEW t \in Calls, pc[t] = "emit", pc'[t] # "emit",
           \A s \in Calls \ {t} : pc'[s] = pc[s],
           evaluated' = evaluated, cur' = cur, lost' \in {lost, lost \cup {<<t, cur[t]>>}}
    PROVE  Emitted'
<1>1. cur[t] \in evaluated[t]
  BY DEF AInv, IInv, CallInv
<1>2. ASSUME NEW s \in Calls, NEW i, <<s, i>> \in lost'
      PROVE  i \in evaluated'[s] /\ ~(pc'[s] = "emit" /\ i = cur'[s])
  <2>1. CASE s = t
    BY <1>1, <1>2, <2>1 DEF Emitted
  <2>2. CASE s # t
    BY <1>2, <2>2 DEF Emitted
  <2> QED BY <2>1, <2>2
<1> QED BY <1>2 DEF Emitted

\* The record is stored: the chain verifies if it did and nothing was lost since
\* its newest record, and then all of every call is in it.
LEMMA StoreStep ==
    ASSUME SInv, TrailInv, NEW t \in Calls, pc[t] = "emit", Persist(t), AfterEmit(t),
           evaluated' = evaluated, cur' = cur, rejected' = rejected,
           lost' \in {lost, lost \cup {<<t, cur[t]>>}},
           rows' = Append(rows, Chained(t)), last' = Chained(t).chain_hash
    PROVE  TrailInv'
<1>1. TypeOK /\ Record(t) \in TraceEvent /\ last' = Append(last, Record(t)) /\ last \in Seq(TraceEvent)
  BY RecordTyped DEF SInv, AInv, IInv, TrailInv
<1>2. /\ IsChain(rows') /\ Newest(rows') = last' /\ last' \in Seq(TraceEvent)
      /\ Verifies(rows') <=> Verifies(rows) /\ last = Newest(rows)
  BY <1>1, ChainGrows DEF TrailInv, Chained
<1>3. Recorded' = Recorded \cup {<<t, cur[t]>>}
  BY <1>1, PersistRecords
<1>4. /\ pc'[t] \in {"route", "loop"} /\ \A s \in Calls \ {t} : pc'[s] = pc[s]
  BY <1>1 DEF TypeOK, AfterEmit, Goto
<1>5. ASSUME Verifies(rows'), NEW s \in Calls  PROVE Closed(s)' /\ Level(s)'
  <2>1. Level(s) /\ Closed(s)
    BY <1>2, <1>5 DEF TrailInv
  <2>2. CASE s = t
    <3>1. \A i \in evaluated[t] : <<t, i>> \in Recorded' \cup rejected'
      BY <1>3, <2>1, <2>2 DEF Level
    <3> QED BY <2>2, <3>1 DEF Closed, Level
  <2>3. CASE s # t
    <3>1. \A i : <<s, i>> \in Recorded' <=> <<s, i>> \in Recorded
      BY <1>3, <2>3
    <3>2. pc'[s] = pc[s]
      BY <1>4, <2>3
    <3> QED BY <2>1, <3>1, <3>2 DEF Closed, Level, Before
  <2> QED BY <2>2, <2>3
<1>6. lost' \subseteq rejected' => Verifies(rows')
  BY <1>2 DEF TrailInv
<1>7. Len(Newest(rows)') = Len(last')
  BY <1>2
<1>8. Emitted'
  BY <1>4, EmittedStays DEF SInv, TrailInv
<1> QED BY <1>2, <1>5, <1>6, <1>7, <1>8 DEF TrailInv

\* The record is lost: from here the store's hash is ahead of its records.
LEMMA LossStep ==
    ASSUME SInv, TrailInv, NEW t \in Calls, pc[t] = "emit", trace' = trace,
           evaluated' = evaluated, cur' = cur, AfterEmit(t), rejected' = rejected,
           lost' = lost \cup {<<t, cur[t]>>}, <<t, cur[t]>> \notin rejected,
           rows' = rows, last' = Chained(t).chain_hash
    PROVE  TrailInv'
<1>1. TypeOK /\ Record(t) \in TraceEvent /\ last' = Append(last, Record(t)) /\ last \in Seq(TraceEvent)
  BY RecordTyped DEF SInv, AInv, IInv, TrailInv
<1>2. last' \in Seq(TraceEvent) /\ Len(last') = Len(last) + 1 /\ Len(last) \in Nat
  BY <1>1
<1>3. Newest(rows') \in Seq(TraceEvent) /\ Len(Newest(rows')) <= Len(last) /\ Len(Newest(rows')) \in Nat
  <2>1. Newest(rows) \in Seq(TraceEvent)
    BY NewestTyped DEF TrailInv
  <2> QED BY <2>1 DEF TrailInv
<1>4. Len(Newest(rows')) # Len(last')
  BY <1>2, <1>3
<1>5. Recorded' = Recorded /\ ~(lost' \subseteq rejected')
  BY DEF Recorded
<1>6. Verifies(rows') => \A s \in Calls : Closed(s)'
  BY <1>5 DEF TrailInv, Closed, Before
<1>7. Len(Newest(rows')) <= Len(last') /\ last' # Newest(rows')
  BY <1>2, <1>3, <1>4
<1>8. Emitted'
  <2>1. pc'[t] # "emit" /\ \A s \in Calls \ {t} : pc'[s] = pc[s]
    BY <1>1 DEF TypeOK, AfterEmit, Goto
  <2> QED BY <2>1, EmittedStays DEF SInv, TrailInv
<1> QED BY <1>2, <1>4, <1>5, <1>6, <1>7, <1>8 DEF TrailInv

\* The record is lost before it is chained: nothing tells of it.
LEMMA RejectStep ==
    ASSUME SInv, TrailInv, NEW t \in Calls, pc[t] = "emit", trace' = trace,
           evaluated' = evaluated, cur' = cur, AfterEmit(t),
           lost' = lost \cup {<<t, cur[t]>>}, rejected' = rejected \cup {<<t, cur[t]>>},
           rows' = rows, last' = last
    PROVE  TrailInv'
<1>1. Recorded' = Recorded /\ <<t, cur[t]>> \notin lost
  BY DEF Recorded, TrailInv, Emitted
<1>2. pc'[t] \in {"route", "loop"} /\ \A s \in Calls \ {t} : pc'[s] = pc[s]
  BY DEF SInv, AInv, IInv, TypeOK, AfterEmit, Goto
<1>3. Emitted'
  BY <1>2, EmittedStays DEF SInv, TrailInv
<1>4. lost' \subseteq rejected' => lost \subseteq rejected
  BY <1>1
<1>5. ASSUME NEW s \in Calls  PROVE (Closed(s) => Closed(s)') /\ (Level(s) => Level(s)')
  <2>1. Closed(s) => Closed(s)'
    BY <1>1 DEF Closed, Before
  <2>2. CASE s = t
    BY <1>1, <1>2, <2>1, <2>2 DEF Level
  <2>3. CASE s # t
    BY <1>1, <1>2, <2>1, <2>3 DEF Level
  <2> QED BY <2>2, <2>3
<1> QED BY <1>3, <1>4, <1>5 DEF TrailInv

\* Elsewhere the trail stays; a call evaluates a rule that is not recorded yet.
LEMMA OtherStep ==
    ASSUME SInv, SInv', EventsInv, TrailInv, Settled, NEW t \in Calls, Otherwise(t),
           rows' = rows, last' = last, rejected' = rejected
    PROVE  TrailInv'
<1>1. TypeOK /\ TypeOK' /\ CallInv(t) /\ CallInv(t)' /\ pc[t] # "emit"
  BY DEF SInv, AInv, IInv, Settled
<1>2. trace' = trace /\ lost' = lost /\ Recorded' = Recorded
  <2>1. trace' = trace /\ lost' = lost
    BY <1>1 DEF Otherwise, Enter, Run, Evaluate, Dispatch, StartPAA, Return, PredicateRaises,
       HandlerReturns, HandlerRaises, ToolReturns, ToolRaises, Cancel
  <2> QED BY <2>1 DEF Recorded
<1>3. \A s \in Calls \ {t} : pc'[s] = pc[s] /\ evaluated'[s] = evaluated[s] /\ cur'[s] = cur[s]
  BY <1>1, StepTouchesOne DEF Otherwise, Answer, Untouched
<1>4. \/ evaluated' = evaluated /\ (pc[t] = "idle" => evaluated[t] = {}) /\ pc'[t] # "emit"
      \/ /\ Evaluate(t) /\ pc[t] = "loop" /\ pc'[t] = "emit"
         /\ cur'[t] \notin evaluated[t] /\ evaluated'[t] = evaluated[t] \cup {cur'[t]}
  <2>1. CASE Evaluate(t)
    <3>1. PICK i \in Pos : /\ NextRule(t, i)
                           /\ evaluated' = [evaluated EXCEPT ![t] = @ \cup {i}]
                           /\ cur' = [cur EXCEPT ![t] = i]
      BY <2>1 DEF Evaluate
    <3>2. pc[t] = "loop" /\ pc'[t] = "emit"
      BY <1>1, <2>1 DEF TypeOK, Evaluate, Goto
    <3>3. i \notin evaluated[t] /\ cur'[t] = i /\ evaluated'[t] = evaluated[t] \cup {i}
      BY <1>1, <3>1 DEF TypeOK, NextRule
    <3> QED BY <2>1, <3>2, <3>3
  <2>2. CASE ~Evaluate(t)
    <3>1. evaluated' = evaluated
      BY <2>2 DEF Otherwise, Enter, Run, Dispatch, StartPAA, Return, PredicateRaises,
         HandlerReturns, HandlerRaises, ToolReturns, ToolRaises, Cancel, Verdicts
    <3>2. pc'[t] # "emit"
      BY <1>1, <2>2 DEF Otherwise, Enter, Run, Dispatch, StartPAA, Return, PredicateRaises,
         HandlerReturns, HandlerRaises, ToolReturns, ToolRaises, Cancel, AfterRoute, TypeOK, Goto, End
    <3> QED BY <1>1, <3>1, <3>2 DEF CallInv
  <2> QED BY <2>1, <2>2
<1>5. ASSUME NEW s \in Calls, s # t  PROVE (Closed(s) => Closed(s)') /\ (Level(s) => Level(s)')
  BY <1>2, <1>3, <1>5 DEF Closed, Level, Before
<1>6. Closed(t) => Closed(t)'
  <2>1. CASE evaluated' = evaluated
    BY <1>2, <2>1 DEF Closed, Before
  <2>2. CASE cur'[t] \notin evaluated[t] /\ evaluated'[t] = evaluated[t] \cup {cur'[t]}
    <3>1. <<t, cur'[t]>> \notin Recorded
      BY <2>2 DEF EventsInv, Truthful, Recorded
    <3>2. \A j \in evaluated[t] : ~Before(cur'[t], j)
      <4>1. \A j \in evaluated[t] : Before(j, cur'[t])
        <5>1. \A j \in evaluated'[t] : j = cur'[t] \/ Before(j, cur'[t])
          BY <1>1 DEF CallInv, Before
        <5> QED BY <2>2, <5>1
      <4>2. \A j \in evaluated[t] : j \in Pos /\ cur'[t] \in Pos
        BY <1>1, <2>2 DEF TypeOK
      <4>3. ASSUME NEW i \in Pos, NEW j \in Pos, Before(i, j), Before(j, i)  PROVE FALSE
        <5>1. i \in Nat /\ j \in Nat /\ PointRank[Rules[i].verif] \in Nat /\ PointRank[Rules[j].verif] \in Nat
          BY RulesAreInline DEF PointRank
        <5> QED BY <4>3, <5>1 DEF Before
      <4> QED BY <4>1, <4>2, <4>3
    <3>3. ASSUME Closed(t), NEW i \in evaluated'[t], NEW j \in evaluated'[t],
                 Before(i, j), <<t, j>> \in Recorded
          PROVE  <<t, i>> \in Recorded \cup rejected
      <4>1. j # cur'[t]
        BY <3>1, <3>3
      <4>2. i # cur'[t]
        BY <2>2, <3>2, <3>3, <4>1
      <4> QED BY <2>2, <3>3, <4>1, <4>2 DEF Closed
    <3> QED BY <1>2, <3>3 DEF Closed, Before
  <2> QED BY <1>4, <2>1, <2>2
<1>7. Level(t) => Level(t)'
  <2>1. CASE evaluated' = evaluated /\ (pc[t] = "idle" => evaluated[t] = {})
    <3>1. pc[t] = "done" => FALSE
      BY <1>1 DEF Otherwise, Enter, Run, Evaluate, Dispatch, StartPAA, Return, PredicateRaises,
       HandlerReturns, HandlerRaises, ToolReturns, ToolRaises, Cancel
    <3> QED BY <1>1, <1>2, <2>1, <3>1 DEF Level
  <2>2. CASE /\ pc[t] = "loop" /\ pc'[t] = "emit"
             /\ evaluated'[t] = evaluated[t] \cup {cur'[t]}
    BY <1>2, <2>2 DEF Level
  <2> QED BY <1>4, <2>1, <2>2
<1>8. \A s \in Calls : (Closed(s) => Closed(s)') /\ (Level(s) => Level(s)')
  BY <1>5, <1>6, <1>7
<1>9. Emitted'
  <2>1. ASSUME NEW s \in Calls, NEW i, <<s, i>> \in lost'
        PROVE  i \in evaluated'[s] /\ ~(pc'[s] = "emit" /\ i = cur'[s])
    <3>1. i \in evaluated[s] /\ ~(pc[s] = "emit" /\ i = cur[s])
      BY <1>2, <2>1 DEF TrailInv, Emitted
    <3>2. CASE s # t
      BY <1>3, <3>1, <3>2
    <3>3. CASE s = t /\ evaluated' = evaluated /\ pc'[t] # "emit"
      BY <3>1, <3>3
    <3>4. CASE s = t /\ cur'[t] \notin evaluated[t] /\ evaluated'[t] = evaluated[t] \cup {cur'[t]}
      BY <3>1, <3>4
    <3> QED BY <1>4, <3>2, <3>3, <3>4
  <2> QED BY <2>1 DEF Emitted
<1> QED BY <1>2, <1>8, <1>9 DEF TrailInv

\* Another toolset or process leaves the trail alone; a process finds no call on
\* its way.
LEMMA FreshStep ==
    ASSUME TrailInv, FreshToolset, rows' = rows, rejected' = rejected,
           \/ last' = last
           \/ last' = LastChainHash(rows) /\ \A t \in Calls : pc[t] \in {"idle", "done"}
    PROVE  TrailInv'
<1>1. /\ pc' = pc /\ evaluated' = evaluated /\ cur' = cur /\ trace' = trace /\ lost' = lost
      /\ Recorded' = Recorded
  BY DEF FreshToolset, callVars, Recorded
<1>2. \A t \in Calls : (Closed(t) => Closed(t)') /\ (Level(t) => Level(t)')
  BY <1>1 DEF Closed, Level, Before
<1>3. CASE last' = last
  BY <1>1, <1>2, <1>3 DEF TrailInv, Emitted
<1>4. CASE last' = LastChainHash(rows) /\ \A t \in Calls : pc[t] \in {"idle", "done"}
  <2>1. IsChain(rows) /\ last' = Newest(rows)
    BY <1>4, RecoversNewest DEF TrailInv
  <2>2. Newest(rows) \in Seq(TraceEvent) /\ Len(Newest(rows)) \in Nat
    <3>1. Newest(rows) \in Seq(TraceEvent)
      BY <2>1, NewestTyped
    <3> QED BY <3>1
  <2>3. \A t \in Calls : Level(t)'
    BY <1>1, <1>4 DEF Level
  <2> QED BY <1>1, <1>2, <2>1, <2>2, <2>3 DEF TrailInv, Emitted
<1> QED BY <1>3, <1>4

\* The chain of a stored trail tells of what is lost, and a chain that verifies
\* leaves nothing out of a call up to its last record (TrailTellsLoss).
THEOREM TrailTheorem == TSpec => []TrailTellsLoss
<1>1. TInit => TrailInv
  <2> SUFFICES ASSUME TInit  PROVE TrailInv
    OBVIOUS
  <2>1. rows = <<>> /\ last = <<>> /\ \A t \in Calls : evaluated[t] = {} /\ pc[t] = "idle"
    BY DEF TInit, SInit, Init, GENESIS_PREV_HASH
  <2>2. IsChain(rows) /\ Newest(rows) = <<>>
    BY <2>1 DEF IsChain, Newest
  <2>3. Verifies(rows)
    BY <2>1, <2>2, VerifiesIffLinked
  <2>4. \A t \in Calls : Closed(t) /\ Level(t)
    BY <2>1 DEF Closed, Level
  <2>5. lost = {} /\ rejected = {}
    BY DEF TInit, SInit, Init
  <2> QED BY <2>1, <2>2, <2>3, <2>4, <2>5 DEF TrailInv, Emitted
<1>2. SInv /\ SInv' /\ EventsInv /\ TrailInv /\ [TNext]_<<vars, toolsets, storeVars>> => TrailInv'
  <2> SUFFICES ASSUME SInv, SInv', EventsInv, TrailInv, [TNext]_<<vars, toolsets, storeVars>>
               PROVE  TrailInv'
    OBVIOUS
  <2>1. CASE UNCHANGED <<vars, toolsets, storeVars>>
    BY <2>1 DEF vars, callVars, storeVars, TrailInv, Emitted, Closed, Level, Recorded, Before
  <2>2. ASSUME NEW t \in Calls, StoreAppends(t)  PROVE TrailInv'
    BY <2>2, StoreStep DEF StoreAppends, EmitPersists, Verdicts
  <2>3. ASSUME NEW t \in Calls, StoreRaises(t)  PROVE TrailInv'
    <3>1. /\ pc[t] = "emit" /\ AfterEmit(t) /\ lost' = lost \cup {<<t, cur[t]>>}
          /\ evaluated' = evaluated /\ cur' = cur /\ last' = Chained(t).chain_hash
      BY <2>3 DEF StoreRaises, EmitFails, Verdicts
    <3>2. CASE trace' = trace
      <4>1. <<t, cur[t]>> \notin rejected
        BY <3>1 DEF TrailInv, Emitted
      <4> QED BY <2>3, <3>1, <3>2, <4>1, LossStep DEF StoreRaises
    <3>3. CASE trace' # trace
      <4>1. Persist(t) /\ rows' = Append(rows, Chained(t)) /\ rejected' = rejected
        BY <2>3, <3>1, <3>3 DEF StoreRaises, EmitFails
      <4> QED BY <3>1, <4>1, StoreStep
    <3> QED BY <3>2, <3>3
  <2>7. ASSUME NEW t \in Calls, StoreRejects(t)  PROVE TrailInv'
    BY <2>7, RejectStep DEF StoreRejects, EmitFails, Verdicts
  <2>4. ASSUME NEW t \in Calls, Settled, Otherwise(t), UNCHANGED storeVars  PROVE TrailInv'
    BY <2>4, OtherStep DEF storeVars
  <2>5. CASE FreshToolset /\ UNCHANGED storeVars
    BY <2>5, FreshStep DEF storeVars
  <2>6. CASE Reopen
    BY <2>6, FreshStep DEF Reopen
  <2> QED BY <2>1, <2>2, <2>3, <2>4, <2>5, <2>6, <2>7 DEF TNext
<1>3. TrailInv => TrailTellsLoss
  BY DEF TrailInv, TrailTellsLoss, Closed
<1> QED BY <1>1, <1>2, <1>3, TrailIsSession, SessionInvariant, SessionEvents, PTL DEF TSpec

=============================================================================
