----------------------- MODULE EscalationHandlersProofs -----------------------
(***************************************************************************)
(* What the handlers promise for every number of refunds and requests,     *)
(* every size of the thread pool and every script of the reviewer.         *)
(***************************************************************************)
EXTENDS EscalationHandlers, TLAPS

Active(t) == pc[t] \in {"emit", "route"}

\* Where a call stands: which rule it can be at, and how it can have ended.
Control ==
    \A t \in Calls :
        /\ pc[t] # "idle" => rule[t] \in {1, 2}
        /\ pc[t] = "over" <=> result[t] # "none"
        /\ Active(t) /\ rule[t] = 1 => (t \in fired <=> t \in high)
        /\ pc[t] = "route" => t \in fired

\* What decides a high refund is known before its hard rule is evaluated, and
\* that rule repeats it.
Decided ==
    /\ handler # "reviewer" => \A q \in Requests : decisions[q] = "none"
    /\ handler # "reviewer" => \A t \in Calls : handled[t] = "none"
    /\ \A t \in Calls : pc[t] = "idle" \/ (Active(t) /\ rule[t] = 1) => handled[t] = "none"
    /\ \A t \in high : Active(t) /\ rule[t] = 2 => (t \in fired <=> handled[t] # "approve")

\* A request belongs to a call that waits for it, until the call is cancelled,
\* and each alert a call has got past is accounted for.
Alerts ==
    /\ handler # "webhook" => \A t \in Calls : job[t] = "none"
    /\ \A t \in Calls : job[t] # "none" => pc[t] = "route" \/ result[t] = "cancelled"
    /\ \A t \in Calls : pc[t] = "route" /\ job[t] = "ok" => <<t, rule[t]>> \in received
    /\ handler = "webhook" =>
           \A t \in high : Active(t) /\ rule[t] = 2 => <<t, 1>> \in received \cup logged

IInv == TypeOK /\ Control /\ Decided /\ Alerts /\ OwnReviewDecides /\ AlertAccounted

\* The invariant holds at the start.
LEMMA InitIInv == Init => IInv
<1> SUFFICES ASSUME Init PROVE IInv
    OBVIOUS
<1> USE RequestAssumption, ScriptsAssumption DEF Init, Active
<1>1. TypeOK
  BY DEF TypeOK, Answers
<1>2. Control /\ Decided /\ Alerts
  BY DEF Control, Decided, Alerts
<1>3. OwnReviewDecides /\ AlertAccounted
  BY DEF OwnReviewDecides, AlertAccounted
<1> QED BY <1>1, <1>2, <1>3 DEF IInv

\* What the end of a handler does, once its alert is accounted for: the hard
\* rule is evaluated on the ledger as the handler has left it, or denies.
LEMMA EndOfHandler ==
    ASSUME IInv, NEW t \in Calls, pc[t] = "route", NEW ledger, AfterRoute(t, ledger),
           handler' = handler, high' = high,
           decisions' = ledger, ledger \in [Requests -> Answers \cup {"none"}],
           handler # "reviewer" => ledger = decisions /\ handled' = handled,
           responses' \in Seq(Answers),
           answer' \in [Calls -> Answers \cup {"none"}],
           handled' \in [Calls -> Answers \cup {"none"}],
           \A s \in Calls \ {t} : handled'[s] = handled[s],
           rule[t] = 2 => handled'[t] = handled[t],
           handler = "reviewer" /\ rule[t] = 1 => handled'[t] = ledger[request[t]],
           job' = [job EXCEPT ![t] = "none"],
           received' = received, logged' \in {logged, logged \cup {<<t, rule[t]>>}},
           handler = "webhook" => <<t, rule[t]>> \in received \cup logged'
    PROVE  IInv'
<1> USE RequestAssumption DEF IInv, TypeOK, Control, Active, Answers
<1>0. rule[t] \in {1, 2} /\ t \in high /\ t \in fired /\ result[t] = "none"
  OBVIOUS
<1>1. CASE rule[t] = 1
  <2>1. Check(t, 2, ledger)
    BY <1>1 DEF AfterRoute
  <2>2. /\ pc' = [pc EXCEPT ![t] = "emit"]
        /\ rule' = [rule EXCEPT ![t] = 2]
        /\ fired' = IF ledger[request[t]] # "approve" THEN fired \cup {t} ELSE fired \ {t}
        /\ result' = result
    BY <2>1, <1>0 DEF Check, Fires
  <2>3. TypeOK'
    BY <2>2, <1>0
  <2>4. Control'
    BY <2>2, <1>0
  <2>5. handled'[t] # "approve" <=> ledger[request[t]] # "approve"
    BY <1>1, <1>0 DEF Decided
  <2>6. Decided'
    BY <2>2, <2>5, <1>0, <1>1 DEF Decided
  <2>7. Alerts'
    <3>1. handler' = "webhook" =>
              \A s \in high' : Active(s)' /\ rule'[s] = 2 => <<s, 1>> \in received' \cup logged'
      BY <2>2, <1>0, <1>1, ZenonT(30) DEF Alerts
    <3>2. \A s \in Calls : pc'[s] = "route" /\ job'[s] = "ok" => <<s, rule'[s]>> \in received'
      BY <2>2 DEF Alerts
    <3>3. \A s \in Calls : job'[s] # "none" => pc'[s] = "route" \/ result'[s] = "cancelled"
      BY <2>2 DEF Alerts
    <3> QED BY <3>1, <3>2, <3>3 DEF Alerts
  <2>8. OwnReviewDecides' /\ AlertAccounted'
    BY <2>2, <1>0, <1>1 DEF OwnReviewDecides, AlertAccounted
  <2> QED BY <2>3, <2>4, <2>6, <2>7, <2>8
<1>2. CASE rule[t] = 2
  <2>1. End(t, "violation")
    BY <1>2 DEF AfterRoute
  <2>2. /\ pc' = [pc EXCEPT ![t] = "over"]
        /\ result' = [result EXCEPT ![t] = "violation"]
        /\ rule' = rule /\ fired' = fired
    BY <2>1 DEF End
  <2>3. TypeOK'
    BY <2>2, <1>0
  <2>4. Control'
    BY <2>2
  <2>5. Decided'
    BY <2>2, <1>2 DEF Decided
  <2>6. Alerts'
    <3>1. handler' = "webhook" =>
              \A s \in high' : Active(s)' /\ rule'[s] = 2 => <<s, 1>> \in received' \cup logged'
      BY <2>2 DEF Alerts
    <3>2. \A s \in Calls : pc'[s] = "route" /\ job'[s] = "ok" => <<s, rule'[s]>> \in received'
      BY <2>2 DEF Alerts
    <3>3. \A s \in Calls : job'[s] # "none" => pc'[s] = "route" \/ result'[s] = "cancelled"
      BY <2>2 DEF Alerts
    <3> QED BY <3>1, <3>2, <3>3 DEF Alerts
  <2>7. OwnReviewDecides'
    BY <2>2, <1>0, <1>2 DEF OwnReviewDecides, Decided
  <2>8. AlertAccounted'
    <3>1. handler = "webhook" => <<t, 1>> \in received \cup logged /\ <<t, 2>> \in received \cup logged'
      BY <1>0, <1>2 DEF Alerts
    <3>2. handler = "webhook" =>
              {<<t, 1>>, <<t, 2>>} \subseteq received' \cup logged' /\ job'[t] = "none"
      BY <3>1
    <3>3. ASSUME NEW s \in high \ {t}, handler = "webhook", result[s] \in {"executed", "violation"}
          PROVE  {<<s, 1>>, <<s, 2>>} \subseteq received' \cup logged' /\ job'[s] = "none"
      BY <3>3 DEF AlertAccounted
    <3>4. \A s \in high \ {t} : result'[s] = result[s]
      BY <2>2
    <3>5. handler' = handler /\ high' = high
      OBVIOUS
    <3> SUFFICES ASSUME NEW s \in high, handler = "webhook", result'[s] \in {"executed", "violation"}
                 PROVE  {<<s, 1>>, <<s, 2>>} \subseteq received' \cup logged' /\ job'[s] = "none"
      BY <3>5 DEF AlertAccounted
    <3>6. CASE s = t
      BY <3>2, <3>6
    <3>7. CASE s # t
      BY <3>3, <3>4, <3>7
    <3> QED BY <3>6, <3>7
  <2> QED BY <2>3, <2>4, <2>5, <2>6, <2>7, <2>8
<1> QED BY <1>0, <1>1, <1>2

\* A call that evaluates its first rule, or ends other than by a denial.
LEMMA StartIInv == ASSUME IInv, NEW t \in Calls, Start(t) PROVE IInv'
<1> USE RequestAssumption DEF IInv, TypeOK, Control, Active, Answers, Start, reviewVars, webhookVars
<1>1. /\ pc' = [pc EXCEPT ![t] = "emit"]
      /\ rule' = [rule EXCEPT ![t] = 1]
      /\ fired' = IF t \in high THEN fired \cup {t} ELSE fired \ {t}
      /\ result' = result
  BY DEF Check, Fires
<1>2. TypeOK' /\ Control'
  BY <1>1
<1>3. Decided'
  BY <1>1 DEF Decided
<1>4. Alerts'
  BY <1>1 DEF Alerts
<1>5. OwnReviewDecides' /\ AlertAccounted'
  BY <1>1 DEF OwnReviewDecides, AlertAccounted
<1> QED BY <1>2, <1>3, <1>4, <1>5

\* The record is stored and the call goes on.
LEMMA EmittedIInv == ASSUME IInv, NEW t \in Calls, Emitted(t) PROVE IInv'
<1> USE RequestAssumption DEF IInv, TypeOK, Control, Active, Answers, Emitted, reviewVars, webhookVars
<1>1. CASE t \in fired /\ pc' = [pc EXCEPT ![t] = "route"] /\ UNCHANGED <<rule, fired, result>>
  <2>1. TypeOK' /\ Control'
    BY <1>1
  <2>2. Decided'
    BY <1>1 DEF Decided
  <2>3. Alerts'
    BY <1>1 DEF Alerts
  <2>4. OwnReviewDecides' /\ AlertAccounted'
    BY <1>1 DEF OwnReviewDecides, AlertAccounted
  <2> QED BY <2>1, <2>2, <2>3, <2>4
<1>2. CASE t \notin fired /\ rule[t] = 1 /\ Check(t, 2, decisions)
  <2>0. t \notin high
    BY <1>2
  <2>1. /\ pc' = [pc EXCEPT ![t] = "emit"]
        /\ rule' = [rule EXCEPT ![t] = 2]
        /\ fired' = fired /\ result' = result
    BY <1>2, <2>0 DEF Check, Fires
  <2>2. TypeOK' /\ Control'
    BY <2>1, <2>0
  <2>3. Decided'
    BY <2>1, <2>0 DEF Decided
  <2>4. Alerts'
    BY <2>1, <2>0 DEF Alerts
  <2>5. OwnReviewDecides' /\ AlertAccounted'
    BY <2>1 DEF OwnReviewDecides, AlertAccounted
  <2> QED BY <2>2, <2>3, <2>4, <2>5
<1>3. CASE t \notin fired /\ rule[t] = 2 /\ End(t, "executed")
  <2>1. /\ pc' = [pc EXCEPT ![t] = "over"]
        /\ result' = [result EXCEPT ![t] = "executed"]
        /\ rule' = rule /\ fired' = fired
    BY <1>3 DEF End
  <2>2. TypeOK' /\ Control'
    BY <2>1
  <2>3. t \in high => handled[t] = "approve" /\ handler = "reviewer"
    BY <1>3 DEF Decided
  <2>4. Decided'
    BY <2>1 DEF Decided
  <2>5. Alerts'
    BY <2>1 DEF Alerts
  <2>6. OwnReviewDecides' /\ AlertAccounted'
    BY <2>1, <2>3 DEF OwnReviewDecides, AlertAccounted
  <2> QED BY <2>2, <2>4, <2>5, <2>6
<1> QED BY <1>1, <1>2, <1>3

\* The reviewer: a response is taken, or recorded with its ledger entry.
LEMMA ReviewIInv ==
    ASSUME IInv, NEW t \in Calls, Ignore(t) \/ ReviewStarts(t) \/ ReviewEnds(t) PROVE IInv'
<1> USE RequestAssumption DEF IInv
<1>0. pc[t] = "route" => rule[t] \in {1, 2}
  BY DEF Control
<1>1. CASE Ignore(t)
  <2>1. rule[t] = 2
    BY <1>0, <1>1 DEF Ignore, Reviews
  <2>2. /\ handler = "reviewer" /\ pc[t] = "route" /\ AfterRoute(t, decisions)
        /\ UNCHANGED <<handler, high, decisions, responses, answer, handled, job, received, logged>>
    BY <1>1 DEF Ignore, Reviews, reviewVars, webhookVars
  <2>3. job' = [job EXCEPT ![t] = "none"]
    BY <2>2 DEF TypeOK, Alerts
  <2>4. /\ decisions \in [Requests -> Answers \cup {"none"}] /\ responses' \in Seq(Answers)
        /\ answer' \in [Calls -> Answers \cup {"none"}]
        /\ handled' \in [Calls -> Answers \cup {"none"}]
    BY <2>2 DEF TypeOK
  <2>5. /\ IInv /\ handler' = handler /\ high' = high /\ decisions' = decisions
        /\ handled' = handled /\ received' = received /\ logged' = logged
        /\ handler # "webhook"
    BY <2>2
  <2>6. /\ \A s \in Calls \ {t} : handled'[s] = handled[s]
        /\ rule[t] = 2 => handled'[t] = handled[t]
        /\ logged' \in {logged, logged \cup {<<t, rule[t]>>}}
    BY <2>5
  <2>7. /\ handler # "reviewer" => decisions = decisions /\ handled' = handled
        /\ handler = "reviewer" /\ rule[t] = 1 => handled'[t] = decisions[request[t]]
        /\ handler = "webhook" => <<t, rule[t]>> \in received \cup logged'
    BY <2>1, <2>5
  <2> HIDE DEF IInv
  <2> QED BY <2>2, <2>3, <2>4, <2>5, <2>6, <2>7, EndOfHandler, Zenon
<1>2. CASE ReviewStarts(t)
  <2>1. answer' \in [Calls -> Answers \cup {"none"}] /\ responses' \in Seq(Answers)
    <3>1. CASE responses = <<>>
      BY <1>2, <3>1 DEF ReviewStarts, TypeOK, Answers
    <3>2. CASE responses # <<>>
      <4>1. responses \in Seq(Answers)
        BY DEF TypeOK
      <4>2. Head(responses) \in Answers /\ Tail(responses) \in Seq(Answers)
        BY <3>2, <4>1
      <4> QED BY <1>2, <3>2, <4>2 DEF ReviewStarts, TypeOK
    <3> QED BY <3>1, <3>2
  <2>2. UNCHANGED <<handler, high, pc, rule, fired, result, decisions, handled, job, received, logged>>
    BY <1>2 DEF ReviewStarts, callVars, webhookVars
  <2> QED BY <2>1, <2>2 DEF TypeOK, Control, Decided, Alerts, Active, OwnReviewDecides, AlertAccounted
<1>3. CASE ReviewEnds(t)
  <2>1. PICK outcome \in {answer[t], "timeout"} \ {"none"} :
            /\ decisions' = [decisions EXCEPT ![request[t]] = outcome]
            /\ handled' = [handled EXCEPT ![t] = outcome]
            /\ AfterRoute(t, [decisions EXCEPT ![request[t]] = outcome])
    BY <1>3 DEF ReviewEnds, Recorded
  <2> DEFINE ledger == [decisions EXCEPT ![request[t]] = outcome]
  <2>2. outcome \in Answers /\ request[t] \in Requests
    BY <2>1 DEF TypeOK, Answers
  <2>3. handler = "reviewer" /\ pc[t] = "route" /\ rule[t] = 1
    BY <1>3 DEF ReviewEnds, Reviews
  <2>4. /\ ledger \in [Requests -> Answers \cup {"none"}] /\ ledger[request[t]] = outcome
        /\ handled' \in [Calls -> Answers \cup {"none"}] /\ handled'[t] = outcome
        /\ answer' \in [Calls -> Answers \cup {"none"}]
        /\ \A s \in Calls \ {t} : handled'[s] = handled[s]
    BY <1>3, <2>1, <2>2 DEF TypeOK, ReviewEnds, Recorded
  <2>5. /\ handler' = handler /\ high' = high /\ responses' = responses
        /\ job' = job /\ received' = received /\ logged' = logged
        /\ handler # "webhook"
    BY <1>3, <2>3 DEF ReviewEnds, webhookVars
  <2>6. job' = [job EXCEPT ![t] = "none"] /\ IInv
    BY <2>3, <2>5 DEF TypeOK, Alerts
  <2>7. AfterRoute(t, ledger) /\ decisions' = ledger /\ responses' \in Seq(Answers)
    BY <2>1, <2>5 DEF TypeOK
  <2>8. /\ rule[t] = 2 => handled'[t] = handled[t]
        /\ logged' \in {logged, logged \cup {<<t, rule[t]>>}}
        /\ handler = "webhook" => <<t, rule[t]>> \in received \cup logged'
    BY <2>3, <2>5
  <2>9. /\ handler # "reviewer" => ledger = decisions /\ handled' = handled
        /\ handler = "reviewer" /\ rule[t] = 1 => handled'[t] = ledger[request[t]]
    BY <2>3, <2>4
  <2> HIDE DEF ledger, IInv
  <2> QED BY <2>2, <2>3, <2>4, <2>5, <2>6, <2>7, <2>8, <2>9, EndOfHandler, Zenon
<1> QED BY <1>1, <1>2, <1>3

\* The end of a handler that leaves the ledger and the reviews alone.
LEMMA EndOfAlert ==
    ASSUME IInv, NEW t \in Calls, pc[t] = "route", handler # "reviewer",
           AfterRoute(t, decisions), UNCHANGED <<handler, high, reviewVars, received>>,
           job' = [job EXCEPT ![t] = "none"],
           logged' \in {logged, logged \cup {<<t, rule[t]>>}},
           handler = "webhook" => <<t, rule[t]>> \in received \cup logged'
    PROVE  IInv'
<1>1. /\ decisions \in [Requests -> Answers \cup {"none"}] /\ responses' \in Seq(Answers)
      /\ answer' \in [Calls -> Answers \cup {"none"}]
      /\ handled' \in [Calls -> Answers \cup {"none"}]
  BY DEF IInv, TypeOK, reviewVars
<1>2. /\ decisions' = decisions /\ handled' = handled
      /\ handler' = handler /\ high' = high /\ received' = received
  BY DEF reviewVars
<1> QED BY <1>1, <1>2, EndOfHandler

\* The default handler and the webhook: what a handler reports, and how its
\* request moves through the pool.
LEMMA AlertIInv ==
    ASSUME IInv, NEW t \in Calls,
           DefaultHandler(t) \/ BuildRaises(t) \/ HandlerResumes(t)
    PROVE  IInv'
<1> USE DEF IInv
<1>1. CASE DefaultHandler(t) \/ BuildRaises(t)
  <2>1. /\ pc[t] = "route" /\ handler # "reviewer" /\ AfterRoute(t, decisions)
        /\ logged' = logged \cup {<<t, rule[t]>>}
        /\ UNCHANGED <<handler, high, reviewVars, received>> /\ job' = job /\ job[t] = "none"
    BY <1>1 DEF DefaultHandler, BuildRaises, Log, Alerts
  <2>2. job' = [job EXCEPT ![t] = "none"]
    BY <2>1 DEF TypeOK
  <2> QED BY <2>1, <2>2, EndOfAlert
<1>2. CASE HandlerResumes(t)
  <2>1. /\ pc[t] = "route" /\ handler = "webhook" /\ AfterRoute(t, decisions)
        /\ UNCHANGED <<handler, high, reviewVars, received>> /\ job' = [job EXCEPT ![t] = "none"]
    BY <1>2 DEF HandlerResumes, Alerts
  <2>2. /\ logged' \in {logged, logged \cup {<<t, rule[t]>>}}
        /\ <<t, rule[t]>> \in received \cup logged'
    BY <1>2 DEF HandlerResumes, Log, Alerts
  <2> QED BY <2>1, <2>2, EndOfAlert
<1> QED BY <1>1, <1>2

LEMMA PoolIInv ==
    ASSUME IInv, NEW t \in Calls, Submit(t) \/ ThreadStarts(t) \/ ThreadEnds(t) PROVE IInv'
<1> USE DEF IInv
<1>1. UNCHANGED <<callVars, reviewVars, logged>>
  BY DEF Submit, ThreadStarts, ThreadEnds
<1>2. UNCHANGED <<handler, high, pc, rule, fired, result, decisions, responses, answer, handled, logged>>
  BY <1>1 DEF callVars, reviewVars
<1>3. PICK state \in {"queued", "running", "ok", "failed"} :
          /\ job' = [job EXCEPT ![t] = state]
          /\ received' \in {received, received \cup {<<t, rule[t]>>}}
          /\ state = "ok" => <<t, rule[t]>> \in received'
          /\ pc[t] = "route" \/ result[t] = "cancelled"
          /\ handler = "webhook"
  <2>1. CASE Submit(t)
    BY <2>1 DEF Submit
  <2>2. CASE ThreadStarts(t)
    BY <2>2 DEF ThreadStarts, Alerts
  <2>3. CASE ThreadEnds(t)
    BY <2>3 DEF ThreadEnds, Alerts
  <2> QED BY <2>1, <2>2, <2>3
<1>4. rule[t] \in {1, 2}
  BY <1>3 DEF Control, TypeOK
<1>5. TypeOK'
  BY <1>2, <1>3, <1>4 DEF TypeOK
<1>6. Control' /\ Decided'
  BY <1>2 DEF Control, Decided, Active
<1>7. Alerts'
  BY <1>2, <1>3, SMTT(30) DEF Alerts, Active, TypeOK
<1>8. OwnReviewDecides'
  BY <1>2 DEF OwnReviewDecides
<1>9. AlertAccounted'
  BY <1>2, <1>3 DEF AlertAccounted, Alerts, Control, TypeOK
<1> QED BY <1>5, <1>6, <1>7, <1>8, <1>9

LEMMA CancelIInv == ASSUME IInv, NEW t \in Calls, Cancel(t) PROVE IInv'
<1> USE DEF IInv, TypeOK
<1>1. /\ pc' = [pc EXCEPT ![t] = "over"]
      /\ result' = [result EXCEPT ![t] = "cancelled"]
      /\ answer' = [answer EXCEPT ![t] = "none"]
      /\ job' = [job EXCEPT ![t] = IF @ = "queued" THEN "none" ELSE @]
      /\ UNCHANGED <<handler, high, rule, fired, decisions, responses, handled, received, logged>>
  BY DEF Cancel, End
<1>2. TypeOK'
  BY <1>1
<1>3. Control'
  BY <1>1 DEF Control, Active, Cancel
<1>4. Decided'
  BY <1>1 DEF Decided, Active
<1>5. Alerts'
  BY <1>1 DEF Alerts, Active
<1>6. OwnReviewDecides'
  BY <1>1 DEF OwnReviewDecides
<1>7. AlertAccounted'
  <2>1. \A s \in Calls \ {t} : result'[s] = result[s] /\ job'[s] = job[s]
    BY <1>1
  <2>2. /\ result'[t] = "cancelled" /\ handler' = handler
        /\ high' = high /\ received' = received /\ logged' = logged
    BY <1>1
  <2> SUFFICES ASSUME NEW s \in high, handler = "webhook", result'[s] \in {"executed", "violation"}
               PROVE  {<<s, 1>>, <<s, 2>>} \subseteq received' \cup logged' /\ job'[s] = "none"
    BY <2>2 DEF AlertAccounted
  <2>3. s # t
    BY <2>2
  <2>4. result[s] \in {"executed", "violation"} /\ job'[s] = job[s]
    BY <2>1, <2>3
  <2>5. {<<s, 1>>, <<s, 2>>} \subseteq received \cup logged /\ job[s] = "none"
    BY <2>4 DEF AlertAccounted
  <2> QED BY <2>2, <2>4, <2>5
<1> QED BY <1>2, <1>3, <1>4, <1>5, <1>6, <1>7

LEMMA NextIInv == IInv /\ [Next]_vars => IInv'
<1> SUFFICES ASSUME IInv, [Next]_vars PROVE IInv'
    OBVIOUS
<1>1. CASE Next
  <2>1. PICK t \in Calls :
            \/ Start(t) \/ Emitted(t) \/ Handle(t) \/ Cancel(t)
            \/ ThreadStarts(t) \/ ThreadEnds(t)
    BY <1>1 DEF Next
  <2> QED BY <2>1, StartIInv, EmittedIInv, ReviewIInv, AlertIInv, PoolIInv, CancelIInv DEF Handle
<1>2. CASE UNCHANGED vars
  BY <1>2 DEF vars, callVars, reviewVars, webhookVars, IInv, TypeOK, Control, Decided, Alerts,
        Active, OwnReviewDecides, AlertAccounted
<1> QED BY <1>1, <1>2

LEMMA SpecIInv == Spec => []IInv
<1> QED BY InitIInv, NextIInv, PTL DEF Spec

\* Every ledger, response, alert and webhook request stays in its domain.
THEOREM HandlersTypes == Spec => []TypeOK
<1>1. IInv => TypeOK
  BY DEF IInv
<1> QED BY <1>1, SpecIInv, PTL

\* For any number of refunds, whichever of them share a request, a high refund
\* is issued exactly on the word of its own review.
THEOREM ReviewDecides == Spec => []OwnReviewDecides
<1>1. IInv => OwnReviewDecides
  BY DEF IInv
<1> QED BY <1>1, SpecIInv, PTL

\* For any number of alerts and threads, no webhook alert of a call that has
\* ended by itself is lost without a log line.
THEOREM AlertsAccounted == Spec => []AlertAccounted
<1>1. IInv => AlertAccounted
  BY DEF IInv
<1> QED BY <1>1, SpecIInv, PTL
=============================================================================
