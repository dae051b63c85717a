------------------------- MODULE EscalationHandlers -------------------------
(***************************************************************************)
(* What happens behind EscalationRouter.route, which Governance leaves to  *)
(* the environment: the handlers themselves, under concurrent calls.       *)
(*                                                                         *)
(*   "default"   the structured log of escalation.py;                      *)
(*   "webhook"   WebhookEscalationHandler (handlers.py): an HTTP request   *)
(*               in a thread of the event loop's pool;                     *)
(*   "reviewer"  the handler of examples/human_escalation, which waits for *)
(*               a person and writes the answer to an approval ledger.     *)
(*                                                                         *)
(* The calls are the refunds of examples/human_escalation under its spec:  *)
(* rule 1, ce_needs_review, notifies; rule 2, ch_blocked_unless_approved,  *)
(* is the gate and reads the ledger.  A call waits at "emit" (the memory)  *)
(* and at "route" (the handler).                                           *)
(***************************************************************************)
EXTENDS Naturals, Sequences, FiniteSets

CONSTANTS
    Calls,      \* concurrent refunds through one GovernanceToolset
    Requests,   \* the request ids that key the ledger
    request,    \* the request id in each call's arguments
    Workers,    \* threads in the executor that asyncio.to_thread uses
    Scripts     \* what the reviewer may be scripted to answer, in order

Answers == {"approve", "deny", "timeout"}

ASSUME CallsAssumption == IsFiniteSet(Calls)
ASSUME RequestAssumption == request \in [Calls -> Requests]
ASSUME WorkersAssumption == Workers \in Nat \ {0}
ASSUME ScriptsAssumption == Scripts \subseteq Seq(Answers)

VARIABLES
    handler,    \* the handler the router was built with
    high,       \* the calls whose amount is at least 1000
    pc,         \* per call: "idle", "emit", "route" or "over"
    rule,       \* per call: the rule it is at, 0 before the first
    fired,      \* the calls whose rule, the one they are at, has fired
    result,     \* per call: how it ended
    decisions,  \* ApprovalLedger.decisions: per request, "none" when absent
    responses,  \* the reviewer's scripted answers that are left
    answer,     \* per call: the scripted answer its review waits for
    handled,    \* per call: the outcome its review recorded
    job,        \* per call: its webhook request in the thread pool
    received,   \* <<call, rule>> of the alerts the endpoint has received
    logged      \* <<call, rule>> of the alerts whose failure was logged

callVars == <<handler, high, pc, rule, fired, result>>
reviewVars == <<decisions, responses, answer, handled>>
webhookVars == <<job, received, logged>>
vars == <<callVars, reviewVars, webhookVars>>

-----------------------------------------------------------------------------
Init ==
    /\ handler \in {"default", "webhook", "reviewer"}
    /\ high \in SUBSET Calls
    /\ pc = [t \in Calls |-> "idle"]
    /\ rule = [t \in Calls |-> 0]
    /\ fired = {}
    /\ result = [t \in Calls |-> "none"]
    /\ decisions = [q \in Requests |-> "none"]
    /\ responses \in Scripts
    /\ answer = [t \in Calls |-> "none"]
    /\ handled = [t \in Calls |-> "none"]
    /\ job = [t \in Calls |-> "none"]
    /\ received = {}
    /\ logged = {}

\* Rule 2 fires unless the ledger holds an approval of the request, by
\* whomever; the amount is no part of the key.
Fires(t, r, ledger) == t \in high /\ (r = 2 => ledger[request[t]] # "approve")

\* call_tool evaluates rule r and awaits its record.
Check(t, r, ledger) ==
    /\ pc' = [pc EXCEPT ![t] = "emit"]
    /\ rule' = [rule EXCEPT ![t] = r]
    /\ fired' = IF Fires(t, r, ledger) THEN fired \cup {t} ELSE fired \ {t}
    /\ UNCHANGED result

End(t, how) ==
    /\ pc' = [pc EXCEPT ![t] = "over"]
    /\ result' = [result EXCEPT ![t] = how]
    /\ UNCHANGED <<rule, fired>>

Start(t) ==
    /\ pc[t] = "idle"
    /\ Check(t, 1, decisions)
    /\ UNCHANGED <<handler, high, reviewVars, webhookVars>>

\* The record is stored.  A fired rule goes to the handler; the others let the
\* call go on, past rule 2 to the refund itself, which does not suspend.
Emitted(t) ==
    /\ pc[t] = "emit"
    /\ \/ /\ t \in fired
          /\ pc' = [pc EXCEPT ![t] = "route"]
          /\ UNCHANGED <<rule, fired, result>>
       \/ t \notin fired /\ rule[t] = 1 /\ Check(t, 2, decisions)
       \/ t \notin fired /\ rule[t] = 2 /\ End(t, "executed")
    /\ UNCHANGED <<handler, high, reviewVars, webhookVars>>

\* Mutant of AfterRoute: reads the ledger as it was when the handler was called.
AfterRoute_StaleLedger(t, ledger) ==
    \/ rule[t] = 1 /\ Check(t, 2, decisions)
    \/ rule[t] = 2 /\ End(t, "violation")

\* Nothing suspends between the handler's last line and the next predicate.
AfterRoute(t, ledger) ==
    \/ rule[t] = 1 /\ Check(t, 2, ledger)
    \/ rule[t] = 2 /\ End(t, "violation")

Log(t) == logged' = logged \cup {<<t, rule[t]>>}

DefaultHandler(t) ==
    /\ handler = "default" /\ pc[t] = "route"
    /\ Log(t)
    /\ AfterRoute(t, decisions)
    /\ UNCHANGED <<handler, high, reviewVars, job, received>>

-----------------------------------------------------------------------------
(* The reviewer.                                                           *)

\* Mutant of Reviews: the paired hard rule asks the reviewer too.
Reviews_EveryRule(t) == handler = "reviewer" /\ pc[t] = "route"

\* The handler asks only for rule 1.
Reviews(t) == handler = "reviewer" /\ pc[t] = "route" /\ rule[t] = 1

\* The hard rule's alert must not consume a response.
Ignore(t) ==
    /\ handler = "reviewer" /\ pc[t] = "route" /\ ~Reviews(t)
    /\ AfterRoute(t, decisions)
    /\ UNCHANGED <<handler, high, reviewVars, webhookVars>>

\* review() takes the next response; with none left it answers "timeout".
ReviewStarts(t) ==
    /\ Reviews(t) /\ answer[t] = "none"
    /\ IF responses = <<>>
       THEN answer' = [answer EXCEPT ![t] = "timeout"] /\ UNCHANGED responses
       ELSE /\ answer' = [answer EXCEPT ![t] = Head(responses)]
            /\ responses' = Tail(responses)
    /\ UNCHANGED <<callVars, decisions, handled, webhookVars>>

\* ApprovalLedger.record: the key is the request, the last outcome stays.
Recorded(t, outcome) == [decisions EXCEPT ![request[t]] = outcome]

\* wait_for returns the answer, or "timeout" when its deadline comes first,
\* even before review() has started.  The ledger is written whatever it says.
ReviewEnds(t) ==
    /\ Reviews(t)
    /\ \E outcome \in {answer[t], "timeout"} \ {"none"} :
        /\ decisions' = Recorded(t, outcome)
        /\ handled' = [handled EXCEPT ![t] = outcome]
        /\ AfterRoute(t, Recorded(t, outcome))
    /\ answer' = [answer EXCEPT ![t] = "none"]
    /\ UNCHANGED <<handler, high, responses, webhookVars>>

-----------------------------------------------------------------------------
(* The webhook.                                                            *)

\* Building the payload or the request raises before the handler's try; the
\* router logs it and goes on.
BuildRaises(t) ==
    /\ handler = "webhook" /\ pc[t] = "route" /\ job[t] = "none"
    /\ Log(t)
    /\ AfterRoute(t, decisions)
    /\ UNCHANGED <<handler, high, reviewVars, job, received>>

\* asyncio.to_thread queues _send for the pool.
Submit(t) ==
    /\ handler = "webhook" /\ pc[t] = "route" /\ job[t] = "none"
    /\ job' = [job EXCEPT ![t] = "queued"]
    /\ UNCHANGED <<callVars, reviewVars, received, logged>>

Busy == {t \in Calls : job[t] = "running"}

ThreadStarts(t) ==
    /\ job[t] = "queued"
    /\ Cardinality(Busy) < Workers
    /\ job' = [job EXCEPT ![t] = "running"]
    /\ UNCHANGED <<callVars, reviewVars, received, logged>>

\* Mutant of ThreadEnds: the thread waits for its call to take the result.
ThreadEnds_NeedsCaller(t) ==
    /\ job[t] = "running" /\ pc[t] = "route"
    /\ \/ job' = [job EXCEPT ![t] = "ok"] /\ received' = received \cup {<<t, rule[t]>>}
       \/ job' = [job EXCEPT ![t] = "failed"] /\ UNCHANGED received
    /\ UNCHANGED <<callVars, reviewVars, logged>>

\* urlopen returns a status below 400, or raises: an HTTP error or an answer
\* that came too late for an alert the endpoint has, or no delivery at all.
ThreadEnds(t) ==
    /\ job[t] = "running"
    /\ \/ job' = [job EXCEPT ![t] = "ok"] /\ received' = received \cup {<<t, rule[t]>>}
       \/ /\ job' = [job EXCEPT ![t] = "failed"]
          /\ received' \in {received, received \cup {<<t, rule[t]>>}}
    /\ UNCHANGED <<callVars, reviewVars, logged>>

\* Mutant of HandlerResumes: an error of the request is swallowed in silence.
HandlerResumes_Silent(t) ==
    /\ pc[t] = "route" /\ job[t] \in {"ok", "failed"}
    /\ job' = [job EXCEPT ![t] = "none"]
    /\ AfterRoute(t, decisions)
    /\ UNCHANGED <<handler, high, reviewVars, received, logged>>

\* The awaiting coroutine gets what the thread returned or raised; it logs every
\* failure and retries none.
HandlerResumes(t) ==
    /\ pc[t] = "route" /\ job[t] \in {"ok", "failed"}
    /\ job' = [job EXCEPT ![t] = "none"]
    /\ IF job[t] = "failed" THEN Log(t) ELSE UNCHANGED logged
    /\ AfterRoute(t, decisions)
    /\ UNCHANGED <<handler, high, reviewVars, received>>

-----------------------------------------------------------------------------
\* The task is cancelled at an await.  A review ends without a decision and its
\* response is gone; a request still queued is withdrawn; one that runs goes on.
Cancel(t) ==
    /\ pc[t] \in {"emit", "route"}
    /\ End(t, "cancelled")
    /\ answer' = [answer EXCEPT ![t] = "none"]
    /\ job' = [job EXCEPT ![t] = IF @ = "queued" THEN "none" ELSE @]
    /\ UNCHANGED <<handler, high, decisions, responses, handled, received, logged>>

Handle(t) ==
    \/ DefaultHandler(t)
    \/ Ignore(t) \/ ReviewStarts(t) \/ ReviewEnds(t)
    \/ BuildRaises(t) \/ Submit(t) \/ HandlerResumes(t)

Next ==
    \E t \in Calls :
        \/ Start(t) \/ Emitted(t) \/ Handle(t) \/ Cancel(t)
        \/ ThreadStarts(t) \/ ThreadEnds(t)

\* The memory answers, the event loop resumes a task whose await is over, and
\* every wait has a deadline: wait_for's, or the request's own timeout.
Fairness ==
    \A t \in Calls :
        /\ WF_vars(Emitted(t)) /\ WF_vars(Handle(t))
        /\ WF_vars(ThreadStarts(t)) /\ WF_vars(ThreadEnds(t))

Spec == Init /\ [][Next]_vars
FairSpec == Spec /\ Fairness

-----------------------------------------------------------------------------
(* Properties.                                                             *)

TypeOK ==
    /\ handler \in {"default", "webhook", "reviewer"}
    /\ high \subseteq Calls
    /\ pc \in [Calls -> {"idle", "emit", "route", "over"}]
    /\ rule \in [Calls -> 0 .. 2]
    /\ fired \subseteq high
    /\ result \in [Calls -> {"none", "executed", "violation", "cancelled"}]
    /\ decisions \in [Requests -> Answers \cup {"none"}]
    /\ responses \in Seq(Answers)
    /\ answer \in [Calls -> Answers \cup {"none"}]
    /\ handled \in [Calls -> Answers \cup {"none"}]
    /\ job \in [Calls -> {"none", "queued", "running", "ok", "failed"}]
    /\ received \subseteq Calls \X (1 .. 2)
    /\ logged \subseteq Calls \X (1 .. 2)

\* The pair of rules is one gate although it decides through a ledger that
\* concurrent refunds of one request overwrite: a high refund is issued only if
\* the review of this very call said "approve", and a call so approved is not
\* refused because of what a review of another call wrote.
OwnReviewDecides ==
    \A t \in high :
        /\ result[t] = "executed" => handled[t] = "approve"
        /\ handled[t] = "approve" => result[t] # "violation"

\* A webhook alert is never lost in silence: when a call has returned or been
\* refused, each rule that fired on it was delivered to the endpoint or has its
\* failure in the log, and no request of the call is still under way.
AlertAccounted ==
    \A t \in high : handler = "webhook" /\ result[t] \in {"executed", "violation"} =>
        /\ {<<t, 1>>, <<t, 2>>} \subseteq received \cup logged
        /\ job[t] = "none"

\* No refund waits for ever on its handler, even when the pool is smaller than
\* the number of alerts and its threads work for calls that are long cancelled.
HandlersEnd == \A t \in Calls : pc[t] \in {"emit", "route"} ~> pc[t] = "over"
=============================================================================
