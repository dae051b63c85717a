--------------------------- MODULE GovernedAudit ---------------------------
(***************************************************************************)
(* Governed calls writing their events to one session of a memory, and     *)
(* audit_trace reading that session at any time.                           *)
(*                                                                         *)
(* A session outlives a toolset: a server wraps each of its toolsets in a  *)
(* GovernanceToolset of its own (adapters/pais.py), and a restarted        *)
(* process builds new ones.  Every GovernanceToolset counts its calls from *)
(* act-1.  The auditor may hold a revision of the spec that was in force.  *)
(***************************************************************************)
EXTENDS Governance, Audit, Selection

CONSTANTS
    Revisions,      \* the specs the auditor may hold, the one in force included
    MaxToolsets     \* bound: how many GovernanceToolsets write to the session

ASSUME RevisionsAssumption == Rules \in Revisions /\ \A s \in Revisions : IsConstraintSpec(s)

VARIABLE toolsets   \* how many of them there have been, the current one included

SInit == Init /\ toolsets = 1

\* Another GovernanceToolset is built over the same session and takes the calls
\* that come; calls in flight go on, or are cancelled by the end of a process.
FreshToolset ==
    /\ toolsets < MaxToolsets
    /\ toolsets' = toolsets + 1
    /\ action_seq' = 0
    /\ UNCHANGED <<callVars, trace, lost, routed, dispatched>>

SNext == (Next /\ UNCHANGED toolsets) \/ FreshToolset

SSpec == SInit /\ [][SNext]_<<vars, toolsets>>

-----------------------------------------------------------------------------
\* TraceRecord.to_dict, as far as the audit reads it.
to_dict(e) ==
    [action_id |-> e.action_id, constraint_id |-> Rules[e.rule].id,
     point |-> Rules[e.rule].verif, fired |-> e.fired, response |-> Rules[e.rule].response]

\* The events of the session, which the auditor reads back.
FlatTrace == [k \in DOMAIN trace |-> to_dict(trace[k])]

Report(spec) == audit_trace(spec, FlatTrace, TRUE)

\* The exit code of sarc audit.  It reads the session as a JSON list of its
\* records; a file with a record a line, as the stores write it, is refused: it
\* is no JSON, or it is a single record.
cmd_audit(spec, file, allow_discrepancies) ==
    IF file = "list" /\ (Report(spec) = {} \/ allow_discrepancies) THEN 0 ELSE 1

\* The same evaluations in the schema with one record per action.
ActionRecord(a) ==
    LET own == Select(FlatTrace, {k \in DOMAIN trace : trace[k].action_id = a})
    IN  [action_id |-> a,
         evaluated |-> [k \in DOMAIN own |-> [id |-> own[k].constraint_id, verif |-> own[k].point,
                                              fired |-> own[k].fired, response |-> own[k].response]],
         authority_nonempty |-> TRUE]

ActionIds == {trace[k].action_id : k \in DOMAIN trace}

ActionReport(spec) == UNION {audit_trace(spec, <<ActionRecord(a)>>, TRUE) : a \in ActionIds}

-----------------------------------------------------------------------------
(* Properties.                                                             *)

EventsOf(t) == {trace[k] : k \in {k \in DOMAIN trace : trace[k].call = t}}
Seen == {t \in Calls : EventsOf(t) # {}}

\* What audit-traces.md calls conforming, said of a call and not of an id: every
\* constraint of the spec was evaluated for it, each where its class admits it,
\* and each that fired with the response the spec declares.
Conforms(t, spec) ==
    /\ \A i \in DOMAIN spec : \E e \in EventsOf(t) : Rules[e.rule].id = spec[i].id
    /\ \A e \in EventsOf(t) : \E i \in DOMAIN spec :
          /\ Rules[e.rule].id = spec[i].id
          /\ Rules[e.rule].verif \in ClassPoints[spec[i].klass]
          /\ e.fired => Rules[e.rule].response = spec[i].response

\* The audit of a session of one toolset is exact, whatever the calls did, were
\* denied, lost or cancelled, and whichever revision it is made against: it
\* reports the action of a call that has left an event if and only if the call
\* does not conform, and sarc audit exits with 0 if and only if all of them do.
\* (Calls of two toolsets may share an action id; then the records of one can
\* hide what the other lacks, see the README.)
AuditExact ==
    toolsets = 1 => \A spec \in Revisions :
        /\ \A t \in Seen :
              Conforms(t, spec) <=> \A d \in Report(spec) : d.action_id # action_id[t]
        /\ (\A t \in Seen : Conforms(t, spec)) <=> cmd_audit(spec, "list", FALSE) = 0

\* No false alarm, even for a session shared by several toolsets: against the
\* spec in force the audit reports coverage only, and only what is missing for
\* each call of that id, because it has not returned or its record was lost
\* (audit-traces.md, "Coverage on blocked actions").
AlarmHasCause ==
    \A d \in Report(Rules) :
        /\ d.type = "coverage"
        /\ \A t \in Seen : action_id[t] = d.action_id =>
              \E i \in Pos : /\ Rules[i].id = d.constraint
                             /\ <<t, i>> \notin Recorded
                             /\ outcome[t] # "returned" \/ <<t, i>> \in lost

\* The two schemas agree on the same evaluations.  An action id shared by calls
\* of two toolsets may have two evaluations of a constraint, of which the
\* action-level audit sees the last: it may then report less, never more.
SchemasAgree ==
    \A spec \in Revisions :
        /\ ActionReport(spec) \subseteq Report(spec)
        /\ toolsets = 1 => ActionReport(spec) = Report(spec)
=============================================================================
