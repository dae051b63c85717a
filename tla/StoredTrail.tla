---------------------------- MODULE StoredTrail ----------------------------
(***************************************************************************)
(* The whole trail: governed calls, a trace store with a hash chain behind *)
(* their memory, and the two ways to examine what it holds, audit_trace    *)
(* and verify_chain.                                                       *)
(*                                                                         *)
(* The memory is the StoreBackedMemory of examples/preproduction_trace_    *)
(* store and examples/mcp_tool_governance: add_event appends the event to  *)
(* the store.  It does not suspend, so from the predicate of a rule to the *)
(* end of its append no other call gets a step, nor is the task cancelled. *)
(* The getters always give the store and the session.                      *)
(***************************************************************************)
EXTENDS GovernedAudit, HashChain

VARIABLES
    rows,       \* the records the store holds, in order
    last,       \* its _last_chain_hash
    rejected    \* ghost: <<call, position>> of those that append raised on unchained

storeVars == <<rows, last, rejected>>

TInit == SInit /\ rows = <<>> /\ last = GENESIS_PREV_HASH /\ rejected = {}

Chained(t) == append_record(Record(t), last)

\* add_event: the store chains the record and writes it.
StoreAppends(t) ==
    /\ EmitPersists(t)
    /\ rows' = Append(rows, Chained(t))
    /\ last' = Chained(t).chain_hash
    /\ UNCHANGED <<toolsets, rejected>>

\* Mutant of StoreRaises: the store takes the hash back.
StoreRaises_RestoresHash(t) ==
    /\ EmitFails(t)
    /\ rows' = IF trace' = trace THEN rows ELSE Append(rows, Chained(t))
    /\ last' = IF trace' = trace THEN last ELSE Chained(t).chain_hash
    /\ UNCHANGED <<toolsets, rejected>>

\* append raises before it has chained the record: the host's metadata in it has
\* a reference cycle, or keys that cannot be sorted.
StoreRejects(t) ==
    /\ EmitFails(t) /\ trace' = trace
    /\ UNCHANGED <<rows, last, toolsets>>
    /\ rejected' = rejected \cup {<<t, cur[t]>>}

\* append raises: the hash has advanced, and the record may be stored or not.
StoreRaises(t) ==
    /\ EmitFails(t)
    /\ rows' = IF trace' = trace THEN rows ELSE Append(rows, Chained(t))
    /\ last' = Chained(t).chain_hash
    /\ UNCHANGED <<toolsets, rejected>>

\* No call is between a predicate and the end of its append.
Settled == \A t \in Calls : pc[t] # "emit"

Otherwise(t) ==
    \/ Enter(t) \/ Run(t) \/ PredicateRaises(t)
    \/ HandlerReturns(t) \/ HandlerRaises(t) \/ ToolReturns(t) \/ ToolRaises(t)
    \/ Cancel(t)

\* Mutant of Reopen: a new chain instead of the last hash in the file.
Reopen_NewChain ==
    /\ \A t \in Calls : pc[t] \in {"idle", "done"}
    /\ FreshToolset
    /\ last' = GENESIS_PREV_HASH
    /\ UNCHANGED <<rows, rejected>>

\* The process has ended and another one opens the store: it goes on from the
\* last record there is.
Reopen ==
    /\ \A t \in Calls : pc[t] \in {"idle", "done"}
    /\ FreshToolset
    /\ last' = LastChainHash(rows)
    /\ UNCHANGED <<rows, rejected>>

TNext ==
    \/ \E t \in Calls : StoreAppends(t) \/ StoreRejects(t) \/ StoreRaises(t)
    \/ Settled /\ (\E t \in Calls : Otherwise(t)) /\ UNCHANGED <<storeVars, toolsets>>
    \/ Settled /\ FreshToolset /\ UNCHANGED storeVars
    \/ Reopen

TSpec == TInit /\ [][TNext]_<<vars, toolsets, storeVars>>

-----------------------------------------------------------------------------
(* Properties.                                                             *)

\* _emit swallows what the store raises, and so the chain has to tell.  A chain
\* that does not verify is no false alarm: the append of a chained record raised.
\* One that verifies leaves nothing out but what was never chained: up to the last
\* record it has of a call the trail has all the other evaluations of that call,
\* over any number of toolsets and processes, so that an audit of the trail which
\* misses one misses it because its record could not be chained, or the call did
\* not get there or was cut off at its end.
TrailTellsLoss ==
    /\ ~Verifies(rows) => lost \ rejected # {}
    /\ Verifies(rows) =>
          \A t \in Calls : \A i, j \in evaluated[t] :
              Before(i, j) /\ <<t, j>> \in Recorded => <<t, i>> \in Recorded \cup rejected
=============================================================================
