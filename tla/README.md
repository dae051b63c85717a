# A verification project for sarc-governance

sarc-governance puts declared constraints around the tool calls of an agent: a
constraint is a predicate with a class (hard, soft, escalation), an enforcement
point and a response. This directory holds TLA+ models of the parts of the
library, and of the programs its examples build on it, where the order of steps
decides what is true afterwards; the TLC runs that check them; and proofs
checked by TLAPS. Paths below are relative to the repository; `governance.py` and
the like are files of `src/sarc_governance/`.

## The system

| component | state | operations | what makes it hard | what makes it correct |
|---|---|---|---|---|
| Constraint model, `constraints.py` | none: an immutable, validated spec | validation, `at(point)` | | only compatible class and point pairs are accepted |
| `GovernanceToolset`, `governance.py` | `_action_seq` under an asyncio lock; per call only locals | `call_tool`: PAG loop, the tool, ATM loop, PAA loop; `_emit` after each evaluation | every call suspends in the memory, the escalation handler and the tool; each may raise, hang or be cancelled, and other calls run meanwhile | no denied call reaches the tool, no denied result reaches the caller, the trace is true and has no gap |
| `EscalationRouter`, `escalation.py` | none | `route`: awaits the handler, swallows its exceptions | the handler hangs or raises while a denial is pending | its answer never changes a verdict |
| Escalation handlers: the default log, `handlers.py` (webhook), `examples/human_escalation` (reviewer and ledger) | the loop's thread pool; the approval ledger; the scripted reviewer | one HTTP request in a thread; `review` under `wait_for` | cancelled calls whose requests go on, a full pool, late answers, concurrent refunds of one request | an alert is delivered or its failure logged; a call is decided by its own review |
| Hash chain, `hashchain.py` | none | `append_record`, `verify_chain` | what an edit or a loss leaves behind | no break without cause, no loss without break |
| Stores, `stores/*.py` | a list, a file, a table; the cached `_last_chain_hash` | open with recovery, `append`, `iter_records`, `export_jsonl`, `close` | crash during a write, failing writes, threads, several processes | acknowledged records stay, once and in order; the chain reports what is missing |
| Store-backed memory, `examples/preproduction_trace_store`, `examples/mcp_tool_governance` | none of its own | `add_event` appends to the store | `_emit` swallows what the store raises | a hole in the trail shows |
| PAIS adapter, `adapters/pais.py` | the guard's `_known`; the guard cache of the server | `PAISMemoryGuard.add_event`, `_guarded_memory`, server construction, context mapping | concurrent first events around an awaited `create`; a failing `create`; a cache keyed by `id()` | no event is dropped in silence without cause, or persisted in another request's memory |
| Audit, `audit.py` | none | flat and action-level audit of a finished trace | calls that stopped early; several toolsets in one trace | every discrepancy reported is one, and none is missed |
| Policy, specs, predicates | the predicate registry | checksum, diff, load, register | files, names and callables change between approval and deployment; names stand for functions | a spec that passes the pinned checksum denies what the approved one denies; diff and checksum agree |
| Command line, `cli.py` | none | audit, policy, trace commands | decides by an exit code | 0 means what the pipeline takes it to mean |
| Tool-calling clients: `examples/openai_tool_calling_adapter`, `langgraph_style_adapter`, `bedrock_action_group_adapter`, `kaos_pais_adapter` | the turn's messages; the graph state | dispatch of the calls of a turn | exceptions in the middle of a turn, a turn dispatched again | what the model is told is what governance did |
| Expense pipeline, `examples/multi_agent_governed` | `_daily_spend` | `submit_expense` through two nested toolsets | the spend is captured before an await and used after it | the daily limit holds; only what was validated is booked |
| Context and trace records | none | conversions | | |

The pieces meet in `call_tool`. For each constraint of the current point it
evaluates the predicate, builds a `TraceRecord`, awaits `_emit`, which hands the
record to the memory (perhaps a `PAISMemoryGuard`, perhaps a store), then for a
fired constraint awaits the router, and only then raises `ConstraintViolation`
or goes on. Everything runs on one event loop; the SQLite store expects threads,
and the webhook handler uses them. Files outlive the process, `_last_chain_hash`,
`_known` and `_action_seq` do not.

## Modules

| module | models | extends / instantiates |
|---|---|---|
| `Constraints` | `constraints.py`: the enumerations, which spec is valid, `at` | |
| `GovernedCall` | nothing in particular: the abstract promise about governed calls | |
| `Governance` | `call_tool`, `_next_action_id`, `_emit`, `route` for concurrent calls | `Constraints`, instance of `GovernedCall` |
| `EscalationHandlers` | what is behind `route`: the three handlers under concurrent calls | |
| `HashChain` | `hashchain.py` with symbolic hashes | |
| `Selection` | a filter over a sequence, by positions; it is the `SelectSeq` of the standard module, which `SelectIsSelectSeq` compares on all short sequences | |
| `JsonlStore` | `JSONLTraceStore(hash_chain=True)` on a file that can be torn, and `trace verify-chain` | `HashChain`, `Selection` |
| `SqliteStore` | `SQLiteTraceStore(hash_chain=True)` with threads and several stores on one file, and its export | `HashChain`, `Selection` |
| `PaisGuard` | `PAISMemoryGuard.add_event` over a memory that drops events of unknown sessions | |
| `AgentServer` | the server's guard cache over memories that come and go | `PaisGuard` |
| `Audit` | `audit.py`: both schemas of `audit_trace`, as operators | `Constraints` |
| `GovernedAudit` | the session that governed calls write, by one toolset or several, and its audit | `Governance`, `Audit`, `Selection` |
| `StoredTrail` | the same session in a chained store, over several processes | `GovernedAudit`, `HashChain` |
| `Policy` | loading a spec (`specs.py`), checksum and diff (`policy.py`), as operators | `Constraints` |
| `SpecLifecycle` | a spec file, its approval and deployment, and the predicate registry | `Policy` |
| `ToolClients` | four clients of `call_tool` | instance of `GovernedCall` |
| `ExpensePipeline` | a governed toolset whose tool calls another one | |
| `GovernanceProofs` (also of `GovernedAudit` and `StoredTrail`), `PaisGuardProofs` (also of `AgentServer`), `SpecLifecycleProofs`, `EscalationHandlersProofs`, `ExpensePipelineProofs`, `SqliteStoreProofs`, `JsonlStoreProofs`, `ToolClientsProofs` | theorems | the module they are about |
| `MCGovernance`, `MCJsonlStore`, `MCSqliteStore`, `MCAgentServer`, `MCStoredTrail`, `MCSpecLifecycle`, `MCEscalationHandlers`, `MCToolClients`, `MCExpensePipeline` | instances for TLC | |

A definition named `X_...` and commented "Mutant of X" is a plausible bug in X.
It is in no specification; replacing X by it must make TLC find the property
that X is there for violated.

### Governance

A call is a task; `pc[t]` says which await it is in (`emit`, `route`, `tool`) or
that it is running (`loop`), `phase[t]` which of the three loops it has reached.
The locals of `call_tool` become `evaluated`, `fired` and `cur`. Actions end
where the code can suspend: `Evaluate` runs one iteration up to the await in
`_emit`; `EmitPersists`, `EmitDrops` (no memory or session), `EmitFails` (it
raised) are the ways that await ends, and include what the code does
next without suspending: raise, call the handler, or go on. `HandlerReturns` and
`HandlerRaises` end `route`, `ToolReturns` and `ToolRaises` the wrapped call.
`Cancel` is a `CancelledError` at any of the three awaits: it is no `Exception`,
so no `except Exception` stops it. `Enter` numbers the call (`next_action_id`); the body of
the lock does not await, so it is one step. Stretches of
code without an await are cut into several steps (one per iteration), which
allows more interleavings than the event loop has, never fewer.

A predicate's answer is a free choice, as is what the awaited objects do within
`Faults`. Records are reduced to call, action id, rule and verdict. Not in the
model: the contents of arguments and results, `_resolve_context`, the stamping
of the context, logging. The branch at `governance.py:237-238` (an escalation
constraint at ATM) cannot be reached: `Constraint` rejects that pair.

`GovernedCall` has no constraints or records: a call begins, may be
denied, executes only if not denied, and is returned only if not denied.
`Governance!ImplementsGate` maps the detailed state to it: `checking` is PAG,
`executing` the await of the tool, `reviewing` ATM and PAA; a call is denied as
soon as a rule fires that the documents say must deny.

### EscalationHandlers

The calls are the refunds of `examples/human_escalation` under its two rules:
`ce_needs_review` notifies, and `ch_blocked_unless_approved` reads the ledger. The
state behind `route` is the handler's: `decisions` is the `ApprovalLedger`, keyed by
request; `responses` what is left of the script; `answer[t]` the response a pending
`review` has taken; `job[t]` the webhook request in the thread pool. What runs
without suspending between the handler's last line and the next predicate
is one step (`AfterRoute`), which is what `OwnReviewDecides` rests on.
`wait_for` may give "timeout" at any moment, also before `review` has started.
A cancelled call withdraws a request that is still queued; one that runs goes on
and holds its thread. A failed request may have been delivered: an HTTP error or
an answer that came too late. The pool has `Workers` threads, which the calls
share; other users of the loop's default pool are left out.

### HashChain and the stores

A hash is the sequence of bodies it covers, so equal hashes cover equal
histories and SHA-256 is taken as collision-free. `verify_chain` is the set of
reported breaks, each an index and a reason.

`JsonlStore`: the file is a sequence of pieces. A line is three of them, a part of its
record, the rest of it and the newline, so that a write can be cut off inside a
record and between a record and its newline; what is written next is glued to it.
A line parses if it is one whole record with nothing glued to either end (`Whole`).
`append` is one action per way it can end, since the store has a single writer:
it returns; `to_dict` or `append_record` raises before the cached hash has moved
(`AppendRejected`: keys that cannot be sorted, a reference cycle); `json.dumps`
raises after it has moved; the write raises; the process is killed on the way.
`WriteOut` says what becomes of text: some pieces reach the file, the next stay in the file
object's buffer, which its next flush writes, and the others are dropped. A failed
write may drop the whole line, its newline, or the rest of a line too large for
the buffer; a kill and a failing `close` drop all that is not written.
`Close` may be followed by more appends to the
same object, which reopens the file and keeps its hash, or by the end of it.
A kill of the process, not of the machine, is modelled: written data survives
it, whatever `fsync` answered. `cmd_trace_verify_chain` reads the same file as the
command does: a line that does not parse, or a break, and it does not exit with 0.

`SqliteStore`: `append` in its steps, because threads share the store: take the
lock, chain, move the cached hash, insert, commit. A record that cannot be chained ends it before
the lock (`ToDictRaises`) or under it (`NotHashable`), with the hash where it was; one that `json.dumps`
rejects later leaves the hash moved. A thread may use any open
store. SQLite is external: an INSERT
opens a transaction, one connection at a time has one, a failed statement may or
may not roll it back. Two stores on one file stand for two processes, or for two
objects in one; what the class promises for "a single instance per file" is
stated for behaviours in which one store is ever opened (`Alone`). The export of a
session is the rows of that session in order, for any choice of which records
belong to it; the tables' search columns are left out.

### PaisGuard and AgentServer

One task per event. A task that finds its session in `_known` goes straight to
the memory; otherwise it calls `create`, which is over at once or suspends (`async`). The
memory is external: the stub of `pais.memory` and the tests' `FakeMemory`, whose
`create` discards what the session held (`replaces`). The initial state picks
the kind of guard and memory from `Settings`. A session may have been created before. A memory without
`create` is left out: the guard then only remembers.

`AgentServer` adds what is around the guards. A request comes with a memory
object (`Allocate` puts it at a free address); `_emit` looks the guard up by that
address; an object is collected once its requests are over and no guard holds
it. A session of `PaisGuard` is here a session id in a memory, and its `known` the
union of what the guards remember, so that the server is shown to implement
`PaisGuard`. The cache of `build_governed_toolset` is the same code; two of them over
one memory give that memory two guards, which this model does not have.

### Audit, GovernedAudit and StoredTrail

`audit_trace` is pure, so `Audit` is operators only: a trace is a sequence of
records, a report the set of its discrepancies. `Missing` is the coverage loop,
`Flaws` what the loop over the evaluations says of one of them; the two schemas
share both and differ in what they iterate over.

`GovernedAudit` composes it with `Governance`: the auditor may read the session
at any time, so properties of the audit are invariants over every trace that
calls can leave, and the spec it holds is any of `Revisions`. Every
`GovernanceToolset` counts its calls from `act-1`, and a server builds one per
toolset over one memory; a restarted process builds new ones. `FreshToolset` is
both: the counter is back at 0, the session stays. Calls in flight go on, or are
cancelled. What `TraceRecord.to_dict` writes is reduced to what the audit reads.
`ActionReport` puts the same evaluations in the action-level schema, to compare
the two.

`StoredTrail` puts a chained store behind the memory. `StoreAppends`, `StoreRejects` and
`StoreRaises` are the ways `add_event` can end: an append that rejects the record (the
host's metadata in it cannot be hashed) leaves the cached hash alone, one that raises later has moved the
cached hash on and may have written the record. `add_event` of the
store-backed memory does not suspend, so from a predicate to the end of its
append no other call runs (`Settled`) and no cancellation arrives; the
getters always give a memory and a session, so `EmitDrops` does not occur. `Reopen` is the next process. The row a
failed SQLite commit leaves in an open transaction belongs to `SqliteStore`, and a
memory store does not survive a restart: neither is repeated here.

### Policy and SpecLifecycle

A spec file is a sequence of entries, the registry a function from names to
callables. `Loadable` says that no exception ends a load, `Loaded` what comes
out; a loaded constraint holds a callable, not a name, so what `register` does
later is not seen by it. The checksum is what SHA-256 covers: the set of
canonical constraints, since they are sorted by an id that is unique.

`SpecLifecycle` has one process and one file. `EditFile` is anyone's edit,
`LoadWithExtras` a test's load, `Approve` pins a checksum, `Deploy` is
`safe_load_spec` and the comparison, as `docs/policy-lifecycle.md:25-40` lays it
out; the library itself compares nothing. `reviewed` remembers what was
approved when `running` was loaded. The description of a constraint, the
metadata and the parsing of files are left out.

### ToolClients

Four clients dispatch the calls of a turn one after the other. The governed call
itself is the abstract `GovernedCall`, which `Governance` implements. What differs
between the clients is kept: the OpenAI client collects its messages in a
local list that an exception takes with it; `tools_node` of the graph writes into
the state, so a turn that raised leaves some calls answered and all of them
pending; the Bedrock handler answers one event and may raise before governance
(`normalize_event`) or after it (`build_response`); the KAOS runner counts. A host may
dispatch a turn again after an exception. A message bears the `tool_call_id` of its call, which is the same when the
turn is dispatched again; which governed call it is about is a ghost. A tool may govern calls of its own
(`ToolViolates`, as the coordinator of the expense pipeline does): their violation comes out of `call_tool` like any
exception, and a client cannot tell it from a denial of the call itself. It is the one aborted call that may be
answered as blocked.

### ExpensePipeline

`submit_expense` under both governed toolsets. A submission suspends only where the
coordinator's memory takes an event; `suspends` says whether it does there, and
`Runs` that otherwise a submission goes from its start to its end. `captured[s]` is the
`_daily_spend` that the arguments carry into the rule, which is evaluated after an
await. Delegation is one step: the validator's memory is always the
example's, which never suspends.

## Runs

| run | what it asks | bounds |
|---|---|---|
| `gov_one` | the gate, the release, the finality of a denial, the order of evaluation, and the refinement of `GovernedCall`, under every fault | one call, seven rules: each kind `call_tool` treats differently, out of point order, so that there is more than one rule before and after each denial |
| `gov_two` | is the shared trace of concurrent calls true and complete, and does a call finish although another hangs? | two calls, one rule per point; what they share are the counter and the trace, and two calls show every order of two accesses. The second call may hang in each await. Faults of the memory only: the others end one call and are in `gov_one` |
| `handlers_all` | whose review decides a refund, where an alert went, and does every call end? | two refunds of one request, which meet in the ledger; a pool of one thread, which the second alert must wait for; every script of up to two answers, so that the script runs out |
| `jsonl_faults` | order, uniqueness and loss of records, false and missing alarms, the exit code of `verify-chain` | four appends, and any number of writes that fail or are cut off between any two pieces, kills and restarts: torn line, glued line, reopened store and the records around them |
| `jsonl_silent` | violation: a crash loses an acknowledged record, and the chain does not show it | four appends, kills only |
| `sqlite_all` | durability and end of every append for two threads and two stores on one file; order, false and missing alarms for a lone store; what a verifying export leaves out | four appends and one stop: a row, a loss, a reopening and a row after it; every order of two threads inside `append` |
| `sqlite_fork` | violation: two processes "can append safely" | three appends, no fault |
| `guard_all` | silent drops, discarded events, repeated `create` and whose guard an event gets, for every kind of guard and memory | three events: a race of two and one that comes after. Two memories with two addresses, so that an address is given away again; two session ids |
| `audit_session` | is the audit of a session exact, and free of false alarms when toolsets share the session? Do the two schemas agree? Does the chain of the store tell what the trail has lost? | two calls, two rules, two toolsets; six specs for the auditor: the one in force, one reordered, one each that differs in response, class, an additional and a missing constraint. Denied, cancelled and unfinished calls and lost records all occur |
| `policy_pin` | what a pinned checksum says of the spec that runs; do diff and checksum agree? | eight contents of the file (two valid orders, each canonical field changed, an entry removed, two invalid files), two names, four callables of which two are lambdas, one only a test has |
| `clients_all` | is what the model is told what governance did, and is every side effect accounted for? | turns of one and two calls of every kind (plain, malformed, unknown tool, opaque result), dispatched up to twice: an exception before, between and after calls, and a repetition, which answers a `tool_call_id` again |
| `expense_all` | what is booked, and checked against which spend? | four submissions of seven kinds around each limit of the rules (500, 1500, 2000, a blacklisted vendor), enough to reach 5000 exactly and to pass it |

Deadlock is not checked: every model stops when its calls or bounds are used up.

Symmetry is used in `guard_all` (events, session ids, memories, addresses) and in
`expense_all` (submissions), which check invariants and no liveness.

### What the violations show

* `jsonl_silent`, two promises at once. A kill leaves an unterminated last line. `_ensure_open` appends to it as it
  is, so the line of the next append, which returns, is glued to it and no reader gets
  either; `jsonl.py:4-5` promises the loss of the in-flight line at most (`CrashLosesInFlight`). The store opened
  after that continues the chain from before the unreadable line, and nothing is reported;
  `docs/security-model.md:60-62` promises a `prev_hash_mismatch` (`SilentLossDetected`). The run checks the second
  promise, with kills as its only fault; what violates it violates the first
  (`CrashPromiseImpliesReport`). What holds instead: besides the torn line only the first acknowledged
  record after it is lost (`TornWriteCostsOne`); a missing record is reported unless its append raised
  before it was chained, or a store was opened between it and the next one (`GapIsReported`);
  `sarc trace verify-chain` notices all the same, since it does not skip a line that does not
  parse (`VerifyChainCatchesLoss`).
* `sqlite_fork`: a store reads the last hash in `__init__` only. Two processes
  fork the chain without any failure, although `docs/trace-stores.md:75-76` lets
  them. Nothing is lost, but `verify_chain` reports a break.

### Fairness

Three runs check liveness. `Governance!FairSpec` is weakly fair for the code's
own steps of every call, since the event loop resumes every ready task, and for
the answers of memory, handler and tool of the calls outside `Hung`; no call has
to be entered. Faults get fairness only as one of the ways an await can end.
`SqliteStore!FairSpec` is weakly fair for the steps of a thread inside `append`;
waiting for another transaction ends with sqlite3's busy timeout. Taking the
lock, stopping, opening and failing are never fair. `EscalationHandlers!FairSpec` is
weakly fair for the steps of a call, of a handler and of a thread: the review ends
at the deadline of `wait_for`, a request at the timeout of `urlopen`, and the pool
starts what is queued when a thread is free. That the queue moves on although
requests of cancelled calls fill it is what `HandlersEnd` shows. Starting and
cancelling a call are never fair.

## Proofs

`tlapm` checks every theorem for all values of the constants that satisfy the
named assumptions: any finite set of calls, any valid spec, any faults.

`GovernanceProofs`. `GateHolds` and its companions are not inductive: that the
tool is not started after a denial follows only from where a call with a fired
denial can be. `CallInv(t)` says it for one call: a rule that stops the call and
fired is the last evaluated, and the call is on its way out (in `emit`, `route`
or done), never in a loop or in the tool; a point is left only when its loop is
over; evaluated rules have no gap. Each step touches one call
(`StepTouchesOne`, `UntouchedKeeps`), so `NextInv` is one step per action. From
it follow `GateTheorem`, `ReleaseTheorem`, `DenialTheorem` and `OrderTheorem`.
`AInv` adds, per call, that every evaluation but the current one is recorded or
known lost: `AuditTheorem`, `RecordedFirstTheorem`. `IdInv` bounds the ids given
out by the counter, and `EventsInv` says of each event in the trace that its verdict is the one its predicate gave
and that its rule comes before every later one of its call, the one in hand included,
which gives `TraceTheorem`. `RefinementTheorem`
shows that each step is a step of `GovernedCall` or leaves its state alone.

`EscalationHandlersProofs`. The ledger is overwritten by other calls at any time,
so the invariant says nothing of it: `Control` ties the rule a call is at to its
`pc`, `Decided` says that a call past the first rule has fired on the second exactly when
its own review did not approve, which holds because the ledger is read in the
step that wrote it. `Alerts` does the same for received and logged alerts.

`JsonlStoreProofs`. What is in the file and what waits in the buffer is one queue of pieces
(`Stream`), of which a flush moves a beginning into the file and a failure drops an end. `Ordered`: the pieces
come in the order of the appends, those of a line side by side. `Marked`: a line that is glued to
another one comes right after a torn write; `EndMarked` says the same in advance of a queue that
ends without a newline. `Kept`: all pieces of an acknowledged record are in the file. `Cut` and `Joined` say
what a prefix and a new line do to these, `WriteStep` what each action that writes does. `ReadInOrder`
follows through the positions of the lines that parse (`Ranked`), and `TornWriteCostsOne` and `VerifyChainCatchesLoss` from
`ReadUnlessGlued`: an acknowledged record that no reader gets is glued to another line.
For the chain, a hash ends with the number of the record it was made for (`Final`), so
that what a record goes on from can be said in numbers. `Fits(n, h, ...)` says that record
`n` may name the hash `h`: `h` covers every held record before `n` and none after it or rejected, and
each number between its last and `n` was rejected or has an opening of a store behind it. `LInv` says this
of every record that the queue can still yield (`Held`) and of the hash the open store holds, for its next
record. `JsonlGap` and `JsonlAlarm` follow for the records that are read.

`SqliteStoreProofs`. `Accounted` says that the table and the open transactions hold each
record at most once between them, that one connection at a time has a transaction, and
that what is acknowledged is in the table. To keep it, `InHand` says that no two threads
have the same record, that a record not yet inserted is nowhere, and that one about to be
committed is in its store's transaction. `AckedStays` follows. `LInv` is about a store
that is the only one ever opened (`Lone`); the same `Fits` ties each row, each
pending row and the record in hand to the hash before it, with one more part: the record that hash ends with is in the table,
or its append raised once it was chained. `Ready` follows the hash through the steps of `append`, in particular past
the failure that leaves it one record ahead and the rejected records of other threads, which may be numbered after the record
in hand; `Sorted` keeps pending rows behind the table.
This gives `SqliteInOrder`, `SqliteAlarm` and `SqliteGap`. For `SqliteExport`, a verifying export
starts from the genesis hash and each record names the hash of the one before it; the least position at which it
differs from the table would name a hash that does not cover the row left out.

`PaisGuardProofs`. `Remembered` links the tasks to `_known`: a task about to add
its event has its session remembered, and a session is remembered only once
created or failed, for a strict guard only once created. This gives
`GuardDrops` and `GuardStrict`. For a plain `create`, `PlainInv` adds that no task
is ever inside it and that accepted events belong to remembered sessions, and
`OnceInv` that a session not remembered has not been tried: `GuardKeeps`,
`GuardCreatesOnce`. For the server, `Addressed` says that a cached guard wraps a
living memory and lies under its address, because it keeps that memory alive; then
`ServerImplementsGuard` shows that every step of the server is one of the guard or
a stutter, and the guard's theorems carry over (`ServerKeepsPromises`).

The audit (also in `GovernanceProofs`). `AlarmTheorem` rests on `AInv`,
which says nothing of the counter, so a fresh toolset keeps it
(`FreshKeeps`); `IdsInTrace` adds that an event carries the id of its call.
`InReport` says what is in a report: what an action lacks and the flaws of each event.
`EventsHaveNoFlaw` shows that an event of a valid spec has neither a wrong place
nor a wrong response, so all that is left in a report is coverage
(`ReportIsMissing`), and a call that returned has evaluated everything. For
`AuditExactTheorem`, `SessionIds` says that the calls of the first toolset have ids of their own
until there is a second one, so the events of an action are those of one call (`OwnEvents`);
`FlawlessIfFits` shows for any valid spec that an evaluation has no flaw exactly if the spec asks for it.
`SchemasTheorem` compares the two schemas: the record of an action holds its events in
order (`RecordOfAction`), mentions the same ids (`RecordMentions`, the last of each exists), and within one
call no rule is recorded twice, so every event is the last of its rule (`EveryEventIsLast`). A step of
`StoredTrail` is one of `GovernedAudit` or a stutter (`TrailStep`), so this holds of a
stored trail too. `TrailTheorem` adds the chain: `VerifiesIffLinked` reduces
`verify_chain` to links between neighbours, and `TrailInv` says that the cached hash is
that of the newest record until an append raises once it has chained its record, and longer from then on; that
while the chain verifies no call has a stored evaluation after a missing one, those that could not be chained apart; and that as long as
the cached hash is the newest one, too, no call on its way lacks any. A next process recovers the
newest stored hash (`RecoversNewest`), but then no call is under way.

`SpecLifecycleProofs`. `DiffIsChecksum` and `DiffIsComplete` are about any two
specs with unique ids, through `ById`. The invariant says that what is approved,
running and reviewed came out of a load, that the registry holds registrable
callables only, and that `running` and `reviewed` have one checksum; `SameDenials`
turns equal checksums into equal denials when names tell callables apart.

`ToolClientsProofs`. The host's messages and those a client still has in hand are one
`Conversation`. `Said`: each message is about a call that has been dealt with (`Past`), and since
only the call in hand takes steps, what a message tells stays true; an earlier message with the same `tool_call_id` is of a turn that
raised, and the OpenAI and Bedrock clients keep none of those.
`Accounted`: what was started is told, is in the conversation, is the call in hand, or belongs to a turn that
raised. `ClientsTellTruth` and `ClientsAccount` follow.

`ExpensePipelineProofs`. `Alone`: with a memory that does not suspend at most one
submission is under way, so what it captured is the spend. `Validated` and `Queued` follow
the verdict of the validator and the escalations to the booking.

Assumptions of the proofs: finite sets of calls and of submissions, a valid spec and valid
revisions, faults among those named, files that are sequences, a built-in
registry of registrable callables, a name for each callable, a set of sessions that is the product of
memories and session ids, at least one thread in the pool and one store, and turns that are sequences of calls of the four kinds. The bounds of
the stores and of the clients' turns are any naturals.

Where a proof needs induction over a sequence it takes the least position at which the
statement fails (`Least`, from `WFMin` of the library), since the induction theorems
themselves are out of the provers' reach. `Least`, `Ranked` and the facts about `verify_chain` are
stated in each of the modules that need them.

Only model-checked. Liveness (`Finishes`, `AppendEnds`, `HandlersEnd`) is beyond the prover. Every
other property of a passing run is a theorem. What the violations show is shown by their runs.

## Not modelled

* Package surface (`__init__.py`): re-exports.
* `benchmarks/` and paper artefacts: a simulation of its own that does not use the
  package's state; `examples/procurement_agent` calls `call_tool` on fixed inputs, which
  `Governance` has.
* Of the memory store: `iter_records` and `clear`. They read or empty a list; nothing
  fails or interleaves. Its `append` is in `StoredTrail`.
* Of the PAIS adapter: `PAISContextMapper`, a pure conversion, and the construction
  of the server, which runs once.
* Of the policy inspection: the counts of `inspect_policy` and the approval metadata,
  which nothing in the library acts on.
* Of the command line: argument parsing and printing. What a command decides by is modelled.
* Of the clients and examples: the shape of payloads and messages, fixed
  inputs, and printed reports.
* Of context and trace records: conversions, which are pure; of `to_dict`, what the audit reads is modelled.
* YAML and JSON parsing: a file is its entries, a line its record.

## Observed while modelling, without a run of its own

* `_emit` calls `memory_getter` and `session_id_getter` before its `try`: what they
  raise ends the call, after the tool's side effect at ATM and PAA, although "Audit emission
  must never break the agent loop" (`governance.py:322`). No denial is lost by
  it (`gov_one` has this fault).
* Two first events of a session call `create` twice when it suspends, although
  `pais.py:136-137` says "once per `session_id`". With a plain `create` that holds
  (`PlainCreateOnce`). The server's own guards are never strict, and its cache, like the
  `_known` of a guard, only grows; that is what keeps a guard from being handed
  to another memory.
* `docs/trace-stores.md:90-97` lets a session-filtered export be verified on its own. Its
  `prev_hash` values point to records of other sessions, so a complete export may
  be reported as broken; `ExportHidesNothing` says what one that verifies means.
* `handlers.py:52-53` says the awaiting call "is blocked for at most this long": with a full
  pool it also waits for the requests before it. The branch for `status >= 400` is
  practically unreachable, since `urlopen` raises for these.
* The OpenAI client loses the messages of earlier calls of a turn when a later one
  raises. The graph's node keeps them, and appends a second `ToolMessage` with the same `tool_call_id` when its pending
  calls are dispatched again. A Bedrock event with both `function` and `apiPath` is answered in the shape
  of an API event.
* The daily limit of the expense pipeline can be exceeded by two submissions when
  the memory suspends. Below 500 nobody is asked, so a blacklisted vendor is booked there;
  the example's docstring says so.
* `AuditExact` holds for one toolset only. Two toolsets of a server, or a process
  and its successor, write `act-1` into one session; the audit groups by action
  id, and the records of one call hide what the other lacks. So coverage (I1 of
  `docs/audit-traces.md`) can be missed there; false alarms cannot occur
  (`AlarmTheorem`).
* `sarc audit` reads a JSON list, not the JSONL that `export` writes.
* The checksum covers a predicate's `__name__`, not the name it is registered
  under, although `docs/policy-lifecycle.md:62` says it changes when a predicate is
  "replaced with a different registered name". Two callables with one `__name__`
  are not told apart; hence the premise of `PinnedGate`. The docstring of
  `policy.py:100` speaks of `__qualname__`, which the code does not use.
* An action-level trace with a fired evaluation that has no `response` makes the
  audit raise a `KeyError` (`audit.py:251`). A flat trace is never checked for
  attribution, although the docstring of `audit_trace` lists it.
* `ConstraintSpec` is called immutable but holds a list;
  `docs/production-hardening.md` describes the action counter as not locked, the code
  locks it; a raising predicate leaves no record of its evaluation; the docstring
  of `safe_load_spec` says the `validate` command calls it, which calls
  `load_spec`.
