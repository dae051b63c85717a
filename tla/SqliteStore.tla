---------------------------- MODULE SqliteStore ----------------------------
(***************************************************************************)
(* SQLiteTraceStore (sarc_governance/stores/sqlite.py) with                *)
(* hash_chain=True: threads appending through the store objects of one     *)
(* file, failing statements, and processes that stop and start again.  A   *)
(* thread may append to any of them: the stores are those of one process   *)
(* or of several.                                                          *)
(*                                                                         *)
(* SQLite is external: a connection collects rows in a transaction that    *)
(* its INSERT begins, only one connection has such a transaction at a      *)
(* time, and commit adds its rows to the table in the order of their ids.  *)
(***************************************************************************)
EXTENDS HashChain, Selection

CONSTANTS
    Stores,         \* the store objects on the file, each with its connection
    Threads,        \* the threads that append
    NoThread,       \* the holder of a free lock
    Faults,         \* the faults that may occur
    MaxAppends,     \* bound on the calls of append
    MaxStops        \* bound on the times a process is killed or closes its store

FaultKind == {"rejected", "unserialisable", "insert_fails", "commit_fails"}

ASSUME StoresAssumption == Stores # {}
ASSUME NoThreadAssumption == NoThread \notin Threads
ASSUME FaultsAssumption == Faults \subseteq FaultKind
ASSUME BoundsAssumption == MaxAppends \in Nat /\ MaxStops \in Nat

VARIABLES
    rows,       \* the records of the table, by id
    pending,    \* per store: the rows of its open transaction
    open,       \* the stores that are open
    last,       \* per store: _last_chain_hash
    store,      \* per thread: the store it appends to
    lock,       \* per store: the thread that holds _write_lock
    pc,         \* per thread: what it does
    number,     \* per thread: which call of append its record comes from
    record,     \* per thread: d, the record it has chained
    calls,      \* how many calls of append there were
    acked,      \* the numbers of the records whose append returned
    raised,     \* ghost: the numbers of those whose append raised once it had chained them
    rejected,   \* ghost: the numbers of those whose append raised before that
    starts,     \* ghost: <<store, calls at the time>> for each opening of a store
    stops       \* how many times a store has stopped

locals == <<store, number, record>>
ghosts == <<rejected, starts, stops>>
vars == <<rows, pending, open, last, lock, pc, locals, calls, acked, raised, ghosts>>

-----------------------------------------------------------------------------
\* The locals of a thread outside append.
AnyStore == CHOOSE s \in Stores : TRUE
NoRecord == Plain(0)

Init ==
    /\ rows = <<>>
    /\ pending = [s \in Stores |-> <<>>]
    /\ open = {}
    /\ last = [s \in Stores |-> GENESIS_PREV_HASH]
    /\ lock = [s \in Stores |-> NoThread]
    /\ pc = [t \in Threads |-> "idle"]
    /\ store = [t \in Threads |-> AnyStore]
    /\ number = [t \in Threads |-> 0]
    /\ record = [t \in Threads |-> NoRecord]
    /\ calls = 0
    /\ acked = {}
    /\ raised = {}
    /\ rejected = {}
    /\ starts = {}
    /\ stops = 0

Goto(t, label) == pc' = [pc EXCEPT ![t] = label]

\* The threads T are outside append again.
Leave(T) ==
    /\ pc' = [t \in Threads |-> IF t \in T THEN "idle" ELSE pc[t]]
    /\ store' = [t \in Threads |-> IF t \in T THEN AnyStore ELSE store[t]]
    /\ number' = [t \in Threads |-> IF t \in T THEN 0 ELSE number[t]]
    /\ record' = [t \in Threads |-> IF t \in T THEN NoRecord ELSE record[t]]

\* The with statement releases _write_lock however its body ends.
Release(t) == Leave({t}) /\ lock' = [lock EXCEPT ![store[t]] = NoThread]

Raise(t) == Release(t) /\ raised' = raised \cup {number[t]}

\* Another store's transaction keeps this one from writing.
Busy(s) == \E r \in Stores \ {s} : pending[r] # <<>>

-----------------------------------------------------------------------------
\* Mutant of Open: starts a new chain instead of recovering the last hash.
Open_NoRecovery(s) ==
    /\ s \notin open
    /\ open' = open \cup {s}
    /\ last' = [last EXCEPT ![s] = GENESIS_PREV_HASH]
    /\ starts' = starts \cup {<<s, calls>>}
    /\ UNCHANGED <<rows, pending, lock, pc, locals, calls, acked, raised, rejected, stops>>

\* __init__ with _recover_last_hash.
Open(s) ==
    /\ s \notin open
    /\ open' = open \cup {s}
    /\ last' = [last EXCEPT ![s] = LastChainHash(rows)]
    /\ starts' = starts \cup {<<s, calls>>}
    /\ UNCHANGED <<rows, pending, lock, pc, locals, calls, acked, raised, rejected, stops>>

\* Mutant of Acquire: without the lock.
Acquire_NoLock(t, s) ==
    /\ pc[t] = "idle" /\ s \in open
    /\ calls < MaxAppends
    /\ lock' = [lock EXCEPT ![s] = t]
    /\ calls' = calls + 1
    /\ store' = [store EXCEPT ![t] = s]
    /\ number' = [number EXCEPT ![t] = calls + 1]
    /\ Goto(t, "chain")
    /\ UNCHANGED <<rows, pending, open, last, record, acked, raised, ghosts>>

\* append takes _write_lock.
Acquire(t, s) ==
    /\ pc[t] = "idle" /\ s \in open
    /\ calls < MaxAppends
    /\ lock[s] = NoThread
    /\ lock' = [lock EXCEPT ![s] = t]
    /\ calls' = calls + 1
    /\ store' = [store EXCEPT ![t] = s]
    /\ number' = [number EXCEPT ![t] = calls + 1]
    /\ Goto(t, "chain")
    /\ UNCHANGED <<rows, pending, open, last, record, acked, raised, ghosts>>

\* to_dict raises before append takes the lock: a reference cycle in the record.
ToDictRaises(t, s) ==
    /\ "rejected" \in Faults
    /\ pc[t] = "idle" /\ s \in open
    /\ calls < MaxAppends
    /\ calls' = calls + 1
    /\ rejected' = rejected \cup {calls + 1}
    /\ UNCHANGED <<rows, pending, open, last, lock, pc, locals, acked, raised, starts, stops>>

\* append_record raises under the lock: keys of the record cannot be sorted.  The
\* cached hash has not moved.
NotHashable(t) ==
    /\ "rejected" \in Faults
    /\ pc[t] = "chain"
    /\ Release(t)
    /\ rejected' = rejected \cup {number[t]}
    /\ UNCHANGED <<rows, pending, open, last, calls, acked, raised, starts, stops>>

ChainRecord(t) ==
    /\ pc[t] = "chain"
    /\ record' = [record EXCEPT ![t] = append_record(number[t], last[store[t]])]
    /\ Goto(t, "advance")
    /\ UNCHANGED <<rows, pending, open, last, lock, store, number, calls, acked, raised, ghosts>>

AdvanceHash(t) ==
    /\ pc[t] = "advance"
    /\ last' = [last EXCEPT ![store[t]] = record[t].chain_hash]
    /\ Goto(t, "insert")
    /\ UNCHANGED <<rows, pending, open, lock, locals, calls, acked, raised, ghosts>>

\* Mutant of NotSerialisable: puts the hash back.
NotSerialisable_RestoresHash(t) ==
    /\ "unserialisable" \in Faults
    /\ pc[t] = "insert"
    /\ last' = [last EXCEPT ![store[t]] = record[t].prev_hash]
    /\ Raise(t)
    /\ UNCHANGED <<rows, pending, open, calls, acked, ghosts>>

\* json.dumps raises: unlike the hashing it has no default=.
NotSerialisable(t) ==
    /\ "unserialisable" \in Faults
    /\ pc[t] = "insert"
    /\ Raise(t)
    /\ UNCHANGED <<rows, pending, open, last, calls, acked, ghosts>>

Insert(t) ==
    /\ pc[t] = "insert" /\ ~Busy(store[t])
    /\ pending' = [pending EXCEPT ![store[t]] = Append(@, record[t])]
    /\ Goto(t, "commit")
    /\ UNCHANGED <<rows, open, last, lock, locals, calls, acked, raised, ghosts>>

\* INSERT or commit fails in the database, which may roll the transaction back
\* and may not: then its rows stay for the next commit of this connection.
StatementFails(t) ==
    /\ \/ pc[t] = "insert" /\ "insert_fails" \in Faults /\ ~Busy(store[t])
       \/ pc[t] = "commit" /\ "commit_fails" \in Faults
    /\ \/ pending' = pending
       \/ pending' = [pending EXCEPT ![store[t]] = <<>>]
    /\ Raise(t)
    /\ UNCHANGED <<rows, open, last, calls, acked, ghosts>>

\* Mutant of DatabaseLocked: waits for as long as the other transaction lasts.
DatabaseLocked_Waits(t) ==
    /\ pc[t] = "insert" /\ Busy(store[t])
    /\ UNCHANGED vars

\* "database is locked": the busy timeout ran out on another store's transaction.
DatabaseLocked(t) ==
    /\ pc[t] = "insert" /\ Busy(store[t])
    /\ Raise(t)
    /\ UNCHANGED <<rows, pending, open, last, calls, acked, ghosts>>

\* Mutant of Commit: append returns without it.
Commit_NoCommit(t) ==
    /\ pc[t] = "commit"
    /\ acked' = acked \cup {number[t]}
    /\ Release(t)
    /\ UNCHANGED <<rows, pending, open, last, calls, raised, ghosts>>

Commit(t) ==
    /\ pc[t] = "commit"
    /\ rows' = rows \o pending[store[t]]
    /\ pending' = [pending EXCEPT ![store[t]] = <<>>]
    /\ acked' = acked \cup {number[t]}
    /\ Release(t)
    /\ UNCHANGED <<open, last, calls, raised, ghosts>>

\* The process is killed, or closes the store: an open transaction is lost, and
\* so is what a thread has not committed.
Stop(s) ==
    /\ s \in open /\ stops < MaxStops
    /\ open' = open \ {s}
    /\ pending' = [pending EXCEPT ![s] = <<>>]
    /\ lock' = [lock EXCEPT ![s] = NoThread]
    /\ Leave({t \in Threads : store[t] = s})
    /\ stops' = stops + 1
    /\ UNCHANGED <<rows, last, calls, acked, raised, rejected, starts>>

Step(t) == ChainRecord(t) \/ AdvanceHash(t) \/ Insert(t) \/ DatabaseLocked(t) \/ Commit(t)

Next ==
    \/ \E s \in Stores : Open(s) \/ Stop(s) \/ \E t \in Threads : Acquire(t, s) \/ ToDictRaises(t, s)
    \/ \E t \in Threads : Step(t) \/ NotHashable(t) \/ NotSerialisable(t) \/ StatementFails(t)

Spec == Init /\ [][Next]_vars

\* A thread inside append goes on: INSERT and commit come to an end, the wait for
\* another transaction at the latest with sqlite3's busy timeout.
FairSpec == Spec /\ \A t \in Threads : WF_vars(Step(t))

-----------------------------------------------------------------------------
(* sarc trace export, which opens the file and reads the table.            *)

\* Mutant of export_jsonl: chains what it writes anew.
export_jsonl_Rechains(selected) ==
    LET ex == Select(rows, {i \in DOMAIN rows : rows[i].body \in selected})
        Bodies(n) == [j \in 1 .. n |-> ex[j].body]
    IN  [i \in DOMAIN ex |->
            [ex[i] EXCEPT !.prev_hash = Bodies(i - 1), !.chain_hash = Bodies(i)]]

\* The payloads in the order of their ids, of one session if one is given: the
\* records whose numbers are in selected.
export_jsonl(selected) == Select(rows, {i \in DOMAIN rows : rows[i].body \in selected})

-----------------------------------------------------------------------------
Numbers(recs) == {recs[i].body : i \in DOMAIN recs}

Row == [chained : {TRUE}, body : Nat, prev_hash : Seq(Nat), record_hash : Nat, chain_hash : Seq(Nat)]

\* Types of the state; a store's lock is held by the one thread inside append.
TypeOK ==
    /\ rows \in Seq(Row)
    /\ pending \in [Stores -> Seq(Row)]
    /\ open \subseteq Stores
    /\ last \in [Stores -> Seq(Nat)]
    /\ store \in [Threads -> Stores]
    /\ lock \in [Stores -> Threads \cup {NoThread}]
    /\ pc \in [Threads -> {"idle", "chain", "advance", "insert", "commit"}]
    /\ \A t \in Threads : pc[t] # "idle" => lock[store[t]] = t
    /\ \A s \in Stores : lock[s] # NoThread => store[lock[s]] = s /\ pc[lock[s]] # "idle"
    /\ number \in [Threads -> 0 .. calls]
    /\ record \in [Threads -> Row \cup {NoRecord}]
    /\ calls \in 0 .. MaxAppends
    /\ acked \subseteq 1 .. calls
    /\ raised \subseteq 1 .. calls /\ rejected \subseteq 1 .. calls
    /\ starts \subseteq Stores \X (0 .. calls)
    /\ stops \in 0 .. MaxStops

\* A record whose append returned is in the table from then on, and no record is
\* in it twice, whatever fails and stops.
AckedStays ==
    /\ acked \subseteq Numbers(rows)
    /\ \A i, j \in DOMAIN rows : rows[i].body = rows[j].body => i = j

\* class docstring: "use a single SQLiteTraceStore instance per file".
Alone == \A a, b \in starts : a[1] = b[1]

\* The table has the records of a lone store in the order of their appends, those
\* a failed commit left behind included.
RowsInOrder == Alone => \A i, j \in DOMAIN rows : i < j => rows[i].body < rows[j].body

\* verify_chain raises no false alarm on the table of a lone store: if it reports
\* a break, an append has raised after it chained its record, which is not there.
AlarmMeansFailure == (Alone /\ ~Verifies(rows)) => raised \ Numbers(rows) # {}

\* A record missing before one that is there is reported, unless append raised
\* before it chained the missing one, or the store was opened after the loss and
\* before the record that is there was appended.
Before(i) == IF i = 1 THEN 0 ELSE rows[i-1].body
GapIsReported ==
    (Alone /\ Verifies(rows)) =>
        \A i \in DOMAIN rows : \A m \in Before(i) + 1 .. rows[i].body - 1 :
            m \in rejected \/ \E c \in starts : m <= c[2] /\ c[2] < rows[i].body

\* Whichever records belong to a session, an export of it that verifies hides
\* nothing that came before: it is the beginning of the whole table.  (So the
\* export of one of several sessions that share a table reports a break even
\* when nothing is wrong.)
ExportHidesNothing ==
    Alone => \A selected \in SUBSET (1 .. calls) :
        LET ex == export_jsonl(selected)
        IN  Verifies(ex) => ex = SubSeq(rows, 1, Len(ex))

\* A thread that has taken the lock leaves append and releases it, although a
\* failed commit of another store may have left its transaction open for good.
AppendEnds == \A t \in Threads : pc[t] # "idle" ~> pc[t] = "idle"

\* docs/trace-stores.md: "Multiple processes can append safely".  When every
\* append has returned and no process has stopped, the chain verifies.
ProcessesAppendSafely ==
    (acked = 1 .. calls /\ stops = 0) => Verifies(rows)
=============================================================================
