----------------------------- MODULE JsonlStore -----------------------------
(***************************************************************************)
(* JSONLTraceStore (sarc_governance/stores/jsonl.py) with hash_chain=True: *)
(* one process appending to one file, failing writes, and kills of that    *)
(* process after which the store is opened again on the same file.         *)
(*                                                                         *)
(* A line is written in three pieces: a part of its record, the rest of    *)
(* it, and the newline.  The file is the pieces that were written, and the *)
(* buffer those that the text file object still holds after a failed       *)
(* flush: its next flush writes them.  A write that is cut off between two *)
(* pieces tears a line, and what is written next is glued to it.  Every    *)
(* call of append gets a record of its own, numbered by the call.          *)
(***************************************************************************)
EXTENDS HashChain, Selection

CONSTANTS
    Faults,         \* the faults that may occur
    MaxAppends      \* bound on the calls of append

FaultKind == {"rejected", "unserialisable", "write_fails", "kill"}

ASSUME FaultsAssumption == Faults \subseteq FaultKind
ASSUME BoundsAssumption == MaxAppends \in Nat

VARIABLES
    file,       \* the pieces in the file
    buffer,     \* the pieces the file object still holds after a failed flush
    open,       \* whether a process has a store object on the file
    last,       \* _last_chain_hash of that object
    calls,      \* how many records have been given to append
    acked,      \* the numbers of the records whose append returned
    rejected,   \* ghost: the numbers of those whose append raised before it chained them
    torn,       \* ghost: the values calls had when the rest of a line was dropped
    starts      \* ghost: the values calls had when a store object was made

vars == <<file, buffer, open, last, calls, acked, rejected, torn, starts>>

-----------------------------------------------------------------------------
Piece(rec, part) == [rec |-> rec, part |-> part]
Line(rec) == <<Piece(rec, "head"), Piece(rec, "rest"), Piece(rec, "newline")>>

\* Where a line of the file starts that parses: it is one whole record, with or
\* without its newline, and nothing is glued to either end.
Whole(i) ==
    /\ file[i].part = "head" /\ i + 1 \in DOMAIN file /\ file[i+1].part = "rest"
    /\ i = 1 \/ file[i-1].part = "newline"
    /\ i + 2 \in DOMAIN file => file[i+2].part = "newline"

\* iter_records: the records of the lines that parse.
Readable ==
    LET lines == Select(file, {i \in DOMAIN file : Whole(i)})
    IN  [k \in DOMAIN lines |-> lines[k].rec]

\* The first n pieces of text reach the file, the next m - n stay in the buffer
\* and the others are dropped, which tears a line unless one starts there.
WriteOut(text, n, m) ==
    /\ file' = file \o SubSeq(text, 1, n)
    /\ buffer' = SubSeq(text, n + 1, m)
    /\ torn' = IF m < Len(text) /\ text[m+1].part # "head" THEN torn \cup {calls'} ELSE torn

Init ==
    /\ file = <<>>
    /\ buffer = <<>>
    /\ open = FALSE
    /\ last = GENESIS_PREV_HASH
    /\ calls = 0
    /\ acked = {}
    /\ rejected = {}
    /\ torn = {}
    /\ starts = {}

-----------------------------------------------------------------------------
\* Mutant of Open: starts a new chain instead of recovering the last hash.
Open_NoRecovery ==
    /\ ~open
    /\ open' = TRUE
    /\ last' = GENESIS_PREV_HASH
    /\ starts' = starts \cup {calls}
    /\ UNCHANGED <<file, buffer, calls, acked, rejected, torn>>

\* __init__ with _recover_last_hash.
Open ==
    /\ ~open
    /\ open' = TRUE
    /\ last' = LastChainHash(Readable)
    /\ starts' = starts \cup {calls}
    /\ UNCHANGED <<file, buffer, calls, acked, rejected, torn>>

\* A call of append, with the next record.
AppendCalled ==
    /\ open /\ calls < MaxAppends
    /\ calls' = calls + 1

\* append up to json.dumps: the record is chained and the cached hash moves on.
NextRecord == append_record(calls + 1, last)

ChainNext ==
    /\ AppendCalled
    /\ last' = NextRecord.chain_hash

\* What append has to write: its line, behind what is buffered.
Pending == buffer \o Line(NextRecord)

\* Mutant of AppendReturns: the line stays in the buffer although it was written.
AppendReturns_KeepsBuffer ==
    /\ ChainNext
    /\ file' = file \o Pending
    /\ buffer' = Pending
    /\ acked' = acked \cup {calls + 1}
    /\ UNCHANGED <<open, rejected, torn, starts>>

\* Mutant of AppendReturns: no flush, so the line waits in the buffer.
AppendReturns_NoFlush ==
    /\ ChainNext
    /\ WriteOut(Pending, 0, Len(Pending))
    /\ acked' = acked \cup {calls + 1}
    /\ UNCHANGED <<open, rejected, starts>>

\* append: the line and what was buffered before it reach the file.
AppendReturns ==
    /\ ChainNext
    /\ WriteOut(Pending, Len(Pending), Len(Pending))
    /\ acked' = acked \cup {calls + 1}
    /\ UNCHANGED <<open, rejected, starts>>

\* to_dict, or the canonical form that append_record hashes, raises: a reference
\* cycle, or keys that cannot be sorted.  The cached hash has not moved.
AppendRejected ==
    /\ "rejected" \in Faults
    /\ AppendCalled
    /\ rejected' = rejected \cup {calls + 1}
    /\ UNCHANGED <<file, buffer, open, last, acked, torn, starts>>

\* Mutant of AppendNotSerialisable: the hash moves on only once the line is serialised.
AppendNotSerialisable_KeepsHash ==
    /\ "unserialisable" \in Faults
    /\ AppendCalled
    /\ UNCHANGED <<file, buffer, open, last, acked, rejected, torn, starts>>

\* json.dumps raises TypeError: unlike the hashing it has no default=str.
AppendNotSerialisable ==
    /\ "unserialisable" \in Faults
    /\ ChainNext
    /\ UNCHANGED <<file, buffer, open, acked, rejected, torn, starts>>

\* write or flush raises OSError.  What the file object had taken and not written
\* stays in its buffer; text it has no room for is dropped.  That is the whole
\* line or its newline, or the rest of a line too large to be buffered.
AppendWriteFails ==
    /\ "write_fails" \in Faults
    /\ ChainNext
    /\ \E m \in Len(buffer) .. Len(Pending) : \E n \in 0 .. m :
        /\ n < Len(Pending)
        /\ m = n \/ m # Len(buffer) + 1
        /\ WriteOut(Pending, n, m)
    /\ UNCHANGED <<open, acked, rejected, starts>>

\* The process is killed during append.
KillDuringAppend ==
    /\ "kill" \in Faults
    /\ ChainNext
    /\ \E n \in 0 .. Len(Pending) : WriteOut(Pending, n, n)
    /\ open' = FALSE
    /\ UNCHANGED <<acked, rejected, starts>>

\* The process is killed between two calls.
Kill ==
    /\ "kill" \in Faults
    /\ open
    /\ open' = FALSE
    /\ UNCHANGED <<last, calls, acked, rejected, starts>>
    /\ \E n \in 0 .. Len(buffer) : WriteOut(buffer, n, n)

\* Mutant of Close: the flushed lines stay in the buffer of the closed object.
Close_KeepsBuffer ==
    /\ open
    /\ file' = file \o buffer
    /\ open' \in BOOLEAN
    /\ UNCHANGED <<buffer, last, calls, acked, rejected, torn, starts>>

\* close flushes.  The object may be the process's last, or be appended to
\* again: _ensure_open opens the file anew, and _last_chain_hash is kept.
Close ==
    /\ open
    /\ open' \in BOOLEAN
    /\ UNCHANGED <<last, calls, acked, rejected, starts>>
    /\ WriteOut(buffer, Len(buffer), Len(buffer))

\* close when its flush fails: the file object is closed and its text is lost.
CloseFails ==
    /\ "write_fails" \in Faults
    /\ open /\ buffer # <<>>
    /\ open' \in BOOLEAN
    /\ UNCHANGED <<last, calls, acked, rejected, starts>>
    /\ \E n \in 0 .. Len(buffer) : WriteOut(buffer, n, n)

Next ==
    \/ Open \/ Close \/ CloseFails \/ Kill
    \/ AppendReturns \/ AppendRejected \/ AppendNotSerialisable
    \/ AppendWriteFails \/ KillDuringAppend

Spec == Init /\ [][Next]_vars

-----------------------------------------------------------------------------
(* sarc trace verify-chain on the file, which reads it without the store.  *)

\* Mutant of cmd_trace_verify_chain: skips the lines that do not parse.
cmd_trace_verify_chain_Lenient == IF Verifies(Readable) THEN 0 ELSE 1

\* The exit code: any line that does not parse is an error.
cmd_trace_verify_chain ==
    IF (\A i \in DOMAIN file : file[i].part = "head" => Whole(i)) /\ Verifies(Readable)
    THEN 0 ELSE 1

-----------------------------------------------------------------------------
ReadSet == {Readable[k].body : k \in DOMAIN Readable}

\* Types of the state; no record is written that was not given to append.
TypeOK ==
    /\ \A text \in {file, buffer} : \A i \in DOMAIN text : text[i].rec.body \in 1 .. calls
    /\ open \in BOOLEAN
    /\ calls \in 0 .. MaxAppends
    /\ acked \subseteq 1 .. calls /\ rejected \subseteq 1 .. calls /\ torn \subseteq 1 .. calls
    /\ starts \subseteq 0 .. calls
    /\ ~open => buffer = <<>>

\* Whatever is retried, buffered, torn or reopened, a reader gets the records in
\* the order append was called, each at most once.
ReadInOrder ==
    \A k, l \in DOMAIN Readable : k < l => Readable[k].body < Readable[l].body

\* A record whose append returned is lost only to a line that was torn before it,
\* and it is then the first such record after the torn one.
TornWriteCostsOne ==
    \A a \in acked \ ReadSet : \E t \in torn :
        t < a /\ \A b \in acked : ~(t < b /\ b < a)

\* verify_chain raises no false alarm: if it reports a break, a record that
\* append had chained is not in the file.
AlarmMeansLoss == ~Verifies(Readable) => \E n \in (1 .. calls) \ rejected : n \notin ReadSet

\* A record missing before one that is read is reported, unless append raised
\* before it chained the missing one, or a store was opened after the loss and
\* before the record that is read was appended.
Before(i) == IF i = 1 THEN 0 ELSE Readable[i-1].body
GapIsReported ==
    Verifies(Readable) =>
        \A i \in DOMAIN Readable : \A m \in Before(i) + 1 .. Readable[i].body - 1 :
            m \in rejected \/ \E s \in starts : m <= s /\ s < Readable[i].body

\* The command finds every loss of a record whose append returned: when it exits
\* with 0, all of them are in the file.  (verify_chain on what the store reads
\* back does not, see SilentLossDetected.)
VerifyChainCatchesLoss == cmd_trace_verify_chain = 0 => acked \subseteq ReadSet

\* jsonl.py: it flushes "after each record so a crash mid-write loses at most the
\* in-flight line", so no record whose append returned.
CrashLosesInFlight == acked \subseteq ReadSet

\* docs/security-model.md: a corrupted line makes verification report "a
\* prev_hash_mismatch for the next chained record (so silent loss is still
\* detected)".  Where CrashLosesInFlight holds there is no loss to report, so a
\* state that violates this violates both.
SilentLossDetected ==
    (\E a \in acked \ ReadSet : \E r \in ReadSet : a < r) => ~Verifies(Readable)

=============================================================================
