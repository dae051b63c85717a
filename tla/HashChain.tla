----------------------------- MODULE HashChain -----------------------------
(***************************************************************************)
(* The hash chain of sarc_governance/hashchain.py.                         *)
(*                                                                         *)
(* SHA-256 is modelled as collision-free and by what it covers: the hash   *)
(* of a record body is that body, and a chain hash is the sequence of the  *)
(* bodies hashed so far.  chain_link(prev, record_hash) then extends the   *)
(* sequence, and two chain hashes are equal exactly when they cover the    *)
(* same bodies in the same order.                                          *)
(***************************************************************************)
EXTENDS Naturals, Sequences

GENESIS_PREV_HASH == <<>>

\* The prev that verify_chain assumes after a record without chain fields: "",
\* which is the hash of nothing.  0 is no record body.
NoHash == <<0>>

canonical_event_hash(body) == body

chain_link(prev_hash, record_hash) == Append(prev_hash, record_hash)

\* A stored record without the chain fields, and one that append_record wrapped.
Plain(body) == [chained |-> FALSE, body |-> body]

append_record(body, prev_chain_hash) ==
    [chained |-> TRUE,
     body |-> body,
     prev_hash |-> prev_chain_hash,
     record_hash |-> canonical_event_hash(body),
     chain_hash |-> chain_link(prev_chain_hash, canonical_event_hash(body))]

\* What the loop of verify_chain holds in prev when it reaches position i.
PrevAt(records, initial_prev, i) ==
    IF i = 1 THEN initial_prev
    ELSE IF records[i-1].chained THEN records[i-1].chain_hash
    ELSE NoHash

\* Why verify_chain complains about the record at position i.
Breaks(records, initial_prev, i) ==
    IF ~records[i].chained THEN {"missing_field"}
    ELSE LET r == records[i] IN
         { reason \in {"record_hash_mismatch", "prev_hash_mismatch", "chain_hash_mismatch"} :
            \/ /\ reason = "record_hash_mismatch"
               /\ r.record_hash # canonical_event_hash(r.body)
            \/ /\ reason = "prev_hash_mismatch"
               /\ r.prev_hash # PrevAt(records, initial_prev, i)
            \/ /\ reason = "chain_hash_mismatch"
               /\ r.chain_hash # chain_link(r.prev_hash, r.record_hash) }

\* The breaks that verify_chain reports, as <<index, reason>>.
verify_chain(records, initial_prev) ==
    UNION {{i} \X Breaks(records, initial_prev, i) : i \in DOMAIN records}

Verifies(records) == verify_chain(records, GENESIS_PREV_HASH) = {}

\* The chain hash a store finds last in what it holds: _recover_last_hash.
LastChainHash(records) ==
    LET chained == {i \in DOMAIN records : records[i].chained}
    IN  IF chained = {} THEN GENESIS_PREV_HASH
        ELSE records[CHOOSE i \in chained : \A j \in chained : j <= i].chain_hash
=============================================================================
