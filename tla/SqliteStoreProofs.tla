-------------------------- MODULE SqliteStoreProofs --------------------------
(***************************************************************************)
(* The durability of SQLiteTraceStore for any number of stores on a file,  *)
(* threads, appends, failures and restarts.                                *)
(***************************************************************************)
EXTENDS SqliteStore, FiniteSetTheorems, SequenceTheorems, WellFoundedInduction, TLAPS

Distinct(recs) == \A i, j \in DOMAIN recs : recs[i].body = recs[j].body => i = j

\* Where the record of each call of append is: in the hands of a thread, in the
\* one open transaction or in the table, and in one of them only.
Accounted ==
    /\ acked \subseteq Numbers(rows)
    /\ Distinct(rows) /\ Numbers(rows) \subseteq 1 .. calls
    /\ \A s \in Stores : Distinct(pending[s]) /\ Numbers(pending[s]) \subseteq 1 .. calls
    /\ \A s \in Stores : Numbers(rows) \cap Numbers(pending[s]) = {}
    /\ \A s, r \in Stores : s # r => pending[s] = <<>> \/ pending[r] = <<>>

InHand ==
    /\ \A t \in Threads : pc[t] # "idle" => number[t] \in 1 .. calls
    /\ \A t, u \in Threads : pc[t] # "idle" /\ pc[u] # "idle" /\ number[t] = number[u] => t = u
    /\ \A t \in Threads : pc[t] \in {"chain", "advance", "insert"} =>
           number[t] \notin Numbers(rows) /\ \A s \in Stores : number[t] \notin Numbers(pending[s])
    /\ \A t \in Threads : pc[t] \in {"advance", "insert", "commit"} =>
           record[t] \in Row /\ record[t].body = number[t]
    /\ \A t \in Threads : pc[t] = "commit" => number[t] \in Numbers(pending[store[t]])

IInv == TypeOK /\ Accounted /\ InHand

-----------------------------------------------------------------------------
(* Sequences of records.                                                   *)

\* A sequence with one more record holds one more number.
LEMMA AppendNumbers ==
    ASSUME NEW recs \in Seq(Row), NEW r \in Row
    PROVE  /\ Append(recs, r) \in Seq(Row)
           /\ Numbers(Append(recs, r)) = Numbers(recs) \cup {r.body}
           /\ Distinct(recs) /\ r.body \notin Numbers(recs) => Distinct(Append(recs, r))
<1> DEFINE ext == Append(recs, r)
<1>1. /\ ext \in Seq(Row) /\ DOMAIN ext = DOMAIN recs \cup {Len(recs) + 1}
      /\ ext[Len(recs) + 1] = r /\ \A i \in DOMAIN recs : ext[i] = recs[i]
      /\ Len(recs) + 1 \notin DOMAIN recs
  OBVIOUS
<1> HIDE DEF ext
<1>2. Numbers(ext) = Numbers(recs) \cup {r.body}
  BY <1>1 DEF Numbers
<1>3. Distinct(recs) /\ r.body \notin Numbers(recs) => Distinct(ext)
  BY <1>1 DEF Distinct, Numbers
<1> QED BY <1>1, <1>2, <1>3 DEF ext

\* So does one sequence after another.
LEMMA ConcatNumbers ==
    ASSUME NEW xs \in Seq(Row), NEW ys \in Seq(Row)
    PROVE  /\ xs \o ys \in Seq(Row)
           /\ Numbers(xs \o ys) = Numbers(xs) \cup Numbers(ys)
           /\ Distinct(xs) /\ Distinct(ys) /\ Numbers(xs) \cap Numbers(ys) = {}
                => Distinct(xs \o ys)
<1> DEFINE both == xs \o ys
<1>1. /\ both \in Seq(Row) /\ DOMAIN both = 1 .. (Len(xs) + Len(ys))
      /\ \A i \in DOMAIN xs : both[i] = xs[i]
      /\ \A i \in DOMAIN both \ DOMAIN xs : both[i] = ys[i - Len(xs)]
      /\ DOMAIN xs = 1 .. Len(xs) /\ DOMAIN ys = 1 .. Len(ys)
      /\ Len(xs) \in Nat /\ Len(ys) \in Nat
  OBVIOUS
<1> HIDE DEF both
<1>2. /\ \A i \in DOMAIN both \ DOMAIN xs : i - Len(xs) \in DOMAIN ys
      /\ \A j \in DOMAIN ys : j + Len(xs) \in DOMAIN both \ DOMAIN xs /\ both[j + Len(xs)] = ys[j]
      /\ DOMAIN xs \subseteq DOMAIN both
  BY <1>1
<1>3. Numbers(both) = Numbers(xs) \cup Numbers(ys)
  <2>1. ASSUME NEW i \in DOMAIN both PROVE both[i].body \in Numbers(xs) \cup Numbers(ys)
    <3>1. CASE i \in DOMAIN xs
      BY <1>1, <3>1 DEF Numbers
    <3>2. CASE i \notin DOMAIN xs
      BY <1>1, <1>2, <3>2 DEF Numbers
    <3> QED BY <3>1, <3>2
  <2>2. ASSUME NEW i \in DOMAIN xs PROVE xs[i].body \in Numbers(both)
    BY <1>1, <1>2 DEF Numbers
  <2>3. ASSUME NEW j \in DOMAIN ys PROVE ys[j].body \in Numbers(both)
    BY <1>2 DEF Numbers
  <2> QED BY <2>1, <2>2, <2>3 DEF Numbers
<1>4. ASSUME Distinct(xs), Distinct(ys), Numbers(xs) \cap Numbers(ys) = {} PROVE Distinct(both)
  <2> SUFFICES ASSUME NEW i \in DOMAIN both, NEW j \in DOMAIN both, both[i].body = both[j].body
               PROVE  i = j
    BY DEF Distinct
  <2>1. \A k \in DOMAIN both : both[k].body \in Numbers(xs) <=> k \in DOMAIN xs
    <3> TAKE k \in DOMAIN both
    <3>1. k \in DOMAIN xs => both[k].body \in Numbers(xs)
      BY <1>1 DEF Numbers
    <3>2. k \notin DOMAIN xs => both[k].body \in Numbers(ys)
      BY <1>1, <1>2 DEF Numbers
    <3> QED BY <1>4, <3>1, <3>2
  <2>2. CASE i \in DOMAIN xs /\ j \in DOMAIN xs
    BY <1>1, <1>4, <2>2 DEF Distinct
  <2>3. CASE i \notin DOMAIN xs /\ j \notin DOMAIN xs
    <3>1. i - Len(xs) = j - Len(xs)
      BY <1>1, <1>2, <1>4, <2>3 DEF Distinct
    <3> QED BY <1>1, <3>1
  <2> QED BY <2>1, <2>2, <2>3
<1> QED BY <1>1, <1>3, <1>4 DEF both

LEMMA NoNumbers == Numbers(<<>>) = {} /\ Distinct(<<>>) /\ <<>> \in Seq(Row)
<1> QED BY DEF Numbers, Distinct

\* _recover_last_hash finds a chain hash, or the one every chain starts from.
LEMMA RecoveredHash == ASSUME NEW recs \in Seq(Row) PROVE LastChainHash(recs) \in Seq(Nat)
<1> DEFINE chained == {i \in DOMAIN recs : recs[i].chained}
<1>1. CASE chained = {}
  BY <1>1 DEF LastChainHash, GENESIS_PREV_HASH
<1>2. CASE chained # {}
  <2>1. \A i \in DOMAIN recs : recs[i] \in Row
    OBVIOUS
  <2>2. chained = 1 .. Len(recs) /\ Len(recs) \in Nat
    <3>1. \A i \in DOMAIN recs : recs[i].chained = TRUE
      BY <2>1 DEF Row
    <3>2. DOMAIN recs = 1 .. Len(recs) /\ Len(recs) \in Nat
      OBVIOUS
    <3>3. chained = DOMAIN recs
      BY <3>1
    <3> QED BY <3>2, <3>3
  <2>3. Len(recs) \in chained /\ \A j \in chained : j <= Len(recs)
    BY <1>2, <2>2
  <2>4. (CHOOSE i \in chained : \A j \in chained : j <= i) \in chained
    BY <2>3
  <2>5. \A i \in chained : recs[i].chain_hash \in Seq(Nat)
    BY <2>1 DEF Row
  <2> QED BY <1>2, <2>4, <2>5 DEF LastChainHash
<1> QED BY <1>1, <1>2

-----------------------------------------------------------------------------
(* The steps.                                                              *)

LEMMA InitIInv == Init => IInv
<1> SUFFICES ASSUME Init PROVE IInv
    OBVIOUS
<1> USE BoundsAssumption, StoresAssumption DEF Init
<1>1. TypeOK
  <2>1. AnyStore \in Stores
    BY DEF AnyStore
  <2> QED BY <2>1, NoNumbers DEF TypeOK, GENESIS_PREV_HASH
<1>2. Accounted /\ InHand
  BY NoNumbers DEF Accounted, InHand
<1> QED BY <1>1, <1>2 DEF IInv

\* What Release does, thread by thread.
LEMMA Released ==
    ASSUME TypeOK, NEW t \in Threads, pc[t] # "idle", Release(t)
    PROVE  /\ pc'[t] = "idle" /\ store' \in [Threads -> Stores]
           /\ pc' \in [Threads -> {"idle", "chain", "advance", "insert", "commit"}]
           /\ number' \in [Threads -> 0 .. calls]
           /\ record' \in [Threads -> Row \cup {NoRecord}]
           /\ \A u \in Threads \ {t} : /\ pc'[u] = pc[u] /\ store'[u] = store[u]
                                       /\ number'[u] = number[u] /\ record'[u] = record[u]
           /\ lock' \in [Stores -> Threads \cup {NoThread}]
           /\ \A u \in Threads : pc'[u] # "idle" => lock'[store'[u]] = u
           /\ \A s \in Stores : lock'[s] # NoThread => store'[lock'[s]] = s /\ pc'[lock'[s]] # "idle"
<1> USE StoresAssumption, NoThreadAssumption DEF TypeOK
<1>1. AnyStore \in Stores
  BY DEF AnyStore
<1>2. /\ pc' = [u \in Threads |-> IF u = t THEN "idle" ELSE pc[u]]
      /\ store' = [u \in Threads |-> IF u = t THEN AnyStore ELSE store[u]]
      /\ number' = [u \in Threads |-> IF u = t THEN 0 ELSE number[u]]
      /\ record' = [u \in Threads |-> IF u = t THEN NoRecord ELSE record[u]]
      /\ lock' = [lock EXCEPT ![store[t]] = NoThread]
  BY DEF Release, Leave
<1>3. /\ pc'[t] = "idle" /\ store' \in [Threads -> Stores]
      /\ pc' \in [Threads -> {"idle", "chain", "advance", "insert", "commit"}]
      /\ number' \in [Threads -> 0 .. calls]
  BY <1>1, <1>2
<1>4. record' \in [Threads -> Row \cup {NoRecord}]
  BY <1>2
<1>5. \A u \in Threads \ {t} : /\ pc'[u] = pc[u] /\ store'[u] = store[u]
                               /\ number'[u] = number[u] /\ record'[u] = record[u]
  BY <1>2
<1>6. lock' \in [Stores -> Threads \cup {NoThread}]
  BY <1>2
<1>7. \A u \in Threads : pc'[u] # "idle" => lock'[store'[u]] = u
  BY <1>2, <1>3, <1>5
<1>8. \A s \in Stores : lock'[s] # NoThread => store'[lock'[s]] = s /\ pc'[lock'[s]] # "idle"
  <2> SUFFICES ASSUME NEW s \in Stores, lock'[s] # NoThread
               PROVE  store'[lock'[s]] = s /\ pc'[lock'[s]] # "idle"
    OBVIOUS
  <2>1. s # store[t] /\ lock'[s] = lock[s]
    BY <1>2
  <2>2. lock[s] \in Threads \ {t}
    BY <2>1
  <2> QED BY <1>5, <2>1, <2>2
<1> QED BY <1>3, <1>4, <1>5, <1>6, <1>7, <1>8

\* An append that raises, before or after it has chained its record, and may take
\* the open transaction of its store with it.
LEMMA RaiseIInv ==
    ASSUME IInv, NEW t \in Threads, pc[t] # "idle", Release(t),
           raised' \subseteq raised \cup {number[t]},
           rejected' \subseteq rejected \cup {number[t]},
           pending' = pending \/ pending' = [pending EXCEPT ![store[t]] = <<>>],
           UNCHANGED <<rows, open, last, calls, acked, starts, stops>>
    PROVE  IInv'
<1> USE DEF IInv
<1>1. Release(t)
  OBVIOUS
<1>2. UNCHANGED <<rows, open, last, calls, acked, starts, stops>>
  OBVIOUS
<1>3. pending' \in [Stores -> Seq(Row)]
  BY NoNumbers DEF TypeOK
<1>4. \A s \in Stores : pending'[s] = pending[s] \/ pending'[s] = <<>>
  BY DEF TypeOK
<1>5. TypeOK'
  <2>1. raised' \subseteq 1 .. calls /\ rejected' \subseteq 1 .. calls
    <3>1. raised \subseteq 1 .. calls /\ rejected \subseteq 1 .. calls
      BY DEF TypeOK
    <3>2. number[t] \in 1 .. calls
      BY DEF InHand
    <3> QED BY <3>1, <3>2
  <2>2. TypeOK /\ Release(t) /\ pc[t] # "idle"
    BY <1>1
  <2>3. /\ store' \in [Threads -> Stores] /\ number' \in [Threads -> 0 .. calls]
        /\ pc' \in [Threads -> {"idle", "chain", "advance", "insert", "commit"}]
        /\ record' \in [Threads -> Row \cup {NoRecord}] /\ lock' \in [Stores -> Threads \cup {NoThread}]
        /\ \A u \in Threads : pc'[u] # "idle" => lock'[store'[u]] = u
        /\ \A s \in Stores : lock'[s] # NoThread => store'[lock'[s]] = s /\ pc'[lock'[s]] # "idle"
    BY <2>2, Released
  <2> QED BY <1>2, <1>3, <2>1, <2>3 DEF TypeOK
<1>6. Accounted'
  BY <1>2, <1>4, NoNumbers DEF Accounted
<1>7. InHand'
  <2>1. \A u \in Threads : pc[u] # "idle" /\ u # t => store[u] # store[t]
    BY DEF TypeOK
  <2>2. \A u \in Threads : pc'[u] # "idle" => u # t /\ pending'[store[u]] = pending[store[u]]
    <3>1. \A u \in Threads : pc'[u] # "idle" => u # t /\ pc[u] # "idle"
      BY Released
    <3>2. \A u \in Threads : store[u] # store[t] => pending'[store[u]] = pending[store[u]]
      BY DEF TypeOK
    <3> QED BY <2>1, <3>1, <3>2
  <2>3. \A u \in Threads : pc'[u] # "idle" =>
            /\ u # t /\ pc'[u] = pc[u] /\ store'[u] = store[u]
            /\ number'[u] = number[u] /\ record'[u] = record[u]
    BY <1>1, Released
  <2>4. \A s \in Stores : \A n : n \notin Numbers(pending[s]) => n \notin Numbers(pending'[s])
    BY <1>4, NoNumbers
  <2>5. \A u \in Threads : pc'[u] = "commit" => number'[u] \in Numbers(pending'[store'[u]])
    BY <2>2, <2>3 DEF InHand
  <2>6. \A u \in Threads : pc'[u] \in {"chain", "advance", "insert"} =>
            number'[u] \notin Numbers(rows') /\ \A s \in Stores : number'[u] \notin Numbers(pending'[s])
    BY <1>2, <2>3, <2>4 DEF InHand
  <2> QED BY <1>2, <2>3, <2>5, <2>6 DEF InHand
<1> QED BY <1>5, <1>6, <1>7

LEMMA OpenIInv == ASSUME IInv, NEW s \in Stores, Open(s) PROVE IInv'
<1> USE DEF IInv
<1>1. /\ UNCHANGED <<rows, pending, lock, pc, store, number, record, calls, acked, raised, rejected, stops>>
      /\ last' = [last EXCEPT ![s] = LastChainHash(rows)]
      /\ open' = open \cup {s} /\ starts' = starts \cup {<<s, calls>>}
  BY DEF Open, locals
<1>2. LastChainHash(rows) \in Seq(Nat)
  BY RecoveredHash DEF TypeOK
<1>3. TypeOK'
  BY <1>1, <1>2, BoundsAssumption DEF TypeOK
<1> QED BY <1>1, <1>3 DEF Accounted, InHand

LEMMA AcquireIInv ==
    ASSUME IInv, NEW t \in Threads, NEW s \in Stores, Acquire(t, s) PROVE IInv'
<1> USE BoundsAssumption, NoThreadAssumption DEF IInv
<1>1. /\ pc[t] = "idle" /\ lock[s] = NoThread /\ calls < MaxAppends
      /\ lock' = [lock EXCEPT ![s] = t] /\ calls' = calls + 1
      /\ store' = [store EXCEPT ![t] = s]
      /\ number' = [number EXCEPT ![t] = calls + 1]
      /\ pc' = [pc EXCEPT ![t] = "chain"]
      /\ UNCHANGED <<rows, pending, open, last, record, acked, raised, rejected, starts, stops>>
  BY DEF Acquire, Goto, ghosts
<1>2. calls \in Nat /\ 0 .. calls \subseteq 0 .. calls' /\ 1 .. calls \subseteq 1 .. calls'
  BY <1>1 DEF TypeOK
<1>3. TypeOK'
  <2>1. /\ store' \in [Threads -> Stores] /\ lock' \in [Stores -> Threads \cup {NoThread}]
        /\ pc' \in [Threads -> {"idle", "chain", "advance", "insert", "commit"}]
        /\ number' \in [Threads -> 0 .. calls'] /\ calls' \in 0 .. MaxAppends
    BY <1>1, <1>2 DEF TypeOK
  <2>2. /\ acked' \subseteq 1 .. calls' /\ raised' \subseteq 1 .. calls' /\ rejected' \subseteq 1 .. calls'
        /\ starts' \subseteq Stores \X (0 .. calls')
    BY <1>1, <1>2 DEF TypeOK
  <2>3. \A u \in Threads : pc'[u] # "idle" => lock'[store'[u]] = u
    BY <1>1 DEF TypeOK
  <2>4. \A r \in Stores : lock'[r] # NoThread => store'[lock'[r]] = r /\ pc'[lock'[r]] # "idle"
    BY <1>1 DEF TypeOK
  <2> QED BY <1>1, <2>1, <2>2, <2>3, <2>4 DEF TypeOK
<1>4. Accounted'
  BY <1>1, <1>2 DEF Accounted
<1>5. InHand'
  <2>1. \A n \in 1 .. calls : n # calls + 1
    BY <1>2
  <2>2. calls + 1 \notin Numbers(rows) /\ \A r \in Stores : calls + 1 \notin Numbers(pending[r])
    BY <2>1 DEF Accounted
  <2>3. number'[t] = calls + 1 /\ \A u \in Threads \ {t} : number'[u] = number[u] /\ pc'[u] = pc[u] /\ store'[u] = store[u]
    BY <1>1 DEF TypeOK
  <2>4. \A u \in Threads \ {t} : pc[u] # "idle" => number[u] # calls + 1
    BY <2>1 DEF InHand
  <2>5. calls + 1 \in 1 .. calls'
    BY <1>1, <1>2
  <2>6. pc'[t] = "chain"
    BY <1>1 DEF TypeOK
  <2>7. \A u \in Threads : pc'[u] # "idle" => number'[u] \in 1 .. calls'
    BY <1>2, <2>3, <2>5 DEF InHand
  <2>8. \A u, v \in Threads : pc'[u] # "idle" /\ pc'[v] # "idle" /\ number'[u] = number'[v] => u = v
    BY <2>3, <2>4 DEF InHand
  <2> QED BY <1>1, <2>2, <2>3, <2>6, <2>7, <2>8 DEF InHand
<1> QED BY <1>3, <1>4, <1>5

\* The record is chained, and the cached hash moves on.
LEMMA ChainIInv ==
    ASSUME IInv, NEW t \in Threads, ChainRecord(t) \/ AdvanceHash(t) PROVE IInv'
<1> USE DEF IInv
<1>1. CASE ChainRecord(t)
  <2> DEFINE d == append_record(number[t], last[store[t]])
  <2>1. /\ pc[t] = "chain" /\ pc' = [pc EXCEPT ![t] = "advance"]
        /\ record' = [record EXCEPT ![t] = d]
        /\ UNCHANGED <<rows, pending, open, last, lock, store, number, calls, acked, raised, rejected, starts, stops>>
    BY <1>1 DEF ChainRecord, Goto, ghosts
  <2>2. number[t] \in Nat /\ last[store[t]] \in Seq(Nat)
    BY DEF TypeOK
  <2>3. d \in Row /\ d.body = number[t]
    BY <2>2 DEF append_record, canonical_event_hash, chain_link, Row
  <2> HIDE DEF d
  <2>4. record' \in [Threads -> Row \cup {NoRecord}]
    BY <2>1, <2>3 DEF TypeOK
  <2>5. record'[t] = d /\ \A u \in Threads \ {t} : record'[u] = record[u]
    BY <2>1 DEF TypeOK
  <2> QED BY <2>1, <2>3, <2>4, <2>5, SMTT(30) DEF TypeOK, Accounted, InHand
<1>2. CASE AdvanceHash(t)
  <2>1. /\ pc[t] = "advance" /\ pc' = [pc EXCEPT ![t] = "insert"]
        /\ last' = [last EXCEPT ![store[t]] = record[t].chain_hash]
        /\ UNCHANGED <<rows, pending, open, lock, store, number, record, calls, acked, raised, rejected, starts, stops>>
    BY <1>2 DEF AdvanceHash, Goto, ghosts, locals
  <2>2. record[t].chain_hash \in Seq(Nat)
    BY <2>1 DEF InHand, Row
  <2> QED BY <2>1, <2>2, SMTT(30) DEF TypeOK, Accounted, InHand
<1> QED BY <1>1, <1>2

LEMMA InsertIInv == ASSUME IInv, NEW t \in Threads, Insert(t) PROVE IInv'
<1> USE DEF IInv
<1>1. /\ pc[t] = "insert" /\ pc' = [pc EXCEPT ![t] = "commit"]
      /\ pending' = [pending EXCEPT ![store[t]] = Append(pending[store[t]], record[t])]
      /\ UNCHANGED <<rows, open, last, lock, store, number, record, calls, acked, raised, rejected, starts, stops>>
      /\ \A r \in Stores \ {store[t]} : pending[r] = <<>>
  BY DEF Insert, Goto, ghosts, locals, Busy
<1>2. /\ store[t] \in Stores /\ pending[store[t]] \in Seq(Row)
      /\ record[t] \in Row /\ record[t].body = number[t]
  BY <1>1 DEF TypeOK, InHand
<1>3. /\ pending'[store[t]] \in Seq(Row)
      /\ Numbers(pending'[store[t]]) = Numbers(pending[store[t]]) \cup {number[t]}
      /\ Distinct(pending'[store[t]])
  <2>1. pending'[store[t]] = Append(pending[store[t]], record[t])
    BY <1>1, <1>2 DEF TypeOK
  <2>2. number[t] \notin Numbers(pending[store[t]]) /\ Distinct(pending[store[t]])
    BY <1>1, <1>2 DEF InHand, Accounted
  <2> QED BY <1>2, <2>1, <2>2, AppendNumbers
<1>4. \A r \in Stores \ {store[t]} : pending'[r] = pending[r] /\ pending[r] = <<>>
  BY <1>1 DEF TypeOK
<1>5. number[t] \in 1 .. calls /\ number[t] \notin Numbers(rows)
  BY <1>1 DEF InHand
<1>6. TypeOK'
  <2>1. pending' \in [Stores -> Seq(Row)]
    BY <1>1, <1>2, <1>3 DEF TypeOK
  <2> QED BY <1>1, <2>1 DEF TypeOK
<1>7. Accounted'
  BY <1>1, <1>2, <1>3, <1>4, <1>5 DEF Accounted
<1>8. InHand'
  <2>1. pc'[t] = "commit" /\ \A u \in Threads \ {t} : pc'[u] = pc[u]
    BY <1>1 DEF TypeOK
  <2>2. \A u \in Threads \ {t} : pc[u] # "idle" => number[u] # number[t]
    BY <1>1 DEF InHand
  <2>3. \A u \in Threads, s \in Stores : number[u] \in Numbers(pending'[s]) =>
            number[u] \in Numbers(pending[s]) \/ number[u] = number[t]
    BY <1>3, <1>4
  <2>4. \A u \in Threads : number[u] \in Numbers(pending[store[u]]) => number[u] \in Numbers(pending'[store[u]])
    BY <1>3, <1>4 DEF TypeOK
  <2>5. number[t] \in Numbers(pending'[store[t]])
    BY <1>3
  <2>6. \A u \in Threads : pc'[u] \in {"chain", "advance", "insert"} =>
            number[u] \notin Numbers(rows) /\ \A s \in Stores : number[u] \notin Numbers(pending'[s])
    BY <2>1, <2>2, <2>3 DEF InHand
  <2>7. \A u \in Threads : pc'[u] = "commit" => number[u] \in Numbers(pending'[store[u]])
    BY <2>1, <2>4, <2>5 DEF InHand
  <2>8. \A u \in Threads : pc'[u] # "idle" => pc[u] # "idle"
    BY <1>1, <2>1
  <2>9. \A u \in Threads : pc'[u] \in {"advance", "insert", "commit"} => pc[u] \in {"advance", "insert", "commit"}
    BY <1>1, <2>1
  <2> QED BY <1>1, <2>6, <2>7, <2>8, <2>9 DEF InHand
<1> QED BY <1>6, <1>7, <1>8

LEMMA CommitIInv == ASSUME IInv, NEW t \in Threads, Commit(t) PROVE IInv'
<1> USE DEF IInv
<1>1. /\ pc[t] = "commit" /\ Release(t)
      /\ rows' = rows \o pending[store[t]]
      /\ pending' = [pending EXCEPT ![store[t]] = <<>>]
      /\ acked' = acked \cup {number[t]}
      /\ UNCHANGED <<open, last, calls, raised, rejected, starts, stops>>
  BY DEF Commit, ghosts
<1>2. /\ store[t] \in Stores /\ pending[store[t]] \in Seq(Row) /\ rows \in Seq(Row)
      /\ number[t] \in Numbers(pending[store[t]])
  BY <1>1 DEF TypeOK, InHand
<1>3. /\ rows' \in Seq(Row) /\ Distinct(rows')
      /\ Numbers(rows') = Numbers(rows) \cup Numbers(pending[store[t]])
  BY <1>1, <1>2, ConcatNumbers DEF Accounted
<1>4. pending'[store[t]] = <<>> /\ \A r \in Stores \ {store[t]} : pending'[r] = pending[r]
  BY <1>1, <1>2 DEF TypeOK
<1>5. \A r \in Stores \ {store[t]} : pending[r] = <<>>
  BY <1>2, NoNumbers DEF Accounted
<1>6. TypeOK'
  <2>1. pending' \in [Stores -> Seq(Row)]
    BY <1>1, NoNumbers DEF TypeOK
  <2>2. acked' \subseteq 1 .. calls
    <3>1. acked \subseteq 1 .. calls
      BY DEF TypeOK
    <3>2. number[t] \in 1 .. calls
      BY <1>1 DEF InHand
    <3> QED BY <1>1, <3>1, <3>2
  <2>3. /\ store' \in [Threads -> Stores] /\ number' \in [Threads -> 0 .. calls]
        /\ pc' \in [Threads -> {"idle", "chain", "advance", "insert", "commit"}]
        /\ record' \in [Threads -> Row \cup {NoRecord}] /\ lock' \in [Stores -> Threads \cup {NoThread}]
        /\ \A u \in Threads : pc'[u] # "idle" => lock'[store'[u]] = u
        /\ \A s \in Stores : lock'[s] # NoThread => store'[lock'[s]] = s /\ pc'[lock'[s]] # "idle"
    BY <1>1, Released
  <2> QED BY <1>1, <1>3, <2>1, <2>2, <2>3 DEF TypeOK
<1>7. Accounted'
  <2>1. \A s \in Stores : pending'[s] = <<>>
    BY <1>4, <1>5
  <2> QED BY <1>1, <1>2, <1>3, <2>1, NoNumbers DEF Accounted
<1>8. InHand'
  <2>1. /\ pc'[t] = "idle"
        /\ \A u \in Threads \ {t} : /\ pc'[u] = pc[u] /\ store'[u] = store[u]
                                    /\ number'[u] = number[u] /\ record'[u] = record[u]
    BY <1>1, Released
  <2>2. \A u \in Threads \ {t} : pc[u] # "idle" => store[u] # store[t]
    BY <1>1 DEF TypeOK
  <2>3. \A u \in Threads \ {t} : pc[u] # "commit"
    BY <1>5, <2>2, NoNumbers DEF InHand, TypeOK
  <2>4. \A s \in Stores : Numbers(pending'[s]) = {}
    BY <1>4, <1>5, NoNumbers
  <2>5. \A u \in Threads : pc'[u] \in {"chain", "advance", "insert"} => number'[u] \notin Numbers(rows')
    BY <1>2, <1>3, <2>1 DEF InHand
  <2>6. \A u \in Threads : pc'[u] # "idle" =>
            /\ pc'[u] # "commit" /\ pc'[u] = pc[u]
            /\ number'[u] = number[u] /\ record'[u] = record[u]
    BY <2>1, <2>3
  <2>7. \A u \in Threads : pc'[u] # "idle" => number'[u] \in 1 .. calls'
    BY <1>1, <2>6 DEF InHand
  <2>8. \A u, v \in Threads : pc'[u] # "idle" /\ pc'[v] # "idle" /\ number'[u] = number'[v] => u = v
    BY <2>6 DEF InHand
  <2>9. \A u \in Threads : pc'[u] \in {"advance", "insert", "commit"} =>
            record'[u] \in Row /\ record'[u].body = number'[u]
    <3> TAKE u \in Threads
    <3>1. pc'[u] \in {"advance", "insert", "commit"} =>
              pc[u] \in {"advance", "insert", "commit"} /\ record'[u] = record[u] /\ number'[u] = number[u]
      BY <2>6
    <3> QED BY <3>1 DEF InHand
  <2>10. \A u \in Threads : pc'[u] # "commit"
    BY <2>6
  <2> QED BY <2>4, <2>5, <2>7, <2>8, <2>9, <2>10 DEF InHand
<1> QED BY <1>6, <1>7, <1>8

LEMMA StopIInv == ASSUME IInv, NEW s \in Stores, Stop(s) PROVE IInv'
<1> USE StoresAssumption, NoThreadAssumption DEF IInv
<1> DEFINE T == {t \in Threads : store[t] = s}
<1>1. /\ open' = open \ {s} /\ stops < MaxStops /\ stops' = stops + 1
      /\ pending' = [pending EXCEPT ![s] = <<>>]
      /\ lock' = [lock EXCEPT ![s] = NoThread]
      /\ pc' = [t \in Threads |-> IF t \in T THEN "idle" ELSE pc[t]]
      /\ store' = [t \in Threads |-> IF t \in T THEN AnyStore ELSE store[t]]
      /\ number' = [t \in Threads |-> IF t \in T THEN 0 ELSE number[t]]
      /\ record' = [t \in Threads |-> IF t \in T THEN NoRecord ELSE record[t]]
      /\ UNCHANGED <<rows, last, calls, acked, raised, rejected, starts>>
  BY DEF Stop, Leave
<1>2. AnyStore \in Stores
  BY DEF AnyStore
<1>3. \A t \in Threads : pc'[t] # "idle" =>
          /\ store[t] # s /\ pc'[t] = pc[t] /\ store'[t] = store[t]
          /\ number'[t] = number[t] /\ record'[t] = record[t]
  BY <1>1
<1>4. pending'[s] = <<>> /\ \A r \in Stores \ {s} : pending'[r] = pending[r]
  BY <1>1 DEF TypeOK
<1>5. TypeOK'
  <2>1. /\ pending' \in [Stores -> Seq(Row)] /\ lock' \in [Stores -> Threads \cup {NoThread}]
        /\ store' \in [Threads -> Stores] /\ number' \in [Threads -> 0 .. calls]
        /\ pc' \in [Threads -> {"idle", "chain", "advance", "insert", "commit"}]
    BY <1>1, <1>2, NoNumbers DEF TypeOK
  <2>2. record' \in [Threads -> Row \cup {NoRecord}]
    BY <1>1 DEF TypeOK
  <2>3. \A t \in Threads : pc'[t] # "idle" => lock'[store'[t]] = t
    BY <1>1, <1>3 DEF TypeOK
  <2>4. \A r \in Stores : lock'[r] # NoThread => store'[lock'[r]] = r /\ pc'[lock'[r]] # "idle"
    <3> SUFFICES ASSUME NEW r \in Stores, lock'[r] # NoThread
                 PROVE  store'[lock'[r]] = r /\ pc'[lock'[r]] # "idle"
      OBVIOUS
    <3>1. r # s /\ lock'[r] = lock[r]
      BY <1>1 DEF TypeOK
    <3>2. lock[r] \in Threads /\ store[lock[r]] = r /\ pc[lock[r]] # "idle"
      BY <3>1 DEF TypeOK
    <3> QED BY <1>1, <3>1, <3>2
  <2>5. stops' \in 0 .. MaxStops
    BY <1>1, BoundsAssumption DEF TypeOK
  <2> QED BY <1>1, <2>1, <2>2, <2>3, <2>4, <2>5 DEF TypeOK
<1>6. Accounted'
  BY <1>1, <1>4, NoNumbers DEF Accounted
<1>7. InHand'
  <2>1. \A t \in Threads, r \in Stores : number[t] \notin Numbers(pending[r]) => number[t] \notin Numbers(pending'[r])
    BY <1>4, NoNumbers
  <2>2. \A t \in Threads : pc'[t] # "idle" => pending'[store'[t]] = pending[store[t]]
    BY <1>3, <1>4 DEF TypeOK
  <2> QED BY <1>1, <1>3, <2>1, <2>2 DEF InHand
<1> QED BY <1>5, <1>6, <1>7

\* A call of append that ends before it takes the lock.
LEMMA ToDictRaisesIInv ==
    ASSUME IInv, NEW t \in Threads, NEW s \in Stores, ToDictRaises(t, s) PROVE IInv'
<1> USE BoundsAssumption DEF IInv
<1>1. /\ calls < MaxAppends /\ calls' = calls + 1 /\ rejected' = rejected \cup {calls + 1}
      /\ UNCHANGED <<rows, pending, open, last, lock, pc, store, number, record, acked, raised, starts, stops>>
  BY DEF ToDictRaises, locals
<1>2. calls \in Nat /\ 0 .. calls \subseteq 0 .. calls' /\ 1 .. calls \subseteq 1 .. calls' /\ calls + 1 \in 1 .. calls'
  BY <1>1 DEF TypeOK
<1>3. TypeOK'
  <2>1. calls' \in 0 .. MaxAppends
    BY <1>1, <1>2
  <2>2. /\ acked' \subseteq 1 .. calls' /\ raised' \subseteq 1 .. calls' /\ rejected' \subseteq 1 .. calls'
        /\ starts' \subseteq Stores \X (0 .. calls') /\ number' \in [Threads -> 0 .. calls']
    BY <1>1, <1>2 DEF TypeOK
  <2> QED BY <1>1, <2>1, <2>2 DEF TypeOK
<1>4. Accounted' /\ InHand'
  BY <1>1, <1>2 DEF Accounted, InHand
<1> QED BY <1>3, <1>4

\* Every step keeps the invariant.
LEMMA NextIInv == IInv /\ [Next]_vars => IInv'
<1> SUFFICES ASSUME IInv, [Next]_vars PROVE IInv'
    OBVIOUS
<1>1. ASSUME NEW t \in Threads,
             NotHashable(t) \/ NotSerialisable(t) \/ StatementFails(t) \/ DatabaseLocked(t)
      PROVE  IInv'
  <2>1. /\ pc[t] # "idle" /\ Release(t)
        /\ raised' \subseteq raised \cup {number[t]} /\ rejected' \subseteq rejected \cup {number[t]}
        /\ pending' = pending \/ pending' = [pending EXCEPT ![store[t]] = <<>>]
        /\ UNCHANGED <<rows, open, last, calls, acked, starts, stops>>
    BY <1>1 DEF NotHashable, NotSerialisable, StatementFails, DatabaseLocked, Raise, ghosts
  <2> QED BY <2>1, RaiseIInv
<1>2. CASE Next
  BY <1>1, <1>2, OpenIInv, StopIInv, AcquireIInv, ToDictRaisesIInv, ChainIInv, InsertIInv, CommitIInv DEF Next, Step
<1>3. CASE UNCHANGED vars
  BY <1>3 DEF vars, locals, ghosts, IInv, TypeOK, Accounted, InHand
<1> QED BY <1>2, <1>3

LEMMA SpecIInv == Spec => []IInv
<1> QED BY InitIInv, NextIInv, PTL DEF Spec

\* Every state is well typed: above all, a store's lock is held by the one
\* thread that is inside append, whatever raised or stopped in between.
THEOREM SqliteTypes == Spec => []TypeOK
<1>1. IInv => TypeOK
  BY DEF IInv
<1> QED BY <1>1, SpecIInv, PTL

\* For any number of stores, threads, failures and restarts, a record whose
\* append returned stays in the table, and once only.
THEOREM SqliteKeepsAcked == Spec => []AckedStays
<1>1. IInv => AckedStays
  BY DEF IInv, Accounted, AckedStays, Distinct
<1> QED BY <1>1, SpecIInv, PTL

-----------------------------------------------------------------------------
(* A lone store.  A hash ends in the number of the record it was made of,  *)
(* so what the chain can tell of the records is said about numbers.        *)

\* The number of the record that a chain hash ends with, 0 for the first prev.
Final(h) == IF h = <<>> THEN 0 ELSE h[Len(h)]

Records(recs) == {recs[i] : i \in DOMAIN recs}

Ascending(recs) == \A i, j \in DOMAIN recs : i < j => recs[i].body < recs[j].body

\* Record n may be chained to the hash h, beside the records in held: h covers no
\* later record than n, and every earlier one of held; each that lies between was
\* refused before it was chained, or is the affair of a store that was opened; and
\* the record h ends with is accounted for.
Fits(n, h, held, opened, accounted, refused) ==
    /\ Final(h) < n
    /\ Final(h) = 0 => h = <<>>
    /\ \A m \in Final(h) + 1 .. n - 1 : m \in refused \/ \E a \in opened : m <= a[2] /\ a[2] < n
    /\ Final(h) \in accounted
    /\ \A q \in held : q.body < n =>
          q.body <= Final(h) /\ (q.body = Final(h) => q.chain_hash = h)

Held(s) == Records(rows) \cup Records(pending[s])
Known == {0} \cup Numbers(rows) \cup raised

\* A store that is not open has no transaction and no thread inside append.
Owned ==
    /\ \A s \in open : \E a \in starts : a[1] = s
    /\ \A s \in Stores \ open : pending[s] = <<>> /\ lock[s] = NoThread
    /\ \A t \in Threads : pc[t] # "idle" => number[t] \notin raised

OnlyStore(s) == \A a \in starts : a[1] = s

Chained(s) ==
    \A r \in Held(s) : /\ r = append_record(r.body, r.prev_hash)
                       /\ Fits(r.body, r.prev_hash, Held(s), starts, Known, rejected)

Sorted(s) ==
    /\ Ascending(rows) /\ Ascending(pending[s])
    /\ \A m \in Numbers(rows), n \in Numbers(pending[s]) : m < n

\* The next record fits the hash the store holds, and so does that of the thread
\* inside append, which is the newest but for those refused since; the hash of a
\* record that an append has advanced to ends with it.
Ready(s) ==
    /\ s \in open /\ lock[s] = NoThread => Fits(calls + 1, last[s], Held(s), starts, Known, rejected)
    /\ \A t \in Threads :
        /\ pc[t] # "idle" =>
              /\ \A m \in number[t] + 1 .. calls : m \in rejected
              /\ \A q \in Held(s) : q.body <= number[t]
        /\ pc[t] \in {"chain", "advance"} => Fits(number[t], last[s], Held(s), starts, Known, rejected)
        /\ pc[t] = "advance" => record[t] = append_record(number[t], last[s])
        /\ pc[t] = "insert" =>
              /\ record[t] = append_record(number[t], record[t].prev_hash)
              /\ Fits(number[t], record[t].prev_hash, Held(s), starts, Known, rejected)
              /\ record[t].chain_hash = last[s]
        /\ pc[t] \in {"insert", "commit"} =>
              /\ Final(last[s]) = number[t]
              /\ \A q \in Held(s) : q.body = number[t] => q.chain_hash = last[s]

Lone(s) == Chained(s) /\ Sorted(s) /\ Ready(s)

LInv == Owned /\ \A s \in Stores : OnlyStore(s) => Lone(s)

LEMMA FitsStays ==
    ASSUME NEW n, NEW h, NEW held, NEW opened, NEW accounted, NEW refused,
           Fits(n, h, held, opened, accounted, refused),
           NEW held2, NEW opened2, NEW accounted2, NEW refused2,
           opened \subseteq opened2, accounted \subseteq accounted2, refused \subseteq refused2,
           \A q \in held2 : q \in held \/ ~(q.body < n)
    PROVE  Fits(n, h, held2, opened2, accounted2, refused2)
BY DEF Fits

\* What is refused from n on is nobody's loss: a later record fits the same hash.
LEMMA FitsLater ==
    ASSUME NEW n \in Nat, NEW h \in Seq(Nat), NEW held, NEW opened, NEW accounted, NEW refused,
           Fits(n, h, held, opened, accounted, refused),
           NEW n2 \in Nat, n <= n2, NEW refused2, refused \subseteq refused2,
           \A m \in n .. n2 - 1 : m \in refused2,
           \A a \in opened : a[2] \in Nat,
           \A q \in held : q.body < n
    PROVE  Fits(n2, h, held, opened, accounted, refused2)
<1>1. Final(h) \in Nat /\ Final(h) < n /\ Final(h) < n2
  BY DEF Fits, Final
<1>2. ASSUME NEW m \in Final(h) + 1 .. n2 - 1
      PROVE  m \in refused2 \/ \E a \in opened : m <= a[2] /\ a[2] < n2
  <2>1. m \in Final(h) + 1 .. n - 1 \/ m \in n .. n2 - 1
    BY <1>1
  <2>2. CASE m \in Final(h) + 1 .. n - 1
    <3>1. m \in refused \/ \E a \in opened : m <= a[2] /\ a[2] < n
      BY <2>2 DEF Fits
    <3>2. \A a \in opened : a[2] < n => a[2] < n2
      OBVIOUS
    <3> QED BY <3>1, <3>2
  <2> QED BY <2>1, <2>2
<1> QED BY <1>1, <1>2 DEF Fits

LEMMA FinalOfLink ==
    ASSUME NEW n \in Nat, NEW h \in Seq(Nat)
    PROVE  LET r == append_record(n, h)
           IN  /\ r \in Row /\ r.body = n /\ r.prev_hash = h
               /\ r.chain_hash = Append(h, n) /\ Final(r.chain_hash) = n /\ r.chain_hash # <<>>
<1>1. Append(h, n) \in Seq(Nat) /\ Append(h, n) # <<>> /\ Final(Append(h, n)) = n
  BY DEF Final
<1> QED BY <1>1 DEF append_record, canonical_event_hash, chain_link, Row

LEMMA RecordsOf ==
    /\ Records(<<>>) = {} /\ Ascending(<<>>)
    /\ \A recs : Numbers(recs) = {r.body : r \in Records(recs)}
    /\ \A recs \in Seq(Row) : Records(recs) \subseteq Row
<1>1. Records(<<>>) = {} /\ Ascending(<<>>)
  BY DEF Records, Ascending
<1>2. \A recs : Numbers(recs) = {r.body : r \in Records(recs)}
  BY DEF Records, Numbers
<1>3. \A recs \in Seq(Row) : Records(recs) \subseteq Row
  BY DEF Records
<1> QED BY <1>1, <1>2, <1>3

LEMMA RecordsOfAppend ==
    ASSUME NEW recs \in Seq(Row), NEW r \in Row
    PROVE  /\ Records(Append(recs, r)) = Records(recs) \cup {r}
           /\ Ascending(recs) /\ (\A n \in Numbers(recs) : n < r.body) => Ascending(Append(recs, r))
<1> DEFINE ext == Append(recs, r)
           n == Len(recs) + 1
<1>1. /\ DOMAIN ext = DOMAIN recs \cup {n} /\ DOMAIN recs \subseteq Nat
      /\ ext[n] = r /\ \A i \in DOMAIN recs : ext[i] = recs[i] /\ i < n
  OBVIOUS
<1>2. ~(n < n) /\ \A i \in DOMAIN recs : ~(n < i)
  OBVIOUS
<1> HIDE DEF ext, n
<1>3. Records(ext) = Records(recs) \cup {r}
  BY <1>1 DEF Records
<1>4. Ascending(recs) /\ (\A m \in Numbers(recs) : m < r.body) => Ascending(ext)
  BY <1>1, <1>2 DEF Ascending, Numbers
<1> QED BY <1>3, <1>4 DEF ext

LEMMA RecordsOfConcat ==
    ASSUME NEW xs \in Seq(Row), NEW ys \in Seq(Row)
    PROVE  /\ Records(xs \o ys) = Records(xs) \cup Records(ys)
           /\ Ascending(xs) /\ Ascending(ys) /\ (\A m \in Numbers(xs), n \in Numbers(ys) : m < n)
                => Ascending(xs \o ys)
<1> DEFINE both == xs \o ys
           On(j) == Len(xs) + j
<1>1. /\ DOMAIN both = 1 .. (Len(xs) + Len(ys)) /\ DOMAIN xs = 1 .. Len(xs) /\ DOMAIN ys = 1 .. Len(ys)
      /\ \A i \in DOMAIN xs : both[i] = xs[i]
      /\ \A j \in DOMAIN ys : both[On(j)] = ys[j]
      /\ Len(xs) \in Nat /\ Len(ys) \in Nat
  OBVIOUS
<1> HIDE DEF both
<1>2. /\ \A i \in DOMAIN xs : i \in DOMAIN both
      /\ \A j \in DOMAIN ys : On(j) \in DOMAIN both /\ \A i \in DOMAIN xs : ~(On(j) < i)
      /\ \A i, j \in DOMAIN ys : On(i) < On(j) => i < j
  BY <1>1
<1>3. ASSUME NEW i \in DOMAIN both  PROVE i \in DOMAIN xs \/ \E j \in DOMAIN ys : i = On(j)
  <2>1. i \notin DOMAIN xs => i - Len(xs) \in DOMAIN ys /\ i = On(i - Len(xs))
    BY <1>1
  <2> QED BY <2>1
<1> HIDE DEF On
<1>4. Records(both) = Records(xs) \cup Records(ys)
  <2>1. Records(both) \subseteq Records(xs) \cup Records(ys)
    BY <1>1, <1>3 DEF Records
  <2>2. Records(xs) \subseteq Records(both) /\ Records(ys) \subseteq Records(both)
    BY <1>1, <1>2 DEF Records
  <2> QED BY <2>1, <2>2
<1>5. ASSUME Ascending(xs), Ascending(ys), \A m \in Numbers(xs), n \in Numbers(ys) : m < n,
             NEW i \in DOMAIN both, NEW j \in DOMAIN both, i < j
      PROVE  both[i].body < both[j].body
  <2>1. CASE i \in DOMAIN xs /\ j \in DOMAIN xs
    BY <1>1, <1>5, <2>1 DEF Ascending
  <2>2. CASE i \in DOMAIN xs /\ \E k \in DOMAIN ys : j = On(k)
    BY <1>1, <1>5, <2>2 DEF Numbers
  <2>3. CASE (\E k \in DOMAIN ys : i = On(k)) /\ j \in DOMAIN xs
    BY <1>2, <1>5, <2>3
  <2>4. CASE (\E k \in DOMAIN ys : i = On(k)) /\ \E k \in DOMAIN ys : j = On(k)
    BY <1>1, <1>2, <1>5, <2>4 DEF Ascending
  <2> QED BY <1>3, <2>1, <2>2, <2>3, <2>4
<1> QED BY <1>4, <1>5 DEF both, Ascending

\* _recover_last_hash finds the hash of the newest row.
LEMMA RecoversNewest ==
    ASSUME NEW recs \in Seq(Row)
    PROVE  LastChainHash(recs) = IF recs = <<>> THEN <<>> ELSE recs[Len(recs)].chain_hash
<1> DEFINE chained == {i \in DOMAIN recs : recs[i].chained}
<1>1. DOMAIN recs = 1 .. Len(recs) /\ Len(recs) \in Nat /\ \A i \in DOMAIN recs : recs[i].chained = TRUE
  <2>1. \A i \in DOMAIN recs : recs[i] \in Row
    OBVIOUS
  <2>2. \A r \in Row : r.chained = TRUE
    BY DEF Row
  <2> QED BY <2>1, <2>2
<1>2. chained = DOMAIN recs
  BY <1>1
<1>3. LastChainHash(recs) = IF chained = {} THEN <<>>
                            ELSE recs[CHOOSE i \in chained : \A j \in chained : j <= i].chain_hash
  BY Zenon DEF LastChainHash, GENESIS_PREV_HASH
<1>4. CASE recs = <<>>
  BY <1>1, <1>2, <1>3, <1>4
<1>5. CASE recs # <<>>
  <2>1. Len(recs) \in DOMAIN recs /\ \A j \in DOMAIN recs : j <= Len(recs)
    BY <1>1, <1>5
  <2>2. \A i \in DOMAIN recs : (\A j \in DOMAIN recs : j <= i) => i = Len(recs)
    BY <1>1, <2>1
  <2>3. Len(recs) = CHOOSE i \in DOMAIN recs : \A j \in DOMAIN recs : j <= i
    BY <2>1, <2>2
  <2> HIDE DEF chained
  <2>4. chained # {}
    BY <1>2, <2>1
  <2>5. LastChainHash(recs) = recs[CHOOSE i \in DOMAIN recs : \A j \in DOMAIN recs : j <= i].chain_hash
    BY <1>2, <1>3, <2>4, Zenon
  <2>6. LastChainHash(recs) = recs[Len(recs)].chain_hash
    BY <2>3, <2>5, Zenon
  <2> QED BY <1>5, <2>6
<1> QED BY <1>4, <1>5

-----------------------------------------------------------------------------
(* The steps of a lone store.                                              *)

LEMMA OneInside ==
    ASSUME IInv, Owned, NEW s \in Stores, OnlyStore(s)
    PROVE  /\ open \subseteq {s}
           /\ \A t \in Threads : pc[t] # "idle" =>
                  store[t] = s /\ lock[s] = t /\ s \in open /\ \A u \in Threads \ {t} : pc[u] = "idle"
<1>1. open \subseteq {s}
  BY DEF Owned, OnlyStore
<1>2. ASSUME NEW t \in Threads, pc[t] # "idle"  PROVE store[t] = s /\ lock[s] = t /\ s \in open
  <2>1. lock[store[t]] = t /\ store[t] \in Stores
    BY <1>2 DEF IInv, TypeOK
  <2>2. store[t] \in open
    BY <2>1, NoThreadAssumption DEF Owned
  <2> QED BY <1>1, <2>1, <2>2
<1> QED BY <1>1, <1>2

LEMMA InitLInv == Init => LInv
<1> SUFFICES ASSUME Init  PROVE LInv
  OBVIOUS
<1>1. Owned
  BY DEF Init, Owned
<1>2. ASSUME NEW s \in Stores  PROVE Lone(s)
  <2>1. Records(rows) = {} /\ Ascending(rows) /\ Records(pending[s]) = {} /\ Ascending(pending[s])
    BY RecordsOf DEF Init
  <2>2. Held(s) = {} /\ Numbers(rows) = {}
    BY <2>1, RecordsOf DEF Held
  <2>3. Chained(s) /\ Sorted(s)
    BY <2>1, <2>2 DEF Chained, Sorted
  <2>4. open = {} /\ \A t \in Threads : pc[t] = "idle"
    BY DEF Init
  <2>5. Ready(s)
    BY <2>4 DEF Ready
  <2> QED BY <2>3, <2>5 DEF Lone
<1> QED BY <1>1, <1>2 DEF LInv

LEMMA OwnedKept ==
    ASSUME IInv, IInv', Owned, [Next]_vars
    PROVE  Owned'
<1> USE StoresAssumption, NoThreadAssumption
<1>1. ASSUME NEW s \in Stores, Open(s)  PROVE Owned'
  <2>1. /\ open' = open \cup {s} /\ starts' = starts \cup {<<s, calls>>}
        /\ UNCHANGED <<pending, lock, pc, number, raised>>
    BY <1>1 DEF Open, locals
  <2>2. \A r \in open' : \E a \in starts' : a[1] = r
    <3>1. <<s, calls>> \in starts' /\ <<s, calls>>[1] = s
      BY <2>1
    <3> QED BY <2>1, <3>1 DEF Owned
  <2> QED BY <2>1, <2>2 DEF Owned
<1>2. ASSUME NEW s \in Stores, Stop(s)  PROVE Owned'
  <2>1. /\ open' = open \ {s} /\ starts' = starts /\ raised' = raised
        /\ pending' = [pending EXCEPT ![s] = <<>>] /\ lock' = [lock EXCEPT ![s] = NoThread]
    BY <1>2 DEF Stop
  <2>2. \A t \in Threads : pc'[t] # "idle" => pc[t] # "idle" /\ number'[t] = number[t]
    BY <1>2 DEF Stop, Leave
  <2>3. \A r \in Stores \ open' : pending'[r] = <<>> /\ lock'[r] = NoThread
    BY <2>1 DEF IInv, TypeOK, Owned
  <2> QED BY <2>1, <2>2, <2>3 DEF Owned
<1>3. ASSUME NEW t \in Threads, NEW s \in Stores, Acquire(t, s)  PROVE Owned'
  <2>1. /\ s \in open /\ lock' = [lock EXCEPT ![s] = t] /\ pc' = [pc EXCEPT ![t] = "chain"]
        /\ number' = [number EXCEPT ![t] = calls + 1]
        /\ UNCHANGED <<open, pending, raised, starts>>
    BY <1>3 DEF Acquire, Goto, ghosts
  <2>2. calls + 1 \notin raised
    BY DEF IInv, TypeOK
  <2>3. \A u \in Threads : pc'[u] # "idle" => number'[u] \notin raised
    BY <2>1, <2>2 DEF IInv, TypeOK, Owned
  <2>4. \A r \in Stores \ open : lock'[r] = NoThread
    BY <2>1 DEF IInv, TypeOK, Owned
  <2> QED BY <2>1, <2>3, <2>4 DEF Owned
<1>4. ASSUME NEW t \in Threads, ChainRecord(t) \/ AdvanceHash(t) \/ Insert(t)  PROVE Owned'
  <2>1. /\ pc[t] # "idle" /\ UNCHANGED <<open, lock, number, raised, starts>>
        /\ \A u \in Threads : pc'[u] # "idle" => pc[u] # "idle"
    BY <1>4, SMTT(30) DEF ChainRecord, AdvanceHash, Insert, Goto, locals, ghosts, IInv, TypeOK
  <2>2. store[t] \in open
    <3>1. store[t] \in Stores /\ lock[store[t]] = t
      BY <2>1 DEF IInv, TypeOK
    <3> QED BY <3>1 DEF Owned
  <2>3. \A r \in Stores \ open : pending'[r] = pending[r]
    BY <1>4, <2>2, SMTT(30) DEF ChainRecord, AdvanceHash, Insert, IInv, TypeOK
  <2> QED BY <2>1, <2>3 DEF Owned
<1>5. ASSUME NEW t \in Threads, pc[t] # "idle", Release(t),
             raised' = raised \/ raised' = raised \cup {number[t]},
             pending' = pending \/ pending' = [pending EXCEPT ![store[t]] = <<>>],
             UNCHANGED <<open, starts>>
      PROVE  Owned'
  <2>1. /\ \A u \in Threads : pc'[u] # "idle" => u # t /\ pc[u] # "idle" /\ number'[u] = number[u]
        /\ lock' = [lock EXCEPT ![store[t]] = NoThread]
    BY <1>5, Released DEF IInv, Release
  <2>2. \A u \in Threads : pc'[u] # "idle" => number'[u] \notin raised'
    BY <1>5, <2>1 DEF IInv, InHand, Owned
  <2>3. \A r \in Stores : pending'[r] \in {pending[r], <<>>} /\ lock'[r] \in {lock[r], NoThread}
    <3>1. pending \in [Stores -> Seq(Row)] /\ lock \in [Stores -> Threads \cup {NoThread}]
      BY DEF IInv, TypeOK
    <3>2. \A r \in Stores : pending'[r] \in {pending[r], <<>>}
      BY <1>5, <3>1
    <3> QED BY <2>1, <3>1, <3>2
  <2>4. \A r \in Stores \ open' : pending'[r] = <<>> /\ lock'[r] = NoThread
    BY <1>5, <2>3 DEF Owned
  <2> QED BY <1>5, <2>2, <2>4 DEF Owned
<1>6. ASSUME NEW t \in Threads,
             NotHashable(t) \/ NotSerialisable(t) \/ StatementFails(t) \/ DatabaseLocked(t) \/ Commit(t)
      PROVE  Owned'
  <2>1. /\ pc[t] # "idle" /\ Release(t)
        /\ raised' = raised \/ raised' = raised \cup {number[t]}
        /\ pending' = pending \/ pending' = [pending EXCEPT ![store[t]] = <<>>]
        /\ UNCHANGED <<open, starts>>
    BY <1>6 DEF NotHashable, NotSerialisable, StatementFails, DatabaseLocked, Commit, Raise, ghosts
  <2> QED BY <1>5, <2>1
<1>7. ASSUME NEW t \in Threads, NEW s \in Stores, ToDictRaises(t, s)  PROVE Owned'
  BY <1>7 DEF ToDictRaises, locals, Owned
<1>8. CASE Next
  BY <1>1, <1>2, <1>3, <1>4, <1>6, <1>7, <1>8 DEF Next, Step
<1>9. CASE UNCHANGED vars
  BY <1>9 DEF vars, locals, ghosts, Owned
<1> QED BY <1>8, <1>9

\* Records that go, and more that is known, disturb no chain.
LEMMA ChainedStays ==
    ASSUME NEW s \in Stores, Chained(s), Held(s)' \subseteq Held(s),
           starts \subseteq starts', Known \subseteq Known', rejected \subseteq rejected'
    PROVE  Chained(s)'
<1> SUFFICES ASSUME NEW r \in Held(s)'
             PROVE  r = append_record(r.body, r.prev_hash)
                    /\ Fits(r.body, r.prev_hash, Held(s)', starts', Known', rejected')
  BY DEF Chained
<1>1. /\ r = append_record(r.body, r.prev_hash)
      /\ Fits(r.body, r.prev_hash, Held(s), starts, Known, rejected)
  BY DEF Chained
<1> QED BY <1>1, FitsStays

\* The end of an append, however it ends: a record it has advanced the hash to is
\* in the table or has raised.
LEMMA EndOfAppend ==
    ASSUME IInv, Owned, NEW s \in Stores, OnlyStore(s), Chained(s), Ready(s),
           NEW t \in Threads, pc[t] \in {"insert", "commit"}, Release(t),
           Held(s)' \subseteq Held(s), Known \subseteq Known', number[t] \in Known',
           UNCHANGED <<last, calls, starts, open, rejected>>
    PROVE  Chained(s)' /\ Ready(s)'
<1>1. Chained(s)'
  BY ChainedStays
<1>2. \A u \in Threads : pc'[u] = "idle"
  BY OneInside, Released DEF IInv
<1>3. /\ Final(last[s]) = number[t]
      /\ \A m \in number[t] + 1 .. calls : m \in rejected
      /\ \A q \in Held(s) : q.body <= number[t] /\ (q.body = number[t] => q.chain_hash = last[s])
  BY DEF Ready
<1>4. calls \in Nat /\ number[t] \in 1 .. calls
  BY DEF IInv, TypeOK, InHand
<1>5. Fits(calls + 1, last[s], Held(s)', starts', Known', rejected')
  <2>1. \A m \in Final(last[s]) + 1 .. (calls + 1) - 1 : m \in rejected'
    BY <1>3, <1>4
  <2> QED BY <1>3, <1>4, <2>1 DEF Fits
<1> QED BY <1>1, <1>2, <1>5 DEF Ready

LEMMA RaiseLone ==
    ASSUME IInv, Owned, NEW s \in Stores, OnlyStore(s), Lone(s),
           NEW t \in Threads, pc[t] \in {"insert", "commit"}, Raise(t),
           pending' = pending \/ pending' = [pending EXCEPT ![store[t]] = <<>>],
           UNCHANGED <<rows, open, last, calls, acked, ghosts>>
    PROVE  Lone(s)'
<1>1. Release(t) /\ raised' = raised \cup {number[t]} /\ starts' = starts /\ rejected' = rejected
  BY DEF Raise, ghosts
<1>2. pending'[s] = pending[s] \/ pending'[s] = <<>>
  BY DEF IInv, TypeOK
<1>3. /\ Records(pending[s])' \subseteq Records(pending[s])
      /\ Ascending(pending[s]) => Ascending(pending[s])'
      /\ Numbers(pending[s])' \subseteq Numbers(pending[s])
  BY <1>2, RecordsOf, NoNumbers
<1>4. Held(s)' \subseteq Held(s) /\ Known \subseteq Known' /\ number[t] \in Known'
  BY <1>1, <1>3 DEF Held, Known
<1>5. Chained(s)' /\ Ready(s)'
  BY <1>1, <1>4, EndOfAppend DEF Lone
<1>6. Sorted(s)'
  BY <1>3 DEF Lone, Sorted
<1> QED BY <1>5, <1>6 DEF Lone

LEMMA CommitLone ==
    ASSUME IInv, Owned, NEW s \in Stores, OnlyStore(s), Lone(s), NEW t \in Threads, Commit(t)
    PROVE  Lone(s)'
<1>1. /\ pc[t] = "commit" /\ Release(t) /\ rows' = rows \o pending[store[t]]
      /\ pending' = [pending EXCEPT ![store[t]] = <<>>]
      /\ UNCHANGED <<open, last, calls, raised, rejected, starts>>
  BY DEF Commit, ghosts
<1>2. store[t] = s
  BY <1>1, OneInside
<1>3. /\ rows \in Seq(Row) /\ pending[s] \in Seq(Row) /\ rows' = rows \o pending[s] /\ pending'[s] = <<>>
  BY <1>1, <1>2 DEF IInv, TypeOK
<1>4. /\ Records(rows') = Records(rows) \cup Records(pending[s])
      /\ Numbers(rows') = Numbers(rows) \cup Numbers(pending[s])
      /\ Ascending(rows')
  BY <1>3, RecordsOfConcat, ConcatNumbers DEF Lone, Sorted
<1>5. Held(s)' = Held(s)
  BY <1>3, <1>4, RecordsOf DEF Held
<1>6. Known \subseteq Known' /\ number[t] \in Known'
  <2>1. number[t] \in Numbers(pending[s])
    BY <1>1, <1>2 DEF IInv, InHand
  <2> QED BY <1>1, <1>4, <2>1 DEF Known
<1>7. Chained(s)' /\ Ready(s)'
  BY <1>1, <1>5, <1>6, EndOfAppend DEF Lone
<1>8. Sorted(s)'
  BY <1>3, <1>4, RecordsOf, NoNumbers DEF Sorted
<1> QED BY <1>7, <1>8 DEF Lone

LEMMA StopLone ==
    ASSUME IInv, Owned, NEW s \in Stores, OnlyStore(s), Lone(s), NEW r \in Stores, Stop(r)
    PROVE  Lone(s)'
<1>1. /\ r \in open /\ open' = open \ {r} /\ pending' = [pending EXCEPT ![r] = <<>>]
      /\ UNCHANGED <<rows, last, calls, raised, rejected, starts>>
  BY DEF Stop
<1>2. r = s
  BY <1>1, OneInside
<1>3. pending'[s] = <<>> /\ s \notin open'
  BY <1>1, <1>2 DEF IInv, TypeOK
<1>4. \A t \in Threads : pc'[t] = "idle"
  BY <1>2, OneInside DEF Stop, Leave
<1>5. Held(s)' \subseteq Held(s) /\ Known' = Known
  BY <1>1, <1>3, RecordsOf DEF Held, Known
<1>6. Chained(s)'
  BY <1>1, <1>5, ChainedStays DEF Lone
<1>7. Ready(s)' /\ Sorted(s)'
  BY <1>1, <1>3, <1>4, RecordsOf, NoNumbers DEF Ready, Sorted, Lone
<1> QED BY <1>6, <1>7 DEF Lone

\* A store that opens goes on from the newest row, which is no loss of its own.
LEMMA OpenLone ==
    ASSUME IInv, Owned, NEW s \in Stores, OnlyStore(s)', OnlyStore(s) => Lone(s),
           NEW r \in Stores, Open(r)
    PROVE  Lone(s)'
<1>1. /\ r \notin open /\ open' = open \cup {r} /\ starts' = starts \cup {<<r, calls>>}
      /\ last' = [last EXCEPT ![r] = LastChainHash(rows)]
      /\ UNCHANGED <<rows, pending, lock, pc, number, calls, raised, rejected>>
  BY DEF Open, locals
<1>2. r = s /\ OnlyStore(s)
  <2>1. <<r, calls>> \in starts' /\ <<r, calls>>[1] = r
    BY <1>1
  <2> QED BY <1>1, <2>1 DEF OnlyStore
<1>3. \A t \in Threads : pc[t] = "idle"
  BY <1>1, <1>2, OneInside
<1>4. pending[s] = <<>> /\ Held(s) = Records(rows) /\ rows \in Seq(Row) /\ calls \in Nat
  BY <1>1, <1>2, RecordsOf DEF Owned, Held, IInv, TypeOK
<1>5. Held(s)' = Held(s) /\ Known' = Known /\ starts \subseteq starts'
  BY <1>1 DEF Held, Known
<1>6. Chained(s)'
  BY <1>1, <1>2, <1>5, ChainedStays DEF Lone
<1>7. Fits(calls + 1, last'[s], Held(s), starts', Known, rejected)
  <2>1. last'[s] = LastChainHash(rows)
    BY <1>1, <1>2 DEF IInv, TypeOK
  <2>2. \A q \in Held(s) : q \in Row /\ q.body \in 1 .. calls /\ q.body \in Numbers(rows)
    BY <1>4, RecordsOf DEF IInv, Accounted
  <2>3. <<s, calls>> \in starts' /\ <<s, calls>>[2] = calls
    BY <1>1, <1>2
  <2>4. CASE rows = <<>>
    <3>1. last'[s] = <<>> /\ Final(last'[s]) = 0
      BY <1>4, <2>1, <2>4, RecoversNewest DEF Final
    <3>2. Held(s) = {}
      BY <1>4, <2>4, RecordsOf
    <3>3. \A m \in 0 + 1 .. (calls + 1) - 1 : m <= calls /\ calls < calls + 1
      BY <1>4
    <3>4. 0 < calls + 1 /\ 0 \in Known
      BY <1>4 DEF Known
    <3> QED BY <2>3, <3>1, <3>2, <3>3, <3>4 DEF Fits
  <2>5. CASE rows # <<>>
    <3> DEFINE q == rows[Len(rows)]
    <3>1. last'[s] = q.chain_hash /\ Len(rows) \in DOMAIN rows /\ q \in Held(s)
      BY <1>4, <2>1, <2>5, RecoversNewest DEF Records
    <3>2. /\ q.body \in 1 .. calls /\ q.body \in Numbers(rows)
          /\ Final(q.chain_hash) = q.body /\ q.chain_hash # <<>>
      <4>1. q = append_record(q.body, q.prev_hash)
        BY <1>2, <3>1 DEF Lone, Chained
      <4>2. q.body \in Nat /\ q.prev_hash \in Seq(Nat)
        BY <2>2, <3>1 DEF Row
      <4> HIDE DEF q
      <4>3. Final(q.chain_hash) = q.body /\ q.chain_hash # <<>>
        BY <4>1, <4>2, FinalOfLink
      <4> QED BY <2>2, <3>1, <4>3
    <3>3. ASSUME NEW p \in Held(s)  PROVE p.body <= q.body /\ (p.body = q.body => p = q)
      <4>1. PICK i \in DOMAIN rows : p = rows[i]
        BY <1>4 DEF Records
      <4>2. i = Len(rows) \/ i < Len(rows)
        BY <1>4
      <4>3. i < Len(rows) => rows[i].body < q.body
        BY <1>2, <3>1, <4>2 DEF Lone, Sorted, Ascending
      <4>4. p.body \in Nat /\ q.body \in Nat
        BY <2>2, <3>1
      <4> HIDE DEF q
      <4> QED BY <4>1, <4>2, <4>3, <4>4 DEF q
    <3> HIDE DEF q
    <3>4. \A m \in q.body + 1 .. (calls + 1) - 1 : m <= calls /\ calls < calls + 1
      BY <1>4, <3>2
    <3>5. q.body < calls + 1 /\ q.body # 0 /\ q.body \in Known
      BY <1>4, <3>2 DEF Known
    <3> QED BY <2>3, <3>1, <3>2, <3>3, <3>4, <3>5 DEF Fits
  <2> QED BY <2>4, <2>5
<1>8. Ready(s)'
  BY <1>1, <1>3, <1>5, <1>7 DEF Ready
<1>9. Sorted(s)'
  BY <1>1, <1>2 DEF Lone, Sorted
<1> QED BY <1>6, <1>8, <1>9 DEF Lone

LEMMA AcquireLone ==
    ASSUME IInv, Owned, NEW s \in Stores, OnlyStore(s), Lone(s),
           NEW t \in Threads, NEW r \in Stores, Acquire(t, r)
    PROVE  Lone(s)'
<1>1. /\ r \in open /\ lock[r] = NoThread
      /\ lock' = [lock EXCEPT ![r] = t] /\ calls' = calls + 1
      /\ number' = [number EXCEPT ![t] = calls + 1] /\ pc' = [pc EXCEPT ![t] = "chain"]
      /\ UNCHANGED <<rows, pending, open, last, record, acked, raised, rejected, starts>>
  BY DEF Acquire, Goto, ghosts
<1>2. r = s /\ \A u \in Threads : pc[u] = "idle"
  BY <1>1, OneInside, NoThreadAssumption
<1>3. Held(s)' = Held(s) /\ Known' = Known
  BY <1>1 DEF Held, Known
<1>4. Chained(s)'
  BY <1>1, <1>3, ChainedStays DEF Lone
<1>5. lock'[s] = t /\ pc'[t] = "chain" /\ number'[t] = calls' /\ \A u \in Threads \ {t} : pc'[u] = "idle"
  BY <1>1, <1>2 DEF IInv, TypeOK
<1>6. Fits(calls', last'[s], Held(s)', starts', Known', rejected')
  BY <1>1, <1>2, <1>3 DEF Lone, Ready
<1>7. Ready(s)'
  <2>1. calls \in Nat /\ \A q \in Held(s) : q.body \in 1 .. calls
    BY RecordsOf DEF Held, IInv, Accounted, TypeOK
  <2>2. \A m \in number'[t] + 1 .. calls' : m \in rejected'
    BY <1>1, <1>5, <2>1
  <2>3. \A q \in Held(s)' : q.body <= number'[t]
    BY <1>1, <1>3, <1>5, <2>1
  <2> QED BY <1>5, <1>6, <2>2, <2>3, NoThreadAssumption DEF Ready
<1>8. Sorted(s)'
  BY <1>1 DEF Lone, Sorted
<1> QED BY <1>4, <1>7, <1>8 DEF Lone

LEMMA ChainLone ==
    ASSUME IInv, Owned, NEW s \in Stores, OnlyStore(s), Lone(s),
           NEW t \in Threads, ChainRecord(t) \/ AdvanceHash(t)
    PROVE  Lone(s)'
<1>1. /\ UNCHANGED <<rows, pending, open, lock, store, number, calls, raised, rejected, starts>>
      /\ pc[t] \in {"chain", "advance"}
  BY DEF ChainRecord, AdvanceHash, locals, ghosts
<1>2. /\ store[t] = s /\ lock[s] = t
      /\ \A u \in Threads \ {t} : pc[u] = "idle"
      /\ \A m \in number[t] + 1 .. calls : m \in rejected
      /\ \A q \in Held(s) : q.body <= number[t]
      /\ Fits(number[t], last[s], Held(s), starts, Known, rejected)
  BY <1>1, OneInside DEF Lone, Ready
<1>3. Held(s)' = Held(s) /\ Known' = Known /\ number[t] \in Nat /\ last[s] \in Seq(Nat)
  BY <1>1 DEF Held, Known, IInv, TypeOK
<1>4. Chained(s)' /\ Sorted(s)'
  BY <1>1, <1>3, ChainedStays DEF Lone, Sorted
<1>5. CASE ChainRecord(t)
  <2>1. /\ record'[t] = append_record(number[t], last[s]) /\ pc'[t] = "advance"
        /\ last' = last /\ \A u \in Threads \ {t} : pc'[u] = "idle"
    BY <1>2, <1>5 DEF ChainRecord, Goto, IInv, TypeOK
  <2>2. Ready(s)'
    BY <1>1, <1>2, <1>3, <2>1, NoThreadAssumption DEF Ready
  <2> QED BY <1>4, <2>2 DEF Lone
<1>6. CASE AdvanceHash(t)
  <2>1. /\ record[t] = append_record(number[t], last[s]) /\ record'[t] = record[t] /\ pc'[t] = "insert"
        /\ last'[s] = record[t].chain_hash /\ \A u \in Threads \ {t} : pc'[u] = "idle"
    BY <1>2, <1>6 DEF AdvanceHash, Goto, locals, Lone, Ready, IInv, TypeOK
  <2>2. record[t].prev_hash = last[s] /\ Final(last'[s]) = number[t]
    BY <1>3, <2>1, FinalOfLink
  <2>3. \A q \in Held(s) : q.body # number[t]
    <3>1. number[t] \notin Numbers(rows) /\ number[t] \notin Numbers(pending[s])
      BY <1>1, <1>2 DEF IInv, InHand
    <3> QED BY <3>1, RecordsOf DEF Held
  <2>4. Ready(s)'
    BY <1>1, <1>2, <1>3, <2>1, <2>2, <2>3, NoThreadAssumption DEF Ready
  <2> QED BY <1>4, <2>4 DEF Lone
<1> QED BY <1>5, <1>6

LEMMA InsertLone ==
    ASSUME IInv, Owned, NEW s \in Stores, OnlyStore(s), Lone(s), NEW t \in Threads, Insert(t)
    PROVE  Lone(s)'
<1> DEFINE r == record[t]
           n == number[t]
<1>1. /\ pc[t] = "insert" /\ pc' = [pc EXCEPT ![t] = "commit"]
      /\ pending' = [pending EXCEPT ![store[t]] = Append(pending[store[t]], r)]
      /\ UNCHANGED <<rows, open, last, lock, number, record, calls, raised, rejected, starts>>
  BY DEF Insert, Goto, locals, ghosts
<1>2. /\ store[t] = s /\ lock[s] = t /\ s \in open
      /\ \A u \in Threads \ {t} : pc[u] = "idle"
      /\ r = append_record(n, r.prev_hash) /\ r.chain_hash = last[s]
      /\ Fits(n, r.prev_hash, Held(s), starts, Known, rejected)
      /\ Final(last[s]) = n
      /\ \A m \in n + 1 .. calls : m \in rejected
      /\ \A q \in Held(s) : q.body <= n
  BY <1>1, OneInside DEF Lone, Ready
<1>3. /\ r \in Row /\ r.body = n /\ pending[s] \in Seq(Row) /\ pending'[s] = Append(pending[s], r)
  BY <1>1, <1>2 DEF IInv, TypeOK, InHand
<1>4. n \in Nat /\ ~(n < n) /\ \A m \in Numbers(rows) \cup Numbers(pending[s]) : m < n
  <2>1. n \notin Numbers(rows) /\ n \notin Numbers(pending[s])
    BY <1>1, <1>2 DEF IInv, InHand
  <2>2. \A m \in Numbers(rows) \cup Numbers(pending[s]) : m \in 1 .. calls /\ m <= n
    <3>1. \A m \in Numbers(rows) \cup Numbers(pending[s]) : \E q \in Held(s) : m = q.body
      BY RecordsOf DEF Held
    <3> HIDE DEF n
    <3> QED BY <1>2, <3>1 DEF IInv, Accounted
  <2>3. n \in Nat
    BY DEF IInv, TypeOK
  <2> HIDE DEF n
  <2> QED BY <2>1, <2>2, <2>3
<1> HIDE DEF r, n
<1>5. Held(s)' = Held(s) \cup {r} /\ Known' = Known
  BY <1>1, <1>3, RecordsOfAppend DEF Held, Known
<1>6. \A q \in Held(s) : q.body < n
  BY <1>4, RecordsOf DEF Held
<1>7. Chained(s)'
  <2>1. \A q \in Held(s) : ~(r.body < q.body) /\ q.body \in Nat
    <3>1. \A q \in Held(s) : q.body \in 1 .. calls
      BY RecordsOf DEF Held, IInv, Accounted
    <3> QED BY <1>3, <1>4, <1>6, <3>1
  <2>2. ASSUME NEW q \in Held(s)  PROVE q = append_record(q.body, q.prev_hash)
                                        /\ Fits(q.body, q.prev_hash, Held(s)', starts', Known', rejected')
    <3>1. q = append_record(q.body, q.prev_hash) /\ Fits(q.body, q.prev_hash, Held(s), starts, Known, rejected)
      BY DEF Lone, Chained
    <3> QED BY <1>1, <1>5, <2>1, <3>1, FitsStays
  <2>3. Fits(r.body, r.prev_hash, Held(s)', starts', Known', rejected')
    BY <1>1, <1>2, <1>3, <1>4, <1>5, FitsStays
  <2>4. r = append_record(r.body, r.prev_hash)
    BY <1>2, <1>3
  <2> QED BY <1>5, <2>2, <2>3, <2>4 DEF Chained
<1>8. Sorted(s)'
  <2>1. Ascending(pending[s])'
    BY <1>3, <1>4, RecordsOfAppend DEF Lone, Sorted
  <2>2. Numbers(pending[s])' = Numbers(pending[s]) \cup {n}
    BY <1>3, AppendNumbers
  <2> QED BY <1>1, <1>4, <2>1, <2>2 DEF Lone, Sorted
<1>9. Ready(s)'
  <2>1. pc'[t] = "commit" /\ \A u \in Threads \ {t} : pc'[u] = "idle"
    BY <1>1, <1>2 DEF IInv, TypeOK
  <2>2. \A q \in Held(s)' : q.body <= n /\ (q.body = n => q.chain_hash = last[s])
    BY <1>2, <1>3, <1>4, <1>5, <1>6
  <2> QED BY <1>1, <1>2, <2>1, <2>2, NoThreadAssumption DEF Ready, n
<1> QED BY <1>7, <1>8, <1>9 DEF Lone

\* A record that is refused leaves the hash to the next.
LEMMA NotHashableLone ==
    ASSUME IInv, Owned, NEW s \in Stores, OnlyStore(s), Lone(s), NEW t \in Threads, NotHashable(t)
    PROVE  Lone(s)'
<1> DEFINE n == number[t]
<1>1. /\ pc[t] = "chain" /\ Release(t) /\ rejected' = rejected \cup {n}
      /\ UNCHANGED <<rows, pending, open, last, calls, raised, starts>>
  BY DEF NotHashable
<1>2. /\ Fits(n, last[s], Held(s), starts, Known, rejected)
      /\ \A m \in n + 1 .. calls : m \in rejected
      /\ \A q \in Held(s) : q.body <= n
  BY <1>1 DEF Lone, Ready
<1>3. Held(s)' = Held(s) /\ Known' = Known
  BY <1>1 DEF Held, Known
<1>4. Chained(s)' /\ Sorted(s)'
  BY <1>1, <1>3, ChainedStays DEF Lone, Sorted
<1>5. \A u \in Threads : pc'[u] = "idle"
  BY <1>1, OneInside, Released DEF IInv
<1>6. calls \in Nat /\ n \in 1 .. calls /\ last[s] \in Seq(Nat) /\ \A a \in starts : a[2] \in Nat
  BY <1>1 DEF IInv, TypeOK, InHand
<1>7. \A q \in Held(s) : q.body \in Nat /\ q.body # n
  <2>1. n \notin Numbers(rows) /\ n \notin Numbers(pending[s])
    BY <1>1 DEF IInv, InHand
  <2>2. \A q \in Held(s) : q.body \in 1 .. calls
    BY RecordsOf DEF Held, IInv, Accounted
  <2> QED BY <1>6, <2>1, <2>2, RecordsOf DEF Held
<1> HIDE DEF n
<1>8. Fits(calls + 1, last[s], Held(s), starts, Known, rejected')
  <2>1. \A m \in n .. (calls + 1) - 1 : m \in rejected'
    BY <1>1, <1>2, <1>6
  <2>2. \A q \in Held(s) : q.body < n
    BY <1>2, <1>6, <1>7
  <2>3. n \in Nat /\ calls + 1 \in Nat /\ n <= calls + 1 /\ rejected \subseteq rejected'
    BY <1>1, <1>6
  <2> QED BY <1>2, <1>6, <2>1, <2>2, <2>3, FitsLater
<1>9. Ready(s)'
  BY <1>1, <1>3, <1>5, <1>8 DEF Ready
<1> QED BY <1>4, <1>9 DEF Lone

\* So does one that is refused before its append takes the lock, another thread's
\* append in the middle or not.
LEMMA ToDictRaisesLone ==
    ASSUME IInv, Owned, NEW s \in Stores, OnlyStore(s), Lone(s),
           NEW t \in Threads, NEW r \in Stores, ToDictRaises(t, r)
    PROVE  Lone(s)'
<1>1. /\ calls' = calls + 1 /\ rejected' = rejected \cup {calls + 1}
      /\ UNCHANGED <<rows, pending, open, last, lock, pc, store, number, record, acked, raised, starts>>
  BY DEF ToDictRaises, locals
<1>2. Held(s)' = Held(s) /\ Known' = Known /\ rejected \subseteq rejected'
  BY <1>1 DEF Held, Known
<1>3. Chained(s)' /\ Sorted(s)'
  BY <1>1, <1>2, ChainedStays DEF Lone, Sorted
<1>4. calls \in Nat /\ last[s] \in Seq(Nat) /\ number \in [Threads -> 0 .. calls] /\ \A a \in starts : a[2] \in Nat
  BY DEF IInv, TypeOK
<1>5. ASSUME s \in open, lock[s] = NoThread
      PROVE  Fits(calls' + 1, last[s], Held(s), starts, Known, rejected')
  <2>1. Fits(calls + 1, last[s], Held(s), starts, Known, rejected)
    BY <1>5 DEF Lone, Ready
  <2>2. \A q \in Held(s) : q.body < calls + 1
    <3>1. \A q \in Held(s) : q.body \in 1 .. calls
      BY RecordsOf DEF Held, IInv, Accounted
    <3> QED BY <1>4, <3>1
  <2>3. \A m \in calls + 1 .. (calls' + 1) - 1 : m \in rejected'
    BY <1>1, <1>4
  <2>4. calls + 1 \in Nat /\ calls' + 1 \in Nat /\ calls + 1 <= calls' + 1
    BY <1>1, <1>4
  <2> QED BY <1>2, <1>4, <2>1, <2>2, <2>3, <2>4, FitsLater
<1>6. \A n, h : Fits(n, h, Held(s), starts, Known, rejected) => Fits(n, h, Held(s), starts, Known, rejected')
  BY <1>2, FitsStays
<1>7. ASSUME NEW u \in Threads, \A m \in number[u] + 1 .. calls : m \in rejected
      PROVE  \A m \in number[u] + 1 .. calls' : m \in rejected'
  <2>1. \A m \in number[u] + 1 .. calls' : m \in number[u] + 1 .. calls \/ m = calls + 1
    BY <1>1, <1>4
  <2> QED BY <1>1, <1>7, <2>1
<1>8. Ready(s)'
  BY <1>1, <1>2, <1>5, <1>6, <1>7 DEF Lone, Ready
<1> QED BY <1>3, <1>8 DEF Lone

LEMMA NextLInv == IInv /\ IInv' /\ LInv /\ [Next]_vars => LInv'
<1> SUFFICES ASSUME IInv, IInv', LInv, [Next]_vars  PROVE LInv'
  OBVIOUS
<1>1. Owned /\ Owned'
  BY OwnedKept DEF LInv
<1> SUFFICES ASSUME NEW s \in Stores, OnlyStore(s)'  PROVE Lone(s)'
  BY <1>1 DEF LInv
<1>2. ASSUME NEW r \in Stores, Open(r)  PROVE Lone(s)'
  BY <1>1, <1>2, OpenLone DEF LInv
<1>3. CASE starts' = starts
  <2>1. OnlyStore(s) /\ Lone(s)
    BY <1>3 DEF OnlyStore, LInv
  <2>2. ASSUME NEW t \in Threads, NotSerialisable(t) \/ StatementFails(t) \/ DatabaseLocked(t)
        PROVE  Lone(s)'
    <3>1. /\ pc[t] \in {"insert", "commit"} /\ Raise(t)
          /\ pending' = pending \/ pending' = [pending EXCEPT ![store[t]] = <<>>]
          /\ UNCHANGED <<rows, open, last, calls, acked, ghosts>>
      BY <2>2 DEF NotSerialisable, StatementFails, DatabaseLocked
    <3> QED BY <1>1, <2>1, <3>1, RaiseLone
  <2>3. CASE UNCHANGED vars
    BY <2>1, <2>3 DEF vars, locals, ghosts, Lone, Chained, Sorted, Ready, Held, Known
  <2>4. CASE Next
    BY <1>1, <1>2, <2>1, <2>2, <2>4, StopLone, AcquireLone, ToDictRaisesLone, NotHashableLone, ChainLone,
       InsertLone, CommitLone
       DEF Next, Step
  <2> QED BY <2>3, <2>4
<1>4. starts' = starts \/ \E r \in Stores : Open(r)
  BY DEF Next, Step, Stop, Acquire, ToDictRaises, NotHashable, ChainRecord, AdvanceHash, NotSerialisable, StatementFails, DatabaseLocked,
     Insert, Commit, ghosts, vars
<1> QED BY <1>2, <1>3, <1>4

LEMMA SpecLInv == Spec => [](IInv /\ LInv)
<1> QED BY SpecIInv, InitLInv, NextLInv, PTL DEF Spec

-----------------------------------------------------------------------------
(* What the chain tells of a lone store.                                   *)

\* A chain of records verifies if and only if each names the hash before it.
LEMMA VerifiesIffLinked ==
    ASSUME NEW recs \in Seq(Row),
           \A k \in DOMAIN recs : recs[k] = append_record(recs[k].body, recs[k].prev_hash)
    PROVE  Verifies(recs) <=>
               \A k \in DOMAIN recs :
                   recs[k].prev_hash = IF k = 1 THEN <<>> ELSE recs[k-1].chain_hash
<1>1. Verifies(recs) <=> \A k \in DOMAIN recs : Breaks(recs, <<>>, k) = {}
  <2> DEFINE B(k) == Breaks(recs, <<>>, k)
  <2>1. Verifies(recs) <=> UNION {{i} \X B(i) : i \in DOMAIN recs} = {}
    BY Zenon DEF Verifies, verify_chain, GENESIS_PREV_HASH
  <2> HIDE DEF B
  <2>2. ASSUME UNION {{i} \X B(i) : i \in DOMAIN recs} = {}, NEW k \in DOMAIN recs, NEW b \in B(k)
        PROVE  FALSE
    <3>1. <<k, b>> \in {k} \X B(k)
      OBVIOUS
    <3> QED BY <2>2, <3>1, Zenon
  <2>3. ASSUME \A k \in DOMAIN recs : B(k) = {}, NEW x \in UNION {{i} \X B(i) : i \in DOMAIN recs}
        PROVE  FALSE
    <3>1. PICK i \in DOMAIN recs : x \in {i} \X B(i)
      BY Zenon
    <3> QED BY <2>3, <3>1
  <2>4. UNION {{i} \X B(i) : i \in DOMAIN recs} = {} <=> \A k \in DOMAIN recs : B(k) = {}
    BY <2>2, <2>3, Zenon
  <2> QED BY <2>1, <2>4 DEF B
<1>2. \A k \in DOMAIN recs : recs[k] \in Row /\ (k # 1 => k - 1 \in DOMAIN recs)
  OBVIOUS
<1>3. ASSUME NEW k \in DOMAIN recs
      PROVE  Breaks(recs, <<>>, k) = {} <=> recs[k].prev_hash = PrevAt(recs, <<>>, k)
  <2> DEFINE r == append_record(recs[k].body, recs[k].prev_hash)
  <2>1. /\ r.chained /\ r.record_hash = canonical_event_hash(recs[k].body)
        /\ r.chain_hash = chain_link(recs[k].prev_hash, canonical_event_hash(recs[k].body))
    BY DEF append_record
  <2>2. recs[k] = r
    OBVIOUS
  <2> HIDE DEF r
  <2>3. /\ recs[k].chained /\ recs[k].record_hash = canonical_event_hash(recs[k].body)
        /\ recs[k].chain_hash = chain_link(recs[k].prev_hash, recs[k].record_hash)
    BY <2>1, <2>2
  <2> QED BY <2>3 DEF Breaks
<1>4. ASSUME NEW k \in DOMAIN recs
      PROVE  PrevAt(recs, <<>>, k) = IF k = 1 THEN <<>> ELSE recs[k-1].chain_hash
  <2>1. k # 1 => recs[k-1].chained
    BY <1>2 DEF Row
  <2> QED BY <2>1 DEF PrevAt
<1> QED BY <1>1, <1>3, <1>4

\* A row names the hash before it if and only if its prev ends with the number
\* before it, and it never ends with an earlier one.
LEMMA RowsLinked ==
    ASSUME IInv, NEW s \in Stores, Lone(s)
    PROVE  /\ Verifies(rows) <=> \A i \in DOMAIN rows : Final(rows[i].prev_hash) = Before(i)
           /\ \A i \in DOMAIN rows :
                  /\ Fits(rows[i].body, rows[i].prev_hash, Held(s), starts, Known, rejected)
                  /\ Before(i) <= Final(rows[i].prev_hash)
                  /\ Before(i) \in Nat /\ rows[i].body \in Nat /\ Final(rows[i].prev_hash) \in Nat
                  /\ Final(rows[i].chain_hash) = rows[i].body
<1>1. rows \in Seq(Row) /\ DOMAIN rows = 1 .. Len(rows) /\ Len(rows) \in Nat
  BY DEF IInv, TypeOK
<1>2. ASSUME NEW i \in DOMAIN rows
      PROVE  /\ rows[i] \in Held(s) /\ rows[i] \in Row /\ rows[i].body \in 1 .. calls /\ calls \in Nat
             /\ rows[i] = append_record(rows[i].body, rows[i].prev_hash)
             /\ Fits(rows[i].body, rows[i].prev_hash, Held(s), starts, Known, rejected)
  <2>1. rows[i] \in Records(rows) /\ rows[i].body \in Numbers(rows)
    BY DEF Records, Numbers
  <2>2. rows[i] \in Held(s)
    BY <2>1 DEF Held
  <2> QED BY <1>1, <2>1, <2>2 DEF Lone, Chained, IInv, TypeOK, Accounted
<1>3. ASSUME NEW i \in DOMAIN rows
      PROVE  Final(rows[i].prev_hash) \in Nat /\ rows[i].body \in Nat /\ rows[i].prev_hash \in Seq(Nat)
  <2>1. rows[i].prev_hash \in Seq(Nat)
    BY <1>2 DEF Row
  <2>2. \A h \in Seq(Nat) : Final(h) \in Nat
    BY DEF Final
  <2> QED BY <1>2, <2>1, <2>2
<1>4. ASSUME NEW i \in DOMAIN rows
      PROVE  Final(rows[i].chain_hash) = rows[i].body
  <2> DEFINE n == rows[i].body
             h == rows[i].prev_hash
  <2>1. n \in Nat /\ h \in Seq(Nat) /\ rows[i] = append_record(n, h)
    BY <1>2, <1>3
  <2> HIDE DEF n, h
  <2>2. Final(append_record(n, h).chain_hash) = n
    BY <2>1, FinalOfLink
  <2> QED BY <2>1, <2>2 DEF n
<1>5. ASSUME NEW i \in DOMAIN rows
      PROVE  /\ Before(i) \in Nat /\ Before(i) <= Final(rows[i].prev_hash)
             /\ Final(rows[i].prev_hash) = Before(i) <=>
                    rows[i].prev_hash = IF i = 1 THEN <<>> ELSE rows[i-1].chain_hash
  <2>1. CASE i = 1
    <3>1. Before(i) = 0
      BY <2>1 DEF Before
    <3>2. Final(rows[i].prev_hash) = 0 <=> rows[i].prev_hash = <<>>
      BY <1>2 DEF Fits, Final
    <3> QED BY <1>3, <2>1, <3>1, <3>2
  <2>2. CASE i # 1
    <3>1. i - 1 \in DOMAIN rows /\ i - 1 < i
      BY <1>1, <2>2
    <3>2. Before(i) = rows[i-1].body /\ rows[i-1].body < rows[i].body
      BY <2>2, <3>1 DEF Before, Lone, Sorted, Ascending
    <3>3. /\ rows[i-1].body <= Final(rows[i].prev_hash)
          /\ rows[i-1].body = Final(rows[i].prev_hash) => rows[i-1].chain_hash = rows[i].prev_hash
      BY <1>2, <3>1, <3>2 DEF Fits
    <3>4. rows[i-1].chain_hash = rows[i].prev_hash => rows[i-1].body = Final(rows[i].prev_hash)
      BY <1>4, <3>1
    <3>5. rows[i-1].body \in Nat
      BY <1>3, <3>1
    <3> QED BY <2>2, <3>2, <3>3, <3>4, <3>5
  <2> QED BY <2>1, <2>2
<1>6. Verifies(rows) <=> \A i \in DOMAIN rows :
          rows[i].prev_hash = IF i = 1 THEN <<>> ELSE rows[i-1].chain_hash
  BY <1>1, <1>2, VerifiesIffLinked
<1> QED BY <1>2, <1>3, <1>4, <1>5, <1>6

LEMMA AloneIsLone ==
    ASSUME IInv, LInv, Alone
    PROVE  \E s \in Stores : Lone(s)
<1>1. \E s \in Stores : OnlyStore(s)
  <2>1. CASE starts = {}
    BY <2>1, StoresAssumption DEF OnlyStore
  <2>2. CASE starts # {}
    <3>1. PICK a \in starts : a[1] \in Stores
      BY <2>2 DEF IInv, TypeOK
    <3> QED BY <3>1 DEF Alone, OnlyStore
  <2> QED BY <2>1, <2>2
<1> QED BY <1>1 DEF LInv

\* The table of a lone store has its records in the order of their appends,
\* whatever a failed commit leaves behind and whenever the store stops.
THEOREM SqliteInOrder == Spec => []RowsInOrder
<1>1. IInv /\ LInv => RowsInOrder
  BY AloneIsLone DEF RowsInOrder, Lone, Sorted, Ascending
<1> QED BY <1>1, SpecLInv, PTL

\* verify_chain raises no false alarm on a lone store's table: the hash a row
\* goes on from, when it is not that of the row before, ends with the number of
\* a record whose append raised, and that record never gets in.
THEOREM SqliteAlarm == Spec => []AlarmMeansFailure
<1>1. ASSUME IInv, LInv, Alone, ~Verifies(rows)  PROVE raised \ Numbers(rows) # {}
  <2>1. PICK s \in Stores : Lone(s)
    BY <1>1, AloneIsLone
  <2>2. PICK i \in DOMAIN rows : Final(rows[i].prev_hash) # Before(i)
    BY <1>1, <2>1, RowsLinked
  <2> DEFINE f == Final(rows[i].prev_hash)
  <2>3. f \in Nat /\ Before(i) \in Nat /\ rows[i].body \in Nat /\ Before(i) < f /\ f < rows[i].body /\ f \in Known
    BY <1>1, <2>1, <2>2, RowsLinked DEF Fits
  <2> HIDE DEF f
  <2>4. ASSUME NEW j \in DOMAIN rows  PROVE rows[j].body # f
    <3>1. /\ DOMAIN rows = 1 .. Len(rows) /\ Len(rows) \in Nat /\ \A k \in DOMAIN rows : rows[k].body \in Nat
      <4>1. rows \in Seq(Row)
        BY <1>1 DEF IInv, TypeOK
      <4>2. \A k \in DOMAIN rows : rows[k].body \in Nat
        BY <1>1, <2>1, RowsLinked
      <4> QED BY <4>1, <4>2
    <3>2. \A k, l \in DOMAIN rows : k < l => rows[k].body < rows[l].body
      BY <2>1 DEF Lone, Sorted, Ascending
    <3>3. CASE j < i
      <4>1. i # 1 /\ i - 1 \in DOMAIN rows /\ (j = i - 1 \/ j < i - 1)
        BY <3>1, <3>3
      <4>2. Before(i) = rows[i-1].body
        BY <4>1 DEF Before
      <4>3. rows[j].body <= rows[i-1].body
        BY <3>1, <3>2, <4>1
      <4> QED BY <2>3, <3>1, <4>2, <4>3
    <3>4. CASE i < j
      BY <2>3, <3>1, <3>2, <3>4
    <3>5. CASE i = j
      BY <2>3, <3>5
    <3> QED BY <3>1, <3>3, <3>4, <3>5
  <2>5. f \notin Numbers(rows) /\ f # 0
    BY <2>3, <2>4 DEF Numbers
  <2> QED BY <2>3, <2>5 DEF Known
<1>2. IInv /\ LInv => AlarmMeansFailure
  BY <1>1 DEF AlarmMeansFailure
<1> QED BY <1>2, SpecLInv, PTL

\* A row that is missing before one that is there is reported, unless its append
\* raised before it was chained or the store was opened in between: the hash moves
\* on with every record that is chained, whatever its append comes to.
THEOREM SqliteGap == Spec => []GapIsReported
<1>1. ASSUME IInv, LInv, Alone, Verifies(rows), NEW i \in DOMAIN rows,
             NEW m \in Before(i) + 1 .. rows[i].body - 1
      PROVE  m \in rejected \/ \E c \in starts : m <= c[2] /\ c[2] < rows[i].body
  <2>1. PICK s \in Stores : Lone(s)
    BY <1>1, AloneIsLone
  <2>2. /\ Final(rows[i].prev_hash) = Before(i)
        /\ Fits(rows[i].body, rows[i].prev_hash, Held(s), starts, Known, rejected)
    BY <1>1, <2>1, RowsLinked
  <2> QED BY <2>2 DEF Fits
<1>2. IInv /\ LInv => GapIsReported
  BY <1>1 DEF GapIsReported
<1> QED BY <1>2, SpecLInv, PTL

-----------------------------------------------------------------------------
(* What is exported.                                                       *)

\* Induction over the positions of a sequence: the least one that fails.
LEMMA Least == ASSUME NEW T \in SUBSET Nat, T # {} PROVE \E x \in T : \A y \in T : x <= y
<1>1. PICK x \in T : \A y \in T : <<y, x>> \notin OpToRel(<, Nat)
  BY NatLessThanWellFounded, WFMin, Zenon
<1>2. \E z \in T : \A y \in T : ~(y < z)
  BY <1>1, Zenon DEF OpToRel
<1> QED BY <1>2

\* The selected positions are counted in their order, each of them once.
LEMMA Ranked ==
    ASSUME NEW P \in SUBSET Nat, IsFiniteSet(P)
    PROVE  /\ Cardinality(P) \in Nat
           /\ \A k \in 1 .. Cardinality(P) : Nth(P, k) \in P
           /\ \A i \in P : \E k \in 1 .. Cardinality(P) : Nth(P, k) = i
           /\ \A k, l \in 1 .. Cardinality(P) : k < l => Nth(P, k) < Nth(P, l)
<1> DEFINE n == Cardinality(P)
           UpTo(i) == {j \in P : j <= i}
           Rank == [i \in P |-> Cardinality(UpTo(i))]
<1>1. n \in Nat
  BY FS_CardinalityType
<1>2. ASSUME NEW i \in P  PROVE IsFiniteSet(UpTo(i)) /\ Rank[i] \in 1 .. n
  <2>1. UpTo(i) \in SUBSET P /\ i \in UpTo(i)
    OBVIOUS
  <2>2. IsFiniteSet(UpTo(i)) /\ Cardinality(UpTo(i)) <= n
    BY <2>1, FS_Subset
  <2>3. Cardinality(UpTo(i)) \in Nat /\ Cardinality(UpTo(i)) # 0
    BY <2>1, <2>2, FS_CardinalityType, FS_EmptySet
  <2> QED BY <1>1, <2>2, <2>3
<1>3. ASSUME NEW i \in P, NEW j \in P, i < j  PROVE Rank[i] < Rank[j]
  <2>0. (\A x \in P : x <= i => x <= j) /\ j <= j /\ ~(j <= i)
    BY <1>3
  <2>1. UpTo(i) \in SUBSET UpTo(j) /\ j \in UpTo(j) /\ j \notin UpTo(i)
    BY <2>0
  <2>2. Cardinality(UpTo(i)) <= Cardinality(UpTo(j)) /\ Cardinality(UpTo(i)) # Cardinality(UpTo(j))
    BY <1>2, <2>1, FS_Subset
  <2>3. Cardinality(UpTo(i)) \in Nat /\ Cardinality(UpTo(j)) \in Nat
    BY <1>2, FS_CardinalityType
  <2> QED BY <2>2, <2>3
<1>4. \A i, j \in P : i # j => Rank[i] # Rank[j]
  <2> SUFFICES ASSUME NEW i \in P, NEW j \in P, i # j  PROVE Rank[i] # Rank[j]
    OBVIOUS
  <2>1. i < j \/ j < i
    OBVIOUS
  <2>2. Rank[i] \in Nat /\ Rank[j] \in Nat
    BY <1>2
  <2> HIDE DEF Rank
  <2> QED BY <1>3, <2>1, <2>2
<1>5. \A k \in 1 .. n : \E i \in P : Rank[i] = k
  <2>1. Rank \in Injection(P, 1 .. n)
    BY <1>2, <1>4 DEF Injection, IsInjective
  <2>2. IsFiniteSet(1 .. n) /\ Cardinality(1 .. n) = n
    BY <1>1, FS_Interval
  <2>3. Rank \in Surjection(P, 1 .. n)
    BY <2>1, <2>2, FS_Injection
  <2> QED BY <2>3 DEF Surjection
<1>6. ASSUME NEW k \in 1 .. n  PROVE Nth(P, k) \in P /\ Rank[Nth(P, k)] = k
  BY <1>5 DEF Nth
<1>7. ASSUME NEW i \in P  PROVE Nth(P, Rank[i]) = i
  <2>1. Rank[Nth(P, Rank[i])] = Rank[i] /\ Nth(P, Rank[i]) \in P
    BY <1>2, <1>6
  <2> HIDE DEF Rank
  <2> QED BY <1>4, <2>1
<1>8. ASSUME NEW k \in 1 .. n, NEW l \in 1 .. n, k < l  PROVE Nth(P, k) < Nth(P, l)
  <2> DEFINE x == Nth(P, k)
             y == Nth(P, l)
  <2>1. x \in P /\ y \in P /\ Rank[x] = k /\ Rank[y] = l
    BY <1>6
  <2> HIDE DEF x, y
  <2>2. x < y \/ x = y \/ y < x
    BY <2>1
  <2>3. ~(l < k) /\ k # l
    BY <1>8
  <2> HIDE DEF Rank
  <2>4. x < y
    BY <1>3, <2>1, <2>2, <2>3
  <2> QED BY <2>4 DEF x, y
<1> HIDE DEF Rank
<1> QED BY <1>1, <1>2, <1>6, <1>7, <1>8

\* Rows that have been selected from a table are a sequence of rows of the table.
LEMMA Selected ==
    ASSUME NEW recs \in Seq(Row), NEW P \in SUBSET DOMAIN recs
    PROVE  /\ IsFiniteSet(P) /\ P \in SUBSET Nat
           /\ Select(recs, P) \in Seq(Row)
           /\ Len(Select(recs, P)) = Cardinality(P)
           /\ DOMAIN Select(recs, P) = 1 .. Cardinality(P)
           /\ \A k \in 1 .. Cardinality(P) : Select(recs, P)[k] = recs[Nth(P, k)]
<1>1. DOMAIN recs = 1 .. Len(recs) /\ Len(recs) \in Nat
  OBVIOUS
<1>2. IsFiniteSet(P)
  <2>1. IsFiniteSet(1 .. Len(recs)) /\ P \in SUBSET (1 .. Len(recs))
    BY <1>1, FS_Interval
  <2> QED BY <2>1, FS_Subset
<1>3. P \in SUBSET Nat
  BY <1>1
<1>4. Cardinality(P) \in Nat /\ \A k \in 1 .. Cardinality(P) : recs[Nth(P, k)] \in Row
  <2>1. Cardinality(P) \in Nat /\ \A k \in 1 .. Cardinality(P) : Nth(P, k) \in P
    BY <1>2, <1>3, Ranked
  <2>2. \A i \in P : recs[i] \in Row
    BY <1>1
  <2> QED BY <2>1, <2>2
<1>5. Select(recs, P) = [k \in 1 .. Cardinality(P) |-> recs[Nth(P, k)]]
  BY DEF Select
<1> HIDE DEF Select
<1> QED BY <1>2, <1>3, <1>4, <1>5

\* Whichever records an export of a lone store's table takes, it verifies only
\* as the beginning of the table: after the hash of the record before it, every
\* record that is left out would be missed.
THEOREM SqliteExport == Spec => []ExportHidesNothing
<1>1. ASSUME IInv, NEW s \in Stores, Lone(s), NEW selected, Verifies(export_jsonl(selected))
      PROVE  export_jsonl(selected) = SubSeq(rows, 1, Len(export_jsonl(selected)))
  <2> DEFINE P == {i \in DOMAIN rows : rows[i].body \in selected}
             ex == Select(rows, P)
             n == Cardinality(P)
  <2>1. rows \in Seq(Row) /\ DOMAIN rows = 1 .. Len(rows) /\ Len(rows) \in Nat /\ P \in SUBSET DOMAIN rows
    BY <1>1 DEF IInv, TypeOK
  <2>2. ex = export_jsonl(selected)
    BY DEF export_jsonl
  <2> HIDE DEF P
  <2>3. /\ ex \in Seq(Row) /\ Len(ex) = n /\ DOMAIN ex = 1 .. n
        /\ \A k \in 1 .. n : ex[k] = rows[Nth(P, k)]
    BY <2>1, Selected
  <2>4. /\ n \in Nat /\ \A k \in 1 .. n : Nth(P, k) \in DOMAIN rows
        /\ \A k, l \in 1 .. n : k < l => Nth(P, k) < Nth(P, l)
    BY <2>1, Selected, Ranked
  <2> HIDE DEF ex, n
  <2>5. \A k \in 1 .. n : ex[k].prev_hash = IF k = 1 THEN <<>> ELSE ex[k-1].chain_hash
    <3>1. \A r \in Held(s) : r = append_record(r.body, r.prev_hash)
      BY <1>1 DEF Lone, Chained
    <3>2. \A i \in DOMAIN rows : rows[i] \in Held(s)
      BY DEF Held, Records
    <3>3. \A k \in DOMAIN ex : ex[k] = append_record(ex[k].body, ex[k].prev_hash)
      BY <2>3, <2>4, <3>1, <3>2
    <3> QED BY <1>1, <2>2, <2>3, <3>3, VerifiesIffLinked
  <2>6. /\ \A i, j \in DOMAIN rows : i < j => rows[i].body < rows[j].body
        /\ \A i \in DOMAIN rows : rows[i].body \in Nat \ {0}
    BY <1>1 DEF Lone, Sorted, Ascending, IInv, Accounted, Numbers
  <2>7. ASSUME NEW k \in 1 .. n  PROVE Nth(P, k) = IF k = 1 THEN 1 ELSE Nth(P, k - 1) + 1
    <3> DEFINE i == Nth(P, k)
    <3>1. i \in DOMAIN rows /\ ex[k] = rows[i] /\ Before(i) <= Final(rows[i].prev_hash)
      BY <1>1, <2>3, <2>4, RowsLinked
    <3> HIDE DEF i
    <3>2. i # 1 => i - 1 \in DOMAIN rows /\ Before(i) = rows[i-1].body
      BY <2>1, <3>1 DEF Before
    <3>3. CASE k = 1
      <4>1. Final(rows[i].prev_hash) = 0
        BY <2>5, <3>1, <3>3 DEF Final
      <4>2. i = 1
        BY <2>6, <3>1, <3>2, <4>1
      <4> QED BY <3>3, <4>2 DEF i
    <3>4. CASE k # 1
      <4> DEFINE j == Nth(P, k - 1)
      <4>1. k - 1 \in 1 .. n /\ k - 1 < k
        BY <2>4, <3>4
      <4>2. j \in DOMAIN rows /\ j < i /\ ex[k-1] = rows[j]
        BY <2>3, <2>4, <4>1 DEF i
      <4> HIDE DEF j
      <4>3. Final(rows[i].prev_hash) = rows[j].body
        BY <1>1, <2>5, <3>1, <3>4, <4>2, RowsLinked
      <4>4. i # 1 /\ i - 1 \in DOMAIN rows /\ rows[i-1].body <= rows[j].body
        BY <2>1, <3>1, <3>2, <4>2, <4>3
      <4>5. ~(j < i - 1)
        BY <2>6, <4>2, <4>4
      <4>6. i = j + 1
        BY <2>1, <3>1, <4>2, <4>5
      <4> QED BY <3>4, <4>6 DEF i, j
    <3> QED BY <3>3, <3>4
  <2>8. \A k \in 1 .. n : Nth(P, k) = k
    <3> DEFINE T == {k \in 1 .. n : Nth(P, k) # k}
    <3>1. SUFFICES ASSUME T # {}  PROVE FALSE
      OBVIOUS
    <3>2. PICK x \in T : \A y \in T : x <= y
      <4>1. T \in SUBSET Nat
        BY <2>4
      <4> HIDE DEF T
      <4> QED BY <3>1, <4>1, Least
    <3>3. x \in 1 .. n /\ Nth(P, x) # x
      BY <3>2
    <3>4. x # 1 /\ x - 1 \in 1 .. n
      BY <2>4, <2>7, <3>3
    <3>5. x - 1 \notin T
      BY <3>2, <3>3
    <3> QED BY <2>7, <3>3, <3>4, <3>5
  <2>9. n = 0 \/ n \in DOMAIN rows
    BY <2>4, <2>8
  <2>10. ex = SubSeq(rows, 1, n)
    <3>1. n \in 0 .. Len(rows)
      BY <2>1, <2>4, <2>9
    <3>2. /\ SubSeq(rows, 1, n) \in Seq(Row) /\ Len(SubSeq(rows, 1, n)) = n
          /\ \A k \in 1 .. n : SubSeq(rows, 1, n)[k] = rows[k]
      BY <2>1, <3>1
    <3>3. \A k \in 1 .. n : ex[k] = rows[k]
      BY <2>3, <2>8
    <3> QED BY <2>3, <3>2, <3>3, SeqEqual
  <2> QED BY <2>2, <2>3, <2>10
<1>2. ASSUME IInv, LInv, Alone, NEW selected
      PROVE  LET ex == export_jsonl(selected) IN Verifies(ex) => ex = SubSeq(rows, 1, Len(ex))
  <2>1. PICK s \in Stores : Lone(s)
    BY <1>2, AloneIsLone
  <2>2. Verifies(export_jsonl(selected)) =>
            export_jsonl(selected) = SubSeq(rows, 1, Len(export_jsonl(selected)))
    BY <1>1, <1>2, <2>1
  <2> QED BY <2>2
<1>3. IInv /\ LInv => ExportHidesNothing
  BY <1>2, Zenon DEF ExportHidesNothing
<1> QED BY <1>3, SpecLInv, PTL
=============================================================================
