-------------------------- MODULE JsonlStoreProofs --------------------------
(***************************************************************************)
(* What a JSONL file keeps, for any number of appends, failing writes,     *)
(* torn lines, kills and restarts; and what verify_chain says of the file. *)
(***************************************************************************)
EXTENDS JsonlStore, FiniteSetTheorems, SequenceTheorems, TLAPS

\* The pieces in the file and those that wait in the buffer are one queue.
Stream == file \o buffer

\* The pieces come in the order of the appends, those of a line side by side.
Ordered(s) ==
    \A i, j \in DOMAIN s : i < j =>
        \/ s[i].rec.body < s[j].rec.body
        \/ s[i].rec = s[j].rec /\ s[j].part # "head"

\* A line glued to another one comes right after a torn write: no append came
\* between the two that wrote anything.
Marked(s, tears) ==
    \A i \in DOMAIN s : i # 1 /\ s[i].part = "head" /\ s[i-1].part # "newline" =>
        \E t \in tears : s[i-1].rec.body <= t /\ t < s[i].rec.body

\* A line without its newline at the end was torn, and the next one will be glued.
EndMarked(s, tears) ==
    Len(s) # 0 /\ s[Len(s)].part # "newline" => \E t \in tears : s[Len(s)].rec.body <= t

\* The line of record a is in s, with all its pieces.
Kept(a, s) ==
    \E i \in DOMAIN s :
        /\ i + 1 \in DOMAIN s /\ i + 2 \in DOMAIN s
        /\ s[i].rec.body = a
        /\ s[i].part = "head" /\ s[i+1].part = "rest" /\ s[i+2].part = "newline"

SomePieces == \E S : file \in Seq(S) /\ buffer \in Seq(S)

IInv ==
    /\ TypeOK /\ SomePieces
    /\ Ordered(Stream) /\ Marked(Stream, torn) /\ EndMarked(Stream, torn)
    /\ \A a \in acked : Kept(a, file)

-----------------------------------------------------------------------------
(* Pieces.                                                                 *)

\* p is the first part of s.
Begins(p, s) ==
    /\ Len(p) \in Nat /\ DOMAIN p = 1 .. Len(p)
    /\ Len(s) \in Nat /\ DOMAIN s = 1 .. Len(s)
    /\ Len(p) <= Len(s)
    /\ \A i \in DOMAIN p : i \in DOMAIN s /\ p[i] = s[i]

LEMMA Cut ==
    ASSUME NEW p, NEW s, NEW tears, Begins(p, s), Ordered(s), Marked(s, tears)
    PROVE  Ordered(p) /\ Marked(p, tears)
<1>1. Ordered(p)
  BY DEF Begins, Ordered
<1>2. \A i \in DOMAIN p : i # 1 => i - 1 \in DOMAIN p
  BY DEF Begins
<1>3. Marked(p, tears)
  BY <1>2 DEF Begins, Marked
<1> QED BY <1>1, <1>3

\* The line of a record.
LEMMA LinePieces ==
    ASSUME NEW rec
    PROVE  /\ Line(rec) \in Seq({Piece(rec, "head"), Piece(rec, "rest"), Piece(rec, "newline")})
           /\ Len(Line(rec)) = 3
           /\ \A i \in 1 .. 3 : Line(rec)[i].rec = rec
           /\ Line(rec)[1].part = "head" /\ Line(rec)[2].part = "rest" /\ Line(rec)[3].part = "newline"
BY DEF Line, Piece

\* One text after another.
Follow(xs, ys, full) ==
    /\ Len(xs) \in Nat /\ DOMAIN xs = 1 .. Len(xs) /\ Len(ys) \in Nat /\ DOMAIN ys = 1 .. Len(ys)
    /\ Len(full) = Len(xs) + Len(ys) /\ DOMAIN full = 1 .. Len(full)
    /\ \A i \in 1 .. Len(xs) : full[i] = xs[i]
    /\ \A i \in 1 .. Len(ys) : full[Len(xs) + i] = ys[i]

LEMMA Joined ==
    ASSUME NEW S, NEW xs \in Seq(S), NEW ys \in Seq(S)
    PROVE  xs \o ys \in Seq(S) /\ Follow(xs, ys, xs \o ys)
BY DEF Follow

LEMMA FollowBegins ==
    ASSUME NEW xs, NEW ys, NEW full, Follow(xs, ys, full)
    PROVE  Begins(xs, full)
BY DEF Follow, Begins

LEMMA InEither ==
    ASSUME NEW xs, NEW ys, NEW full, Follow(xs, ys, full), NEW k \in DOMAIN full, k \notin DOMAIN xs
    PROVE  \E i \in 1 .. Len(ys) : k = Len(xs) + i /\ full[k] = ys[i]
<1>1. k - Len(xs) \in 1 .. Len(ys) /\ k = Len(xs) + (k - Len(xs))
  BY DEF Follow
<1> QED BY <1>1 DEF Follow

\* part is made of the pieces of text from the one behind k up to the l-th.
PartOf(part, text, k, l) == Len(part) = l - k /\ \A i \in 1 .. l - k : part[i] = text[k + i]

LEMMA SubSeqPart ==
    ASSUME NEW S, NEW text \in Seq(S), NEW k \in Nat, NEW l \in Nat, k <= l, l <= Len(text)
    PROVE  /\ SubSeq(text, k + 1, l) \in Seq(S) /\ PartOf(SubSeq(text, k + 1, l), text, k, l)
           /\ k = l => SubSeq(text, k + 1, l) = <<>>
<1>1. \A i \in 1 .. Len(text) : text[i] \in S
  BY ElementOfSeq
<1>2. \A i \in k + 1 .. l : text[i] \in S
  BY <1>1, LenProperties
<1>3. /\ SubSeq(text, k + 1, l) \in Seq(S) /\ Len(SubSeq(text, k + 1, l)) = l - k
      /\ \A i \in 1 .. l - k : SubSeq(text, k + 1, l)[i] = text[k + i]
  BY <1>2, SubSeqProperties
<1>4. k = l => SubSeq(text, k + 1, l) = <<>>
  OBVIOUS
<1> QED BY <1>3, <1>4 DEF PartOf

\* A text behind a file, of which the first n pieces are written and the next
\* m - n are kept.
LEMMA Split ==
    ASSUME NEW old, NEW text, NEW first, NEW kept, NEW written, NEW queue, NEW full,
           NEW n \in Nat, NEW m \in Nat, n <= m, m <= Len(text),
           PartOf(first, text, 0, n), PartOf(kept, text, n, m),
           Follow(old, first, written), Follow(written, kept, queue), Follow(old, text, full)
    PROVE  /\ Begins(old, written) /\ Begins(written, queue) /\ Begins(queue, full)
           /\ Len(written) = Len(old) + n /\ Len(queue) = Len(old) + m /\ Len(full) = Len(old) + Len(text)
           /\ m < Len(text) => full[Len(queue) + 1] = text[m+1]
<1>1. Len(old) \in Nat /\ Len(text) \in Nat /\ Len(first) = n /\ Len(kept) = m - n
  BY DEF Follow, PartOf
<1>2. Len(written) = Len(old) + n /\ Len(full) = Len(old) + Len(text)
  BY <1>1 DEF Follow
<1>3. Len(queue) = Len(old) + m
  <2>1. Len(queue) = Len(written) + Len(kept)
    BY DEF Follow
  <2> QED BY <1>1, <1>2, <2>1
<1>4. DOMAIN queue = 1 .. Len(old) + m /\ DOMAIN full = 1 .. Len(old) + Len(text)
  BY <1>2, <1>3 DEF Follow
<1>5. ASSUME NEW k \in DOMAIN queue PROVE k \in DOMAIN full /\ queue[k] = full[k]
  <2>1. k \in DOMAIN full
    BY <1>1, <1>4
  <2>2. CASE k \in DOMAIN old
    <3>1. k \in 1 .. Len(old) /\ k \in 1 .. Len(written)
      BY <1>1, <1>2, <2>2 DEF Follow
    <3>2. full[k] = old[k] /\ written[k] = old[k] /\ queue[k] = written[k]
      BY <3>1 DEF Follow
    <3> QED BY <2>1, <3>2
  <2>3. CASE k \notin DOMAIN old /\ k \in DOMAIN written
    <3>1. PICK i \in 1 .. Len(first) : k = Len(old) + i /\ written[k] = first[i]
      BY <2>3, InEither
    <3>2. i \in 1 .. n /\ i \in 1 .. Len(text)
      BY <1>1
    <3>3. first[i] = text[i]
      BY <3>2 DEF PartOf
    <3>4. queue[k] = written[k] /\ full[k] = text[i]
      BY <2>3, <3>1, <3>2 DEF Follow
    <3> QED BY <2>1, <3>1, <3>3, <3>4
  <2>4. CASE k \notin DOMAIN written
    <3>1. PICK i \in 1 .. Len(kept) : k = Len(written) + i /\ queue[k] = kept[i]
      BY <2>4, InEither
    <3>2. i \in 1 .. m - n /\ n + i \in 1 .. Len(text) /\ k = Len(old) + (n + i)
      BY <1>1, <1>2, <3>1
    <3>3. kept[i] = text[n + i]
      BY <3>2 DEF PartOf
    <3>4. full[k] = text[n + i]
      BY <3>2 DEF Follow
    <3> QED BY <2>1, <3>1, <3>3, <3>4
  <2> QED BY <2>2, <2>3, <2>4
<1>6. Begins(queue, full)
  BY <1>1, <1>2, <1>3, <1>4, <1>5 DEF Begins
<1>7. m < Len(text) => full[Len(queue) + 1] = text[m+1]
  <2>1. m < Len(text) => m + 1 \in 1 .. Len(text) /\ Len(queue) + 1 = Len(old) + (m + 1)
    BY <1>1, <1>3
  <2> QED BY <2>1 DEF Follow
<1>8. Begins(old, written) /\ Begins(written, queue)
  BY FollowBegins
<1> QED BY <1>2, <1>3, <1>6, <1>7, <1>8

\* What WriteOut does to the queue: a first part of it goes to the file, and it is
\* cut off behind the last piece that is kept.
LEMMA Written ==
    ASSUME NEW S, file \in Seq(S), buffer \in Seq(S), NEW new \in Seq(S),
           NEW m \in 0 .. Len(buffer \o new), NEW n \in 0 .. m, WriteOut(buffer \o new, n, m)
    PROVE  /\ file' \in Seq(S) /\ buffer' \in Seq(S)
           /\ Stream \o new \in Seq(S)
           /\ Begins(file, file') /\ Begins(file', Stream') /\ Begins(Stream', Stream \o new)
           /\ n = m => buffer' = <<>>
           /\ n = Len(buffer \o new) => Len(file') = Len(Stream \o new)
           /\ torn' = torn \/ (torn' = torn \cup {calls'} /\ Len(buffer \o new) # 0)
           /\ Len(Stream') < Len(Stream \o new) /\ (Stream \o new)[Len(Stream') + 1].part # "head" =>
                  calls' \in torn'
<1> DEFINE text == buffer \o new
           full == Stream \o new
           first == SubSeq(text, 1, n)
           kept == SubSeq(text, n + 1, m)
<1>1. text \in Seq(S) /\ full \in Seq(S) /\ full = file \o text
  BY DEF Stream
<1>2. /\ file' = file \o first /\ buffer' = kept
      /\ torn' = IF m < Len(text) /\ text[m+1].part # "head" THEN torn \cup {calls'} ELSE torn
  BY DEF WriteOut
<1>3. m \in Nat /\ n \in Nat /\ n <= m /\ m <= Len(text) /\ Len(text) \in Nat
  BY <1>1, LenProperties
<1> HIDE DEF text, full
<1>4. /\ first \in Seq(S) /\ PartOf(first, text, 0, n)
      /\ kept \in Seq(S) /\ PartOf(kept, text, n, m)
      /\ n = m => kept = <<>>
  <2>1. 0 \in Nat /\ 0 <= n /\ n <= Len(text) /\ 0 + 1 = 1
    BY <1>3
  <2>2. SubSeq(text, 0 + 1, n) \in Seq(S) /\ PartOf(SubSeq(text, 0 + 1, n), text, 0, n)
    BY <1>1, <1>3, <2>1, SubSeqPart
  <2>3. first \in Seq(S) /\ PartOf(first, text, 0, n)
    BY <2>1, <2>2
  <2> QED BY <1>1, <1>3, <2>3, SubSeqPart
<1> HIDE DEF first, kept
<1>5. file' \in Seq(S) /\ Follow(file, first, file')
  BY <1>2, <1>4, Joined
<1>6. Stream' \in Seq(S) /\ Follow(file', kept, Stream')
  <2>1. Stream' = file' \o kept
    BY <1>2 DEF Stream
  <2> QED BY <1>4, <1>5, <2>1, Joined
<1>7. Follow(file, text, full)
  BY <1>1, Joined
<1>8. /\ Begins(file, file') /\ Begins(file', Stream') /\ Begins(Stream', full)
      /\ Len(file') = Len(file) + n /\ Len(Stream') = Len(file) + m /\ Len(full) = Len(file) + Len(text)
      /\ m < Len(text) => full[Len(Stream') + 1] = text[m+1]
  <2> HIDE DEF Stream
  <2> QED BY <1>3, <1>4, <1>5, <1>6, <1>7, Split
<1>9. torn' = torn \/ (torn' = torn \cup {calls'} /\ Len(text) # 0)
  BY <1>2, <1>3
<1>10. Len(Stream') < Len(full) /\ full[Len(Stream') + 1].part # "head" => calls' \in torn'
  <2>1. Len(file) \in Nat
    BY <1>7 DEF Follow
  <2>2. Len(Stream') < Len(full) => m < Len(text)
    BY <1>3, <1>8, <2>1
  <2> QED BY <1>2, <1>8, <2>2
<1> QED BY <1>1, <1>2, <1>4, <1>5, <1>8, <1>9, <1>10 DEF full, text

-----------------------------------------------------------------------------
(* The steps.                                                              *)

LEMMA StreamOf ==
    ASSUME IInv
    PROVE  /\ Len(Stream) \in Nat /\ DOMAIN Stream = 1 .. Len(Stream)
           /\ Begins(file, Stream)
           /\ \A i \in DOMAIN Stream : Stream[i].rec.body \in 1 .. calls
           /\ calls \in Nat
<1>1. PICK S : file \in Seq(S) /\ buffer \in Seq(S)
  BY DEF IInv, SomePieces
<1>2. /\ \A i \in DOMAIN file : file[i].rec.body \in 1 .. calls
      /\ \A i \in DOMAIN buffer : buffer[i].rec.body \in 1 .. calls
      /\ calls \in Nat
  BY BoundsAssumption DEF IInv, TypeOK
<1>3. Stream \in Seq(S) /\ Follow(file, buffer, Stream) /\ Begins(file, Stream)
  BY <1>1, Joined, FollowBegins DEF Stream
<1>4. ASSUME NEW k \in DOMAIN Stream PROVE Stream[k].rec.body \in 1 .. calls
  <2>1. CASE k \in DOMAIN file
    BY <1>2, <1>3, <2>1 DEF Begins
  <2>2. CASE k \notin DOMAIN file
    <3>1. PICK i \in 1 .. Len(buffer) : Stream[k] = buffer[i]
      BY <1>3, <2>2, InEither
    <3>2. i \in DOMAIN buffer
      BY <1>3 DEF Follow
    <3> QED BY <1>2, <3>1, <3>2
  <2> QED BY <2>1, <2>2
<1> QED BY <1>2, <1>3, <1>4 DEF Begins

\* Behind the queue, the line of the next record fits the order and the marks.
LEMMA LineFits ==
    ASSUME IInv, NEW S, Stream \in Seq(S), NEW rec, rec.body = calls + 1, Line(rec) \in Seq(S)
    PROVE  LET full == Stream \o Line(rec) IN
           /\ Ordered(full) /\ Marked(full, torn) /\ full[Len(full)].part = "newline"
           /\ Len(full) = Len(Stream) + 3
           /\ \A i \in DOMAIN full : full[i].rec.body \in 1 .. calls + 1
           /\ \A i \in 1 .. 3 : full[Len(Stream) + i] = Line(rec)[i]
           /\ Begins(Stream, full)
           /\ \A k \in DOMAIN full : k \in DOMAIN Stream \/ k \in Len(Stream) + 1 .. Len(Stream) + 3
<1> DEFINE full == Stream \o Line(rec)
           n == Len(Stream)
<1>1. /\ n \in Nat /\ DOMAIN Stream = 1 .. n /\ calls \in Nat
      /\ \A i \in DOMAIN Stream : Stream[i].rec.body \in 1 .. calls
  BY StreamOf
<1>2. /\ Len(full) = n + 3 /\ DOMAIN full = 1 .. n + 3 /\ Begins(Stream, full)
      /\ \A i \in 1 .. n : full[i] = Stream[i]
      /\ \A i \in 1 .. 3 : full[n + i] = Line(rec)[i]
  <2>1. /\ Len(full) = n + 3 /\ Begins(Stream, full)
        /\ \A i \in 1 .. 3 : full[n + i] = Line(rec)[i]
    <3>1. Len(Line(rec)) = 3
      BY LinePieces
    <3>2. Follow(Stream, Line(rec), full) /\ Begins(Stream, full)
      BY Joined, FollowBegins
    <3> HIDE DEF full
    <3> QED BY <3>1, <3>2 DEF Follow
  <2> HIDE DEF full, n
  <2> QED BY <1>1, <2>1 DEF Begins
<1> HIDE DEF full
<1>3. /\ full[n+1].rec = rec /\ full[n+2].rec = rec /\ full[n+3].rec = rec
      /\ full[n+1].part = "head" /\ full[n+2].part = "rest" /\ full[n+3].part = "newline"
  <2> HIDE DEF n
  <2>1. full[n+1] = Line(rec)[1] /\ full[n+2] = Line(rec)[2] /\ full[n+3] = Line(rec)[3]
    BY <1>2
  <2>2. Line(rec)[1].rec = rec /\ Line(rec)[2].rec = rec /\ Line(rec)[3].rec = rec
    BY DEF Line, Piece
  <2>3. Line(rec)[1].part = "head" /\ Line(rec)[2].part = "rest" /\ Line(rec)[3].part = "newline"
    BY LinePieces
  <2> QED BY <2>1, <2>2, <2>3
<1> HIDE DEF n
<1>4. \A k \in DOMAIN full : k \in 1 .. n \/ k = n + 1 \/ k = n + 2 \/ k = n + 3
  BY <1>1, <1>2
<1>5. \A i \in DOMAIN full : full[i].rec.body \in 1 .. calls + 1
  BY <1>1, <1>2, <1>3, <1>4
<1>6. Ordered(full)
  <2>1. SUFFICES ASSUME NEW i \in DOMAIN full, NEW j \in DOMAIN full, i < j
                 PROVE  \/ full[i].rec.body < full[j].rec.body
                        \/ full[i].rec = full[j].rec /\ full[j].part # "head"
    BY DEF Ordered
  <2>2. CASE i \in 1 .. n /\ j \in 1 .. n
    BY <1>1, <1>2, <2>1, <2>2 DEF IInv, Ordered
  <2>3. CASE i \in 1 .. n /\ j \notin 1 .. n
    <3>1. full[j].rec.body = calls + 1 /\ full[i].rec.body \in 1 .. calls
      BY <1>1, <1>2, <1>3, <1>4, <2>3
    <3> QED BY <1>1, <3>1
  <2>4. CASE i \notin 1 .. n
    <3>1. i \in {n + 1, n + 2, n + 3} /\ j \in {n + 2, n + 3}
      BY <1>1, <1>4, <2>1, <2>4
    <3> QED BY <1>3, <3>1
  <2> QED BY <2>2, <2>3, <2>4
<1>7. Marked(full, torn)
  <2>1. SUFFICES ASSUME NEW i \in DOMAIN full, i # 1, full[i].part = "head", full[i-1].part # "newline"
                 PROVE  \E t \in torn : full[i-1].rec.body <= t /\ t < full[i].rec.body
    BY DEF Marked
  <2>2. CASE i \in 1 .. n
    <3>1. full[i] = Stream[i] /\ full[i-1] = Stream[i-1] /\ i \in DOMAIN Stream
      BY <1>1, <1>2, <2>1, <2>2
    <3> QED BY <2>1, <3>1 DEF IInv, Marked
  <2>3. CASE i = n + 1
    <3>1. n # 0 /\ full[i-1] = Stream[n] /\ full[i].rec.body = calls + 1
      BY <1>1, <1>2, <1>3, <2>1, <2>3
    <3>2. PICK t \in torn : Stream[n].rec.body <= t
      BY <2>1, <3>1 DEF IInv, EndMarked, n
    <3>3. t \in 1 .. calls
      BY DEF IInv, TypeOK
    <3>4. t < calls + 1
      BY <1>1, <3>3
    <3> QED BY <3>1, <3>2, <3>4
  <2>4. i # n + 2 /\ i # n + 3
    BY <1>3, <2>1
  <2> QED BY <1>4, <2>2, <2>3, <2>4
<1>8. full[Len(full)].part = "newline"
  BY <1>2, <1>3
<1>9. \A k \in DOMAIN full : k \in DOMAIN Stream \/ k \in n + 1 .. n + 3
  BY <1>1, <1>4
<1> QED BY <1>2, <1>5, <1>6, <1>7, <1>8, <1>9 DEF full, n

\* What an append puts behind the queue: nothing, or the line of its record.
Puts(new) ==
    \/ new = <<>> /\ calls' = calls
    \/ new = Line(NextRecord) /\ ChainNext

\* A queue that is cut off keeps its order, and the tear is marked.
LEMMA CutKeeps ==
    ASSUME IInv, NEW S, file \in Seq(S), buffer \in Seq(S), NEW new \in Seq(S), Puts(new),
           NEW m \in 0 .. Len(buffer \o new), NEW n \in 0 .. m, WriteOut(buffer \o new, n, m)
    PROVE  /\ SomePieces'
           /\ Ordered(Stream)' /\ Marked(Stream, torn)' /\ EndMarked(Stream, torn)'
           /\ \A i \in DOMAIN file' : file'[i].rec.body \in 1 .. calls'
           /\ \A i \in DOMAIN buffer' : buffer'[i].rec.body \in 1 .. calls'
           /\ torn' \subseteq 1 .. calls'
           /\ \A a \in acked : Kept(a, file')
<1> DEFINE full == Stream \o new
<1>1. /\ file' \in Seq(S) /\ buffer' \in Seq(S) /\ full \in Seq(S)
      /\ Begins(file, file') /\ Begins(file', Stream') /\ Begins(Stream', full)
      /\ torn' = torn \/ (torn' = torn \cup {calls'} /\ Len(buffer \o new) # 0)
      /\ Len(Stream') < Len(full) /\ full[Len(Stream') + 1].part # "head" => calls' \in torn'
  BY Written
<1>2. /\ Stream \in Seq(S) /\ calls \in Nat
      /\ \A i \in DOMAIN Stream : Stream[i].rec.body \in 1 .. calls
  <2>1. Stream \in Seq(S)
    BY DEF Stream
  <2> QED BY <2>1, StreamOf
<1>3. calls' \in Nat /\ calls <= calls' /\ (new # <<>> => calls' = calls + 1)
  BY <1>2 DEF Puts, ChainNext, AppendCalled
<1>4. /\ Ordered(full) /\ Marked(full, torn)
      /\ Len(full) # 0 /\ full[Len(full)].part # "newline" => \E t \in torn : full[Len(full)].rec.body <= t
      /\ \A i \in DOMAIN full : full[i].rec.body \in 1 .. calls'
  <2>1. CASE new = <<>>
    <3>1. full = Stream
      BY <1>2, <2>1
    <3>2. \A i \in DOMAIN full : full[i].rec.body \in 1 .. calls'
      BY <1>2, <1>3, <3>1
    <3> HIDE DEF full
    <3> QED BY <3>1, <3>2 DEF IInv, EndMarked
  <2>2. CASE new = Line(NextRecord) /\ ChainNext
    <3>1. NextRecord.body = calls + 1 /\ calls' = calls + 1
      BY <2>2 DEF NextRecord, append_record, ChainNext, AppendCalled
    <3>2. Line(NextRecord) \in Seq(S)
      BY <2>2
    <3>3. /\ Ordered(full) /\ Marked(full, torn) /\ full[Len(full)].part = "newline"
          /\ \A i \in DOMAIN full : full[i].rec.body \in 1 .. calls + 1
      BY <1>2, <2>2, <3>1, <3>2, LineFits
    <3> HIDE DEF full
    <3> QED BY <3>1, <3>3
  <2> QED BY <2>1, <2>2 DEF Puts
<1> HIDE DEF full
<1>5. torn \subseteq torn' /\ torn' \subseteq 1 .. calls'
  <2>1. torn \subseteq 1 .. calls
    BY DEF IInv, TypeOK
  <2>2. torn \subseteq 1 .. calls'
    BY <1>2, <1>3, <2>1
  <2>3. Len(buffer \o new) # 0 => calls' \in 1 .. calls'
    <3>1. CASE new # <<>>
      BY <1>2, <1>3, <3>1
    <3>2. CASE new = <<>> /\ Len(buffer \o new) # 0
      <4>1. 1 \in DOMAIN buffer
        BY <3>2
      <4>2. buffer[1].rec.body \in 1 .. calls
        BY <4>1 DEF IInv, TypeOK
      <4> QED BY <1>2, <1>3, <4>2
    <3> QED BY <3>1, <3>2
  <2> QED BY <1>1, <2>2, <2>3
<1>6. Ordered(Stream)' /\ Marked(Stream', torn)
  BY <1>1, <1>4, Cut
<1>7. Marked(Stream, torn)'
  BY <1>5, <1>6 DEF Marked
<1>8. \A i \in DOMAIN Stream' : Stream'[i].rec.body \in 1 .. calls'
  BY <1>1, <1>4 DEF Begins
<1>9. EndMarked(Stream, torn)'
  <2> DEFINE k == Len(Stream')
  <2>1. SUFFICES ASSUME k # 0, Stream'[k].part # "newline"
                 PROVE  \E t \in torn' : Stream'[k].rec.body <= t
    BY DEF EndMarked
  <2>2. /\ k \in DOMAIN Stream' /\ k \in Nat /\ k \in DOMAIN full /\ Stream'[k] = full[k]
        /\ Len(full) \in Nat /\ k <= Len(full) /\ DOMAIN full = 1 .. Len(full)
    <3> HIDE DEF k
    <3>1. Begins(Stream', full) /\ k = Len(Stream')
      BY <1>1 DEF k
    <3> QED BY <2>1, <3>1 DEF Begins
  <2>3. CASE k = Len(full)
    BY <1>4, <1>5, <2>1, <2>2, <2>3
  <2>4. CASE k < Len(full) /\ full[k+1].part = "head"
    <3>1. k + 1 \in DOMAIN full /\ k + 1 # 1 /\ (k + 1) - 1 = k
      BY <2>1, <2>2, <2>4
    <3>2. \E t \in torn : full[k].rec.body <= t
      BY <1>4, <2>1, <2>2, <2>4, <3>1 DEF Marked
    <3> QED BY <1>5, <2>2, <3>2
  <2>5. CASE k < Len(full) /\ full[k+1].part # "head"
    <3>1. calls' \in torn'
      BY <1>1, <2>5
    <3>2. Stream'[k].rec.body <= calls'
      BY <1>3, <1>8, <2>2
    <3> QED BY <3>1, <3>2
  <2> QED BY <2>2, <2>3, <2>4, <2>5
<1>10. \A i \in DOMAIN file' : file'[i].rec.body \in 1 .. calls'
  BY <1>1, <1>8 DEF Begins
<1>11. \A i \in DOMAIN buffer' : buffer'[i].rec.body \in 1 .. calls'
  <2> TAKE i \in DOMAIN buffer'
  <2>1. Follow(file', buffer', Stream')
    BY <1>1, Joined DEF Stream
  <2>2. Stream'[Len(file') + i] = buffer'[i] /\ Len(file') + i \in DOMAIN Stream'
    BY <2>1 DEF Follow
  <2> QED BY <1>8, <2>2
<1>12. \A a \in acked : Kept(a, file')
  <2> TAKE a \in acked
  <2>1. PICK i \in DOMAIN file : /\ i + 1 \in DOMAIN file /\ i + 2 \in DOMAIN file
                                /\ file[i].rec.body = a
                                /\ file[i].part = "head" /\ file[i+1].part = "rest" /\ file[i+2].part = "newline"
    BY DEF IInv, Kept
  <2>2. \A j \in DOMAIN file : j \in DOMAIN file' /\ file'[j] = file[j]
    BY <1>1 DEF Begins
  <2> QED BY <2>1, <2>2 DEF Kept
<1>13. SomePieces'
  BY <1>1 DEF SomePieces
<1> QED BY <1>5, <1>6, <1>7, <1>9, <1>10, <1>11, <1>12, <1>13

\* Appends that write put their line behind the queue; close and kill put nothing.
LEMMA Adds ==
    ASSUME IInv
    PROVE  \E S : /\ file \in Seq(S) /\ buffer \in Seq(S) /\ <<>> \in Seq(S)
                  /\ Line(NextRecord) \in Seq(S) /\ buffer \o <<>> = buffer
<1>1. PICK T : file \in Seq(T) /\ buffer \in Seq(T)
  BY DEF IInv, SomePieces
<1> DEFINE pieces == {Piece(NextRecord, "head"), Piece(NextRecord, "rest"), Piece(NextRecord, "newline")}
           S == T \cup pieces
<1>2. T \subseteq S /\ pieces \subseteq S
  OBVIOUS
<1>3. Line(NextRecord) \in Seq(pieces)
  BY LinePieces
<1> HIDE DEF S, pieces
<1>4. file \in Seq(S) /\ buffer \in Seq(S) /\ Line(NextRecord) \in Seq(S)
  BY <1>1, <1>2, <1>3, SeqMonotonic
<1>5. <<>> \in Seq(S) /\ buffer \o <<>> = buffer
  BY <1>4
<1> QED BY <1>4, <1>5

\* The parts of the invariant that concern the queue.
QueueInv ==
    /\ SomePieces
    /\ Ordered(Stream) /\ Marked(Stream, torn) /\ EndMarked(Stream, torn)
    /\ \A i \in DOMAIN file : file[i].rec.body \in 1 .. calls
    /\ \A i \in DOMAIN buffer : buffer[i].rec.body \in 1 .. calls
    /\ torn \subseteq 1 .. calls

LEMMA WriteStep ==
    ASSUME IInv, NEW new, Puts(new), new = <<>> \/ new = Line(NextRecord),
           NEW m \in 0 .. Len(buffer \o new), NEW n \in 0 .. m, WriteOut(buffer \o new, n, m)
    PROVE  /\ QueueInv' /\ \A a \in acked : Kept(a, file')
           /\ n = m => buffer' = <<>>
<1>1. PICK S : /\ file \in Seq(S) /\ buffer \in Seq(S) /\ <<>> \in Seq(S)
              /\ Line(NextRecord) \in Seq(S) /\ buffer \o <<>> = buffer
  BY Adds
<1>2. new \in Seq(S)
  BY <1>1
<1>3. n = m => buffer' = <<>>
  BY <1>1, <1>2, Written
<1>4. /\ SomePieces'
      /\ Ordered(Stream)' /\ Marked(Stream, torn)' /\ EndMarked(Stream, torn)'
      /\ \A i \in DOMAIN file' : file'[i].rec.body \in 1 .. calls'
      /\ \A i \in DOMAIN buffer' : buffer'[i].rec.body \in 1 .. calls'
      /\ torn' \subseteq 1 .. calls'
      /\ \A a \in acked : Kept(a, file')
  BY <1>1, <1>2, CutKeeps
<1> QED BY <1>3, <1>4 DEF QueueInv

\* A step that leaves file and buffer alone.
LEMMA QuietStep ==
    ASSUME IInv, UNCHANGED <<file, buffer, torn>>, calls' \in Nat, calls <= calls'
    PROVE  QueueInv' /\ \A a \in acked : Kept(a, file')
<1>1. calls \in Nat
  BY StreamOf
<1>2. \A x \in 1 .. calls : x \in 1 .. calls'
  BY <1>1
<1>3. Stream' = Stream
  BY DEF Stream
<1>4. /\ \A i \in DOMAIN file : file[i].rec.body \in 1 .. calls
      /\ \A i \in DOMAIN buffer : buffer[i].rec.body \in 1 .. calls
      /\ torn \subseteq 1 .. calls
  BY DEF IInv, TypeOK
<1>5. /\ SomePieces
      /\ Ordered(Stream) /\ Marked(Stream, torn) /\ EndMarked(Stream, torn)
      /\ \A a \in acked : Kept(a, file)
  BY DEF IInv
<1>6. SomePieces'
  BY <1>5 DEF SomePieces
<1>7. /\ \A i \in DOMAIN file' : file'[i].rec.body \in 1 .. calls'
      /\ \A i \in DOMAIN buffer' : buffer'[i].rec.body \in 1 .. calls'
      /\ torn' \subseteq 1 .. calls'
  BY <1>2, <1>4
<1>8. Ordered(Stream)' /\ Marked(Stream, torn)' /\ EndMarked(Stream, torn)'
  BY <1>3, <1>5 DEF Ordered, Marked, EndMarked
<1> QED BY <1>5, <1>6, <1>7, <1>8 DEF QueueInv

\* The other variables.
Scalars ==
    /\ open \in BOOLEAN /\ calls \in 0 .. MaxAppends
    /\ acked \subseteq 1 .. calls /\ rejected \subseteq 1 .. calls /\ starts \subseteq 0 .. calls

LEMMA ScalarsKept == TypeOK /\ Next => Scalars' /\ calls' \in Nat /\ calls <= calls'
<1> SUFFICES ASSUME TypeOK, Next PROVE Scalars' /\ calls' \in Nat /\ calls <= calls'
  OBVIOUS
<1>1. /\ calls \in Nat /\ calls <= MaxAppends /\ open \in BOOLEAN /\ MaxAppends \in Nat
      /\ acked \subseteq 1 .. calls /\ rejected \subseteq 1 .. calls /\ starts \subseteq 0 .. calls
  BY BoundsAssumption DEF TypeOK
<1>2. CASE Open \/ Close \/ CloseFails \/ Kill
  <2>1. calls' = calls /\ acked' = acked /\ rejected' = rejected /\ open' \in BOOLEAN
    BY <1>2 DEF Open, Close, CloseFails, Kill
  <2>2. starts' = starts \/ starts' = starts \cup {calls}
    BY <1>2 DEF Open, Close, CloseFails, Kill
  <2>3. open' \in BOOLEAN
    BY <2>1
  <2>4. /\ calls' \in 0 .. MaxAppends /\ calls \in 0 .. calls /\ acked' \subseteq 1 .. calls'
        /\ rejected' \subseteq 1 .. calls'
    BY <1>1, <2>1
  <2>5. starts' \subseteq 0 .. calls'
    BY <1>1, <2>1, <2>2, <2>4
  <2> QED BY <1>1, <2>1, <2>3, <2>4, <2>5 DEF Scalars
<1>3. CASE AppendReturns \/ AppendRejected \/ AppendNotSerialisable \/ AppendWriteFails \/ KillDuringAppend
  <2>1. calls < MaxAppends /\ calls' = calls + 1
    BY <1>3 DEF AppendReturns, AppendRejected, AppendNotSerialisable, AppendWriteFails,
          KillDuringAppend, ChainNext, AppendCalled
  <2>2. (acked' = acked \/ acked' = acked \cup {calls + 1}) /\ starts' = starts
    BY <1>3 DEF AppendReturns, AppendRejected, AppendNotSerialisable, AppendWriteFails, KillDuringAppend
  <2>3. rejected' = rejected \/ rejected' = rejected \cup {calls + 1}
    BY <1>3 DEF AppendReturns, AppendRejected, AppendNotSerialisable, AppendWriteFails, KillDuringAppend
  <2>4. open' = open \/ open' = FALSE
    BY <1>3 DEF AppendReturns, AppendRejected, AppendNotSerialisable, AppendWriteFails, KillDuringAppend
  <2>5. calls' \in 0 .. MaxAppends /\ calls + 1 \in 1 .. calls' /\ \A x \in 0 .. calls : x \in 0 .. calls'
    BY <1>1, <2>1
  <2>6. open' \in BOOLEAN
    BY <1>1, <2>4
  <2>7. acked' \subseteq 1 .. calls' /\ rejected' \subseteq 1 .. calls'
    <3>1. 1 .. calls \subseteq 1 .. calls'
      BY <1>1, <2>1
    <3>2. \A X : X \subseteq 1 .. calls => X \cup {calls + 1} \subseteq 1 .. calls' /\ X \subseteq 1 .. calls'
      BY <2>5, <3>1
    <3> QED BY <1>1, <2>2, <2>3, <3>2
  <2>8. starts' \subseteq 0 .. calls'
    BY <1>1, <2>1, <2>2, <2>5
  <2> QED BY <1>1, <2>1, <2>5, <2>6, <2>7, <2>8 DEF Scalars
<1> QED BY <1>2, <1>3 DEF Next

\* The line of an append that returned is in the file.
LEMMA LineWritten == ASSUME IInv, AppendReturns PROVE Kept(calls + 1, file')
<1>1. PICK S : file \in Seq(S) /\ buffer \in Seq(S) /\ Line(NextRecord) \in Seq(S)
  BY Adds
<1> DEFINE new == Line(NextRecord)
           full == Stream \o new
           h == Len(Stream) + 1
<1>2. new \in Seq(S) /\ WriteOut(buffer \o new, Len(buffer \o new), Len(buffer \o new))
  BY <1>1 DEF AppendReturns, Pending
<1>3. Len(buffer \o new) \in 0 .. Len(buffer \o new)
  BY <1>1
<1>4. Begins(file', Stream') /\ Begins(Stream', full) /\ Len(file') = Len(full)
  BY <1>1, <1>2, <1>3, Written
<1>5. Stream \in Seq(S) /\ NextRecord.body = calls + 1
  BY <1>1 DEF Stream, NextRecord, append_record
<1>6. Len(full) = Len(Stream) + 3 /\ \A i \in 1 .. 3 : full[Len(Stream) + i] = new[i]
  BY <1>1, <1>5, LineFits
<1>7. Len(Stream) \in Nat
  BY StreamOf
<1>8. /\ new[1].rec.body = calls + 1
      /\ new[1].part = "head" /\ new[2].part = "rest" /\ new[3].part = "newline"
  BY <1>5 DEF Line, Piece
<1> HIDE DEF full, new
<1>9. full[h] = new[1] /\ full[h+1] = new[2] /\ full[h+2] = new[3]
  <2>1. full[Len(Stream) + 1] = new[1] /\ full[Len(Stream) + 2] = new[2] /\ full[Len(Stream) + 3] = new[3]
    BY <1>6
  <2> QED BY <1>7, <2>1
<1>10. \A i \in DOMAIN file' : file'[i] = full[i]
  BY <1>4 DEF Begins
<1>11. h \in DOMAIN file' /\ h + 1 \in DOMAIN file' /\ h + 2 \in DOMAIN file'
  BY <1>4, <1>6, <1>7 DEF Begins
<1> HIDE DEF h
<1> QED BY <1>8, <1>9, <1>10, <1>11 DEF Kept

LEMMA InitInv == Init => IInv
<1> SUFFICES ASSUME Init PROVE IInv
  OBVIOUS
<1>1. /\ file = <<>> /\ buffer = <<>> /\ open = FALSE /\ calls = 0
      /\ acked = {} /\ rejected = {} /\ torn = {} /\ starts = {}
  BY DEF Init
<1>2. Stream = <<>> /\ <<>> \in Seq({}) /\ DOMAIN <<>> = {} /\ Len(<<>>) = 0
  BY <1>1 DEF Stream
<1>3. SomePieces
  BY <1>1, <1>2 DEF SomePieces
<1>4. Ordered(Stream) /\ Marked(Stream, torn) /\ EndMarked(Stream, torn)
  BY <1>2 DEF Ordered, Marked, EndMarked
<1>5. QueueInv
  BY <1>1, <1>2, <1>3, <1>4 DEF QueueInv
<1>6. Scalars
  <2>1. open \in BOOLEAN
    BY <1>1
  <2>2. /\ calls \in 0 .. MaxAppends
        /\ acked \subseteq 1 .. calls /\ rejected \subseteq 1 .. calls /\ starts \subseteq 0 .. calls
    BY <1>1, BoundsAssumption
  <2> QED BY <2>1, <2>2 DEF Scalars
<1> QED BY <1>1, <1>5, <1>6 DEF QueueInv, Scalars, IInv, TypeOK

\* What a step does to the queue: nothing, or WriteOut of what it puts behind it.
Quiet == UNCHANGED <<file, buffer, torn>>
Wrote(new) ==
    /\ Puts(new)
    /\ \E m \in 0 .. Len(buffer \o new) : \E n \in 0 .. m :
           WriteOut(buffer \o new, n, m) /\ (~open' => n = m)

LEMMA Steps ==
    ASSUME IInv, Next
    PROVE  \/ Quiet /\ (Open \/ AppendRejected \/ AppendNotSerialisable)
           \/ Wrote(<<>>) /\ open /\ UNCHANGED <<last, calls, acked, rejected, starts>>
           \/ /\ Wrote(Line(NextRecord)) /\ ChainNext /\ UNCHANGED <<rejected, starts>>
              /\ acked' = acked \/ AppendReturns
<1>1. PICK S : /\ buffer \in Seq(S) /\ Line(NextRecord) \in Seq(S) /\ buffer \o <<>> = buffer
  BY Adds
<1> DEFINE b == Len(buffer)
           p == Len(Pending)
<1>2. b \in Nat /\ p \in Nat /\ b <= p
  <2>1. Follow(buffer, Line(NextRecord), Pending)
    BY <1>1, Joined DEF Pending
  <2> QED BY <2>1 DEF Follow
<1>3. CASE Open \/ AppendRejected \/ AppendNotSerialisable
  BY <1>3 DEF Open, AppendRejected, AppendNotSerialisable, Quiet
<1>4. CASE Close
  <2>1. /\ open /\ UNCHANGED <<last, calls, acked, rejected, starts>>
        /\ WriteOut(buffer \o <<>>, b, b)
    BY <1>1, <1>4 DEF Close
  <2>2. b \in 0 .. Len(buffer \o <<>>) /\ b \in 0 .. b
    BY <1>1, <1>2
  <2> HIDE DEF b
  <2> QED BY <2>1, <2>2 DEF Wrote, Puts
<1>5. CASE CloseFails \/ Kill
  <2>1. open /\ UNCHANGED <<last, calls, acked, rejected, starts>>
    BY <1>5 DEF CloseFails, Kill
  <2>2. PICK n \in 0 .. b : WriteOut(buffer \o <<>>, n, n)
    BY <1>1, <1>5 DEF CloseFails, Kill
  <2>3. n \in 0 .. Len(buffer \o <<>>) /\ n \in 0 .. n
    BY <1>1, <1>2
  <2> HIDE DEF b
  <2> QED BY <2>1, <2>2, <2>3 DEF Wrote, Puts
<1>6. CASE AppendReturns
  <2>1. ChainNext /\ UNCHANGED <<rejected, starts>> /\ WriteOut(Pending, p, p)
    BY <1>6 DEF AppendReturns
  <2>2. p \in 0 .. p
    BY <1>2
  <2>3. Wrote(Line(NextRecord))
    BY <2>1, <2>2 DEF Wrote, Puts, Pending
  <2> QED BY <1>6, <2>1, <2>3
<1>7. CASE AppendWriteFails
  <2>1. ChainNext /\ open' = open /\ UNCHANGED <<acked, rejected, starts>>
    BY <1>7 DEF AppendWriteFails
  <2>2. PICK m \in b .. p : \E n \in 0 .. m : WriteOut(Pending, n, m)
    BY <1>7 DEF AppendWriteFails
  <2>3. m \in 0 .. p /\ open' = TRUE
    <3>1. open = TRUE
      BY <2>1 DEF ChainNext, AppendCalled, IInv, TypeOK
    <3> QED BY <1>2, <2>1, <3>1
  <2>4. Wrote(Line(NextRecord))
    <3> HIDE DEF p
    <3>1. \E mm \in 0 .. p : \E n \in 0 .. mm : WriteOut(Pending, n, mm) /\ (~open' => n = mm)
      BY <2>2, <2>3
    <3> QED BY <2>1, <3>1 DEF Wrote, Puts, Pending, p
  <2> QED BY <2>1, <2>4
<1>8. CASE KillDuringAppend
  <2>1. ChainNext /\ UNCHANGED <<acked, rejected, starts>>
    BY <1>8 DEF KillDuringAppend
  <2>2. PICK n \in 0 .. p : WriteOut(Pending, n, n)
    BY <1>8 DEF KillDuringAppend
  <2>3. n \in 0 .. n
    BY <1>2
  <2>4. Wrote(Line(NextRecord))
    BY <2>1, <2>2, <2>3 DEF Wrote, Puts, Pending
  <2> QED BY <2>1, <2>4
<1> QED BY <1>3, <1>4, <1>5, <1>6, <1>7, <1>8 DEF Next

LEMMA NextInv == IInv /\ [Next]_vars => IInv'
<1> SUFFICES ASSUME IInv, [Next]_vars PROVE IInv'
  OBVIOUS
<1>1. CASE UNCHANGED vars
  <2>1. Stream' = Stream
    BY <1>1 DEF vars, Stream
  <2> QED BY <1>1, <2>1 DEF vars, IInv, TypeOK, SomePieces, Ordered, Marked, EndMarked, Kept
<1>2. CASE Next
  <2>1. Scalars' /\ calls' \in Nat /\ calls <= calls'
    BY <1>2, ScalarsKept DEF IInv
  <2>2. CASE Quiet /\ (Open \/ AppendRejected \/ AppendNotSerialisable)
    <3>1. QueueInv' /\ \A a \in acked : Kept(a, file')
      BY <2>1, <2>2, QuietStep DEF Quiet
    <3>2. acked' = acked /\ (~open' => buffer' = <<>>)
      BY <2>2 DEF Open, AppendRejected, AppendNotSerialisable, ChainNext, AppendCalled, IInv, TypeOK
    <3> QED BY <2>1, <3>1, <3>2 DEF QueueInv, Scalars, IInv, TypeOK
  <2>3. ASSUME NEW new, Wrote(new), new = <<>> \/ new = Line(NextRecord), acked' = acked \/ AppendReturns
        PROVE  IInv'
    <3>0. PICK m \in 0 .. Len(buffer \o new) : \E n \in 0 .. m :
            WriteOut(buffer \o new, n, m) /\ (~open' => n = m)
      BY <2>3 DEF Wrote
    <3>1. PICK n \in 0 .. m : WriteOut(buffer \o new, n, m) /\ (~open' => n = m)
      BY <3>0
    <3>2. /\ QueueInv' /\ \A a \in acked : Kept(a, file')
          /\ n = m => buffer' = <<>>
      BY <2>3, <3>1, WriteStep DEF Wrote
    <3>3. \A a \in acked' : Kept(a, file')
      <4>1. CASE acked' = acked
        BY <3>2, <4>1
      <4>2. CASE AppendReturns
        <5>1. acked' = acked \cup {calls + 1}
          BY <4>2 DEF AppendReturns
        <5> QED BY <3>2, <4>2, <5>1, LineWritten
      <4> QED BY <2>3, <4>1, <4>2
    <3> QED BY <2>1, <3>1, <3>2, <3>3 DEF QueueInv, Scalars, IInv, TypeOK
  <2> QED BY <1>2, <2>2, <2>3, Steps
<1> QED BY <1>1, <1>2

LEMMA Always == Spec => []IInv
<1> QED BY InitInv, NextInv, PTL DEF Spec

-----------------------------------------------------------------------------
(* What is read back.                                                      *)

\* The selected positions are counted in their order, each of them once.
LEMMA Ranked ==
    ASSUME NEW P \in SUBSET Nat, IsFiniteSet(P)
    PROVE  /\ Cardinality(P) \in Nat
           /\ \A k \in 1 .. Cardinality(P) : Nth(P, k) \in P
           /\ \A i \in P : \E k \in 1 .. Cardinality(P) : Nth(P, k) = i
           /\ \A k, l \in 1 .. Cardinality(P) : k < l => Nth(P, k) < Nth(P, l)
<1> DEFINE n == Cardinality(P)
           UpTo(i) == {j \in P : j <= i}
           Rank == [i \in P |-> Cardinality(UpTo(i))]
<1>1. n \in Nat
  BY FS_CardinalityType
<1>2. ASSUME NEW i \in P  PROVE IsFiniteSet(UpTo(i)) /\ Rank[i] \in 1 .. n
  <2>1. UpTo(i) \in SUBSET P /\ i \in UpTo(i)
    OBVIOUS
  <2>2. IsFiniteSet(UpTo(i)) /\ Cardinality(UpTo(i)) <= n
    BY <2>1, FS_Subset
  <2>3. Cardinality(UpTo(i)) \in Nat /\ Cardinality(UpTo(i)) # 0
    BY <2>1, <2>2, FS_CardinalityType, FS_EmptySet
  <2> QED BY <1>1, <2>2, <2>3
<1>3. ASSUME NEW i \in P, NEW j \in P, i < j  PROVE Rank[i] < Rank[j]
  <2>0. (\A x \in P : x <= i => x <= j) /\ j <= j /\ ~(j <= i)
    BY <1>3
  <2>1. UpTo(i) \in SUBSET UpTo(j) /\ j \in UpTo(j) /\ j \notin UpTo(i)
    BY <2>0
  <2>2. Cardinality(UpTo(i)) <= Cardinality(UpTo(j)) /\ Cardinality(UpTo(i)) # Cardinality(UpTo(j))
    BY <1>2, <2>1, FS_Subset
  <2>3. Cardinality(UpTo(i)) \in Nat /\ Cardinality(UpTo(j)) \in Nat
    BY <1>2, FS_CardinalityType
  <2> QED BY <2>2, <2>3
<1>4. \A i, j \in P : i # j => Rank[i] # Rank[j]
  <2> SUFFICES ASSUME NEW i \in P, NEW j \in P, i # j  PROVE Rank[i] # Rank[j]
    OBVIOUS
  <2>1. i < j \/ j < i
    OBVIOUS
  <2>2. Rank[i] \in Nat /\ Rank[j] \in Nat
    BY <1>2
  <2> HIDE DEF Rank
  <2> QED BY <1>3, <2>1, <2>2
<1>5. \A k \in 1 .. n : \E i \in P : Rank[i] = k
  <2>1. Rank \in Injection(P, 1 .. n)
    BY <1>2, <1>4 DEF Injection, IsInjective
  <2>2. IsFiniteSet(1 .. n) /\ Cardinality(1 .. n) = n
    BY <1>1, FS_Interval
  <2>3. Rank \in Surjection(P, 1 .. n)
    BY <2>1, <2>2, FS_Injection
  <2> QED BY <2>3 DEF Surjection
<1>6. ASSUME NEW k \in 1 .. n  PROVE Nth(P, k) \in P /\ Rank[Nth(P, k)] = k
  BY <1>5 DEF Nth
<1>7. ASSUME NEW i \in P  PROVE Nth(P, Rank[i]) = i
  <2>1. Rank[Nth(P, Rank[i])] = Rank[i] /\ Nth(P, Rank[i]) \in P
    BY <1>2, <1>6
  <2> HIDE DEF Rank
  <2> QED BY <1>4, <2>1
<1>8. ASSUME NEW k \in 1 .. n, NEW l \in 1 .. n, k < l  PROVE Nth(P, k) < Nth(P, l)
  <2> DEFINE x == Nth(P, k)
             y == Nth(P, l)
  <2>1. x \in P /\ y \in P /\ Rank[x] = k /\ Rank[y] = l
    BY <1>6
  <2> HIDE DEF x, y
  <2>2. x < y \/ x = y \/ y < x
    BY <2>1
  <2>3. ~(l < k) /\ k # l
    BY <1>8
  <2> HIDE DEF Rank
  <2>4. x < y
    BY <1>3, <2>1, <2>2, <2>3
  <2> QED BY <2>4 DEF x, y
<1> HIDE DEF Rank
<1> QED BY <1>1, <1>2, <1>6, <1>7, <1>8


Heads == {i \in DOMAIN file : Whole(i)}

\* The file as it is, behind which pieces may wait in the buffer.
LEMMA FileInOrder ==
    ASSUME IInv
    PROVE  /\ Ordered(file) /\ Marked(file, torn)
           /\ Len(file) \in Nat /\ DOMAIN file = 1 .. Len(file)
           /\ \A i \in DOMAIN file : file[i].rec.body \in 1 .. calls
           /\ calls \in Nat
<1>1. Begins(file, Stream) /\ calls \in Nat
  BY StreamOf
<1>2. Ordered(Stream) /\ Marked(Stream, torn) /\ \A i \in DOMAIN file : file[i].rec.body \in 1 .. calls
  BY DEF IInv, TypeOK
<1>3. Ordered(file) /\ Marked(file, torn)
  BY <1>1, <1>2, Cut
<1> QED BY <1>1, <1>2, <1>3 DEF Begins

\* The reader gets the records of the lines that parse, in the order of the lines.
LEMMA ReadBack ==
    ASSUME IInv
    PROVE  /\ Len(Readable) \in Nat /\ DOMAIN Readable = 1 .. Len(Readable)
           /\ \A k \in DOMAIN Readable : \E i \in Heads : Readable[k] = file[i].rec
           /\ \A i \in Heads : \E k \in DOMAIN Readable : Readable[k] = file[i].rec
           /\ ReadSet = {file[i].rec.body : i \in Heads}
           /\ ReadInOrder
<1> DEFINE n == Cardinality(Heads)
<1>1. Ordered(file) /\ Len(file) \in Nat /\ DOMAIN file = 1 .. Len(file)
  BY FileInOrder
<1>2. Heads \in SUBSET Nat /\ IsFiniteSet(Heads)
  <2>1. Heads \in SUBSET (1 .. Len(file)) /\ IsFiniteSet(1 .. Len(file))
    BY <1>1, FS_Interval DEF Heads
  <2>2. IsFiniteSet(Heads)
    BY <2>1, FS_Subset
  <2>3. 1 .. Len(file) \subseteq Nat
    BY <1>1
  <2> QED BY <2>1, <2>2, <2>3
<1>3. /\ n \in Nat
      /\ \A k \in 1 .. n : Nth(Heads, k) \in Heads
      /\ \A i \in Heads : \E k \in 1 .. n : Nth(Heads, k) = i
      /\ \A k, l \in 1 .. n : k < l => Nth(Heads, k) < Nth(Heads, l)
  BY <1>2, Ranked
<1>4. DOMAIN Select(file, Heads) = 1 .. n /\ \A k \in 1 .. n : Select(file, Heads)[k] = file[Nth(Heads, k)]
  BY DEF Select
<1>5. Readable = [k \in DOMAIN Select(file, Heads) |-> Select(file, Heads)[k].rec]
  BY DEF Readable, Heads
<1> HIDE DEF n
<1>6. Readable = [k \in 1 .. n |-> file[Nth(Heads, k)].rec]
  BY <1>4, <1>5
<1>7. /\ Len(Readable) = n /\ DOMAIN Readable = 1 .. n
      /\ \A k \in 1 .. n : Readable[k] = file[Nth(Heads, k)].rec
  BY <1>3, <1>6
<1>8. ReadSet = {file[i].rec.body : i \in Heads}
  <2>1. ReadSet = {Readable[k].body : k \in 1 .. n}
    BY <1>7 DEF ReadSet
  <2> QED BY <1>3, <1>7, <2>1
<1>9. ASSUME NEW k \in 1 .. n, NEW l \in 1 .. n, k < l
      PROVE  Readable[k].body < Readable[l].body
  <2> DEFINE i == Nth(Heads, k)
             j == Nth(Heads, l)
  <2>1. i \in Heads /\ j \in Heads /\ i < j /\ Readable[k] = file[i].rec /\ Readable[l] = file[j].rec
    BY <1>3, <1>7, <1>9
  <2> HIDE DEF i, j
  <2>2. i \in DOMAIN file /\ j \in DOMAIN file /\ file[j].part = "head"
    BY <2>1 DEF Heads, Whole
  <2> QED BY <1>1, <2>1, <2>2 DEF Ordered
<1>10. ReadInOrder
  BY <1>7, <1>9 DEF ReadInOrder
<1> QED BY <1>3, <1>7, <1>8, <1>10

\* The record of a line that is not glued to the one before it is read.
LEMMA ReadUnlessGlued ==
    ASSUME IInv, NEW a \in acked
    PROVE  \E i \in DOMAIN file :
               /\ file[i].rec.body = a /\ file[i].part = "head"
               /\ a \notin ReadSet => ~Whole(i) /\ i # 1 /\ file[i-1].part # "newline"
<1>1. PICK i \in DOMAIN file :
        /\ i + 1 \in DOMAIN file /\ i + 2 \in DOMAIN file /\ file[i].rec.body = a
        /\ file[i].part = "head" /\ file[i+1].part = "rest" /\ file[i+2].part = "newline"
  BY DEF IInv, Kept
<1>2. Whole(i) => a \in ReadSet
  <2>1. ReadSet = {file[j].rec.body : j \in Heads}
    BY ReadBack
  <2> QED BY <1>1, <2>1 DEF Heads
<1> QED BY <1>1, <1>2 DEF Whole

-----------------------------------------------------------------------------
(* The file.                                                               *)

\* What is in the file and in the buffer has been given to append, and only an
\* open store has a buffer.
THEOREM JsonlTypes == Spec => []TypeOK
<1>1. IInv => TypeOK
  BY DEF IInv
<1> QED BY <1>1, Always, PTL

\* The file reads in the order of the appends, each record at most once: the
\* pieces come in that order, and those of the buffer after those of the file.
THEOREM JsonlInOrder == Spec => []ReadInOrder
<1>1. IInv => ReadInOrder
  BY ReadBack
<1> QED BY <1>1, Always, PTL

\* However often writes fail, lines are torn and stores reopened, a record whose
\* append returned is lost only to a tear before it, to which the next line that
\* reaches the file is glued, and no other such record lies between the two.
THEOREM JsonlTornWrite == Spec => []TornWriteCostsOne
<1>1. ASSUME IInv, NEW a \in acked \ ReadSet
      PROVE  \E t \in torn : t < a /\ \A b \in acked : ~(t < b /\ b < a)
  <2>1. PICK i \in DOMAIN file : /\ file[i].rec.body = a /\ file[i].part = "head"
                                /\ i # 1 /\ file[i-1].part # "newline"
    BY <1>1, ReadUnlessGlued
  <2>2. /\ Ordered(file) /\ Marked(file, torn) /\ DOMAIN file = 1 .. Len(file) /\ Len(file) \in Nat
        /\ \A j \in DOMAIN file : file[j].rec.body \in 1 .. calls
        /\ calls \in Nat
    BY <1>1, FileInOrder
  <2>3. PICK t \in torn : file[i-1].rec.body <= t /\ t < a
    BY <2>1, <2>2 DEF Marked
  <2>4. i - 1 \in DOMAIN file /\ i \in Nat
    BY <2>1, <2>2
  <2>5. t \in Nat /\ torn \subseteq 1 .. calls
    BY <1>1, <2>2 DEF IInv, TypeOK
  <2>6. ASSUME NEW b \in acked, t < b, b < a PROVE FALSE
    <3>1. PICK p \in DOMAIN file : file[p].rec.body = b
      BY <1>1, ReadUnlessGlued
    <3>2. b \in Nat /\ a \in Nat /\ file[i-1].rec.body \in Nat
      BY <2>1, <2>2, <2>4, <3>1
    <3>3. p # i /\ ~(i < p)
      <4>1. i < p => file[i].rec.body < file[p].rec.body \/ file[i].rec = file[p].rec
        BY <2>2 DEF Ordered
      <4> QED BY <2>1, <2>6, <3>1, <3>2, <4>1
    <3>4. p = i - 1 \/ p < i - 1
      BY <2>2, <2>4, <3>3
    <3>5. file[p].rec.body <= file[i-1].rec.body
      <4>1. p < i - 1 => file[p].rec.body < file[i-1].rec.body \/ file[p].rec = file[i-1].rec
        BY <2>2, <2>4 DEF Ordered
      <4> QED BY <3>1, <3>2, <3>4, <4>1
    <3> QED BY <2>3, <2>5, <2>6, <3>1, <3>2, <3>5
  <2> QED BY <2>3, <2>6
<1>2. IInv => TornWriteCostsOne
  BY <1>1 DEF TornWriteCostsOne
<1> QED BY <1>2, Always, PTL

\* sarc trace verify-chain exits with 0 only for a file that has all records
\* whose append returned: a lost one is on a line that does not parse.
THEOREM JsonlVerifyChain == Spec => []VerifyChainCatchesLoss
<1>1. ASSUME IInv, cmd_trace_verify_chain = 0, NEW a \in acked PROVE a \in ReadSet
  <2>1. \A i \in DOMAIN file : file[i].part = "head" => Whole(i)
    BY <1>1 DEF cmd_trace_verify_chain
  <2> QED BY <1>1, <2>1, ReadUnlessGlued
<1>2. IInv => VerifyChainCatchesLoss
  BY <1>1 DEF VerifyChainCatchesLoss
<1> QED BY <1>2, Always, PTL

\* What refutes the promise that a loss is reported refutes the one that a crash
\* loses no record whose append returned.
LEMMA CrashPromiseImpliesReport == CrashLosesInFlight => SilentLossDetected
BY DEF CrashLosesInFlight, SilentLossDetected

-----------------------------------------------------------------------------
(* The chain.  A hash ends with the number of the record it was made for,  *)
(* so where a record goes on from is seen by the hash it names.            *)

Final(h) == IF h = <<>> THEN 0 ELSE h[Len(h)]

\* A line of the queue that parses once it is in the file: so far no piece of
\* another line is glued to it there.
Holds(i) ==
    /\ Stream[i].part = "head" /\ i + 1 \in DOMAIN Stream /\ Stream[i+1].part = "rest"
    /\ i = 1 \/ Stream[i-1].part = "newline"
    /\ i + 2 \in DOMAIN file => file[i+2].part = "newline"

Held == {Stream[i].rec : i \in {j \in DOMAIN Stream : Holds(j)}}

\* Record n may be chained to the hash h, beside the records in held: h covers no
\* later record than n, every earlier one of held and none that was rejected; and
\* if it does not cover record m before n, m was rejected or a store was opened
\* between the two.
Fits(n, h, held, opened, refused) ==
    /\ Final(h) < n /\ Final(h) \notin refused
    /\ Final(h) = 0 => h = <<>>
    /\ \A m \in Final(h) + 1 .. n - 1 : m \in refused \/ \E a \in opened : m <= a /\ a < n
    /\ \A q \in held : q.body < n =>
          q.body <= Final(h) /\ (q.body = Final(h) => q.chain_hash = h)

Chained ==
    \A r \in Held : /\ r.body \in 1 .. calls /\ r.prev_hash \in Seq(Nat)
                    /\ r.body \notin rejected
                    /\ r = append_record(r.body, r.prev_hash)
                    /\ Fits(r.body, r.prev_hash, Held, starts, rejected)

\* The next record fits the hash the store holds.
Ready == open => last \in Seq(Nat) /\ Fits(calls + 1, last, Held, starts, rejected)

LInv == Chained /\ Ready

\* The records that a reader gets are held, and in a file that no store has open
\* there are no others.
LEMMA ReadIsHeld ==
    ASSUME IInv
    PROVE  /\ \A k \in DOMAIN Readable : Readable[k] \in Held
           /\ ~open => \A q \in Held : \E k \in DOMAIN Readable : Readable[k] = q
<1>1. /\ \A k \in DOMAIN Readable : \E i \in Heads : Readable[k] = file[i].rec
      /\ \A i \in Heads : \E k \in DOMAIN Readable : Readable[k] = file[i].rec
  BY ReadBack
<1>2. Begins(file, Stream)
  BY StreamOf
<1>3. ASSUME NEW i \in Heads PROVE file[i].rec \in Held
  <2>1. i \in DOMAIN file /\ Whole(i)
    BY <1>3 DEF Heads
  <2>2. i = 1 \/ i - 1 \in DOMAIN file
    BY <1>2, <2>1 DEF Begins
  <2>3. i \in DOMAIN Stream /\ Stream[i] = file[i] /\ Holds(i)
    BY <1>2, <2>1, <2>2 DEF Begins, Whole, Holds
  <2> QED BY <2>3 DEF Held
<1>4. ASSUME ~open, NEW q \in Held PROVE \E i \in Heads : q = file[i].rec
  <2>1. Stream = file
    <3>1. buffer = <<>> /\ SomePieces
      BY <1>4 DEF IInv, TypeOK
    <3> QED BY <3>1 DEF SomePieces, Stream
  <2>2. PICK i \in DOMAIN Stream : Holds(i) /\ q = Stream[i].rec
    BY <1>4 DEF Held
  <2>3. i \in DOMAIN file /\ q = file[i].rec /\ Whole(i)
    BY <2>1, <2>2 DEF Holds, Whole
  <2> QED BY <2>3 DEF Heads
<1> QED BY <1>1, <1>3, <1>4

\* A step holds no records but those that were there and the one it appends.
LEMMA HeldKept ==
    ASSUME IInv, NEW new, Wrote(new), new = <<>> \/ new = Line(NextRecord)
    PROVE  \A q \in Held' : q \in Held \/ (new # <<>> /\ q = NextRecord)
<1>1. PICK S : /\ file \in Seq(S) /\ buffer \in Seq(S) /\ <<>> \in Seq(S)
              /\ Line(NextRecord) \in Seq(S) /\ buffer \o <<>> = buffer
  BY Adds
<1>2. PICK m \in 0 .. Len(buffer \o new) : \E n \in 0 .. m : WriteOut(buffer \o new, n, m)
  BY DEF Wrote
<1>3. PICK n \in 0 .. m : WriteOut(buffer \o new, n, m)
  BY <1>2
<1> DEFINE full == Stream \o new
           N == Len(Stream)
<1>4. Begins(file, file') /\ Begins(Stream', full) /\ Begins(file, Stream)
  <2>1. new \in Seq(S)
    BY <1>1
  <2> QED BY <1>1, <1>3, <2>1, Written, StreamOf
<1>5. N \in Nat /\ DOMAIN Stream = 1 .. N
  BY StreamOf
<1>6. Follow(Stream, new, full)
  <2>1. Stream \in Seq(S)
    BY <1>1 DEF Stream
  <2>2. new \in Seq(S)
    BY <1>1
  <2> QED BY <2>1, <2>2, Joined
<1> HIDE DEF full
<1>7. ASSUME NEW i \in DOMAIN Stream', Holds(i)'
      PROVE  Stream'[i].rec \in Held \/ (new # <<>> /\ Stream'[i].rec = NextRecord)
  <2>1. /\ i \in DOMAIN full /\ Stream'[i] = full[i] /\ full[i].part = "head"
        /\ i + 1 \in DOMAIN full /\ full[i+1].part = "rest"
        /\ i = 1 \/ full[i-1].part = "newline"
    <3>1. \A j \in DOMAIN Stream' : j \in DOMAIN full /\ Stream'[j] = full[j]
      BY <1>4 DEF Begins
    <3>2. /\ Stream'[i].part = "head" /\ i + 1 \in DOMAIN Stream' /\ Stream'[i+1].part = "rest"
          /\ i = 1 \/ Stream'[i-1].part = "newline"
      BY <1>7 DEF Holds
    <3>3. i = 1 \/ i - 1 \in DOMAIN Stream'
      BY <1>4 DEF Begins
    <3> QED BY <3>1, <3>2, <3>3
  <2>2. i + 2 \in DOMAIN file => file[i+2].part = "newline"
    <3>1. i + 2 \in DOMAIN file' => file'[i+2].part = "newline"
      BY <1>7 DEF Holds
    <3> QED BY <1>4, <3>1 DEF Begins
  <2>3. i \in Nat /\ i # 0
    BY <1>4 DEF Begins
  <2>4. CASE i + 1 \in DOMAIN Stream
    <3>1. i \in 1 .. N /\ i + 1 \in 1 .. N /\ (i # 1 => i - 1 \in 1 .. N)
      BY <1>5, <2>3, <2>4
    <3>2. Stream[i] = full[i] /\ Stream[i+1] = full[i+1] /\ (i # 1 => Stream[i-1] = full[i-1])
      BY <1>6, <3>1 DEF Follow
    <3>3. i \in DOMAIN Stream /\ Holds(i)
      BY <1>5, <2>1, <2>2, <2>4, <3>1, <3>2 DEF Holds
    <3> QED BY <2>1, <3>2, <3>3 DEF Held
  <2>5. CASE i + 1 \notin DOMAIN Stream
    <3>1. PICK j \in 1 .. Len(new) : i + 1 = N + j /\ full[i+1] = new[j]
      BY <1>6, <2>1, <2>5, InEither
    <3>2. new = Line(NextRecord)
      BY <1>6, <3>1 DEF Follow
    <3>3. Len(new) = 3 /\ new[1].part = "head" /\ new[3].part = "newline"
      BY <3>2, LinePieces
    <3>4. j = 2
      BY <2>1, <3>1, <3>3
    <3>5. i = N + 1 /\ full[N + 1] = new[1] /\ new[1].rec = NextRecord
      <4>1. i = N + 1 /\ 1 \in 1 .. Len(new)
        BY <1>5, <2>3, <3>1, <3>3, <3>4
      <4>2. full[N + 1] = new[1]
        BY <1>6, <4>1 DEF Follow
      <4> QED BY <3>2, <4>1, <4>2 DEF Line, Piece
    <3>6. new # <<>>
      BY <3>2 DEF Line
    <3> QED BY <2>1, <3>5, <3>6
  <2> QED BY <2>4, <2>5
<1> QED BY <1>7 DEF Held

\* _recover_last_hash finds the hash of the last record.
LEMMA RecoversNewest ==
    ASSUME NEW recs, DOMAIN recs = 1 .. Len(recs), Len(recs) \in Nat,
           recs = <<>> <=> Len(recs) = 0,
           \A k \in DOMAIN recs : recs[k] = append_record(recs[k].body, recs[k].prev_hash)
    PROVE  LastChainHash(recs) = IF recs = <<>> THEN <<>> ELSE recs[Len(recs)].chain_hash
<1> DEFINE chained == {i \in DOMAIN recs : recs[i].chained}
<1>1. DOMAIN recs = 1 .. Len(recs) /\ Len(recs) \in Nat /\ \A i \in DOMAIN recs : recs[i].chained = TRUE
  BY DEF append_record
<1>2. chained = DOMAIN recs
  BY <1>1
<1>3. LastChainHash(recs) = IF chained = {} THEN <<>>
                            ELSE recs[CHOOSE i \in chained : \A j \in chained : j <= i].chain_hash
  BY Zenon DEF LastChainHash, GENESIS_PREV_HASH
<1>4. CASE recs = <<>>
  BY <1>1, <1>2, <1>3, <1>4
<1>5. CASE recs # <<>>
  <2>1. Len(recs) \in DOMAIN recs /\ \A j \in DOMAIN recs : j <= Len(recs)
    BY <1>1, <1>5
  <2>2. \A i \in DOMAIN recs : (\A j \in DOMAIN recs : j <= i) => i = Len(recs)
    BY <1>1, <2>1
  <2>3. Len(recs) = CHOOSE i \in DOMAIN recs : \A j \in DOMAIN recs : j <= i
    BY <2>1, <2>2
  <2> HIDE DEF chained
  <2>4. chained # {}
    BY <1>2, <2>1
  <2>5. LastChainHash(recs) = recs[CHOOSE i \in DOMAIN recs : \A j \in DOMAIN recs : j <= i].chain_hash
    BY <1>2, <1>3, <2>4, Zenon
  <2>6. LastChainHash(recs) = recs[Len(recs)].chain_hash
    BY <2>3, <2>5, Zenon
  <2> QED BY <1>5, <2>6
<1> QED BY <1>4, <1>5

\* verify_chain accepts records that are each chained to the one before.
LEMMA VerifiesIffLinked ==
    ASSUME NEW recs, DOMAIN recs = 1 .. Len(recs), Len(recs) \in Nat,
           \A k \in DOMAIN recs : recs[k] = append_record(recs[k].body, recs[k].prev_hash)
    PROVE  Verifies(recs) <=>
               \A k \in DOMAIN recs :
                   recs[k].prev_hash = IF k = 1 THEN <<>> ELSE recs[k-1].chain_hash
<1>1. Verifies(recs) <=> \A k \in DOMAIN recs : Breaks(recs, <<>>, k) = {}
  <2> DEFINE B(k) == Breaks(recs, <<>>, k)
  <2>1. Verifies(recs) <=> UNION {{i} \X B(i) : i \in DOMAIN recs} = {}
    BY Zenon DEF Verifies, verify_chain, GENESIS_PREV_HASH
  <2> HIDE DEF B
  <2>2. ASSUME UNION {{i} \X B(i) : i \in DOMAIN recs} = {}, NEW k \in DOMAIN recs, NEW b \in B(k)
        PROVE  FALSE
    <3>1. <<k, b>> \in {k} \X B(k)
      OBVIOUS
    <3> QED BY <2>2, <3>1, Zenon
  <2>3. ASSUME \A k \in DOMAIN recs : B(k) = {}, NEW x \in UNION {{i} \X B(i) : i \in DOMAIN recs}
        PROVE  FALSE
    <3>1. PICK i \in DOMAIN recs : x \in {i} \X B(i)
      BY Zenon
    <3> QED BY <2>3, <3>1
  <2>4. UNION {{i} \X B(i) : i \in DOMAIN recs} = {} <=> \A k \in DOMAIN recs : B(k) = {}
    BY <2>2, <2>3, Zenon
  <2> QED BY <2>1, <2>4 DEF B
<1>2. \A k \in DOMAIN recs : recs[k].chained /\ (k # 1 => k - 1 \in DOMAIN recs)
  BY DEF append_record
<1>3. ASSUME NEW k \in DOMAIN recs
      PROVE  Breaks(recs, <<>>, k) = {} <=> recs[k].prev_hash = PrevAt(recs, <<>>, k)
  <2> DEFINE r == append_record(recs[k].body, recs[k].prev_hash)
  <2>1. /\ r.chained /\ r.record_hash = canonical_event_hash(recs[k].body)
        /\ r.chain_hash = chain_link(recs[k].prev_hash, canonical_event_hash(recs[k].body))
    BY DEF append_record
  <2>2. recs[k] = r
    OBVIOUS
  <2> HIDE DEF r
  <2>3. /\ recs[k].chained /\ recs[k].record_hash = canonical_event_hash(recs[k].body)
        /\ recs[k].chain_hash = chain_link(recs[k].prev_hash, recs[k].record_hash)
    BY <2>1, <2>2
  <2> QED BY <2>3 DEF Breaks
<1>4. ASSUME NEW k \in DOMAIN recs
      PROVE  PrevAt(recs, <<>>, k) = IF k = 1 THEN <<>> ELSE recs[k-1].chain_hash
  <2>1. k # 1 => recs[k-1].chained
    BY <1>2
  <2> QED BY <2>1 DEF PrevAt
<1> QED BY <1>1, <1>3, <1>4

\* A hash still fits when records are lost, stores opened and appends rejected.
LEMMA FitsStays ==
    ASSUME NEW n, NEW h, NEW held, NEW opened, NEW refused, Fits(n, h, held, opened, refused),
           NEW held2, NEW opened2, NEW refused2, opened \subseteq opened2, refused \subseteq refused2,
           \A x \in refused2 : x \in refused \/ ~(x < n),
           \A q \in held2 : q \in held \/ ~(q.body < n)
    PROVE  Fits(n, h, held2, opened2, refused2)
BY DEF Fits

LEMMA LinkOf ==
    ASSUME NEW n \in Nat, NEW h \in Seq(Nat)
    PROVE  LET r == append_record(n, h)
           IN  /\ r.body = n /\ r.prev_hash = h /\ r.chain_hash \in Seq(Nat)
               /\ Final(r.chain_hash) = n /\ r.chain_hash # <<>>
<1>1. Append(h, n) \in Seq(Nat) /\ Append(h, n) # <<>> /\ Final(Append(h, n)) = n
  BY DEF Final
<1> QED BY <1>1 DEF append_record, canonical_event_hash, chain_link

LEMMA HeldRecord ==
    ASSUME IInv, LInv, NEW r \in Held
    PROVE  /\ r.body \in 1 .. calls /\ calls \in Nat /\ r.body \in Nat /\ r.prev_hash \in Seq(Nat)
           /\ r.body \notin rejected
           /\ r = append_record(r.body, r.prev_hash)
           /\ Fits(r.body, r.prev_hash, Held, starts, rejected)
           /\ r.chain_hash \in Seq(Nat) /\ Final(r.chain_hash) = r.body
<1>1. calls \in Nat
  BY StreamOf
<1>2. /\ r.body \in 1 .. calls /\ r.prev_hash \in Seq(Nat) /\ r.body \notin rejected
      /\ r = append_record(r.body, r.prev_hash)
      /\ Fits(r.body, r.prev_hash, Held, starts, rejected)
  BY DEF LInv, Chained
<1> DEFINE n == r.body
           h == r.prev_hash
<1>3. n \in Nat /\ h \in Seq(Nat) /\ r = append_record(n, h)
  BY <1>1, <1>2
<1> HIDE DEF n, h
<1>4. r.chain_hash \in Seq(Nat) /\ Final(r.chain_hash) = n
  BY <1>3, LinkOf
<1> QED BY <1>1, <1>2, <1>4 DEF n

LEMMA InitLInv == Init => LInv
<1> SUFFICES ASSUME Init PROVE LInv
  OBVIOUS
<1>1. Stream = <<>> /\ open = FALSE
  BY DEF Init, Stream
<1>2. Held = {}
  BY <1>1 DEF Held
<1> QED BY <1>1, <1>2 DEF LInv, Chained, Ready

\* A step that chains no record.
LEMMA LessHeld ==
    ASSUME IInv, LInv, Held' \subseteq Held, calls' \in Nat, calls <= calls',
           starts \subseteq starts', rejected \subseteq rejected',
           \A x \in rejected' : x \in rejected \/ x = calls + 1, Ready'
    PROVE  LInv'
<1>1. ASSUME NEW r \in Held'
      PROVE  /\ r.body \in 1 .. calls' /\ r.prev_hash \in Seq(Nat) /\ r.body \notin rejected'
             /\ r = append_record(r.body, r.prev_hash)
             /\ Fits(r.body, r.prev_hash, Held', starts', rejected')
  <2>1. r \in Held
    BY <1>1
  <2>2. r.body \in 1 .. calls /\ calls \in Nat /\ r.body \notin rejected
    BY <2>1, HeldRecord
  <2>3. \A x \in rejected' : x \in rejected \/ (~(x < r.body) /\ x # r.body)
    <3>1. ~(calls + 1 < r.body) /\ calls + 1 # r.body
      BY <2>2
    <3> QED BY <3>1
  <2>4. Fits(r.body, r.prev_hash, Held', starts', rejected')
    BY <2>1, <2>3, HeldRecord, FitsStays
  <2>5. r.body \in 1 .. calls'
    BY <2>2
  <2> QED BY <2>1, <2>2, <2>3, <2>4, <2>5, HeldRecord
<1> QED BY <1>1 DEF LInv, Chained

LEMMA NumbersBelow == IInv => calls \in Nat /\ rejected \subseteq 1 .. calls
BY StreamOf DEF IInv, TypeOK

\* The store that a step leaves open has the hash it had.
LEMMA QuietLInv ==
    ASSUME IInv, LInv, open, UNCHANGED <<last, calls, starts, rejected>>, Held' \subseteq Held
    PROVE  LInv'
<1>1. last \in Seq(Nat) /\ Fits(calls + 1, last, Held, starts, rejected)
  BY DEF LInv, Ready
<1>2. last' \in Seq(Nat) /\ Fits(calls' + 1, last', Held', starts', rejected')
  BY <1>1, FitsStays
<1>3. calls' \in Nat /\ calls <= calls'
  BY NumbersBelow
<1> QED BY <1>2, <1>3, LessHeld DEF Ready

\* A rejected record leaves the hash, and its number is that of a record rejected.
LEMMA RejectedLInv == ASSUME IInv, LInv, AppendRejected, Held' = Held PROVE LInv'
<1>1. /\ open /\ calls' = calls + 1 /\ rejected' = rejected \cup {calls + 1}
      /\ UNCHANGED <<last, starts>>
  BY DEF AppendRejected, AppendCalled
<1>2. calls \in Nat /\ rejected \subseteq 1 .. calls
  BY NumbersBelow
<1> DEFINE f == Final(last)
<1>3. /\ last \in Seq(Nat) /\ f < calls + 1 /\ f \notin rejected /\ (f = 0 => last = <<>>)
      /\ \A m \in f + 1 .. (calls + 1) - 1 : m \in rejected \/ \E a \in starts : m <= a /\ a < calls + 1
      /\ \A q \in Held : q.body < calls + 1 =>
            q.body <= f /\ (q.body = f => q.chain_hash = last)
  <2>1. last \in Seq(Nat) /\ Fits(calls + 1, last, Held, starts, rejected)
    BY <1>1 DEF LInv, Ready
  <2> QED BY <2>1, Zenon DEF Fits
<1>4. f \in Nat
  BY <1>3 DEF Final
<1>5. \A q \in Held : q.body \in 1 .. calls
  BY HeldRecord
<1> HIDE DEF f
<1>6. ASSUME NEW m \in f + 1 .. (calls' + 1) - 1
      PROVE  m \in rejected' \/ \E a \in starts' : m <= a /\ a < calls' + 1
  <2>1. CASE m = calls + 1
    BY <1>1, <2>1
  <2>2. CASE m # calls + 1
    <3>1. m \in f + 1 .. (calls + 1) - 1
      BY <1>1, <1>2, <1>4, <2>2
    <3>2. m \in rejected \/ \E a \in starts : m <= a /\ a < calls + 1
      BY <1>3, <3>1
    <3>3. starts \subseteq 0 .. calls
      BY DEF IInv, TypeOK
    <3>4. \A a \in starts : a < calls + 1 => a < calls' + 1
      BY <1>1, <1>2, <3>3
    <3> QED BY <1>1, <3>2, <3>4
  <2> QED BY <2>1, <2>2
<1>7. f < calls' + 1 /\ f \notin rejected'
  BY <1>1, <1>2, <1>3, <1>4
<1>8. \A q \in Held' : q.body < calls' + 1 => q.body <= f /\ (q.body = f => q.chain_hash = last')
  <2> TAKE q \in Held'
  <2>1. q \in Held /\ q.body \in 1 .. calls /\ q.body < calls + 1
    BY <1>2, <1>5
  <2> QED BY <1>1, <1>3, <2>1
<1>9. Ready'
  <2>1. Fits(calls' + 1, last', Held', starts', rejected')
    <3>1. Final(last') = f
      BY <1>1 DEF f
    <3> QED BY <1>1, <1>3, <1>6, <1>7, <1>8, <3>1 DEF Fits
  <2> QED BY <1>1, <1>3, <2>1 DEF Ready
<1>10. calls' \in Nat /\ calls <= calls' /\ \A x \in rejected' : x \in rejected \/ x = calls + 1
  BY <1>1, <1>2
<1> QED BY <1>1, <1>9, <1>10, LessHeld

\* A record is chained to the hash the store holds, and the store holds its hash.
LEMMA ChainLInv ==
    ASSUME IInv, LInv, ChainNext, UNCHANGED <<starts, rejected>>, Held' \subseteq Held \cup {NextRecord}
    PROVE  LInv'
<1>1. /\ open /\ calls \in Nat /\ calls' = calls + 1 /\ rejected \subseteq 1 .. calls
      /\ last' = NextRecord.chain_hash /\ NextRecord = append_record(calls + 1, last)
  BY NumbersBelow DEF ChainNext, AppendCalled, NextRecord
<1>2. last \in Seq(Nat) /\ Fits(calls + 1, last, Held, starts, rejected)
  BY <1>1 DEF LInv, Ready
<1> DEFINE new == NextRecord
<1>3. Held' \subseteq Held \cup {new}
  OBVIOUS
<1>4. /\ new = append_record(calls + 1, last) /\ new.body = calls + 1 /\ new.prev_hash = last
      /\ last' = new.chain_hash /\ last' \in Seq(Nat) /\ Final(last') = calls + 1 /\ last' # <<>>
  <2>1. calls + 1 \in Nat
    BY <1>1
  <2> QED BY <1>1, <1>2, <2>1, LinkOf
<1> HIDE DEF new
<1>5. ASSUME NEW r \in Held'
      PROVE  /\ r.body \in 1 .. calls' /\ r.prev_hash \in Seq(Nat) /\ r.body \notin rejected'
             /\ r = append_record(r.body, r.prev_hash)
             /\ Fits(r.body, r.prev_hash, Held', starts', rejected')
  <2>1. CASE r \in Held
    <3>1. r.body \in 1 .. calls /\ r.body \notin rejected
      BY <2>1, HeldRecord
    <3>2. \A q \in Held' : q \in Held \/ ~(q.body < r.body)
      BY <1>1, <1>3, <1>4, <3>1
    <3>3. Fits(r.body, r.prev_hash, Held', starts', rejected')
      BY <2>1, <3>2, HeldRecord, FitsStays
    <3>4. r.body \in 1 .. calls'
      BY <1>1, <3>1
    <3> QED BY <2>1, <3>1, <3>3, <3>4, HeldRecord
  <2>2. CASE r = new
    <3>1. \A q \in Held' : q \in Held \/ ~(q.body < calls + 1)
      BY <1>1, <1>3, <1>4
    <3>2. Fits(calls + 1, last, Held', starts', rejected')
      BY <1>2, <3>1, FitsStays
    <3>3. r.body \in 1 .. calls' /\ r.body \notin rejected'
      BY <1>1, <1>4, <2>2
    <3> QED BY <1>2, <1>4, <2>2, <3>2, <3>3
  <2> QED BY <1>3, <2>1, <2>2
<1>6. Fits(calls' + 1, last', Held', starts', rejected')
  <2>1. ASSUME NEW q \in Held'
        PROVE  q.body <= calls + 1 /\ (q.body = calls + 1 => q.chain_hash = last')
    <3>1. CASE q \in Held
      BY <1>1, <3>1, HeldRecord
    <3>2. CASE q = new
      BY <1>1, <1>4, <3>2
    <3> QED BY <1>3, <3>1, <3>2
  <2>2. calls + 1 \notin rejected' /\ \A m \in calls + 1 + 1 .. (calls' + 1) - 1 : FALSE
    BY <1>1
  <2> QED BY <1>1, <1>4, <2>1, <2>2 DEF Fits
<1> QED BY <1>4, <1>5, <1>6 DEF LInv, Chained, Ready

\* The hash that a new store finds is that of the newest record there is.
LEMMA OpenLInv == ASSUME IInv, LInv, Open PROVE LInv'
<1>1. /\ ~open /\ last' = LastChainHash(Readable) /\ starts' = starts \cup {calls}
      /\ UNCHANGED <<file, buffer, calls, rejected>> /\ calls \in Nat /\ rejected \subseteq 1 .. calls
  BY NumbersBelow DEF Open
<1>2. Held' = Held
  <2>1. Stream' = Stream /\ file' = file
    BY <1>1 DEF Stream
  <2> QED BY <2>1 DEF Held, Holds
<1>3. /\ Len(Readable) \in Nat /\ DOMAIN Readable = 1 .. Len(Readable)
      /\ \A k \in DOMAIN Readable : Readable[k] \in Held
      /\ \A q \in Held : \E k \in DOMAIN Readable : Readable[k] = q
      /\ \A k, l \in DOMAIN Readable : k < l => Readable[k].body < Readable[l].body
  BY <1>1, ReadBack, ReadIsHeld DEF ReadInOrder
<1> DEFINE m == Len(Readable)
<1>4. last' = IF Readable = <<>> THEN <<>> ELSE Readable[m].chain_hash
  <2>1. Readable = <<>> <=> Len(Readable) = 0
    BY <1>3 DEF Readable
  <2>2. \A k \in DOMAIN Readable : Readable[k] = append_record(Readable[k].body, Readable[k].prev_hash)
    BY <1>3, HeldRecord
  <2> QED BY <1>1, <1>3, <2>1, <2>2, RecoversNewest
<1>5. ASSUME NEW f \in Nat
      PROVE  \A x \in f + 1 .. (calls' + 1) - 1 : \E a \in starts' : x <= a /\ a < calls' + 1
  <2> TAKE x \in f + 1 .. (calls' + 1) - 1
  <2>1. calls \in starts' /\ x <= calls /\ calls < calls' + 1
    BY <1>1
  <2> QED BY <2>1
<1>6. last' \in Seq(Nat) /\ Fits(calls' + 1, last', Held', starts', rejected')
  <2>1. CASE m = 0
    <3>1. last' = <<>> /\ Held' = {}
      <4>1. Held = {}
        BY <1>3, <2>1
      <4>2. Readable = <<>>
        BY <1>3, <2>1 DEF Readable
      <4> QED BY <1>2, <1>4, <4>1, <4>2
    <3>2. Final(<<>>) = 0 /\ <<>> \in Seq(Nat) /\ 0 \notin rejected' /\ 0 < calls' + 1
      BY <1>1 DEF Final
    <3>3. Final(last') = 0
      BY <3>1, <3>2
    <3>4. \A x \in Final(last') + 1 .. (calls' + 1) - 1 : \E a \in starts' : x <= a /\ a < calls' + 1
      BY <1>5, <3>3
    <3> QED BY <3>1, <3>2, <3>3, <3>4 DEF Fits
  <2>2. CASE m # 0
    <3> DEFINE r == Readable[m]
    <3>1. m \in DOMAIN Readable /\ r \in Held /\ last' = r.chain_hash
      BY <1>3, <1>4, <2>2
    <3>2. \A q \in Held : q.body <= r.body /\ (q.body = r.body => q = r)
      <4> TAKE q \in Held
      <4>1. PICK k \in DOMAIN Readable : Readable[k] = q
        BY <1>3
      <4>2. k = m \/ k < m
        BY <1>3, <3>1
      <4>3. q.body \in Nat /\ r.body \in Nat
        BY <3>1, HeldRecord
      <4> QED BY <1>3, <3>1, <4>1, <4>2, <4>3
    <3> HIDE DEF r
    <3>3. /\ r.body \in 1 .. calls /\ r.chain_hash \in Seq(Nat) /\ Final(last') = r.body
          /\ r.body \notin rejected'
      BY <1>1, <3>1, HeldRecord
    <3>4. r.body < calls' + 1 /\ r.body # 0 /\ r.body \in Nat
      BY <1>1, <3>3
    <3>5. \A x \in Final(last') + 1 .. (calls' + 1) - 1 : \E a \in starts' : x <= a /\ a < calls' + 1
      BY <1>5, <3>3, <3>4
    <3>6. /\ Final(last') < calls' + 1 /\ Final(last') \notin rejected'
          /\ Final(last') = 0 => last' = <<>>
      BY <3>3, <3>4
    <3>7. \A q \in Held' : q.body < calls' + 1 =>
             q.body <= Final(last') /\ (q.body = Final(last') => q.chain_hash = last')
      BY <1>2, <3>1, <3>2, <3>3
    <3>8. Fits(calls' + 1, last', Held', starts', rejected')
      BY <3>5, <3>6, <3>7 DEF Fits
    <3> QED BY <3>1, <3>3, <3>8
  <2> QED BY <1>3, <2>1, <2>2
<1>7. /\ Held' \subseteq Held /\ calls' \in Nat /\ calls <= calls' /\ starts \subseteq starts'
      /\ rejected \subseteq rejected' /\ \A x \in rejected' : x \in rejected \/ x = calls + 1
  BY <1>1, <1>2
<1> QED BY <1>6, <1>7, LessHeld DEF Ready

LEMMA NextLInv == IInv /\ LInv /\ [Next]_vars => LInv'
<1> SUFFICES ASSUME IInv, LInv, [Next]_vars PROVE LInv'
  OBVIOUS
<1>1. CASE UNCHANGED vars
  <2>1. Stream' = Stream /\ UNCHANGED <<file, open, last, calls, starts, rejected>>
    BY <1>1 DEF vars, Stream
  <2>2. Held' = Held
    BY <2>1 DEF Held, Holds
  <2> QED BY <2>1, <2>2 DEF LInv, Chained, Ready
<1>2. CASE Next
  <2>1. CASE Quiet /\ (Open \/ AppendRejected \/ AppendNotSerialisable)
    <3>1. Held' = Held
      <4>1. Stream' = Stream /\ file' = file
        BY <2>1 DEF Quiet, Stream
      <4> QED BY <4>1 DEF Held, Holds
    <3>2. AppendNotSerialisable => ChainNext /\ UNCHANGED <<starts, rejected>>
      BY DEF AppendNotSerialisable
    <3> QED BY <2>1, <3>1, <3>2, OpenLInv, RejectedLInv, ChainLInv
  <2>2. CASE Wrote(<<>>) /\ open /\ UNCHANGED <<last, calls, acked, rejected, starts>>
    <3>1. Held' \subseteq Held
      BY <2>2, HeldKept
    <3> QED BY <2>2, <3>1, QuietLInv
  <2>3. CASE Wrote(Line(NextRecord)) /\ ChainNext /\ UNCHANGED <<rejected, starts>>
    <3>1. Held' \subseteq Held \cup {NextRecord}
      BY <2>3, HeldKept
    <3> QED BY <2>3, <3>1, ChainLInv
  <2> QED BY <1>2, <2>1, <2>2, <2>3, Steps
<1> QED BY <1>1, <1>2

LEMMA AlwaysLinked == Spec => [](IInv /\ LInv)
<1>1. Init => IInv /\ LInv
  BY InitInv, InitLInv
<1>2. IInv /\ LInv /\ [Next]_vars => (IInv /\ LInv)'
  BY NextInv, NextLInv
<1> QED BY <1>1, <1>2, PTL DEF Spec

\* What is read names the hash before it if and only if its prev ends with the
\* number before it, and it never ends with an earlier one.
LEMMA ReadLinked ==
    ASSUME IInv, LInv
    PROVE  /\ Verifies(Readable) <=>
                  \A i \in DOMAIN Readable : Final(Readable[i].prev_hash) = Before(i)
           /\ \A i \in DOMAIN Readable :
                  /\ Fits(Readable[i].body, Readable[i].prev_hash, Held, starts, rejected)
                  /\ Before(i) \in Nat /\ Readable[i].body \in 1 .. calls
                  /\ Final(Readable[i].prev_hash) \in Nat
                  /\ Before(i) <= Final(Readable[i].prev_hash)
<1>1. /\ Len(Readable) \in Nat /\ DOMAIN Readable = 1 .. Len(Readable)
      /\ \A k \in DOMAIN Readable : Readable[k] \in Held
      /\ \A k, l \in DOMAIN Readable : k < l => Readable[k].body < Readable[l].body
  BY ReadBack, ReadIsHeld DEF ReadInOrder
<1>2. \A k \in DOMAIN Readable : Readable[k] = append_record(Readable[k].body, Readable[k].prev_hash)
  BY <1>1, HeldRecord
<1>3. Verifies(Readable) <=> \A i \in DOMAIN Readable :
          Readable[i].prev_hash = IF i = 1 THEN <<>> ELSE Readable[i-1].chain_hash
  BY <1>1, <1>2, VerifiesIffLinked
<1>4. \A h \in Seq(Nat) : Final(h) \in Nat
  BY DEF Final
<1>5. ASSUME NEW i \in DOMAIN Readable
      PROVE  /\ Fits(Readable[i].body, Readable[i].prev_hash, Held, starts, rejected)
             /\ Before(i) \in Nat /\ Readable[i].body \in 1 .. calls
             /\ Final(Readable[i].prev_hash) \in Nat
             /\ Before(i) <= Final(Readable[i].prev_hash)
             /\ Final(Readable[i].prev_hash) = Before(i) <=>
                    Readable[i].prev_hash = IF i = 1 THEN <<>> ELSE Readable[i-1].chain_hash
  <2> DEFINE r == Readable[i]
             f == Final(r.prev_hash)
  <2>1. /\ r \in Held /\ r.body \in 1 .. calls /\ r.prev_hash \in Seq(Nat) /\ f \in Nat
        /\ Fits(r.body, r.prev_hash, Held, starts, rejected)
    BY <1>1, <1>4, HeldRecord
  <2>2. CASE i = 1
    <3>1. Before(i) = 0
      BY <2>2 DEF Before
    <3>2. f = 0 <=> r.prev_hash = <<>>
      BY <2>1 DEF Fits, Final
    <3> HIDE DEF r
    <3> QED BY <2>1, <2>2, <3>1, <3>2 DEF r
  <2>3. CASE i # 1
    <3> DEFINE q == Readable[i-1]
    <3>1. i - 1 \in DOMAIN Readable /\ i - 1 < i
      BY <1>1, <2>3
    <3>2. Before(i) = q.body /\ q.body < r.body /\ q \in Held
      BY <1>1, <2>3, <3>1 DEF Before
    <3> HIDE DEF q, r
    <3>3. q.body \in Nat /\ Final(q.chain_hash) = q.body
      BY <3>2, HeldRecord
    <3>4. q.body <= f /\ (q.body = f => q.chain_hash = r.prev_hash)
      BY <2>1, <3>2 DEF Fits
    <3>5. q.chain_hash = r.prev_hash => q.body = f
      BY <3>3
    <3> QED BY <2>1, <2>3, <3>2, <3>3, <3>4, <3>5 DEF q, r
  <2> QED BY <2>2, <2>3
<1> QED BY <1>3, <1>5

\* A record that is missing before one that is read is reported, unless append
\* raised before it chained the missing one or a store was opened in between: the
\* hash that a record names can then only end with the number of the one before.
THEOREM JsonlGap == Spec => []GapIsReported
<1>1. ASSUME IInv, LInv, Verifies(Readable), NEW i \in DOMAIN Readable,
             NEW m \in Before(i) + 1 .. Readable[i].body - 1
      PROVE  m \in rejected \/ \E s \in starts : m <= s /\ s < Readable[i].body
  <2>1. /\ Final(Readable[i].prev_hash) = Before(i)
        /\ Fits(Readable[i].body, Readable[i].prev_hash, Held, starts, rejected)
    BY <1>1, ReadLinked
  <2> QED BY <2>1 DEF Fits
<1>2. IInv /\ LInv => GapIsReported
  BY <1>1 DEF GapIsReported
<1> QED BY <1>2, AlwaysLinked, PTL

\* If verify_chain reports a break, a record that append had chained is missing:
\* the one whose hash the record after the break names.
THEOREM JsonlAlarm == Spec => []AlarmMeansLoss
<1>1. ASSUME IInv, LInv, ~Verifies(Readable)
      PROVE  \E n \in (1 .. calls) \ rejected : n \notin ReadSet
  <2>1. PICK i \in DOMAIN Readable : Final(Readable[i].prev_hash) # Before(i)
    BY <1>1, ReadLinked
  <2> DEFINE f == Final(Readable[i].prev_hash)
             b == Readable[i].body
  <2>2. /\ Before(i) \in Nat /\ f \in Nat /\ Before(i) <= f /\ f # Before(i)
        /\ b \in 1 .. calls /\ f < b /\ f \notin rejected
    BY <1>1, <2>1, ReadLinked DEF Fits
  <2>3. calls \in Nat /\ Len(Readable) \in Nat /\ DOMAIN Readable = 1 .. Len(Readable) /\ ReadInOrder
    BY <1>1, NumbersBelow, ReadBack
  <2>4. ASSUME NEW k \in DOMAIN Readable, Readable[k].body = f PROVE FALSE
    <3>1. CASE k = i
      BY <2>2, <2>3, <2>4, <3>1
    <3>2. CASE i < k
      <4>1. b < f
        BY <2>3, <2>4, <3>2 DEF ReadInOrder
      <4> HIDE DEF f, b
      <4> QED BY <2>2, <2>3, <4>1
    <3>3. CASE k < i
      <4>1. i # 1 /\ i - 1 \in DOMAIN Readable /\ (k = i - 1 \/ k < i - 1)
        BY <2>3, <3>3
      <4>2. Before(i) = Readable[i-1].body
        BY <4>1 DEF Before
      <4>3. f = Before(i) \/ f < Before(i)
        BY <2>3, <2>4, <4>1, <4>2 DEF ReadInOrder
      <4> HIDE DEF f
      <4> QED BY <2>2, <4>3
    <3> QED BY <2>3, <3>1, <3>2, <3>3
  <2>5. f \in 1 .. calls
    <3> HIDE DEF f, b
    <3> QED BY <2>2, <2>3
  <2> QED BY <2>2, <2>4, <2>5 DEF ReadSet
<1>2. IInv /\ LInv => AlarmMeansLoss
  BY <1>1 DEF AlarmMeansLoss
<1> QED BY <1>2, AlwaysLinked, PTL
=============================================================================
