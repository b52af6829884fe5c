--------------------------- MODULE FeeQueue_proofs ---------------------------
(***************************************************************************)
(* Proofs about the way from the chain to the ledger, for any messages,    *)
(* wallets, consumers, chunk sizes and page limits: what is booked is      *)
(* shown, and reading page by page is complete.                            *)
(*                                                                         *)
(* The first rests on how far each batch has come: up to its next row the  *)
(* table holds what it stores, and from its first fee on all of it, however*)
(* many batches interleave and fail.  The second on the order of a reading *)
(* being total and the table only growing at its end: everything read is   *)
(* at or before the row of the cursor, everything left is behind it.       *)
(***************************************************************************)
EXTENDS FeeQueue, FoldFacts

-----------------------------------------------------------------------------
(* The table: INSERT OR IGNORE of one row and of a chunk.                   *)

Grown(rs, out) == Len(rs) <= Len(out) /\ \A i \in DOMAIN rs : out[i] = rs[i]

\* What inserting one row, or some rows, of a set X into a table makes of it.
Inserted(X, rs, out, new) ==
    /\ out \in Seq(X)
    /\ Grown(rs, out)
    /\ ToSet(out) = ToSet(rs) \cup new
    /\ IsInjective(rs) => IsInjective(out)

LEMMA AppendHolds ==
    ASSUME NEW X, NEW rs \in Seq(X), NEW row \in X
    PROVE  ToSet(Append(rs, row)) = ToSet(rs) \cup {row}
<1>1. \A i \in DOMAIN rs : Append(rs, row)[i] = rs[i] /\ i \in DOMAIN Append(rs, row)
  OBVIOUS
<1>2. Append(rs, row)[Len(rs) + 1] = row /\ Len(rs) + 1 \in DOMAIN Append(rs, row)
  OBVIOUS
<1>3. \A i \in DOMAIN Append(rs, row) : i \in DOMAIN rs \/ i = Len(rs) + 1
  OBVIOUS
<1>4. ASSUME NEW i \in DOMAIN Append(rs, row) PROVE Append(rs, row)[i] \in ToSet(rs) \cup {row}
  BY <1>1, <1>2, <1>3 DEF ToSet
<1>5. ToSet(rs) \cup {row} \subseteq ToSet(Append(rs, row))
  BY <1>1, <1>2 DEF ToSet
<1>6. ToSet(Append(rs, row)) \subseteq ToSet(rs) \cup {row}
  BY <1>4 DEF ToSet
<1> QED  BY <1>5, <1>6

LEMMA InsertsOne ==
    ASSUME NEW X, NEW rs \in Seq(X), NEW row \in X
    PROVE  Inserted(X, rs, insert_or_ignore(rs, row), {row})
<1>1. CASE row \in ToSet(rs)
  BY <1>1 DEF insert_or_ignore, Inserted, Grown
<1>2. CASE row \notin ToSet(rs)
  <2> DEFINE out == Append(rs, row)
  <2>1. insert_or_ignore(rs, row) = out
    BY <1>2 DEF insert_or_ignore
  <2>2. out \in Seq(X) /\ Grown(rs, out)
    BY DEF Grown
  <2>3. ToSet(out) = ToSet(rs) \cup {row}
    BY AppendHolds
  <2>4. ASSUME IsInjective(rs), NEW i \in DOMAIN out, NEW j \in DOMAIN out, out[i] = out[j]
        PROVE  i = j
    <3>1. \A k \in DOMAIN rs : out[k] = rs[k] /\ out[k] # row
      BY <1>2 DEF ToSet
    <3>2. \A k \in DOMAIN out : k \in DOMAIN rs \/ (k = Len(rs) + 1 /\ out[k] = row)
      OBVIOUS
    <3> HIDE DEF out
    <3> QED  BY <2>4, <3>1, <3>2 DEF IsInjective
  <2>5. IsInjective(rs) => IsInjective(out)
    <3> HIDE DEF out
    <3> QED  BY <2>4 DEF IsInjective
  <2> QED  BY <2>1, <2>2, <2>3, <2>5 DEF Inserted
<1> QED  BY <1>1, <1>2

LEMMA InsertedMore ==
    ASSUME NEW X, NEW a \in Seq(X), NEW b, NEW c, NEW n1, NEW n2,
           Inserted(X, a, b, n1), Inserted(X, b, c, n2)
    PROVE  Inserted(X, a, c, n1 \cup n2)
<1>1. /\ b \in Seq(X) /\ c \in Seq(X) /\ Grown(a, b) /\ Grown(b, c)
      /\ ToSet(b) = ToSet(a) \cup n1 /\ ToSet(c) = ToSet(b) \cup n2
      /\ IsInjective(a) => IsInjective(c)
  BY DEF Inserted
<1>2. ASSUME NEW i \in DOMAIN a PROVE c[i] = a[i]
  <2>1. i \in DOMAIN b
    BY <1>1 DEF Grown
  <2> QED  BY <1>1, <2>1 DEF Grown
<1>3. Grown(a, c)
  BY <1>1, <1>2 DEF Grown
<1> QED  BY <1>1, <1>3 DEF Inserted

LEMMA InsertsAll ==
    ASSUME NEW X, NEW rs \in Seq(X), NEW chunk \in Seq(X)
    PROVE  Inserted(X, rs, FoldLeft(insert_or_ignore, rs, chunk), ToSet(chunk))
<1> DEFINE D == DOMAIN chunk
           body(f) == [t \in SUBSET D |-> IF t = {} THEN rs
                                          ELSE insert_or_ignore(f[t \ {Max(t)}], chunk[Max(t)])]
           fold == CHOOSE f : f = body(f)
           op == [p \in Seq(X) \X X |-> insert_or_ignore(p[1], p[2])]
<1>1. FoldLeft(insert_or_ignore, rs, chunk) = fold[D]
  BY DEF FoldLeft, MapThenFoldSet
<1>2. D = 1 .. Len(chunk) /\ Len(chunk) \in Nat
  OBVIOUS
<1>3. \A t \in SUBSET D : t # {} => Max(t) \in D
  BY <1>2, MaxOfFinite
<1>4. op \in [Seq(X) \X X -> Seq(X)]
  BY InsertsOne DEF Inserted
<1>5. fold = body(fold)
  <2>1. PICK f \in [SUBSET D -> Seq(X)] : IsLeftFold(f, chunk, rs, op)
    <3> HIDE DEF op
    <3> QED  BY <1>4, FoldLeftExists
  <2>2. ASSUME NEW t \in SUBSET D, t # {}
        PROVE  f[t] = insert_or_ignore(f[t \ {Max(t)}], chunk[Max(t)])
    <3>1. f[t] = op[<<f[t \ {Max(t)}], chunk[Max(t)]>>]
      <4> HIDE DEF op
      <4> QED  BY <2>1, <2>2 DEF IsLeftFold
    <3>2. f[t \ {Max(t)}] \in Seq(X) /\ chunk[Max(t)] \in X
      BY <1>3, <2>2
    <3> QED  BY <3>1, <3>2
  <2>3. f[{}] = rs
    <3> HIDE DEF op
    <3> QED  BY <2>1 DEF IsLeftFold
  <2>4. f = body(f)
    <3>1. f \in [SUBSET D -> Seq(X)]
      OBVIOUS
    <3> QED  BY <2>2, <2>3, <3>1
  <2> HIDE DEF body
  <2> QED  BY <2>4
<1> HIDE DEF fold
<1> DEFINE part(k) == {chunk[i] : i \in 1 .. k}
           Good == {k \in Nat : k <= Len(chunk) => Inserted(X, rs, fold[1 .. k], part(k))}
<1>6. 0 \in Good
  <2>1. 1 .. 0 = {} /\ fold[{}] = rs
    BY <1>5
  <2> QED  BY <2>1 DEF Inserted, Grown
<1>7. \A k \in Good : k + 1 \in Good
  <2> HIDE DEF part
  <2> SUFFICES ASSUME NEW k \in Nat, k + 1 <= Len(chunk), Inserted(X, rs, fold[1 .. k], part(k))
               PROVE  Inserted(X, rs, fold[1 .. k + 1], part(k + 1))
    OBVIOUS
  <2>1. fold[1 .. k + 1] = insert_or_ignore(fold[1 .. k], chunk[k + 1])
    <3>1. 1 .. k + 1 \in SUBSET D /\ 1 .. k + 1 # {}
      <4> HIDE DEF D
      <4>1. k + 1 \in 1 .. k + 1 /\ \A i \in 1 .. k + 1 : i \in 1 .. Len(chunk)
        BY <1>2
      <4> QED  BY <1>2, <4>1
    <3>2. fold[1 .. k + 1] = insert_or_ignore(fold[(1 .. k + 1) \ {Max(1 .. k + 1)}], chunk[Max(1 .. k + 1)])
      BY <1>5, <3>1
    <3> QED  BY <3>2, MaxOfPrefix
  <2>2. fold[1 .. k] \in Seq(X) /\ chunk[k + 1] \in X
    BY DEF Inserted
  <2>3. Inserted(X, fold[1 .. k], fold[1 .. k + 1], {chunk[k + 1]})
    BY <2>1, <2>2, InsertsOne
  <2>4. part(k + 1) = part(k) \cup {chunk[k + 1]}
    <3>1. 1 .. k + 1 = (1 .. k) \cup {k + 1}
      OBVIOUS
    <3> QED  BY <3>1 DEF part
  <2> HIDE DEF D
  <2> QED  BY <2>3, <2>4, InsertedMore
<1>8. Good = Nat
  <2> HIDE DEF Good
  <2>1. Good \subseteq Nat
    BY DEF Good
  <2> QED  BY <2>1, <1>6, <1>7, Inductive
<1>9. Inserted(X, rs, fold[D], part(Len(chunk)))
  <2>1. Len(chunk) \in Good
    <3> HIDE DEF Good
    <3> QED  BY <1>2, <1>8
  <2> HIDE DEF part
  <2> QED  BY <2>1, <1>2
<1>10. part(Len(chunk)) = ToSet(chunk)
  BY <1>2 DEF ToSet
<1> QED  BY <1>1, <1>9, <1>10

-----------------------------------------------------------------------------
(* The batches.                                                            *)

CopySet == Messages \X (1 .. Copies)
RowSet == Wallets \X Messages

Batch == [stage : {"idle", "rows", "fees", "ack"}, copies : Seq(CopySet), next : Nat \ {0}]

TypeOK ==
    /\ \A e \in booked : e[1] \in Messages
    /\ DOMAIN queue \subseteq CopySet
    /\ batch \in [Consumers -> Batch]
    /\ rows \in Seq(RowSet)

\* How far a batch has come, and what the table holds for it by then.
reached(b, rs) ==
    /\ b.stage = "rows" =>
          /\ b.next <= Len(RowsOf(b.copies))
          /\ \A i \in 1 .. b.next - 1 : RowsOf(b.copies)[i] \in ToSet(rs)
    /\ b.stage = "fees" => b.next \in DOMAIN b.copies
    /\ b.stage \in {"fees", "ack"} => ToSet(RowsOf(b.copies)) \subseteq ToSet(rs)

BatchesReached == \A c \in Consumers : reached(batch[c], rows)

StoreInv == TypeOK /\ BookedIsShown /\ BatchesReached /\ IsInjective(rows)

LEMMA ActivityRowsType ==
    ASSUME NEW m \in Messages PROVE activityRows(m) \in Seq(RowSet)
<1>1. Affects[m] \in Seq(Wallets)
  BY QueueAssumption
<1> QED  BY <1>1 DEF activityRows, RowSet

LEMMA RowsOfHolds ==
    ASSUME NEW copies \in Seq(CopySet)
    PROVE  /\ RowsOf(copies) \in Seq(RowSet)
           /\ ToSet(RowsOf(copies)) =
                 UNION {ToSet(activityRows(message(copies[i]))) : i \in DOMAIN copies}
<1> DEFINE ss == [i \in DOMAIN copies |-> activityRows(message(copies[i]))]
<1>1. \A i \in DOMAIN copies : message(copies[i]) \in Messages
  BY DEF CopySet, message
<1>2. DOMAIN copies = 1 .. Len(copies) /\ Len(copies) \in Nat
  OBVIOUS
<1>3. ss \in Seq(Seq(RowSet))
  <2>1. ss \in [1 .. Len(copies) -> Seq(RowSet)]
    BY <1>1, <1>2, ActivityRowsType
  <2> QED  BY <1>2, <2>1
<1>4. RowsOf(copies) = FlattenSeq(ss)
  BY DEF RowsOf
<1>5. DOMAIN ss = DOMAIN copies /\ \A i \in DOMAIN copies : ss[i] = activityRows(message(copies[i]))
  OBVIOUS
<1> HIDE DEF ss
<1>6. FlattenSeq(ss) \in Seq(RowSet) /\ ToSet(FlattenSeq(ss)) = UNION {ToSet(ss[i]) : i \in DOMAIN ss}
  BY <1>3, FlattenSeqHolds
<1> QED  BY <1>4, <1>5, <1>6

LEMMA IdleBatch == Idle \in Batch /\ \A rs : reached(Idle, rs)
<1>1. << >> \in Seq(CopySet)
  OBVIOUS
<1> QED  BY <1>1 DEF Idle, Batch, reached

\* A set with finitely many elements is laid out without repetition.
LEMMA SetToSeqHolds ==
    ASSUME NEW S, IsFiniteSet(S)
    PROVE  SetToSeq(S) \in Seq(S) /\ ToSet(SetToSeq(S)) = S /\ IsInjective(SetToSeq(S))
<1> DEFINE n == Cardinality(S)
<1>1. n \in Nat /\ ExistsBijection(1 .. n, S)
  BY FS_CardinalityType
<1>2. PICK f \in [1 .. n -> S] : IsInjective(f)
  BY <1>1 DEF ExistsBijection, Bijection, Injection
<1>3. SetToSeq(S) \in [1 .. n -> S] /\ IsInjective(SetToSeq(S))
  BY <1>2 DEF SetToSeq
<1> DEFINE s == SetToSeq(S)
<1>4. s \in Surjection(1 .. n, S)
  <2>1. s \in Injection(1 .. n, S)
    BY <1>3 DEF Injection
  <2>2. Cardinality(1 .. n) = n
    BY <1>1, FS_Interval
  <2> HIDE DEF s
  <2> QED  BY <2>1, <2>2, FS_Injection
<1>5. \A x \in S : \E i \in 1 .. n : s[i] = x
  BY <1>4 DEF Surjection
<1>6. DOMAIN s = 1 .. n /\ s \in [1 .. n -> S]
  BY <1>3
<1> HIDE DEF s
<1>7. s \in Seq(S)
  BY <1>1, <1>6
<1>8. ToSet(s) = S
  BY <1>5, <1>6 DEF ToSet
<1> QED  BY <1>3, <1>7, <1>8 DEF s

LEMMA FeeEvents ==
    /\ \A m \in Messages : \A e \in fee_events(m) : e[1] = m
    /\ \A m \in Messages : IsFiniteSet(ToSet(activityRows(m)))
<1>1. \A m \in Messages : \A e \in fee_events(m) : e[1] = m
  BY DEF fee_events
<1>2. ASSUME NEW m \in Messages PROVE IsFiniteSet(ToSet(activityRows(m)))
  <2> DEFINE r == activityRows(m)
             f == [i \in DOMAIN r |-> r[i]]
  <2>1. DOMAIN r = 1 .. Len(r) /\ Len(r) \in Nat
    BY ActivityRowsType
  <2>2. f \in Surjection(DOMAIN r, ToSet(r))
    <3> HIDE DEF r
    <3> QED  BY DEF Surjection, ToSet
  <2>3. IsFiniteSet(DOMAIN r)
    BY <2>1, FS_Interval
  <2> HIDE DEF f, r
  <2>4. IsFiniteSet(ToSet(r))
    BY <2>2, <2>3, FS_Surjection
  <2> QED  BY <2>4 DEF r
<1> QED  BY <1>1, <1>2

LEMMA StoreInit == Init => StoreInv
<1> SUFFICES ASSUME Init PROVE StoreInv
  OBVIOUS
<1> DEFINE earlier == UNION {ToSet(activityRows(m)) : m \in Earlier}
           sets == {ToSet(activityRows(m)) : m \in Earlier}
<1>1. Earlier \subseteq Messages /\ Queued \subseteq Messages /\ Copies \in Nat \ {0}
  BY QueueAssumption
<1>2. IsFiniteSet(earlier)
  <2> DEFINE f == [m \in Earlier |-> ToSet(activityRows(m))]
  <2>1. f \in Surjection(Earlier, sets)
    BY DEF Surjection
  <2>2. IsFiniteSet(sets)
    <3> HIDE DEF sets, f
    <3> QED  BY <2>1, FS_Surjection, QueueAssumption
  <2>3. \A t \in sets : IsFiniteSet(t)
    BY <1>1, FeeEvents
  <2> HIDE DEF sets
  <2>4. IsFiniteSet(UNION sets)
    BY <2>2, <2>3, FS_UNION
  <2> QED  BY <2>4 DEF sets
<1>3. rows \in Seq(earlier) /\ ToSet(rows) = earlier /\ IsInjective(rows)
  <2> HIDE DEF earlier
  <2>1. rows = SetToSeq(earlier)
    BY DEF Init, earlier
  <2> QED  BY <1>2, <2>1, SetToSeqHolds
<1>4. rows \in Seq(RowSet)
  <2>1. earlier \subseteq RowSet
    BY <1>1, ActivityRowsType DEF ToSet
  <2> HIDE DEF earlier
  <2> QED  BY <1>3, <2>1
<1>5. \A e \in booked : e[1] \in Earlier
  BY <1>1, FeeEvents DEF Init
<1>6. BookedIsShown
  BY <1>3, <1>5 DEF BookedIsShown
<1>7. DOMAIN queue \subseteq CopySet
  BY <1>1 DEF Init, CopySet
<1>8. batch \in [Consumers -> Batch] /\ BatchesReached
  BY IdleBatch DEF Init, BatchesReached
<1> QED  BY <1>1, <1>3, <1>4, <1>5, <1>6, <1>7, <1>8 DEF StoreInv, TypeOK

LEMMA Shown ==
    ASSUME TypeOK, TypeOK', BookedIsShown,
           \E new : Inserted(RowSet, rows, rows', new),
           \A e \in booked' : e \in booked \/ ToSet(activityRows(e[1])) \subseteq ToSet(rows)
    PROVE  BookedIsShown'
<1>1. ToSet(rows) \subseteq ToSet(rows')
  BY DEF Inserted
<1> QED  BY <1>1 DEF BookedIsShown

LEMMA Unstored == TypeOK /\ rows' = rows => \E new : Inserted(RowSet, rows, rows', new)
<1> SUFFICES ASSUME TypeOK, rows' = rows PROVE Inserted(RowSet, rows, rows', {})
  OBVIOUS
<1>1. rows \in Seq(RowSet)
  BY DEF TypeOK
<1> QED  BY <1>1 DEF Inserted, Grown

LEMMA StillReached ==
    ASSUME NEW b, NEW rs, NEW out, reached(b, rs), ToSet(rs) \subseteq ToSet(out)
    PROVE  reached(b, out)
  BY DEF reached

LEMMA DeliverKeeps == ASSUME StoreInv, NEW m \in Messages, Deliver(m) PROVE StoreInv'
<1>1. booked' = booked /\ batch' = batch /\ rows' = rows
  BY DEF Deliver
<1>2. DOMAIN queue' \subseteq CopySet
  <2>1. \A copy \in free_copies(m) : copy \in CopySet
    BY DEF free_copies, CopySet
  <2>2. queue' = queue \/ \E copy \in free_copies(m) : DOMAIN queue' = DOMAIN queue \cup {copy}
    BY DEF Deliver, Enqueued
  <2> QED  BY <2>1, <2>2 DEF StoreInv, TypeOK
<1> QED  BY <1>1, <1>2 DEF StoreInv, TypeOK, BookedIsShown, BatchesReached

LEMMA TakeKeeps ==
    ASSUME StoreInv, NEW copies \in SeqOf(Unclaimed \ Unreadable, MaxBatch),
           NEW malformed \in SUBSET Unreadable, Take(copies, malformed)
    PROVE  StoreInv'
<1>1. copies \in Seq(CopySet)
  <2>1. PICK n \in 0 .. MaxBatch : copies \in [1 .. n -> Unclaimed \ Unreadable]
    BY DEF SeqOf
  <2>2. Unclaimed \subseteq CopySet
    BY DEF Unclaimed, StoreInv, TypeOK
  <2>3. n \in Nat
    BY QueueAssumption
  <2> QED  BY <2>1, <2>2, <2>3
<1>2. PICK c \in Consumers : TakeBatch(c, copies, malformed)
  BY DEF Take
<1>3. booked' = booked /\ rows' = rows /\ DOMAIN queue' \subseteq DOMAIN queue
  BY <1>2 DEF TakeBatch
<1>4. CASE copies = << >>
  <2>1. batch' = [batch EXCEPT ![c] = Idle]
    BY <1>2, <1>4 DEF TakeBatch
  <2> QED  BY <1>3, <2>1, IdleBatch DEF StoreInv, TypeOK, BookedIsShown, BatchesReached
<1>5. CASE copies # << >>
  <2> DEFINE b == Work(first_stage(copies), copies)
  <2>1. batch' = [batch EXCEPT ![c] = b]
    BY <1>2, <1>5 DEF TakeBatch
  <2>2. b.stage \in {"rows", "fees"} /\ b.copies = copies /\ b.next = 1 /\ b \in Batch
    BY <1>1 DEF Work, first_stage, Batch
  <2>3. reached(b, rows)
    <3>1. CASE RowsOf(copies) = << >>
      <4>1. b.stage = "fees"
        BY <3>1 DEF Work, first_stage
      <4>2. 1 \in DOMAIN copies
        BY <1>1, <1>5
      <4>3. ToSet(RowsOf(copies)) = {}
        BY <3>1 DEF ToSet
      <4> HIDE DEF b
      <4> QED  BY <2>2, <4>1, <4>2, <4>3 DEF reached
    <3>2. CASE RowsOf(copies) # << >>
      <4>1. b.stage = "rows"
        BY <3>2 DEF Work, first_stage
      <4>2. 1 <= Len(RowsOf(copies)) /\ 1 .. 1 - 1 = {}
        BY <1>1, <3>2, RowsOfHolds
      <4> HIDE DEF b
      <4> QED  BY <2>2, <4>1, <4>2 DEF reached
    <3> QED  BY <3>1, <3>2
  <2> HIDE DEF b
  <2> QED  BY <1>3, <2>1, <2>2, <2>3 DEF StoreInv, TypeOK, BookedIsShown, BatchesReached
<1> QED  BY <1>4, <1>5

\* A batch at its own stage, and what a stage moves on to.
LEMMA AdvanceTo ==
    ASSUME TypeOK, NEW c \in Consumers, NEW by \in Nat, NEW over \in BOOLEAN, NEW stage,
           Advance(c, by, over, stage)
    PROVE  /\ batch' = [batch EXCEPT ![c] = batch'[c]]
           /\ batch'[c].copies = batch[c].copies
           /\ over => batch'[c].stage = stage /\ batch'[c].next = 1
           /\ ~over => batch'[c].stage = batch[c].stage /\ batch'[c].next = batch[c].next + by
           /\ stage \in {"fees", "ack"} => batch'[c] \in Batch
<1>1. batch[c] \in Batch /\ batch \in [Consumers -> Batch]
  BY DEF TypeOK
<1>2. CASE over
  <2>1. batch' = [batch EXCEPT ![c] = Work(stage, batch[c].copies)]
    BY <1>2 DEF Advance
  <2> QED  BY <1>1, <1>2, <2>1 DEF Work, Batch
<1>3. CASE ~over
  <2> DEFINE b == batch[c]
             b2 == [stage |-> b.stage, copies |-> b.copies, next |-> b.next + by]
  <2>1. b = [stage |-> b.stage, copies |-> b.copies, next |-> b.next]
    BY <1>1 DEF Batch
  <2>2. b \in Batch /\ b.next + by \in Nat \ {0}
    BY <1>1 DEF Batch
  <2>3. b2 \in Batch
    <3> HIDE DEF b
    <3> QED  BY <2>2 DEF Batch
  <2>4. batch' = [batch EXCEPT ![c] = b2]
    <3>1. [b EXCEPT !.next = b.next + by] = b2
      <4> HIDE DEF b
      <4> QED  BY <2>1
    <3>2. batch' = [batch EXCEPT ![c] = [b EXCEPT !.next = b.next + by]]
      BY <1>3 DEF Advance
    <3> HIDE DEF b, b2
    <3> QED  BY <3>1, <3>2
  <2>5. batch'[c] = b2
    <3> HIDE DEF b2
    <3> QED  BY <1>1, <2>4
  <2>6. b2.stage = b.stage /\ b2.copies = b.copies /\ b2.next = b.next + by
    OBVIOUS
  <2> HIDE DEF b2
  <2> QED  BY <1>3, <2>3, <2>4, <2>5, <2>6
<1> QED  BY <1>2, <1>3

LEMMA MinOfTwo == \A x, y \in Int : Min({x, y}) = IF x <= y THEN x ELSE y
<1> TAKE x, y \in Int
<1>1. \E z \in {x, y} : \A u \in {x, y} : z <= u
  OBVIOUS
<1>2. Min({x, y}) \in {x, y} /\ \A u \in {x, y} : Min({x, y}) <= u
  BY <1>1 DEF Min
<1> QED  BY <1>2

\* Where an element is in the slice from m on.
LEMMA PlaceInChunk ==
    ASSUME NEW m \in Nat \ {0}, NEW last \in Nat, NEW i \in m .. last
    PROVE  /\ m - 1 \in Nat /\ (m - 1) + 1 = m /\ m - 1 <= last
           /\ i - m + 1 \in 1 .. last - (m - 1) /\ (m - 1) + (i - m + 1) = i
  OBVIOUS

\* One chunk of rows: those from the next one on, up to the last of the chunk.
LEMMA ChunkStored ==
    ASSUME StoreInv, NEW c \in Consumers, StoreRows(c)
    PROVE  LET b == batch[c]
               all == RowsOf(b.copies)
           IN  \E chunk \in Seq(RowSet), last \in Nat :
                  /\ rows' = FoldLeft(insert_or_ignore, rows, chunk)
                  /\ last <= Len(all) /\ last <= b.next + D1_BATCH_CHUNK - 1
                  /\ last = Len(all) \/ last = b.next + D1_BATCH_CHUNK - 1
                  /\ \A i \in b.next .. last : all[i] \in ToSet(chunk)
<1> DEFINE b == batch[c]
           all == RowsOf(b.copies)
           last == Min({Len(all), b.next + D1_BATCH_CHUNK - 1})
           chunk == SubSeq(all, b.next, last)
<1>1. b \in Batch /\ b.stage = "rows" /\ reached(b, rows)
  BY DEF StoreInv, TypeOK, BatchesReached, StoreRows
<1>2. all \in Seq(RowSet) /\ Len(all) \in Nat /\ D1_BATCH_CHUNK \in Nat \ {0}
  BY <1>1, RowsOfHolds, QueueAssumption DEF Batch
<1>3. b.next \in Nat \ {0} /\ b.next <= Len(all)
  BY <1>1 DEF Batch, reached
<1>4. /\ last \in Nat /\ last <= Len(all) /\ last <= b.next + D1_BATCH_CHUNK - 1
      /\ last = Len(all) \/ last = b.next + D1_BATCH_CHUNK - 1
  <2> HIDE DEF all, b
  <2> QED  BY <1>2, <1>3, MinOfTwo
<1>5. /\ chunk \in Seq(RowSet)
      /\ \A i \in b.next .. last : all[i] \in ToSet(chunk)
  <2> HIDE DEF all, b, last
  <2>1. chunk \in Seq(RowSet)
    BY <1>2, <1>3, <1>4
  <2>2. ASSUME NEW i \in b.next .. last PROVE all[i] \in ToSet(chunk)
    <3>1. i - b.next + 1 \in DOMAIN chunk /\ chunk[i - b.next + 1] = all[i]
      <4> DEFINE n == b.next - 1
                 k == i - b.next + 1
      <4>1. n \in Nat /\ n + 1 = b.next /\ n <= last /\ last <= Len(all) /\ last \in Nat
            /\ k \in 1 .. last - n /\ n + k = i
        <5>1. last <= Len(all) /\ last \in Nat
          BY <1>4
        <5> DEFINE m == b.next
        <5>2. m \in Nat \ {0} /\ i \in m .. last
          BY <1>3
        <5>3. n = m - 1 /\ k = i - m + 1 /\ m = b.next
          OBVIOUS
        <5> HIDE DEF n, k, m, chunk
        <5>4. m - 1 \in Nat /\ (m - 1) + 1 = m /\ m - 1 <= last
              /\ i - m + 1 \in 1 .. last - (m - 1) /\ (m - 1) + (i - m + 1) = i
          BY <5>1, <5>2, PlaceInChunk
        <5>5. n \in Nat /\ n + 1 = m /\ n <= last /\ k \in 1 .. last - n /\ n + k = i
          BY <5>3, <5>4
        <5> QED  BY <5>1, <5>3, <5>5
      <4>2. chunk = SubSeq(all, n + 1, last)
        BY <4>1 DEF chunk
      <4> HIDE DEF n, k, chunk
      <4>3. chunk \in Seq(RowSet) /\ Len(chunk) = last - n /\ \A j \in 1 .. last - n : chunk[j] = all[n + j]
        BY <1>2, <4>1, <4>2, SliceIs
      <4>4. DOMAIN chunk = 1 .. last - n
        BY <4>3
      <4>5. k \in DOMAIN chunk /\ chunk[k] = all[i]
        BY <4>1, <4>3, <4>4
      <4> QED  BY <4>5 DEF k
    <3> HIDE DEF chunk
    <3> QED  BY <3>1 DEF ToSet
  <2> QED  BY <2>1, <2>2
<1>6. rows' = FoldLeft(insert_or_ignore, rows, chunk)
  BY DEF StoreRows
<1> HIDE DEF all, b, last, chunk
<1>7. /\ rows' = FoldLeft(insert_or_ignore, rows, chunk)
      /\ last <= Len(all) /\ last <= b.next + D1_BATCH_CHUNK - 1
      /\ last = Len(all) \/ last = b.next + D1_BATCH_CHUNK - 1
      /\ \A i \in b.next .. last : all[i] \in ToSet(chunk)
  BY <1>4, <1>5, <1>6
<1>8. chunk \in Seq(RowSet) /\ last \in Nat
  BY <1>4, <1>5
<1> QED  BY <1>7, <1>8 DEF all, b

LEMMA StoreRowsKeeps == ASSUME StoreInv, NEW c \in Consumers, StoreRows(c) PROVE StoreInv'
<1> DEFINE b == batch[c]
           all == RowsOf(b.copies)
           over == last_chunk(b.next, all)
<1>1. b \in Batch /\ b.stage = "rows" /\ reached(b, rows) /\ rows \in Seq(RowSet)
  BY DEF StoreInv, TypeOK, BatchesReached, StoreRows
<1>2. all \in Seq(RowSet) /\ Len(all) \in Nat /\ D1_BATCH_CHUNK \in Nat \ {0}
  BY <1>1, RowsOfHolds, QueueAssumption DEF Batch
<1>3. b.next \in Nat \ {0} /\ b.next <= Len(all)
  BY <1>1 DEF Batch, reached
<1>4. PICK chunk \in Seq(RowSet), last \in Nat :
         /\ rows' = FoldLeft(insert_or_ignore, rows, chunk)
         /\ last <= Len(all) /\ last <= b.next + D1_BATCH_CHUNK - 1
         /\ last = Len(all) \/ last = b.next + D1_BATCH_CHUNK - 1
         /\ \A i \in b.next .. last : all[i] \in ToSet(chunk)
  BY ChunkStored
<1>6. booked' = booked /\ queue' = queue
  BY DEF StoreRows
<1>7. Inserted(RowSet, rows, rows', ToSet(chunk))
  BY <1>1, <1>4, InsertsAll
<1>8. /\ rows' \in Seq(RowSet) /\ IsInjective(rows')
      /\ ToSet(rows) \subseteq ToSet(rows') /\ ToSet(chunk) \subseteq ToSet(rows')
  BY <1>7 DEF Inserted, StoreInv
<1>9. \A i \in 1 .. last : all[i] \in ToSet(rows')
  <2>1. \A i \in 1 .. b.next - 1 : all[i] \in ToSet(rows')
    BY <1>1, <1>8 DEF reached
  <2> HIDE DEF all, b
  <2> QED  BY <1>3, <1>4, <1>8, <2>1
<1>10. Advance(c, D1_BATCH_CHUNK, over, "fees")
  BY DEF StoreRows
<1>11. over <=> b.next + D1_BATCH_CHUNK > Len(all)
  BY DEF last_chunk
<1> DEFINE b2 == batch'[c]
<1>12. /\ batch' = [batch EXCEPT ![c] = b2] /\ b2.copies = b.copies /\ b2 \in Batch
       /\ over => b2.stage = "fees" /\ b2.next = 1
       /\ ~over => b2.stage = "rows" /\ b2.next = b.next + D1_BATCH_CHUNK
  <2>1. over \in BOOLEAN /\ TypeOK
    BY DEF StoreInv, last_chunk
  <2> HIDE DEF over
  <2> QED  BY <1>1, <1>2, <1>10, <2>1, AdvanceTo
<1> HIDE DEF b2, over
<1>13. reached(b2, rows')
  <2>1. CASE over
    <3>1. last = Len(all)
      <4> HIDE DEF all, b
      <4> QED  BY <1>2, <1>3, <1>4, <1>11, <2>1
    <3>2. ToSet(all) \subseteq ToSet(rows')
      <4>1. DOMAIN all = 1 .. Len(all)
        BY <1>2
      <4> HIDE DEF all
      <4> QED  BY <1>9, <3>1, <4>1 DEF ToSet
    <3>3. 1 \in DOMAIN b.copies
      <4>1. b.copies \in Seq(CopySet)
        BY <1>1 DEF Batch
      <4>2. b.copies # << >>
        <5> SUFFICES ASSUME b.copies = << >> PROVE FALSE
          OBVIOUS
        <5>0. b.copies = << >>
          OBVIOUS
        <5>1. ToSet(all) = {}
          <6>1. DOMAIN b.copies = {}
            BY <5>0
          <6> QED  BY <4>1, <6>1, RowsOfHolds
        <5>2. 1 \in DOMAIN all
          <6> HIDE DEF all
          <6> QED  BY <1>2, <1>3
        <5> HIDE DEF all
        <5> QED  BY <5>1, <5>2 DEF ToSet
      <4> HIDE DEF b
      <4> QED  BY <4>1, <4>2
    <3> QED  BY <1>12, <2>1, <3>2, <3>3 DEF reached
  <2>2. CASE ~over
    <3>1. b2.next <= Len(all) /\ b2.next - 1 = last
      <4> HIDE DEF all, b
      <4> QED  BY <1>2, <1>3, <1>4, <1>11, <1>12, <2>2
    <3> QED  BY <1>9, <1>12, <2>2, <3>1 DEF reached
  <2> QED  BY <2>1, <2>2
<1>14. BatchesReached'
  <2>1. ASSUME NEW d \in Consumers PROVE reached(batch'[d], rows')
    <3>1. CASE d = c
      BY <1>13, <3>1 DEF b2
    <3>2. CASE d # c
      <4>1. batch'[d] = batch[d] /\ reached(batch[d], rows)
        BY <1>12, <3>2 DEF StoreInv, BatchesReached, TypeOK
      <4> QED  BY <1>8, <4>1, StillReached
    <3> QED  BY <3>1, <3>2
  <2> QED  BY <2>1 DEF BatchesReached
<1>15. BookedIsShown'
  BY <1>6, <1>8 DEF StoreInv, BookedIsShown
<1>16. TypeOK'
  <2>1. batch' \in [Consumers -> Batch]
    BY <1>12 DEF StoreInv, TypeOK
  <2> QED  BY <1>6, <1>8, <2>1 DEF StoreInv, TypeOK
<1> QED  BY <1>8, <1>14, <1>15, <1>16 DEF StoreInv

LEMMA BookFeesKeeps == ASSUME StoreInv, NEW c \in Consumers, BookFees(c) PROVE StoreInv'
<1> DEFINE b == batch[c]
           m == message(b.copies[b.next])
           over == (b.next = Len(b.copies))
           b2 == batch'[c]
<1>1. b \in Batch /\ b.stage = "fees" /\ reached(b, rows) /\ TypeOK
  BY DEF StoreInv, TypeOK, BatchesReached, BookFees
<1>2. b.copies \in Seq(CopySet) /\ b.next \in DOMAIN b.copies
  BY <1>1 DEF Batch, reached
<1>3. m \in Messages
  <2>1. b.copies[b.next] \in CopySet
    <3> HIDE DEF b
    <3> QED  BY <1>2
  <2> QED  BY <2>1 DEF CopySet, message
<1>4. ToSet(activityRows(m)) \subseteq ToSet(rows)
  <2>1. ToSet(activityRows(m)) \subseteq ToSet(RowsOf(b.copies))
    <3> HIDE DEF b
    <3> QED  BY <1>2, RowsOfHolds
  <2> QED  BY <1>1, <2>1 DEF reached
<1>5. booked' = booked \cup fee_events(m) /\ rows' = rows /\ queue' = queue
  BY DEF BookFees
<1>6. \A e \in fee_events(m) : e[1] = m
  BY <1>3, FeeEvents
<1>7. Advance(c, 1, over, "ack")
  BY DEF BookFees
<1>8. /\ batch' = [batch EXCEPT ![c] = b2] /\ b2.copies = b.copies /\ b2 \in Batch
      /\ over => b2.stage = "ack"
      /\ ~over => b2.stage = "fees" /\ b2.next = b.next + 1
  <2>1. over \in BOOLEAN
    OBVIOUS
  <2> HIDE DEF over
  <2> QED  BY <1>1, <1>7, <2>1, AdvanceTo
<1>9. reached(b2, rows)
  <2>1. ~over => b.next + 1 \in DOMAIN b.copies
    <3> HIDE DEF b
    <3> QED  BY <1>2
  <2> HIDE DEF b2, over
  <2> QED  BY <1>1, <1>8, <2>1 DEF reached
<1> HIDE DEF b2, m
<1>10. BatchesReached'
  BY <1>5, <1>8, <1>9 DEF StoreInv, TypeOK, BatchesReached
<1>11. BookedIsShown'
  BY <1>4, <1>5, <1>6 DEF StoreInv, BookedIsShown
<1>12. TypeOK'
  BY <1>3, <1>5, <1>6, <1>8 DEF StoreInv, TypeOK
<1> QED  BY <1>5, <1>10, <1>11, <1>12 DEF StoreInv

\* A batch that is over leaves its consumer idle.
LEMMA EndKeeps ==
    ASSUME StoreInv, NEW c \in Consumers, batch' = [batch EXCEPT ![c] = Idle],
           DOMAIN queue' \subseteq DOMAIN queue, booked' = booked, rows' = rows
    PROVE  StoreInv'
<1>1. TypeOK'
  BY IdleBatch DEF StoreInv, TypeOK
<1>2. BatchesReached'
  BY IdleBatch DEF StoreInv, TypeOK, BatchesReached
<1> QED  BY <1>1, <1>2 DEF StoreInv, BookedIsShown

LEMMA AckAllKeeps == ASSUME StoreInv, NEW c \in Consumers, AckAll(c) PROVE StoreInv'
  BY EndKeeps DEF AckAll

LEMMA RetryAllKeeps == ASSUME StoreInv, NEW c \in Consumers, RetryAll(c) PROVE StoreInv'
<1>1. batch[c] \in Batch /\ batch[c] # Idle
  BY DEF StoreInv, TypeOK, RetryAll
<1>2. ASSUME NEW d \in Taken(c) PROVE d \in CopySet
  BY <1>1 DEF Taken, ToSet, Batch
<1>3. DOMAIN queue' \subseteq CopySet
  BY <1>2 DEF RetryAll, StoreInv, TypeOK
<1>4. batch' = [batch EXCEPT ![c] = Idle] /\ booked' = booked /\ rows' = rows
  BY DEF RetryAll
<1>5. TypeOK'
  BY <1>3, <1>4, IdleBatch DEF StoreInv, TypeOK
<1>6. BatchesReached'
  BY <1>4, IdleBatch DEF StoreInv, TypeOK, BatchesReached
<1> QED  BY <1>4, <1>5, <1>6 DEF StoreInv, BookedIsShown

Reads == (\E w \in Readers, limit \in Limits : Open(w, limit)) \/ (\E limit \in Limits : More(limit))

LEMMA ReadsKeep == StoreInv /\ (Reads \/ UNCHANGED vars) => StoreInv'
<1> SUFFICES ASSUME StoreInv, Reads \/ UNCHANGED vars PROVE StoreInv'
  OBVIOUS
<1>1. booked' = booked /\ queue' = queue /\ batch' = batch /\ rows' = rows
  BY DEF Reads, Open, More, vars
<1> QED  BY <1>1 DEF StoreInv, TypeOK, BookedIsShown, BatchesReached

LEMMA StoreStep == StoreInv /\ [Next]_vars => StoreInv'
<1> SUFFICES ASSUME StoreInv, [Next]_vars PROVE StoreInv'
  OBVIOUS
<1>1. ASSUME NEW m \in Messages, Deliver(m) PROVE StoreInv'
  BY <1>1, DeliverKeeps
<1>2. ASSUME NEW copies \in SeqOf(Unclaimed \ Unreadable, MaxBatch),
             NEW malformed \in SUBSET Unreadable, Take(copies, malformed)
      PROVE  StoreInv'
  BY <1>2, TakeKeeps
<1>3. ASSUME NEW c \in Consumers, Consume(c) \/ RetryAll(c) PROVE StoreInv'
  BY <1>3, StoreRowsKeeps, BookFeesKeeps, AckAllKeeps, RetryAllKeeps DEF Consume
<1>4. ASSUME Reads \/ UNCHANGED vars PROVE StoreInv'
  BY <1>4, ReadsKeep
<1> QED  BY <1>1, <1>2, <1>3, <1>4 DEF Next, Reads

LEMMA StoreInvariance == Spec => []StoreInv
  BY StoreInit, StoreStep, PTL DEF Spec

\* Whenever the ledger has moved for a transaction, the activity of every
\* wallet it affects shows it: the rows of a batch are stored before its fees
\* are told (processWalletTxBatch), and no failure takes a row back.
THEOREM AlwaysBookedIsShown == Spec => []BookedIsShown
<1>1. StoreInv => BookedIsShown
  BY DEF StoreInv
<1> QED  BY <1>1, StoreInvariance, PTL

-----------------------------------------------------------------------------
(* The order of a reading, and its pages.                                  *)

Ids == DOMAIN rows

\* The order of a reading is total.
LEMMA NewerOrder ==
    ASSUME TypeOK
    PROVE  /\ \A i \in Ids : time(i) \in Nat /\ i \in Nat /\ ~newer(i, i)
           /\ \A i, j \in Ids : newer(i, j) \/ newer(j, i) \/ i = j
           /\ \A i, j \in Ids : ~(newer(i, j) /\ newer(j, i))
           /\ \A i, j, k \in Ids : newer(i, j) /\ newer(j, k) => newer(i, k)
<1>1. Ids = 1 .. Len(rows) /\ Len(rows) \in Nat
  BY DEF TypeOK, Ids
<1>2. ASSUME NEW i \in Ids PROVE time(i) \in Nat /\ i \in Nat
  <2>1. rows[i] \in RowSet
    BY DEF TypeOK, Ids
  <2>2. rows[i][2] \in Messages
    BY <2>1 DEF RowSet
  <2> QED  BY <1>1, <2>2, QueueAssumption DEF time
<1> HIDE DEF Ids
<1> QED  BY <1>2 DEF newer

LEMMA NewestHolds ==
    ASSUME TypeOK, NEW ids \in SUBSET Ids, NEW limit \in Nat \ {0}
    PROVE  LET found == newest(ids, limit) IN
             /\ found \in Seq(ids) /\ Len(found) <= limit
             /\ \A k, l \in DOMAIN found : k < l => newer(found[k], found[l])
             /\ \A i \in ids \ ToSet(found) : \A k \in DOMAIN found : newer(found[k], i)
             /\ Len(found) < limit => ids \subseteq ToSet(found)
<1> DEFINE ahead(i) == {j \in ids : newer(j, i)}
           n == Cardinality(ids)
           rank == [i \in ids |-> Cardinality(ahead(i))]
           m == Min({n, limit})
           found == newest(ids, limit)
<1>1. /\ IsFiniteSet(ids) /\ n \in Nat
      /\ \A i \in ids : IsFiniteSet(ahead(i)) /\ Cardinality(ahead(i)) \in Nat
  <2>1. IsFiniteSet(Ids)
    BY FS_Interval DEF TypeOK, Ids
  <2>2. \A t \in SUBSET Ids : IsFiniteSet(t) /\ Cardinality(t) \in Nat
    BY <2>1, FS_Subset, FS_CardinalityType
  <2> QED  BY <2>2
<1>2. ASSUME NEW i \in ids, NEW j \in ids, newer(j, i) PROVE rank[j] < rank[i]
  <2>1. ahead(j) \subseteq ahead(i) /\ j \in ahead(i) /\ j \notin ahead(j)
    BY <1>2, NewerOrder
  <2>2. /\ Cardinality(ahead(j)) <= Cardinality(ahead(i))
        /\ Cardinality(ahead(j)) # Cardinality(ahead(i))
    <3> HIDE DEF ahead
    <3> QED  BY <1>1, <2>1, FS_Subset
  <2> QED  BY <1>1, <2>2
<1>3. ASSUME NEW i \in ids PROVE rank[i] \in 0 .. n - 1
  <2>1. ahead(i) \subseteq ids \ {i}
    BY NewerOrder
  <2>2. IsFiniteSet(ids \ {i}) /\ Cardinality(ids \ {i}) = n - 1
    BY <1>1, FS_RemoveElement
  <2>3. Cardinality(ahead(i)) <= n - 1
    <3> HIDE DEF ahead, n
    <3> QED  BY <2>1, <2>2, FS_Subset
  <2> HIDE DEF n
  <2> QED  BY <1>1, <2>3
<1>4. ASSUME NEW i \in ids, NEW j \in ids, rank[i] = rank[j] PROVE i = j
  <2> HIDE DEF rank
  <2>1. \A x \in ids : rank[x] \in Nat
    BY <1>1 DEF rank
  <2> QED  BY <1>2, <1>4, <2>1, NewerOrder
<1>5. \A k \in 1 .. n : \E i \in ids : rank[i] = k - 1
  <2>1. rank \in Injection(ids, 0 .. n - 1)
    <3>1. rank \in [ids -> 0 .. n - 1]
      <4>1. rank = [i \in ids |-> rank[i]]
        OBVIOUS
      <4> HIDE DEF rank
      <4> QED  BY <1>3, <4>1
    <3> HIDE DEF rank, n
    <3> QED  BY <1>4, <3>1 DEF Injection, IsInjective
  <2>2. IsFiniteSet(0 .. n - 1) /\ Cardinality(0 .. n - 1) = n
    <3> HIDE DEF n
    <3> QED  BY <1>1, FS_Interval
  <2>3. rank \in Surjection(ids, 0 .. n - 1)
    <3> HIDE DEF rank
    <3>1. Cardinality(ids) = Cardinality(0 .. n - 1)
      BY <2>2
    <3> HIDE DEF n
    <3> QED  BY <2>1, <2>2, <3>1, FS_Injection
  <2> HIDE DEF rank, n
  <2> QED  BY <1>1, <2>3 DEF Surjection
<1>6. m \in Nat /\ m <= n /\ m <= limit /\ (m = n \/ m = limit)
  <2> HIDE DEF n
  <2> QED  BY <1>1, MinOfTwo
<1>7. /\ DOMAIN found = 1 .. m
      /\ \A k \in 1 .. m : found[k] = CHOOSE i \in ids : Cardinality(ahead(i)) = k - 1
  BY DEF newest
<1>8. ASSUME NEW k \in 1 .. m PROVE found[k] \in ids /\ rank[found[k]] = k - 1
  <2>1. \E i \in ids : Cardinality(ahead(i)) = k - 1
    <3>1. k \in 1 .. n
      <4> HIDE DEF n, m
      <4> QED  BY <1>1, <1>6
    <3> QED  BY <1>5, <3>1
  <2> HIDE DEF ahead, found, m
  <2> QED  BY <1>7, <2>1
<1>9. found = [k \in 1 .. m |-> found[k]]
  BY DEF newest
<1> HIDE DEF rank, found, m, n, ahead
<1>10. found \in Seq(ids) /\ Len(found) = m
  <2>1. found \in [1 .. m -> ids]
    BY <1>8, <1>9
  <2> QED  BY <1>6, <2>1
<1>11. ASSUME NEW i \in ids, NEW j \in ids, rank[i] < rank[j] PROVE newer(i, j)
  <2>1. rank[i] \in Nat /\ rank[j] \in Nat
    BY <1>1, <1>3
  <2>2. ~newer(j, i) /\ i # j
    BY <1>2, <1>11, <2>1
  <2> QED  BY <2>2, NewerOrder
<1>12. ASSUME NEW k \in DOMAIN found, NEW l \in DOMAIN found, k < l
       PROVE  newer(found[k], found[l])
  <2>1. k \in 1 .. m /\ l \in 1 .. m
    BY <1>7
  <2>2. rank[found[k]] < rank[found[l]]
    BY <1>6, <1>8, <1>12, <2>1
  <2> QED  BY <1>8, <1>11, <2>1, <2>2
<1>13. ASSUME NEW i \in ids, i \notin ToSet(found) PROVE rank[i] >= m
  <2> SUFFICES ASSUME rank[i] < m PROVE FALSE
    BY <1>1, <1>3, <1>6
  <2> DEFINE k == rank[i] + 1
  <2>1. k \in 1 .. m /\ k - 1 = rank[i]
    BY <1>1, <1>3, <1>6
  <2>2. found[k] = i
    <3> HIDE DEF k
    <3>1. found[k] \in ids /\ rank[found[k]] = rank[i]
      BY <1>8, <2>1
    <3> QED  BY <1>4, <3>1
  <2> HIDE DEF k
  <2> QED  BY <1>7, <1>13, <2>1, <2>2 DEF ToSet
<1>14. ASSUME NEW i \in ids \ ToSet(found), NEW k \in DOMAIN found PROVE newer(found[k], i)
  <2>1. k \in 1 .. m /\ rank[i] >= m /\ rank[i] \in Nat
    BY <1>1, <1>3, <1>7, <1>13
  <2>2. rank[found[k]] < rank[i]
    BY <1>6, <1>8, <2>1
  <2> QED  BY <1>8, <1>11, <2>1, <2>2
<1>15. ASSUME Len(found) < limit, NEW i \in ids PROVE i \in ToSet(found)
  <2>1. m = n
    BY <1>6, <1>10, <1>15
  <2>2. rank[i] <= n - 1 /\ rank[i] \in Nat
    BY <1>1, <1>3
  <2>3. ~(rank[i] >= m)
    BY <1>1, <2>1, <2>2
  <2> QED  BY <1>13, <2>3
<1> QED
  <2>1. Len(found) <= limit
    BY <1>6, <1>10
  <2>2. newest(ids, limit) = found
    BY DEF found
  <2> QED  BY <1>10, <1>12, <1>14, <1>15, <2>1, <2>2

\* What has been read: nothing is read twice, what is read is newer than the
\* row of the cursor or is that row, and what is left of the rows there were at
\* the beginning is older.
reading(w, j) ==
    /\ walk.wallet = {w}
    /\ walk.nextCursor = <<time(j), j>>
    /\ walk.began \subseteq of_wallet(w)
    /\ \A i \in ToSet(walk.seen) : ~newer(j, i)
    /\ \A i \in walk.began \ ToSet(walk.seen) : newer(j, i)

WalkInv ==
    /\ walk.seen \in Seq(Ids)
    /\ IsInjective(walk.seen)
    /\ walk.began \subseteq Ids
    /\ ~walk.hasMore => walk.began \subseteq ToSet(walk.seen)
    /\ walk.hasMore => \E w \in Wallets, j \in Ids : reading(w, j)

LEMMA OfWallet == \A w : of_wallet(w) \subseteq Ids
  BY DEF of_wallet, Ids

LEMMA ConcatInjective ==
    ASSUME NEW X, NEW s \in Seq(X), NEW t \in Seq(X), IsInjective(s), IsInjective(t),
           ToSet(s) \cap ToSet(t) = {}
    PROVE  IsInjective(s \o t)
<1> DEFINE u == s \o t
<1>1. \A i \in DOMAIN u : \/ i \in DOMAIN s /\ u[i] = s[i]
                          \/ i - Len(s) \in DOMAIN t /\ u[i] = t[i - Len(s)]
  OBVIOUS
<1>2. \A i \in DOMAIN u : i \in Int
  OBVIOUS
<1>3. Len(s) \in Int
  OBVIOUS
<1>4. ASSUME NEW i \in DOMAIN u, NEW j \in DOMAIN u, u[i] = u[j] PROVE i = j
  <2>1. \A x \in DOMAIN s, y \in DOMAIN t : s[x] # t[y]
    BY DEF ToSet
  <2> HIDE DEF u
  <2> QED  BY <1>1, <1>2, <1>3, <1>4, <2>1 DEF IsInjective
<1> HIDE DEF u
<1>5. IsInjective(u)
  BY <1>4 DEF IsInjective
<1> QED  BY <1>5 DEF u

LEMMA PageHolds ==
    ASSUME TypeOK, NEW w \in Wallets, NEW cursor, NEW limit \in Limits,
           NEW seen \in Seq(Ids), NEW began \in SUBSET of_wallet(w),
           IsInjective(seen),
           \A i \in ToSet(seen) : \A x \in Ids : after(x, cursor) => newer(i, x),
           \A i \in began \ ToSet(seen) : after(i, cursor),
           ReadPage(w, cursor, limit, seen, began), UNCHANGED rows
    PROVE  WalkInv'
<1> DEFINE ids == {i \in of_wallet(w) : after(i, cursor)}
           found == newest(ids, limit + 1)
           hasMore == Len(found) > limit
           page == IF hasMore THEN Front(found) ELSE found
<1>1. limit \in Nat /\ limit >= 1 /\ limit + 1 \in Nat \ {0}
  BY QueueAssumption
<1>2. ids \in SUBSET Ids /\ began \subseteq Ids
  BY OfWallet
<1>3. /\ found \in Seq(ids) /\ Len(found) <= limit + 1
      /\ \A k, l \in DOMAIN found : k < l => newer(found[k], found[l])
      /\ \A i \in ids \ ToSet(found) : \A k \in DOMAIN found : newer(found[k], i)
      /\ Len(found) < limit + 1 => ids \subseteq ToSet(found)
  <2> HIDE DEF ids
  <2> QED  BY <1>1, <1>2, NewestHolds
<1>4. walk' = [wallet     |-> {w},
               nextCursor |-> IF hasMore THEN <<time(Last(page)), Last(page)>> ELSE <<>>,
               hasMore    |-> hasMore,
               seen       |-> seen \o page,
               began      |-> began]
  BY DEF ReadPage, selected
<1> HIDE DEF found
<1>5. /\ page \in Seq(ids) /\ Len(page) <= Len(found)
      /\ \A k \in DOMAIN page : k \in DOMAIN found /\ page[k] = found[k]
      /\ hasMore => Len(page) = limit
      /\ ~hasMore => page = found
  <2> HIDE DEF ids
  <2>1. CASE hasMore
    <3>1. page = SubSeq(found, 1, limit) /\ Len(found) = limit + 1
      BY <1>1, <1>3, <2>1 DEF Front
    <3>2. /\ page \in Seq(ids) /\ Len(page) = limit
          /\ \A k \in 1 .. limit : page[k] = found[k]
      <4> HIDE DEF page
      <4> QED  BY <1>1, <1>3, <3>1
    <3> HIDE DEF page, hasMore
    <3> QED  BY <1>1, <1>3, <2>1, <3>1, <3>2
  <2>2. CASE ~hasMore
    BY <1>3, <2>2
  <2> QED  BY <2>1, <2>2
<1>6. DOMAIN found = 1 .. Len(found) /\ DOMAIN page = 1 .. Len(page) /\ Len(page) \in Nat
  <2> HIDE DEF page
  <2> QED  BY <1>3, <1>5
<1> HIDE DEF page, hasMore
<1>7. \A k \in DOMAIN page : page[k] \in ids
  <2> HIDE DEF ids
  <2> QED  BY <1>5
<1>8. IsInjective(page)
  <2>1. ASSUME NEW k \in DOMAIN page, NEW l \in DOMAIN page, page[k] = page[l] PROVE k = l
    <3>1. ~(k < l) /\ ~(l < k)
      BY <1>2, <1>3, <1>5, <1>7, <2>1, NewerOrder
    <3> QED  BY <1>6, <3>1
  <2> QED  BY <2>1 DEF IsInjective
<1>9. \A i \in ToSet(seen) : i \in Ids
  BY DEF ToSet
<1>10. ToSet(seen) \cap ToSet(page) = {}
  <2>1. ASSUME NEW i \in ToSet(seen), NEW k \in DOMAIN page, i = page[k] PROVE FALSE
    BY <1>2, <1>7, <1>9, <2>1, NewerOrder
  <2> QED  BY <2>1 DEF ToSet
<1>11. /\ seen \o page \in Seq(Ids) /\ IsInjective(seen \o page)
       /\ ToSet(seen \o page) = ToSet(seen) \cup ToSet(page)
  <2> HIDE DEF ids
  <2>1. page \in Seq(Ids)
    BY <1>2, <1>5
  <2> HIDE DEF Ids
  <2> QED  BY <2>1, <1>8, <1>10, ConcatInjective, ConcatHolds
<1>12. \A i \in began : i \in ToSet(seen) \/ i \in ids
  OBVIOUS
<1>13. ASSUME ~hasMore PROVE began \subseteq ToSet(seen \o page)
  <2>1. Len(found) < limit + 1
    BY <1>1, <1>3, <1>13 DEF hasMore
  <2>2. ids \subseteq ToSet(page)
    BY <1>3, <1>5, <1>13, <2>1
  <2> QED  BY <1>11, <1>12, <2>2
<1>14. ASSUME hasMore
       PROVE  \E j \in Ids :
                 /\ j = Last(page)
                 /\ \A i \in ToSet(seen \o page) : ~newer(j, i)
                 /\ \A i \in began \ ToSet(seen \o page) : newer(j, i)
  <2> DEFINE j == found[limit]
  <2>1. limit \in DOMAIN page /\ limit \in DOMAIN found /\ Len(page) = limit
    BY <1>1, <1>5, <1>6, <1>14
  <2>2. j = Last(page) /\ j \in ids /\ j \in Ids
    BY <1>2, <1>5, <1>7, <2>1 DEF Last
  <2>3. \A i \in ToSet(seen) : ~newer(j, i)
    BY <1>9, <2>2, NewerOrder
  <2>4. ASSUME NEW k \in DOMAIN page PROVE ~newer(j, page[k])
    <3>1. k = limit \/ k < limit
      BY <1>1, <1>6, <2>1
    <3>2. page[k] = found[k] /\ k \in DOMAIN found /\ page[k] \in Ids
      BY <1>2, <1>5, <1>7
    <3>3. CASE k = limit
      BY <2>2, <3>2, <3>3, NewerOrder
    <3>4. CASE k < limit
      <4>1. newer(found[k], j)
        BY <1>3, <2>1, <3>2, <3>4
      <4> QED  BY <2>2, <3>2, <4>1, NewerOrder
    <3> QED  BY <3>1, <3>3, <3>4
  <2>5. ASSUME NEW i \in began, i \notin ToSet(seen \o page) PROVE newer(j, i)
    <3>1. i \in ids /\ i \notin ToSet(page)
      BY <1>11, <1>12, <2>5
    <3>2. CASE i \in ToSet(found)
      <4>1. PICK k \in DOMAIN found : found[k] = i
        BY <3>2 DEF ToSet
      <4>2. ~(k \in DOMAIN page)
        BY <1>5, <3>1, <4>1 DEF ToSet
      <4>3. limit < k
        BY <1>1, <1>6, <2>1, <4>2
      <4> QED  BY <1>3, <2>1, <4>1, <4>3
    <3>3. CASE i \notin ToSet(found)
      BY <1>3, <2>1, <3>1, <3>3
    <3> QED  BY <3>2, <3>3
  <2>6. \A i \in ToSet(seen \o page) : ~newer(j, i)
    <3> HIDE DEF j
    <3>1. \A i \in ToSet(page) : ~newer(j, i)
      BY <2>4 DEF ToSet
    <3> QED  BY <1>11, <2>3, <3>1
  <2> HIDE DEF j
  <2> QED  BY <2>2, <2>5, <2>6
<1> HIDE DEF ids
<1> DEFINE all == seen \o page
<1>15. /\ walk'.wallet = {w} /\ walk'.seen = all /\ walk'.began = began
       /\ walk'.hasMore = hasMore
       /\ hasMore => walk'.nextCursor = <<time(Last(page)), Last(page)>>
  BY <1>4
<1>16. /\ all \in Seq(Ids) /\ IsInjective(all)
       /\ ~hasMore => began \subseteq ToSet(all)
       /\ hasMore => \E j \in Ids :
             /\ j = Last(page)
             /\ \A i \in ToSet(all) : ~newer(j, i)
             /\ \A i \in began \ ToSet(all) : newer(j, i)
  BY <1>11, <1>13, <1>14
<1> HIDE DEF all
<1>17. rows' = rows
  OBVIOUS
<1>18. Ids' = Ids /\ of_wallet(w)' = of_wallet(w)
  BY <1>17 DEF Ids, of_wallet
<1>19. walk'.hasMore => \E j \in Ids : (reading(w, j))'
  <2> SUFFICES ASSUME walk'.hasMore PROVE \E j \in Ids : (reading(w, j))'
    OBVIOUS
  <2>1. PICK j \in Ids :
             /\ j = Last(page)
             /\ \A i \in ToSet(all) : ~newer(j, i)
             /\ \A i \in began \ ToSet(all) : newer(j, i)
    BY <1>15, <1>16
  <2>2. (reading(w, j))'
    BY <1>15, <1>17, <1>18, <2>1 DEF reading, newer, time
  <2> QED  BY <2>2
<1> QED  BY <1>2, <1>15, <1>16, <1>18, <1>19 DEF WalkInv

LEMMA WalkInit == Init => WalkInv
<1> SUFFICES ASSUME Init PROVE WalkInv
  OBVIOUS
<1>1. walk.seen = << >> /\ walk.began = {} /\ walk.hasMore = FALSE
  BY DEF Init, NoWalk
<1>2. << >> \in Seq(Ids) /\ IsInjective(<< >>)
  BY DEF IsInjective
<1> QED  BY <1>1, <1>2 DEF WalkInv

LEMMA OpenKeeps ==
    ASSUME StoreInv, NEW w \in Readers, NEW limit \in Limits, Open(w, limit)
    PROVE  WalkInv'
<1>1. ReadPage(w, <<>>, limit, <<>>, of_wallet(w)) /\ UNCHANGED rows
  BY DEF Open
<1>2. w \in Wallets /\ << >> \in Seq(Ids) /\ IsInjective(<< >>) /\ ToSet(<< >>) = {}
  BY QueueAssumption DEF IsInjective, ToSet
<1>3. \A i \in of_wallet(w) : after(i, << >>)
  BY DEF after
<1> QED  BY <1>1, <1>2, <1>3, PageHolds DEF StoreInv

LEMMA MoreKeeps ==
    ASSUME StoreInv, WalkInv, NEW limit \in Limits, More(limit)
    PROVE  WalkInv'
<1> DEFINE cursor == walk.nextCursor
           seen == walk.seen
           began == walk.began
<1>1. PICK w \in Wallets, j \in Ids : reading(w, j)
  BY DEF WalkInv, More
<1>2. ReadPage(w, cursor, limit, seen, began) /\ UNCHANGED rows
  <2>1. \E v \in walk.wallet : ReadPage(v, walk.nextCursor, limit, walk.seen, walk.began)
    BY DEF More
  <2>2. walk.wallet = {w}
    BY <1>1 DEF reading
  <2> QED  BY <2>1, <2>2 DEF More
<1>3. cursor = <<time(j), j>> /\ began \in SUBSET of_wallet(w)
  BY <1>1 DEF reading
<1>4. TypeOK
  BY DEF StoreInv
<1>5. \A x \in Ids : after(x, cursor) <=> newer(j, x)
  BY <1>3, <1>4, NewerOrder DEF after, newer
<1>6. seen \in Seq(Ids) /\ IsInjective(seen)
  BY DEF WalkInv
<1>7. \A i \in ToSet(seen) : i \in Ids /\ ~newer(j, i)
  BY <1>1, <1>6 DEF reading, ToSet
<1>8. ASSUME NEW i \in ToSet(seen), NEW x \in Ids, after(x, cursor) PROVE newer(i, x)
  <2>1. newer(j, x)
    BY <1>5, <1>8
  <2>2. i \in Ids /\ (i = j \/ newer(i, j))
    BY <1>4, <1>7, NewerOrder
  <2> QED  BY <1>4, <2>1, <2>2, NewerOrder
<1>9. \A i \in began \ ToSet(seen) : after(i, cursor)
  BY <1>1, <1>3, <1>5, OfWallet DEF reading
<1> HIDE DEF cursor, seen, began
<1> QED  BY <1>2, <1>3, <1>4, <1>6, <1>8, <1>9, PageHolds

\* The table only grows, by rows at its end: no id ever means another row.
LEMMA RowsGrow ==
    ASSUME StoreInv, [Next]_vars
    PROVE  Grown(rows, rows')
<1>1. CASE rows' = rows
  BY <1>1 DEF Grown
<1>2. CASE \E c \in Consumers : StoreRows(c)
  <2>1. PICK c \in Consumers : StoreRows(c)
    BY <1>2
  <2>2. PICK chunk \in Seq(RowSet) : rows' = FoldLeft(insert_or_ignore, rows, chunk)
    BY <2>1, ChunkStored
  <2>3. rows \in Seq(RowSet)
    BY DEF StoreInv, TypeOK
  <2>4. Inserted(RowSet, rows, rows', ToSet(chunk))
    BY <2>2, <2>3, InsertsAll
  <2> QED  BY <2>4 DEF Inserted
<1>3. rows' = rows \/ \E c \in Consumers : StoreRows(c)
  BY DEF Next, vars, Deliver, Take, TakeBatch, Consume, BookFees, AckAll, RetryAll, Open, More
<1> QED  BY <1>1, <1>2, <1>3

LEMMA WalkKept ==
    ASSUME StoreInv, StoreInv', WalkInv, UNCHANGED walk, Grown(rows, rows')
    PROVE  WalkInv'
<1>1. TypeOK /\ TypeOK'
  BY DEF StoreInv
<1>2. \A i \in Ids : i \in Ids' /\ rows'[i] = rows[i] /\ time(i)' = time(i)
  <2>1. Ids = 1 .. Len(rows) /\ Ids' = 1 .. Len(rows') /\ Len(rows) \in Nat /\ Len(rows') \in Nat
    BY <1>1 DEF TypeOK, Ids
  <2>2. \A i \in Ids : rows'[i] = rows[i]
    BY DEF Grown, Ids
  <2> QED  BY <2>1, <2>2 DEF Grown, time
<1>3. walk.seen \in Seq(Ids') /\ walk.began \subseteq Ids'
  <2>1. Ids \subseteq Ids'
    BY <1>2
  <2> HIDE DEF Ids
  <2> QED  BY <2>1 DEF WalkInv
<1>4. \A w : of_wallet(w) \subseteq of_wallet(w)'
  BY <1>2 DEF of_wallet, Ids
<1>5. ASSUME walk.hasMore PROVE \E w \in Wallets, j \in Ids' : (reading(w, j))'
  <2>1. PICK w \in Wallets, j \in Ids : reading(w, j)
    BY <1>5 DEF WalkInv
  <2>2. \A i \in Ids : newer(j, i)' <=> newer(j, i)
    BY <1>2 DEF newer
  <2>3. ToSet(walk.seen) \subseteq Ids /\ walk.began \subseteq Ids
    BY DEF WalkInv, ToSet
  <2>4. (reading(w, j))'
    <3>1. /\ walk'.wallet = {w} /\ walk'.nextCursor = <<time(j)', j>>
          /\ walk'.began \subseteq of_wallet(w)'
      BY <1>2, <1>4, <2>1 DEF reading
    <3>2. /\ \A i \in ToSet(walk'.seen) : ~newer(j, i)'
          /\ \A i \in walk'.began \ ToSet(walk'.seen) : newer(j, i)'
      <4> HIDE DEF Ids
      <4> QED  BY <2>1, <2>2, <2>3 DEF reading
    <3> QED  BY <3>1, <3>2 DEF reading
  <2> QED  BY <1>2, <2>4
<1> QED  BY <1>3, <1>5 DEF WalkInv

LEMMA WalkStep == StoreInv /\ StoreInv' /\ WalkInv /\ [Next]_vars => WalkInv'
<1> SUFFICES ASSUME StoreInv, StoreInv', WalkInv, [Next]_vars PROVE WalkInv'
  OBVIOUS
<1>1. ASSUME NEW w \in Readers, NEW limit \in Limits, Open(w, limit) PROVE WalkInv'
  BY <1>1, OpenKeeps
<1>2. ASSUME NEW limit \in Limits, More(limit) PROVE WalkInv'
  BY <1>2, MoreKeeps
<1>3. ASSUME UNCHANGED walk PROVE WalkInv'
  BY <1>3, RowsGrow, WalkKept
<1>4. \/ \E w \in Readers, limit \in Limits : Open(w, limit)
      \/ \E limit \in Limits : More(limit)
      \/ UNCHANGED walk
  BY DEF Next, vars, Deliver, Take, TakeBatch, Consume, StoreRows, BookFees, AckAll, RetryAll
<1> QED  BY <1>1, <1>2, <1>3, <1>4

LEMMA WalkInvariance == Spec => [](StoreInv /\ WalkInv)
<1>1. Init => StoreInv /\ WalkInv
  BY StoreInit, WalkInit
<1>2. StoreInv /\ WalkInv /\ [Next]_vars => (StoreInv /\ WalkInv)'
  BY StoreStep, WalkStep
<1> QED  BY <1>1, <1>2, PTL DEF Spec

\* No row is shown twice, at the end every row there was when the reading
\* began has been shown, and the table has no row twice, whatever is stored
\* between two pages and however many rows each page asks for.
THEOREM AlwaysWalkComplete == Spec => []WalkComplete
<1>1. StoreInv /\ WalkInv => WalkComplete
  BY DEF StoreInv, WalkInv, WalkComplete
<1> QED  BY <1>1, WalkInvariance, PTL

=============================================================================
