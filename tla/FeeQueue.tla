------------------------------ MODULE FeeQueue ------------------------------
(***************************************************************************)
(* From the chain to the ledger.  An outside service watches the wallets   *)
(* and posts every landed transaction to the API until it is answered with *)
(* 200; the API enqueues it; consumers take batches, store an activity row *)
(* for each wallet a transaction affects and then apply its fee events to  *)
(* its ledger, each event once (FeeLedger, BookSpec).  Any failure sends   *)
(* the whole batch back, at most MAX_RETRIES times, after which its        *)
(* messages are dead letters.  Meanwhile somebody pages through the        *)
(* activity of a wallet.                                                   *)
(***************************************************************************)
EXTENDS Integers, SequencesExt

CONSTANTS
    Messages,           \* transactions that may land
    Malformed,          \* those whose message the consumer cannot read
    Credits, Debits,    \* those that move the balance of a token, and how
    Earlier,            \* those that were dealt with before
    Queued,             \* those that were enqueued before
    Wallets, Readers,   \* and those whose activity is read
    Affects,            \* [Messages -> Seq(Wallets)]: whose balances it moves
    BlockTime,          \* [Messages -> Nat]: when it landed
    Consumers,          \* invocations of the queue consumer at a time
    Copies,             \* bound: how many copies of a message are enqueued
    MaxBatch,           \* max_batch_size
    MAX_RETRIES,        \* max_retries
    D1_BATCH_CHUNK,
    Limits              \* the limits GET /wallets/:address/activity is asked for

ASSUME QueueAssumption ==
    /\ Malformed \cup Earlier \cup Queued \cup Credits \cup Debits \subseteq Messages
    /\ IsFiniteSet(Earlier)
    /\ Readers \subseteq Wallets
    /\ Affects \in [Messages -> Seq(Wallets)]
    /\ BlockTime \in [Messages -> Nat]
    /\ {MaxBatch, D1_BATCH_CHUNK, Copies} \cup Limits \subseteq Nat \ {0}
    /\ MAX_RETRIES \in Nat

VARIABLES
    booked,     \* fee_events of the ledgers: <<message, kind>>
    hook,       \* what the service has still to tell: due or told.  A transaction
                \* that has not landed is one whose delivery is late.
    queue,      \* enqueued copies and the retries each has left
    batch,      \* the batch each consumer is at
    dead,       \* the dead-letter queue
    rows,       \* wallet_activity in order of insertion; a row's id is its place
    walk        \* somebody reading page by page

vars == <<booked, hook, queue, batch, dead, rows, walk>>

Idle == [stage |-> "idle", copies |-> <<>>, next |-> 1]

NoWalk == [wallet |-> {}, nextCursor |-> <<>>, hasMore |-> FALSE, seen |-> <<>>, began |-> {}]

message(copy) == copy[1]

-----------------------------------------------------------------------------
(* POST /webhooks/transactions *)

\* 500 has the service deliver the transaction again.
reply(enqueued) == IF enqueued THEN "told" ELSE "due"

free_copies(m) == ({m} \X (1 .. Copies)) \ DOMAIN queue

Enqueued(m, copy) ==
    /\ copy \in free_copies(m)
    /\ queue' = [d \in DOMAIN queue \cup {copy} |-> IF d = copy THEN MAX_RETRIES ELSE queue[d]]

\* The send may fail, and the answer to one that did not may be lost, in which
\* case the next delivery enqueues another copy.
Deliver(m) ==
    /\ hook[m] = "due"
    /\ \/ \E copy \in free_copies(m), heard \in BOOLEAN :
             /\ Enqueued(m, copy)
             /\ hook' = [hook EXCEPT ![m] = IF heard THEN reply(TRUE) ELSE "due"]
       \/ /\ hook' = [hook EXCEPT ![m] = reply(FALSE)]
          /\ UNCHANGED queue
    /\ UNCHANGED <<booked, batch, dead, rows, walk>>

-----------------------------------------------------------------------------
(* processWalletTxBatch *)

Taken(c) == ToSet(batch[c].copies)

Work(stage, copies) == [stage |-> stage, copies |-> copies, next |-> 1]

\* activityRowsFromResult: who is shown the transaction
activityRows(m) == [i \in DOMAIN Affects[m] |-> <<Affects[m][i], m>>]

RowsOf(copies) == FlattenSeq([i \in DOMAIN copies |-> activityRows(message(copies[i]))])

first_stage(copies) == IF RowsOf(copies) = <<>> THEN "fees" ELSE "rows"

\* Malformed messages are acknowledged one by one, and a batch of nothing else
\* with them.
TakeBatch(c, copies, malformed) ==
    /\ batch[c] = Idle
    /\ Len(copies) + Cardinality(malformed) \in 1 .. MaxBatch
    /\ batch' = [batch EXCEPT ![c] =
                    IF copies = <<>> THEN Idle ELSE Work(first_stage(copies), copies)]
    /\ queue' = [d \in DOMAIN queue \ malformed |-> queue[d]]
    /\ UNCHANGED <<booked, hook, dead, rows, walk>>

\* INSERT OR IGNORE under the unique index on wallet and signature
insert_or_ignore(rs, row) == IF row \in ToSet(rs) THEN rs ELSE Append(rs, row)

Advance(c, by, over, stage_after) ==
    LET taken == batch[c] IN
      batch' = [batch EXCEPT ![c] = IF over THEN Work(stage_after, taken.copies)
                                            ELSE [taken EXCEPT !.next = taken.next + by]]

(* Mutant of last_chunk: the loop ends a row early. *)
last_chunk_early(next, all) == next + D1_BATCH_CHUNK >= Len(all)

last_chunk(next, all) == next + D1_BATCH_CHUNK > Len(all)

\* One db.batch of storeWalletActivities; the ledgers are told when every chunk
\* of rows is stored.
StoreRows(c) ==
    LET all   == RowsOf(batch[c].copies)
        next  == batch[c].next
        chunk == SubSeq(all, next, Min({Len(all), next + D1_BATCH_CHUNK - 1}))
    IN  /\ batch[c].stage = "rows"
        /\ rows' = FoldLeft(insert_or_ignore, rows, chunk)
        /\ Advance(c, D1_BATCH_CHUNK, last_chunk(next, all), "fees")
        /\ UNCHANGED <<booked, hook, queue, dead, walk>>

fee_events(m) ==
    {<<c, "credit">> : c \in Credits \cap {m}} \cup {<<d, "debit">> : d \in Debits \cap {m}}

\* processSubscribeFeeTx of one transaction
BookFees(c) ==
    LET m == message(batch[c].copies[batch[c].next]) IN
      /\ batch[c].stage = "fees"
      /\ booked' = booked \cup fee_events(m)
      /\ Advance(c, 1, batch[c].next = Len(batch[c].copies), "ack")
      /\ UNCHANGED <<hook, queue, dead, rows, walk>>

AckAll(c) ==
    /\ batch[c].stage = "ack"
    /\ queue' = [d \in DOMAIN queue \ Taken(c) |-> queue[d]]
    /\ batch' = [batch EXCEPT ![c] = Idle]
    /\ UNCHANGED <<booked, hook, dead, rows, walk>>

(* Mutant of kept_for_retry: a failed batch is acknowledged. *)
acked_on_failure(d) == FALSE

kept_for_retry(d) == queue[d] > 0

\* A call of D1 or of a ledger fails, or the worker dies with the batch: it is
\* retried as a whole, and messages without retries left are dead letters.
RetryAll(c) ==
    /\ batch[c] # Idle
    /\ LET kept == {d \in Taken(c) : kept_for_retry(d)} IN
         /\ queue' = [d \in (DOMAIN queue \ Taken(c)) \cup kept |->
                         IF d \in kept THEN queue[d] - 1 ELSE queue[d]]
         /\ dead' = dead \cup {message(d) : d \in {e \in Taken(c) : queue[e] = 0}}
    /\ batch' = [batch EXCEPT ![c] = Idle]
    /\ UNCHANGED <<booked, hook, rows, walk>>

-----------------------------------------------------------------------------
(* GET /wallets/:address/activity *)

time(id) == BlockTime[rows[id][2]]

newer(i, j) == time(i) > time(j) \/ (time(i) = time(j) /\ i > j)

(* Mutant of after: rows of the cursor's own block time are left out. *)
strictly_older(i, cursor) == cursor = <<>> \/ time(i) < cursor[1]

\* The cursor is the block time and the id of the last row of the page before.
after(i, cursor) ==
    \/ cursor = <<>>
    \/ time(i) < cursor[1]
    \/ time(i) = cursor[1] /\ i < cursor[2]

of_wallet(w) == {i \in DOMAIN rows : rows[i][1] = w}

\* ORDER BY block_time DESC, id DESC LIMIT: at each place the row that has as
\* many newer ones among the ids as there are places before it
newest(ids, limit) ==
    [k \in 1 .. Min({Cardinality(ids), limit}) |->
        CHOOSE i \in ids : Cardinality({j \in ids : newer(j, i)}) = k - 1]

\* One more row than the page holds
selected(w, cursor, limit) == newest({i \in of_wallet(w) : after(i, cursor)}, limit + 1)

\* The first page, or the one after the cursor
ReadPage(w, cursor, limit, seen, began) ==
    LET found == selected(w, cursor, limit)
        hasMore == Len(found) > limit
        page == IF hasMore THEN Front(found) ELSE found
    IN  walk' = [wallet     |-> {w},
                 nextCursor |-> IF hasMore THEN <<time(Last(page)), Last(page)>> ELSE <<>>,
                 hasMore    |-> hasMore,
                 seen       |-> seen \o page,
                 began      |-> began]

Open(w, limit) ==
    /\ walk = NoWalk
    /\ ReadPage(w, <<>>, limit, <<>>, of_wallet(w))
    /\ UNCHANGED <<booked, hook, queue, batch, dead, rows>>

More(limit) ==
    /\ walk.hasMore
    /\ \E w \in walk.wallet : ReadPage(w, walk.nextCursor, limit, walk.seen, walk.began)
    /\ UNCHANGED <<booked, hook, queue, batch, dead, rows>>

-----------------------------------------------------------------------------
Init ==
    /\ booked = UNION {fee_events(m) : m \in Earlier}
    /\ hook = [m \in Messages |-> IF m \in Earlier \cup Queued THEN "told" ELSE "due"]
    /\ queue = [copy \in Queued \X {1} |-> MAX_RETRIES]
    /\ batch = [c \in Consumers |-> Idle]
    /\ dead = {}
    /\ rows = SetToSeq(UNION {ToSet(activityRows(m)) : m \in Earlier})
    /\ walk = NoWalk

Unclaimed == DOMAIN queue \ UNION {Taken(c) : c \in Consumers}

Unreadable == {d \in Unclaimed : message(d) \in Malformed}

\* A batch: the copies that can be read, in some order, and others
Take(copies, malformed) ==
    /\ IsInjective(copies)
    /\ \E c \in Consumers : TakeBatch(c, copies, malformed)

Consume(c) == StoreRows(c) \/ BookFees(c) \/ AckAll(c)

Next ==
    \/ \E m \in Messages : Deliver(m)
    \/ \E copies \in SeqOf(Unclaimed \ Unreadable, MaxBatch), malformed \in SUBSET Unreadable :
          Take(copies, malformed)
    \/ \E c \in Consumers : Consume(c) \/ RetryAll(c)
    \/ \E w \in Readers, limit \in Limits : Open(w, limit)
    \/ \E limit \in Limits : More(limit)

Spec == Init /\ [][Next]_vars

\* The service delivers until a delivery is answered ("the service retries
\* indefinitely", 0002_wallet_activity.sql), the platform hands out what is
\* queued, and a batch is worked on or given up.
FairSpec ==
    /\ Spec
    /\ \A m \in Messages \ Malformed :
          /\ WF_vars(Deliver(m) /\ hook'[m] = "told")
          /\ SF_vars(\E copies \in SeqOf(Unclaimed \ Unreadable, MaxBatch),
                        malformed \in SUBSET Unreadable :
                        m \in {message(d) : d \in ToSet(copies)} /\ Take(copies, malformed))
    /\ \A c \in Consumers : WF_vars(Consume(c) \/ RetryAll(c))

-----------------------------------------------------------------------------
(* Properties *)

IsBooked(m) == fee_events(m) \subseteq booked

\* What is booked can be seen: whenever the ledger has moved for a transaction
\* the activity of every wallet it affects shows it, although rows and ledgers
\* fail independently and batches are retried and given up half done.
BookedIsShown ==
    \A e \in booked : ToSet(activityRows(e[1])) \subseteq ToSet(rows)

\* A landed transaction that can be read ends in its ledger or among the dead
\* letters: a failed send is delivered again and a failed batch is retried, so
\* none is dropped on the way.
LandedIsBooked ==
    \A m \in Messages \ Malformed :
       hook[m] = "due" ~> (IsBooked(m) \/ m \in dead)

\* Reading page after page shows no row twice and, at the end, every row that
\* was stored when the reading began, whatever rows of whatever age arrive in
\* between and however many rows each page asks for; no wallet is shown a
\* transaction twice.
WalkComplete ==
    /\ IsInjective(walk.seen)
    /\ ~walk.hasMore => walk.began \subseteq ToSet(walk.seen)
    /\ IsInjective(rows)

=============================================================================
