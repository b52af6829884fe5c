----------------------------- MODULE FeeLedger -----------------------------
(***************************************************************************)
(* The TokenSigner Durable Object of one token and its SQLite store: the   *)
(* prepaid fee balance, the reserves taken when a transaction is signed,   *)
(* the fee events applied, and the alarm that clears expired reserves.     *)
(*                                                                         *)
(* JavaScript runs one request at a time up to its next await, so an       *)
(* action is what a request does between two awaits.  signTransactions     *)
(* awaits the digest of a message, its signature and the alarm; other      *)
(* requests, deliveries, the clock and a restart come in between.          *)
(***************************************************************************)
EXTENDS Integers, Sequences, FiniteSets, FiniteSetsExt

CONSTANTS
    Messages,                     \* compiled transaction messages
    Kind,                         \* what signTransactions makes of each, in Kinds
    Credit, Debit,                \* what a landed message moves, see FeeBook
    Batches,                      \* lists of messages a client submits in one call
    Outside,                      \* messages that may land without this signer
    Requests,                     \* calls of signTransactions in flight at a time
    MIN_ATTEMPT_FEE_LAMPORTS,
    STARTER_FEE_BALANCE_LAMPORTS,
    MAX_CONCURRENT_FEE_RESERVES,
    FEE_RESERVE_TTL,              \* in ticks
    Restarts                      \* the object may be evicted and restarted

(***************************************************************************)
(* A "refused" wire does not decode, is for another token, or has a fee    *)
(* payer this service holds no key for: all end the request the same way,  *)
(* before anything is reserved for that wire.                              *)
(***************************************************************************)
Kinds == {"spend", "topup", "refused"}

ASSUME LedgerAssumption ==
    /\ Kind \in [Messages -> Kinds]
    /\ Credit \in [Messages -> Nat]
    /\ Debit \in [Messages -> Nat]
    /\ Batches \subseteq Seq(Messages) \ {<<>>}
    /\ Outside \subseteq Messages
    /\ MIN_ATTEMPT_FEE_LAMPORTS \in Nat \ {0}
    /\ STARTER_FEE_BALANCE_LAMPORTS \in Nat \ {0}
    /\ MAX_CONCURRENT_FEE_RESERVES \in Nat
    /\ FEE_RESERVE_TTL \in Nat \ {0}
    /\ Restarts \in BOOLEAN

VARIABLES
    balance,     \* fee_balance
    granted,     \* meta.starter_granted
    reserves,    \* fee_reserves: id -> ticks left; 0 is expired, still in the table
    booked,      \* fee_events: <<message, kind>>
    alarm,       \* ticks until the object's alarm, or NoAlarm
    request,     \* the calls of signTransactions in flight
    answered     \* messages whose signature a client was given

store == <<balance, granted, reserves, booked>>
vars == <<balance, granted, reserves, booked, alarm, request, answered>>

NoAlarm == -1

(***************************************************************************)
(* Names.  A reserve is named by the hash of its message until the message *)
(* is signed, then by the signature as FeePayerSigner.sign encodes it; the *)
(* chain reports a signature in base58.                                    *)
(***************************************************************************)
messageReserveId(m) == <<"hash", m>>
signature(m) == <<"base64", m>>
observed_signature(m) == <<"base58", m>>
Ids == {"hash", "base64"} \X Messages

Idle == [phase |-> "idle", batch |-> <<>>, next |-> 1, held |-> {}]
Pending(phase, batch, next, held) ==
    [phase |-> phase, batch |-> batch, next |-> next, held |-> held]

-----------------------------------------------------------------------------
(* The store. *)

open(rs) == {id \in DOMAIN rs : rs[id] > 0}

release(rs, ids) == [id \in DOMAIN rs \ ids |-> rs[id]]

expireReserves(rs) == release(rs, DOMAIN rs \ open(rs))

getReservedLamports(rs) == MIN_ATTEMPT_FEE_LAMPORTS * Cardinality(open(rs))

has_slot(rs) == Cardinality(open(rs)) < MAX_CONCURRENT_FEE_RESERVES

(* Mutant of has_funds: checks the balance, not what is left of it. *)
has_balance(rs) == balance >= MIN_ATTEMPT_FEE_LAMPORTS

has_funds(rs) == balance - getReservedLamports(rs) >= MIN_ATTEMPT_FEE_LAMPORTS

(* A second attempt on the same message shares its reserve. *)
can_reserve(rs, id) == id \in open(rs) \/ (has_slot(rs) /\ has_funds(rs))

reserve(rs, id) ==
    [i \in DOMAIN rs \cup {id} |-> IF i = id /\ id \notin open(rs) THEN FEE_RESERVE_TTL ELSE rs[i]]

(* An existing row of the target name wins, expired or not. *)
rebindReserve(rs, from, to) ==
    IF from \notin open(rs) THEN rs
    ELSE [i \in (DOMAIN rs \ {from}) \cup {to} |->
              IF i \in DOMAIN rs \ {from} THEN rs[i] ELSE rs[from]]

nextReserveExpiry(rs) == Min({rs[id] : id \in open(rs)})

scheduled(rs) == IF open(rs) = {} THEN alarm ELSE nextReserveExpiry(rs)

amount(m, kind) == IF kind = "credit" THEN Credit[m] ELSE Debit[m]

(* Mutant of fresh: a redelivery is applied again. *)
every_event(m) == {e \in {m} \X {"credit", "debit"} : amount(m, e[2]) > 0}

(* The events of a landed message that change the balance. *)
fresh(m) == {e \in {m} \X {"credit", "debit"} : amount(m, e[2]) > 0 /\ e \notin booked}

applied(m) ==
    LET side(kind) == IF <<m, kind>> \in fresh(m) THEN amount(m, kind) ELSE 0
    IN  Max({0, balance + side("credit") - side("debit")})

(* Mutant of settled: a debit releases whichever reserve is oldest. *)
settled_oldest_first(rs, m) ==
    release(expireReserves(rs), {id \in open(rs) : \A j \in open(rs) : rs[id] <= rs[j]})

settled(rs, m) == release(expireReserves(rs), {observed_signature(m)})

-----------------------------------------------------------------------------
(* signTransactions *)

(***************************************************************************)
(* FeePayerSigner.sign waits for nothing outside the object: while it is   *)
(* awaited, other requests that are ready go on, but no new event is taken *)
(* and Date.now() stands still.                                            *)
(***************************************************************************)
taking_events == \A r \in Requests : request[r].phase # "sign"

Fail(r, rs, held) ==
    /\ reserves' = release(rs, held)
    /\ request' = [request EXCEPT ![r] = Idle]
    /\ UNCHANGED alarm

(* From the top of the loop over the wires to the next await. *)
NextWire(r, rs, batch, next, held) ==
    \/ /\ next > Len(batch)
       /\ reserves' = rs
       /\ alarm' = scheduled(rs)
       /\ request' = [request EXCEPT ![r] = Pending("commit", batch, next, held)]
    \/ /\ next <= Len(batch)
       /\ Kind[batch[next]] = "refused"
       /\ Fail(r, rs, held)
    \/ /\ next <= Len(batch)
       /\ Kind[batch[next]] # "refused"
       /\ reserves' = rs
       /\ request' = [request EXCEPT ![r] =
              Pending(IF Kind[batch[next]] = "spend" THEN "digest" ELSE "sign", batch, next, held)]
       /\ UNCHANGED alarm

Submit(r, batch) ==
    /\ taking_events
    /\ request[r].phase = "idle"
    /\ NextWire(r, expireReserves(reserves), batch, 1, {})
    /\ UNCHANGED <<balance, granted, booked, answered>>

(* The digest is there: reserve or roll back. *)
Reserve(r) ==
    LET q == request[r]
        id == messageReserveId(q.batch[q.next])
    IN  /\ q.phase = "digest"
        /\ \/ /\ can_reserve(reserves, id)
              /\ reserves' = reserve(reserves, id)
              /\ request' = [request EXCEPT ![r] =
                     Pending("sign", q.batch, q.next, q.held \cup {id})]
              /\ UNCHANGED alarm
           \/ /\ ~can_reserve(reserves, id)
              /\ Fail(r, reserves, q.held \cup {id})
        /\ UNCHANGED <<balance, granted, booked, answered>>

(* Mutant of rolled_back_by: keeps the name the reserve had before. *)
rolled_back_by_hash(m) == messageReserveId(m)

(* What a rollback releases for a message that was signed. *)
rolled_back_by(m) == signature(m)

(* The signature is there: name the reserve after it, take the next wire. *)
Sign(r) ==
    LET q == request[r]
        m == q.batch[q.next]
        id == messageReserveId(m)
    IN  /\ q.phase = "sign"
        /\ \/ /\ Kind[m] = "spend"
              /\ NextWire(r, rebindReserve(reserves, id, signature(m)),
                          q.batch, q.next + 1, (q.held \ {id}) \cup {rolled_back_by(m)})
           \/ /\ Kind[m] = "topup"
              /\ NextWire(r, reserves, q.batch, q.next + 1, q.held)
        /\ UNCHANGED <<balance, granted, booked, answered>>

(* The alarm is stored: the client gets every signature of the batch. *)
Answer(r) ==
    /\ request[r].phase = "commit"
    /\ answered' = answered \cup {request[r].batch[i] : i \in DOMAIN request[r].batch}
    /\ request' = [request EXCEPT ![r] = Idle]
    /\ UNCHANGED <<store, alarm>>

-----------------------------------------------------------------------------
(* The other entry points. *)

GetFeeBalance ==
    /\ taking_events
    /\ reserves' = expireReserves(reserves)
    /\ granted' = TRUE
    /\ balance' = IF granted \/ balance > 0 THEN balance ELSE STARTER_FEE_BALANCE_LAMPORTS
    /\ UNCHANGED <<booked, alarm, request, answered>>

(***************************************************************************)
(* applyFeeEvents with the events of one landed transaction, its credit    *)
(* before its debit.  The queue that calls it delivers in any order and    *)
(* more than once.                                                         *)
(***************************************************************************)
ApplyFeeEvents(m) ==
    /\ taking_events
    /\ m \in answered \cup Outside
    /\ Credit[m] + Debit[m] > 0
    /\ balance' = applied(m)
    /\ booked' = booked \cup fresh(m)
    /\ reserves' = IF Debit[m] > 0 THEN settled(reserves, m) ELSE reserves
    /\ alarm' = scheduled(reserves')
    /\ UNCHANGED <<granted, request, answered>>

(* Mutant of after_alarm: one alarm for all reserves. *)
after_last_alarm(rs) == NoAlarm

(* What the alarm leaves scheduled, its own time being used up. *)
after_alarm(rs) == IF open(rs) = {} THEN NoAlarm ELSE nextReserveExpiry(rs)

Alarm ==
    /\ taking_events
    /\ alarm = 0
    /\ reserves' = expireReserves(reserves)
    /\ alarm' = after_alarm(reserves)
    /\ UNCHANGED <<balance, granted, booked, request, answered>>

-----------------------------------------------------------------------------
(* The environment. *)

Tick ==
    /\ taking_events
    /\ \/ open(reserves) # {}
       \/ alarm > 0
    /\ reserves' = [id \in DOMAIN reserves |-> Max({0, reserves[id] - 1})]
    /\ alarm' = IF alarm > 0 THEN alarm - 1 ELSE alarm
    /\ UNCHANGED <<balance, granted, booked, request, answered>>

(* Tables and alarm are durable, requests are not. *)
Restart ==
    /\ taking_events
    /\ Restarts
    /\ \E r \in Requests : request[r] # Idle
    /\ request' = [r \in Requests |-> Idle]
    /\ UNCHANGED <<store, alarm, answered>>

Init ==
    /\ balance = 0
    /\ granted = FALSE
    /\ reserves = [id \in {} |-> 0]
    /\ booked = {}
    /\ alarm = NoAlarm
    /\ request = [r \in Requests |-> Idle]
    /\ answered = {}

Continue(r) == Reserve(r) \/ Sign(r) \/ Answer(r)

Next ==
    \/ \E r \in Requests, batch \in Batches : Submit(r, batch)
    \/ \E r \in Requests : Continue(r)
    \/ GetFeeBalance
    \/ \E m \in Messages : ApplyFeeEvents(m)
    \/ Alarm
    \/ Tick
    \/ Restart

Spec == Init /\ [][Next]_vars

(***************************************************************************)
(* Time passes however many signatures are being made, the runtime runs a  *)
(* due alarm, and what a request awaits is computed.  Nobody has to call.  *)
(***************************************************************************)
Fairness ==
    /\ SF_vars(Tick)
    /\ SF_vars(Alarm)
    /\ \A r \in Requests : WF_vars(Continue(r))

FairSpec == Spec /\ Fairness

-----------------------------------------------------------------------------
(* Properties *)

(* However many requests are between their awaits, no more than            *)
(* MAX_CONCURRENT_FEE_RESERVES reserves are open: reserve counts and       *)
(* inserts without an await, and renaming a reserve never makes two.       *)
OpenBounded == Cardinality(open(reserves)) <= MAX_CONCURRENT_FEE_RESERVES

(* Whenever the number of open reserves grows the balance covers all of    *)
(* them.  (A debit may afterwards take the balance below what is reserved.)*)
NoOvercommit ==
    [][Cardinality(open(reserves')) > Cardinality(open(reserves))
           => getReservedLamports(reserves') <= balance']_vars

(* Both, whatever requests, restarts and deliveries interleave.            *)
ReservesFit == []OpenBounded /\ NoOvercommit

(* An open reserve that no request in flight holds and that bears the      *)
(* signature of no answered message.                                       *)
stray(id) ==
    /\ id \in open(reserves)
    /\ \A r \in Requests : id \notin request[r].held
    /\ \A m \in answered : id # signature(m)

(* A request that fails half way leaves no reserve behind, whatever ran    *)
(* between its awaits (the catch block and the early returns of            *)
(* signTransactions).                                                      *)
NoStrayReserve == [][Restart \/ \A id \in Ids : stray(id)' => stray(id)]_vars

(* A call of signTransactions over the message gives up half way.          *)
rolled_back(m) ==
    \E r \in Requests :
       /\ \E i \in DOMAIN request[r].batch : request[r].batch[i] = m
       /\ request[r].phase # "commit"
       /\ request'[r] = Idle

(* An open reserve of an answered message goes only when its transaction   *)
(* is debited ("Reserves settle on webhook debit or TTL alarm",            *)
(* token-signer.ts), or when a later call submits the same message again,  *)
(* shares its reserve and fails.  Otherwise it lasts until it expires.     *)
AnsweredReserveKept ==
    [][\A m \in answered :
           /\ signature(m) \in open(reserves)
           /\ signature(m) \notin DOMAIN reserves'
           => <<m, "debit">> \in booked' \ booked \/ rolled_back(m)]_vars

(* Booking the debit of a message leaves no open reserve in its name       *)
(* ("webhook debit settles (releases reserve + charges actual)", README of *)
(* the API worker; settleDebit).                                           *)
DebitReleasesReserve ==
    [][\A m \in Messages : <<m, "debit">> \in booked' \ booked
           => signature(m) \notin open(reserves')]_vars

(* Once an alarm is set every row of the reserve table is eventually       *)
(* deleted, with no further call: each alarm schedules the next one        *)
(* (alarm, scheduleReserveAlarm).  A restart before the first alarm is set *)
(* leaves a reserve to the next call.                                      *)
ReservesCleared ==
    \A m \in {n \in Messages : Kind[n] = "spend"} :
        \A id \in {messageReserveId(m), signature(m)} :
            alarm # NoAlarm /\ id \in DOMAIN reserves ~> id \notin DOMAIN reserves

(* The ledger keeps the promise of FeeBook: interleaved signing, expiry,   *)
(* restarts and repeated deliveries never move the balance.                *)
Book == INSTANCE FeeBook WITH Starter <- STARTER_FEE_BALANCE_LAMPORTS
BookSpec == Book!Spec
=============================================================================
