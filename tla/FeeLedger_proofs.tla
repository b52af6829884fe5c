-------------------------- MODULE FeeLedger_proofs --------------------------
(***************************************************************************)
(* Proofs about the fee ledger, for any messages, batches and number of    *)
(* requests in flight: the bounds on reserves, that no failed request      *)
(* leaves one behind and that an answered one is kept, and that the ledger *)
(* implements FeeBook.                                                     *)
(*                                                                         *)
(* The invariant these rest on says what a request holds between its       *)
(* awaits: the signatures of messages of its batch and, while it waits for *)
(* one, the hash of the message it is at.                                  *)
(***************************************************************************)
EXTENDS FeeLedger, FiniteSetTheorems, TLAPS

Working == [phase : {"digest", "sign", "commit"}, batch : Seq(Messages), next : Nat,
            held : SUBSET Ids]

TypeOK ==
    /\ balance \in Nat
    /\ granted \in BOOLEAN
    /\ DOMAIN reserves \subseteq Ids
    /\ \A id \in DOMAIN reserves : reserves[id] \in Nat
    /\ booked \subseteq Messages \X {"credit", "debit"}
    /\ request \in [Requests -> {Idle} \cup Working]
    /\ answered \subseteq Messages

ReservesBounded ==
    /\ IsFiniteSet(DOMAIN reserves)
    /\ Cardinality(open(reserves)) <= MAX_CONCURRENT_FEE_RESERVES

\* What a request that is working is at, and what it holds.
working(q) ==
    /\ q.phase \in {"digest", "sign"} => q.next \in DOMAIN q.batch
    /\ q.phase = "digest" => Kind[q.batch[q.next]] = "spend"
    /\ q.phase = "sign" => Kind[q.batch[q.next]] \in {"spend", "topup"}
    /\ q.phase = "idle" => q.held = {}
    /\ \A id \in q.held :
          \/ \E i \in DOMAIN q.batch : id = signature(q.batch[i])
          \/ /\ q.phase = "sign" /\ Kind[q.batch[q.next]] = "spend"
             /\ id = messageReserveId(q.batch[q.next])

RequestsHold == \A r \in Requests : working(request[r])

-----------------------------------------------------------------------------
(* The store's operations.                                                 *)

\* What a table of reserves is.
Table(rs) == DOMAIN rs \subseteq Ids /\ \A id \in DOMAIN rs : rs[id] \in Nat

LEMMA MaxZero == \A x \in Int : Max({0, x}) = IF x > 0 THEN x ELSE 0
<1> SUFFICES ASSUME NEW x \in Int PROVE Max({0, x}) = IF x > 0 THEN x ELSE 0
  OBVIOUS
<1>1. \E y \in {0, x} : \A z \in {0, x} : y >= z
  OBVIOUS
<1>2. Max({0, x}) \in {0, x} /\ \A z \in {0, x} : Max({0, x}) >= z
  BY <1>1 DEF Max
<1> QED  BY <1>2

LEMMA Names ==
    ASSUME NEW m \in Messages
    PROVE  messageReserveId(m) \in Ids /\ signature(m) \in Ids
  BY DEF messageReserveId, signature, Ids

LEMMA Released ==
    ASSUME NEW rs, NEW ids, Table(rs)
    PROVE  /\ Table(release(rs, ids))
           /\ DOMAIN release(rs, ids) = DOMAIN rs \ ids
           /\ open(release(rs, ids)) = open(rs) \ ids
  BY DEF Table, release, open

LEMMA Expired ==
    ASSUME NEW rs, Table(rs)
    PROVE  /\ Table(expireReserves(rs))
           /\ DOMAIN expireReserves(rs) = open(rs)
           /\ open(expireReserves(rs)) = open(rs)
<1>1. open(rs) \subseteq DOMAIN rs
  BY DEF open
<1>2. DOMAIN rs \ (DOMAIN rs \ open(rs)) = open(rs) /\ open(rs) \ (DOMAIN rs \ open(rs)) = open(rs)
  BY <1>1
<1> QED  BY <1>2, Released DEF expireReserves

LEMMA Reserved ==
    ASSUME NEW rs, NEW id \in Ids, Table(rs)
    PROVE  /\ Table(reserve(rs, id))
           /\ DOMAIN reserve(rs, id) = DOMAIN rs \cup {id}
           /\ open(reserve(rs, id)) = open(rs) \cup {id}
  BY LedgerAssumption DEF Table, reserve, open

LEMMA Rebound ==
    ASSUME NEW rs, NEW from \in Ids, NEW to \in Ids, from # to, Table(rs)
    PROVE  /\ Table(rebindReserve(rs, from, to))
           /\ DOMAIN rebindReserve(rs, from, to) \subseteq DOMAIN rs \cup {to}
           /\ open(rebindReserve(rs, from, to)) \subseteq
                 IF from \in open(rs) THEN (open(rs) \ {from}) \cup {to} ELSE open(rs)
           /\ open(rs) \ {from} \subseteq open(rebindReserve(rs, from, to))
  BY DEF Table, rebindReserve, open

LEMMA InitOK == Init => TypeOK /\ ReservesBounded /\ RequestsHold
<1> SUFFICES ASSUME Init PROVE TypeOK /\ ReservesBounded /\ RequestsHold
  OBVIOUS
<1>1. DOMAIN reserves = {} /\ open(reserves) = {}
  BY DEF Init, open
<1>2. TypeOK
  BY <1>1 DEF Init, TypeOK
<1>3. ReservesBounded
  BY <1>1, FS_EmptySet, LedgerAssumption DEF ReservesBounded
<1>4. RequestsHold
  BY DEF Init, RequestsHold, working, Idle
<1> QED  BY <1>2, <1>3, <1>4

-----------------------------------------------------------------------------
(* What a request does between two awaits.                                 *)

signatures_of(batch, held) ==
    \A id \in held : \E i \in DOMAIN batch : id = signature(batch[i])

\* The table rs, with the names held, was given to NextWire or Fail, or is
\* what Reserve left.
Leaves(r, rs, held) ==
    /\ Table(reserves')
    /\ DOMAIN reserves' \subseteq DOMAIN rs
    /\ open(reserves') \subseteq open(rs)
    /\ \A id \in open(reserves') : id \in held => id \in request'[r].held
    /\ \A id \in open(rs) : id \in DOMAIN reserves' \/ (request'[r] = Idle /\ id \in held)
    /\ request'[r] \in {Idle} \cup Working
    /\ working(request'[r])
    /\ request' = [request EXCEPT ![r] = request'[r]]

LEMMA FailLeaves ==
    ASSUME TypeOK, NEW r \in Requests, NEW rs, NEW held, Table(rs), Fail(r, rs, held)
    PROVE  Leaves(r, rs, held)
<1>1. reserves' = release(rs, held) /\ request' = [request EXCEPT ![r] = Idle] /\ request'[r] = Idle
  BY DEF Fail, TypeOK
<1>2. working(Idle)
  BY DEF working, Idle
<1>3. open(rs) \subseteq DOMAIN rs
  BY DEF open
<1>4. /\ Table(reserves') /\ DOMAIN reserves' = DOMAIN rs \ held
      /\ open(reserves') = open(rs) \ held
  <2>1. /\ Table(release(rs, held)) /\ DOMAIN release(rs, held) = DOMAIN rs \ held
        /\ open(release(rs, held)) = open(rs) \ held
    BY Released
  <2> QED  BY <1>1, <2>1
<1>5. \A id \in open(rs) : id \in DOMAIN reserves' \/ (request'[r] = Idle /\ id \in held)
  BY <1>1, <1>3, <1>4
<1>6. request'[r] \in {Idle} \cup Working /\ working(request'[r])
  BY <1>1, <1>2
<1>7. request' = [request EXCEPT ![r] = request'[r]]
  BY <1>1
<1> QED  BY <1>4, <1>5, <1>6, <1>7 DEF Leaves

LEMMA PendingLeaves ==
    ASSUME TypeOK, NEW r \in Requests, NEW rs, Table(rs), reserves' = rs,
           NEW phase \in {"digest", "sign", "commit"}, NEW batch \in Seq(Messages),
           NEW next \in Nat, NEW held \in SUBSET Ids,
           request' = [request EXCEPT ![r] = Pending(phase, batch, next, held)],
           working(Pending(phase, batch, next, held))
    PROVE  Leaves(r, rs, held)
<1>1. Pending(phase, batch, next, held) \in Working
  BY DEF Pending, Working
<1>2. request'[r] = Pending(phase, batch, next, held) /\ request'[r].held = held
  BY DEF TypeOK, Pending
<1>3. open(rs) \subseteq DOMAIN rs
  BY DEF open
<1> QED  BY <1>1, <1>2, <1>3 DEF Leaves

LEMMA NextWireLeaves ==
    ASSUME TypeOK, NEW r \in Requests, NEW rs, Table(rs), NEW batch \in Seq(Messages),
           NEW next \in Nat \ {0}, NEW held \in SUBSET Ids, signatures_of(batch, held),
           NextWire(r, rs, batch, next, held)
    PROVE  Leaves(r, rs, held)
<1>1. CASE next > Len(batch) /\ ~Fail(r, rs, held)
  <2>1. reserves' = rs /\ request' = [request EXCEPT ![r] = Pending("commit", batch, next, held)]
    BY <1>1 DEF NextWire
  <2>2. working(Pending("commit", batch, next, held))
    BY DEF working, Pending, signatures_of
  <2> QED  BY <2>1, <2>2, PendingLeaves
<1>2. CASE Fail(r, rs, held)
  BY <1>2, FailLeaves
<1>3. CASE next <= Len(batch) /\ ~Fail(r, rs, held)
  <2> DEFINE phase == IF Kind[batch[next]] = "spend" THEN "digest" ELSE "sign"
  <2>1. next \in DOMAIN batch /\ batch[next] \in Messages
    BY <1>3
  <2>2. Kind[batch[next]] # "refused" /\ reserves' = rs
        /\ request' = [request EXCEPT ![r] = Pending(phase, batch, next, held)]
    BY <1>3 DEF NextWire
  <2>3. Kind[batch[next]] \in {"spend", "topup"}
    BY <2>1, <2>2, LedgerAssumption DEF Kinds
  <2>4. working(Pending(phase, batch, next, held))
    BY <2>1, <2>3 DEF working, Pending, signatures_of
  <2>5. phase \in {"digest", "sign", "commit"}
    OBVIOUS
  <2> HIDE DEF phase
  <2> QED  BY <2>2, <2>4, <2>5, PendingLeaves
<1> QED  BY <1>1, <1>2, <1>3

\* How that table and those names relate to what was there before.
Follows(r, rs, held) ==
    /\ \A id \in open(rs) \ held : id \in open(reserves) /\ id \notin request[r].held
    /\ \A m \in Messages : signature(m) \in open(reserves) => signature(m) \in open(rs)
    /\ \A m \in Messages : signature(m) \in held =>
          \E i \in DOMAIN request[r].batch : request[r].batch[i] = m
    /\ request[r].phase # "commit"
    /\ ReservesBounded =>
          /\ IsFiniteSet(DOMAIN rs)
          /\ Cardinality(open(rs)) <= MAX_CONCURRENT_FEE_RESERVES
          /\ Cardinality(open(rs)) > Cardinality(open(reserves)) =>
                getReservedLamports(rs) <= balance

LEMMA FewerReserved ==
    ASSUME ReservesBounded, NEW rs, DOMAIN rs \subseteq DOMAIN reserves,
           open(rs) \subseteq open(reserves)
    PROVE  /\ IsFiniteSet(DOMAIN rs)
           /\ Cardinality(open(rs)) <= MAX_CONCURRENT_FEE_RESERVES
           /\ ~(Cardinality(open(rs)) > Cardinality(open(reserves)))
<1>1. IsFiniteSet(open(reserves)) /\ IsFiniteSet(DOMAIN rs)
  BY FS_Subset DEF ReservesBounded, open
<1>2. Cardinality(open(rs)) <= Cardinality(open(reserves)) /\ IsFiniteSet(open(rs))
  BY <1>1, FS_Subset
<1>3. Cardinality(open(rs)) \in Nat /\ Cardinality(open(reserves)) \in Nat
  BY <1>1, <1>2, FS_CardinalityType
<1> QED  BY <1>1, <1>2, <1>3, LedgerAssumption DEF ReservesBounded

LEMMA SubmitSteps ==
    ASSUME TypeOK, NEW r \in Requests, NEW batch \in Batches, Submit(r, batch)
    PROVE  Leaves(r, expireReserves(reserves), {}) /\ Follows(r, expireReserves(reserves), {})
<1>1. Table(reserves) /\ batch \in Seq(Messages)
  BY LedgerAssumption DEF TypeOK, Table
<1>2. request[r].phase = "idle" /\ NextWire(r, expireReserves(reserves), batch, 1, {})
  BY DEF Submit
<1>3. request[r] = Idle /\ Idle.held = {}
  BY <1>2 DEF TypeOK, Working, Idle
<1>4. /\ Table(expireReserves(reserves)) /\ DOMAIN expireReserves(reserves) = open(reserves)
      /\ open(expireReserves(reserves)) = open(reserves)
  BY <1>1, Expired
<1>5. Leaves(r, expireReserves(reserves), {})
  BY <1>1, <1>2, <1>4, NextWireLeaves DEF signatures_of
<1>6. open(reserves) \subseteq DOMAIN reserves
  BY DEF open
<1>7. ReservesBounded =>
          /\ IsFiniteSet(DOMAIN expireReserves(reserves))
          /\ Cardinality(open(expireReserves(reserves))) <= MAX_CONCURRENT_FEE_RESERVES
          /\ ~(Cardinality(open(expireReserves(reserves))) > Cardinality(open(reserves)))
  BY <1>4, <1>6, FewerReserved
<1> QED  BY <1>2, <1>3, <1>4, <1>5, <1>7 DEF Follows

\* A request that is not idle is working on a message of its batch.
LEMMA AtMessage ==
    ASSUME TypeOK, RequestsHold, NEW r \in Requests, request[r].phase \in {"digest", "sign"}
    PROVE  /\ request[r] \in Working
           /\ request[r].batch \in Seq(Messages) /\ request[r].next \in DOMAIN request[r].batch
           /\ request[r].next \in Nat \ {0}
           /\ request[r].batch[request[r].next] \in Messages
           /\ request[r].held \in SUBSET Ids
           /\ working(request[r])
<1>1. request[r] \in Working /\ working(request[r])
  BY DEF TypeOK, Idle, RequestsHold
<1>2. request[r].batch \in Seq(Messages) /\ request[r].held \in SUBSET Ids
  BY <1>1 DEF Working
<1>3. request[r].next \in DOMAIN request[r].batch
  BY <1>1 DEF working
<1> QED  BY <1>1, <1>2, <1>3

\* The first time a message is reserved there is a free slot, and the balance
\* covers one reserve more.
LEMMA ReserveCovered ==
    ASSUME TypeOK, ReservesBounded, NEW id \in Ids, can_reserve(reserves, id),
           NEW rs, DOMAIN rs = DOMAIN reserves \cup {id}, open(rs) = open(reserves) \cup {id}
    PROVE  /\ IsFiniteSet(DOMAIN rs)
           /\ Cardinality(open(rs)) <= MAX_CONCURRENT_FEE_RESERVES
           /\ Cardinality(open(rs)) > Cardinality(open(reserves)) =>
                 getReservedLamports(rs) <= balance
<1>1. IsFiniteSet(DOMAIN rs) /\ IsFiniteSet(open(reserves))
  BY FS_AddElement, FS_Subset DEF ReservesBounded, open
<1>2. CASE id \in open(reserves)
  <2>1. open(rs) = open(reserves)
    BY <1>2
  <2>2. Cardinality(open(reserves)) \in Nat
    BY <1>1, FS_CardinalityType
  <2> QED  BY <1>1, <2>1, <2>2 DEF ReservesBounded
<1>3. CASE id \notin open(reserves)
  <2> DEFINE n == Cardinality(open(reserves))
  <2>1. n \in Nat
    BY <1>1, FS_CardinalityType
  <2>2. Cardinality(open(rs)) = n + 1
    BY <1>1, <1>3, FS_AddElement
  <2>3. n < MAX_CONCURRENT_FEE_RESERVES
        /\ balance - MIN_ATTEMPT_FEE_LAMPORTS * n >= MIN_ATTEMPT_FEE_LAMPORTS
    BY <1>3 DEF can_reserve, has_slot, has_funds, getReservedLamports
  <2>4. getReservedLamports(rs) = MIN_ATTEMPT_FEE_LAMPORTS * (n + 1)
    BY <2>2 DEF getReservedLamports
  <2> HIDE DEF n
  <2>5. MIN_ATTEMPT_FEE_LAMPORTS * (n + 1) = MIN_ATTEMPT_FEE_LAMPORTS * n + MIN_ATTEMPT_FEE_LAMPORTS
        /\ MIN_ATTEMPT_FEE_LAMPORTS * n \in Int
    BY <2>1, LedgerAssumption
  <2>6. MIN_ATTEMPT_FEE_LAMPORTS * (n + 1) <= balance
    BY <2>3, <2>5, LedgerAssumption DEF TypeOK
  <2> QED  BY <1>1, <2>1, <2>2, <2>3, <2>4, <2>6, LedgerAssumption
<1> QED  BY <1>2, <1>3

LEMMA ReserveSteps ==
    ASSUME TypeOK, RequestsHold, NEW r \in Requests, Reserve(r)
    PROVE  \E rs, held : Leaves(r, rs, held) /\ Follows(r, rs, held)
<1> DEFINE q  == request[r]
           m  == q.batch[q.next]
           id == messageReserveId(m)
<1>1. q.phase = "digest" /\ Table(reserves)
  BY DEF Reserve, TypeOK, Table
<1>2. /\ q \in Working /\ q.batch \in Seq(Messages) /\ q.next \in DOMAIN q.batch
      /\ q.next \in Nat \ {0} /\ m \in Messages /\ q.held \in SUBSET Ids /\ working(q)
  BY <1>1, AtMessage
<1>3. Kind[m] = "spend" /\ \A h \in q.held : \E i \in DOMAIN q.batch : h = signature(q.batch[i])
  BY <1>1, <1>2 DEF working
<1>4. id \in Ids /\ \A n \in Messages : id # signature(n)
  BY <1>2, Names DEF messageReserveId, signature
<1>5. \A n \in Messages : signature(n) \in q.held \cup {id} =>
          \E i \in DOMAIN q.batch : q.batch[i] = n
  BY <1>3, <1>4 DEF signature
<1> HIDE DEF id
<1>6. CASE can_reserve(reserves, id) /\ reserves' = reserve(reserves, id)
           /\ request' = [request EXCEPT ![r] = Pending("sign", q.batch, q.next, q.held \cup {id})]
  <2> DEFINE rs == reserve(reserves, id)
  <2>1. Table(rs) /\ DOMAIN rs = DOMAIN reserves \cup {id} /\ open(rs) = open(reserves) \cup {id}
    BY <1>1, <1>4, Reserved
  <2>2. working(Pending("sign", q.batch, q.next, q.held \cup {id}))
    BY <1>2, <1>3 DEF working, Pending, id
  <2>3. reserves' = rs
    BY <1>6
  <2> HIDE DEF rs
  <2>4. q.held \cup {id} \in SUBSET Ids /\ q.next \in Nat /\ "sign" \in {"digest", "sign", "commit"}
    BY <1>2, <1>4
  <2>5. Leaves(r, rs, q.held \cup {id})
    BY <1>2, <1>6, <2>1, <2>2, <2>3, <2>4, PendingLeaves
  <2>6. ReservesBounded =>
          /\ IsFiniteSet(DOMAIN rs)
          /\ Cardinality(open(rs)) <= MAX_CONCURRENT_FEE_RESERVES
          /\ Cardinality(open(rs)) > Cardinality(open(reserves)) =>
                getReservedLamports(rs) <= balance
    BY <1>4, <1>6, <2>1, ReserveCovered
  <2>7. Follows(r, rs, q.held \cup {id})
    BY <1>1, <1>5, <2>1, <2>6 DEF Follows
  <2> QED  BY <2>5, <2>7
<1>7. CASE Fail(r, reserves, q.held \cup {id})
  <2>1. Leaves(r, reserves, q.held \cup {id})
    BY <1>1, <1>7, FailLeaves
  <2>2. ReservesBounded =>
          /\ IsFiniteSet(DOMAIN reserves)
          /\ Cardinality(open(reserves)) <= MAX_CONCURRENT_FEE_RESERVES
          /\ ~(Cardinality(open(reserves)) > Cardinality(open(reserves)))
    BY FewerReserved
  <2>3. Follows(r, reserves, q.held \cup {id})
    BY <1>1, <1>5, <2>2 DEF Follows
  <2> QED  BY <2>1, <2>3
<1> QED  BY <1>6, <1>7 DEF Reserve, id

LEMMA SignSteps ==
    ASSUME TypeOK, RequestsHold, NEW r \in Requests, Sign(r)
    PROVE  \E rs, held : Leaves(r, rs, held) /\ Follows(r, rs, held)
<1> DEFINE q  == request[r]
           m  == q.batch[q.next]
           id == messageReserveId(m)
           rs == rebindReserve(reserves, id, signature(m))
<1>1. q.phase = "sign" /\ Table(reserves)
  BY DEF Sign, TypeOK, Table
<1>2. /\ q \in Working /\ q.batch \in Seq(Messages) /\ q.next \in DOMAIN q.batch
      /\ q.next \in Nat \ {0} /\ m \in Messages /\ q.held \in SUBSET Ids /\ working(q)
  BY <1>1, AtMessage
<1>3. q.next + 1 \in Nat \ {0}
  BY <1>2
<1>4. \A h \in q.held : \/ \E i \in DOMAIN q.batch : h = signature(q.batch[i])
                        \/ Kind[m] = "spend" /\ h = id
  BY <1>2 DEF working
<1>5. id \in Ids /\ signature(m) \in Ids /\ \A n \in Messages : id # signature(n)
  BY <1>2, Names DEF messageReserveId, signature
<1>6. \A n \in Messages : signature(n) \in q.held \cup {signature(m)} =>
          \E i \in DOMAIN q.batch : q.batch[i] = n
  BY <1>2, <1>4, <1>5 DEF signature
<1>7. CASE Kind[m] = "spend" /\ NextWire(r, rs, q.batch, q.next + 1, (q.held \ {id}) \cup {signature(m)})
  <2> DEFINE held == (q.held \ {id}) \cup {signature(m)}
  <2>1. id # signature(m)
    BY <1>2, <1>5
  <2>2. /\ Table(rs) /\ DOMAIN rs \subseteq DOMAIN reserves \cup {signature(m)}
        /\ open(rs) \subseteq
              IF id \in open(reserves) THEN (open(reserves) \ {id}) \cup {signature(m)}
                                       ELSE open(reserves)
        /\ open(reserves) \ {id} \subseteq open(rs)
    BY <1>1, <1>5, <2>1, Rebound
  <2>3. held \in SUBSET Ids /\ signatures_of(q.batch, held)
    BY <1>2, <1>4, <1>5 DEF signatures_of
  <2> HIDE DEF rs, id, m
  <2>4. NextWire(r, rs, q.batch, q.next + 1, held)
    BY <1>7
  <2>5. Leaves(r, rs, held)
    BY <1>2, <1>3, <2>2, <2>3, <2>4, NextWireLeaves
  <2>6. ASSUME ReservesBounded
        PROVE  /\ IsFiniteSet(DOMAIN rs)
               /\ Cardinality(open(rs)) <= MAX_CONCURRENT_FEE_RESERVES
               /\ ~(Cardinality(open(rs)) > Cardinality(open(reserves)))
    <3>1. IsFiniteSet(DOMAIN reserves) /\ IsFiniteSet(DOMAIN reserves \cup {signature(m)})
      BY <2>6, FS_AddElement DEF ReservesBounded
    <3>2. IsFiniteSet(DOMAIN rs) /\ IsFiniteSet(open(reserves))
      BY <2>2, <3>1, FS_Subset DEF open
    <3>3. Cardinality(open(reserves)) \in Nat
      BY <3>2, FS_CardinalityType
    <3>4. Cardinality(open(rs)) <= Cardinality(open(reserves)) /\ Cardinality(open(rs)) \in Nat
      <4>1. CASE id \in open(reserves)
        <5> DEFINE rest == open(reserves) \ {id}
        <5>1. IsFiniteSet(rest) /\ Cardinality(rest) = Cardinality(open(reserves)) - 1
          BY <3>2, <4>1, FS_RemoveElement
        <5>2. IsFiniteSet(rest \cup {signature(m)})
              /\ Cardinality(rest \cup {signature(m)}) <= Cardinality(rest) + 1
          <6>1. Cardinality(rest) \in Nat
            BY <5>1, FS_CardinalityType
          <6> HIDE DEF rest
          <6> QED  BY <5>1, <6>1, FS_AddElement
        <5>3. open(rs) \subseteq rest \cup {signature(m)}
          BY <2>2, <4>1
        <5> HIDE DEF rest
        <5>4. IsFiniteSet(open(rs)) /\ Cardinality(open(rs)) <= Cardinality(rest \cup {signature(m)})
          BY <5>2, <5>3, FS_Subset
        <5>5. Cardinality(open(rs)) \in Nat /\ Cardinality(rest) \in Nat
              /\ Cardinality(rest \cup {signature(m)}) \in Nat
          BY <5>1, <5>2, <5>4, FS_CardinalityType
        <5> QED  BY <3>3, <5>1, <5>2, <5>4, <5>5
      <4>2. CASE id \notin open(reserves)
        <5>1. open(rs) \subseteq open(reserves)
          BY <2>2, <4>2
        <5> QED  BY <3>2, <5>1, FS_Subset, FS_CardinalityType
      <4> QED  BY <4>1, <4>2
    <3> QED  BY <2>6, <3>2, <3>3, <3>4, LedgerAssumption DEF ReservesBounded
  <2>7. \A h \in open(rs) \ held : h \in open(reserves) /\ h \notin q.held
    BY <2>2
  <2>8. \A n \in Messages : signature(n) \in open(reserves) => signature(n) \in open(rs)
    BY <1>5, <2>2
  <2>9. Follows(r, rs, held)
    BY <1>1, <1>6, <2>6, <2>7, <2>8 DEF Follows
  <2> QED  BY <2>5, <2>9
<1>8. CASE Kind[m] = "topup" /\ NextWire(r, reserves, q.batch, q.next + 1, q.held)
  <2>1. signatures_of(q.batch, q.held)
    BY <1>4, <1>8 DEF signatures_of
  <2>2. Leaves(r, reserves, q.held)
    BY <1>1, <1>2, <1>3, <1>8, <2>1, NextWireLeaves
  <2>3. ReservesBounded =>
          /\ IsFiniteSet(DOMAIN reserves)
          /\ Cardinality(open(reserves)) <= MAX_CONCURRENT_FEE_RESERVES
          /\ ~(Cardinality(open(reserves)) > Cardinality(open(reserves)))
    BY FewerReserved
  <2>4. Follows(r, reserves, q.held)
    BY <1>1, <1>6, <2>3 DEF Follows
  <2> QED  BY <2>2, <2>4
<1> QED  BY <1>7, <1>8 DEF Sign, rolled_back_by

-----------------------------------------------------------------------------
(* The other actions: each leaves every request, or every reserve, alone.  *)

StoreSteps == GetFeeBalance \/ (\E m \in Messages : ApplyFeeEvents(m)) \/ Alarm \/ Tick

LEMMA AppliedType ==
    ASSUME TypeOK, NEW m \in Messages
    PROVE  applied(m) \in Nat
<1> DEFINE credit == IF <<m, "credit">> \in fresh(m) THEN amount(m, "credit") ELSE 0
           debit  == IF <<m, "debit">> \in fresh(m) THEN amount(m, "debit") ELSE 0
<1>1. credit \in Nat /\ debit \in Nat
  BY LedgerAssumption DEF amount
<1>2. applied(m) = Max({0, balance + credit - debit})
  BY DEF applied
<1> HIDE DEF credit, debit
<1>3. balance + credit - debit \in Int
  BY <1>1 DEF TypeOK
<1> QED  BY <1>2, <1>3, MaxZero

LEMMA Settled ==
    ASSUME NEW m \in Messages, Table(reserves)
    PROVE  /\ Table(settled(reserves, m))
           /\ DOMAIN settled(reserves, m) = open(reserves)
           /\ open(settled(reserves, m)) = open(reserves)
<1>1. observed_signature(m) \notin Ids
  BY DEF observed_signature, Ids
<1>2. /\ Table(expireReserves(reserves)) /\ DOMAIN expireReserves(reserves) = open(reserves)
      /\ open(expireReserves(reserves)) = open(reserves)
  BY Expired
<1>3. open(reserves) \ {observed_signature(m)} = open(reserves)
  BY <1>1 DEF open, Table
<1> DEFINE left == release(expireReserves(reserves), {observed_signature(m)})
<1>4. /\ Table(left)
      /\ DOMAIN left = DOMAIN expireReserves(reserves) \ {observed_signature(m)}
      /\ open(left) = open(expireReserves(reserves)) \ {observed_signature(m)}
  BY <1>2, Released
<1> QED  BY <1>2, <1>3, <1>4 DEF settled

\* None of them opens a reserve, and none but the clock closes one.
LEMMA StoreStepsShrink ==
    ASSUME TypeOK, StoreSteps
    PROVE  /\ Table(reserves')
           /\ DOMAIN reserves' \subseteq DOMAIN reserves
           /\ open(reserves') \subseteq open(reserves)
           /\ open(reserves) \subseteq DOMAIN reserves'
           /\ UNCHANGED <<request, answered>>
           /\ balance' \in Nat /\ granted' \in BOOLEAN
           /\ booked' \subseteq Messages \X {"credit", "debit"}
<1>1. Table(reserves) /\ open(reserves) \subseteq DOMAIN reserves
  BY DEF TypeOK, Table, open
<1>2. /\ Table(expireReserves(reserves)) /\ DOMAIN expireReserves(reserves) = open(reserves)
      /\ open(expireReserves(reserves)) = open(reserves)
  BY <1>1, Expired
<1>3. CASE GetFeeBalance
  <2>1. balance' \in Nat
    BY <1>3, LedgerAssumption DEF GetFeeBalance, TypeOK
  <2> QED  BY <1>1, <1>2, <1>3, <2>1 DEF GetFeeBalance, TypeOK
<1>4. CASE Alarm
  BY <1>1, <1>2, <1>4 DEF Alarm, TypeOK
<1>5. ASSUME NEW m \in Messages, ApplyFeeEvents(m)
      PROVE  /\ Table(reserves')
             /\ DOMAIN reserves' \subseteq DOMAIN reserves
             /\ open(reserves') \subseteq open(reserves)
             /\ open(reserves) \subseteq DOMAIN reserves'
             /\ UNCHANGED <<request, answered>>
             /\ balance' \in Nat /\ granted' \in BOOLEAN
             /\ booked' \subseteq Messages \X {"credit", "debit"}
  <2>1. reserves' = reserves \/ reserves' = settled(reserves, m)
    BY <1>5 DEF ApplyFeeEvents
  <2>2. fresh(m) \subseteq Messages \X {"credit", "debit"}
    BY DEF fresh
  <2>3. /\ Table(reserves') /\ DOMAIN reserves' \subseteq DOMAIN reserves
        /\ open(reserves') \subseteq open(reserves) /\ open(reserves) \subseteq DOMAIN reserves'
    BY <1>1, <2>1, Settled
  <2> QED  BY <1>5, <2>2, <2>3, AppliedType DEF ApplyFeeEvents, TypeOK
<1>6. CASE Tick
  <2>1. reserves' = [id \in DOMAIN reserves |-> Max({0, reserves[id] - 1})]
    BY <1>6 DEF Tick
  <2>2. \A id \in DOMAIN reserves :
            /\ reserves'[id] \in Nat
            /\ reserves'[id] > 0 => reserves[id] > 0
    BY <1>1, <2>1, MaxZero DEF Table
  <2>3. Table(reserves') /\ DOMAIN reserves' = DOMAIN reserves /\ open(reserves') \subseteq open(reserves)
    BY <1>1, <2>1, <2>2 DEF Table, open
  <2> QED  BY <1>1, <1>6, <2>3 DEF Tick, TypeOK
<1> QED  BY <1>3, <1>4, <1>5, <1>6 DEF StoreSteps

\* What a step of a request leaves unchanged.
RequestStep(r) == (\E batch \in Batches : Submit(r, batch)) \/ Reserve(r) \/ Sign(r)

LEMMA RequestSteps ==
    ASSUME TypeOK, RequestsHold, NEW r \in Requests, RequestStep(r)
    PROVE  /\ UNCHANGED <<balance, granted, booked, answered>>
           /\ \E rs, held : Leaves(r, rs, held) /\ Follows(r, rs, held)
<1>1. UNCHANGED <<balance, granted, booked, answered>>
  BY DEF RequestStep, Submit, Reserve, Sign
<1>2. \E rs, held : Leaves(r, rs, held) /\ Follows(r, rs, held)
  BY SubmitSteps, ReserveSteps, SignSteps DEF RequestStep
<1> QED  BY <1>1, <1>2

LEMMA AnswerStep ==
    ASSUME TypeOK, RequestsHold, NEW r \in Requests, Answer(r)
    PROVE  /\ UNCHANGED <<balance, granted, booked, reserves>>
           /\ request' = [request EXCEPT ![r] = Idle]
           /\ answered' \subseteq Messages /\ answered \subseteq answered'
           /\ \A id \in request[r].held : \E m \in answered' : id = signature(m)
<1>1. request[r] \in Working /\ working(request[r]) /\ request[r].phase = "commit"
  BY DEF Answer, TypeOK, Idle, RequestsHold
<1>2. request[r].batch \in Seq(Messages)
  BY <1>1 DEF Working
<1>3. answered' = answered \cup {request[r].batch[i] : i \in DOMAIN request[r].batch}
  BY DEF Answer
<1>4. \A id \in request[r].held : \E i \in DOMAIN request[r].batch : id = signature(request[r].batch[i])
  BY <1>1 DEF working
<1>5. answered' \subseteq Messages
  BY <1>2, <1>3 DEF TypeOK
<1> QED  BY <1>3, <1>4, <1>5 DEF Answer, store

\* Each step is one of four kinds.
LEMMA Steps ==
    ASSUME [Next]_vars
    PROVE  \/ \E r \in Requests : RequestStep(r)
           \/ \E r \in Requests : Answer(r)
           \/ StoreSteps
           \/ Restart
           \/ UNCHANGED vars
  BY DEF Next, Continue, RequestStep, StoreSteps

-----------------------------------------------------------------------------
(* The invariant.                                                          *)

LEMMA InvariantKept ==
    ASSUME TypeOK, RequestsHold, ReservesBounded, [Next]_vars
    PROVE  TypeOK' /\ RequestsHold' /\ ReservesBounded'
<1>1. working(Idle)
  BY DEF working, Idle
<1>2. ASSUME NEW r \in Requests, RequestStep(r)
      PROVE  TypeOK' /\ RequestsHold' /\ ReservesBounded'
  <2>1. PICK rs, held : Leaves(r, rs, held) /\ Follows(r, rs, held)
    BY <1>2, RequestSteps
  <2>2. UNCHANGED <<balance, granted, booked, answered>>
    BY <1>2, RequestSteps
  <2>3. request' \in [Requests -> {Idle} \cup Working]
    BY <2>1 DEF Leaves, TypeOK
  <2>4. TypeOK'
    BY <2>1, <2>2, <2>3 DEF Leaves, TypeOK, Table
  <2>5. RequestsHold'
    BY <2>1 DEF Leaves, RequestsHold, TypeOK
  <2>6. IsFiniteSet(DOMAIN rs) /\ Cardinality(open(rs)) <= MAX_CONCURRENT_FEE_RESERVES
    BY <2>1 DEF Follows
  <2>7. DOMAIN reserves' \subseteq DOMAIN rs /\ open(reserves') \subseteq open(rs)
    BY <2>1 DEF Leaves
  <2>8. IsFiniteSet(DOMAIN reserves') /\ IsFiniteSet(open(rs))
    BY <2>6, <2>7, FS_Subset DEF open
  <2>9. Cardinality(open(reserves')) <= Cardinality(open(rs)) /\ IsFiniteSet(open(reserves'))
    BY <2>7, <2>8, FS_Subset
  <2>10. Cardinality(open(reserves')) \in Nat /\ Cardinality(open(rs)) \in Nat
    BY <2>8, <2>9, FS_CardinalityType
  <2>11. ReservesBounded'
    BY <2>6, <2>8, <2>9, <2>10, LedgerAssumption DEF ReservesBounded
  <2> QED  BY <2>4, <2>5, <2>11
<1>3. ASSUME NEW r \in Requests, Answer(r)
      PROVE  TypeOK' /\ RequestsHold' /\ ReservesBounded'
  <2>1. UNCHANGED <<balance, granted, booked, reserves>> /\ answered' \subseteq Messages
        /\ request' = [request EXCEPT ![r] = Idle]
    BY <1>3, AnswerStep
  <2>2. request' \in [Requests -> {Idle} \cup Working]
    BY <2>1 DEF TypeOK
  <2> QED  BY <1>1, <2>1, <2>2 DEF TypeOK, RequestsHold, ReservesBounded, open
<1>4. CASE StoreSteps
  <2>1. /\ Table(reserves') /\ DOMAIN reserves' \subseteq DOMAIN reserves
        /\ open(reserves') \subseteq open(reserves) /\ UNCHANGED <<request, answered>>
        /\ balance' \in Nat /\ granted' \in BOOLEAN
        /\ booked' \subseteq Messages \X {"credit", "debit"}
    BY <1>4, StoreStepsShrink
  <2>2. ReservesBounded'
    BY <2>1, FewerReserved DEF ReservesBounded
  <2> QED  BY <2>1, <2>2 DEF TypeOK, RequestsHold, Table
<1>5. CASE Restart
  <2>1. UNCHANGED <<balance, granted, booked, reserves, answered>> /\ request' = [r \in Requests |-> Idle]
    BY <1>5 DEF Restart, store
  <2> QED  BY <1>1, <2>1 DEF TypeOK, RequestsHold, ReservesBounded, open
<1>6. CASE UNCHANGED vars
  BY <1>6 DEF vars, TypeOK, RequestsHold, ReservesBounded, open
<1> QED  BY <1>2, <1>3, <1>4, <1>5, <1>6, Steps

\* Types, what requests hold between their awaits, and the number of open
\* reserves (TokenStore, signTransactions).
THEOREM LedgerInvariant == Spec => [](TypeOK /\ RequestsHold /\ ReservesBounded)
<1>1. TypeOK /\ RequestsHold /\ ReservesBounded /\ [Next]_vars
          => (TypeOK /\ RequestsHold /\ ReservesBounded)'
  BY InvariantKept
<1> QED  BY <1>1, InitOK, PTL DEF Spec

-----------------------------------------------------------------------------
(* The reserves fit.                                                       *)

LEMMA Monotone ==
    \A n, k \in Nat : n <= k => MIN_ATTEMPT_FEE_LAMPORTS * n <= MIN_ATTEMPT_FEE_LAMPORTS * k
<1> SUFFICES ASSUME NEW n \in Nat, NEW k \in Nat, n <= k
             PROVE  MIN_ATTEMPT_FEE_LAMPORTS * n <= MIN_ATTEMPT_FEE_LAMPORTS * k
  OBVIOUS
<1>1. PICK d \in Nat : k = n + d
  <2>1. k - n \in Nat /\ k = n + (k - n)
    OBVIOUS
  <2> QED  BY <2>1
<1>2. MIN_ATTEMPT_FEE_LAMPORTS * (n + d) = MIN_ATTEMPT_FEE_LAMPORTS * n + MIN_ATTEMPT_FEE_LAMPORTS * d
  BY LedgerAssumption
<1>3. MIN_ATTEMPT_FEE_LAMPORTS * d \in Nat /\ MIN_ATTEMPT_FEE_LAMPORTS * n \in Int
  BY LedgerAssumption
<1> QED  BY <1>1, <1>2, <1>3

LEMMA CoveredWhenGrown ==
    ASSUME TypeOK, RequestsHold, ReservesBounded, [Next]_vars,
           Cardinality(open(reserves')) > Cardinality(open(reserves))
    PROVE  getReservedLamports(reserves') <= balance'
<1>1. ASSUME NEW r \in Requests, RequestStep(r)
      PROVE  getReservedLamports(reserves') <= balance'
  <2>1. PICK rs, held : Leaves(r, rs, held) /\ Follows(r, rs, held)
    BY <1>1, RequestSteps
  <2>2. balance' = balance
    BY <1>1, RequestSteps
  <2>3. open(reserves') \subseteq open(rs) /\ IsFiniteSet(open(rs))
    BY <2>1, FS_Subset DEF Leaves, Follows, open
  <2>4. IsFiniteSet(open(reserves)) /\ IsFiniteSet(open(reserves'))
        /\ Cardinality(open(reserves')) <= Cardinality(open(rs))
    BY <2>3, FS_Subset DEF ReservesBounded, open
  <2>5. Cardinality(open(reserves)) \in Nat /\ Cardinality(open(reserves')) \in Nat
        /\ Cardinality(open(rs)) \in Nat
    BY <2>3, <2>4, FS_CardinalityType
  <2>6. getReservedLamports(rs) <= balance
    BY <2>1, <2>4, <2>5 DEF Follows
  <2>7. getReservedLamports(reserves') <= getReservedLamports(rs)
    BY <2>4, <2>5, Monotone DEF getReservedLamports
  <2>8. getReservedLamports(rs) \in Int /\ getReservedLamports(reserves') \in Int /\ balance \in Int
    BY <2>5, LedgerAssumption DEF getReservedLamports, TypeOK
  <2> QED  BY <2>2, <2>6, <2>7, <2>8
<1>2. ASSUME open(reserves') \subseteq open(reserves) PROVE FALSE
  <2>1. IsFiniteSet(open(reserves))
    BY FS_Subset DEF ReservesBounded, open
  <2>2. IsFiniteSet(open(reserves')) /\ Cardinality(open(reserves')) <= Cardinality(open(reserves))
    BY <1>2, <2>1, FS_Subset
  <2> QED  BY <2>1, <2>2, FS_CardinalityType
<1>3. ASSUME NEW r \in Requests, Answer(r) PROVE FALSE
  BY <1>2, <1>3, AnswerStep
<1>4. CASE StoreSteps
  BY <1>2, <1>4, StoreStepsShrink
<1>5. CASE Restart \/ UNCHANGED vars
  BY <1>2, <1>5 DEF Restart, store, vars
<1> QED  BY <1>1, <1>3, <1>4, <1>5, Steps

\* However the awaits of the requests interleave, no more reserves are open
\* than the cap allows, and none is opened that the balance does not cover
\* (reserve).
THEOREM ReservesAlwaysFit == Spec => ReservesFit
<1>1. ReservesBounded => OpenBounded
  BY DEF ReservesBounded, OpenBounded
<1>2. TypeOK /\ RequestsHold /\ ReservesBounded /\ [Next]_vars =>
          [Cardinality(open(reserves')) > Cardinality(open(reserves))
               => getReservedLamports(reserves') <= balance']_vars
  BY CoveredWhenGrown
<1> QED  BY <1>1, <1>2, LedgerInvariant, PTL DEF Spec, ReservesFit, NoOvercommit

-----------------------------------------------------------------------------
(* No failed request leaves a reserve behind.                              *)

LEMMA StrayBefore ==
    ASSUME TypeOK, RequestsHold, [Next]_vars, ~Restart, NEW id \in Ids, stray(id)'
    PROVE  stray(id)
<1>1. id \in open(reserves') /\ (\A s \in Requests : id \notin request'[s].held)
      /\ (\A m \in answered' : id # signature(m))
  BY DEF stray
<1>2. SUFFICES /\ id \in open(reserves)
               /\ \A s \in Requests : id \notin request[s].held
               /\ \A m \in answered : id # signature(m)
  BY DEF stray
<1>3. ASSUME NEW r \in Requests, RequestStep(r)
      PROVE  /\ id \in open(reserves)
             /\ \A s \in Requests : id \notin request[s].held
             /\ \A m \in answered : id # signature(m)
  <2>1. PICK rs, held : Leaves(r, rs, held) /\ Follows(r, rs, held)
    BY <1>3, RequestSteps
  <2>2. id \in open(rs) \ held /\ request' = [request EXCEPT ![r] = request'[r]]
    BY <1>1, <2>1 DEF Leaves
  <2>3. id \in open(reserves) /\ id \notin request[r].held
    BY <2>1, <2>2 DEF Follows
  <2>4. \A s \in Requests \ {r} : request[s] = request'[s]
    BY <2>2 DEF TypeOK
  <2>5. answered' = answered
    BY <1>3, RequestSteps
  <2> QED  BY <1>1, <2>3, <2>4, <2>5
<1>4. ASSUME NEW r \in Requests, Answer(r)
      PROVE  /\ id \in open(reserves)
             /\ \A s \in Requests : id \notin request[s].held
             /\ \A m \in answered : id # signature(m)
  <2>1. /\ reserves' = reserves /\ answered \subseteq answered'
        /\ request' = [request EXCEPT ![r] = Idle]
        /\ \A h \in request[r].held : \E m \in answered' : h = signature(m)
    BY <1>4, AnswerStep
  <2>2. \A s \in Requests \ {r} : request[s] = request'[s]
    BY <2>1 DEF TypeOK
  <2> QED  BY <1>1, <2>1, <2>2
<1>5. CASE StoreSteps
  BY <1>1, <1>5, StoreStepsShrink
<1>6. CASE UNCHANGED vars
  BY <1>1, <1>6 DEF vars
<1> QED  BY <1>3, <1>4, <1>5, <1>6, Steps

\* A reserve that no request holds and no answered message bears appears only
\* in a restart: every early return and the catch of signTransactions release
\* what was held, under the name it has by then.
THEOREM NoStrays == Spec => NoStrayReserve
<1>1. TypeOK /\ RequestsHold /\ [Next]_vars =>
          [Restart \/ \A id \in Ids : stray(id)' => stray(id)]_vars
  BY StrayBefore
<1> QED  BY <1>1, LedgerInvariant, PTL DEF Spec, NoStrayReserve

-----------------------------------------------------------------------------
(* The reserves of answered messages.                                      *)

LEMMA KeptUnlessFailed ==
    ASSUME TypeOK, RequestsHold, [Next]_vars, NEW m \in answered,
           signature(m) \in open(reserves), signature(m) \notin DOMAIN reserves'
    PROVE  rolled_back(m)
<1>1. m \in Messages /\ open(reserves) \subseteq DOMAIN reserves
  BY DEF TypeOK, open
<1>2. ASSUME NEW r \in Requests, RequestStep(r) PROVE rolled_back(m)
  <2>1. PICK rs, held : Leaves(r, rs, held) /\ Follows(r, rs, held)
    BY <1>2, RequestSteps
  <2>2. signature(m) \in open(rs)
    BY <1>1, <2>1 DEF Follows
  <2>3. request'[r] = Idle /\ signature(m) \in held
    BY <2>1, <2>2 DEF Leaves
  <2> QED  BY <1>1, <2>1, <2>3 DEF Follows, rolled_back
<1>3. ASSUME NEW r \in Requests, Answer(r) PROVE FALSE
  BY <1>1, <1>3, AnswerStep
<1>4. CASE StoreSteps
  BY <1>4, StoreStepsShrink
<1>5. CASE Restart \/ UNCHANGED vars
  BY <1>1, <1>5 DEF Restart, store, vars
<1> QED  BY <1>2, <1>3, <1>4, <1>5, Steps

\* A rolled back call over the same message aside, the open reserve of an
\* answered message goes only with its debit; as the ledger names it by
\* another encoding of the signature, not even then, and it expires.
THEOREM AnsweredReservesKept == Spec => AnsweredReserveKept
<1>1. TypeOK /\ RequestsHold /\ [Next]_vars =>
          [\A m \in answered :
               /\ signature(m) \in open(reserves)
               /\ signature(m) \notin DOMAIN reserves'
               => <<m, "debit">> \in booked' \ booked \/ rolled_back(m)]_vars
  BY KeptUnlessFailed
<1> QED  BY <1>1, LedgerInvariant, PTL DEF Spec, AnsweredReserveKept

-----------------------------------------------------------------------------
(* The ledger implements FeeBook.                                          *)

LEMMA BookStep ==
    ASSUME TypeOK, RequestsHold, [Next]_vars
    PROVE  Book!Next \/ UNCHANGED <<balance, granted, booked>>
<1>1. ASSUME NEW r \in Requests, RequestStep(r) \/ Answer(r)
      PROVE  UNCHANGED <<balance, granted, booked>>
  BY <1>1, RequestSteps, AnswerStep
<1>2. CASE Restart \/ UNCHANGED vars \/ Alarm \/ Tick
  BY <1>2 DEF Restart, store, vars, Alarm, Tick
<1>3. CASE GetFeeBalance
  <2>1. CASE granted
    BY <1>3, <2>1 DEF GetFeeBalance, TypeOK
  <2>2. CASE ~granted
    BY <1>3, <2>2 DEF GetFeeBalance, Book!Next, Book!Grant
  <2> QED  BY <2>1, <2>2
<1>4. ASSUME NEW m \in Messages, ApplyFeeEvents(m)
      PROVE  Book!Next \/ UNCHANGED <<balance, granted, booked>>
  <2>1. balance' = applied(m) /\ booked' = booked \cup fresh(m) /\ granted' = granted
    BY <1>4 DEF ApplyFeeEvents
  <2>2. fresh(m) \subseteq ({m} \X {"credit", "debit"}) \ booked
    BY DEF fresh
  <2> DEFINE credit == IF <<m, "credit">> \in fresh(m) THEN Credit[m] ELSE 0
             debit  == IF <<m, "debit">> \in fresh(m) THEN Debit[m] ELSE 0
  <2>3. applied(m) = Max({0, balance + credit - debit})
    BY DEF applied, amount
  <2>4. credit \in Nat /\ debit \in Nat
    BY LedgerAssumption
  <2>5. CASE fresh(m) = {}
    <3>1. credit = 0 /\ debit = 0
      BY <2>5
    <3> HIDE DEF credit, debit
    <3>2. applied(m) = balance
      BY <2>3, <3>1, MaxZero DEF TypeOK
    <3> QED  BY <2>1, <2>5, <3>2
  <2>6. CASE fresh(m) # {}
    <3>1. balance' = IF balance + credit - debit > 0 THEN balance + credit - debit ELSE 0
      <4> HIDE DEF credit, debit
      <4>1. balance + credit - debit \in Int
        BY <2>4 DEF TypeOK
      <4> QED  BY <2>1, <2>3, <4>1, MaxZero
    <3>2. Book!Book(m, fresh(m))
      BY <2>1, <2>2, <2>6, <3>1 DEF Book!Book
    <3>3. fresh(m) \in SUBSET ({m} \X {"credit", "debit"})
      BY <2>2
    <3> QED  BY <3>2, <3>3 DEF Book!Next
  <2> QED  BY <2>5, <2>6
<1> QED  BY <1>1, <1>2, <1>3, <1>4, Steps DEF StoreSteps

\* Interleaved signing, expiry, restarts and repeated deliveries never move
\* the balance: only the starter and the first booking of a side of a landed
\* transaction do (applyFeeEvent, ensureStarterBalance).
THEOREM ImplementsFeeBook == Spec => BookSpec
<1>1. Init => Book!Init
  BY DEF Init, Book!Init
<1>2. TypeOK /\ RequestsHold /\ [Next]_vars => [Book!Next]_<<balance, granted, booked>>
  BY BookStep
<1> QED  BY <1>1, <1>2, LedgerInvariant, PTL DEF Spec, BookSpec, Book!Spec
=============================================================================
