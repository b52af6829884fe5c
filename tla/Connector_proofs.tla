-------------------------- MODULE Connector_proofs --------------------------
(***************************************************************************)
(* SignsForAccount for every set of calls, taps and stored sessions.       *)
(*                                                                         *)
(* The inductive invariant has two halves.  Typed holds whatever overlaps: *)
(* a call waits for a load that was started, a promise is never of a       *)
(* failed load, only sessions that fit their token are built, and there    *)
(* are names enough for the loads.  Calm holds until two changes of the    *)
(* connection overlap: then at most one connect or load is under way, and  *)
(* the account, the signer and the session in memory fit it.               *)
(***************************************************************************)
EXTENDS Connector, FiniteSetTheorems, TLAPS

(* A session that fits its token is of an accessory that was tapped. *)
Known == {s \in Session : matches_pda(s) => s.token \in Taps}

Phases == {"new", "over", "ensure", "restore", "tap", "build", "sign"}

TypeOK ==
    /\ session \in {NoSession} \cup Known
    /\ account \in {NoToken} \cup Tokens
    /\ signer \in {NoToken} \cup Taps
    /\ promise \in {NoLoad} \cup 1..LoadIds
    /\ load \in [1..LoadIds -> {Unused} \cup [phase : {"check", "build", "done", "failed"}, session : Known]]
    /\ stored \in {NoSession} \cup Known
    /\ call \in [Calls -> [phase : Phases, load : {NoLoad} \cup 1..LoadIds, asked : {NoToken} \cup Tokens]]
    /\ signatures \subseteq [account : Tokens, token : Taps]
    /\ overlapped \in BOOLEAN

Connects == {c \in Calls : Op[c] \in {"connect", "connect silently"}}

(* What has been called for, and what a call waits for. *)
begun(l) == load[l].phase # "unused"
flying(l) == load[l].phase \in {"check", "build"}

waits_well(loads, k) ==
    /\ k.phase \in {"ensure", "restore", "sign"} => k.load # NoLoad /\ loads[k.load].phase # "unused"
    /\ k.phase \in {"tap", "build"} => k.load = NoLoad
    /\ k.phase = "build" => k.asked \in Taps
    /\ k.phase = "sign" => k.asked \in Tokens

RefsOK ==
    /\ promise # NoLoad => load[promise].phase \notin {"unused", "failed"}
    /\ \A l \in 1..LoadIds : load[l].phase \in {"build", "done"} => matches_pda(load[l].session)
    /\ \A c \in Calls :
          /\ waits_well(load, call[c])
          /\ call[c].phase \in {"ensure", "restore", "tap", "build"} => c \in Connects

(* Names of loads are used in their order, and a connect uses one at most. *)
started == {c \in Connects : call[c].phase \notin {"new", "ensure"}}

NamesOK ==
    \E n \in 0..LoadIds :
        /\ \A l \in 1..LoadIds : begun(l) <=> l <= n
        /\ n <= 1 + Cardinality(started)

(* One change at a time, and what it finds. *)
OneChange ==
    /\ \A c, d \in connecting : c = d
    /\ \A c \in connecting, l \in 1..LoadIds : flying(l) => call[c].load = l
    /\ \A l, m \in 1..LoadIds : flying(l) /\ flying(m) => l = m

SignerOK ==
    /\ session = NoSession => signer = NoToken /\ promise = NoLoad
    /\ account # NoToken /\ signer # NoToken => account = signer
    /\ promise # NoLoad /\ signer = NoToken /\ account # NoToken => load[promise].session.wallet = account
    /\ \A l \in 1..LoadIds : flying(l) =>
          session = load[l].session /\ account = session.wallet /\ promise = l /\ signer = NoToken

no_signer == signer = NoToken /\ promise = NoLoad

calm_call(c, k) ==
    /\ k.phase = "tap" => no_signer
    /\ k.phase = "build" => no_signer /\ session = session_of(k.asked) /\ account = k.asked
    /\ k.phase \in {"ensure", "restore"} /\ interactive(c) /\ load[k.load].phase = "failed" => no_signer
    /\ k.phase = "sign" => k.asked = load[k.load].session.wallet

CallsOK == \A c \in Calls : calm_call(c, call[c])

Calm == OneChange /\ SignerOK /\ CallsOK /\ \A s \in signatures : s.account = s.token

Inv == TypeOK /\ RefsOK /\ NamesOK /\ (overlapped \/ Calm)

-----------------------------------------------------------------------------
(* Counting                                                                *)

LEMMA AtMostOne ==
  ASSUME NEW S, IsFiniteSet(S), Cardinality(S) <= 1, NEW x \in S, NEW y \in S
  PROVE  x = y
<1> SUFFICES ASSUME x # y PROVE FALSE
  OBVIOUS
<1>1. IsFiniteSet({x}) /\ Cardinality({x}) = 1
  BY FS_Singleton
<1>2. IsFiniteSet({x} \cup {y}) /\ Cardinality({x} \cup {y}) = 2
  <2> DEFINE T == {x}
  <2>1. IsFiniteSet(T) /\ Cardinality(T) = 1 /\ y \notin T
    BY <1>1
  <2> HIDE DEF T
  <2>2. IsFiniteSet(T \cup {y}) /\ Cardinality(T \cup {y}) = Cardinality(T) + 1
    BY <2>1, FS_AddElement
  <2>3. QED
    BY <2>1, <2>2 DEF T
<1>3. {x} \cup {y} \subseteq S
  OBVIOUS
<1>4. Cardinality({x} \cup {y}) <= Cardinality(S) /\ Cardinality(S) \in Nat
  BY <1>3, FS_Subset, FS_CardinalityType
<1>5. QED
  BY <1>2, <1>4

LEMMA AtLeastOne ==
  ASSUME NEW S, IsFiniteSet(S)
  PROVE  Cardinality(S) \in Nat /\ (S # {} => Cardinality(S) >= 1)
<1>1. Cardinality(S) \in Nat
  BY FS_CardinalityType
<1>2. ASSUME NEW x \in S PROVE Cardinality(S) >= 1
  <2>1. Cardinality({x}) = 1 /\ {x} \subseteq S
    BY <1>2, FS_Singleton
  <2>2. Cardinality({x}) <= Cardinality(S)
    BY <2>1, FS_Subset
  <2>3. QED
    BY <2>1, <2>2
<1>3. QED
  BY <1>1, <1>2

LEMMA Finite ==
  /\ IsFiniteSet(Calls) /\ IsFiniteSet(1..LoadIds) /\ IsFiniteSet(Connects)
  /\ LoadIds \in Nat /\ Cardinality(Connects) \in Nat /\ Cardinality(Connects) < LoadIds
<1>1. IsFiniteSet(1..LoadIds)
  <2>0. LoadIds \in Nat
    BY ConnectorAssumption, Zenon
  <2>1. LoadIds \in Int /\ 1 \in Int
    BY <2>0
  <2>2. QED
    BY <2>1, FS_Interval
<1>2. IsFiniteSet(Connects)
  BY ConnectorAssumption, FS_Subset DEF Connects
<1>3. QED
  BY <1>1, <1>2, FS_CardinalityType, ConnectorAssumption DEF Connects

LEMMA ConnectsAreCalls == Connects \subseteq Calls
BY DEF Connects

(* Two changes at a time are recorded, in the state after a step. *)
LEMMA OneChangeNext ==
  ASSUME in_flight' <= 1
  PROVE  OneChange'
<1> DEFINE A == connecting'
           B == {l \in 1..LoadIds : flying(l)' /\ \A c \in A : call'[c].load # l}
<1>1. IsFiniteSet(A) /\ IsFiniteSet(B)
  <2>1. A \subseteq Calls /\ B \subseteq 1..LoadIds
    BY DEF connecting
  <2>2. QED
    BY <2>1, Finite, FS_Subset
<1>2. Cardinality(A) + Cardinality(B) <= 1
  BY DEF in_flight, flying
<1>3. Cardinality(A) \in Nat /\ Cardinality(B) \in Nat
  BY <1>1, FS_CardinalityType
<1>4. \A c, d \in A : c = d
  BY <1>1, <1>2, <1>3, AtMostOne
<1>5. \A c \in A, l \in 1..LoadIds : flying(l)' => call'[c].load = l
  <2> SUFFICES ASSUME NEW c \in A, NEW l \in 1..LoadIds, flying(l)', call'[c].load # l
               PROVE  FALSE
    OBVIOUS
  <2>1. l \in B
    BY <1>4
  <2>2. Cardinality(A) >= 1 /\ Cardinality(B) >= 1
    BY <1>1, <2>1, AtLeastOne
  <2>3. QED
    BY <1>2, <1>3, <2>2
<1>6. \A l, m \in 1..LoadIds : flying(l)' /\ flying(m)' => l = m
  <2> SUFFICES ASSUME NEW l \in 1..LoadIds, NEW m \in 1..LoadIds, flying(l)', flying(m)'
               PROVE  l = m
    OBVIOUS
  <2>1. CASE A = {}
    <3>1. l \in B /\ m \in B
      BY <2>1
    <3>2. Cardinality(B) <= 1
      BY <1>2, <1>3
    <3>3. QED
      BY <1>1, <3>1, <3>2, AtMostOne
  <2>2. CASE A # {}
    BY <1>5, <2>2
  <2>3. QED
    BY <2>1, <2>2
<1>7. QED
  BY <1>4, <1>5, <1>6 DEF OneChange

LEMMA InFlightCounts ==
  ASSUME connecting # {} \/ \E l \in 1..LoadIds : flying(l)
  PROVE  in_flight > 0
<1> DEFINE B == {l \in 1..LoadIds : flying(l) /\ \A c \in connecting : call[c].load # l}
<1>1. IsFiniteSet(connecting) /\ IsFiniteSet(B)
  <2>1. connecting \subseteq Calls /\ B \subseteq 1..LoadIds
    BY DEF connecting
  <2>2. QED
    BY <2>1, Finite, FS_Subset
<1>2. in_flight = Cardinality(connecting) + Cardinality(B)
  BY DEF in_flight, flying
<1>3. connecting # {} \/ B # {}
  OBVIOUS
<1> HIDE DEF B
<1>4. QED
  BY <1>1, <1>2, <1>3, AtLeastOne

(* Names suffice for a connect that has not used its own. *)
LEMMA NextLoad ==
  ASSUME TypeOK, NamesOK, NEW c \in Connects, c \notin started
  PROVE  /\ next_load \in 1..LoadIds
         /\ \A l \in 1..LoadIds : begun(l) <=> l < next_load
         /\ next_load <= 2 + Cardinality(started)
<1>1. started \subseteq Connects /\ IsFiniteSet(started)
  BY Finite, FS_Subset DEF started
<1>2. Cardinality(started \cup {c}) = Cardinality(started) + 1 /\ Cardinality(started) \in Nat
  BY <1>1, FS_AddElement, FS_CardinalityType
<1>3. Cardinality(started \cup {c}) <= Cardinality(Connects)
  BY <1>1, Finite, FS_Subset
<1>4. PICK n \in 0..LoadIds : /\ \A l \in 1..LoadIds : begun(l) <=> l <= n
                              /\ n <= 1 + Cardinality(started)
  BY DEF NamesOK
<1>5. n + 1 \in 1..LoadIds
  BY <1>2, <1>3, <1>4, Finite
<1>6. \A l \in 1..LoadIds : load[l] = Unused <=> ~begun(l)
  BY DEF TypeOK, begun, Unused, Load
<1>7. \A l \in 1..LoadIds : load[l] = Unused <=> l > n
  BY <1>4, <1>6
<1>8. \E l \in 1..LoadIds : load[l] = Unused /\ \A k \in 1..(l - 1) : load[k] # Unused
  <2>1. load[n + 1] = Unused
    BY <1>5, <1>7
  <2>2. \A k \in 1..((n + 1) - 1) : load[k] # Unused
    BY <1>5, <1>7, Finite
  <2>3. QED
    BY <1>5, <2>1, <2>2
<1>9. next_load \in 1..LoadIds /\ load[next_load] = Unused /\ \A k \in 1..(next_load - 1) : load[k] # Unused
  BY <1>8 DEF next_load
<1>10. next_load = n + 1
  BY <1>5, <1>7, <1>9, Finite
<1>11. QED
  BY <1>2, <1>4, <1>5, <1>10, Finite

(* No more names are used, and no connect gives one back. *)
LEMMA NamesKept ==
  ASSUME NamesOK, \A l \in 1..LoadIds : begun(l)' <=> begun(l), started \subseteq started'
  PROVE  NamesOK'
<1>1. IsFiniteSet(started')
  BY Finite, FS_Subset DEF started
<1>2. Cardinality(started) <= Cardinality(started') /\ Cardinality(started) \in Nat /\ Cardinality(started') \in Nat
  BY <1>1, FS_Subset, FS_CardinalityType
<1>3. QED
  BY <1>2, Finite DEF NamesOK

-----------------------------------------------------------------------------
(* The steps.  Each keeps the types and names; and what a calm page finds, *)
(* when the state after it has one change at a time.                       *)

Typed == TypeOK /\ RefsOK /\ NamesOK

(* Calls that are none of c's business. *)
others(c) == \A d \in Calls : d # c => call'[d] = call[d]

LEMMA CallUpdate ==
  ASSUME TypeOK, NEW c \in Calls, NEW p \in Phases, NEW l \in {NoLoad} \cup 1..LoadIds,
         NEW t \in {NoToken} \cup Tokens,
         call' = [call EXCEPT ![c] = [phase |-> p, load |-> l, asked |-> t]]
  PROVE  /\ call' \in [Calls -> [phase : Phases, load : {NoLoad} \cup 1..LoadIds, asked : {NoToken} \cup Tokens]]
         /\ call'[c] = [phase |-> p, load |-> l, asked |-> t]
         /\ others(c)
BY DEF TypeOK, others

(* A call can go on waiting for what it waits for. *)
LEMMA StillWaits ==
  ASSUME TypeOK, NEW c \in Calls, waits_well(load, call[c]),
         \A l \in 1..LoadIds : load[l].phase # "unused" => load'[l].phase # "unused"
  PROVE  waits_well(load', call[c])
BY DEF TypeOK, waits_well

(* A session is restored, with a load of its own. *)
LEMMA RestoreTyped ==
  ASSUME Typed, NEW c \in Connects, c \notin started, stored # NoSession, restoreSession(c),
         stored' = stored, signatures' = signatures, overlapped' \in BOOLEAN
  PROVE  /\ Typed'
         /\ next_load \in 1..LoadIds /\ ~begun(next_load)
         /\ load'[next_load] = Load("check", stored)
         /\ \A l \in 1..LoadIds : l # next_load => load'[l] = load[l]
         /\ call'[c] = [phase |-> "restore", load |-> next_load, asked |-> NoToken]
         /\ others(c)
<1> USE DEF Typed
<1> DEFINE n == next_load
<1>1. /\ n \in 1..LoadIds
      /\ \A l \in 1..LoadIds : begun(l) <=> l < n
      /\ n <= 2 + Cardinality(started)
  BY NextLoad
<1>2. ~begun(n) /\ c \in Calls
  <2>1. ~begun(n)
    BY <1>1, Finite
  <2>2. QED
    BY <2>1, ConnectsAreCalls
<1>3. /\ session' = stored /\ account' = stored.wallet /\ signer' = NoToken /\ promise' = n
      /\ load' = [load EXCEPT ![n] = Load("check", stored)]
      /\ call' = [call EXCEPT ![c] = [phase |-> "restore", load |-> n, asked |-> NoToken]]
  BY DEF restoreSession, adoptSession, Waits
<1> HIDE DEF n
<1>4. /\ call' \in [Calls -> [phase : Phases, load : {NoLoad} \cup 1..LoadIds, asked : {NoToken} \cup Tokens]]
      /\ call'[c] = [phase |-> "restore", load |-> n, asked |-> NoToken]
      /\ others(c)
  BY <1>1, <1>2, <1>3, CallUpdate DEF Phases
<1>5. stored \in Known /\ stored.wallet \in Tokens
  BY DEF TypeOK, Known, Session
<1>6. /\ load'[n] = Load("check", stored) /\ load'[n].phase = "check"
      /\ \A l \in 1..LoadIds : l # n => load'[l] = load[l]
      /\ load' \in [1..LoadIds -> {Unused} \cup [phase : {"check", "build", "done", "failed"}, session : Known]]
  BY <1>1, <1>3, <1>5 DEF TypeOK, Load
<1>7. TypeOK'
  BY <1>1, <1>3, <1>4, <1>5, <1>6 DEF TypeOK
<1>8. \A l \in 1..LoadIds : begun(l)' <=> l <= n
  BY <1>1, <1>6, Finite DEF begun
<1>9. RefsOK'
  <2>1. load'[promise'].phase \notin {"unused", "failed"}
    BY <1>1, <1>3, <1>6
  <2>2. \A l \in 1..LoadIds : load'[l].phase \in {"build", "done"} => matches_pda(load'[l].session)
    BY <1>6 DEF RefsOK
  <2>3. \A d \in Calls : d # c => waits_well(load', call'[d])
    BY <1>4, <1>6, StillWaits DEF RefsOK, others
  <2>4. waits_well(load', call'[c])
    BY <1>1, <1>4, <1>6, Finite DEF NoLoad, waits_well
  <2>5. QED
    BY <1>4, <2>1, <2>2, <2>3, <2>4 DEF RefsOK, others
<1>10. NamesOK'
  <2>1. IsFiniteSet(started) /\ IsFiniteSet(started')
    BY Finite, FS_Subset DEF started
  <2>2. started \cup {c} \subseteq started'
    BY <1>4, ConnectsAreCalls DEF started, others
  <2>3. Cardinality(started \cup {c}) = Cardinality(started) + 1 /\ Cardinality(started) \in Nat
    BY <2>1, FS_AddElement, FS_CardinalityType
  <2>4. Cardinality(started \cup {c}) <= Cardinality(started') /\ Cardinality(started') \in Nat
    BY <2>1, <2>2, FS_Subset, FS_CardinalityType
  <2>5. n <= 1 + Cardinality(started') /\ n \in 0..LoadIds
    BY <1>1, <2>3, <2>4, Finite
  <2>6. QED
    BY <1>8, <2>5 DEF NamesOK
<1>11. QED
  BY <1>1, <1>2, <1>4, <1>6, <1>7, <1>9, <1>10 DEF n

(* A session is restored while nothing else changes. *)
LEMMA RestoreCalm ==
  ASSUME Typed, NEW c \in Connects, c \notin started, stored # NoSession, restoreSession(c),
         stored' = stored, signatures' = signatures, overlapped' \in BOOLEAN,
         Calm, OneChange'
  PROVE  Calm'
<1> USE DEF Typed
<1> DEFINE n == next_load
<1>1. /\ Typed'
      /\ n \in 1..LoadIds /\ ~begun(n)
      /\ load'[n] = Load("check", stored)
      /\ \A l \in 1..LoadIds : l # n => load'[l] = load[l]
      /\ call'[c] = [phase |-> "restore", load |-> n, asked |-> NoToken]
      /\ others(c)
  BY RestoreTyped
<1>2. c \in Calls
  BY ConnectsAreCalls
<1>3. /\ session' = stored /\ account' = stored.wallet /\ signer' = NoToken /\ promise' = n
  BY DEF restoreSession, adoptSession
<1> HIDE DEF n
<1>4. load'[n].phase = "check" /\ load'[n].session = stored
  BY <1>1 DEF Load
<1>5. \A l \in 1..LoadIds : flying(l)' => l = n
  BY <1>1, <1>4 DEF OneChange, flying
<1>6. SignerOK'
  BY <1>3, <1>4, <1>5 DEF SignerOK
<1>7. c \in connecting'
  BY <1>1, <1>2 DEF connecting
<1>8. ASSUME NEW d \in Calls, d # c
      PROVE  calm_call(d, call[d])'
  <2>1. d \notin connecting'
    BY <1>7, <1>8 DEF OneChange
  <2>2. call'[d] = call[d]
    BY <1>1, <1>8 DEF others
  <2>3. call[d].phase \notin {"tap", "build"} /\ (call[d].phase = "restore" => FALSE)
    BY <2>1, <2>2 DEF connecting
  <2>4. call[d].phase = "ensure" => ~interactive(d)
    BY <2>1, <2>2 DEF connecting
  <2>5. call[d].phase = "sign" => call[d].asked = load'[call[d].load].session.wallet
    <3>1. call[d].phase = "sign" => call[d].load \in 1..LoadIds /\ begun(call[d].load)
      BY DEF RefsOK, TypeOK, waits_well, begun
    <3>2. call[d].phase = "sign" => call[d].load # n
      BY <1>1, <3>1
    <3>3. QED
      BY <1>1, <3>1, <3>2 DEF Calm, CallsOK, calm_call
  <2>6. QED
    BY <2>2, <2>3, <2>4, <2>5 DEF calm_call, interactive
<1>9. calm_call(c, call[c])'
  BY <1>1, <1>4 DEF calm_call
<1>10. QED
  BY <1>6, <1>8, <1>9 DEF Calm, CallsOK

(* No name is taken and no call waits for what is not there. *)
LEMMA StepTyped ==
  ASSUME Typed, TypeOK',
         \A l \in 1..LoadIds : load'[l].phase = "unused" <=> load[l].phase = "unused",
         \A l \in 1..LoadIds : load'[l].phase \in {"build", "done"} => matches_pda(load'[l].session),
         promise' # NoLoad => load'[promise'].phase \notin {"unused", "failed"},
         \A d \in Calls :
            \/ call'[d] = call[d]
            \/ /\ waits_well(load', call'[d])
               /\ call'[d].phase \in {"ensure", "restore", "tap", "build"} => d \in Connects
               /\ call'[d].phase # "new"
               /\ call'[d].phase = "ensure" => call[d].phase = "new"
  PROVE  Typed'
<1> USE DEF Typed
<1>1. \A d \in Calls : waits_well(load', call'[d])
  BY StillWaits DEF RefsOK
<1>2. \A d \in Calls : call'[d].phase \in {"ensure", "restore", "tap", "build"} => d \in Connects
  BY DEF RefsOK
<1>3. RefsOK'
  BY <1>1, <1>2 DEF RefsOK
<1>4. started \subseteq started'
  BY ConnectsAreCalls DEF started
<1>5. NamesOK'
  BY <1>4, NamesKept DEF begun
<1>6. QED
  BY <1>3, <1>5

(* Only the call goes on. *)
LEMMA CallStep ==
  ASSUME Typed, NEW c \in Calls, NEW p \in Phases, NEW l \in {NoLoad} \cup 1..LoadIds,
         NEW t \in {NoToken} \cup Tokens,
         call' = [call EXCEPT ![c] = [phase |-> p, load |-> l, asked |-> t]],
         p # "new", p = "ensure" => call[c].phase = "new",
         p \in {"ensure", "restore", "tap", "build"} => c \in Connects,
         waits_well(load, [phase |-> p, load |-> l, asked |-> t]),
         Calm => calm_call(c, [phase |-> p, load |-> l, asked |-> t]),
         session' = session, account' = account, signer' = signer, promise' = promise, load' = load,
         stored' = stored, overlapped' \in BOOLEAN,
         signatures' \subseteq [account : Tokens, token : Taps],
         Calm => \A s \in signatures' : s.account = s.token
  PROVE  Typed' /\ (Calm /\ OneChange' => Calm')
<1> USE DEF Typed
<1> DEFINE k == [phase |-> p, load |-> l, asked |-> t]
<1>1. /\ call' \in [Calls -> [phase : Phases, load : {NoLoad} \cup 1..LoadIds, asked : {NoToken} \cup Tokens]]
      /\ call'[c] = k
      /\ others(c)
  BY CallUpdate
<1>2. k.phase = p
  OBVIOUS
<1> HIDE DEF k
<1>3. TypeOK'
  BY <1>1 DEF TypeOK
<1>4. Typed'
  <2>1. \A d \in Calls : d # c => call'[d] = call[d]
    BY <1>1 DEF others
  <2>2. /\ waits_well(load', call'[c])
        /\ call'[c].phase \in {"ensure", "restore", "tap", "build"} => c \in Connects
        /\ call'[c].phase # "new"
        /\ call'[c].phase = "ensure" => call[c].phase = "new"
    BY <1>1, <1>2 DEF k
  <2>3. QED
    BY <1>3, <2>1, <2>2, StepTyped DEF RefsOK
<1>5. ASSUME Calm, OneChange' PROVE Calm'
  <2>1. SignerOK'
    <3>1. \A m \in 1..LoadIds : flying(m)' <=> flying(m)
      BY DEF flying
    <3>2. QED
      BY <1>5, <3>1 DEF Calm, SignerOK
  <2>2. \A d \in Calls : calm_call(d, call[d])'
    <3>1. \A d \in Calls : d # c => calm_call(d, call[d])'
      BY <1>1, <1>5 DEF Calm, CallsOK, calm_call, no_signer, others, interactive
    <3>2. calm_call(c, call[c])'
      BY <1>1, <1>5 DEF calm_call, no_signer, interactive, k
    <3>3. QED
      BY <3>1, <3>2
  <2>3. QED
    BY <1>5, <2>1, <2>2 DEF Calm, CallsOK
<1>6. QED
  BY <1>4, <1>5

LEMMA EndStep ==
  ASSUME Typed, NEW c \in Calls, Ends(c),
         session' = session, account' = account, signer' = signer, promise' = promise, load' = load,
         stored' = stored, overlapped' \in BOOLEAN,
         signatures' \subseteq [account : Tokens, token : Taps],
         Calm => \A s \in signatures' : s.account = s.token
  PROVE  Typed' /\ (Calm /\ OneChange' => Calm')
<1>1. call' = [call EXCEPT ![c] = [phase |-> "over", load |-> NoLoad, asked |-> NoToken]]
  BY DEF Ends, Over
<1>2. waits_well(load, [phase |-> "over", load |-> NoLoad, asked |-> NoToken])
  BY DEF waits_well
<1>3. calm_call(c, [phase |-> "over", load |-> NoLoad, asked |-> NoToken])
  BY DEF calm_call
<1>4. "over" \in Phases
  BY DEF Phases
<1>5. QED
  BY <1>1, <1>2, <1>3, <1>4, CallStep

(* While one call may change the connection, the others do not mind what   *)
(* becomes of it. *)
LEMMA OthersCalm ==
  ASSUME Typed, Calm, NEW c \in connecting, others(c),
         \A l \in 1..LoadIds : begun(l) => load'[l].session = load[l].session
  PROVE  \A d \in Calls : d # c => calm_call(d, call[d])'
<1> SUFFICES ASSUME NEW d \in Calls, d # c PROVE calm_call(d, call[d])'
  OBVIOUS
<1>1. d \notin connecting /\ call'[d] = call[d]
  BY DEF Calm, OneChange, others
<1>2. call[d].phase \notin {"tap", "build", "restore"} /\ (call[d].phase = "ensure" => ~interactive(d))
  BY <1>1 DEF connecting
<1>3. call[d].phase = "sign" => call[d].load \in 1..LoadIds /\ begun(call[d].load)
  BY DEF Typed, RefsOK, TypeOK, waits_well, begun
<1>4. call[d].phase = "sign" => call[d].asked = load'[call[d].load].session.wallet
  BY <1>3 DEF Calm, CallsOK, calm_call
<1>5. QED
  BY <1>1, <1>2, <1>4 DEF calm_call, interactive

(* A call that loads nothing leaves no load in flight. *)
LEMMA NothingFlies ==
  ASSUME Typed, Calm, NEW c \in Calls, call[c].phase \in {"tap", "build"}
  PROVE  c \in connecting /\ \A l \in 1..LoadIds : ~flying(l)
<1>1. c \in connecting /\ call[c].load = NoLoad
  BY DEF connecting, Typed, RefsOK, waits_well
<1>2. NoLoad \notin 1..LoadIds
  BY Finite DEF NoLoad
<1>3. QED
  BY <1>1, <1>2 DEF Calm, OneChange

LEMMA TappedStep ==
  ASSUME Typed, NEW c \in Calls, Tapped(c), overlapped' \in BOOLEAN
  PROVE  Typed' /\ (Calm /\ OneChange' => Calm')
<1> USE DEF Typed
<1>1. CASE Ends(c) /\ UNCHANGED memory
  <2>1. /\ session' = session /\ account' = account /\ signer' = signer /\ promise' = promise
        /\ load' = load /\ stored' = stored /\ signatures' = signatures
    BY <1>1 DEF Tapped, memory
  <2>2. signatures \subseteq [account : Tokens, token : Taps] /\ (Calm => \A s \in signatures : s.account = s.token)
    BY DEF TypeOK, Calm
  <2>3. QED
    BY <1>1, <2>1, <2>2, EndStep
<1>2. ASSUME NEW t \in Taps, adoptSession(session_of(t)), Waits(c, "build", NoLoad, t), UNCHANGED <<signer, promise>>
      PROVE  Typed' /\ (Calm /\ OneChange' => Calm')
  <2>1. /\ session' = session_of(t) /\ account' = t /\ signer' = signer /\ promise' = promise
        /\ load' = load /\ stored' = stored /\ signatures' = signatures /\ call[c].phase = "tap"
    BY <1>2 DEF Tapped, adoptSession, session_of
  <2>2. t \in Tokens /\ t # NoToken /\ session_of(t) \in Known /\ session_of(t) # NoSession
    BY ConnectorAssumption DEF session_of, Known, Session, NoSession
  <2>3. /\ call' \in [Calls -> [phase : Phases, load : {NoLoad} \cup 1..LoadIds, asked : {NoToken} \cup Tokens]]
        /\ call'[c] = [phase |-> "build", load |-> NoLoad, asked |-> t]
        /\ others(c)
    BY <1>2, <2>2, CallUpdate DEF Waits, Phases
  <2>4. TypeOK'
    BY <2>1, <2>2, <2>3 DEF TypeOK
  <2>5. c \in Connects
    BY <2>1 DEF RefsOK
  <2>6. waits_well(load', call'[c])
    BY <2>3 DEF waits_well
  <2>7. Typed'
    BY <2>1, <2>3, <2>4, <2>5, <2>6, StepTyped DEF RefsOK, others
  <2>8. ASSUME Calm, OneChange' PROVE Calm'
    <3>1. c \in connecting /\ \A l \in 1..LoadIds : ~flying(l)
      BY <2>1, <2>8, NothingFlies
    <3>2. no_signer
      BY <2>1, <2>8 DEF Calm, CallsOK, calm_call
    <3>3. SignerOK'
      BY <2>1, <2>2, <3>1, <3>2 DEF SignerOK, flying, no_signer
    <3>4. \A d \in Calls : d # c => calm_call(d, call[d])'
      BY <2>1, <2>3, <2>8, <3>1, OthersCalm
    <3>5. calm_call(c, call[c])'
      BY <2>1, <2>3, <3>2 DEF calm_call, no_signer
    <3>6. QED
      BY <2>1, <2>8, <3>3, <3>4, <3>5 DEF Calm, CallsOK
  <2>9. QED
    BY <2>7, <2>8
<1>3. QED
  BY <1>1, <1>2 DEF Tapped

LEMMA BuiltStep ==
  ASSUME Typed, NEW c \in Calls, Built(c), overlapped' \in BOOLEAN
  PROVE  Typed' /\ (Calm /\ OneChange' => Calm')
<1> USE DEF Typed
<1>0. /\ Ends(c) /\ call[c].phase = "build" /\ load' = load /\ signatures' = signatures
      /\ signatures \subseteq [account : Tokens, token : Taps] /\ (Calm => \A s \in signatures : s.account = s.token)
  BY DEF Built, TypeOK, Calm
<1>1. CASE UNCHANGED <<memory, stored>>
  <2>1. /\ session' = session /\ account' = account /\ signer' = signer /\ promise' = promise
        /\ stored' = stored
    BY <1>1 DEF memory
  <2>2. QED
    BY <1>0, <2>1, EndStep
<1>2. CASE /\ signer' = call[c].asked
           /\ promise' = NoLoad
           /\ stored' \in {session_of(call[c].asked), stored}
           /\ UNCHANGED <<session, account>>
  <2> DEFINE t == call[c].asked
  <2>1. t \in Taps
    BY <1>0 DEF RefsOK, waits_well
  <2>2. t \in Tokens /\ t # NoToken /\ session_of(t) \in Known /\ session_of(t) # NoSession
    BY <2>1, ConnectorAssumption DEF session_of, Known, Session, NoSession
  <2>3. signer' = t /\ promise' = NoLoad /\ stored' \in {session_of(t), stored} /\ session' = session /\ account' = account
    BY <1>2
  <2>4. /\ call' \in [Calls -> [phase : Phases, load : {NoLoad} \cup 1..LoadIds, asked : {NoToken} \cup Tokens]]
        /\ call'[c] = Over
        /\ others(c)
    BY <1>0, CallUpdate DEF Ends, Over, Phases
  <2>a. Calm => session = session_of(t) /\ account = t
    BY <1>0 DEF Calm, CallsOK, calm_call
  <2> HIDE DEF t
  <2>5. TypeOK'
    BY <1>0, <2>1, <2>2, <2>3, <2>4 DEF TypeOK
  <2>6. waits_well(load', call'[c]) /\ call'[c].phase = "over"
    BY <2>4 DEF waits_well, Over
  <2>7. Typed'
    BY <1>0, <2>3, <2>4, <2>5, <2>6, StepTyped DEF RefsOK, others
  <2>8. ASSUME Calm, OneChange' PROVE Calm'
    <3>1. c \in connecting /\ \A l \in 1..LoadIds : ~flying(l)
      BY <1>0, <2>8, NothingFlies
    <3>3. SignerOK'
      BY <1>0, <2>2, <2>3, <2>8, <2>a, <3>1 DEF SignerOK, flying
    <3>4. \A d \in Calls : d # c => calm_call(d, call[d])'
      BY <1>0, <2>4, <2>8, <3>1, OthersCalm
    <3>5. calm_call(c, call[c])'
      BY <2>6 DEF calm_call
    <3>6. QED
      BY <1>0, <2>8, <3>3, <3>4, <3>5 DEF Calm, CallsOK
  <2>9. QED
    BY <2>7, <2>8
<1>3. QED
  BY <1>1, <1>2 DEF Built

LEMMA DisconnectStep ==
  ASSUME Typed, NEW c \in Calls, Disconnect(c), overlapped' \in BOOLEAN
  PROVE  /\ Typed'
         /\ Calm /\ OneChange' /\ connecting = {} /\ (\A l \in 1..LoadIds : ~flying(l)) => Calm'
<1> USE DEF Typed
<1>1. /\ session' = NoSession /\ account' = NoToken /\ signer' = NoToken /\ promise' = NoLoad
      /\ stored' = NoSession /\ load' = load /\ signatures' = signatures /\ Ends(c)
  BY DEF Disconnect, clearMemorySession
<1>2. /\ call' \in [Calls -> [phase : Phases, load : {NoLoad} \cup 1..LoadIds, asked : {NoToken} \cup Tokens]]
      /\ call'[c] = Over
      /\ others(c)
  BY <1>1, CallUpdate DEF Ends, Over, Phases
<1>3. TypeOK'
  BY <1>1, <1>2 DEF TypeOK
<1>4. waits_well(load', call'[c]) /\ call'[c].phase = "over"
  BY <1>2 DEF waits_well, Over
<1>5. Typed'
  BY <1>1, <1>2, <1>3, <1>4, StepTyped DEF RefsOK, others
<1>6. ASSUME Calm, OneChange', connecting = {}, \A l \in 1..LoadIds : ~flying(l)
      PROVE  Calm'
  <2>1. SignerOK'
    BY <1>1, <1>6 DEF SignerOK, flying
  <2>2. ASSUME NEW d \in Calls PROVE calm_call(d, call[d])'
    <3>1. call'[d] = call[d] \/ call'[d].phase = "over"
      BY <1>2, <1>4 DEF others
    <3>2. call[d].phase = "sign" => call[d].asked = load[call[d].load].session.wallet
      BY <1>6 DEF Calm, CallsOK, calm_call
    <3>3. call[d].phase # "build"
      BY <1>6 DEF connecting
    <3>4. no_signer'
      BY <1>1 DEF no_signer
    <3>5. QED
      BY <1>1, <3>1, <3>2, <3>3, <3>4 DEF calm_call
  <2>3. QED
    BY <1>1, <1>6, <2>1, <2>2 DEF Calm, CallsOK
<1>7. QED
  BY <1>5, <1>6

LEMMA CheckedStep ==
  ASSUME Typed, NEW l \in 1..LoadIds, load[l].phase = "check", matches_pda(load[l].session),
         load' = [load EXCEPT ![l] = Load("build", @.session)],
         session' = session, account' = account, signer' = signer, promise' = promise,
         stored' = stored, call' = call, signatures' = signatures, overlapped' \in BOOLEAN
  PROVE  Typed' /\ (Calm /\ OneChange' => Calm')
<1> USE DEF Typed
<1>1. /\ load'[l].phase = "build" /\ load'[l].session = load[l].session
      /\ \A m \in 1..LoadIds : m # l => load'[m] = load[m]
      /\ load' \in [1..LoadIds -> {Unused} \cup [phase : {"check", "build", "done", "failed"}, session : Known]]
  BY DEF TypeOK, Load, Unused
<1>2. TypeOK'
  BY <1>1 DEF TypeOK
<1>3. Typed'
  BY <1>1, <1>2, StepTyped DEF RefsOK, TypeOK
<1>4. ASSUME Calm, OneChange' PROVE Calm'
  <2>1. \A m \in 1..LoadIds : (flying(m)' <=> flying(m)) /\ load'[m].session = load[m].session
    BY <1>1 DEF flying
  <2>2. SignerOK'
    BY <1>4, <2>1 DEF Calm, SignerOK, TypeOK
  <2>3. \A d \in Calls : call[d].load \in 1..LoadIds =>
            /\ load'[call[d].load].session = load[call[d].load].session
            /\ load'[call[d].load].phase = "failed" => load[call[d].load].phase = "failed"
    BY <1>1
  <2>4. \A d \in Calls : call[d].phase \in {"ensure", "restore", "sign"} => call[d].load \in 1..LoadIds
    BY DEF RefsOK, TypeOK, waits_well
  <2>5. CallsOK'
    BY <1>4, <2>3, <2>4 DEF Calm, CallsOK, calm_call, no_signer, interactive
  <2>6. QED
    BY <1>4, <2>2, <2>5 DEF Calm
<1>5. QED
  BY <1>3, <1>4

LEMMA LoadFailsStep ==
  ASSUME Typed, NEW l \in 1..LoadIds, flying(l), LoadFails(l),
         call' = call, signatures' = signatures, overlapped' \in BOOLEAN
  PROVE  Typed' /\ (Calm /\ OneChange' => Calm')
<1> USE DEF Typed
<1>0. /\ load' = [load EXCEPT ![l] = Load("failed", @.session)]
      /\ session' = NoSession /\ account' = NoToken /\ signer' = NoToken /\ promise' = NoLoad
      /\ stored' = NoSession
  BY DEF LoadFails, clearMemorySession
<1>1. /\ load'[l].phase = "failed" /\ load'[l].session = load[l].session
      /\ \A m \in 1..LoadIds : m # l => load'[m] = load[m]
      /\ load' \in [1..LoadIds -> {Unused} \cup [phase : {"check", "build", "done", "failed"}, session : Known]]
  BY <1>0 DEF TypeOK, Load, Unused, flying
<1>2. TypeOK'
  BY <1>0, <1>1 DEF TypeOK
<1>3. Typed'
  BY <1>0, <1>1, <1>2, StepTyped DEF RefsOK, flying
<1>4. ASSUME Calm, OneChange' PROVE Calm'
  <2>1. \A m \in 1..LoadIds : ~flying(m)'
    BY <1>1, <1>4 DEF flying, Calm, OneChange
  <2>2. SignerOK'
    BY <1>0, <2>1 DEF SignerOK
  <2>3. \A d \in Calls : call[d].phase # "build"
    <3>1. \A d \in Calls : call[d].phase = "build" => d \in connecting /\ call[d].load = NoLoad
      BY DEF connecting, RefsOK, waits_well
    <3>2. \A d \in connecting : call[d].load = l
      BY <1>4 DEF Calm, OneChange
    <3>3. l # NoLoad
      BY Finite DEF NoLoad
    <3>4. QED
      BY <3>1, <3>2, <3>3
  <2>4. \A d \in Calls : call[d].phase = "sign" => call[d].asked = load'[call[d].load].session.wallet
    <3>1. \A d \in Calls : call[d].phase = "sign" => call[d].load \in 1..LoadIds
      BY DEF RefsOK, TypeOK, waits_well
    <3>2. QED
      BY <1>1, <1>4, <3>1 DEF Calm, CallsOK, calm_call
  <2>5. no_signer'
    BY <1>0 DEF no_signer
  <2>6. CallsOK'
    BY <2>3, <2>4, <2>5 DEF CallsOK, calm_call
  <2>7. QED
    BY <1>4, <2>2, <2>6 DEF Calm
<1>5. QED
  BY <1>3, <1>4

LEMMA LoadedStep ==
  ASSUME Typed, NEW l \in 1..LoadIds, load[l].phase = "build",
         load' = [load EXCEPT ![l] = Load("done", @.session)],
         session' = load[l].session, signer' = load[l].session.token,
         account' = account, promise' = promise, stored' = stored,
         call' = call, signatures' = signatures, overlapped' \in BOOLEAN
  PROVE  Typed' /\ (Calm /\ OneChange' => Calm')
<1> USE DEF Typed
<1>1. /\ load'[l].phase = "done" /\ load'[l].session = load[l].session
      /\ \A m \in 1..LoadIds : m # l => load'[m] = load[m]
      /\ load' \in [1..LoadIds -> {Unused} \cup [phase : {"check", "build", "done", "failed"}, session : Known]]
  BY DEF TypeOK, Load, Unused
<1>2. /\ load[l].session \in Known /\ matches_pda(load[l].session)
      /\ load[l].session.token \in Taps /\ load[l].session.token = load[l].session.wallet
      /\ load[l].session.token # NoToken
  <2>1. load[l].session \in Known
    BY DEF TypeOK, Unused, Load
  <2>2. matches_pda(load[l].session)
    BY DEF RefsOK
  <2>3. QED
    BY <2>1, <2>2, ConnectorAssumption DEF Known, matches_pda
<1>3. TypeOK'
  BY <1>1, <1>2 DEF TypeOK
<1>4. Typed'
  <2>1. \A m \in 1..LoadIds : load'[m].phase \in {"build", "done"} => matches_pda(load'[m].session)
    BY <1>1, <1>2 DEF RefsOK
  <2>2. promise' # NoLoad => load'[promise'].phase \notin {"unused", "failed"}
    BY <1>1 DEF RefsOK, TypeOK
  <2>3. \A m \in 1..LoadIds : load'[m].phase = "unused" <=> load[m].phase = "unused"
    BY <1>1
  <2>4. QED
    BY <1>3, <2>1, <2>2, <2>3, StepTyped
<1>5. ASSUME Calm, OneChange' PROVE Calm'
  <2>0. flying(l)
    BY DEF flying
  <2>1. \A m \in 1..LoadIds : ~flying(m)'
    BY <1>1, <1>5, <2>0 DEF flying, Calm, OneChange
  <2>2. account = load[l].session.wallet
    BY <1>5, <2>0 DEF Calm, SignerOK
  <2>3. SignerOK'
    BY <1>2, <2>1, <2>2 DEF SignerOK, NoSession
  <2>4. \A d \in connecting : call[d].load = l
    BY <1>5, <2>0 DEF Calm, OneChange
  <2>5. \A d \in Calls : call[d].phase \notin {"tap", "build"}
    <3>1. \A d \in Calls : call[d].phase \in {"tap", "build"} => d \in connecting /\ call[d].load = NoLoad
      BY DEF connecting, RefsOK, waits_well
    <3>2. l # NoLoad
      BY Finite DEF NoLoad
    <3>3. QED
      BY <2>4, <3>1, <3>2
  <2>6. \A d \in Calls : call[d].phase = "sign" => call[d].asked = load'[call[d].load].session.wallet
    <3>1. \A d \in Calls : call[d].phase = "sign" => call[d].load \in 1..LoadIds
      BY DEF RefsOK, TypeOK, waits_well
    <3>2. QED
      BY <1>1, <1>5, <3>1 DEF Calm, CallsOK, calm_call
  <2>7. \A d \in Calls : call[d].phase \in {"ensure", "restore"} /\ interactive(d) => load'[call[d].load].phase # "failed"
    BY <1>1, <2>4 DEF connecting
  <2>8. CallsOK'
    BY <2>5, <2>6, <2>7 DEF CallsOK, calm_call, interactive
  <2>9. QED
    BY <1>5, <2>3, <2>8 DEF Calm
<1>6. QED
  BY <1>4, <1>5

-----------------------------------------------------------------------------
(* The actions.                                                            *)

LEMMA LookupStep ==
  ASSUME Typed, NEW c \in Connects, call[c].phase \in {"new", "ensure"}, Lookup(c), Calm => no_signer,
         signatures' = signatures, overlapped' \in BOOLEAN
  PROVE  Typed' /\ (Calm /\ OneChange' => Calm')
<1>1. c \in Calls /\ c \notin started
  BY ConnectsAreCalls DEF started
<1>2. CASE stored # NoSession /\ restoreSession(c) /\ UNCHANGED stored
  BY <1>1, <1>2, RestoreTyped, RestoreCalm
<1>3. CASE stored = NoSession /\ UNCHANGED <<memory, load, stored>>
  <2>1. /\ session' = session /\ account' = account /\ signer' = signer /\ promise' = promise
        /\ load' = load /\ stored' = stored
    BY <1>3 DEF memory
  <2>2. signatures \subseteq [account : Tokens, token : Taps] /\ (Calm => \A s \in signatures : s.account = s.token)
    BY DEF Typed, TypeOK, Calm
  <2>3. CASE interactive(c)
    <3>1. call' = [call EXCEPT ![c] = [phase |-> "tap", load |-> NoLoad, asked |-> NoToken]]
      BY <1>2, <1>3, <2>3 DEF Lookup, Waits
    <3>2. waits_well(load, [phase |-> "tap", load |-> NoLoad, asked |-> NoToken])
      BY DEF waits_well
    <3>3. Calm => calm_call(c, [phase |-> "tap", load |-> NoLoad, asked |-> NoToken])
      BY DEF calm_call
    <3>4. "tap" \in Phases
      BY DEF Phases
    <3>5. QED
      BY <1>1, <2>1, <2>2, <3>1, <3>2, <3>3, <3>4, CallStep
  <2>4. CASE ~interactive(c)
    <3>1. Ends(c)
      BY <1>3, <2>4 DEF Lookup
    <3>2. QED
      BY <1>1, <2>1, <2>2, <3>1, EndStep
  <2>5. QED
    BY <2>3, <2>4
<1>4. QED
  BY <1>2, <1>3 DEF Lookup

LEMMA UnsignedStep ==
  ASSUME Typed, NEW c \in Connects, call[c].phase \in {"new", "ensure"}, Unsigned(c),
         Calm /\ interactive(c) => no_signer, signatures' = signatures, overlapped' \in BOOLEAN
  PROVE  Typed' /\ (Calm /\ OneChange' => Calm')
<1>1. CASE interactive(c) /\ Lookup(c)
  BY <1>1, LookupStep
<1>2. CASE Ends(c) /\ UNCHANGED <<memory, load, stored>>
  <2>1. /\ session' = session /\ account' = account /\ signer' = signer /\ promise' = promise
        /\ load' = load /\ stored' = stored
    BY <1>2 DEF memory
  <2>2. signatures \subseteq [account : Tokens, token : Taps] /\ (Calm => \A s \in signatures : s.account = s.token)
    BY DEF Typed, TypeOK, Calm
  <2>3. QED
    BY <1>2, <2>1, <2>2, ConnectsAreCalls, EndStep
<1>3. QED
  BY <1>1, <1>2 DEF Unsigned

LEMMA ConnectStep ==
  ASSUME Typed, NEW c \in Calls, Connect(c), overlapped' \in BOOLEAN
  PROVE  Typed' /\ (Calm /\ OneChange' => Calm')
<1>1. /\ call[c].phase = "new" /\ signatures' = signatures /\ c \in Connects
      /\ signatures \subseteq [account : Tokens, token : Taps] /\ (Calm => \A s \in signatures : s.account = s.token)
  <2>1. call[c] = NoCall /\ signatures' = signatures /\ c \in Connects
    BY DEF Connect, Connects
  <2>2. signatures \subseteq [account : Tokens, token : Taps] /\ (Calm => \A s \in signatures : s.account = s.token)
    BY DEF Typed, TypeOK, Calm
  <2>3. QED
    BY <2>1, <2>2 DEF NoCall
<1>2. CASE session = NoSession /\ Lookup(c)
  <2>1. Calm => no_signer
    BY <1>2 DEF Calm, SignerOK, no_signer
  <2>2. QED
    BY <1>1, <1>2, <2>1, LookupStep
<1>3. CASE Ends(c) /\ UNCHANGED <<memory, load, stored>>
  <2>1. /\ session' = session /\ account' = account /\ signer' = signer /\ promise' = promise
        /\ load' = load /\ stored' = stored
    BY <1>3 DEF memory
  <2>2. QED
    BY <1>1, <1>3, <2>1, EndStep
<1>4. CASE promise # NoLoad /\ Waits(c, "ensure", promise, NoToken) /\ UNCHANGED <<memory, load, stored>>
  <2>1. /\ session' = session /\ account' = account /\ signer' = signer /\ promise' = promise
        /\ load' = load /\ stored' = stored
    BY <1>4 DEF memory
  <2>2. promise \in {NoLoad} \cup 1..LoadIds /\ load[promise].phase \notin {"unused", "failed"}
    BY <1>4 DEF Typed, TypeOK, RefsOK
  <2>3. waits_well(load, [phase |-> "ensure", load |-> promise, asked |-> NoToken])
    BY <1>4, <2>2 DEF waits_well
  <2>4. calm_call(c, [phase |-> "ensure", load |-> promise, asked |-> NoToken])
    BY <2>2 DEF calm_call
  <2>5. "ensure" \in Phases
    BY DEF Phases
  <2>6. call' = [call EXCEPT ![c] = [phase |-> "ensure", load |-> promise, asked |-> NoToken]]
    BY <1>4 DEF Waits
  <2>7. QED
    BY <1>1, <2>1, <2>2, <2>3, <2>4, <2>5, <2>6, CallStep
<1>5. CASE signer = NoToken /\ promise = NoLoad /\ Unsigned(c)
  BY <1>1, <1>5, UnsignedStep DEF no_signer
<1>6. QED
  BY <1>2, <1>3, <1>4, <1>5 DEF Connect

LEMMA EnsuredStep ==
  ASSUME Typed, NEW c \in Calls, Ensured(c), overlapped' \in BOOLEAN
  PROVE  Typed' /\ (Calm /\ OneChange' => Calm')
<1>1. /\ call[c].phase = "ensure" /\ signatures' = signatures /\ c \in Connects
      /\ signatures \subseteq [account : Tokens, token : Taps] /\ (Calm => \A s \in signatures : s.account = s.token)
  BY DEF Ensured, Typed, TypeOK, RefsOK, Calm
<1>2. CASE Ends(c) /\ UNCHANGED <<memory, load, stored>>
  <2>1. /\ session' = session /\ account' = account /\ signer' = signer /\ promise' = promise
        /\ load' = load /\ stored' = stored
    BY <1>2 DEF memory
  <2>2. QED
    BY <1>1, <1>2, <2>1, EndStep
<1>3. CASE load[call[c].load].phase = "failed" /\ Unsigned(c)
  <2>1. Calm /\ interactive(c) => no_signer
    BY <1>1, <1>3 DEF Calm, CallsOK, calm_call
  <2>2. QED
    BY <1>1, <1>3, <2>1, UnsignedStep
<1>4. QED
  BY <1>2, <1>3 DEF Ensured

LEMMA RestoredStep ==
  ASSUME Typed, NEW c \in Calls, Restored(c), overlapped' \in BOOLEAN
  PROVE  Typed' /\ (Calm /\ OneChange' => Calm')
<1>1. /\ call[c].phase = "restore" /\ signatures' = signatures /\ c \in Connects
      /\ signatures \subseteq [account : Tokens, token : Taps] /\ (Calm => \A s \in signatures : s.account = s.token)
  BY DEF Restored, Typed, TypeOK, RefsOK, Calm
<1>2. /\ session' = session /\ account' = account /\ signer' = signer /\ promise' = promise
      /\ load' = load /\ stored' = stored
  BY DEF Restored, memory
<1>3. CASE load[call[c].load].phase = "failed" /\ interactive(c)
  <2>1. call' = [call EXCEPT ![c] = [phase |-> "tap", load |-> NoLoad, asked |-> NoToken]]
    BY <1>3 DEF Restored, Waits
  <2>2. waits_well(load, [phase |-> "tap", load |-> NoLoad, asked |-> NoToken])
    BY DEF waits_well
  <2>3. Calm => calm_call(c, [phase |-> "tap", load |-> NoLoad, asked |-> NoToken])
    BY <1>1, <1>3 DEF calm_call, Calm, CallsOK
  <2>4. "tap" \in Phases
    BY DEF Phases
  <2>5. QED
    BY <1>1, <1>2, <2>1, <2>2, <2>3, <2>4, CallStep
<1>4. CASE ~(load[call[c].load].phase = "failed" /\ interactive(c))
  <2>1. Ends(c)
    BY <1>4 DEF Restored
  <2>2. QED
    BY <1>1, <1>2, <2>1, EndStep
<1>5. QED
  BY <1>3, <1>4

LEMMA SignStep ==
  ASSUME Typed, NEW c \in Calls, Sign(c), overlapped' \in BOOLEAN
  PROVE  Typed' /\ (Calm /\ OneChange' => Calm')
<1>1. /\ signatures \subseteq [account : Tokens, token : Taps]
      /\ Calm => \A s \in signatures : s.account = s.token
  BY DEF Typed, TypeOK, Calm
<1>2. /\ session' = session /\ account' = account /\ signer' = signer /\ promise' = promise
      /\ load' = load /\ stored' = stored /\ call[c].phase = "new"
  BY DEF Sign, memory, NoCall
<1>3. CASE requireAccount /\ signer # NoToken /\ signatures' = signatures \cup {signature(account, signer)} /\ Ends(c)
  <2>1. account \in Tokens /\ signer \in Taps
    BY <1>3 DEF requireAccount, Typed, TypeOK
  <2>2. Calm => account = signer
    BY <1>3 DEF requireAccount, Calm, SignerOK
  <2>3. /\ signatures' \subseteq [account : Tokens, token : Taps]
        /\ Calm => \A s \in signatures' : s.account = s.token
    BY <1>1, <1>3, <2>1, <2>2 DEF signature
  <2>4. QED
    BY <1>2, <1>3, <2>3, EndStep
<1>4. CASE /\ requireAccount /\ signer = NoToken /\ promise # NoLoad
           /\ Waits(c, "sign", promise, account) /\ UNCHANGED signatures
  <2>1. /\ promise \in {NoLoad} \cup 1..LoadIds /\ load[promise].phase \notin {"unused", "failed"}
        /\ account \in Tokens
    BY <1>4 DEF Typed, TypeOK, RefsOK, requireAccount
  <2>2. waits_well(load, [phase |-> "sign", load |-> promise, asked |-> account])
    BY <1>4, <2>1 DEF waits_well
  <2>3. Calm => calm_call(c, [phase |-> "sign", load |-> promise, asked |-> account])
    BY <1>4 DEF calm_call, Calm, SignerOK, requireAccount
  <2>4. "sign" \in Phases
    BY DEF Phases
  <2>5. call' = [call EXCEPT ![c] = [phase |-> "sign", load |-> promise, asked |-> account]]
    BY <1>4 DEF Waits
  <2>6. QED
    BY <1>1, <1>2, <1>4, <2>1, <2>2, <2>3, <2>4, <2>5, CallStep
<1>5. CASE Ends(c) /\ UNCHANGED signatures
  BY <1>1, <1>2, <1>5, EndStep
<1>6. QED
  BY <1>3, <1>4, <1>5 DEF Sign

LEMMA SignedStep ==
  ASSUME Typed, NEW c \in Calls, Signed(c), overlapped' \in BOOLEAN
  PROVE  Typed' /\ (Calm /\ OneChange' => Calm')
<1> DEFINE l == call[c].load
           s == signature(call[c].asked, load[l].session.token)
<1>1. /\ signatures \subseteq [account : Tokens, token : Taps]
      /\ Calm => \A x \in signatures : x.account = x.token
  BY DEF Typed, TypeOK, Calm
<1>2. /\ session' = session /\ account' = account /\ signer' = signer /\ promise' = promise
      /\ load' = load /\ stored' = stored /\ Ends(c)
      /\ signatures' = IF load[l].phase = "done" THEN signatures \cup {s} ELSE signatures
  BY DEF Signed, memory
<1>3. call[c].phase = "sign"
  BY DEF Signed
<1>4. l \in 1..LoadIds /\ load[l].phase # "unused" /\ call[c].asked \in Tokens
  BY <1>3 DEF Typed, TypeOK, RefsOK, waits_well
<1>5. load[l].phase = "done" => load[l].session.token \in Taps /\ load[l].session.wallet = load[l].session.token
  <2>1. load[l].phase = "done" => load[l].session \in Known /\ matches_pda(load[l].session)
    BY <1>4 DEF Typed, TypeOK, RefsOK, Unused, Load
  <2>2. QED
    BY <2>1 DEF Known, matches_pda
<1>6. Calm => call[c].asked = load[l].session.wallet
  BY <1>3 DEF Calm, CallsOK, calm_call
<1> HIDE DEF l
<1>7. load[l].phase = "done" => s \in [account : Tokens, token : Taps] /\ (Calm => s.account = s.token)
  BY <1>4, <1>5, <1>6 DEF signature
<1> HIDE DEF s
<1>8. /\ signatures' \subseteq [account : Tokens, token : Taps]
      /\ Calm => \A x \in signatures' : x.account = x.token
  BY <1>1, <1>2, <1>7
<1>9. QED
  BY <1>2, <1>8, EndStep

LEMMA LoadStepStep ==
  ASSUME Typed, NEW l \in 1..LoadIds, LoadStep(l), overlapped' \in BOOLEAN
  PROVE  Typed' /\ (Calm /\ OneChange' => Calm')
<1>1. call' = call /\ signatures' = signatures
  BY DEF LoadStep, Checked, Loaded
<1>2. CASE /\ load[l].phase = "check" /\ matches_pda(load[l].session)
           /\ load' = [load EXCEPT ![l] = Load("build", @.session)] /\ UNCHANGED <<memory, stored>>
  BY <1>1, <1>2, CheckedStep DEF memory
<1>3. CASE flying(l) /\ LoadFails(l)
  BY <1>1, <1>3, LoadFailsStep
<1>4. CASE /\ load[l].phase = "build"
           /\ load' = [load EXCEPT ![l] = Load("done", @.session)]
           /\ session' = load[l].session
           /\ signer' = load[l].session.token
           /\ UNCHANGED <<account, promise, stored>>
  BY <1>1, <1>4, LoadedStep
<1>5. QED
  BY <1>2, <1>3, <1>4 DEF LoadStep, Checked, Loaded, flying

LEMMA StorageStep ==
  ASSUME Typed, StorageChanges, overlapped' \in BOOLEAN
  PROVE  Typed' /\ (Calm /\ OneChange' => Calm')
<1> USE DEF Typed
<1>1. /\ session' = session /\ account' = account /\ signer' = signer /\ promise' = promise
      /\ load' = load /\ call' = call /\ signatures' = signatures
      /\ stored' \in Stores \cup {NoSession}
  BY DEF StorageChanges, memory
<1>2. stored' \in {NoSession} \cup Known
  <2>1. Stores \subseteq Known
    <3>1. Stores \subseteq Session /\ \A s \in Stores : s.wallet = s.token => s.token \in Taps
      BY ConnectorAssumption, Zenon
    <3>2. QED
      BY <3>1 DEF Known, matches_pda
  <2>2. QED
    BY <1>1, <2>1
<1>3. TypeOK'
  BY <1>1, <1>2 DEF TypeOK
<1>4. Typed'
  BY <1>1, <1>3, StepTyped DEF RefsOK
<1>5. ASSUME Calm, OneChange' PROVE Calm'
  <2>1. SignerOK'
    BY <1>1, <1>5 DEF Calm, SignerOK, flying
  <2>2. CallsOK'
    BY <1>1, <1>5 DEF Calm, CallsOK, calm_call, no_signer, interactive
  <2>3. QED
    BY <1>1, <1>5, <2>1, <2>2 DEF Calm
<1>6. QED
  BY <1>4, <1>5

(* What Recorded adds: a step after which nothing has overlapped has left  *)
(* one change in flight at most, and a disconnect has met none.            *)
LEMMA NotOverlapped ==
  ASSUME overlapped' = (overlapped \/ in_flight' > 1 \/ (in_flight > 0 /\ disconnecting)), ~overlapped'
  PROVE  /\ ~overlapped
         /\ OneChange'
         /\ disconnecting => connecting = {} /\ \A l \in 1..LoadIds : ~flying(l)
<1>1. ~overlapped /\ ~(in_flight' > 1) /\ ~(in_flight > 0 /\ disconnecting)
  OBVIOUS
<1>2. in_flight' <= 1
  <2> DEFINE A == connecting'
             B == {l \in 1..LoadIds : flying(l)' /\ \A c \in A : call'[c].load # l}
  <2>1. IsFiniteSet(A) /\ IsFiniteSet(B)
    <3>1. A \subseteq Calls /\ B \subseteq 1..LoadIds
      BY DEF connecting
    <3>2. QED
      BY <3>1, Finite, FS_Subset
  <2>2. in_flight' = Cardinality(A) + Cardinality(B)
    BY DEF in_flight, flying
  <2>3. Cardinality(A) \in Nat /\ Cardinality(B) \in Nat
    BY <2>1, FS_CardinalityType
  <2> HIDE DEF A, B
  <2>4. in_flight' \in Nat
    BY <2>2, <2>3
  <2>5. QED
    BY <1>1, <2>4
<1>3. OneChange'
  BY <1>2, OneChangeNext
<1>4. disconnecting => connecting = {} /\ \A l \in 1..LoadIds : ~flying(l)
  BY <1>1, InFlightCounts
<1>5. QED
  BY <1>1, <1>3, <1>4

(* What the state is when the page was loaded with what the storage holds. *)
Started ==
    /\ stored \in {NoSession} \cup Known
    /\ session = stored /\ account = stored.wallet /\ signer = NoToken
    /\ promise = IF stored = NoSession THEN NoLoad ELSE 1
    /\ load = [l \in 1..LoadIds |-> IF l = 1 /\ stored # NoSession THEN Load("check", stored) ELSE Unused]
    /\ signatures = {} /\ overlapped = FALSE
    /\ call \in [Calls -> {NoCall, Over}]

LEMMA StartedOK == Started => Inv
<1> SUFFICES ASSUME Started PROVE Inv
  OBVIOUS
<1> DEFINE s == stored
<1>0. s \in {NoSession} \cup Known /\ call \in [Calls -> {NoCall, Over}]
  BY DEF Started
<1>1. LoadIds \in Nat /\ LoadIds >= 1 /\ 1 \in 1..LoadIds
  BY Finite
<1>2. \A c \in Calls : /\ call[c].phase \in {"new", "over"}
                       /\ call[c].load = NoLoad /\ call[c].asked = NoToken
  BY <1>0 DEF NoCall, Over
<1>3. \A l \in 1..LoadIds :
          /\ load[l] = IF l = 1 /\ s # NoSession THEN Load("check", s) ELSE Unused
          /\ l = 1 /\ s # NoSession => load[l].phase = "check" /\ load[l].session = s
          /\ ~(l = 1 /\ s # NoSession) => load[l].phase = "unused"
  BY DEF Started, Load, Unused
<1>4. s # NoSession => s.wallet \in Tokens
  BY <1>0 DEF Known, Session
<1>5. NoSession.wallet = NoToken
  BY DEF NoSession
<1>6. TypeOK
  <2>1. load \in [1..LoadIds -> {Unused} \cup [phase : {"check", "build", "done", "failed"}, session : Known]]
    BY <1>0, <1>1 DEF Started, Load
  <2>2. call \in [Calls -> [phase : Phases, load : {NoLoad} \cup 1..LoadIds, asked : {NoToken} \cup Tokens]]
    BY <1>0 DEF NoCall, Over, Phases
  <2>3. promise \in {NoLoad} \cup 1..LoadIds
    BY <1>1 DEF Started
  <2>4. QED
    BY <1>0, <1>4, <1>5, <2>1, <2>2, <2>3 DEF TypeOK, Started
<1>7. RefsOK
  <2>1. promise # NoLoad => load[promise].phase \notin {"unused", "failed"}
    BY <1>1, <1>3 DEF Started
  <2>2. QED
    BY <1>2, <1>3, <2>1 DEF RefsOK, waits_well
<1>8. NamesOK
  <2>1. IsFiniteSet(started)
    BY Finite, FS_Subset DEF started
  <2>2. Cardinality(started) \in Nat
    BY <2>1, FS_CardinalityType
  <2>3. CASE s = NoSession
    <3>1. \A l \in 1..LoadIds : begun(l) <=> l <= 0
      BY <1>1, <1>3, <2>3 DEF begun
    <3>2. QED
      BY <1>1, <2>2, <3>1 DEF NamesOK
  <2>4. CASE s # NoSession
    <3>1. \A l \in 1..LoadIds : begun(l) <=> l <= 1
      BY <1>1, <1>3, <2>4 DEF begun
    <3>2. QED
      BY <1>1, <2>2, <3>1 DEF NamesOK
  <2>5. QED
    BY <2>3, <2>4
<1>9. connecting = {}
  BY <1>2 DEF connecting
<1>10. \A l \in 1..LoadIds : flying(l) => l = 1 /\ s # NoSession
  BY <1>3 DEF flying
<1>11. SignerOK
  BY <1>3, <1>5, <1>10, <1>1 DEF SignerOK, Started
<1>12. CallsOK
  BY <1>2 DEF CallsOK, calm_call
<1>13. QED
  BY <1>6, <1>7, <1>8, <1>9, <1>10, <1>11, <1>12 DEF Inv, Calm, OneChange, Started

-----------------------------------------------------------------------------
LEMMA InitOK == Init => Inv
<1> SUFFICES ASSUME Init PROVE Inv
  OBVIOUS
<1>1. stored \in {NoSession} \cup Known
  <2>1. Stores \subseteq Session /\ \A s \in Stores : s.wallet = s.token => s.token \in Taps
    BY ConnectorAssumption, Zenon
  <2>2. QED
    BY <2>1 DEF Init, Known, matches_pda
<1>2. Started
  BY <1>1 DEF Init, Constructed, Started
<1>3. QED
  BY <1>2, StartedOK

LEMMA ReloadOK == Inv /\ Reload => Inv'
<1>1. Inv /\ Reload => Started'
  BY DEF Inv, TypeOK, Reload, Started
<1>2. (Started => Inv)'
  BY StartedOK, PTL
<1>3. QED
  BY <1>1, <1>2

LEMMA RecordedOK == Inv /\ Recorded(Step) => Inv'
<1> SUFFICES ASSUME Inv, Recorded(Step) PROVE Inv'
  OBVIOUS
<1>1. /\ overlapped' = (overlapped \/ in_flight' > 1 \/ (in_flight > 0 /\ disconnecting))
      /\ overlapped' \in BOOLEAN /\ Step
  BY DEF Recorded
<1>2. Typed
  BY DEF Inv, Typed
<1>3. SUFFICES Typed' /\ (~overlapped' => Calm')
  BY DEF Inv, Typed
<1>4. ~overlapped' => Calm /\ OneChange' /\ (disconnecting => connecting = {} /\ \A l \in 1..LoadIds : ~flying(l))
  BY <1>1, NotOverlapped DEF Inv
<1>5. ASSUME NEW c \in Calls, Connect(c) \/ Sign(c) \/ Resume(c) PROVE Typed' /\ (~overlapped' => Calm')
  BY <1>1, <1>2, <1>4, <1>5, ConnectStep, SignStep, EnsuredStep, RestoredStep, TappedStep, BuiltStep, SignedStep
     DEF Resume
<1>6. ASSUME NEW c \in Calls, Disconnect(c) PROVE Typed' /\ (~overlapped' => Calm')
  <2>1. disconnecting
    <3>1. call \in [Calls -> [phase : Phases, load : {NoLoad} \cup 1..LoadIds, asked : {NoToken} \cup Tokens]]
      BY <1>2 DEF Typed, TypeOK
    <3>2. call'[c] = Over
      BY <1>6, <3>1 DEF Disconnect, Ends
    <3>3. QED
      BY <1>6, <3>2 DEF disconnecting, Disconnect
  <2>2. QED
    BY <1>1, <1>2, <1>4, <1>6, <2>1, DisconnectStep
<1>7. ASSUME NEW l \in 1..LoadIds, LoadStep(l) PROVE Typed' /\ (~overlapped' => Calm')
  BY <1>1, <1>2, <1>4, <1>7, LoadStepStep
<1>8. CASE StorageChanges
  BY <1>1, <1>2, <1>4, <1>8, StorageStep
<1>9. QED
  BY <1>1, <1>5, <1>6, <1>7, <1>8 DEF Step

LEMMA StutterOK == Inv /\ UNCHANGED vars => Inv'
<1> SUFFICES ASSUME Inv, UNCHANGED vars PROVE Inv'
  OBVIOUS
<1>1. /\ session' = session /\ account' = account /\ signer' = signer /\ promise' = promise
      /\ load' = load /\ call' = call /\ signatures' = signatures /\ stored' = stored /\ overlapped' = overlapped
  BY DEF vars, memory, history
<1>2. TypeOK' /\ RefsOK'
  BY <1>1 DEF Inv, TypeOK, RefsOK, waits_well
<1>3. NamesOK'
  BY <1>1 DEF Inv, NamesOK, begun, started
<1>4. Calm => Calm'
  <2>1. OneChange => OneChange'
    BY <1>1 DEF OneChange, connecting, flying
  <2>2. SignerOK => SignerOK'
    BY <1>1 DEF SignerOK, flying
  <2>3. CallsOK => CallsOK'
    BY <1>1 DEF CallsOK, calm_call, no_signer, interactive
  <2>4. QED
    BY <1>1, <2>1, <2>2, <2>3 DEF Calm
<1>5. QED
  BY <1>1, <1>2, <1>3, <1>4 DEF Inv

(* What the connector's memory holds fits its calls and loads, and, as     *)
(* long as nothing has overlapped, so do the account it shows, the signer  *)
(* and the load it waits for (connect, ensureSigner, loadSigner).          *)
THEOREM ConnectorCorrect == Spec => []Inv
<1>1. Init => Inv
  BY InitOK
<1>2. Inv /\ [Next]_vars => Inv'
  BY ReloadOK, RecordedOK, StutterOK DEF Next
<1>3. QED
  BY <1>1, <1>2, PTL DEF Spec

(* SignsForAccount: a transaction is signed with the accessory of the      *)
(* account it was asked for unless changes of the connection overlapped,   *)
(* and always with one that was tapped (signTransaction, ensureSigner,     *)
(* assertSessionPda).                                                      *)
THEOREM AlwaysSignsForAccount == Spec => []SignsForAccount
<1>1. Inv => SignsForAccount
  BY DEF Inv, TypeOK, Calm, SignsForAccount
<1>2. QED
  BY <1>1, ConnectorCorrect, PTL
=============================================================================
