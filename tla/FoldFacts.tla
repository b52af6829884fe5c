----------------------------- MODULE FoldFacts -----------------------------
(***************************************************************************)
(* What the folds of the community modules compute, sums among them.  A    *)
(* fold is a function chosen for the equations it satisfies: that there is *)
(* one, and what its values are, is shown by induction on the size of the  *)
(* set folded, and induction is the least counterexample.                  *)
(*                                                                         *)
(* And what follows: what sequences in a row hold and weigh, where a first *)
(* member is found, the powers of a base, and the number digits write.     *)
(***************************************************************************)
EXTENDS Integers, SequencesExt, Powers, FiniteSetTheorems, WellFoundedInduction, TLAPS

\* Every set of naturals with an element has a least one.
LEMMA LeastNumber ==
    ASSUME NEW S, S \subseteq Nat, S # {}
    PROVE  \E m \in S : \A n \in S : m <= n
<1> DEFINE R == {p \in Nat \X Nat : p[1] < p[2]}
<1>1. IsWellFoundedOn(R, Nat)
  BY NatLessThanWellFounded DEF OpToRel
<1>2. PICK m \in S : \A n \in S : ~(<<n, m>> \in R)
  <2> HIDE DEF R
  <2> QED  BY <1>1, WFMin
<1>3. \A n \in S : ~(n < m)
  <2>1. \A n \in S : <<n, m>> \in Nat \X Nat
    OBVIOUS
  <2> QED  BY <1>2, <2>1
<1> QED  BY <1>3

\* A set of naturals with zero and every successor is all of them.
LEMMA Inductive ==
    ASSUME NEW S, S \subseteq Nat, 0 \in S, \A k \in S : k + 1 \in S
    PROVE  S = Nat
<1> SUFFICES ASSUME Nat \ S # {} PROVE FALSE
  OBVIOUS
<1>1. PICK m \in Nat \ S : \A n \in Nat \ S : m <= n
  BY LeastNumber
<1>2. m - 1 \in S
  BY <1>1
<1> QED  BY <1>1, <1>2

LEMMA ConcatHolds ==
    ASSUME NEW X, NEW s \in Seq(X), NEW t \in Seq(X)
    PROVE  ToSet(s \o t) = ToSet(s) \cup ToSet(t)
<1>1. \A i \in DOMAIN s : (s \o t)[i] = s[i] /\ i \in DOMAIN (s \o t)
  OBVIOUS
<1>2. \A i \in DOMAIN t : (s \o t)[Len(s) + i] = t[i] /\ Len(s) + i \in DOMAIN (s \o t)
  OBVIOUS
<1>3. \A i \in DOMAIN (s \o t) : i \in DOMAIN s \/ (i - Len(s) \in DOMAIN t /\ i = Len(s) + (i - Len(s)))
  OBVIOUS
<1>4. ToSet(s) \cup ToSet(t) \subseteq ToSet(s \o t)
  BY <1>1, <1>2 DEF ToSet
<1>5. ASSUME NEW i \in DOMAIN (s \o t) PROVE (s \o t)[i] \in ToSet(s) \cup ToSet(t)
  BY <1>1, <1>2, <1>3 DEF ToSet
<1>6. ToSet(s \o t) \subseteq ToSet(s) \cup ToSet(t)
  BY <1>5 DEF ToSet
<1> QED  BY <1>4, <1>6

\* The equations a fold of D satisfies, one element at a time.
IsFold(f, D, base, op, pick) ==
    \A s \in SUBSET D :
       f[s] = IF s = {} THEN base ELSE op[<<pick[s], f[s \ {pick[s]}]>>]

LEMMA FoldExists ==
    ASSUME NEW D, IsFiniteSet(D), NEW V, NEW base \in V, NEW op \in [D \X V -> V],
           NEW pick, \A s \in SUBSET D : s # {} => pick[s] \in s
    PROVE  \E f \in [SUBSET D -> V] : IsFold(f, D, base, op, pick)
<1> DEFINE Value(f, s) == IF s = {} THEN base ELSE op[<<pick[s], f[s \ {pick[s]}]>>]
           Small(k) == {s \in SUBSET D : Cardinality(s) <= k}
           Upto(k, f) == \A s \in Small(k) : f[s] = Value(f, s)
           Good == {k \in Nat : \E f \in [SUBSET D -> V] : Upto(k, f)}
<1>1. \A s \in SUBSET D : IsFiniteSet(s) /\ Cardinality(s) \in Nat
  BY FS_Subset, FS_CardinalityType
<1>2. \A s \in SUBSET D : s # {} =>
         /\ pick[s] \in D /\ s \ {pick[s]} \in SUBSET D
         /\ Cardinality(s \ {pick[s]}) = Cardinality(s) - 1
  BY <1>1, FS_RemoveElement
<1>3. \A f \in [SUBSET D -> V], s \in SUBSET D : Value(f, s) \in V
  BY <1>2
<1>4. 0 \in Good
  <2> DEFINE f == [s \in SUBSET D |-> base]
  <2>1. \A s \in Small(0) : s = {}
    BY <1>1, FS_EmptySet
  <2>2. f \in [SUBSET D -> V] /\ Upto(0, f)
    BY <2>1
  <2> QED  BY <2>2
<1>5. \A k \in Good : k + 1 \in Good
  <2> SUFFICES ASSUME NEW k \in Good PROVE k + 1 \in Good
    OBVIOUS
  <2>1. PICK f \in [SUBSET D -> V] : Upto(k, f)
    OBVIOUS
  <2> DEFINE g == [s \in SUBSET D |-> IF s \in Small(k) THEN f[s] ELSE Value(f, s)]
  <2>2. g \in [SUBSET D -> V]
    <3> HIDE DEF Value, Small
    <3> QED  BY <1>3
  <2>3. \A s \in SUBSET D : g[s] = Value(f, s)
    BY <2>1
  <2>4. ASSUME NEW s \in Small(k + 1), s # {} PROVE g[s \ {pick[s]}] = f[s \ {pick[s]}]
    <3>1. s \ {pick[s]} \in Small(k)
      BY <1>1, <1>2, <2>4
    <3> QED  BY <3>1
  <2>5. ASSUME NEW s \in Small(k + 1) PROVE g[s] = Value(g, s)
    <3>1. g[s] = Value(f, s)
      BY <2>3
    <3>2. Value(f, s) = Value(g, s)
      <4> HIDE DEF g, Small
      <4> QED  BY <2>4
    <3> QED  BY <3>1, <3>2
  <2>6. k + 1 \in Nat
    OBVIOUS
  <2>7. Upto(k + 1, g)
    <3> HIDE DEF g, Value, Small, Good
    <3> QED  BY <2>5
  <2> HIDE DEF g, Upto
  <2> QED  BY <2>2, <2>6, <2>7
<1>6. Good = Nat
  <2> HIDE DEF Good
  <2>1. Good \subseteq Nat
    BY DEF Good
  <2> QED  BY <2>1, <1>4, <1>5, Inductive
<1>7. PICK f \in [SUBSET D -> V] : Upto(Cardinality(D), f)
  <2>1. Cardinality(D) \in Good
    BY <1>1, <1>6
  <2> QED  BY <2>1
<1>8. Small(Cardinality(D)) = SUBSET D
  BY FS_Subset
<1> QED  BY <1>7, <1>8 DEF IsFold

\* The greatest element of a finite set of numbers, and of a prefix.
LEMMA MaxOfFinite ==
    ASSUME NEW n \in Nat, NEW t \in SUBSET (1 .. n), t # {}
    PROVE  Max(t) \in t /\ \A i \in t : i <= Max(t)
<1> DEFINE below == {m \in Nat : n - m \in t}
<1>1. below \subseteq Nat /\ below # {}
  <2>1. \A i \in t : n - i \in Nat /\ n - (n - i) = i
    OBVIOUS
  <2> QED  BY <2>1
<1>2. PICK m \in below : \A k \in below : m <= k
  <2> HIDE DEF below
  <2> QED  BY <1>1, LeastNumber
<1> DEFINE j == n - m
<1>3. j \in t /\ m \in Nat
  BY <1>2
<1>4. ASSUME NEW i \in t PROVE j >= i
  <2>1. n - i \in below
    OBVIOUS
  <2> QED  BY <1>2, <2>1
<1>5. Max(t) \in t /\ \A i \in t : Max(t) >= i
  BY <1>4 DEF Max
<1> QED  BY <1>5

LEMMA MaxOfPrefix ==
    ASSUME NEW k \in Nat
    PROVE  Max(1 .. k + 1) = k + 1 /\ (1 .. k + 1) \ {k + 1} = 1 .. k
<1>1. Max(1 .. k + 1) \in 1 .. k + 1 /\ \A i \in 1 .. k + 1 : i <= Max(1 .. k + 1)
  <2>1. k + 1 \in Nat /\ 1 .. k + 1 \in SUBSET (1 .. k + 1) /\ 1 .. k + 1 # {}
    OBVIOUS
  <2> QED  BY <2>1, MaxOfFinite
<1>2. k + 1 \in 1 .. k + 1
  OBVIOUS
<1> QED  BY <1>1, <1>2

\* The equations of a fold from the left.
IsLeftFold(f, s, base, op) ==
    \A t \in SUBSET DOMAIN s :
       f[t] = IF t = {} THEN base ELSE op[<<f[t \ {Max(t)}], s[Max(t)]>>]

LEMMA FoldLeftExists ==
    ASSUME NEW A, NEW s \in Seq(A), NEW V, NEW base \in V, NEW op \in [V \X A -> V]
    PROVE  \E f \in [SUBSET DOMAIN s -> V] : IsLeftFold(f, s, base, op)
<1> DEFINE D == DOMAIN s
           pick == [t \in SUBSET D |-> Max(t)]
           step == [p \in D \X V |-> op[<<p[2], s[p[1]]>>]]
<1>1. D = 1 .. Len(s) /\ Len(s) \in Nat /\ IsFiniteSet(D)
  BY FS_Interval
<1>2. \A t \in SUBSET D : t # {} => pick[t] = Max(t) /\ Max(t) \in t
  BY <1>1, MaxOfFinite
<1>3. step \in [D \X V -> V]
  BY <1>1
<1>4. \E f \in [SUBSET D -> V] : IsFold(f, D, base, step, pick)
  <2>1. \A t \in SUBSET D : t # {} => pick[t] \in t
    BY <1>2
  <2> HIDE DEF D, pick, step
  <2> QED  BY <1>1, <2>1, <1>3, FoldExists
<1>5. PICK f \in [SUBSET D -> V] : IsFold(f, D, base, step, pick)
  BY <1>4
<1>6. ASSUME NEW t \in SUBSET D, t # {}
      PROVE  f[t] = op[<<f[t \ {Max(t)}], s[Max(t)]>>]
  <2>1. f[t] = step[<<Max(t), f[t \ {Max(t)}]>>]
    BY <1>2, <1>5, <1>6 DEF IsFold
  <2>2. Max(t) \in D /\ f[t \ {Max(t)}] \in V
    BY <1>2, <1>6
  <2> QED  BY <2>1, <2>2
<1>7. f[{}] = base
  BY <1>5 DEF IsFold
<1>8. \A t \in SUBSET D :
         f[t] = IF t = {} THEN base ELSE op[<<f[t \ {Max(t)}], s[Max(t)]>>]
  BY <1>6, <1>7
<1> QED  BY <1>8 DEF IsLeftFold

\* R, which relates a value to what was read, holds of the base and nothing, and
\* every step of the left fold f of op over s keeps it.
FoldKeeps(f, s, A, V, base, op, R) ==
    /\ s \in Seq(A) /\ base \in V /\ op \in [V \X A -> V]
    /\ f[{}] = base
    /\ \A t \in SUBSET DOMAIN s : t # {} /\ f[t \ {Max(t)}] \in V =>
          f[t] = op[<<f[t \ {Max(t)}], s[Max(t)]>>]
    /\ R \in SUBSET (V \X SUBSET A) /\ <<base, {}>> \in R
    /\ \A v \in V, a \in A : \A S \in SUBSET A :
          <<v, S>> \in R => <<op[<<v, a>>], S \cup {a}>> \in R

\* Then it holds of the fold and what the sequence holds.
LEMMA LeftFoldKeeps ==
    ASSUME NEW A, NEW s, NEW V, NEW base, NEW op, NEW f, NEW R, FoldKeeps(f, s, A, V, base, op, R)
    PROVE  <<f[DOMAIN s], ToSet(s)>> \in R
<1> USE DEF FoldKeeps
<1> DEFINE D == DOMAIN s
           part(k) == {s[i] : i \in 1 .. k}
           Good == {k \in Nat : k <= Len(s) => <<f[1 .. k], part(k)>> \in R}
<1>1. D = 1 .. Len(s) /\ Len(s) \in Nat
  OBVIOUS
<1>2. 0 \in Good
  <2>1. 1 .. 0 = {} /\ part(0) = {}
    OBVIOUS
  <2> HIDE DEF part
  <2> QED  BY <2>1
<1>3. \A k \in Good : k + 1 \in Good
  <2> HIDE DEF part
  <2> SUFFICES ASSUME NEW k \in Nat, k + 1 <= Len(s), <<f[1 .. k], part(k)>> \in R
               PROVE  <<f[1 .. k + 1], part(k + 1)>> \in R
    OBVIOUS
  <2>1. /\ 1 .. k + 1 \in SUBSET D /\ 1 .. k + 1 # {} /\ 1 .. k \in SUBSET D
        /\ k + 1 \in D /\ s[k + 1] \in A
    <3>1. k + 1 \in 1 .. k + 1 /\ \A i \in 1 .. k + 1 : i \in 1 .. Len(s)
      BY <1>1
    <3>2. \A i \in 1 .. k : i \in 1 .. Len(s)
      BY <1>1
    <3>3. s[k + 1] \in A
      BY <1>1, <3>1
    <3> HIDE DEF D
    <3> QED  BY <1>1, <3>1, <3>2, <3>3
  <2>2. f[1 .. k + 1] = op[<<f[1 .. k], s[k + 1]>>]
    <3>1. Max(1 .. k + 1) = k + 1 /\ (1 .. k + 1) \ {Max(1 .. k + 1)} = 1 .. k
      BY MaxOfPrefix
    <3>2. f[(1 .. k + 1) \ {Max(1 .. k + 1)}] \in V
      BY <3>1
    <3>3. 1 .. k + 1 \in SUBSET DOMAIN s
      BY <2>1
    <3>4. f[1 .. k + 1] = op[<<f[(1 .. k + 1) \ {Max(1 .. k + 1)}], s[Max(1 .. k + 1)]>>]
      BY <2>1, <3>2, <3>3
    <3> QED  BY <3>1, <3>4
  <2>3. part(k + 1) = part(k) \cup {s[k + 1]}
    <3>1. 1 .. k + 1 = (1 .. k) \cup {k + 1}
      OBVIOUS
    <3> QED  BY <3>1 DEF part
  <2>4. part(k) \in SUBSET A /\ f[1 .. k] \in V
    <3>1. \A i \in 1 .. k : s[i] \in A
      BY <1>1
    <3> QED  BY <2>1, <3>1 DEF part
  <2> QED  BY <2>1, <2>2, <2>3, <2>4
<1>4. Good = Nat
  <2> HIDE DEF Good
  <2>1. Good \subseteq Nat
    BY DEF Good
  <2> QED  BY <2>1, <1>2, <1>3, Inductive
<1>5. <<f[1 .. Len(s)], part(Len(s))>> \in R
  <2>1. Len(s) \in Good
    <3> HIDE DEF Good
    <3> QED  BY <1>1, <1>4
  <2> HIDE DEF part
  <2> QED  BY <2>1, <1>1
<1>6. part(Len(s)) = ToSet(s)
  BY <1>1 DEF ToSet
<1> QED  BY <1>1, <1>5, <1>6

\* FlattenSeq is what its equations say,
LEMMA FlattenExists ==
    ASSUME NEW X, NEW ss \in Seq(Seq(X))
    PROVE  \E f : f = [i \in 1 .. Len(ss) |-> IF i = 1 THEN ss[i] ELSE f[i-1] \o ss[i]]
<1> DEFINE Value(f, i) == IF i = 1 THEN ss[i] ELSE f[i-1] \o ss[i]
           Upto(k, f) == \A i \in 1 .. Len(ss) : i <= k => f[i] = Value(f, i)
           Good == {k \in Nat : \E f \in [1 .. Len(ss) -> Seq(X)] : Upto(k, f)}
<1>1. 0 \in Good
  <2>1. ss \in [1 .. Len(ss) -> Seq(X)] /\ Upto(0, ss)
    OBVIOUS
  <2> QED  BY <2>1
<1>2. \A k \in Good : k + 1 \in Good
  <2> SUFFICES ASSUME NEW k \in Good PROVE k + 1 \in Good
    OBVIOUS
  <2>1. PICK f \in [1 .. Len(ss) -> Seq(X)] : Upto(k, f)
    OBVIOUS
  <2> DEFINE g == [i \in 1 .. Len(ss) |-> IF i <= k THEN f[i] ELSE Value(f, i)]
  <2>2. ASSUME NEW i \in 1 .. Len(ss) PROVE Value(f, i) \in Seq(X)
    <3>1. ss[i] \in Seq(X)
      OBVIOUS
    <3>2. ASSUME i # 1 PROVE f[i-1] \o ss[i] \in Seq(X)
      <4>1. i - 1 \in 1 .. Len(ss)
        BY <3>2
      <4>2. f[i-1] \in Seq(X)
        <5> HIDE DEF Good, Upto
        <5> QED  BY <2>1, <4>1
      <4> QED  BY <3>1, <4>2
    <3> QED  BY <3>1, <3>2
  <2>3. g \in [1 .. Len(ss) -> Seq(X)]
    <3> HIDE DEF Value
    <3> QED  BY <2>2
  <2>4. ASSUME NEW i \in 1 .. Len(ss), i <= k + 1 PROVE g[i] = Value(g, i)
    <3>1. g[i] = Value(f, i)
      BY <2>1
    <3>2. i # 1 => g[i-1] = f[i-1]
      BY <2>4
    <3> HIDE DEF g
    <3> QED  BY <3>1, <3>2
  <2>5. k + 1 \in Nat
    OBVIOUS
  <2>6. Upto(k + 1, g)
    <3> HIDE DEF g, Value, Good
    <3> QED  BY <2>4
  <2> HIDE DEF g, Upto
  <2> QED  BY <2>3, <2>5, <2>6
<1>3. Good = Nat
  <2> HIDE DEF Good
  <2>1. Good \subseteq Nat
    BY DEF Good
  <2> QED  BY <2>1, <1>1, <1>2, Inductive
<1>4. PICK f \in [1 .. Len(ss) -> Seq(X)] : Upto(Len(ss), f)
  <2>1. Len(ss) \in Good
    <3> HIDE DEF Good
    <3> QED  BY <1>3
  <2> QED  BY <2>1
<1>5. \A i \in 1 .. Len(ss) : f[i] = Value(f, i)
  <2> HIDE DEF Value
  <2> QED  BY <1>4
<1>6. f = [i \in 1 .. Len(ss) |-> Value(f, i)]
  BY <1>5
<1> QED  BY <1>6

\* and holds what its parts hold.
LEMMA FlattenSeqHolds ==
    ASSUME NEW X, NEW ss \in Seq(Seq(X))
    PROVE  /\ FlattenSeq(ss) \in Seq(X)
           /\ ToSet(FlattenSeq(ss)) = UNION {ToSet(ss[i]) : i \in DOMAIN ss}
<1>1. CASE Len(ss) = 0
  <2>1. FlattenSeq(ss) = << >> /\ DOMAIN ss = {} /\ ss = << >>
    BY <1>1 DEF FlattenSeq
  <2> QED  BY <2>1 DEF ToSet
<1>2. CASE Len(ss) # 0
  <2> DEFINE body(f) == [i \in 1 .. Len(ss) |-> IF i = 1 THEN ss[i] ELSE f[i-1] \o ss[i]]
             flat == CHOOSE f : f = body(f)
  <2>1. FlattenSeq(ss) = flat[Len(ss)]
    BY <1>2 DEF FlattenSeq
  <2>2. flat = body(flat)
    <3>1. \E f : f = body(f)
      BY FlattenExists
    <3> HIDE DEF body
    <3> QED  BY <3>1
  <2> HIDE DEF flat
  <2> DEFINE upto(k) == UNION {ToSet(ss[i]) : i \in 1 .. k}
             Good == {k \in Nat : k + 1 <= Len(ss) =>
                         flat[k+1] \in Seq(X) /\ ToSet(flat[k+1]) = upto(k+1)}
  <2>3. 0 \in Good
    <3>1. flat[1] = ss[1] /\ 1 .. 1 = {1} /\ ss[1] \in Seq(X)
      BY <1>2, <2>2
    <3>2. upto(1) = ToSet(ss[1])
      BY <3>1
    <3>3. 0 + 1 = 1
      OBVIOUS
    <3> HIDE DEF upto
    <3> QED  BY <3>1, <3>2, <3>3
  <2>4. \A k \in Good : k + 1 \in Good
    <3> HIDE DEF upto
    <3> SUFFICES ASSUME NEW k \in Nat, (k + 1) + 1 <= Len(ss),
                        k + 1 <= Len(ss) =>
                           flat[k+1] \in Seq(X) /\ ToSet(flat[k+1]) = upto(k+1)
                 PROVE  /\ flat[(k+1)+1] \in Seq(X)
                        /\ ToSet(flat[(k+1)+1]) = upto((k+1)+1)
      OBVIOUS
    <3> USE DEF upto
    <3>1. flat[(k+1)+1] = flat[k+1] \o ss[(k+1)+1]
      <4>1. (k+1)+1 \in 1 .. Len(ss) /\ (k+1)+1 # 1 /\ ((k+1)+1) - 1 = k + 1
        OBVIOUS
      <4>2. flat[(k+1)+1] = flat[((k+1)+1) - 1] \o ss[(k+1)+1]
        BY <4>1, <2>2
      <4> QED  BY <4>1, <4>2
    <3>2. flat[k+1] \in Seq(X) /\ ToSet(flat[k+1]) = upto(k+1) /\ ss[(k+1)+1] \in Seq(X)
      <4> HIDE DEF upto
      <4> QED  OBVIOUS
    <3>3. ToSet(flat[k+1] \o ss[(k+1)+1]) = ToSet(flat[k+1]) \cup ToSet(ss[(k+1)+1])
      BY <3>2, ConcatHolds
    <3>4. 1 .. (k+1)+1 = (1 .. k+1) \cup {(k+1)+1}
      OBVIOUS
    <3>5. upto((k+1)+1) = upto(k+1) \cup ToSet(ss[(k+1)+1])
      BY <3>4
    <3>6. flat[k+1] \o ss[(k+1)+1] \in Seq(X)
      BY <3>2
    <3> HIDE DEF upto
    <3> QED  BY <3>1, <3>2, <3>3, <3>5, <3>6
  <2>5. Good = Nat
    <3> HIDE DEF Good
    <3>1. Good \subseteq Nat
      BY DEF Good
    <3> QED  BY <3>1, <2>3, <2>4, Inductive
  <2>6. Len(ss) - 1 \in Nat /\ (Len(ss) - 1) + 1 = Len(ss) /\ DOMAIN ss = 1 .. Len(ss)
    BY <1>2
  <2>7. flat[Len(ss)] \in Seq(X) /\ ToSet(flat[Len(ss)]) = upto(Len(ss))
    <3> HIDE DEF upto
    <3>1. Len(ss) - 1 \in Good
      BY <2>5, <2>6
    <3> QED  BY <3>1, <2>6
  <2> QED  BY <2>1, <2>6, <2>7
<1> QED  BY <1>1, <1>2

-----------------------------------------------------------------------------
(* Sums over finite sets.                                                  *)

\* A set of subsets of a finite set has one with no smaller one in it.
LEMMA LeastSubset ==
    ASSUME NEW D, IsFiniteSet(D), NEW B, B \subseteq SUBSET D, B # {}
    PROVE  \E s \in B : \A t \in SUBSET s : t # s => t \notin B
<1> DEFINE Sizes == {Cardinality(s) : s \in B}
<1>1. \A s \in SUBSET D : IsFiniteSet(s) /\ Cardinality(s) \in Nat
  BY FS_Subset, FS_CardinalityType
<1>2. PICK m \in Sizes : \A n \in Sizes : m <= n
  <2>1. Sizes \subseteq Nat /\ Sizes # {}
    BY <1>1
  <2> HIDE DEF Sizes
  <2> QED  BY <2>1, LeastNumber
<1>3. PICK s \in B : Cardinality(s) = m
  BY <1>2
<1>4. ASSUME NEW t \in SUBSET s, t # s PROVE t \notin B
  <2>1. IsFiniteSet(s) /\ Cardinality(s) \in Nat /\ t \in SUBSET D
    BY <1>1
  <2>2. Cardinality(t) \in Nat /\ Cardinality(t) <= Cardinality(s) /\ Cardinality(t) # Cardinality(s)
    BY <1>1, <1>4, <2>1, FS_Subset
  <2>3. t \in B => Cardinality(s) <= Cardinality(t)
    BY <1>2, <1>3
  <2> QED  BY <2>1, <2>2, <2>3
<1> QED  BY <1>4

\* What holds of the empty set and is kept by every element added holds of all.
LEMMA SubsetInduct ==
    ASSUME NEW D, IsFiniteSet(D), NEW G, {} \in G,
           \A s \in SUBSET D : \A x \in s : s \ {x} \in G => s \in G
    PROVE  SUBSET D \subseteq G
<1> DEFINE B == {s \in SUBSET D : s \notin G}
<1> SUFFICES ASSUME B # {} PROVE FALSE
  OBVIOUS
<1>1. PICK s \in B : \A t \in SUBSET s : t # s => t \notin B
  <2>1. B \subseteq SUBSET D
    OBVIOUS
  <2> HIDE DEF B
  <2> QED  BY <2>1, LeastSubset
<1>2. PICK x \in s : TRUE
  BY <1>1
<1>3. s \ {x} \in SUBSET s /\ s \ {x} # s /\ s \ {x} \in SUBSET D
  BY <1>1, <1>2
<1>4. s \ {x} \in G
  BY <1>1, <1>3
<1> QED  BY <1>1, <1>2, <1>4

\* f sums g over every subset of D, its elements taken in any order.
IsTotal(f, g, D) ==
    /\ f \in [SUBSET D -> Nat]
    /\ f[{}] = 0
    /\ \A s \in SUBSET D : \A x \in s : f[s] = g[x] + f[s \ {x}]

Total(g, D) == MapThenSumSet(LAMBDA x : g[x], D)

LEMMA TotalExists ==
    ASSUME NEW D, IsFiniteSet(D), NEW g \in [D -> Nat]
    PROVE  \E f : IsTotal(f, g, D)
<1> DEFINE pick == [s \in SUBSET D |-> CHOOSE x \in s : TRUE]
           op == [p \in D \X Nat |-> g[p[1]] + p[2]]
<1>1. \A s \in SUBSET D : s # {} => pick[s] \in s
  OBVIOUS
<1>2. op \in [D \X Nat -> Nat] /\ 0 \in Nat
  OBVIOUS
<1> HIDE DEF pick
<1>3. PICK f \in [SUBSET D -> Nat] : IsFold(f, D, 0, op, pick)
  <2> HIDE DEF op
  <2> QED  BY <1>1, <1>2, FoldExists
<1>4. f[{}] = 0
  BY <1>3 DEF IsFold
<1>5. ASSUME NEW s \in SUBSET D, s # {} PROVE f[s] = g[pick[s]] + f[s \ {pick[s]}]
  <2>1. f[s] = op[<<pick[s], f[s \ {pick[s]}]>>]
    BY <1>3, <1>5 DEF IsFold
  <2>2. pick[s] \in D /\ f[s \ {pick[s]}] \in Nat
    BY <1>1, <1>5
  <2> QED  BY <2>1, <2>2
<1> HIDE DEF op
<1> DEFINE B == {s \in SUBSET D : \E x \in s : f[s] # g[x] + f[s \ {x}]}
<1>6. B = {}
  <2> SUFFICES ASSUME B # {} PROVE FALSE
    OBVIOUS
  <2>1. PICK s \in B : \A t \in SUBSET s : t # s => t \notin B
    <3>1. B \subseteq SUBSET D
      OBVIOUS
    <3> HIDE DEF B
    <3> QED  BY <3>1, LeastSubset
  <2>2. PICK x \in s : f[s] # g[x] + f[s \ {x}]
    OBVIOUS
  <2> DEFINE p == pick[s]
             r == s \ {p, x}
  <2>3. s \in SUBSET D /\ p \in s /\ f[s] = g[p] + f[s \ {p}] /\ p # x
    BY <1>1, <1>5, <2>2
  <2>4. /\ x \in s \ {p} /\ (s \ {p}) \ {x} = r
        /\ p \in s \ {x} /\ (s \ {x}) \ {p} = r
    BY <2>2, <2>3
  <2>5. s \ {p} \notin B /\ s \ {x} \notin B
    BY <2>1, <2>2, <2>3
  <2>6. f[s \ {p}] = g[x] + f[r] /\ f[s \ {x}] = g[p] + f[r]
    BY <2>3, <2>4, <2>5
  <2>7. g[x] \in Nat /\ g[p] \in Nat /\ f[r] \in Nat
    BY <2>2, <2>3
  <2> HIDE DEF p, r
  <2> QED  BY <2>2, <2>3, <2>6, <2>7
<1>7. \A s \in SUBSET D : \A x \in s : f[s] = g[x] + f[s \ {x}]
  BY <1>6
<1>8. IsTotal(f, g, D)
  <2> HIDE DEF B
  <2> QED  BY <1>4, <1>7 DEF IsTotal
<1> QED  BY <1>8

LEMMA TotalIs ==
    ASSUME NEW D, IsFiniteSet(D), NEW g \in [D -> Nat], NEW f, IsTotal(f, g, D)
    PROVE  Total(g, D) = f[D]
<1> DEFINE body(h) == [s \in SUBSET D |-> IF s = {} THEN 0
                          ELSE g[CHOOSE x \in s : TRUE] + h[s \ {CHOOSE x \in s : TRUE}]]
           fold == CHOOSE h : h = body(h)
<1>1. Total(g, D) = fold[D]
  BY DEF Total, MapThenSumSet, MapThenFoldSet
<1>2. f = body(f)
  <2>1. ASSUME NEW s \in SUBSET D, s # {}
        PROVE  f[s] = g[CHOOSE x \in s : TRUE] + f[s \ {CHOOSE x \in s : TRUE}]
    <3>1. (CHOOSE x \in s : TRUE) \in s
      BY <2>1
    <3> QED  BY <3>1 DEF IsTotal
  <2> QED  BY <2>1 DEF IsTotal
<1>3. fold = body(fold)
  <2> HIDE DEF body
  <2> QED  BY <1>2
<1> HIDE DEF fold
<1> DEFINE G == {s \in SUBSET D : fold[s] = f[s]}
<1>4. {} \in G
  BY <1>3 DEF IsTotal
<1> DEFINE B == {s \in SUBSET D : fold[s] # f[s]}
<1>5. B = {}
  <2> SUFFICES ASSUME B # {} PROVE FALSE
    OBVIOUS
  <2>1. PICK s \in B : \A t \in SUBSET s : t # s => t \notin B
    <3>1. B \subseteq SUBSET D
      OBVIOUS
    <3> HIDE DEF B
    <3> QED  BY <3>1, LeastSubset
  <2>2. s \in SUBSET D /\ s # {}
    BY <1>4
  <2> DEFINE c == CHOOSE x \in s : TRUE
  <2>3. c \in s
    BY <2>2
  <2>4. fold[s] = g[c] + fold[s \ {c}]
    BY <1>3, <2>2
  <2> HIDE DEF c
  <2>5. fold[s \ {c}] = f[s \ {c}]
    BY <2>1, <2>2, <2>3
  <2>6. f[s] = g[c] + f[s \ {c}]
    BY <2>2, <2>3 DEF IsTotal
  <2> QED  BY <2>4, <2>5, <2>6
<1> QED  BY <1>1, <1>5

LEMMA TotalType ==
    ASSUME NEW D, IsFiniteSet(D), NEW g \in [D -> Nat]
    PROVE  Total(g, D) \in Nat
<1>1. PICK f : IsTotal(f, g, D)
  BY TotalExists
<1>2. f[D] \in Nat
  BY <1>1 DEF IsTotal
<1> QED  BY <1>1, <1>2, TotalIs

\* A sum is no less than one with no greater terms.
LEMMA TotalMore ==
    ASSUME NEW D, IsFiniteSet(D), NEW g \in [D -> Nat], NEW k \in [D -> Nat],
           \A x \in D : g[x] <= k[x]
    PROVE  Total(g, D) <= Total(k, D)
<1>1. PICK f : IsTotal(f, g, D)
  BY TotalExists
<1>2. PICK e : IsTotal(e, k, D)
  BY TotalExists
<1> DEFINE G == {s \in SUBSET D : f[s] <= e[s]}
<1>3. {} \in G
  BY <1>1, <1>2 DEF IsTotal
<1>4. ASSUME NEW s \in SUBSET D, NEW x \in s, s \ {x} \in G PROVE s \in G
  <2>1. f[s] = g[x] + f[s \ {x}] /\ e[s] = k[x] + e[s \ {x}]
    BY <1>1, <1>2 DEF IsTotal
  <2>2. f[s \ {x}] <= e[s \ {x}] /\ g[x] <= k[x] /\ g[x] \in Nat /\ k[x] \in Nat
    BY <1>4
  <2>3. f[s \ {x}] \in Nat /\ e[s \ {x}] \in Nat
    BY <1>1, <1>2 DEF IsTotal
  <2> QED  BY <2>1, <2>2, <2>3
<1>5. D \in G
  <2> HIDE DEF G
  <2>1. SUBSET D \subseteq G
    BY <1>3, <1>4, SubsetInduct
  <2> QED  BY <2>1
<1> QED  BY <1>1, <1>2, <1>5, TotalIs

\* The sum of the sums is the sum of the sums of the terms.
LEMMA TotalPlus ==
    ASSUME NEW D, IsFiniteSet(D), NEW g \in [D -> Nat], NEW k \in [D -> Nat],
           NEW b \in [D -> Nat], \A x \in D : b[x] = g[x] + k[x]
    PROVE  Total(b, D) = Total(g, D) + Total(k, D)
<1>1. PICK f : IsTotal(f, g, D)
  BY TotalExists
<1>2. PICK e : IsTotal(e, k, D)
  BY TotalExists
<1>3. PICK h : IsTotal(h, b, D)
  BY TotalExists
<1> DEFINE G == {s \in SUBSET D : h[s] = f[s] + e[s]}
<1>4. {} \in G
  BY <1>1, <1>2, <1>3 DEF IsTotal
<1>5. ASSUME NEW s \in SUBSET D, NEW x \in s, s \ {x} \in G PROVE s \in G
  <2>1. /\ f[s] = g[x] + f[s \ {x}] /\ e[s] = k[x] + e[s \ {x}]
        /\ h[s] = b[x] + h[s \ {x}]
    BY <1>1, <1>2, <1>3 DEF IsTotal
  <2>2. /\ h[s \ {x}] = f[s \ {x}] + e[s \ {x}] /\ b[x] = g[x] + k[x]
        /\ g[x] \in Nat /\ k[x] \in Nat
    BY <1>5
  <2>3. f[s \ {x}] \in Nat /\ e[s \ {x}] \in Nat
    BY <1>1, <1>2 DEF IsTotal
  <2> QED  BY <2>1, <2>2, <2>3
<1>6. D \in G
  <2> HIDE DEF G
  <2>1. SUBSET D \subseteq G
    BY <1>4, <1>5, SubsetInduct
  <2> QED  BY <2>1
<1> QED  BY <1>1, <1>2, <1>3, <1>6, TotalIs

\* A sum stays when its terms are named anew, and when terms of 0 are added.
LEMMA TotalMoved ==
    ASSUME NEW D, IsFiniteSet(D), NEW E, IsFiniteSet(E),
           NEW g \in [D -> Nat], NEW k \in [E -> Nat], NEW h \in [D -> E],
           \A x, y \in D : h[x] = h[y] => x = y,
           \A x \in D : k[h[x]] = g[x],
           \A y \in E : (\A x \in D : h[x] # y) => k[y] = 0
    PROVE  Total(g, D) = Total(k, E)
<1>1. PICK f : IsTotal(f, g, D)
  BY TotalExists
<1>2. PICK e : IsTotal(e, k, E)
  BY TotalExists
<1> DEFINE image(s) == {h[x] : x \in s}
           G == {s \in SUBSET D : e[image(s)] = f[s]}
<1>3. {} \in G
  <2>1. image({}) = {}
    OBVIOUS
  <2> HIDE DEF image
  <2> QED  BY <1>1, <1>2, <2>1 DEF IsTotal
<1>4. ASSUME NEW s \in SUBSET D, NEW x \in s, s \ {x} \in G PROVE s \in G
  <2>1. image(s) \in SUBSET E /\ h[x] \in image(s) /\ image(s) \ {h[x]} = image(s \ {x})
    OBVIOUS
  <2> HIDE DEF image
  <2>2. f[s] = g[x] + f[s \ {x}]
    BY <1>1 DEF IsTotal
  <2>3. e[image(s)] = k[h[x]] + e[image(s \ {x})]
    <3>1. e[image(s)] = k[h[x]] + e[image(s) \ {h[x]}]
      <4> HIDE DEF G
      <4> QED  BY <1>2, <2>1 DEF IsTotal
    <3> QED  BY <2>1, <3>1
  <2>4. k[h[x]] = g[x] /\ e[image(s \ {x})] = f[s \ {x}]
    BY <1>4
  <2> QED  BY <2>2, <2>3, <2>4
<1>5. e[image(D)] = f[D]
  <2>1. D \in G
    <3> HIDE DEF G
    <3>1. SUBSET D \subseteq G
      BY <1>3, <1>4, SubsetInduct
    <3> QED  BY <3>1
  <2> QED  BY <2>1
<1> DEFINE I == image(D)
<1>6. I \in SUBSET E /\ \A y \in E : y \notin I => k[y] = 0
  OBVIOUS
<1> HIDE DEF I, image, G
<1> DEFINE H == {s \in SUBSET E : e[s] = e[s \cap I]}
<1>7. {} \in H
  <2>1. {} \cap I = {}
    OBVIOUS
  <2> QED  BY <2>1
<1>8. ASSUME NEW s \in SUBSET E, NEW y \in s, s \ {y} \in H PROVE s \in H
  <2>1. e[s] = k[y] + e[s \ {y}] /\ e[s \ {y}] = e[(s \ {y}) \cap I]
    BY <1>2, <1>8 DEF IsTotal
  <2>2. CASE y \in I
    <3>1. s \cap I \in SUBSET E /\ y \in s \cap I /\ (s \ {y}) \cap I = (s \cap I) \ {y}
      BY <2>2
    <3>2. e[s \cap I] = k[y] + e[(s \cap I) \ {y}]
      BY <1>2, <3>1 DEF IsTotal
    <3> QED  BY <2>1, <3>1, <3>2
  <2>3. CASE y \notin I
    <3>1. (s \ {y}) \cap I = s \cap I /\ k[y] = 0 /\ s \cap I \in SUBSET E
      BY <1>6, <2>3
    <3>2. e[s \cap I] \in Nat
      BY <1>2, <3>1 DEF IsTotal
    <3>3. e[s \ {y}] = e[s \cap I]
      BY <2>1, <3>1
    <3>4. e[s] = 0 + e[s \cap I]
      BY <2>1, <3>1, <3>3
    <3> QED  BY <3>2, <3>4
  <2>4. e[s] = e[s \cap I]
    BY <2>2, <2>3
  <2> QED  BY <2>4
<1>9. e[E] = e[E \cap I]
  <2>1. E \in H
    <3> HIDE DEF H
    <3>1. SUBSET E \subseteq H
      BY <1>7, <1>8, SubsetInduct
    <3> QED  BY <3>1
  <2> QED  BY <2>1
<1>10. E \cap I = I /\ e[I] = f[D]
  BY <1>5, <1>6 DEF I
<1>11. Total(g, D) = f[D]
  BY <1>1, TotalIs
<1>12. Total(k, E) = e[E]
  BY <1>2, TotalIs
<1> QED  BY <1>9, <1>10, <1>11, <1>12


-----------------------------------------------------------------------------
(* Powers.                                                                 *)

powers_to(g, b, n) ==
    g \in [0..n -> Nat] /\ g[0] = 1 /\ \A i \in 1..n : g[i] = b * g[i - 1]

\* Powers up to any exponent, by induction on it.
LEMMA PowersExist ==
    ASSUME NEW b \in Nat
    PROVE  \A n \in Nat : \E g : powers_to(g, b, n)
<1> DEFINE G == {n \in Nat : \E g : powers_to(g, b, n)}
<1>1. 0 \in G
  <2>1. powers_to([i \in 0..0 |-> 1], b, 0)
    BY DEF powers_to
  <2> QED  BY <2>1
<1>2. ASSUME NEW n \in Nat, n \in G PROVE n + 1 \in G
  <2>1. PICK g : powers_to(g, b, n)
    BY <1>2
  <2> DEFINE h == [i \in 0..(n + 1) |-> IF i = n + 1 THEN b * g[n] ELSE g[i]]
  <2>2. h \in [0..(n + 1) -> Nat]
    <3>1. g[n] \in Nat /\ b * g[n] \in Nat
      BY <2>1 DEF powers_to
    <3>2. \A i \in 0..(n + 1) : i # n + 1 => g[i] \in Nat
      BY <2>1 DEF powers_to
    <3> QED  BY <3>1, <3>2
  <2>3. h[0] = 1
    BY <2>1 DEF powers_to
  <2>4. ASSUME NEW i \in 1..(n + 1) PROVE h[i] = b * h[i - 1]
    <3>1. i - 1 \in 0..n /\ i - 1 # n + 1 /\ i \in 0..(n + 1) /\ i - 1 \in 0..(n + 1)
      OBVIOUS
    <3>2. h[i - 1] = g[i - 1]
      BY <3>1
    <3>3. CASE i = n + 1
      BY <3>1, <3>2, <3>3
    <3>4. CASE i # n + 1
      <4>1. i \in 1..n
        BY <3>4
      <4>2. g[i] = b * g[i - 1] /\ h[i] = g[i]
        BY <2>1, <3>1, <3>4, <4>1 DEF powers_to
      <4> QED  BY <3>2, <4>2
    <3> QED  BY <3>3, <3>4
  <2>5. powers_to(h, b, n + 1)
    <3> HIDE DEF h
    <3> QED  BY <2>2, <2>3, <2>4 DEF powers_to
  <2> HIDE DEF h
  <2> QED  BY <2>5
<1>3. G = Nat
  <2>1. G \subseteq Nat
    OBVIOUS
  <2> HIDE DEF G
  <2> QED  BY <1>1, <1>2, <2>1, Inductive
<1> QED  BY <1>3

\* However far two tables of powers go, they agree.
LEMMA PowersAgree ==
    ASSUME NEW b \in Nat, NEW n \in Nat, NEW m \in Nat, NEW g, NEW h,
           powers_to(g, b, n), powers_to(h, b, m)
    PROVE  \A i \in Nat : i <= n /\ i <= m => g[i] = h[i]
<1> DEFINE G == {i \in Nat : i <= n /\ i <= m => g[i] = h[i]}
<1>1. 0 \in G
  BY DEF powers_to
<1>2. ASSUME NEW i \in Nat, i \in G PROVE i + 1 \in G
  <2>1. SUFFICES ASSUME i + 1 <= n, i + 1 <= m PROVE g[i + 1] = h[i + 1]
    OBVIOUS
  <2>2. i + 1 \in 1..n /\ i + 1 \in 1..m /\ (i + 1) - 1 = i /\ i <= n /\ i <= m
    BY <2>1
  <2>3. g[i + 1] = b * g[i] /\ h[i + 1] = b * h[i]
    BY <2>2 DEF powers_to
  <2> QED  BY <1>2, <2>2, <2>3
<1>3. G = Nat
  <2>1. G \subseteq Nat
    OBVIOUS
  <2> HIDE DEF G
  <2> QED  BY <1>1, <1>2, <2>1, Inductive
<1> QED  BY <1>3

\* powers(b) is what its recursive definition says it is, and positive.
LEMMA PowersPositive ==
    ASSUME NEW b \in Nat, b > 0
    PROVE  /\ powers(b)[0] = 1
           /\ \A n \in Nat : /\ powers(b)[n] \in Nat /\ powers(b)[n] > 0
                             /\ powers(b)[n + 1] = b * powers(b)[n]
<1> DEFINE F == [n \in Nat |-> (CHOOSE g : powers_to(g, b, n))[n]]
           body(f, n) == IF n = 0 THEN 1 ELSE b * f[n - 1]
           p == powers(b)
<1>1. \A n \in Nat : powers_to(CHOOSE g : powers_to(g, b, n), b, n)
  BY PowersExist
<1>2. ASSUME NEW n \in Nat PROVE F[n] = body(F, n)
  <2> DEFINE g == CHOOSE g : powers_to(g, b, n)
  <2>1. powers_to(g, b, n) /\ F[n] = g[n]
    BY <1>1
  <2> HIDE DEF g
  <2>2. CASE n = 0
    BY <2>1, <2>2 DEF powers_to
  <2>3. CASE n # 0
    <3> DEFINE h == CHOOSE h : powers_to(h, b, n - 1)
    <3>1. n - 1 \in Nat /\ n \in 1..n /\ n - 1 <= n
      BY <2>3
    <3>2. powers_to(h, b, n - 1) /\ F[n - 1] = h[n - 1]
      BY <1>1, <3>1
    <3> HIDE DEF h, F
    <3>3. g[n - 1] = h[n - 1]
      BY <2>1, <3>1, <3>2, PowersAgree
    <3>4. g[n] = b * g[n - 1]
      BY <2>1, <3>1 DEF powers_to
    <3> QED  BY <2>1, <2>3, <3>2, <3>3, <3>4
  <2> QED  BY <2>2, <2>3
<1>3. F = [n \in Nat |-> body(F, n)]
  <2>1. F = [n \in Nat |-> F[n]]
    OBVIOUS
  <2> HIDE DEF F
  <2>2. [n \in Nat |-> F[n]] = [n \in Nat |-> body(F, n)]
    BY <1>2
  <2> QED  BY <2>1, <2>2
<1>4. p = [n \in Nat |-> body(p, n)]
  <2>1. \E f : f = [n \in Nat |-> body(f, n)]
    BY <1>3
  <2> HIDE DEF F
  <2> QED  BY <2>1 DEF powers
<1> HIDE DEF F, p
<1>5. p[0] = 1 /\ \A n \in Nat : p[n + 1] = b * p[n]
  <2>1. \A n \in Nat : n + 1 \in Nat /\ n + 1 # 0 /\ (n + 1) - 1 = n
    OBVIOUS
  <2> QED  BY <1>4, <2>1
<1> DEFINE G == {n \in Nat : p[n] \in Nat /\ p[n] > 0}
<1>6. 0 \in G
  BY <1>5
<1>7. ASSUME NEW n \in Nat, n \in G PROVE n + 1 \in G
  <2>1. p[n + 1] = b * p[n]
    BY <1>5
  <2>2. p[n] \in Nat /\ p[n] > 0
    BY <1>7
  <2>3. p[n + 1] \in Nat /\ p[n + 1] > 0
    BY <2>1, <2>2
  <2> QED  BY <2>3
<1>8. G = Nat
  <2>1. G \subseteq Nat
    OBVIOUS
  <2> HIDE DEF G
  <2> QED  BY <1>6, <1>7, <2>1, Inductive
<1>9. \A n \in Nat : p[n] \in Nat /\ p[n] > 0
  BY <1>8
<1> QED  BY <1>5, <1>9 DEF p

-----------------------------------------------------------------------------
(* Quotients.                                                              *)

\* A quotient and a remainder are those of any division that leaves less than the divisor.
LEMMA QuotientIs ==
    ASSUME NEW q \in Nat, q > 0, NEW a \in Nat, NEW r \in Nat, r < q
    PROVE  (q * a + r) \div q = a /\ (q * a + r) % q = r
BY SMT

\* A number is its quotient times the divisor, and the remainder.
LEMMA QuotientOf ==
    ASSUME NEW q \in Nat, q > 0, NEW x \in Nat
    PROVE  x \div q \in Nat /\ x % q \in Nat /\ x % q < q /\ x = q * (x \div q) + (x % q)
BY SMT

\* Dividing twice is dividing by the product.
LEMMA QuotientTwice ==
    ASSUME NEW p \in Nat, p > 0, NEW q \in Nat, q > 0, NEW x \in Nat
    PROVE  (x \div p) \div q = x \div (q * p)
<1> DEFINE y == x \div p
           z == y \div q
           t == y % q
           r == p * t + (x % p)
<1>1. y \in Nat /\ x % p \in Nat /\ x % p < p /\ x = p * y + (x % p)
  BY QuotientOf
<1>2. z \in Nat /\ t \in Nat /\ t < q /\ y = q * z + t
  <2> HIDE DEF y
  <2> QED  BY <1>1, QuotientOf
<1> HIDE DEF y, z, t
<1>3. x = (q * p) * z + r
  <2>1. p * (q * z + t) = (q * p) * z + p * t
    BY <1>1, <1>2
  <2> QED  BY <1>1, <1>2, <2>1
<1>4. r \in Nat /\ r < q * p
  <2>1. p * t <= p * (q - 1)
    <3>1. t <= q - 1 /\ q - 1 \in Nat
      BY <1>2
    <3> QED  BY <3>1, <1>2
  <2>2. p * (q - 1) = q * p - p /\ p * t \in Nat /\ q * p \in Nat
    BY <1>2
  <2> QED  BY <1>1, <2>1, <2>2
<1> HIDE DEF r
<1>5. q * p \in Nat /\ q * p > 0
  OBVIOUS
<1> DEFINE m == q * p
<1> HIDE DEF m
<1>6. x \div m = z
  <2>1. m \in Nat /\ m > 0 /\ r < m /\ x = m * z + r
    BY <1>3, <1>4, <1>5 DEF m
  <2> QED  BY <2>1, <1>2, <1>4, QuotientIs
<1> QED  BY <1>6 DEF m, z, y

-----------------------------------------------------------------------------
(* Folds from the right, and digits.                                       *)

\* A set of naturals with an element has a minimum.
LEMMA MinOfSome ==
    ASSUME NEW t, t \subseteq Nat, t # {}
    PROVE  Min(t) \in t /\ \A i \in t : Min(t) <= i
<1>1. \E m \in t : \A i \in t : m <= i
  BY LeastNumber
<1> QED  BY <1>1 DEF Min

\* What is left of an interval without its minimum.
LEMMA MinOfTail ==
    ASSUME NEW k \in Nat, NEW n \in Nat, k <= n
    PROVE  Min(k .. n) = k /\ (k .. n) \ {k} = k + 1 .. n
<1>1. k .. n \subseteq Nat /\ k \in k .. n
  OBVIOUS
<1>2. Min(k .. n) \in k .. n /\ Min(k .. n) <= k
  BY <1>1, MinOfSome
<1>3. Min(k .. n) = k
  BY <1>2
<1>4. (k .. n) \ {k} = k + 1 .. n
  OBVIOUS
<1> QED  BY <1>3, <1>4

\* The equations of a fold from the right.
IsRightFold(f, s, op, base) ==
    \A t \in SUBSET DOMAIN s :
       f[t] = IF t = {} THEN base ELSE op[<<s[Min(t)], f[t \ {Min(t)}]>>]

\* There is a fold from the right.
LEMMA FoldRightExists ==
    ASSUME NEW A, NEW s \in Seq(A), NEW V, NEW base \in V, NEW op \in [A \X V -> V]
    PROVE  \E f \in [SUBSET DOMAIN s -> V] : IsRightFold(f, s, op, base)
<1> DEFINE D == DOMAIN s
           pick == [t \in SUBSET D |-> Min(t)]
           step == [p \in D \X V |-> op[<<s[p[1]], p[2]>>]]
<1>1. D \subseteq Nat /\ IsFiniteSet(D)
  <2>1. D = 1 .. Len(s) /\ Len(s) \in Nat
    OBVIOUS
  <2> QED  BY <2>1, FS_Interval
<1>2. \A t \in SUBSET D : t # {} => pick[t] = Min(t) /\ Min(t) \in t
  BY <1>1, MinOfSome
<1>3. step \in [D \X V -> V]
  OBVIOUS
<1>4. \E f \in [SUBSET D -> V] : IsFold(f, D, base, step, pick)
  <2>1. \A t \in SUBSET D : t # {} => pick[t] \in t
    BY <1>2
  <2> HIDE DEF D, pick, step
  <2> QED  BY <1>1, <2>1, <1>3, FoldExists
<1>5. PICK f \in [SUBSET D -> V] : IsFold(f, D, base, step, pick)
  BY <1>4
<1>6. ASSUME NEW t \in SUBSET D, t # {}
      PROVE  f[t] = op[<<s[Min(t)], f[t \ {Min(t)}]>>]
  <2>1. f[t] = step[<<Min(t), f[t \ {Min(t)}]>>]
    BY <1>2, <1>5, <1>6 DEF IsFold
  <2>2. Min(t) \in D /\ f[t \ {Min(t)}] \in V
    BY <1>2, <1>6
  <2> QED  BY <2>1, <2>2
<1>7. f[{}] = base
  BY <1>5 DEF IsFold
<1>8. \A t \in SUBSET D :
         f[t] = IF t = {} THEN base ELSE op[<<s[Min(t)], f[t \ {Min(t)}]>>]
  BY <1>6, <1>7
<1> QED  BY <1>8 DEF IsRightFold

\* One step of reading digits.
LEMMA HornerTyped == \A p, q, r \in Nat : p + q * r \in Nat
BY SMT

\* v[i] is the number the bytes from the i-th on write, the lowest first.
tails(v, b, w, B) ==
    /\ v \in [1..w + 1 -> Nat] /\ v[w + 1] = 0
    /\ \A i \in 1..w : v[i] = b[i] + B * v[i + 1]


\* The number whose digits, the lowest first, are those of b.
LEMMA Positional ==
    ASSUME NEW B \in Nat, B > 1, NEW w \in Nat, NEW b \in [1..w -> 0..B - 1],
           NEW v, tails(v, b, w, B), NEW n \in Nat
    PROVE  (n < powers(B)[w] /\ \A i \in 1..w : b[i] = (n \div powers(B)[i - 1]) % B) <=> n = v[1]
<1> DEFINE P == powers(B)
           u(k) == n \div P[k]
<1>0. B > 0
  OBVIOUS
<1>1. P[0] = 1 /\ \A k \in Nat : P[k] \in Nat /\ P[k] > 0 /\ P[k + 1] = B * P[k]
  BY <1>0, PowersPositive
<1> HIDE DEF P
<1>2. \A k \in Nat : u(k) \in Nat /\ u(k + 1) = u(k) \div B
  <2> SUFFICES ASSUME NEW k \in Nat PROVE u(k) \in Nat /\ u(k + 1) = u(k) \div B
    OBVIOUS
  <2>1. P[k] \in Nat /\ P[k] > 0 /\ P[k + 1] = B * P[k]
    BY <1>1
  <2>2. (n \div P[k]) \div B = n \div (B * P[k]) /\ n \div P[k] \in Nat
    BY <1>0, <2>1, QuotientTwice, QuotientOf
  <2> QED  BY <2>1, <2>2
<1>3. u(0) = n
  BY <1>1
<1>4. u(w) = 0 <=> n < P[w]
  <2>1. P[w] \in Nat /\ P[w] > 0
    BY <1>1
  <2> DEFINE q == P[w]
  <2> HIDE DEF q
  <2>2. n \div q = 0 <=> n < q
    <3>1. q \in Nat /\ q > 0
      BY <2>1 DEF q
    <3> QED  BY <3>1
  <2> QED  BY <2>2 DEF q
<1>5. /\ v[w + 1] = 0
      /\ \A k \in 0..w : v[k + 1] \in Nat
      /\ \A k \in 0..w - 1 : /\ v[k + 1] = B * v[k + 2] + b[k + 1]
                             /\ b[k + 1] \in Nat /\ b[k + 1] < B /\ v[k + 2] \in Nat
  <2>1. v \in [1..w + 1 -> Nat] /\ v[w + 1] = 0 /\ \A i \in 1..w : v[i] = b[i] + B * v[i + 1]
    BY DEF tails
  <2>2. \A k \in 0..w : v[k + 1] \in Nat
    BY <2>1
  <2>3. ASSUME NEW k \in 0..w - 1
        PROVE  /\ v[k + 1] = B * v[k + 2] + b[k + 1]
               /\ b[k + 1] \in Nat /\ b[k + 1] < B /\ v[k + 2] \in Nat
    <3>1. k + 1 \in 1..w /\ (k + 1) + 1 = k + 2 /\ k + 2 \in 1..w + 1
      OBVIOUS
    <3>2. v[k + 1] = b[k + 1] + B * v[k + 2] /\ v[k + 2] \in Nat /\ b[k + 1] \in 0..B - 1
      BY <2>1, <3>1
    <3>3. B * v[k + 2] \in Nat
      BY <3>2
    <3> QED  BY <3>2, <3>3
  <2> QED  BY <2>1, <2>2, <2>3
<1> DEFINE x(k) == v[k + 1]
           d(k) == b[k + 1]
<1>6. ASSUME NEW k \in 0..w - 1
      PROVE  /\ k + 1 \in 0..w /\ x(k) \in Nat /\ x(k + 1) \in Nat /\ d(k) \in Nat /\ d(k) < B
             /\ x(k) = B * x(k + 1) + d(k)
  BY <1>5
<1>7. x(w) = 0 /\ x(0) = v[1]
  BY <1>5
<1> HIDE DEF x, d, u
<1>8. ASSUME n = v[1] PROVE n < P[w] /\ \A k \in 0..w - 1 : d(k) = u(k) % B
  <2> DEFINE Good == {k \in Nat : k <= w => u(k) = x(k)}
  <2>1. 0 \in Good
    BY <1>8, <1>3, <1>7
  <2>2. ASSUME NEW k \in Good PROVE k + 1 \in Good
    <3> SUFFICES ASSUME k + 1 <= w PROVE u(k + 1) = x(k + 1)
      OBVIOUS
    <3>1. k \in 0..w - 1 /\ u(k) = x(k)
      OBVIOUS
    <3>2. x(k) = B * x(k + 1) + d(k) /\ x(k + 1) \in Nat /\ d(k) \in Nat /\ d(k) < B
      BY <3>1, <1>6
    <3>3. x(k) \div B = x(k + 1)
      BY <1>0, <3>2, QuotientIs
    <3> QED  BY <3>1, <3>3, <1>2
  <2>3. Good = Nat
    <3>1. Good \subseteq Nat
      OBVIOUS
    <3> HIDE DEF Good
    <3> QED  BY <2>1, <2>2, <3>1, Inductive
  <2>4. \A k \in 0..w : u(k) = x(k)
    BY <2>3
  <2> HIDE DEF Good
  <2>5. ASSUME NEW k \in 0..w - 1 PROVE d(k) = u(k) % B
    <3>1. x(k) = B * x(k + 1) + d(k) /\ x(k + 1) \in Nat /\ d(k) \in Nat /\ d(k) < B
      BY <1>6
    <3>2. x(k) % B = d(k)
      <4>1. (B * x(k + 1) + d(k)) % B = d(k)
        BY <1>0, <3>1, QuotientIs
      <4> QED  BY <3>1, <4>1
    <3>3. u(k) = x(k)
      BY <2>4
    <3> QED  BY <3>2, <3>3
  <2>6. u(w) = 0
    BY <2>4, <1>7
  <2> QED  BY <2>5, <2>6, <1>4
<1>9. ASSUME n < P[w], \A k \in 0..w - 1 : d(k) = u(k) % B PROVE n = v[1]
  <2> DEFINE Good == {k \in Nat : k <= w => u(w - k) = x(w - k)}
  <2>1. 0 \in Good
    <3>1. u(w) = x(w) /\ w - 0 = w
      BY <1>9, <1>4, <1>7
    <3> QED  BY <3>1
  <2>2. ASSUME NEW k \in Good PROVE k + 1 \in Good
    <3> SUFFICES ASSUME k + 1 <= w PROVE u(w - (k + 1)) = x(w - (k + 1))
      OBVIOUS
    <3> DEFINE j == w - (k + 1)
    <3>1. j \in 0..w - 1 /\ j \in Nat /\ j + 1 = w - k /\ u(w - k) = x(w - k)
      OBVIOUS
    <3> HIDE DEF j
    <3>2. x(j) = B * x(j + 1) + d(j) /\ x(j + 1) \in Nat
      BY <3>1, <1>6
    <3>3. u(j) \in Nat /\ u(j + 1) = u(j) \div B
      BY <3>1, <1>2
    <3>4. u(j) = B * (u(j) \div B) + (u(j) % B)
      BY <1>0, <3>3, QuotientOf
    <3>5. d(j) = u(j) % B
      BY <3>1, <1>9
    <3>6. u(j) = x(j)
      BY <3>1, <3>2, <3>3, <3>4, <3>5
    <3> QED  BY <3>6 DEF j
  <2>3. Good = Nat
    <3>1. Good \subseteq Nat
      OBVIOUS
    <3> HIDE DEF Good
    <3> QED  BY <2>1, <2>2, <3>1, Inductive
  <2>4. u(0) = x(0)
    <3>1. w \in Good /\ w - w = 0
      <4> HIDE DEF Good
      <4> QED  BY <2>3
    <3> QED  BY <3>1
  <2> QED  BY <2>4, <1>3, <1>7
<1>10. (\A i \in 1..w : b[i] = (n \div P[i - 1]) % B) <=> \A k \in 0..w - 1 : d(k) = u(k) % B
  <2>1. \A k \in 0..w - 1 : k + 1 \in 1..w /\ (k + 1) - 1 = k
    OBVIOUS
  <2>2. \A i \in 1..w : i - 1 \in 0..w - 1 /\ (i - 1) + 1 = i
    OBVIOUS
  <2> QED  BY <2>1, <2>2 DEF d, u
<1> QED  BY <1>8, <1>9, <1>10 DEF P

-----------------------------------------------------------------------------
(* Sums, and sequences in a row.                                           *)

\* p[k] is the sum of the first k numbers of s.
sums_up(p, s) ==
    /\ p \in [0..Len(s) -> Nat] /\ p[0] = 0
    /\ \A i \in 1..Len(s) : p[i] = p[i - 1] + s[i]

\* Two tables of sums agree.
LEMMA SumsAgree ==
    ASSUME NEW s \in Seq(Nat), NEW p, NEW q, sums_up(p, s), sums_up(q, s)
    PROVE  p[Len(s)] = q[Len(s)]
<1> DEFINE n == Len(s)
           Good == {k \in Nat : k <= n => p[k] = q[k]}
<1>1. 0 \in Good
  BY DEF sums_up
<1>2. ASSUME NEW k \in Good PROVE k + 1 \in Good
  <2> SUFFICES ASSUME k + 1 <= n PROVE p[k + 1] = q[k + 1]
    OBVIOUS
  <2>1. k + 1 \in 1..n /\ (k + 1) - 1 = k /\ p[k] = q[k]
    OBVIOUS
  <2>2. p[k + 1] = p[k] + s[k + 1] /\ q[k + 1] = q[k] + s[k + 1]
    BY <2>1 DEF sums_up
  <2> QED  BY <2>1, <2>2
<1>3. Good = Nat
  <2>1. Good \subseteq Nat
    OBVIOUS
  <2> HIDE DEF Good
  <2> QED  BY <1>1, <1>2, <2>1, Inductive
<1>4. n \in Nat /\ n <= n
  OBVIOUS
<1>5. n \in Good
  <2> HIDE DEF Good, n
  <2> QED  BY <1>3, <1>4
<1> QED  BY <1>4, <1>5

\* The total of a sequence is the last of its sums.
LEMMA SumsExist ==
    ASSUME NEW s \in Seq(Nat)
    PROVE  \E p : sums_up(p, s) /\ Total(s, DOMAIN s) = p[Len(s)]
<1> DEFINE D == DOMAIN s
<1>1. D = 1..Len(s) /\ Len(s) \in Nat /\ IsFiniteSet(D) /\ s \in [D -> Nat]
  <2>1. D = 1..Len(s) /\ Len(s) \in Nat /\ s \in [D -> Nat]
    OBVIOUS
  <2>2. IsFiniteSet(1..Len(s))
    BY FS_Interval
  <2> HIDE DEF D
  <2> QED  BY <2>1, <2>2
<1>2. PICK f : IsTotal(f, s, D)
  <2> HIDE DEF D
  <2> QED  BY <1>1, TotalExists
<1>3. Total(s, D) = f[D]
  <2> HIDE DEF D
  <2> QED  BY <1>1, <1>2, TotalIs
<1> DEFINE p == [k \in 0..Len(s) |-> f[1..k]]
<1>4. p \in [0..Len(s) -> Nat]
  <2>1. \A k \in 0..Len(s) : 1..k \in SUBSET D
    BY <1>1
  <2> QED  BY <2>1, <1>2 DEF IsTotal
<1>5. p[0] = 0
  <2>1. 1..0 = {} /\ 0 \in 0..Len(s)
    BY <1>1
  <2> QED  BY <2>1, <1>2 DEF IsTotal
<1>6. ASSUME NEW i \in 1..Len(s) PROVE p[i] = p[i - 1] + s[i]
  <2>1. 1..i \in SUBSET D /\ i \in 1..i /\ (1..i) \ {i} = 1..i - 1 /\ i \in D
    BY <1>1
  <2>2. f[1..i] = s[i] + f[1..i - 1]
    BY <2>1, <1>2 DEF IsTotal
  <2>3. s[i] \in Nat /\ p[i] = f[1..i] /\ p[i - 1] = f[1..i - 1] /\ p[i - 1] \in Nat
    BY <1>4
  <2> HIDE DEF p
  <2> QED  BY <2>2, <2>3
<1>7. p[Len(s)] = f[D]
  BY <1>1
<1> HIDE DEF p
<1> QED  BY <1>3, <1>4, <1>5, <1>6, <1>7 DEF sums_up

\* The total of a sequence, from a table of its sums.
LEMMA SumsAre ==
    ASSUME NEW s \in Seq(Nat), NEW p, sums_up(p, s)
    PROVE  Total(s, DOMAIN s) = p[Len(s)]
BY SumsExist, SumsAgree

\* The total of two sequences in a row.
LEMMA SumsOfConcat ==
    ASSUME NEW s \in Seq(Nat), NEW t \in Seq(Nat)
    PROVE  Total(s \o t, DOMAIN (s \o t)) = Total(s, DOMAIN s) + Total(t, DOMAIN t)
<1>1. PICK p : sums_up(p, s) /\ Total(s, DOMAIN s) = p[Len(s)]
  BY SumsExist
<1>2. PICK q : sums_up(q, t) /\ Total(t, DOMAIN t) = q[Len(t)]
  BY SumsExist
<1> DEFINE n == Len(s)
           m == Len(t)
           w == s \o t
           r == [k \in 0..n + m |-> IF k <= n THEN p[k] ELSE p[n] + q[k - n]]
<1>3. n \in Nat /\ m \in Nat /\ w \in Seq(Nat) /\ Len(w) = n + m
  OBVIOUS
<1>4. /\ p \in [0..n -> Nat] /\ p[0] = 0 /\ \A i \in 1..n : p[i] = p[i - 1] + s[i]
      /\ q \in [0..m -> Nat] /\ q[0] = 0 /\ \A i \in 1..m : q[i] = q[i - 1] + t[i]
  BY <1>1, <1>2 DEF sums_up
<1>5. /\ \A i \in 1..n : w[i] = s[i]
      /\ \A i \in 1..m : w[n + i] = t[i]
      /\ \A i \in 1..n : s[i] \in Nat
      /\ \A i \in 1..m : t[i] \in Nat
  OBVIOUS
<1> HIDE DEF n, m, w
<1>6. r \in [0..n + m -> Nat]
  <2>1. ASSUME NEW k \in 0..n + m, k <= n PROVE p[k] \in Nat
    BY <1>3, <1>4, <2>1
  <2>2. ASSUME NEW k \in 0..n + m, ~(k <= n) PROVE p[n] + q[k - n] \in Nat
    <3>1. k - n \in 0..m /\ n \in 0..n
      BY <1>3, <2>2
    <3> QED  BY <3>1, <1>4
  <2> QED  BY <2>1, <2>2
<1>7. r[0] = 0 /\ 0 \in 0..n
  BY <1>3, <1>4
<1>8. ASSUME NEW i \in 1..n + m PROVE r[i] = r[i - 1] + w[i]
  <2>1. CASE i <= n
    <3>1. i \in 1..n /\ i \in 0..n + m /\ i - 1 \in 0..n + m /\ i - 1 <= n
      BY <1>3, <2>1
    <3>2. r[i] = p[i] /\ r[i - 1] = p[i - 1]
      BY <2>1, <3>1
    <3> HIDE DEF r
    <3> QED  BY <3>1, <3>2, <1>4, <1>5
  <2>2. CASE ~(i <= n)
    <3> DEFINE j == i - n
    <3>1. j \in 1..m /\ i = n + j /\ i \in 0..n + m /\ i - 1 \in 0..n + m /\ (i - 1) - n = j - 1
      BY <1>3, <2>2
    <3>2. r[i] = p[n] + q[j]
      BY <2>2, <3>1
    <3>3. r[i - 1] = p[n] + q[j - 1]
      <4>1. CASE i - 1 <= n
        <5>1. i - 1 = n /\ j - 1 = 0
          BY <1>3, <2>2, <4>1
        <5>2. r[i - 1] = p[n]
          BY <3>1, <5>1, <4>1
        <5>3. p[n] \in Nat
          BY <1>3, <1>4
        <5> HIDE DEF r, j
        <5> QED  BY <5>1, <5>2, <5>3, <1>4
      <4>2. CASE ~(i - 1 <= n)
        BY <3>1, <4>2
      <4> QED  BY <4>1, <4>2
    <3> HIDE DEF j, r
    <3>4. w[i] = t[j] /\ q[j] = q[j - 1] + t[j]
      BY <3>1, <1>4, <1>5
    <3>5. p[n] \in Nat /\ q[j - 1] \in Nat /\ t[j] \in Nat
      <4>1. j - 1 \in 0..m /\ n \in 0..n
        BY <3>1, <1>3
      <4> QED  BY <4>1, <3>1, <1>4, <1>5
    <3> QED  BY <3>2, <3>3, <3>4, <3>5
  <2> QED  BY <2>1, <2>2
<1>9. r[n + m] = p[n] + q[m]
  <2>1. n \in 0..n /\ m \in 0..m /\ n + m \in 0..n + m /\ (n + m) - n = m
    BY <1>3
  <2>2. p[n] \in Nat /\ q[m] \in Nat
    BY <2>1, <1>4
  <2>3. CASE m = 0
    BY <1>3, <1>4, <2>1, <2>2, <2>3
  <2>4. CASE m # 0
    BY <1>3, <2>1, <2>4
  <2> QED  BY <2>3, <2>4
<1> HIDE DEF r
<1>10. sums_up(r, w)
  BY <1>3, <1>6, <1>7, <1>8 DEF sums_up
<1>11. Total(w, DOMAIN w) = r[n + m]
  BY <1>3, <1>10, SumsAre
<1> QED  BY <1>1, <1>2, <1>9, <1>11 DEF n, m, w

\* The total of nothing.
LEMMA TotalOfNone ==
    ASSUME NEW g, g = [x \in {} |-> g[x]]
    PROVE  Total(g, {}) = 0
<1> DEFINE f == [s \in SUBSET {} |-> 0]
<1>1. IsTotal(f, g, {})
  BY DEF IsTotal
<1>2. IsFiniteSet({}) /\ g \in [{} -> Nat]
  BY FS_EmptySet
<1>3. f[{}] = 0
  OBVIOUS
<1> HIDE DEF f
<1> QED  BY <1>1, <1>2, <1>3, TotalIs

\* FlattenSeq appends one sequence at a time.
LEMMA FlattenSteps ==
    ASSUME NEW X, NEW ss \in Seq(Seq(X)), Len(ss) # 0
    PROVE  \E f : /\ \A i \in 1..Len(ss) : f[i] \in Seq(X)
                  /\ f[1] = ss[1]
                  /\ \A k \in 1..Len(ss) - 1 : f[k + 1] = f[k] \o ss[k + 1]
                  /\ FlattenSeq(ss) = f[Len(ss)]
<1> DEFINE n == Len(ss)
           body(f) == [i \in 1..n |-> IF i = 1 THEN ss[i] ELSE f[i - 1] \o ss[i]]
           flat == CHOOSE f : f = body(f)
<1>1. FlattenSeq(ss) = flat[n]
  BY DEF FlattenSeq
<1>2. flat = body(flat)
  <2>1. \E f : f = body(f)
    BY FlattenExists
  <2> HIDE DEF body
  <2> QED  BY <2>1
<1> HIDE DEF flat
<1>3. n \in Nat /\ n # 0 /\ \A i \in 1..n : ss[i] \in Seq(X)
  OBVIOUS
<1> HIDE DEF n
<1>4. flat[1] = ss[1]
  BY <1>2, <1>3
<1>5. ASSUME NEW k \in 1..n - 1 PROVE flat[k + 1] = flat[k] \o ss[k + 1]
  <2>1. k + 1 \in 1..n /\ k + 1 # 1 /\ (k + 1) - 1 = k
    BY <1>3
  <2>2. flat[k + 1] = flat[(k + 1) - 1] \o ss[k + 1]
    BY <2>1, <1>2
  <2> QED  BY <2>1, <2>2
<1> DEFINE Good == {k \in Nat : k + 1 \in 1..n => flat[k + 1] \in Seq(X)}
<1>6. Good = Nat
  <2>1. 0 \in Good
    <3>1. 0 + 1 = 1 /\ 1 \in 1..n
      BY <1>3
    <3> QED  BY <3>1, <1>3, <1>4
  <2>2. ASSUME NEW k \in Good PROVE k + 1 \in Good
    <3> SUFFICES ASSUME (k + 1) + 1 \in 1..n PROVE flat[(k + 1) + 1] \in Seq(X)
      OBVIOUS
    <3>1. k + 1 \in 1..n /\ k + 1 \in 1..n - 1
      BY <1>3
    <3>2. flat[k + 1] \in Seq(X) /\ ss[(k + 1) + 1] \in Seq(X)
      BY <3>1, <1>3
    <3>3. flat[(k + 1) + 1] = flat[k + 1] \o ss[(k + 1) + 1]
      BY <3>1, <1>5
    <3> QED  BY <3>2, <3>3
  <2>3. Good \subseteq Nat
    OBVIOUS
  <2> HIDE DEF Good
  <2> QED  BY <2>1, <2>2, <2>3, Inductive
<1>7. ASSUME NEW i \in 1..n PROVE flat[i] \in Seq(X)
  <2>1. i - 1 \in Nat /\ (i - 1) + 1 = i
    BY <1>3
  <2>2. i - 1 \in Good
    <3> HIDE DEF Good
    <3> QED  BY <2>1, <1>6
  <2> QED  BY <2>1, <2>2
<1> HIDE DEF Good
<1> QED  BY <1>1, <1>4, <1>5, <1>7 DEF n

\* What the elements of a sequence weigh together.
Weigh(w, l) == Total([i \in DOMAIN l |-> w[l[i]]], DOMAIN l)

\* What each of several sequences weighs.
Weights(w, ss) == [i \in DOMAIN ss |-> Weigh(w, ss[i])]

\* A weight is a natural number.
LEMMA WeighType ==
    ASSUME NEW X, NEW w \in [X -> Nat], NEW l \in Seq(X)
    PROVE  Weigh(w, l) \in Nat
<1> DEFINE g == [i \in DOMAIN l |-> w[l[i]]]
<1>1. DOMAIN l = 1..Len(l) /\ Len(l) \in Nat
  OBVIOUS
<1>2. IsFiniteSet(DOMAIN l)
  BY <1>1, FS_Interval
<1>3. g \in [DOMAIN l -> Nat]
  OBVIOUS
<1> HIDE DEF g
<1> QED  BY <1>2, <1>3, TotalType DEF Weigh, g

\* What no element, or one, weighs.
LEMMA WeighFew ==
    ASSUME NEW X, NEW w \in [X -> Nat]
    PROVE  /\ Weigh(w, << >>) = 0
           /\ \A x \in X : Weigh(w, <<x>>) = w[x]
<1>1. Weigh(w, << >>) = 0
  <2> DEFINE g == [i \in DOMAIN << >> |-> w[<< >>[i]]]
             p == [k \in 0..0 |-> 0]
  <2>1. g \in Seq(Nat) /\ Len(g) = 0 /\ DOMAIN g = DOMAIN << >> /\ DOMAIN << >> = {}
    OBVIOUS
  <2> HIDE DEF g
  <2>2. sums_up(p, g)
    BY <2>1 DEF sums_up
  <2>3. Total(g, DOMAIN g) = 0
    <3>1. p[0] = 0
      OBVIOUS
    <3>2. g \in Seq(Nat) /\ Len(g) = 0
      BY <2>1
    <3> HIDE DEF p
    <3> QED  BY <2>2, <3>1, <3>2, SumsAre
  <2> QED  BY <2>1, <2>3 DEF Weigh, g
<1>2. ASSUME NEW x \in X PROVE Weigh(w, <<x>>) = w[x]
  <2> DEFINE g == [i \in DOMAIN <<x>> |-> w[<<x>>[i]]]
             p == [k \in 0..1 |-> IF k = 0 THEN 0 ELSE w[x]]
  <2>1. g \in Seq(Nat) /\ Len(g) = 1 /\ DOMAIN g = DOMAIN <<x>> /\ g[1] = w[x] /\ w[x] \in Nat
    <3>1. DOMAIN <<x>> = 1..1 /\ <<x>>[1] = x /\ w[x] \in Nat
      OBVIOUS
    <3>2. g = [i \in 1..1 |-> w[x]]
      BY <3>1
    <3>3. [i \in 1..1 |-> w[x]] \in Seq(Nat) /\ Len([i \in 1..1 |-> w[x]]) = 1
      BY <3>1
    <3> QED  BY <3>1, <3>2, <3>3
  <2> HIDE DEF g
  <2>2. sums_up(p, g)
    <3>1. p \in [0..1 -> Nat] /\ p[0] = 0 /\ p[1] = w[x]
      BY <2>1
    <3>2. \A i \in 1..1 : i = 1 /\ i - 1 = 0
      OBVIOUS
    <3> HIDE DEF p
    <3> QED  BY <2>1, <3>1, <3>2 DEF sums_up
  <2>3. Total(g, DOMAIN g) = w[x]
    <3>1. p[1] = w[x]
      BY <2>1
    <3>2. g \in Seq(Nat) /\ Len(g) = 1
      BY <2>1
    <3> HIDE DEF p
    <3> QED  BY <2>2, <3>1, <3>2, SumsAre
  <2> QED  BY <2>1, <2>3 DEF Weigh, g
<1> QED  BY <1>1, <1>2

\* What two sequences in a row are.
LEMMA ConcatIs ==
    ASSUME NEW X, NEW s \in Seq(X), NEW t \in Seq(X)
    PROVE  /\ s \o t \in Seq(X) /\ Len(s \o t) = Len(s) + Len(t)
           /\ DOMAIN (s \o t) = 1..Len(s) + Len(t)
           /\ s \o t = [i \in 1..Len(s) + Len(t) |-> (s \o t)[i]]
           /\ \A i \in 1..Len(s) : (s \o t)[i] = s[i]
           /\ \A i \in 1..Len(t) : (s \o t)[Len(s) + i] = t[i]
<1>1. s \o t \in Seq(X) /\ Len(s \o t) = Len(s) + Len(t)
  OBVIOUS
<1>2. \A r \in Seq(X) : DOMAIN r = 1..Len(r) /\ r = [i \in 1..Len(r) |-> r[i]]
  OBVIOUS
<1>3. DOMAIN (s \o t) = 1..Len(s) + Len(t) /\ s \o t = [i \in 1..Len(s) + Len(t) |-> (s \o t)[i]]
  <2> DEFINE r == s \o t
             k == Len(s) + Len(t)
  <2>1. r \in Seq(X) /\ Len(r) = k
    BY <1>1
  <2> HIDE DEF r, k
  <2>2. DOMAIN r = 1..k /\ r = [i \in 1..k |-> r[i]]
    BY <2>1, <1>2
  <2> QED  BY <2>2 DEF r, k
<1>4. \A i \in 1..Len(s) : (s \o t)[i] = s[i]
  OBVIOUS
<1>5. \A i \in 1..Len(t) : (s \o t)[Len(s) + i] = t[i]
  OBVIOUS
<1> QED  BY <1>1, <1>3, <1>4, <1>5

\* What two sequences in a row weigh.
LEMMA WeighConcat ==
    ASSUME NEW X, NEW w \in [X -> Nat], NEW s \in Seq(X), NEW t \in Seq(X)
    PROVE  Weigh(w, s \o t) = Weigh(w, s) + Weigh(w, t)
<1> DEFINE c(l) == [i \in DOMAIN l |-> w[l[i]]]
<1>1. c(s) \in Seq(Nat) /\ c(t) \in Seq(Nat) /\ DOMAIN c(s) = DOMAIN s /\ DOMAIN c(t) = DOMAIN t
  OBVIOUS
<1>2. c(s \o t) = c(s) \o c(t) /\ DOMAIN (c(s) \o c(t)) = DOMAIN (s \o t)
  <2> DEFINE n == Len(s)
             m == Len(t)
             u == c(s)
             v == c(t)
             st == s \o t
  <2>1. /\ n \in Nat /\ m \in Nat /\ DOMAIN s = 1..n /\ DOMAIN t = 1..m /\ DOMAIN st = 1..n + m
        /\ \A i \in 1..n : st[i] = s[i]
        /\ \A i \in 1..m : st[n + i] = t[i]
    OBVIOUS
  <2>2. /\ \A i \in 1..n : u[i] = w[s[i]]
        /\ \A i \in 1..m : v[i] = w[t[i]]
    BY <2>1
  <2>3. Len(u) = n /\ Len(v) = m /\ u \in Seq(Nat) /\ v \in Seq(Nat)
    <3>1. u \in Seq(Nat) /\ v \in Seq(Nat) /\ DOMAIN u = 1..n /\ DOMAIN v = 1..m
      BY <1>1, <2>1
    <3> HIDE DEF u, v, n, m
    <3>2. Len(u) \in Nat /\ DOMAIN u = 1..Len(u) /\ Len(v) \in Nat /\ DOMAIN v = 1..Len(v)
      BY <3>1
    <3>3. \A x, y \in Nat : 1..x = 1..y => x = y
      OBVIOUS
    <3> QED  BY <3>1, <3>2, <3>3, <2>1
  <2> HIDE DEF u, v, n, m
  <2>4. /\ u \o v = [i \in 1..n + m |-> (u \o v)[i]] /\ DOMAIN (u \o v) = 1..n + m
        /\ \A i \in 1..n : (u \o v)[i] = u[i]
        /\ \A i \in 1..m : (u \o v)[n + i] = v[i]
    <3>1. /\ DOMAIN (u \o v) = 1..Len(u) + Len(v)
          /\ u \o v = [i \in 1..Len(u) + Len(v) |-> (u \o v)[i]]
          /\ \A i \in 1..Len(u) : (u \o v)[i] = u[i]
          /\ \A i \in 1..Len(v) : (u \o v)[Len(u) + i] = v[i]
      <4>1. u \in Seq(Nat) /\ v \in Seq(Nat)
        BY <2>3
      <4> QED  BY <4>1, ConcatIs
    <3>2. Len(u) = n /\ Len(v) = m
      BY <2>3
    <3> QED  BY <3>1, <3>2
  <2>5. ASSUME NEW i \in 1..n + m PROVE w[st[i]] = (u \o v)[i]
    <3>1. CASE i <= n
      <4>1. i \in 1..n
        BY <3>1, <2>1
      <4> HIDE DEF st
      <4> QED  BY <4>1, <2>1, <2>2, <2>4
    <3>2. CASE ~(i <= n)
      <4> DEFINE j == i - n
      <4>1. j \in 1..m /\ i = n + j
        BY <3>2, <2>1
      <4> HIDE DEF st, j
      <4>2. st[i] = t[j] /\ (u \o v)[i] = v[j]
        BY <4>1, <2>1, <2>4
      <4> QED  BY <4>1, <4>2, <2>2
    <3> QED  BY <3>1, <3>2
  <2> HIDE DEF st
  <2>6. c(st) = [i \in 1..n + m |-> w[st[i]]]
    BY <2>1
  <2> HIDE DEF c
  <2>7. c(st) = u \o v
    BY <2>4, <2>5, <2>6
  <2> QED  BY <2>1, <2>4, <2>7 DEF u, v, st
<1>4. Weigh(w, s) = Total(c(s), DOMAIN s) /\ Weigh(w, t) = Total(c(t), DOMAIN t)
      /\ Weigh(w, s \o t) = Total(c(s \o t), DOMAIN (s \o t))
  BY DEF Weigh
<1> HIDE DEF c
<1>5. Total(c(s) \o c(t), DOMAIN (c(s) \o c(t))) = Total(c(s), DOMAIN c(s)) + Total(c(t), DOMAIN c(t))
  BY <1>1, SumsOfConcat
<1> QED  BY <1>1, <1>2, <1>4, <1>5

\* What sequences weigh in a row is what each of them weighs, summed.
LEMMA WeighFlatten ==
    ASSUME NEW X, NEW w \in [X -> Nat], NEW ss \in Seq(Seq(X))
    PROVE  Weigh(w, FlattenSeq(ss)) = Total(Weights(w, ss), DOMAIN ss)
<1> DEFINE g == Weights(w, ss)
           n == Len(ss)
<1>1. g \in Seq(Nat) /\ Len(g) = n /\ DOMAIN g = DOMAIN ss /\ DOMAIN ss = 1..n /\ n \in Nat
  <2>1. ASSUME NEW i \in DOMAIN ss PROVE Weigh(w, ss[i]) \in Nat
    <3>1. ss[i] \in Seq(X)
      OBVIOUS
    <3> QED  BY <3>1, WeighType
  <2>2. DOMAIN ss = 1..n /\ n \in Nat
    OBVIOUS
  <2>3. g \in [1..n -> Nat]
    BY <2>1, <2>2 DEF Weights
  <2> HIDE DEF g, n
  <2> QED  BY <2>2, <2>3
<1>2. CASE n = 0
  <2>1. ss = << >> /\ FlattenSeq(ss) = << >>
    BY <1>2 DEF FlattenSeq
  <2>2. Weigh(w, << >>) = 0
    BY WeighFew
  <2>3. Total(g, DOMAIN g) = 0
    <3> HIDE DEF g, n
    <3> DEFINE p == [k \in 0..0 |-> 0]
    <3>1. sums_up(p, g)
      BY <1>1, <1>2 DEF sums_up
    <3>2. p[0] = 0 /\ Len(g) = 0
      BY <1>1, <1>2
    <3> HIDE DEF p
    <3> QED  BY <3>1, <3>2, <1>1, SumsAre
  <2> QED  BY <1>1, <2>1, <2>2, <2>3
<1>3. CASE n # 0
  <2>1. PICK f : /\ \A i \in 1..n : f[i] \in Seq(X)
                 /\ f[1] = ss[1]
                 /\ \A k \in 1..n - 1 : f[k + 1] = f[k] \o ss[k + 1]
                 /\ FlattenSeq(ss) = f[n]
    BY <1>3, FlattenSteps
  <2> DEFINE p == [k \in 0..n |-> IF k = 0 THEN 0 ELSE Weigh(w, f[k])]
  <2>2. ASSUME NEW k \in 1..n PROVE ss[k] \in Seq(X) /\ g[k] = Weigh(w, ss[k]) /\ Weigh(w, f[k]) \in Nat
    <3>1. ss[k] \in Seq(X) /\ g[k] = Weigh(w, ss[k])
      BY <1>1 DEF Weights
    <3>2. f[k] \in Seq(X)
      BY <2>1
    <3> HIDE DEF g, n
    <3> QED  BY <3>1, <3>2, WeighType
  <2> HIDE DEF g, n
  <2>3. p \in [0..n -> Nat] /\ p[0] = 0 /\ \A k \in 1..n : p[k] = Weigh(w, f[k])
    <3>1. \A k \in 0..n : k = 0 \/ k \in 1..n
      BY <1>1
    <3>2. \A k \in 1..n : k # 0 /\ k \in 0..n
      BY <1>1
    <3>3. 0 \in 0..n
      BY <1>1
    <3>4. \A k \in 0..n : (IF k = 0 THEN 0 ELSE Weigh(w, f[k])) \in Nat
      BY <3>1, <2>2
    <3> QED  BY <3>2, <3>3, <3>4
  <2>4. ASSUME NEW i \in 1..n PROVE p[i] = p[i - 1] + g[i]
    <3>1. CASE i = 1
      <4>1. 1 \in 1..n /\ 1 - 1 = 0 /\ p[1] = Weigh(w, f[1]) /\ g[1] = Weigh(w, ss[1]) /\ f[1] = ss[1]
        BY <2>1, <2>2, <2>3, <3>1
      <4>2. g[1] \in Nat
        BY <4>1, <2>2
      <4> HIDE DEF p
      <4> QED  BY <3>1, <4>1, <4>2, <2>3
    <3>2. CASE i # 1
      <4> DEFINE k == i - 1
      <4>1. k \in 1..n - 1 /\ k \in 1..n /\ i = k + 1
        BY <1>1, <3>2
      <4> HIDE DEF k, p
      <4>2. f[i] = f[k] \o ss[i] /\ f[k] \in Seq(X) /\ ss[i] \in Seq(X)
        BY <4>1, <2>1, <2>2
      <4>3. Weigh(w, f[k] \o ss[i]) = Weigh(w, f[k]) + Weigh(w, ss[i])
        BY <4>2, WeighConcat
      <4>4. p[i] = Weigh(w, f[i]) /\ p[k] = Weigh(w, f[k]) /\ g[i] = Weigh(w, ss[i])
        BY <4>1, <2>2, <2>3
      <4> QED  BY <4>2, <4>3, <4>4 DEF k
    <3> QED  BY <3>1, <3>2
  <2> HIDE DEF p
  <2>5. sums_up(p, g)
    BY <1>1, <2>3, <2>4 DEF sums_up
  <2>6. Total(g, DOMAIN g) = p[n]
    BY <1>1, <2>5, SumsAre
  <2>7. n \in 1..n
    BY <1>1, <1>3
  <2> QED  BY <1>1, <2>1, <2>3, <2>6, <2>7 DEF g
<1> QED  BY <1>2, <1>3

\* A sequence of two.
LEMMA PairAppended ==
    ASSUME NEW X, NEW x \in X, NEW y \in X
    PROVE  <<x>> \o <<y>> = <<x, y>>
<1> DEFINE s == <<x>>
           t == <<y>>
           r == s \o t
<1>1. s \in Seq(X) /\ t \in Seq(X) /\ Len(s) = 1 /\ Len(t) = 1 /\ s[1] = x /\ t[1] = y
  OBVIOUS
<1> HIDE DEF s, t
<1>2. /\ r = [i \in 1..Len(s) + Len(t) |-> r[i]]
      /\ \A i \in 1..Len(s) : r[i] = s[i]
      /\ \A i \in 1..Len(t) : r[Len(s) + i] = t[i]
  <2>1. s \in Seq(X) /\ t \in Seq(X)
    BY <1>1
  <2> QED  BY <2>1, ConcatIs
<1> HIDE DEF r
<1>3. r[1] = x /\ r[1 + 1] = y /\ 1 + 1 = 2
  BY <1>1, <1>2
<1>4. \A i \in 1..2 : r[i] = <<x, y>>[i]
  <2>1. \A i \in 1..2 : i = 1 \/ i = 2
    OBVIOUS
  <2> QED  BY <2>1, <1>3
<1>5. r = [i \in 1..2 |-> r[i]] /\ <<x, y>> = [i \in 1..2 |-> <<x, y>>[i]]
  BY <1>1, <1>2
<1>6. r = <<x, y>>
  BY <1>4, <1>5
<1> QED  BY <1>6 DEF r, s, t

\* The elements of a sequence, and its domain.
LEMMA SequenceTyped ==
    ASSUME NEW X, NEW s \in Seq(X)
    PROVE  Len(s) \in Nat /\ DOMAIN s = 1..Len(s) /\ \A i \in DOMAIN s : s[i] \in X
OBVIOUS

\* What a slice is.
LEMMA SliceIs ==
    ASSUME NEW X, NEW s \in Seq(X), NEW a \in Nat, NEW b \in Nat, a <= b, b <= Len(s)
    PROVE  /\ SubSeq(s, a + 1, b) \in Seq(X) /\ Len(SubSeq(s, a + 1, b)) = b - a
           /\ \A i \in 1..b - a : SubSeq(s, a + 1, b)[i] = s[a + i]
<1>1. Len(s) \in Nat
  OBVIOUS
<1>2. SubSeq(s, a + 1, b) = [i \in 1..(b - (a + 1)) + 1 |-> s[((a + 1) + i) - 1]]
  OBVIOUS
<1>3. (b - (a + 1)) + 1 = b - a /\ \A i \in 1..b - a : ((a + 1) + i) - 1 = a + i /\ a + i \in 1..Len(s)
  BY <1>1
<1>4. SubSeq(s, a + 1, b) = [i \in 1..b - a |-> s[a + i]]
  BY <1>2, <1>3
<1>5. \A i \in 1..b - a : s[a + i] \in X
  BY <1>3
<1>6. b - a \in Nat
  OBVIOUS
<1>7. \A k \in Nat : \A f \in [1..k -> X] : f \in Seq(X) /\ Len(f) = k
  OBVIOUS
<1>8. [i \in 1..b - a |-> s[a + i]] \in [1..b - a -> X]
  BY <1>5
<1> QED  BY <1>4, <1>6, <1>7, <1>8

\* Every slice of a sequence is one of its type.
LEMMA SlicesTyped ==
    ASSUME NEW X, NEW s \in Seq(X), NEW t \in SubSeqs(s)
    PROVE  t \in Seq(X)
<1>1. PICK i \in 0..Len(s), j \in 0..Len(s) : t = SubSeq(s, i + 1, j)
  BY DEF SubSeqs
<1>2. CASE i <= j
  BY <1>1, <1>2, SliceIs
<1>3. CASE ~(i <= j)
  BY <1>1, <1>3
<1> QED  BY <1>2, <1>3

-----------------------------------------------------------------------------
\* Sequences of whatever they hold.

\* A sequence, of whatever it holds.
IsSeq(t) == t \in Seq(ToSet(t))

\* A sequence of members of X.
SeqOver(t, X) == t \in Seq(X)

\* A sequence over a set is one of its own members.
LEMMA SeqOfSet ==
    ASSUME NEW X, NEW t, SeqOver(t, X)
    PROVE  /\ IsSeq(t) /\ ToSet(t) \subseteq X
           /\ Len(t) \in Nat /\ DOMAIN t = 1..Len(t)
<1>1. Len(t) \in Nat /\ DOMAIN t = 1..Len(t) /\ t = [i \in 1..Len(t) |-> t[i]]
      /\ \A i \in 1..Len(t) : t[i] \in X
  BY DEF SeqOver
<1>2. ToSet(t) \subseteq X /\ \A i \in 1..Len(t) : t[i] \in ToSet(t)
  BY <1>1 DEF ToSet
<1>3. t \in Seq(ToSet(t))
  BY <1>1, <1>2
<1> QED  BY <1>1, <1>2, <1>3 DEF IsSeq

\* The places of a sequence, and what is in it.
LEMMA SeqPlaces ==
    ASSUME NEW t, IsSeq(t)
    PROVE  /\ Len(t) \in Nat /\ DOMAIN t = 1..Len(t)
           /\ t = [i \in 1..Len(t) |-> t[i]]
           /\ ToSet(t) = {t[i] : i \in DOMAIN t}
           /\ (t = << >> <=> Len(t) = 0)
<1>1. Len(t) \in Nat /\ DOMAIN t = 1..Len(t) /\ t = [i \in 1..Len(t) |-> t[i]]
      /\ (t = << >> <=> Len(t) = 0)
  BY DEF IsSeq
<1>2. ToSet(t) = {t[i] : i \in DOMAIN t}
  BY <1>1 DEF ToSet
<1> QED  BY <1>1, <1>2

\* Tuples of up to three members are sequences.
LEMMA TupleSeqs ==
    /\ IsSeq(<< >>) /\ ToSet(<< >>) = {}
    /\ \A a : IsSeq(<<a>>) /\ ToSet(<<a>>) = {a}
    /\ \A a, b : IsSeq(<<a, b>>) /\ ToSet(<<a, b>>) = {a, b}
    /\ \A a, b, c : IsSeq(<<a, b, c>>) /\ ToSet(<<a, b, c>>) = {a, b, c}
<1>1. ToSet(<< >>) = {} /\ IsSeq(<< >>)
  BY DEF ToSet, IsSeq
<1>2. ASSUME NEW a PROVE ToSet(<<a>>) = {a} /\ IsSeq(<<a>>)
  <2>1. ToSet(<<a>>) = {a}
    BY DEF ToSet
  <2> QED  BY <2>1 DEF IsSeq
<1>3. ASSUME NEW a, NEW b PROVE ToSet(<<a, b>>) = {a, b} /\ IsSeq(<<a, b>>)
  <2>1. ToSet(<<a, b>>) = {a, b}
    BY DEF ToSet
  <2> QED  BY <2>1 DEF IsSeq
<1>4. ASSUME NEW a, NEW b, NEW c PROVE ToSet(<<a, b, c>>) = {a, b, c} /\ IsSeq(<<a, b, c>>)
  <2>1. ToSet(<<a, b, c>>) = {a, b, c}
    BY DEF ToSet
  <2> QED  BY <2>1 DEF IsSeq
<1> QED  BY <1>1, <1>2, <1>3, <1>4

\* Two sequences in a row.
LEMMA JoinedSeqs ==
    ASSUME NEW s, IsSeq(s), NEW t, IsSeq(t)
    PROVE  /\ IsSeq(s \o t) /\ ToSet(s \o t) = ToSet(s) \cup ToSet(t)
           /\ Len(s \o t) = Len(s) + Len(t)
           /\ \A i \in 1..Len(s) : (s \o t)[i] = s[i]
           /\ \A i \in 1..Len(t) : (s \o t)[Len(s) + i] = t[i]
<1> DEFINE X == ToSet(s) \cup ToSet(t)
<1>1. s \in Seq(X) /\ t \in Seq(X)
  <2>1. /\ Len(s) \in Nat /\ s = [i \in 1..Len(s) |-> s[i]] /\ \A i \in 1..Len(s) : s[i] \in ToSet(s)
    BY DEF IsSeq
  <2>2. /\ Len(t) \in Nat /\ t = [i \in 1..Len(t) |-> t[i]] /\ \A i \in 1..Len(t) : t[i] \in ToSet(t)
    BY DEF IsSeq
  <2>3. s \in Seq(X)
    BY <2>1
  <2> QED  BY <2>2, <2>3
<1> HIDE DEF X
<1>2. s \o t \in Seq(X)
  BY <1>1, ConcatIs
<1>3. IsSeq(s \o t)
  <2>1. SeqOver(s \o t, X)
    BY <1>2 DEF SeqOver
  <2> QED  BY <2>1, SeqOfSet
<1>4. ToSet(s \o t) = ToSet(s) \cup ToSet(t)
  BY <1>1, ConcatHolds
<1>5. /\ Len(s \o t) = Len(s) + Len(t)
      /\ \A i \in 1..Len(s) : (s \o t)[i] = s[i]
      /\ \A i \in 1..Len(t) : (s \o t)[Len(s) + i] = t[i]
  BY <1>1, ConcatIs
<1> QED  BY <1>3, <1>4, <1>5

\* Three sequences in a row.
LEMMA JoinedThree ==
    ASSUME NEW a, IsSeq(a), NEW b, IsSeq(b), NEW c, IsSeq(c)
    PROVE  IsSeq(a \o b \o c) /\ ToSet(a \o b \o c) = ToSet(a) \cup ToSet(b) \cup ToSet(c)
<1>1. IsSeq(a \o b) /\ ToSet(a \o b) = ToSet(a) \cup ToSet(b)
  BY JoinedSeqs
<1> DEFINE ab == a \o b
<1>2. IsSeq(ab) /\ ToSet(ab) = ToSet(a) \cup ToSet(b)
  BY <1>1
<1> HIDE DEF ab
<1>3. IsSeq(ab \o c) /\ ToSet(ab \o c) = ToSet(ab) \cup ToSet(c)
  BY <1>2, JoinedSeqs
<1> QED  BY <1>2, <1>3 DEF ab

\* A function of the numbers up to one is a sequence.
LEMMA NumberedSeq ==
    ASSUME NEW n \in Nat, NEW f, f = [i \in 1..n |-> f[i]]
    PROVE  IsSeq(f) /\ Len(f) = n /\ DOMAIN f = 1..n
<1> DEFINE X == {f[i] : i \in 1..n}
<1>1. \A i \in 1..n : f[i] \in X
  OBVIOUS
<1> HIDE DEF X
<1>2. f \in Seq(X) /\ Len(f) = n /\ DOMAIN f = 1..n
  BY <1>1
<1>3. SeqOver(f, X)
  BY <1>2 DEF SeqOver
<1>4. IsSeq(f)
  BY <1>3, SeqOfSet
<1> QED  BY <1>2, <1>4

\* A sequence of sequences in a row holds what each of them does.
LEMMA FlattenedSeqs ==
    ASSUME NEW ss, IsSeq(ss), \A i \in DOMAIN ss : IsSeq(ss[i])
    PROVE  /\ IsSeq(FlattenSeq(ss))
           /\ ToSet(FlattenSeq(ss)) = UNION {ToSet(ss[i]) : i \in DOMAIN ss}
<1> DEFINE X == UNION {ToSet(ss[i]) : i \in DOMAIN ss}
<1>1. Len(ss) \in Nat /\ DOMAIN ss = 1..Len(ss) /\ ss = [i \in 1..Len(ss) |-> ss[i]]
  BY SeqPlaces
<1>2. ASSUME NEW i \in DOMAIN ss PROVE ss[i] \in Seq(X)
  <2>1. ss[i] \in Seq(ToSet(ss[i]))
    BY <1>2 DEF IsSeq
  <2>2. ToSet(ss[i]) \subseteq X
    BY <1>2
  <2> HIDE DEF X
  <2> DEFINE e == ss[i]
             Y == ToSet(ss[i])
  <2>3. e \in Seq(Y) /\ Y \subseteq X
    BY <2>1, <2>2
  <2> HIDE DEF e, Y
  <2>4. Len(e) \in Nat /\ e = [k \in 1..Len(e) |-> e[k]] /\ \A k \in 1..Len(e) : e[k] \in Y
    BY <2>3
  <2>5. e \in Seq(X)
    BY <2>3, <2>4
  <2> QED  BY <2>5 DEF e
<1> HIDE DEF X
<1>3. ss \in Seq(Seq(X))
  BY <1>1, <1>2
<1>4. FlattenSeq(ss) \in Seq(X) /\ ToSet(FlattenSeq(ss)) = UNION {ToSet(ss[i]) : i \in DOMAIN ss}
  BY <1>3, FlattenSeqHolds
<1>5. SeqOver(FlattenSeq(ss), X)
  BY <1>4 DEF SeqOver
<1>6. IsSeq(FlattenSeq(ss))
  BY <1>5, SeqOfSet
<1> QED  BY <1>4, <1>6 DEF X

\* The sequences of each of several in a row.
LEMMA FlattenedEach ==
    ASSUME NEW s, IsSeq(s), NEW ss, ss = [n \in DOMAIN s |-> ss[n]], \A n \in DOMAIN s : IsSeq(ss[n])
    PROVE  IsSeq(FlattenSeq(ss)) /\ ToSet(FlattenSeq(ss)) = UNION {ToSet(ss[n]) : n \in DOMAIN s}
<1>1. Len(s) \in Nat /\ DOMAIN s = 1..Len(s)
  BY SeqPlaces
<1>2. ss = [n \in 1..Len(s) |-> ss[n]]
  BY <1>1
<1>3. IsSeq(ss) /\ DOMAIN ss = DOMAIN s
  BY <1>1, <1>2, NumberedSeq
<1>4. \A i \in DOMAIN ss : IsSeq(ss[i])
  BY <1>3
<1>5. IsSeq(FlattenSeq(ss)) /\ ToSet(FlattenSeq(ss)) = UNION {ToSet(ss[i]) : i \in DOMAIN ss}
  BY <1>3, <1>4, FlattenedSeqs
<1> QED  BY <1>3, <1>5

\* The first of a sequence at one of some places.
FirstAt(s, S) == IF S = {} THEN << >> ELSE <<s[Min(S)]>>

\* The first is at the least of the places.
LEMMA FirstAtIs ==
    ASSUME NEW s, IsSeq(s), NEW S, S \subseteq DOMAIN s
    PROVE  /\ S = {} => FirstAt(s, S) = << >>
           /\ S # {} => \E n \in S : FirstAt(s, S) = <<s[n]>> /\ \A i \in S : n <= i
<1>1. DOMAIN s \subseteq Nat
  BY SeqPlaces
<1>2. S # {} => Min(S) \in S /\ \A i \in S : Min(S) <= i
  BY <1>1, MinOfSome
<1> QED  BY <1>2 DEF FirstAt
=============================================================================
