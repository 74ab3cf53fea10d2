---------------------------- MODULE TurnChainProofs ----------------------------
(***************************************************************************)
(* Theorems about the lines of a chat, for any number of lines, entries,   *)
(* notices and faults: every line that was typed is in one place or was    *)
(* echoed, it is answered by the session it was typed for, and the lines   *)
(* of a pipe are answered in the order they came.                          *)
(*                                                                         *)
(* The sequences of the model are counted, cut and kept by recursive       *)
(* functions, so the first part says what those do, by induction over the  *)
(* sequence; the invariant and one part for each of its conjuncts follow.  *)
(***************************************************************************)
EXTENDS TurnChain, FiniteSetTheorems, SequenceTheorems, WellFoundedInduction, TLAPS

-----------------------------------------------------------------------------
(* Counting.                                                               *)

Count(s, l) == Cardinality({k \in DOMAIN s : s[k] = l})
CountIn(segs, l) == Count(LinesOf(segs), l)

-----------------------------------------------------------------------------
(* Induction over numbers and over sequences, in sets.                     *)

LEMMA SmallestOf ==
  ASSUME NEW S \in SUBSET Nat, S # {}
  PROVE  \E m \in S : \A x \in S : m <= x
<1> DEFINE R == OpToRel(<, Nat)
<1>1. \A j \in S, i \in S : i < j => <<i, j>> \in R
  BY DEF OpToRel
<1>2. IsWellFoundedOn(R, Nat)
  BY NatLessThanWellFounded
<1> HIDE DEF R
<1>3. PICK m \in S : \A x \in S : ~(<<x, m>> \in R)
  BY <1>2, WFMin
<1>4. ASSUME NEW x \in S PROVE m <= x
  <2>1. ~(x < m)
    BY <1>1, <1>3
  <2> QED
    BY <2>1
<1> QED
  BY <1>4

LEMMA UpTo ==
  ASSUME NEW n \in Nat, NEW G, 0 \in G, \A i \in 0..(n - 1) : i \in G => i + 1 \in G
  PROVE  \A i \in 0..n : i \in G
<1> DEFINE B == {i \in 0..n : i \notin G}
<1> SUFFICES ASSUME B # {} PROVE FALSE
  OBVIOUS
<1>1. B \in SUBSET Nat
  OBVIOUS
<1> HIDE DEF B
<1>2. PICK m \in B : \A x \in B : m <= x
  BY <1>1, SmallestOf
<1>3. m \in 0..n /\ m \notin G /\ m # 0
  BY <1>2 DEF B
<1>4. m - 1 \in 0..(n - 1) /\ (m - 1) + 1 = m /\ m - 1 \in 0..n /\ ~(m <= m - 1)
  BY <1>3
<1>5. m - 1 \in G
  BY <1>2, <1>4 DEF B
<1> QED
  BY <1>3, <1>4, <1>5

LEMMA ByAppend ==
  ASSUME NEW X, NEW G, <<>> \in G,
         \A s \in Seq(X), e \in X : s \in G => Append(s, e) \in G
  PROVE  \A s \in Seq(X) : s \in G
<1> SUFFICES ASSUME NEW s \in Seq(X) PROVE s \in G
  OBVIOUS
<1> DEFINE H == {n \in 0..Len(s) : SubSeq(s, 1, n) \in G}
<1>1. Len(s) \in Nat /\ \A i \in 1..Len(s) : s[i] \in X
  BY LenProperties, ElementOfSeq
<1>2. 0 \in H
  <2>1. SubSeq(s, 1, 0) = <<>>
    BY SubSeqEmpty
  <2>2. 0 \in 0..Len(s)
    BY <1>1
  <2>3. SubSeq(s, 1, 0) \in G
    BY <2>1, Zenon
  <2> QED
    BY <2>2, <2>3
<1>3. ASSUME NEW i \in 0..(Len(s) - 1), i \in H PROVE i + 1 \in H
  <2>1. i + 1 \in 1..Len(s) /\ (i + 1) - 1 = i /\ 1 \in 1..Len(s) /\ i + 1 \in 0..Len(s)
    BY <1>1
  <2>2. SubSeq(s, 1, i + 1) = SubSeq(s, 1, i) \o <<s[i + 1]>>
    BY <2>1, SubSeqRecursiveSecond
  <2>3. SubSeq(s, 1, i) \in Seq(X)
    BY <1>1, SubSeqProperties
  <2>4. SubSeq(s, 1, i) \o <<s[i + 1]>> = Append(SubSeq(s, 1, i), s[i + 1])
    BY <1>1, <2>1, <2>3, AppendIsConcat
  <2> QED
    BY <1>1, <1>3, <2>1, <2>2, <2>3, <2>4
<1> HIDE DEF H
<1>4. Len(s) \in H
  BY <1>1, <1>2, <1>3, UpTo
<1> QED
  BY <1>4, SubSeqFull DEF H

-----------------------------------------------------------------------------
(* How often an element is in a sequence.                                  *)

LEMMA CountIs ==
  ASSUME NEW X, NEW s \in Seq(X), NEW l
  PROVE  /\ IsFiniteSet({k \in DOMAIN s : s[k] = l})
         /\ Count(s, l) \in Nat
         /\ Count(s, l) > 0 <=> l \in ToSet(s)
<1> DEFINE K == {k \in DOMAIN s : s[k] = l}
<1>1. Len(s) \in Nat /\ DOMAIN s = 1..Len(s)
  BY LenProperties
<1>2. IsFiniteSet(1..Len(s)) /\ K \in SUBSET (1..Len(s))
  BY <1>1, FS_Interval
<1>3. IsFiniteSet(K)
  BY <1>2, FS_Subset
<1>4. Cardinality(K) \in Nat /\ (Cardinality(K) = 0 <=> K = {})
  BY <1>3, FS_CardinalityType, FS_EmptySet
<1>5. K # {} <=> l \in ToSet(s)
  BY DEF ToSet
<1> QED
  BY <1>3, <1>4, <1>5 DEF Count

LEMMA CountEmpty ==
  ASSUME NEW l
  PROVE  Count(<<>>, l) = 0 /\ ToSet(<<>>) = {}
<1>1. {k \in DOMAIN <<>> : <<>>[k] = l} = {} /\ ToSet(<<>>) = {}
  BY DEF ToSet
<1> QED
  BY <1>1, FS_EmptySet DEF Count

LEMMA CountCat ==
  ASSUME NEW X, NEW s \in Seq(X), NEW t \in Seq(X), NEW l
  PROVE  /\ Count(s \o t, l) = Count(s, l) + Count(t, l)
         /\ ToSet(s \o t) = ToSet(s) \cup ToSet(t)
<1> DEFINE A == {k \in DOMAIN s : s[k] = l}
           B == {k \in DOMAIN t : t[k] = l}
           C == {k \in DOMAIN (s \o t) : (s \o t)[k] = l}
           D == C \ A
           f == [k \in B |-> k + Len(s)]
<1>1. /\ Len(s) \in Nat /\ DOMAIN s = 1..Len(s)
      /\ Len(t) \in Nat /\ DOMAIN t = 1..Len(t)
  BY LenProperties
<1>2. /\ s \o t \in Seq(X) /\ DOMAIN (s \o t) = 1..(Len(s) + Len(t))
      /\ \A k \in 1..(Len(s) + Len(t)) :
           (s \o t)[k] = IF k <= Len(s) THEN s[k] ELSE t[k - Len(s)]
  BY ConcatProperties, LenProperties
<1>3. IsFiniteSet(A) /\ IsFiniteSet(B) /\ IsFiniteSet(C)
  BY <1>2, CountIs
<1>4. A \subseteq C
  BY <1>1, <1>2
<1>5. D = {k \in (Len(s) + 1)..(Len(s) + Len(t)) : t[k - Len(s)] = l}
  <2>1. \A k \in 1..(Len(s) + Len(t)) : k \notin 1..Len(s)
            <=> k \in (Len(s) + 1)..(Len(s) + Len(t))
    BY <1>1
  <2>2. \A k \in (Len(s) + 1)..(Len(s) + Len(t)) : k \in 1..(Len(s) + Len(t)) /\ ~(k <= Len(s))
    BY <1>1
  <2>3. \A k \in 1..Len(s) : k \in 1..(Len(s) + Len(t)) /\ k <= Len(s)
    BY <1>1
  <2> QED
    BY <1>1, <1>2, <2>1, <2>2, <2>3
<1>6. f \in Bijection(B, D)
  <2>1. \A k \in B : f[k] \in D
    <3>1. ASSUME NEW k \in B PROVE f[k] \in D
      <4>1. k \in 1..Len(t) /\ t[k] = l
        BY <1>1
      <4>2. k + Len(s) \in (Len(s) + 1)..(Len(s) + Len(t)) /\ (k + Len(s)) - Len(s) = k
        BY <1>1, <4>1
      <4> QED
        BY <1>5, <4>1, <4>2
    <3> QED
      BY <3>1
  <2>2. \A j, k \in B : f[j] = f[k] => j = k
    BY <1>1
  <2>3. \A d \in D : \E k \in B : f[k] = d
    <3>1. ASSUME NEW d \in D PROVE d - Len(s) \in B /\ f[d - Len(s)] = d
      <4>1. d \in (Len(s) + 1)..(Len(s) + Len(t)) /\ t[d - Len(s)] = l
        BY <1>5
      <4>2. d - Len(s) \in 1..Len(t) /\ (d - Len(s)) + Len(s) = d
        BY <1>1, <4>1
      <4> QED
        BY <1>1, <4>1, <4>2
    <3> QED
      BY <3>1
  <2> HIDE DEF B, D
  <2>4. f \in [B -> D]
    BY <2>1
  <2> HIDE DEF f
  <2> QED
    <3>1. f \in Injection(B, D)
      BY <2>2, <2>4 DEF Injection, IsInjective
    <3>2. f \in Surjection(B, D)
      BY <2>3, <2>4 DEF Surjection
    <3> QED
      BY <3>1, <3>2 DEF Bijection
<1>7. IsFiniteSet(D) /\ Cardinality(D) = Cardinality(B)
  <2> HIDE DEF B, D, f
  <2>1. ExistsBijection(B, D)
    BY <1>6 DEF ExistsBijection
  <2> QED
    BY <1>3, <2>1, FS_Bijection
<1>8. Cardinality(C) = Cardinality(A) + Cardinality(B)
  <2>1. C = A \cup D /\ A \cap D = {}
    BY <1>4
  <2> HIDE DEF A, B, C, D
  <2>2. /\ Cardinality(A) \in Nat /\ Cardinality(D) \in Nat
        /\ Cardinality(A \cup D) = Cardinality(A) + Cardinality(D) - Cardinality(A \cap D)
    BY <1>3, <1>7, FS_Union, FS_CardinalityType
  <2>3. Cardinality(A \cap D) = 0
    BY <2>1, FS_EmptySet
  <2> QED
    BY <1>7, <2>1, <2>2, <2>3
<1>9. ToSet(s \o t) = ToSet(s) \cup ToSet(t)
  <2>1. ASSUME NEW x \in ToSet(s \o t) PROVE x \in ToSet(s) \cup ToSet(t)
    <3>1. PICK k \in 1..(Len(s) + Len(t)) : (s \o t)[k] = x
      BY <1>2 DEF ToSet
    <3>2. k \in 1..Len(s) \/ (~(k <= Len(s)) /\ k - Len(s) \in 1..Len(t))
      BY <1>1
    <3> QED
      BY <1>1, <1>2, <3>1, <3>2 DEF ToSet
  <2>2. ASSUME NEW x \in ToSet(s) PROVE x \in ToSet(s \o t)
    BY <1>1, <1>2 DEF ToSet
  <2>3. ASSUME NEW x \in ToSet(t) PROVE x \in ToSet(s \o t)
    <3>1. PICK k \in 1..Len(t) : t[k] = x
      BY <1>1 DEF ToSet
    <3>2. k + Len(s) \in 1..(Len(s) + Len(t)) /\ ~(k + Len(s) <= Len(s)) /\ (k + Len(s)) - Len(s) = k
      BY <1>1
    <3>3. (s \o t)[k + Len(s)] = x
      BY <1>2, <3>1, <3>2
    <3> QED
      BY <1>2, <3>2, <3>3 DEF ToSet
  <2> QED
    BY <2>1, <2>2, <2>3
<1> QED
  BY <1>8, <1>9 DEF Count

LEMMA CountOne ==
  ASSUME NEW x, NEW l
  PROVE  Count(<<x>>, l) = (IF x = l THEN 1 ELSE 0) /\ ToSet(<<x>>) = {x}
<1>1. DOMAIN <<x>> = {1} /\ <<x>>[1] = x
  OBVIOUS
<1>2. {k \in DOMAIN <<x>> : <<x>>[k] = l} = IF x = l THEN {1} ELSE {}
  BY <1>1
<1>3. Cardinality({1}) = 1 /\ Cardinality({}) = 0
  BY FS_Singleton, FS_EmptySet
<1>4. Count(<<x>>, l) = IF x = l THEN 1 ELSE 0
  BY <1>2, <1>3 DEF Count
<1>5. ToSet(<<x>>) = {x}
  BY <1>1 DEF ToSet
<1> QED
  BY <1>4, <1>5

LEMMA CountAppend ==
  ASSUME NEW X, NEW s \in Seq(X), NEW x \in X, NEW l
  PROVE  /\ Count(Append(s, x), l) = Count(s, l) + (IF x = l THEN 1 ELSE 0)
         /\ ToSet(Append(s, x)) = ToSet(s) \cup {x}
<1>1. Append(s, x) = s \o <<x>> /\ <<x>> \in Seq(X)
  BY AppendIsConcat
<1>2. /\ Count(s \o <<x>>, l) = Count(s, l) + Count(<<x>>, l)
      /\ ToSet(s \o <<x>>) = ToSet(s) \cup ToSet(<<x>>)
  BY <1>1, CountCat
<1> QED
  BY <1>1, <1>2, CountOne

-----------------------------------------------------------------------------
(* The recursive operators, by their last element.                         *)

KeepStep(f, s, S) ==
  [n \in 0..Len(s) |->
     IF n = 0 THEN <<>>
     ELSE IF s[n] \in S THEN Append(f[n - 1], s[n]) ELSE f[n - 1]]
KeepFn(s, S) == CHOOSE f : f = KeepStep(f, s, S)

LEMMA KeepFnExists ==
  ASSUME NEW X, NEW S
  PROVE  \A s \in Seq(X) : \E f : f = KeepStep(f, s, S)
<1> DEFINE G == {s \in Seq(X) : \E f : f = KeepStep(f, s, S)}
<1>1. <<>> \in G
  <2> DEFINE f == [n \in 0..Len(<<>>) |-> <<>>]
  <2>1. \A n \in 0..Len(<<>>) : n = 0
    OBVIOUS
  <2>2. f = KeepStep(f, <<>>, S)
    BY <2>1 DEF KeepStep
  <2> QED
    BY <2>2
<1>2. ASSUME NEW s \in Seq(X), NEW e \in X, s \in G PROVE Append(s, e) \in G
  <2>1. PICK f : f = KeepStep(f, s, S)
    BY <1>2
  <2>2. /\ Len(s) \in Nat /\ Append(s, e) \in Seq(X) /\ Len(Append(s, e)) = Len(s) + 1
        /\ \A i \in 1..Len(s) : Append(s, e)[i] = s[i]
        /\ Append(s, e)[Len(s) + 1] = e
    BY LenProperties, AppendProperties
  <2> DEFINE t == Append(s, e)
             g == [n \in 0..Len(t) |->
                     IF n <= Len(s) THEN f[n]
                     ELSE IF e \in S THEN Append(f[Len(s)], e) ELSE f[Len(s)]]
  <2>3. ASSUME NEW n \in 0..Len(t)
        PROVE  g[n] = IF n = 0 THEN <<>>
                      ELSE IF t[n] \in S THEN Append(g[n - 1], t[n]) ELSE g[n - 1]
    <3>1. CASE n = 0
      <4>1. 0 \in 0..Len(s) /\ 0 <= Len(s)
        BY <2>2
      <4>2. f[0] = <<>>
        BY <2>1, <4>1 DEF KeepStep
      <4> QED
        BY <3>1, <4>1, <4>2
    <3>2. CASE n # 0 /\ n <= Len(s)
      <4>1. n \in 0..Len(s) /\ n \in 1..Len(s) /\ n - 1 \in 0..Len(t) /\ n - 1 <= Len(s)
        BY <2>2, <3>2
      <4>2. f[n] = IF s[n] \in S THEN Append(f[n - 1], s[n]) ELSE f[n - 1]
        BY <2>1, <3>2, <4>1 DEF KeepStep
      <4>3. g[n] = f[n] /\ g[n - 1] = f[n - 1] /\ t[n] = s[n]
        BY <2>2, <3>2, <4>1
      <4> HIDE DEF g, t
      <4> QED
        BY <3>2, <4>2, <4>3
    <3>3. CASE ~(n <= Len(s))
      <4>1. n = Len(s) + 1 /\ n - 1 = Len(s) /\ Len(s) \in 0..Len(t) /\ n # 0 /\ Len(s) <= Len(s)
        BY <2>2, <3>3
      <4>2. g[Len(s)] = f[Len(s)] /\ t[n] = e
        BY <2>2, <4>1
      <4>3. g[n] = IF e \in S THEN Append(f[Len(s)], e) ELSE f[Len(s)]
        BY <3>3
      <4> HIDE DEF g, t
      <4> QED
        BY <4>1, <4>2, <4>3
    <3> QED
      BY <3>1, <3>2, <3>3
  <2>4. g = KeepStep(g, t, S)
    BY <2>3 DEF KeepStep
  <2> QED
    BY <2>2, <2>4
<1> HIDE DEF G
<1>3. \A s \in Seq(X) : s \in G
  BY <1>1, <1>2, ByAppend
<1> QED
  BY <1>3 DEF G

LEMMA KeepFnIs ==
  ASSUME NEW X, NEW S, NEW s \in Seq(X)
  PROVE  /\ Keep(s, S) = KeepFn(s, S)[Len(s)]
         /\ KeepFn(s, S)[0] = <<>>
         /\ \A n \in 1..Len(s) : KeepFn(s, S)[n] =
              IF s[n] \in S THEN Append(KeepFn(s, S)[n - 1], s[n]) ELSE KeepFn(s, S)[n - 1]
<1>1. Keep(s, S) = KeepFn(s, S)[Len(s)]
  BY DEF Keep, KeepFn, KeepStep
<1>2. KeepFn(s, S) = KeepStep(KeepFn(s, S), s, S)
  BY KeepFnExists DEF KeepFn
<1>3. Len(s) \in Nat
  BY LenProperties
<1> DEFINE f == KeepFn(s, S)
<1>4. ASSUME NEW n \in 0..Len(s)
      PROVE  f[n] = IF n = 0 THEN <<>>
                    ELSE IF s[n] \in S THEN Append(f[n - 1], s[n]) ELSE f[n - 1]
  <2> HIDE DEF f
  <2>1. f = KeepStep(f, s, S)
    BY <1>2 DEF f
  <2> QED
    BY <2>1 DEF KeepStep
<1> HIDE DEF f
<1>5. 0 \in 0..Len(s) /\ \A n \in 1..Len(s) : n \in 0..Len(s) /\ n # 0
  BY <1>3
<1>6. f[0] = <<>> /\ \A n \in 1..Len(s) : f[n] = IF s[n] \in S THEN Append(f[n - 1], s[n]) ELSE f[n - 1]
  BY <1>4, <1>5
<1> QED
  BY <1>1, <1>6 DEF f

LEMMA KeepIs ==
  ASSUME NEW X, NEW S, NEW s \in Seq(X), NEW e \in X
  PROVE  /\ Keep(<<>>, S) = <<>>
         /\ Keep(Append(s, e), S) = IF e \in S THEN Append(Keep(s, S), e) ELSE Keep(s, S)
<1> DEFINE t == Append(s, e)
           f == KeepFn(s, S)
           g == KeepFn(t, S)
           G == {n \in 0..Len(s) : g[n] = f[n]}
<1>1. /\ Len(s) \in Nat /\ t \in Seq(X) /\ Len(t) = Len(s) + 1
      /\ \A i \in 1..Len(s) : t[i] = s[i]
      /\ t[Len(s) + 1] = e
  BY LenProperties, AppendProperties
<1> HIDE DEF t
<1>2. /\ Keep(s, S) = f[Len(s)] /\ f[0] = <<>>
      /\ \A n \in 1..Len(s) : f[n] = IF s[n] \in S THEN Append(f[n - 1], s[n]) ELSE f[n - 1]
  BY KeepFnIs
<1>3. /\ Keep(t, S) = g[Len(t)] /\ g[0] = <<>>
      /\ \A n \in 1..Len(t) : g[n] = IF t[n] \in S THEN Append(g[n - 1], t[n]) ELSE g[n - 1]
  BY <1>1, KeepFnIs
<1> HIDE DEF f, g
<1>4. 0 \in G
  BY <1>1, <1>2, <1>3
<1>5. ASSUME NEW i \in 0..(Len(s) - 1), i \in G PROVE i + 1 \in G
  <2>1. /\ i + 1 \in 1..Len(s) /\ i + 1 \in 1..Len(t) /\ (i + 1) - 1 = i /\ i + 1 \in 0..Len(s)
    BY <1>1
  <2>2. g[i] = f[i] /\ t[i + 1] = s[i + 1]
    BY <1>1, <1>5, <2>1
  <2>3. g[i + 1] = f[i + 1]
    BY <1>2, <1>3, <2>1, <2>2
  <2> QED
    BY <2>1, <2>3
<1>6. g[Len(s)] = f[Len(s)]
  <2> HIDE DEF G
  <2>1. \A i \in 0..Len(s) : i \in G
    BY <1>1, <1>4, <1>5, UpTo
  <2>2. Len(s) \in 0..Len(s)
    BY <1>1
  <2>3. Len(s) \in G
    BY <2>1, <2>2
  <2> QED
    BY <2>3 DEF G
<1>7. Len(t) \in 1..Len(t) /\ Len(t) - 1 = Len(s)
  BY <1>1
<1>8. g[Len(t)] = IF e \in S THEN Append(g[Len(s)], e) ELSE g[Len(s)]
  BY <1>1, <1>3, <1>7
<1>9. Keep(<<>>, S) = <<>>
  <2>1. <<>> \in Seq(X) /\ Len(<<>>) = 0
    BY EmptySeq
  <2>2. \A z \in Seq(X) : Keep(z, S) = KeepFn(z, S)[Len(z)] /\ KeepFn(z, S)[0] = <<>>
    BY KeepFnIs
  <2> QED
    BY <2>1, <2>2
<1> QED
  BY <1>2, <1>3, <1>6, <1>8, <1>9 DEF t

LEMMA KeepEmpty ==
  ASSUME NEW S
  PROVE  Keep(<<>>, S) = <<>>
<1>1. <<>> \in Seq({1})
  BY EmptySeq
<1>2. 1 \in {1}
  OBVIOUS
<1> QED
  BY <1>1, <1>2, KeepIs

\* What is kept of a sequence.
LEMMA KeepSeq ==
  ASSUME NEW X, NEW S
  PROVE  \A s \in Seq(X) :
           /\ Keep(s, S) \in Seq(X \cap S)
           /\ s \in Seq(S) => Keep(s, S) = s
           /\ s \in Seq(X \ S) => Keep(s, S) = <<>>
           /\ \A l : Count(Keep(s, S), l) = IF l \in S THEN Count(s, l) ELSE 0
<1> DEFINE P(s) == /\ Keep(s, S) \in Seq(X \cap S)
                   /\ s \in Seq(S) => Keep(s, S) = s
                   /\ s \in Seq(X \ S) => Keep(s, S) = <<>>
                   /\ \A l : Count(Keep(s, S), l) = IF l \in S THEN Count(s, l) ELSE 0
           G == {s \in Seq(X) : P(s)}
<1>1. <<>> \in G
  <2>1. Keep(<<>>, S) = <<>>
    BY KeepEmpty
  <2>2. <<>> \in Seq(X) /\ <<>> \in Seq(X \cap S)
    OBVIOUS
  <2>3. \A l : Count(<<>>, l) = 0
    BY CountEmpty
  <2> QED
    BY <2>1, <2>2, <2>3
<1>2. ASSUME NEW s \in Seq(X), NEW e \in X, s \in G PROVE Append(s, e) \in G
  <2>1. Keep(Append(s, e), S) = IF e \in S THEN Append(Keep(s, S), e) ELSE Keep(s, S)
    BY KeepIs
  <2>2. P(s)
    BY <1>2
  <2>3. Append(s, e) \in Seq(X) /\ Len(s) \in Nat
    BY AppendProperties, LenProperties
  <2>4. Keep(Append(s, e), S) \in Seq(X \cap S)
    <3>1. CASE e \in S
      <4>1. Append(Keep(s, S), e) \in Seq(X \cap S)
        BY <2>2, <3>1, AppendProperties
      <4> QED
        BY <2>1, <3>1, <4>1
    <3>2. CASE e \notin S
      BY <2>1, <2>2, <3>2
    <3> QED
      BY <3>1, <3>2
  <2>5. ASSUME NEW T, Append(s, e) \in Seq(T) PROVE s \in Seq(T) /\ e \in T
    <3>1. /\ Len(Append(s, e)) = Len(s) + 1
          /\ \A i \in 1..Len(s) : Append(s, e)[i] = s[i]
          /\ Append(s, e)[Len(s) + 1] = e
      BY AppendProperties
    <3>2. \A i \in 1..(Len(s) + 1) : Append(s, e)[i] \in T
      BY <2>5, <3>1, ElementOfSeq
    <3>3. Len(s) + 1 \in 1..(Len(s) + 1) /\ \A i \in 1..Len(s) : i \in 1..(Len(s) + 1)
      BY <2>3
    <3>4. e \in T /\ \A i \in 1..Len(s) : s[i] \in T
      BY <3>1, <3>2, <3>3
    <3>5. SubSeq(s, 1, Len(s)) \in Seq(T)
      BY <2>3, <3>4, SubSeqProperties
    <3> QED
      BY <3>4, <3>5, SubSeqFull
  <2>6. Append(s, e) \in Seq(S) => Keep(Append(s, e), S) = Append(s, e)
    BY <2>1, <2>2, <2>5
  <2>7. Append(s, e) \in Seq(X \ S) => Keep(Append(s, e), S) = <<>>
    <3>1. Append(s, e) \in Seq(X \ S) => s \in Seq(X \ S) /\ e \in X \ S
      BY <2>5
    <3> QED
      BY <2>1, <2>2, <3>1
  <2>8. ASSUME NEW l
        PROVE  Count(Keep(Append(s, e), S), l) = IF l \in S THEN Count(Append(s, e), l) ELSE 0
    <3>1. Count(Append(s, e), l) = Count(s, l) + (IF e = l THEN 1 ELSE 0)
      BY CountAppend
    <3>2. Count(Keep(s, S), l) = IF l \in S THEN Count(s, l) ELSE 0
      BY <2>2
    <3>3. CASE e \in S
      <4>1. Keep(s, S) \in Seq(X \cap S) /\ e \in X \cap S
        BY <2>2, <3>3
      <4>2. Count(Append(Keep(s, S), e), l) = Count(Keep(s, S), l) + (IF e = l THEN 1 ELSE 0)
        BY <4>1, CountAppend
      <4> QED
        BY <2>1, <3>1, <3>2, <3>3, <4>2
    <3>4. CASE e \notin S
      <4>1. Count(s, l) \in Nat
        BY CountIs
      <4> QED
        BY <2>1, <3>1, <3>2, <3>4, <4>1
    <3> QED
      BY <3>3, <3>4
  <2> HIDE DEF P
  <2>9. P(Append(s, e))
    BY <2>4, <2>6, <2>7, <2>8 DEF P
  <2> QED
    BY <2>3, <2>9
<1> HIDE DEF G
<1>3. \A s \in Seq(X) : s \in G
  BY <1>1, <1>2, ByAppend
<1> QED
  BY <1>3 DEF G

FlatStep(f, s) ==
  [i \in 1..Len(s) |-> IF i = 1 THEN s[i] ELSE f[i - 1] \o s[i]]
FlatFn(s) == CHOOSE f : f = FlatStep(f, s)

LEMMA FlatFnExists ==
  ASSUME NEW Y
  PROVE  \A s \in Seq(Y) : \E f : f = FlatStep(f, s)
<1> DEFINE G == {s \in Seq(Y) : \E f : f = FlatStep(f, s)}
<1>1. <<>> \in G
  <2> DEFINE f == [n \in 1..Len(<<>>) |-> <<>>]
  <2>1. 1..Len(<<>>) = {}
    OBVIOUS
  <2>2. f = FlatStep(f, <<>>)
    BY <2>1 DEF FlatStep
  <2> QED
    BY <2>2
<1>2. ASSUME NEW s \in Seq(Y), NEW e \in Y, s \in G PROVE Append(s, e) \in G
  <2>1. PICK f : f = FlatStep(f, s)
    BY <1>2
  <2>2. /\ Len(s) \in Nat /\ Append(s, e) \in Seq(Y) /\ Len(Append(s, e)) = Len(s) + 1
        /\ \A i \in 1..Len(s) : Append(s, e)[i] = s[i]
        /\ Append(s, e)[Len(s) + 1] = e
    BY LenProperties, AppendProperties
  <2> DEFINE t == Append(s, e)
             g == [n \in 1..Len(t) |->
                     IF n <= Len(s) THEN f[n] ELSE IF n = 1 THEN e ELSE f[Len(s)] \o e]
  <2>3. ASSUME NEW n \in 1..Len(t)
        PROVE  g[n] = IF n = 1 THEN t[n] ELSE g[n - 1] \o t[n]
    <3>1. CASE n = 1 /\ n <= Len(s)
      <4>1. 1 \in 1..Len(s)
        BY <2>2, <3>1
      <4>2. f[1] = s[1]
        BY <2>1, <4>1 DEF FlatStep
      <4> QED
        BY <2>2, <3>1, <4>1, <4>2
    <3>2. CASE n # 1 /\ n <= Len(s)
      <4>1. n \in 1..Len(s) /\ n - 1 \in 1..Len(t) /\ n - 1 <= Len(s)
        BY <2>2, <3>2
      <4>2. f[n] = f[n - 1] \o s[n]
        BY <2>1, <3>2, <4>1 DEF FlatStep
      <4>3. g[n] = f[n] /\ g[n - 1] = f[n - 1] /\ t[n] = s[n]
        BY <2>2, <3>2, <4>1
      <4> HIDE DEF g, t
      <4> QED
        BY <3>2, <4>2, <4>3
    <3>3. CASE ~(n <= Len(s))
      <4>1. n = Len(s) + 1 /\ n - 1 = Len(s) /\ (n # 1
                => Len(s) \in 1..Len(t)) /\ Len(s) <= Len(s)
        BY <2>2, <3>3
      <4>2. (n # 1 => g[Len(s)] = f[Len(s)]) /\ t[n] = e
        BY <2>2, <4>1
      <4>3. g[n] = IF n = 1 THEN e ELSE f[Len(s)] \o e
        BY <3>3
      <4> HIDE DEF g, t
      <4> QED
        BY <4>1, <4>2, <4>3
    <3> QED
      BY <3>1, <3>2, <3>3
  <2>4. g = FlatStep(g, t)
    BY <2>3 DEF FlatStep
  <2> QED
    BY <2>2, <2>4
<1> HIDE DEF G
<1>3. \A s \in Seq(Y) : s \in G
  BY <1>1, <1>2, ByAppend
<1> QED
  BY <1>3 DEF G

LEMMA FlatFnIs ==
  ASSUME NEW Y, NEW s \in Seq(Y), s # <<>>
  PROVE  /\ FlattenSeq(s) = FlatFn(s)[Len(s)]
         /\ \A n \in 1..Len(s) :
              FlatFn(s)[n] = IF n = 1 THEN s[n] ELSE FlatFn(s)[n - 1] \o s[n]
<1>1. Len(s) # 0
  BY EmptySeq
<1>2. FlattenSeq(s) = FlatFn(s)[Len(s)]
  BY <1>1 DEF FlattenSeq, FlatFn, FlatStep
<1>3. FlatFn(s) = FlatStep(FlatFn(s), s)
  BY FlatFnExists DEF FlatFn
<1> DEFINE f == FlatFn(s)
<1>4. ASSUME NEW n \in 1..Len(s)
      PROVE  f[n] = IF n = 1 THEN s[n] ELSE f[n - 1] \o s[n]
  <2> HIDE DEF f
  <2>1. f = FlatStep(f, s)
    BY <1>3 DEF f
  <2> QED
    BY <2>1 DEF FlatStep
<1> QED
  BY <1>2, <1>4

LEMMA FlattenEmpty == FlattenSeq(<<>>) = <<>>
<1>1. Len(<<>>) = 0
  OBVIOUS
<1> QED
  BY <1>1 DEF FlattenSeq

LEMMA FlattenAppend ==
  ASSUME NEW X, NEW s \in Seq(Seq(X)), NEW e \in Seq(X)
  PROVE  FlattenSeq(Append(s, e)) = FlattenSeq(s) \o e
<1> DEFINE t == Append(s, e)
           f == FlatFn(s)
           g == FlatFn(t)
<1>1. /\ Len(s) \in Nat /\ t \in Seq(Seq(X)) /\ Len(t) = Len(s) + 1 /\ t # <<>>
      /\ \A i \in 1..Len(s) : t[i] = s[i]
      /\ t[Len(s) + 1] = e
  BY LenProperties, AppendProperties
<1> HIDE DEF t
<1>2. /\ FlattenSeq(t) = g[Len(t)]
      /\ \A n \in 1..Len(t) : g[n] = IF n = 1 THEN t[n] ELSE g[n - 1] \o t[n]
  BY <1>1, FlatFnIs
<1>3. CASE s = <<>>
  <2>1. Len(s) = 0 /\ Len(t) = 1 /\ 1 \in 1..Len(t) /\ t[1] = e
    BY <1>1, <1>3
  <2>2. FlattenSeq(t) = e
    BY <1>2, <2>1
  <2> QED
    BY <1>3, <2>2, FlattenEmpty, ConcatEmptySeq DEF t
<1>4. CASE s # <<>>
  <2>1. Len(s) \in Nat \ {0}
    BY <1>4, EmptySeq
  <2>2. /\ FlattenSeq(s) = f[Len(s)]
        /\ \A n \in 1..Len(s) : f[n] = IF n = 1 THEN s[n] ELSE f[n - 1] \o s[n]
    BY <1>4, FlatFnIs
  <2> HIDE DEF f, g
  <2> DEFINE G == {n \in 0..Len(s) : n = 0 \/ g[n] = f[n]}
  <2>3. 0 \in G
    BY <2>1
  <2>4. ASSUME NEW i \in 0..(Len(s) - 1), i \in G PROVE i + 1 \in G
    <3>1. /\ i + 1 \in 1..Len(s) /\ i + 1 \in 1..Len(t) /\ (i + 1) - 1 = i /\ i + 1 \in 0..Len(s)
      BY <1>1
    <3>2. (i + 1 = 1) <=> (i = 0)
      OBVIOUS
    <3>3. t[i + 1] = s[i + 1] /\ (i # 0 => g[i] = f[i])
      BY <1>1, <2>4, <3>1
    <3>4. g[i + 1] = f[i + 1]
      BY <1>2, <2>2, <3>1, <3>2, <3>3
    <3> QED
      BY <3>1, <3>4
  <2> HIDE DEF G
  <2>5. \A i \in 0..Len(s) : i \in G
    BY <1>1, <2>3, <2>4, UpTo
  <2>6. Len(s) \in 0..Len(s) /\ Len(s) # 0 /\ Len(t) \in 1..Len(t) /\ Len(t) # 1 /\ Len(t) - 1 = Len(s)
    BY <1>1, <2>1
  <2>7. g[Len(s)] = f[Len(s)]
    BY <2>5, <2>6 DEF G
  <2>8. g[Len(t)] = g[Len(s)] \o e
    BY <1>1, <1>2, <2>6
  <2> QED
    BY <1>2, <2>2, <2>7, <2>8 DEF t
<1> QED
  BY <1>3, <1>4

\* R is a set of segments, or of the inputs of a log.
Lined(R, X) == \A r \in R : r.lines \in Seq(X)

\* The lines of segments, or of the inputs of a log.
LEMMA LinesAppend ==
  ASSUME NEW R, NEW c \in Seq(R), NEW e \in R, NEW X, Lined(R, X)
  PROVE  LinesOf(Append(c, e)) = LinesOf(c) \o e.lines
<1> DEFINE m == [k \in DOMAIN c |-> c[k].lines]
           t == Append(c, e)
<1>1. /\ Len(c) \in Nat /\ DOMAIN c = 1..Len(c) /\ t \in Seq(R) /\ Len(t) = Len(c) + 1
      /\ \A i \in 1..Len(c) : t[i] = c[i]
      /\ t[Len(c) + 1] = e /\ DOMAIN t = 1..Len(t)
  BY LenProperties, AppendProperties
<1>2. \A k \in 1..Len(c) : c[k].lines \in Seq(X)
  BY ElementOfSeq DEF Lined
<1>3. m \in Seq(Seq(X)) /\ Len(m) = Len(c)
  BY <1>1, <1>2
<1>4. Append(m, e.lines) = [k \in DOMAIN t |-> t[k].lines]
  <2> DEFINE u == [k \in DOMAIN t |-> t[k].lines]
  <2>1. \A k \in 1..Len(t) : t[k] \in R
    BY <1>1, ElementOfSeq
  <2>2. u \in Seq(Seq(X)) /\ Len(u) = Len(c) + 1
    BY <1>1, <2>1 DEF Lined
  <2>3. /\ Append(m, e.lines) \in Seq(Seq(X)) /\ Len(Append(m, e.lines)) = Len(c) + 1
        /\ \A i \in 1..Len(c) : Append(m, e.lines)[i] = m[i]
        /\ Append(m, e.lines)[Len(c) + 1] = e.lines
    BY <1>3, AppendProperties DEF Lined
  <2>4. ASSUME NEW i \in 1..(Len(c) + 1) PROVE Append(m, e.lines)[i] = u[i]
    <3>1. i \in 1..Len(c) \/ i = Len(c) + 1
      BY <1>1
    <3> QED
      BY <1>1, <2>3, <3>1
  <2> QED
    BY <2>2, <2>3, <2>4, SeqEqual
<1>5. FlattenSeq(Append(m, e.lines)) = FlattenSeq(m) \o e.lines
  BY <1>3, FlattenAppend DEF Lined
<1> QED
  BY <1>4, <1>5 DEF LinesOf

LEMMA ConcatAppend ==
  ASSUME NEW X, NEW c \in Seq(X), NEW d \in Seq(X), NEW e \in X
  PROVE  c \o Append(d, e) = Append(c \o d, e) /\ c \o d \in Seq(X)
<1>1. Append(d, e) = d \o <<e>> /\ <<e>> \in Seq(X)
  BY AppendIsConcat
<1>2. c \o d \in Seq(X)
  BY ConcatProperties
<1>3. Append(c \o d, e) = (c \o d) \o <<e>>
  BY <1>2, AppendIsConcat
<1>4. (c \o d) \o <<e>> = c \o (d \o <<e>>)
  BY <1>1, ConcatAssociative
<1> QED
  BY <1>1, <1>2, <1>3, <1>4

LEMMA LinesEmpty == LinesOf(<<>>) = <<>>
<1>1. [k \in DOMAIN <<>> |-> <<>>[k].lines] = <<>>
  OBVIOUS
<1> QED
  BY <1>1, FlattenEmpty DEF LinesOf

LEMMA LinesCat ==
  ASSUME NEW R, NEW X, Lined(R, X), NEW c \in Seq(R)
  PROVE  /\ LinesOf(c) \in Seq(X)
         /\ \A d \in Seq(R) : LinesOf(c \o d) = LinesOf(c) \o LinesOf(d)
<1> DEFINE G == {d \in Seq(R) : LinesOf(d) \in Seq(X)}
           H == {d \in Seq(R) : LinesOf(c \o d) = LinesOf(c) \o LinesOf(d)}
<1>1. <<>> \in G
  <2>1. LinesOf(<<>>) = <<>> /\ <<>> \in Seq(R) /\ <<>> \in Seq(X)
    BY LinesEmpty, EmptySeq
  <2> QED
    BY <2>1
<1>2. ASSUME NEW d \in Seq(R), NEW e \in R, d \in G PROVE Append(d, e) \in G
  <2>1. LinesOf(Append(d, e)) = LinesOf(d) \o e.lines
    BY LinesAppend
  <2>2. LinesOf(d) \o e.lines \in Seq(X)
    BY <1>2, ConcatProperties DEF Lined
  <2> QED
    BY <2>1, <2>2, AppendProperties
<1> HIDE DEF G
<1>3. \A d \in Seq(R) : d \in G
  BY <1>1, <1>2, ByAppend
<1>4. \A d \in Seq(R) : LinesOf(d) \in Seq(X)
  BY <1>3 DEF G
<1>5. <<>> \in H
  <2>1. c \o <<>> = c /\ LinesOf(c) \o <<>> = LinesOf(c) /\ <<>> \in Seq(R)
    BY <1>4, ConcatEmptySeq, EmptySeq
  <2> QED
    BY <2>1, LinesEmpty
<1>6. ASSUME NEW d \in Seq(R), NEW e \in R, d \in H PROVE Append(d, e) \in H
  <2>1. LinesOf(Append(d, e)) = LinesOf(d) \o e.lines
    BY LinesAppend
  <2>2. c \o Append(d, e) = Append(c \o d, e) /\ c \o d \in Seq(R)
    BY ConcatAppend
  <2>3. LinesOf(Append(c \o d, e)) = LinesOf(c \o d) \o e.lines
    BY <2>2, LinesAppend
  <2>4. (LinesOf(c) \o LinesOf(d)) \o e.lines = LinesOf(c) \o (LinesOf(d) \o e.lines)
    <3>1. LinesOf(c) \in Seq(X) /\ LinesOf(d) \in Seq(X) /\ e.lines \in Seq(X)
      BY <1>4 DEF Lined
    <3> HIDE DEF H
    <3>2. \A u, v, w \in Seq(X) : (u \o v) \o w = u \o (v \o w)
      BY ConcatAssociative
    <3> QED
      BY <3>1, <3>2, Zenon
  <2>5. LinesOf(c \o d) = LinesOf(c) \o LinesOf(d)
    BY <1>6
  <2>6. Append(d, e) \in Seq(R)
    BY AppendProperties
  <2> QED
    BY <2>1, <2>2, <2>3, <2>4, <2>5, <2>6
<1> HIDE DEF H
<1>7. \A d \in Seq(R) : d \in H
  BY <1>5, <1>6, ByAppend
<1> QED
  BY <1>4, <1>7 DEF H

\* How often a line is in segments, or in the inputs of a log.
LEMMA CountInIs ==
  ASSUME NEW R, NEW X, Lined(R, X), NEW c \in Seq(R), NEW l
  PROVE  /\ CountIn(c, l) \in Nat
         /\ CountIn(<<>>, l) = 0
         /\ CountIn(c, l) > 0 <=> l \in ToSet(LinesOf(c))
         /\ \A d \in Seq(R) : CountIn(c \o d, l) = CountIn(c, l) + CountIn(d, l)
         /\ \A e \in R : /\ CountIn(<<e>>, l) = Count(e.lines, l)
                         /\ CountIn(Append(c, e), l) = CountIn(c, l) + Count(e.lines, l)
<1>1. \A d \in Seq(R) : LinesOf(d) \in Seq(X)
  BY LinesCat
<1>2. CountIn(c, l) \in Nat /\ (CountIn(c, l) > 0 <=> l \in ToSet(LinesOf(c)))
  BY <1>1, CountIs DEF CountIn
<1>3. CountIn(<<>>, l) = 0
  BY LinesEmpty, CountEmpty DEF CountIn
<1>4. ASSUME NEW d \in Seq(R) PROVE CountIn(c \o d, l) = CountIn(c, l) + CountIn(d, l)
  <2>1. LinesOf(c \o d) = LinesOf(c) \o LinesOf(d)
    BY LinesCat
  <2> QED
    BY <1>1, <2>1, CountCat DEF CountIn
<1>5. ASSUME NEW e \in R
      PROVE  /\ CountIn(<<e>>, l) = Count(e.lines, l)
             /\ CountIn(Append(c, e), l) = CountIn(c, l) + Count(e.lines, l)
  <2>1. LinesOf(Append(c, e)) = LinesOf(c) \o e.lines
    BY LinesAppend
  <2>2. CountIn(Append(c, e), l) = CountIn(c, l) + Count(e.lines, l)
    BY <1>1, <2>1, CountCat DEF CountIn, Lined
  <2>3. <<>> \in Seq(R) /\ Append(<<>>, e) = <<e>>
    BY EmptySeq
  <2>4. LinesOf(<<e>>) = <<>> \o e.lines
    BY <2>3, LinesAppend, LinesEmpty
  <2>5. <<>> \o e.lines = e.lines
    BY ConcatEmptySeq DEF Lined
  <2> QED
    BY <2>2, <2>4, <2>5 DEF CountIn
<1> QED
  BY <1>2, <1>3, <1>4, <1>5

LEMMA CountInOne ==
  ASSUME NEW R, NEW X, Lined(R, X), NEW e \in R, NEW l
  PROVE  CountIn(<<e>>, l) = Count(e.lines, l)
<1>1. <<>> \in Seq(R) /\ Append(<<>>, e) = <<e>> /\ e.lines \in Seq(X)
  BY EmptySeq DEF Lined
<1>2. LinesOf(<<e>>) = <<>> \o e.lines
  BY <1>1, LinesAppend, LinesEmpty
<1>3. <<>> \o e.lines = e.lines
  BY <1>1, ConcatEmptySeq
<1> QED
  BY <1>2, <1>3 DEF CountIn

LEMMA CountInSum ==
  ASSUME NEW R, NEW X, Lined(R, X), NEW c \in Seq(R), NEW d \in Seq(R), NEW l
  PROVE  /\ CountIn(c \o d, l) = CountIn(c, l) + CountIn(d, l)
         /\ CountIn(c, l) \in Nat /\ CountIn(d, l) \in Nat
BY CountInIs

LEMMA CountInAppend ==
  ASSUME NEW R, NEW X, Lined(R, X), NEW c \in Seq(R), NEW e \in R, NEW l
  PROVE  /\ CountIn(Append(c, e), l) = CountIn(c, l) + Count(e.lines, l)
         /\ CountIn(c, l) \in Nat /\ Count(e.lines, l) \in Nat
<1>1. e.lines \in Seq(X) /\ LinesOf(c) \in Seq(X)
  BY LinesCat DEF Lined
<1>2. LinesOf(Append(c, e)) = LinesOf(c) \o e.lines
  BY LinesAppend
<1>3. Count(LinesOf(c) \o e.lines, l) = Count(LinesOf(c), l) + Count(e.lines, l)
  BY <1>1, CountCat
<1>4. Count(LinesOf(c), l) \in Nat /\ Count(e.lines, l) \in Nat
  BY <1>1, CountIs
<1> QED
  BY <1>2, <1>3, <1>4 DEF CountIn

LEMMA HeadAndTail ==
  ASSUME NEW X, NEW s \in Seq(X), s # <<>>
  PROVE  /\ s = <<Head(s)>> \o Tail(s) /\ Head(s) \in X /\ Tail(s) \in Seq(X)
         /\ <<Head(s)>> \in Seq(X)
<1>1. /\ Head(s) \in X /\ Tail(s) \in Seq(X) /\ Len(Tail(s)) = Len(s) - 1
      /\ \A i \in 1..Len(Tail(s)) : Tail(s)[i] = s[i + 1]
  BY HeadTailProperties
<1>2. Len(s) \in Nat \ {0} /\ Head(s) = s[1]
  BY EmptySeq
<1>3. /\ <<Head(s)>> \o Tail(s) \in Seq(X)
      /\ Len(<<Head(s)>> \o Tail(s)) = 1 + Len(Tail(s))
      /\ \A i \in 1..(1 + Len(Tail(s))) :
           (<<Head(s)>> \o Tail(s))[i] = IF i <= 1 THEN <<Head(s)>>[i] ELSE Tail(s)[i - 1]
  <2>1. <<Head(s)>> \in Seq(X) /\ Len(<<Head(s)>>) = 1
    BY <1>1
  <2> QED
    BY <1>1, <2>1, ConcatProperties
<1>4. ASSUME NEW i \in 1..Len(s) PROVE (<<Head(s)>> \o Tail(s))[i] = s[i]
  <2>1. CASE i = 1
    BY <1>1, <1>2, <1>3, <2>1
  <2>2. CASE i # 1
    <3>1. i - 1 \in 1..Len(Tail(s)) /\ ~(i <= 1) /\ i \in 1..(1 + Len(Tail(s))) /\ (i - 1) + 1 = i
      BY <1>1, <1>2, <2>2
    <3> QED
      BY <1>1, <1>3, <3>1
  <2> QED
    BY <2>1, <2>2
<1>5. s = <<Head(s)>> \o Tail(s)
  BY <1>1, <1>2, <1>3, <1>4, SeqEqual
<1> QED
  BY <1>1, <1>5

LEMMA TailCounts ==
  ASSUME NEW X, NEW s \in Seq(X), s # <<>>, NEW l
  PROVE  /\ Count(s, l) = (IF Head(s) = l THEN 1 ELSE 0) + Count(Tail(s), l)
         /\ ToSet(s) = {Head(s)} \cup ToSet(Tail(s))
<1>1. /\ s = <<Head(s)>> \o Tail(s) /\ Tail(s) \in Seq(X) /\ <<Head(s)>> \in Seq(X)
  BY HeadAndTail
<1>2. /\ Count(<<Head(s)>> \o Tail(s), l) = Count(<<Head(s)>>, l) + Count(Tail(s), l)
      /\ ToSet(<<Head(s)>> \o Tail(s)) = ToSet(<<Head(s)>>) \cup ToSet(Tail(s))
  BY <1>1, CountCat
<1> QED
  BY <1>1, <1>2, CountOne

LEMMA TailCountsIn ==
  ASSUME NEW R, NEW X, Lined(R, X), NEW c \in Seq(R), c # <<>>, NEW l
  PROVE  CountIn(c, l) = Count(Head(c).lines, l) + CountIn(Tail(c), l)
<1>1. c = <<Head(c)>> \o Tail(c) /\ Tail(c) \in Seq(R) /\ Head(c) \in R /\ <<Head(c)>> \in Seq(R)
  BY HeadAndTail
<1>2. CountIn(<<Head(c)>> \o Tail(c), l) = CountIn(<<Head(c)>>, l) + CountIn(Tail(c), l)
  BY <1>1, CountInIs
<1>3. CountIn(<<Head(c)>>, l) = Count(Head(c).lines, l)
  BY <1>1, CountInOne
<1> QED
  BY <1>1, <1>2, <1>3

\* A sequence cut before and behind one element.
LEMMA CutAt ==
  ASSUME NEW X, NEW s \in Seq(X), NEW i \in 1..Len(s)
  PROVE  /\ SubSeq(s, 1, i - 1) \in Seq(X) /\ SubSeq(s, i + 1, Len(s)) \in Seq(X)
         /\ RemoveAt(s, i) = SubSeq(s, 1, i - 1) \o SubSeq(s, i + 1, Len(s))
         /\ s = Append(SubSeq(s, 1, i - 1), s[i]) \o SubSeq(s, i + 1, Len(s))
<1>1. Len(s) \in Nat /\ \A k \in 1..Len(s) : s[k] \in X
  BY LenProperties, ElementOfSeq
<1>2. SubSeq(s, 1, i - 1) \in Seq(X) /\ SubSeq(s, i + 1, Len(s)) \in Seq(X)
  <2>1. \A k \in 1..(i - 1) : s[k] \in X
    BY <1>1
  <2>2. \A k \in (i + 1)..Len(s) : s[k] \in X
    BY <1>1
  <2> QED
    BY <1>1, <2>1, <2>2, SubSeqProperties
<1>3. SubSeq(s, 1, i) = SubSeq(s, 1, i - 1) \o <<s[i]>>
  <2>1. 1 \in 1..Len(s) /\ i \in 1..Len(s)
    BY <1>1
  <2> QED
    BY <2>1, SubSeqRecursiveSecond
<1>4. SubSeq(s, 1, i) \o SubSeq(s, i + 1, Len(s)) = SubSeq(s, 1, Len(s))
  <2>1. 1 \in 1..(Len(s) + 1) /\ i \in (1 - 1)..Len(s) /\ Len(s) \in i..Len(s)
    BY <1>1
  <2> QED
    BY <2>1, ConcatAdjacentSubSeq
<1>5. Append(SubSeq(s, 1, i - 1), s[i]) = SubSeq(s, 1, i - 1) \o <<s[i]>>
  BY <1>1, <1>2, AppendIsConcat
<1> QED
  BY <1>2, <1>3, <1>4, <1>5, SubSeqFull DEF RemoveAt

LEMMA RemoveAtCounts ==
  ASSUME NEW R, NEW X, Lined(R, X), NEW c \in Seq(R), NEW i \in 1..Len(c), NEW l
  PROVE  /\ RemoveAt(c, i) \in Seq(R)
         /\ CountIn(c, l) = CountIn(RemoveAt(c, i), l) + Count(c[i].lines, l)
         /\ Count(c, l) = Count(RemoveAt(c, i), l) + (IF c[i] = l THEN 1 ELSE 0)
         /\ ToSet(RemoveAt(c, i)) \subseteq ToSet(c)
<1> DEFINE a == SubSeq(c, 1, i - 1)
           b == SubSeq(c, i + 1, Len(c))
<1>1. a \in Seq(R) /\ b \in Seq(R) /\ RemoveAt(c, i) = a \o b /\ c = Append(a, c[i]) \o b
  BY CutAt
<1>2. c[i] \in R
  BY ElementOfSeq
<1> HIDE DEF a, b
<1>3. Append(a, c[i]) \in Seq(R) /\ a \o b \in Seq(R)
  BY <1>1, <1>2, AppendProperties, ConcatProperties
<1>4. CountIn(Append(a, c[i]) \o b, l) = CountIn(Append(a, c[i]), l) + CountIn(b, l)
  BY <1>1, <1>3, CountInSum
<1>5. /\ CountIn(Append(a, c[i]), l) = CountIn(a, l) + Count(c[i].lines, l)
      /\ CountIn(a, l) \in Nat /\ Count(c[i].lines, l) \in Nat
  BY <1>1, <1>2, CountInAppend
<1>6. CountIn(a \o b, l) = CountIn(a, l) + CountIn(b, l) /\ CountIn(b, l) \in Nat
  BY <1>1, CountInSum
<1>10. /\ Count(Append(a, c[i]) \o b, l) = Count(Append(a, c[i]), l) + Count(b, l)
       /\ ToSet(Append(a, c[i]) \o b) = ToSet(Append(a, c[i])) \cup ToSet(b)
  BY <1>1, <1>3, CountCat
<1>11. /\ Count(Append(a, c[i]), l) = Count(a, l) + (IF c[i] = l THEN 1 ELSE 0)
       /\ ToSet(Append(a, c[i])) = ToSet(a) \cup {c[i]}
  BY <1>1, <1>2, CountAppend
<1>12. /\ Count(a \o b, l) = Count(a, l) + Count(b, l)
       /\ ToSet(a \o b) = ToSet(a) \cup ToSet(b)
  BY <1>1, CountCat
<1>13. Count(a, l) \in Nat /\ Count(b, l) \in Nat
  BY <1>1, CountIs
<1>7. CountIn(c, l) = CountIn(RemoveAt(c, i), l) + Count(c[i].lines, l)
  <2>1. CountIn(c, l) = CountIn(Append(a, c[i]) \o b, l)
    BY <1>1
  <2>2. CountIn(RemoveAt(c, i), l) = CountIn(a \o b, l)
    BY <1>1
  <2> QED
    BY <2>1, <2>2, <1>4, <1>5, <1>6
<1>8. Count(c, l) = Count(RemoveAt(c, i), l) + (IF c[i] = l THEN 1 ELSE 0)
  <2>1. Count(c, l) = Count(Append(a, c[i]) \o b, l)
    BY <1>1
  <2>2. Count(RemoveAt(c, i), l) = Count(a \o b, l)
    BY <1>1
  <2> QED
    BY <2>1, <2>2, <1>10, <1>11, <1>12, <1>13
<1>9. ToSet(RemoveAt(c, i)) \subseteq ToSet(c)
  BY <1>1, <1>10, <1>11, <1>12
<1> QED
  BY <1>1, <1>3, <1>7, <1>8, <1>9

-----------------------------------------------------------------------------
(* What the handlers do to the sequences.                                  *)

LEMMA KeepSet ==
  ASSUME NEW X, NEW S, NEW s \in Seq(X)
  PROVE  /\ Keep(s, S) \in Seq(X \cap S) /\ Keep(s, S) \in Seq(X)
         /\ ToSet(Keep(s, S)) = ToSet(s) \cap S
<1>1. Keep(s, S) \in Seq(X \cap S) /\ \A l : Count(Keep(s, S), l) = IF l \in S THEN Count(s, l) ELSE 0
  BY KeepSeq
<1>2. Keep(s, S) \in Seq(X)
  <2>1. Len(Keep(s, S)) \in Nat /\ \A i \in 1..Len(Keep(s, S)) : Keep(s, S)[i] \in X
    BY <1>1, ElementOfSeq, LenProperties
  <2>2. SubSeq(Keep(s, S), 1, Len(Keep(s, S))) \in Seq(X)
    BY <1>1, <2>1, SubSeqProperties
  <2> QED
    BY <1>1, <2>2, SubSeqFull
<1>3. ASSUME NEW l PROVE l \in ToSet(Keep(s, S)) <=> l \in ToSet(s) \cap S
  <2>1. /\ Count(Keep(s, S), l) > 0 <=> l \in ToSet(Keep(s, S))
        /\ Count(s, l) > 0 <=> l \in ToSet(s)
    BY <1>2, CountIs
  <2> QED
    BY <1>1, <2>1
<1> QED
  BY <1>1, <1>2, <1>3

\* Every member of R is in one of S and T.
Splits(R, S, T) == \A e \in R : e \in S <=> e \notin T

LEMMA KeepSplits ==
  ASSUME NEW R, NEW X, Lined(R, X), NEW S, NEW T, Splits(R, S, T), NEW l
  PROVE  \A c \in Seq(R) : CountIn(Keep(c, S), l) + CountIn(Keep(c, T), l) = CountIn(c, l)
<1> DEFINE G == {c \in Seq(R) : CountIn(Keep(c, S), l) + CountIn(Keep(c, T), l) = CountIn(c, l)}
<1>1. <<>> \in G
  <2>1. Keep(<<>>, S) = <<>> /\ Keep(<<>>, T) = <<>>
    BY KeepEmpty
  <2>2. CountIn(<<>>, l) = 0
    BY LinesEmpty, CountEmpty DEF CountIn
  <2>3. <<>> \in Seq(R)
    OBVIOUS
  <2> QED
    BY <2>1, <2>2, <2>3
<1>2. ASSUME NEW c \in Seq(R), NEW e \in R, c \in G PROVE Append(c, e) \in G
  <2>1. /\ Keep(Append(c, e), S) = IF e \in S THEN Append(Keep(c, S), e) ELSE Keep(c, S)
        /\ Keep(Append(c, e), T) = IF e \in T THEN Append(Keep(c, T), e) ELSE Keep(c, T)
    BY KeepIs
  <2>2. Keep(c, S) \in Seq(R) /\ Keep(c, T) \in Seq(R) /\ Append(c, e) \in Seq(R)
    BY KeepSet, AppendProperties
  <2>3. /\ CountIn(Append(Keep(c, S), e), l) = CountIn(Keep(c, S), l) + Count(e.lines, l)
        /\ CountIn(Keep(c, S), l) \in Nat
    BY <2>2, CountInAppend
  <2>4. /\ CountIn(Append(Keep(c, T), e), l) = CountIn(Keep(c, T), l) + Count(e.lines, l)
        /\ CountIn(Keep(c, T), l) \in Nat
    BY <2>2, CountInAppend
  <2>5. CountIn(Append(c, e), l) = CountIn(c, l) + Count(e.lines, l) /\ Count(e.lines, l) \in Nat
    BY CountInAppend
  <2>6. CountIn(Keep(c, S), l) + CountIn(Keep(c, T), l) = CountIn(c, l)
    BY <1>2
  <2>7. CountIn(Keep(Append(c, e), S), l) + CountIn(Keep(Append(c, e), T), l)
          = CountIn(Append(c, e), l)
    <3>1. CASE e \in S
      <4>1. Keep(Append(c, e), S) = Append(Keep(c, S), e) /\ Keep(Append(c, e), T) = Keep(c, T)
        BY <2>1, <3>1 DEF Splits
      <4> QED
        BY <4>1, <2>3, <2>4, <2>5, <2>6
    <3>2. CASE e \notin S
      <4>1. Keep(Append(c, e), S) = Keep(c, S) /\ Keep(Append(c, e), T) = Append(Keep(c, T), e)
        BY <2>1, <3>2 DEF Splits
      <4> QED
        BY <4>1, <2>3, <2>4, <2>5, <2>6
    <3> QED
      BY <3>1, <3>2
  <2> QED
    BY <2>2, <2>7
<1> HIDE DEF G
<1>3. \A c \in Seq(R) : c \in G
  BY <1>1, <1>2, ByAppend
<1> QED
  BY <1>3 DEF G

LEMMA KeepCat ==
  ASSUME NEW X, NEW S, NEW s \in Seq(X)
  PROVE  \A t \in Seq(X) : Keep(s \o t, S) = Keep(s, S) \o Keep(t, S)
<1> DEFINE G == {t \in Seq(X) : Keep(s \o t, S) = Keep(s, S) \o Keep(t, S)}
<1>1. <<>> \in G
  <2>1. Keep(<<>>, S) = <<>> /\ <<>> \in Seq(X) /\ s \o <<>> = s
    BY KeepEmpty, ConcatEmptySeq
  <2>2. Keep(s, S) \o <<>> = Keep(s, S)
    BY KeepSet, ConcatEmptySeq
  <2> QED
    BY <2>1, <2>2
<1>2. ASSUME NEW t \in Seq(X), NEW e \in X, t \in G PROVE Append(t, e) \in G
  <2>1. Keep(Append(t, e), S) = IF e \in S THEN Append(Keep(t, S), e) ELSE Keep(t, S)
    BY KeepIs
  <2>2. s \o Append(t, e) = Append(s \o t, e) /\ s \o t \in Seq(X) /\ Append(t, e) \in Seq(X)
    BY ConcatAppend, AppendProperties
  <2>3. Keep(Append(s \o t, e), S)
          = IF e \in S THEN Append(Keep(s \o t, S), e) ELSE Keep(s \o t, S)
    <3> HIDE DEF G
    <3>1. \A z \in Seq(X) : Keep(Append(z, e), S) = IF e \in S THEN Append(Keep(z, S), e) ELSE Keep(z, S)
      BY KeepIs
    <3> QED
      BY <2>2, <3>1
  <2>4. Keep(s, S) \in Seq(X) /\ Keep(t, S) \in Seq(X)
    BY KeepSet
  <2>5. Keep(s, S) \o Append(Keep(t, S), e) = Append(Keep(s, S) \o Keep(t, S), e)
    BY <2>4, ConcatAppend
  <2>6. Keep(s \o t, S) = Keep(s, S) \o Keep(t, S)
    BY <1>2
  <2>7. Keep(s \o Append(t, e), S) = Keep(s, S) \o Keep(Append(t, e), S)
    BY <2>1, <2>2, <2>3, <2>5, <2>6
  <2> QED
    BY <2>2, <2>7
<1> HIDE DEF G
<1>3. \A t \in Seq(X) : t \in G
  BY <1>1, <1>2, ByAppend
<1> QED
  BY <1>3 DEF G

LEMMA SegmentsLined ==
  /\ Lined(Segments(Kinds), Lines)
  /\ Segments({"turn"}) \subseteq Segments(Kinds)
  /\ Segments(Kinds \ {"turn"}) \subseteq Segments(Kinds)
  /\ Splits(Segments(Kinds), Segments({"turn"}), Segments(Kinds \ {"turn"}))
BY DEF Lined, Segments, Kinds, Splits

\* The segments that turns are, and each line as a turn of its own.
Turn(lines) == [kind |-> "turn", lines |-> lines]
Each(lines) == [k \in DOMAIN lines |-> Turn(<<lines[k]>>)]

LEMMA EachIs ==
  \A s \in Seq(Lines) : Each(s) \in Seq(Segments({"turn"})) /\ LinesOf(Each(s)) = s
<1> DEFINE P(s) == Each(s) \in Seq(Segments({"turn"})) /\ LinesOf(Each(s)) = s
           G == {s \in Seq(Lines) : P(s)}
<1>1. <<>> \in G
  <2>1. Each(<<>>) = <<>>
    BY DEF Each
  <2>2. <<>> \in Seq(Lines) /\ <<>> \in Seq(Segments({"turn"}))
    OBVIOUS
  <2> QED
    BY <2>1, <2>2, LinesEmpty
<1>2. ASSUME NEW s \in Seq(Lines), NEW e \in Lines, s \in G PROVE Append(s, e) \in G
  <2> DEFINE x == Turn(<<e>>)
  <2>1. x \in Segments({"turn"}) /\ x \in Segments(Kinds) /\ x.lines = <<e>>
    BY DEF Turn, Segments, Kinds
  <2>2. /\ Len(s) \in Nat /\ DOMAIN s = 1..Len(s) /\ Append(s, e) \in Seq(Lines)
        /\ Len(Append(s, e)) = Len(s) + 1 /\ DOMAIN Append(s, e) = 1..(Len(s) + 1)
        /\ \A i \in 1..Len(s) : Append(s, e)[i] = s[i]
        /\ Append(s, e)[Len(s) + 1] = e
    BY LenProperties, AppendProperties
  <2> HIDE DEF x
  <2>3. Each(s) \in Seq(Segments({"turn"})) /\ Len(Each(s)) = Len(s)
    BY <1>2, <2>2 DEF Each
  <2>4. Each(Append(s, e)) = Append(Each(s), x)
    <3> DEFINE u == Each(Append(s, e))
    <3>1. /\ Append(Each(s), x) \in Seq(Segments({"turn"}))
          /\ Len(Append(Each(s), x)) = Len(s) + 1
          /\ \A i \in 1..Len(s) : Append(Each(s), x)[i] = Each(s)[i]
          /\ Append(Each(s), x)[Len(s) + 1] = x
      BY <2>1, <2>3, AppendProperties
    <3>2. ASSUME NEW i \in 1..(Len(s) + 1) PROVE u[i] = Append(Each(s), x)[i]
      <4>1. u[i] = Turn(<<Append(s, e)[i]>>)
        BY <2>2 DEF Each
      <4>2. CASE i \in 1..Len(s)
        BY <2>2, <3>1, <4>1, <4>2 DEF Each
      <4>3. CASE i = Len(s) + 1
        BY <2>2, <3>1, <4>1, <4>3 DEF x
      <4>4. i \in 1..Len(s) \/ i = Len(s) + 1
        BY <2>2
      <4> QED
        BY <4>2, <4>3, <4>4
    <3>3. DOMAIN u = 1..(Len(s) + 1) /\ u = [i \in 1..(Len(s) + 1) |-> u[i]]
      BY <2>2 DEF Each
    <3> HIDE DEF u
    <3>4. \A i \in 1..(Len(s) + 1) : u[i] \in Segments({"turn"})
      BY <3>1, <3>2, ElementOfSeq
    <3>5. u \in Seq(Segments({"turn"})) /\ Len(u) = Len(s) + 1
      BY <2>2, <3>3, <3>4
    <3>6. u = Append(Each(s), x)
      BY <3>1, <3>2, <3>5, SeqEqual
    <3> QED
      BY <3>6 DEF u
  <2>5. LinesOf(Append(Each(s), x)) = LinesOf(Each(s)) \o <<e>>
    <3>1. Lined(Segments({"turn"}), Lines)
      BY DEF Lined, Segments
    <3> QED
      BY <2>1, <2>3, <3>1, LinesAppend
  <2>6. s \o <<e>> = Append(s, e)
    BY AppendIsConcat
  <2>7. LinesOf(Each(s)) = s
    BY <1>2
  <2>8. Append(Each(s), x) \in Seq(Segments({"turn"}))
    BY <2>1, <2>3, AppendProperties
  <2>9. P(Append(s, e))
    BY <2>4, <2>5, <2>6, <2>7, <2>8
  <2> QED
    BY <2>2, <2>9
<1> HIDE DEF G
<1>3. \A s \in Seq(Lines) : s \in G
  BY <1>1, <1>2, ByAppend
<1> QED
  BY <1>3 DEF G

LEMMA QueueEachIs ==
  ASSUME NEW c \in Seq(Segments(Kinds)), NEW s \in Seq(Lines)
  PROVE  /\ QueueEach(c, s) \in Seq(Segments(Kinds))
         /\ LinesOf(QueueEach(c, s)) = LinesOf(c) \o s
         /\ ToSet(QueueEach(c, s)) \subseteq ToSet(c) \cup Segments({"turn"})
         /\ \A x : x \notin Segments({"turn"}) => Count(QueueEach(c, s), x) = Count(c, x)
<1>1. Each(s) \in Seq(Segments({"turn"})) /\ LinesOf(Each(s)) = s
  BY EachIs
<1>2. QueueEach(c, s) = c \o Each(s)
  BY DEF QueueEach, Each, Turn
<1>3. \A k \in DOMAIN Each(s) : Each(s)[k] \in Segments({"turn"})
  BY <1>1, ElementOfSeq, LenProperties
<1>4. Each(s) \in Seq(Segments(Kinds))
  <2>1. \A i \in 1..Len(Each(s)) : Each(s)[i] \in Segments(Kinds)
    BY <1>1, ElementOfSeq, SegmentsLined
  <2>2. Len(Each(s)) \in Nat
    BY <1>1, LenProperties
  <2>3. SubSeq(Each(s), 1, Len(Each(s))) \in Seq(Segments(Kinds))
    BY <1>1, <2>1, <2>2, SubSeqProperties
  <2> QED
    BY <1>1, <2>3, SubSeqFull
<1>5. ToSet(Each(s)) \subseteq Segments({"turn"})
  BY <1>3 DEF ToSet
<1>6. LinesOf(c \o Each(s)) = LinesOf(c) \o LinesOf(Each(s))
  BY <1>4, SegmentsLined, LinesCat
<1>7. ToSet(c \o Each(s)) = ToSet(c) \cup ToSet(Each(s)) /\ c \o Each(s) \in Seq(Segments(Kinds))
  BY <1>4, CountCat, ConcatProperties
<1>8. ASSUME NEW x, x \notin Segments({"turn"}) PROVE Count(c \o Each(s), x) = Count(c, x)
  <2>1. Count(c \o Each(s), x) = Count(c, x) + Count(Each(s), x)
    BY <1>4, CountCat
  <2>2. Count(Each(s), x) \in Nat /\ (Count(Each(s), x) > 0 <=> x \in ToSet(Each(s)))
    BY <1>4, CountIs
  <2>3. Count(c, x) \in Nat
    BY CountIs
  <2> QED
    BY <1>5, <1>8, <2>1, <2>2, <2>3
<1> QED
  BY <1>1, <1>2, <1>5, <1>6, <1>7, <1>8

LEMMA EchoesIs ==
  ASSUME NEW l \in Lines, Departed \in Nat
  PROVE  /\ Echoes(l) \in Seq(Lines)
         /\ Count(Echoes(l), l) = Departed
         /\ \A x : x # l => Count(Echoes(l), x) = 0
         /\ ToSet(Echoes(l)) \subseteq {l}
<1>1. DOMAIN Echoes(l) = 1..Departed /\ \A k \in 1..Departed : Echoes(l)[k] = l
  BY DEF Echoes
<1>2. Echoes(l) \in Seq(Lines)
  BY DEF Echoes
<1>3. {k \in DOMAIN Echoes(l) : Echoes(l)[k] = l} = 1..Departed
  BY <1>1
<1>4. Cardinality(1..Departed) = Departed
  BY FS_Interval
<1>5. ASSUME NEW x, x # l PROVE Count(Echoes(l), x) = 0
  <2>1. {k \in DOMAIN Echoes(l) : Echoes(l)[k] = x} = {}
    BY <1>1, <1>5
  <2> QED
    BY <2>1, FS_EmptySet DEF Count
<1> QED
  BY <1>1, <1>2, <1>3, <1>4, <1>5 DEF Count, ToSet

\* The lines of one segment are among the lines of all.
LEMMA LinesWithin ==
  ASSUME NEW R, NEW X, Lined(R, X), NEW c \in Seq(R), NEW i \in 1..Len(c)
  PROVE  ToSet(c[i].lines) \subseteq ToSet(LinesOf(c))
<1> DEFINE a == SubSeq(c, 1, i - 1)
           b == SubSeq(c, i + 1, Len(c))
<1>1. a \in Seq(R) /\ b \in Seq(R) /\ c = Append(a, c[i]) \o b /\ c[i] \in R
  BY CutAt, ElementOfSeq
<1> HIDE DEF a, b
<1>2. Append(a, c[i]) \in Seq(R)
  BY <1>1, AppendProperties
<1>3. LinesOf(Append(a, c[i]) \o b) = LinesOf(Append(a, c[i])) \o LinesOf(b)
  BY <1>1, <1>2, LinesCat
<1>4. LinesOf(Append(a, c[i])) = LinesOf(a) \o c[i].lines
  BY <1>1, LinesAppend
<1>5. LinesOf(a) \in Seq(X) /\ LinesOf(b) \in Seq(X) /\ c[i].lines \in Seq(X)
  BY <1>1, LinesCat DEF Lined
<1>6. LinesOf(a) \o c[i].lines \in Seq(X)
  BY <1>5, ConcatProperties
<1>7. /\ ToSet((LinesOf(a) \o c[i].lines) \o LinesOf(b))
           = ToSet(LinesOf(a) \o c[i].lines) \cup ToSet(LinesOf(b))
      /\ ToSet(LinesOf(a) \o c[i].lines) = ToSet(LinesOf(a)) \cup ToSet(c[i].lines)
  BY <1>5, <1>6, CountCat
<1>8. LinesOf(c) = (LinesOf(a) \o c[i].lines) \o LinesOf(b)
  <2>1. LinesOf(c) = LinesOf(Append(a, c[i]) \o b)
    BY <1>1
  <2> QED
    BY <2>1, <1>3, <1>4
<1> QED
  BY <1>7, <1>8

-----------------------------------------------------------------------------
(* The end of the mirror that a run's lines are read from.                 *)

\* Read from their ends, the two agree as far as both go.
Suffixed(s, t) == \A j \in 0..(Len(s) - 1) : j < Len(t) => s[Len(s) - j] = t[Len(t) - j]

LEMMA SuffixedEmpty ==
  ASSUME NEW X, NEW s \in Seq(X)
  PROVE  Suffixed(s, <<>>) /\ Suffixed(<<>>, s)
<1>1. Len(<<>>) = 0 /\ \A j \in 0..(0 - 1) : FALSE
  OBVIOUS
<1> QED
  BY <1>1 DEF Suffixed

LEMMA SuffixedAppend ==
  ASSUME NEW X, NEW s \in Seq(X), NEW t \in Seq(X), NEW e \in X, Suffixed(s, t)
  PROVE  Suffixed(Append(s, e), Append(t, e))
<1>1. /\ Len(s) \in Nat /\ Len(t) \in Nat
      /\ Len(Append(s, e)) = Len(s) + 1 /\ Len(Append(t, e)) = Len(t) + 1
      /\ \A i \in 1..Len(s) : Append(s, e)[i] = s[i]
      /\ \A i \in 1..Len(t) : Append(t, e)[i] = t[i]
      /\ Append(s, e)[Len(s) + 1] = e /\ Append(t, e)[Len(t) + 1] = e
  BY LenProperties, AppendProperties
<1> DEFINE u == Append(s, e)
           v == Append(t, e)
<1> HIDE DEF u, v
<1>2. ASSUME NEW j \in 0..Len(s), j < Len(t) + 1
      PROVE  u[Len(s) + 1 - j] = v[Len(t) + 1 - j]
  <2>1. CASE j = 0
    BY <1>1, <2>1 DEF u, v
  <2>2. CASE j # 0
    <3>1. /\ j - 1 \in 0..(Len(s) - 1) /\ j - 1 < Len(t)
          /\ Len(s) + 1 - j = Len(s) - (j - 1) /\ Len(t) + 1 - j = Len(t) - (j - 1)
          /\ Len(s) - (j - 1) \in 1..Len(s) /\ Len(t) - (j - 1) \in 1..Len(t)
      BY <1>1, <1>2, <2>2
    <3>2. s[Len(s) - (j - 1)] = t[Len(t) - (j - 1)]
      BY <3>1 DEF Suffixed
    <3>3. u[Len(s) - (j - 1)] = s[Len(s) - (j - 1)] /\ v[Len(t) - (j - 1)] = t[Len(t) - (j - 1)]
      BY <1>1, <3>1 DEF u, v
    <3> QED
      BY <3>1, <3>2, <3>3
  <2> QED
    BY <2>1, <2>2
<1>3. (Len(s) + 1) - 1 = Len(s)
  BY <1>1
<1> QED
  BY <1>1, <1>2, <1>3 DEF Suffixed, u, v

LEMMA SuffixedDrop ==
  ASSUME NEW X, NEW s \in Seq(X), NEW a \in Seq(X), NEW b \in Seq(X), Suffixed(s, a \o b)
  PROVE  Suffixed(s, b)
<1>1. /\ Len(s) \in Nat /\ Len(a) \in Nat /\ Len(b) \in Nat
      /\ Len(a \o b) = Len(a) + Len(b)
      /\ \A i \in 1..(Len(a) + Len(b)) :
           (a \o b)[i] = IF i <= Len(a) THEN a[i] ELSE b[i - Len(a)]
  BY LenProperties, ConcatProperties
<1>2. ASSUME NEW j \in 0..(Len(s) - 1), j < Len(b) PROVE s[Len(s) - j] = b[Len(b) - j]
  <2>1. /\ j < Len(a) + Len(b) /\ Len(a) + Len(b) - j \in 1..(Len(a) + Len(b))
        /\ ~(Len(a) + Len(b) - j <= Len(a)) /\ (Len(a) + Len(b) - j) - Len(a) = Len(b) - j
    BY <1>1, <1>2
  <2>2. s[Len(s) - j] = (a \o b)[Len(a) + Len(b) - j]
    BY <1>1, <2>1 DEF Suffixed
  <2> QED
    BY <1>1, <2>1, <2>2
<1> QED
  BY <1>2 DEF Suffixed

LEMMA LastOfIs ==
  ASSUME NEW X, NEW s \in Seq(X), NEW n \in Nat
  PROVE  /\ LastOf(s, n) \in Seq(X)
         /\ Len(LastOf(s, n)) = IF n < Len(s) THEN n ELSE Len(s)
         /\ \A i \in 1..Len(LastOf(s, n)) :
              LastOf(s, n)[i] = s[Len(s) - Len(LastOf(s, n)) + i]
         /\ n >= Len(s) => LastOf(s, n) = s
<1> DEFINE m == IF n < Len(s) THEN Len(s) - n + 1 ELSE 1
<1>1. Len(s) \in Nat /\ \A i \in 1..Len(s) : s[i] \in X
  BY LenProperties, ElementOfSeq
<1>2. /\ m \in 1..(Len(s) + 1) /\ LastOf(s, n) = SubSeq(s, m, Len(s))
      /\ Len(s) - m + 1 = IF n < Len(s) THEN n ELSE Len(s)
      /\ m \in Int /\ (n >= Len(s) => m = 1)
  BY <1>1 DEF LastOf
<1> HIDE DEF m
<1>3. /\ SubSeq(s, m, Len(s)) \in Seq(X)
      /\ Len(SubSeq(s, m, Len(s))) = IF m <= Len(s) THEN Len(s) - m + 1 ELSE 0
      /\ \A i \in 1..(Len(s) - m + 1) : SubSeq(s, m, Len(s))[i] = s[m + i - 1]
  <2>1. \A i \in m..Len(s) : s[i] \in X
    BY <1>1, <1>2
  <2> QED
    BY <1>1, <1>2, <2>1, SubSeqProperties
<1>4. Len(SubSeq(s, m, Len(s))) = Len(s) - m + 1
  BY <1>1, <1>2, <1>3
<1>5. n >= Len(s) => LastOf(s, n) = s
  BY <1>2, SubSeqFull
<1>6. ASSUME NEW i \in 1..(Len(s) - m + 1)
      PROVE  SubSeq(s, m, Len(s))[i] = s[Len(s) - (Len(s) - m + 1) + i]
  <2>1. Len(s) - (Len(s) - m + 1) + i = m + i - 1
    BY <1>1, <1>2
  <2> QED
    BY <1>3, <2>1
<1> QED
  BY <1>2, <1>3, <1>4, <1>5, <1>6

\* What is handed back is the end of what waited, and where it is not all
\* of it, it is the whole mirror.
LEMMA HandedSplit ==
  ASSUME NEW X, NEW s \in Seq(X), NEW a \in Seq(X), NEW b \in Seq(X), Suffixed(s, a \o b)
  PROVE  \E p \in Seq(X) : /\ b = p \o LastOf(s, Len(b))
                           /\ p = <<>> \/ LastOf(s, Len(b)) = s
<1> DEFINE h == LastOf(s, Len(b))
           p == SubSeq(b, 1, Len(b) - Len(h))
<1>1. Suffixed(s, b)
  BY SuffixedDrop
<1>2. Len(s) \in Nat /\ Len(b) \in Nat /\ \A i \in 1..Len(b) : b[i] \in X
  BY LenProperties, ElementOfSeq
<1>3. /\ h \in Seq(X) /\ Len(h) = IF Len(b) < Len(s) THEN Len(b) ELSE Len(s)
      /\ \A i \in 1..Len(h) : h[i] = s[Len(s) - Len(h) + i]
      /\ Len(b) >= Len(s) => h = s
  BY <1>2, LastOfIs
<1> HIDE DEF h
<1>4. Len(h) \in 0..Len(b) /\ Len(h) <= Len(s)
  BY <1>2, <1>3
<1>5. /\ p \in Seq(X) /\ Len(p) = Len(b) - Len(h)
      /\ \A i \in 1..(Len(b) - Len(h)) : p[i] = b[i]
  <2>1. \A i \in 1..(Len(b) - Len(h)) : b[i] \in X
    BY <1>2, <1>4
  <2>2. /\ SubSeq(b, 1, Len(b) - Len(h)) \in Seq(X)
        /\ Len(SubSeq(b, 1, Len(b) - Len(h)))
             = IF 1 <= Len(b) - Len(h) THEN (Len(b) - Len(h)) - 1 + 1 ELSE 0
        /\ \A i \in 1..((Len(b) - Len(h)) - 1 + 1) : SubSeq(b, 1, Len(b) - Len(h))[i] = b[1 + i - 1]
    <3>1. Len(b) - Len(h) \in Int /\ 1 \in Int
      BY <1>2, <1>4
    <3> QED
      BY <2>1, <3>1, SubSeqProperties
  <2>3. (Len(b) - Len(h)) - 1 + 1 = Len(b) - Len(h) /\ \A i \in 1..(Len(b) - Len(h)) : 1 + i - 1 = i
    BY <1>2, <1>4
  <2>4. Len(SubSeq(b, 1, Len(b) - Len(h))) = Len(b) - Len(h)
    BY <1>2, <1>4, <2>2
  <2> QED
    BY <2>2, <2>3, <2>4
<1> HIDE DEF p
<1>6. /\ p \o h \in Seq(X) /\ Len(p \o h) = Len(b)
      /\ \A i \in 1..Len(b) : (p \o h)[i] = IF i <= Len(p) THEN p[i] ELSE h[i - Len(p)]
  <2>1. Len(p) + Len(h) = Len(b)
    BY <1>2, <1>4, <1>5
  <2>2. /\ p \o h \in Seq(X) /\ Len(p \o h) = Len(p) + Len(h)
        /\ \A i \in 1..(Len(p) + Len(h)) : (p \o h)[i] = IF i <= Len(p) THEN p[i] ELSE h[i - Len(p)]
    BY <1>3, <1>5, ConcatProperties
  <2> QED
    BY <2>1, <2>2
<1>7. ASSUME NEW i \in 1..Len(b) PROVE (p \o h)[i] = b[i]
  <2>1. CASE i <= Len(p)
    BY <1>4, <1>5, <1>6, <2>1
  <2>2. CASE ~(i <= Len(p))
    <3>1. /\ Len(b) - i \in 0..(Len(s) - 1) /\ Len(b) - i < Len(b)
          /\ i - Len(p) \in 1..Len(h)
          /\ Len(s) - (Len(b) - i) = Len(s) - Len(h) + (i - Len(p))
          /\ Len(b) - (Len(b) - i) = i
      BY <1>2, <1>4, <1>5, <2>2
    <3>2. s[Len(s) - (Len(b) - i)] = b[Len(b) - (Len(b) - i)]
      BY <1>1, <3>1 DEF Suffixed
    <3>3. h[i - Len(p)] = s[Len(s) - Len(h) + (i - Len(p))]
      BY <1>3, <3>1
    <3>4. s[Len(s) - Len(h) + (i - Len(p))] = b[i]
      BY <3>1, <3>2
    <3> QED
      BY <1>6, <2>2, <3>3, <3>4
  <2> QED
    BY <2>1, <2>2
<1>8. p \o h = b
  BY <1>6, <1>7, SeqEqual
<1>9. p = <<>> \/ h = s
  <2>1. CASE Len(b) >= Len(s)
    BY <1>3, <2>1
  <2>2. CASE ~(Len(b) >= Len(s))
    <3>1. Len(h) = Len(b)
      BY <1>2, <1>3, <2>2
    <3>2. Len(p) = 0
      BY <1>2, <1>5, <3>1
    <3> QED
      BY <1>5, <3>2, EmptySeq
  <2> QED
    BY <2>1, <2>2
<1> QED
  BY <1>5, <1>8, <1>9 DEF h

LEMMA HandedCounts ==
  ASSUME NEW X, NEW s \in Seq(X), NEW a \in Seq(X), NEW b \in Seq(X), Suffixed(s, a \o b)
  PROVE  /\ LastOf(s, Len(b)) \in Seq(X)
         /\ \A l : /\ Count(LastOf(s, Len(b)), l) <= Count(b, l)
                   /\ Count(b, l) > 0 /\ Count(LastOf(s, Len(b)), l) = 0 => l \notin ToSet(s)
<1> DEFINE h == LastOf(s, Len(b))
<1>1. PICK p \in Seq(X) : b = p \o h /\ (p = <<>> \/ h = s)
  BY HandedSplit
<1>2. h \in Seq(X)
  <2>1. Len(b) \in Nat
    BY LenProperties
  <2> QED
    BY <2>1, LastOfIs
<1> HIDE DEF h
<1>3. ASSUME NEW l
      PROVE  Count(h, l) <= Count(b, l) /\ (Count(b, l) > 0 /\ Count(h, l) = 0
                 => l \notin ToSet(s))
  <2>1. Count(p \o h, l) = Count(p, l) + Count(h, l)
    BY <1>1, <1>2, CountCat
  <2>2. Count(p, l) \in Nat /\ Count(h, l) \in Nat /\ (Count(s, l) > 0 <=> l \in ToSet(s))
        /\ Count(s, l) \in Nat
    BY <1>1, <1>2, CountIs
  <2>3. Count(b, l) = Count(p, l) + Count(h, l)
    BY <1>1, <2>1
  <2>4. p = <<>> => Count(p, l) = 0
    BY CountEmpty
  <2> QED
    BY <1>1, <2>2, <2>3, <2>4
<1> QED
  BY <1>2, <1>3 DEF h

LEMMA FrontAndLast ==
  ASSUME NEW X, NEW s \in Seq(X), s # <<>>
  PROVE  /\ Front(s) \in Seq(X) /\ Last(s) \in X /\ Len(Front(s)) = Len(s) - 1
         /\ \A i \in 1..(Len(s) - 1) : Front(s)[i] = s[i]
         /\ Last(s) = s[Len(s)] /\ s = Append(Front(s), Last(s))
<1>1. Len(s) \in Nat \ {0} /\ \A i \in 1..Len(s) : s[i] \in X
  BY EmptySeq, LenProperties, ElementOfSeq
<1>2. /\ Front(s) \in Seq(X) /\ Len(Front(s)) = Len(s) - 1
      /\ \A i \in 1..(Len(s) - 1) : Front(s)[i] = s[i]
  <2>1. \A i \in 1..(Len(s) - 1) : s[i] \in X
    BY <1>1
  <2>2. /\ SubSeq(s, 1, Len(s) - 1) \in Seq(X)
        /\ Len(SubSeq(s, 1, Len(s) - 1))
             = IF 1 <= Len(s) - 1 THEN (Len(s) - 1) - 1 + 1 ELSE 0
        /\ \A i \in 1..((Len(s) - 1) - 1 + 1) : SubSeq(s, 1, Len(s) - 1)[i] = s[1 + i - 1]
    <3>1. Len(s) - 1 \in Int /\ 1 \in Int
      BY <1>1
    <3> QED
      BY <2>1, <3>1, SubSeqProperties
  <2>3. (Len(s) - 1) - 1 + 1 = Len(s) - 1 /\ \A i \in 1..(Len(s) - 1) : 1 + i - 1 = i
    BY <1>1
  <2>4. (IF 1 <= Len(s) - 1 THEN (Len(s) - 1) - 1 + 1 ELSE 0) = Len(s) - 1
    <3>1. \A n \in Nat \ {0} : (IF 1 <= n - 1 THEN (n - 1) - 1 + 1 ELSE 0) = n - 1
      OBVIOUS
    <3>2. Len(s) \in Nat \ {0}
      BY <1>1
    <3> QED
      BY <3>1, <3>2, Zenon
  <2>5. Len(SubSeq(s, 1, Len(s) - 1)) = Len(s) - 1
    BY <2>2, <2>4
  <2> QED
    BY <2>2, <2>3, <2>5 DEF Front
<1>3. Last(s) = s[Len(s)] /\ Last(s) \in X
  BY <1>1 DEF Last
<1>4. s = Append(Front(s), Last(s))
  <2>1. /\ Append(Front(s), Last(s)) \in Seq(X)
        /\ Len(Append(Front(s), Last(s))) = Len(Front(s)) + 1
        /\ \A i \in 1..Len(Front(s)) : Append(Front(s), Last(s))[i] = Front(s)[i]
        /\ Append(Front(s), Last(s))[Len(Front(s)) + 1] = Last(s)
    BY <1>2, <1>3, AppendProperties
  <2>2. ASSUME NEW i \in 1..Len(s) PROVE s[i] = Append(Front(s), Last(s))[i]
    <3>1. (i \in 1..(Len(s) - 1) /\ i \in 1..Len(Front(s))) \/ (i = Len(s) /\ i = Len(Front(s)) + 1)
      BY <1>1, <1>2
    <3> QED
      BY <1>2, <1>3, <2>1, <3>1
  <2>3. Len(Append(Front(s), Last(s))) = Len(s)
    BY <1>1, <1>2, <2>1
  <2> QED
    BY <2>1, <2>2, <2>3, SeqEqual
<1> QED
  BY <1>2, <1>3, <1>4

\* The up key takes the last line off both.
LEMMA HandedFront ==
  ASSUME NEW X, NEW s \in Seq(X), NEW a \in Seq(X), NEW b \in Seq(X), Suffixed(s, a \o b),
         b # <<>>, LastOf(s, Len(b)) # <<>>
  PROVE  /\ Last(LastOf(s, Len(b))) = Last(b)
         /\ Suffixed(Front(LastOf(s, Len(b))), a \o Front(b))
<1> DEFINE h == LastOf(s, Len(b))
           f == Front(h)
           g == Front(b)
           w == a \o g
<1>1. Suffixed(s, b)
  BY SuffixedDrop
<1>2. Len(s) \in Nat /\ Len(b) \in Nat \ {0} /\ Len(a) \in Nat
  BY LenProperties, EmptySeq
<1>3. /\ h \in Seq(X) /\ Len(h) = IF Len(b) < Len(s) THEN Len(b) ELSE Len(s)
      /\ \A i \in 1..Len(h) : h[i] = s[Len(s) - Len(h) + i]
  BY <1>2, LastOfIs
<1> HIDE DEF h
<1>4. h # <<>>
  BY DEF h
<1>5. Len(h) \in Nat \ {0} /\ Len(h) <= Len(b) /\ Len(h) <= Len(s)
  BY <1>2, <1>3, <1>4, EmptySeq
<1>6. /\ f \in Seq(X) /\ Len(f) = Len(h) - 1 /\ (\A i \in 1..(Len(h) - 1) : f[i] = h[i])
      /\ Last(h) = h[Len(h)]
  BY <1>3, <1>4, FrontAndLast
<1>7. /\ g \in Seq(X) /\ Len(g) = Len(b) - 1 /\ (\A i \in 1..(Len(b) - 1) : g[i] = b[i])
      /\ Last(b) = b[Len(b)]
  BY FrontAndLast
<1> HIDE DEF f, g
<1>8. /\ Len(w) = Len(a) + Len(g)
      /\ \A i \in 1..(Len(a) + Len(g)) : w[i] = IF i <= Len(a) THEN a[i] ELSE g[i - Len(a)]
  BY <1>7, ConcatProperties
<1> HIDE DEF w
<1>9. /\ Len(a \o b) = Len(a) + Len(b)
      /\ \A i \in 1..(Len(a) + Len(b)) : (a \o b)[i] = IF i <= Len(a) THEN a[i] ELSE b[i - Len(a)]
  BY ConcatProperties
<1>10. Last(h) = Last(b)
  <2>1. /\ 0 \in 0..(Len(s) - 1) /\ 0 < Len(b) /\ Len(h) \in 1..Len(h)
        /\ Len(s) - Len(h) + Len(h) = Len(s) - 0 /\ Len(b) - 0 = Len(b)
    BY <1>2, <1>5
  <2>2. s[Len(s) - 0] = b[Len(b) - 0]
    BY <1>1, <2>1 DEF Suffixed
  <2>3. h[Len(h)] = s[Len(s) - Len(h) + Len(h)]
    BY <1>3, <2>1
  <2> QED
    BY <1>6, <1>7, <2>1, <2>2, <2>3
<1>11. ASSUME NEW j \in 0..(Len(f) - 1), j < Len(w)
       PROVE  f[Len(f) - j] = w[Len(w) - j]
  <2>1. /\ j + 1 \in 0..(Len(s) - 1) /\ j + 1 < Len(b)
        /\ Len(f) - j \in 1..(Len(h) - 1) /\ Len(f) - j \in 1..Len(h)
        /\ Len(s) - Len(h) + (Len(f) - j) = Len(s) - (j + 1)
    BY <1>2, <1>5, <1>6
  <2>2. /\ Len(a) + Len(g) - j \in 1..(Len(a) + Len(g))
        /\ ~(Len(a) + Len(g) - j <= Len(a))
        /\ (Len(a) + Len(g) - j) - Len(a) = Len(b) - (j + 1)
        /\ Len(b) - (j + 1) \in 1..(Len(b) - 1)
    BY <1>2, <1>5, <1>6, <1>7
  <2>3. s[Len(s) - (j + 1)] = b[Len(b) - (j + 1)]
    BY <1>1, <2>1 DEF Suffixed
  <2>4. f[Len(f) - j] = s[Len(s) - (j + 1)]
    <3>1. f[Len(f) - j] = h[Len(f) - j]
      BY <1>6, <2>1
    <3>2. h[Len(f) - j] = s[Len(s) - Len(h) + (Len(f) - j)]
      BY <1>3, <2>1
    <3> QED
      BY <2>1, <3>1, <3>2
  <2>5. w[Len(a) + Len(g) - j] = b[Len(b) - (j + 1)]
    BY <1>7, <1>8, <2>2
  <2> QED
    BY <1>8, <2>3, <2>4, <2>5
<1>12. Suffixed(f, w)
  BY <1>11 DEF Suffixed
<1> QED
  BY <1>10, <1>12 DEF f, g, h, w

LEMMA NothingIn ==
  ASSUME NEW X, NEW s \in Seq(X)
  PROVE  ToSet(s) = {} <=> s = <<>>
<1>1. ASSUME s # <<>> PROVE Head(s) \in ToSet(s)
  BY <1>1, TailCounts
<1> QED
  BY <1>1, CountEmpty

-----------------------------------------------------------------------------
(* The order of lines.                                                     *)

\* y may not be answered after x: only a line that was sent on is overtaken.
InTurn(M, x, y) == y < x => y \in M
Precede(M, S, T) == \A x \in S, y \in T : InTurn(M, x, y)
Ordered(M, s) == \A j, k \in DOMAIN s : j < k => InTurn(M, s[j], s[k])

LEMMA OrderedCat ==
  ASSUME NEW M, NEW X, NEW s \in Seq(X), NEW t \in Seq(X)
  PROVE  Ordered(M, s \o t) <=> Ordered(M, s) /\ Ordered(M, t) /\ Precede(M, ToSet(s), ToSet(t))
<1>1. /\ Len(s) \in Nat /\ DOMAIN s = 1..Len(s)
      /\ Len(t) \in Nat /\ DOMAIN t = 1..Len(t)
      /\ DOMAIN (s \o t) = 1..(Len(s) + Len(t))
      /\ \A k \in 1..(Len(s) + Len(t)) :
           (s \o t)[k] = IF k <= Len(s) THEN s[k] ELSE t[k - Len(s)]
  BY LenProperties, ConcatProperties
<1> DEFINE u == s \o t
<1> HIDE DEF u
<1>2. /\ DOMAIN u = 1..(Len(s) + Len(t))
      /\ \A k \in 1..Len(s) : k \in DOMAIN u /\ u[k] = s[k]
      /\ \A k \in 1..Len(t) : k + Len(s) \in DOMAIN u /\ u[k + Len(s)] = t[k]
  <2>1. \A k \in 1..Len(s) : k \in 1..(Len(s) + Len(t)) /\ k <= Len(s)
    BY <1>1
  <2>2. \A k \in 1..Len(t) : /\ k + Len(s) \in 1..(Len(s) + Len(t)) /\ ~(k + Len(s) <= Len(s))
                             /\ (k + Len(s)) - Len(s) = k
    BY <1>1
  <2>3. \A k \in 1..Len(t) : u[k + Len(s)] = t[(k + Len(s)) - Len(s)]
    BY <1>1, <2>2 DEF u
  <2> QED
    BY <1>1, <2>1, <2>2, <2>3 DEF u
<1>3. ASSUME Ordered(M, u)
                 PROVE Ordered(M, s) /\ Ordered(M, t) /\ Precede(M, ToSet(s), ToSet(t))
  <2>0. \A j, k \in DOMAIN u : j < k => InTurn(M, u[j], u[k])
    BY <1>3 DEF Ordered
  <2>1. ASSUME NEW j \in 1..Len(s), NEW k \in 1..Len(s), j < k PROVE InTurn(M, s[j], s[k])
    BY <1>2, <2>0, <2>1
  <2>2. ASSUME NEW j \in 1..Len(t), NEW k \in 1..Len(t), j < k PROVE InTurn(M, t[j], t[k])
    <3>1. j + Len(s) < k + Len(s)
      BY <1>1, <2>2
    <3>2. InTurn(M, u[j + Len(s)], u[k + Len(s)])
      BY <1>2, <2>0, <3>1
    <3>3. u[j + Len(s)] = t[j] /\ u[k + Len(s)] = t[k]
      BY <1>2
    <3> QED
      BY <3>2, <3>3
  <2>3. ASSUME NEW x \in ToSet(s), NEW y \in ToSet(t) PROVE InTurn(M, x, y)
    <3>1. PICK j \in 1..Len(s), k \in 1..Len(t) : s[j] = x /\ t[k] = y
      BY <1>1 DEF ToSet
    <3>2. j < k + Len(s)
      BY <1>1
    <3>3. InTurn(M, u[j], u[k + Len(s)])
      BY <1>2, <2>0, <3>2
    <3>4. u[j] = x /\ u[k + Len(s)] = y
      BY <1>2, <3>1
    <3> QED
      BY <3>3, <3>4
  <2> QED
    BY <1>1, <2>1, <2>2, <2>3 DEF Ordered, Precede
<1>4. ASSUME Ordered(M, s), Ordered(M, t), Precede(M, ToSet(s), ToSet(t)) PROVE Ordered(M, u)
  <2>1. ASSUME NEW j \in DOMAIN u, NEW k \in DOMAIN u, j < k PROVE InTurn(M, u[j], u[k])
    <3>1. CASE k <= Len(s)
      <4>1. j \in 1..Len(s) /\ k \in 1..Len(s)
        BY <1>1, <1>2, <2>1, <3>1
      <4>2. InTurn(M, s[j], s[k])
        BY <1>1, <1>4, <2>1, <4>1 DEF Ordered
      <4>3. u[j] = s[j] /\ u[k] = s[k]
        BY <1>2, <4>1
      <4> QED
        BY <4>2, <4>3
    <3>2. CASE j <= Len(s) /\ ~(k <= Len(s))
      <4>1. j \in 1..Len(s) /\ k - Len(s) \in 1..Len(t) /\ (k - Len(s)) + Len(s) = k
        BY <1>1, <1>2, <3>2
      <4>2. u[j] = s[j] /\ u[(k - Len(s)) + Len(s)] = t[k - Len(s)]
        BY <1>2, <4>1
      <4>3. s[j] \in ToSet(s) /\ t[k - Len(s)] \in ToSet(t)
        BY <1>1, <4>1 DEF ToSet
      <4>4. InTurn(M, s[j], t[k - Len(s)])
        BY <1>4, <4>3 DEF Precede
      <4> QED
        BY <4>1, <4>2, <4>4
    <3>3. CASE ~(j <= Len(s))
      <4>1. /\ j - Len(s) \in 1..Len(t) /\ (j - Len(s)) + Len(s) = j
            /\ k - Len(s) \in 1..Len(t) /\ (k - Len(s)) + Len(s) = k
            /\ j - Len(s) < k - Len(s)
        BY <1>1, <1>2, <2>1, <3>3
      <4>2. InTurn(M, t[j - Len(s)], t[k - Len(s)])
        BY <1>1, <1>4, <4>1 DEF Ordered
      <4>3. u[(j - Len(s)) + Len(s)] = t[j - Len(s)] /\ u[(k - Len(s)) + Len(s)] = t[k - Len(s)]
        BY <1>2, <4>1
      <4> QED
        BY <4>1, <4>2, <4>3
    <3> QED
      BY <3>1, <3>2, <3>3
  <2> QED
    BY <2>1 DEF Ordered
<1> QED
  BY <1>3, <1>4 DEF u

LEMMA OrderedSmall ==
  ASSUME NEW M, NEW x
  PROVE  Ordered(M, <<>>) /\ Ordered(M, <<x>>)
<1>1. DOMAIN <<>> = {} /\ DOMAIN <<x>> = {1} /\ ~(1 < 1)
  OBVIOUS
<1> QED
  BY <1>1 DEF Ordered

LEMMA OrderedAppend ==
  ASSUME NEW M, NEW X, NEW s \in Seq(X), NEW e \in X
  PROVE  Ordered(M, Append(s, e)) <=> Ordered(M, s) /\ Precede(M, ToSet(s), {e})
<1>1. Append(s, e) = s \o <<e>> /\ <<e>> \in Seq(X)
  BY AppendIsConcat
<1>2. Ordered(M, s \o <<e>>)
          <=> Ordered(M, s) /\ Ordered(M, <<e>>) /\ Precede(M, ToSet(s), ToSet(<<e>>))
  BY <1>1, OrderedCat
<1> QED
  BY <1>1, <1>2, OrderedSmall, CountOne

\* What is answered in turn by its lines is by its inputs.
LEMMA OrderedInputs ==
  ASSUME NEW M, NEW R, NEW X, Lined(R, X), NEW c \in Seq(R), Ordered(M, LinesOf(c)),
         NEW j \in 1..Len(c), NEW k \in 1..Len(c), j < k
  PROVE  Precede(M, ToSet(c[j].lines), ToSet(c[k].lines))
<1> DEFINE a == SubSeq(c, 1, j)
           b == SubSeq(c, j + 1, Len(c))
<1>1. Len(c) \in Nat /\ \A i \in 1..Len(c) : c[i] \in R
  BY LenProperties, ElementOfSeq
<1>2. c = a \o b
  <2>1. 1 \in 1..(Len(c) + 1) /\ j \in (1 - 1)..Len(c) /\ Len(c) \in j..Len(c)
    BY <1>1
  <2>2. SubSeq(c, 1, j) \o SubSeq(c, j + 1, Len(c)) = SubSeq(c, 1, Len(c))
    BY <2>1, ConcatAdjacentSubSeq
  <2> QED
    BY <2>2, SubSeqFull
<1>3. /\ a \in Seq(R) /\ b \in Seq(R)
      /\ Len(a) = j /\ (\A i \in 1..j : a[i] = c[i])
      /\ Len(b) = Len(c) - j /\ (\A i \in 1..(Len(c) - j) : b[i] = c[j + i])
  <2>1. /\ j - 1 + 1 = j /\ (IF 1 <= j THEN j - 1 + 1 ELSE 0) = j /\ \A i \in 1..j : 1 + i - 1 = i
        /\ Len(c) - (j + 1) + 1 = Len(c) - j
        /\ (IF j + 1 <= Len(c) THEN Len(c) - (j + 1) + 1 ELSE 0) = Len(c) - j
        /\ \A i \in 1..(Len(c) - j) : (j + 1) + i - 1 = j + i
    BY <1>1
  <2>2. \A i \in 1..j : c[i] \in R
    BY <1>1
  <2>3. \A i \in (j + 1)..Len(c) : c[i] \in R
    BY <1>1
  <2>4. 1 \in Int /\ j \in Int /\ j + 1 \in Int /\ Len(c) \in Int
    BY <1>1
  <2>5. /\ a \in Seq(R) /\ Len(a) = IF 1 <= j THEN j - 1 + 1 ELSE 0
        /\ \A i \in 1..(j - 1 + 1) : a[i] = c[1 + i - 1]
    BY <2>2, <2>4, SubSeqProperties
  <2>6. /\ b \in Seq(R) /\ Len(b) = IF j + 1 <= Len(c) THEN Len(c) - (j + 1) + 1 ELSE 0
        /\ \A i \in 1..(Len(c) - (j + 1) + 1) : b[i] = c[(j + 1) + i - 1]
    BY <2>3, <2>4, SubSeqProperties
  <2> HIDE DEF a, b
  <2> QED
    BY <2>1, <2>5, <2>6
<1> HIDE DEF a, b
<1>4. LinesOf(a) \in Seq(X) /\ LinesOf(b) \in Seq(X) /\ LinesOf(a \o b) = LinesOf(a) \o LinesOf(b)
  BY <1>3, LinesCat
<1>5. Ordered(M, LinesOf(a) \o LinesOf(b))
  BY <1>2, <1>4
<1>6. Precede(M, ToSet(LinesOf(a)), ToSet(LinesOf(b)))
  BY <1>4, <1>5, OrderedCat
<1>7. ToSet(c[j].lines) \subseteq ToSet(LinesOf(a))
  <2>1. j \in 1..Len(a) /\ a[j] = c[j]
    BY <1>1, <1>3
  <2> QED
    BY <1>3, <2>1, LinesWithin
<1>8. ToSet(c[k].lines) \subseteq ToSet(LinesOf(b))
  <2>1. k - j \in 1..Len(b) /\ k - j \in 1..(Len(c) - j) /\ j + (k - j) = k
    BY <1>1, <1>3
  <2>2. b[k - j] = c[k]
    BY <1>3, <2>1
  <2> QED
    BY <1>3, <2>1, <2>2, LinesWithin
<1> QED
  BY <1>6, <1>7, <1>8 DEF Precede

-----------------------------------------------------------------------------
(* The inductive invariant.                                                *)

HeldBy(r, l) == Count(r.ingress, l) + Count(r.taken, l) + Count(r.unadmitted, l)
Total(q, w, d, c, g, r, o, l) ==
  Count(q, l) + Count(w, l) + Count(d, l) + CountIn(c, l) + Count(g, l) + HeldBy(r, l)
    + CountIn(o, l)

\* How often a line is in a queue, in the run, in a log or among what left.
Everywhere == [l \in Lines |->
  Total(queuedLines, switchLines, seed, chain, seg.lines, run, log, l)
    + (IF gone[l] = "" THEN 0 ELSE 1)]

\* What the run holds in each of its states.
RunShape ==
  /\ (run.st = "none") <=> (seg.at # "turn")
  /\ run.st = "none" => run = NoRun
  /\ run.st = "begun" => run.taken = <<>>
  /\ run.st \in {"begun", "live"} => run.unadmitted = <<>> /\ slot = "turn"
  /\ run.st = "sealed" => run.taken = <<>> /\ run.ingress = <<>>
  /\ run.st \in {"live", "sealed"} => seg.lines = <<>>
  /\ slot # "turn" => run.unadmitted = <<>>
  /\ seg.at = "idle" => seg = Idle

\* Where the entry is, and what may wait there.
EntryShape ==
  /\ leaving => phase \in {"ready", "opening"}
  /\ phase = "opening" => leaving /\ chain = <<>> /\ seg = Idle /\ queuedLines = <<>>
  /\ phase \in {"ready", "opening"} /\ seg.at # "turn" => cur = "none"
  /\ slot = "recovery" => phase \in {"recovering", "over"}
  /\ queuedLines # <<>> => phase # "ready" \/ leaving
  /\ seed # <<>> => phase = "opening"
  /\ leaving => entries < MaxEntries
  /\ entries \in 1..MaxEntries

Switch == [kind |-> "switch", lines |-> <<>>]

\* The segments that end an entry stand in the chain of one that leaves, a
\* switch that waits in one that does not.
ChainShape ==
  /\ \A x \in ToSet(chain) :
       /\ x.kind # "turn" => x.lines = <<>> /\ phase = "ready"
       /\ x.kind \in {"await", "awaitAgain"} => leaving
       /\ x.kind = "switch" => ~leaving
  /\ Count(chain, Switch) <= 1

\* The lines the run has not admitted, in their order.
WaitingIn(r) == Humans(r.taken) \o Humans(r.ingress) \o r.unadmitted

\* The mirror agrees with them from the end, and has them all.
Mirrored ==
  /\ Suffixed(steering, WaitingIn(run))
  /\ InHand(run) \ ToSet(steering) \subseteq Marked("unmirrored")

\* A line nobody has typed is nowhere.
Fresh ==
  \A l \in Lines : l > typed => Everywhere[l] = 0 /\ \A m \in marks : m[2] # l

Placed ==
  \A l \in Lines :
    /\ Everywhere[l] > 1 => l \in Marked("echoed")
    /\ l <= typed /\ Everywhere[l] = 0 => l \in Marked("unmirrored")

Now == ToSet(LinesOf(chain)) \cup ToSet(seg.lines) \cup InHand(run)

\* Each place holds lines for the session its segments or its next entry
\* will run in.
AimedAll ==
  \A l \in Lines \ Marked("echoed") :
    /\ l \in ToSet(queuedLines) => aim[l] = IF leaving THEN target ELSE session
    /\ l \in ToSet(switchLines) => leaving /\ aim[l] = target
    /\ l \in ToSet(seed) => leaving /\ aim[l] = target
    /\ l \in Now => aim[l] = session
    /\ \A k \in DOMAIN log : l \in ToSet(log[k].lines) => log[k].session = aim[l]

PipeOrder ==
  ~steerable =>
    /\ steering = <<>> /\ InHand(run) = {}
    /\ ToSet(switchLines) \subseteq Marked("sentOn")
    /\ LET M == Marked("sentOn")
           q == ToSet(queuedLines) \cup ToSet(seed)
           c == ToSet(LinesOf(chain))
           g == ToSet(seg.lines)
           o == ToSet(LinesOf(log))
       IN /\ Ordered(M, LinesOf(log)) /\ Ordered(M, seg.lines) /\ Ordered(M, LinesOf(chain))
          /\ Ordered(M, queuedLines) /\ Ordered(M, seed)
          /\ Precede(M, o, g) /\ Precede(M, o, c) /\ Precede(M, o, q) /\ Precede(M, g, c)
          /\ Precede(M, g, q) /\ Precede(M, c, q)

-----------------------------------------------------------------------------
(* Types.                                                                  *)

Inputs == [session : Nat, lines : Seq(Lines)]
Runs == [st : {"none", "begun", "live", "sealed"}, ingress : Seq(Lines \cup {None}),
         taken : Seq(Lines \cup {None}), unadmitted : Seq(Lines)]

\* What a line and a run are made of is what the queues hold.
LEMMA HumansIs ==
  ASSUME NEW s \in Seq(Lines \cup {None})
  PROVE  /\ Humans(s) \in Seq(Lines) /\ Notices(s) \in Seq(Lines \cup {None})
         /\ ToSet(Humans(s)) = ToSet(s) \cap Lines
         /\ \A l \in Lines : Count(Humans(s), l) = Count(s, l) /\ Count(Notices(s), l) = 0
         /\ Humans(Notices(s)) = <<>>
<1>1. (Lines \cup {None}) \cap Lines = Lines /\ \A l \in Lines : l \notin {None}
  BY DEF Lines, None
<1>2. /\ Humans(s) \in Seq(Lines) /\ ToSet(Humans(s)) = ToSet(s) \cap Lines
  <2>1. Humans(s) \in Seq((Lines \cup {None}) \cap Lines)
    BY KeepSet DEF Humans
  <2> QED
    BY <1>1, <2>1, KeepSet DEF Humans
<1>3. Notices(s) \in Seq(Lines \cup {None})
  BY KeepSet DEF Notices
<1>4. \A l \in Lines : Count(Humans(s), l) = Count(s, l) /\ Count(Notices(s), l) = 0
  BY <1>1, KeepSeq DEF Humans, Notices
<1>5. Humans(Notices(s)) = <<>>
  <2>1. Notices(s) \in Seq((Lines \cup {None}) \cap {None})
    BY KeepSet DEF Notices
  <2>2. (Lines \cup {None}) \cap {None} = (Lines \cup {None}) \ Lines
    BY <1>1
  <2>3. Notices(s) \in Seq((Lines \cup {None}) \ Lines)
    BY <2>1, <2>2
  <2> QED
    BY <1>3, <2>3, KeepSeq DEF Humans
<1> QED
  BY <1>2, <1>3, <1>4, <1>5

LEMMA HumansMore ==
  ASSUME NEW s \in Seq(Lines \cup {None})
  PROVE  /\ \A l \in Lines : Humans(Append(s, l)) = Append(Humans(s), l)
         /\ Humans(Append(s, None)) = Humans(s)
         /\ Humans(<<>>) = <<>>
         /\ \A t \in Seq(Lines) : Humans(t) = t /\ Humans(Notices(s) \o t) = t
                                  /\ Notices(s) \o t \in Seq(Lines \cup {None})
<1>1. None \in Lines \cup {None} /\ None \notin Lines
  BY DEF Lines, None
<1>2. /\ \A l \in Lines : Humans(Append(s, l)) = Append(Humans(s), l)
      /\ Humans(Append(s, None)) = Humans(s)
      /\ Humans(<<>>) = <<>>
  <2>1. \A e \in Lines \cup {None} :
          Keep(Append(s, e), Lines) = IF e \in Lines THEN Append(Keep(s, Lines), e) ELSE Keep(s, Lines)
    BY KeepIs
  <2> QED
    BY <1>1, <2>1, KeepEmpty DEF Humans
<1>3. ASSUME NEW t \in Seq(Lines)
      PROVE  Humans(t) = t /\ Humans(Notices(s) \o t) = t /\ Notices(s) \o t \in Seq(Lines \cup {None})
  <2>1. t \in Seq(Lines \cup {None})
    <3>1. \A i \in 1..Len(t) : t[i] \in Lines \cup {None}
      BY ElementOfSeq
    <3>2. Len(t) \in Nat
      BY LenProperties
    <3>3. SubSeq(t, 1, Len(t)) \in Seq(Lines \cup {None})
      BY <3>1, <3>2, SubSeqProperties
    <3> QED
      BY <3>3, SubSeqFull
  <2>2. Humans(t) = t
    BY KeepSeq DEF Humans
  <2>3. Notices(s) \in Seq(Lines \cup {None}) /\ Humans(Notices(s)) = <<>>
    BY HumansIs
  <2>4. Humans(Notices(s) \o t) = Humans(Notices(s)) \o Humans(t)
    BY <2>1, <2>3, KeepCat DEF Humans
  <2>5. <<>> \o t = t
    BY ConcatEmptySeq
  <2> QED
    BY <2>1, <2>2, <2>3, <2>4, <2>5, ConcatProperties
<1> QED
  BY <1>2, <1>3

\* What the variables range over.
LineQueues == Seq(Lines)
Chains == Seq(Segments(Kinds))
Running == [at : {"idle", "asked", "turn"}, lines : Seq(Lines)]
Logs == Seq(Inputs)
Ways == {"editor", "told", "dropped", "astray"}
Leavings == [Lines -> {""} \cup Ways]
Aims == [Lines -> Nat]
Words == {"unmirrored", "echoed", "sentOn", "behind"}
Entries == 1..(MaxEntries + MaxFaults)
Typings == 0..MaxLines
Budgets == {b \in (0..MaxNotices) \X (0..MaxFaults) : TRUE}

Typed ==
  /\ session \in Nat /\ target \in Nat /\ entries \in Entries
  /\ phase \in {"starting", "recovering", "ready", "opening", "over"}
  /\ queuedLines \in LineQueues /\ switchLines \in LineQueues /\ seed \in LineQueues
  /\ steering \in LineQueues /\ chain \in Chains /\ seg \in Running
  /\ cur \in {"none", "recovery", "turn"} /\ slot \in {"none", "recovery", "turn"}
  /\ run \in Runs
  /\ steerable \in BOOLEAN /\ leaving \in BOOLEAN /\ aborted \in BOOLEAN
  /\ uncertain \in BOOLEAN
  /\ log \in Logs /\ gone \in Leavings
  /\ typed \in Typings /\ aim \in Aims
  /\ marks \subseteq Words \X Lines
  /\ <<notices, faults>> \in Budgets

LEMMA TypedIs == TypeOK <=> Typed
<1>1. /\ Entries = 1..(MaxEntries + MaxFaults)
      /\ LineQueues = Seq(Lines) /\ Chains = Seq(Segments(Kinds))
      /\ Running = [at : {"idle", "asked", "turn"}, lines : Seq(Lines)]
      /\ Runs = [st : {"none", "begun", "live", "sealed"}, ingress : Seq(Lines \union {None}),
                 taken : Seq(Lines \union {None}), unadmitted : Seq(Lines)]
      /\ Logs = Seq([session : Nat, lines : Seq(Lines)])
      /\ Aims = [Lines -> Nat] /\ Typings = 0..MaxLines
      /\ Words = {"unmirrored", "echoed", "sentOn", "behind"}
  BY DEF Entries, LineQueues, Chains, Running, Runs, Logs, Inputs, Aims, Typings, Words
<1>2. Leavings = [Lines -> {"", "editor", "told", "dropped", "astray"}]
  <2>1. {""} \cup Ways = {"", "editor", "told", "dropped", "astray"}
    BY DEF Ways
  <2> QED
    BY <2>1 DEF Leavings
<1>3. <<notices, faults>> \in Budgets <=> notices \in 0..MaxNotices /\ faults \in 0..MaxFaults
  BY DEF Budgets
<1>4. (\A q \in {queuedLines, switchLines, seed, steering} : q \in LineQueues)
        <=> /\ queuedLines \in LineQueues /\ switchLines \in LineQueues /\ seed \in LineQueues
            /\ steering \in LineQueues
  OBVIOUS
<1> QED
  BY <1>1, <1>2, <1>3, <1>4 DEF TypeOK, Typed

LEMMA RunIs ==
  ASSUME run \in Runs
  PROVE  /\ run.st \in {"none", "begun", "live", "sealed"}
         /\ run.ingress \in Seq(Lines \cup {None}) /\ run.taken \in Seq(Lines \cup {None})
         /\ run.unadmitted \in Seq(Lines)
         /\ Humans(run.ingress) \in Seq(Lines) /\ Humans(run.taken) \in Seq(Lines)
         /\ InHand(run) \subseteq Lines
         /\ NoRun \in Runs
<1>1. /\ run.st \in {"none", "begun", "live", "sealed"}
      /\ run.ingress \in Seq(Lines \cup {None}) /\ run.taken \in Seq(Lines \cup {None})
      /\ run.unadmitted \in Seq(Lines)
  BY DEF Runs
<1>2. NoRun \in Runs
  BY DEF NoRun, Runs
<1>3. /\ Humans(run.ingress) \in Seq(Lines) /\ ToSet(Humans(run.ingress)) \subseteq Lines
      /\ Humans(run.taken) \in Seq(Lines) /\ ToSet(Humans(run.taken)) \subseteq Lines
  BY <1>1, HumansIs
<1>4. ToSet(run.unadmitted) \subseteq Lines
  <2>1. \A k \in DOMAIN run.unadmitted : run.unadmitted[k] \in Lines
    BY <1>1, ElementOfSeq, LenProperties
  <2> QED
    BY <2>1 DEF ToSet
<1> QED
  BY <1>1, <1>2, <1>3, <1>4 DEF InHand

-----------------------------------------------------------------------------
(* What the handlers make of a state, and that they keep the types.        *)

LEMMA SetIs ==
  ASSUME NEW X, NEW s \in Seq(X)
  PROVE  ToSet(s) \subseteq X
<1>1. \A k \in DOMAIN s : s[k] \in X
  BY ElementOfSeq, LenProperties
<1> QED
  BY <1>1 DEF ToSet

LEMMA MarkIs ==
  ASSUME NEW S, S \subseteq Lines \cup {None}, NEW w \in {"unmirrored", "echoed", "sentOn", "behind"}
  PROVE  Mark(w, S) \subseteq {"unmirrored", "echoed", "sentOn", "behind"} \X Lines
BY DEF Mark

LEMMA QueueIs ==
  ASSUME NEW c \in Seq(Segments(Kinds)), NEW s \in Seq(Lines)
  PROVE  /\ Queue(c, s) \in Seq(Segments(Kinds)) /\ Await(c) \in Seq(Segments(Kinds))
         /\ Append(c, Switch) \in Seq(Segments(Kinds))
         /\ Append(c, [kind |-> "awaitAgain", lines |-> <<>>]) \in Seq(Segments(Kinds))
         /\ Others(c) \in Seq(Segments(Kinds)) /\ Turns(c) \in Seq(Segments(Kinds))
         /\ LinesOf(c) \in Seq(Lines)
<1>1. /\ [kind |-> "turn", lines |-> s] \in Segments(Kinds)
      /\ [kind |-> "await", lines |-> <<>>] \in Segments(Kinds)
      /\ [kind |-> "awaitAgain", lines |-> <<>>] \in Segments(Kinds)
      /\ Switch \in Segments(Kinds)
  BY DEF Segments, Kinds, Switch
<1>2. /\ Queue(c, s) \in Seq(Segments(Kinds)) /\ Await(c) \in Seq(Segments(Kinds))
      /\ Append(c, Switch) \in Seq(Segments(Kinds))
      /\ Append(c, [kind |-> "awaitAgain", lines |-> <<>>]) \in Seq(Segments(Kinds))
  BY <1>1, AppendProperties DEF Queue, Await
<1>3. Others(c) \in Seq(Segments(Kinds)) /\ Turns(c) \in Seq(Segments(Kinds))
  BY KeepSet DEF Others, Turns
<1>4. LinesOf(c) \in Seq(Lines)
  BY SegmentsLined, LinesCat
<1> QED
  BY <1>2, <1>3, <1>4

LEMMA HandedIs ==
  ASSUME steering \in Seq(Lines), run \in Runs
  PROVE  /\ Handed(Len(Humans(run.ingress))) \in Seq(Lines)
         /\ Handed(Len(run.unadmitted)) \in Seq(Lines)
<1>1. Len(Humans(run.ingress)) \in Nat /\ Len(run.unadmitted) \in Nat
  BY RunIs, LenProperties
<1> QED
  BY <1>1, LastOfIs DEF Handed

USE DEF placeVars, entryVars, runVars, ghostVars, budgetVars

LEMMA TypedSteps ==
  ASSUME Typed, RunShape, EntryShape
  PROVE  /\ \A l \in Lines : Typing(l) => typed' \in Typings
         /\ \A l \in Lines : (Aimed(l) \/ AimedAt(l, session)) => aim' \in Aims
         /\ \A how \in Ways : \A S : Leave(S, how) => gone' \in Leavings
         /\ \A s \in LineQueues : Queue(chain, s) \in Chains
         /\ \A s \in LineQueues, l \in Lines : Append(s, l) \in LineQueues
         /\ \A s, t \in LineQueues : s \o t \in LineQueues
         /\ \A l \in Lines : <<l>> \in LineQueues /\ Echoes(l) \in LineQueues
         /\ <<>> \in LineQueues /\ <<>> \in Chains /\ Idle \in Running
         /\ Await(chain) \in Chains /\ Append(chain, Switch) \in Chains
         /\ (chain # <<>> => Head(chain) \in Segments(Kinds) /\ Tail(chain) \in Chains
                             /\ Head(chain).lines \in LineQueues /\ Await(Tail(chain)) \in Chains
                             /\ Append(Tail(chain), [kind |-> "awaitAgain", lines |-> <<>>]) \in Chains)
         /\ Goals \subseteq Nat /\ (Goals # {} \/ leaving => entries + 1 \in Entries)
         /\ seg.lines \in LineQueues
         /\ \A a \in {"idle", "asked", "turn"}, s \in LineQueues : [at |-> a, lines |-> s] \in Running
         /\ [seg EXCEPT !.lines = <<>>] \in Running
         /\ \A s \in LineQueues : Said(s) \in Logs
<1> USE TurnChainAssumption DEF Typed
<1>1. \A l \in Lines : Typing(l) => typed' \in Typings
  BY DEF Typings, Typing, Lines
<1>2. \A l \in Lines : (Aimed(l) \/ AimedAt(l, session)) => aim' \in Aims
  BY DEF Aims, Aimed, AimedAt
<1>3. \A how \in Ways : \A S : Leave(S, how) => gone' \in Leavings
  <2>1. SUFFICES ASSUME NEW S, NEW how \in Ways, Leave(S, how) PROVE gone' \in Leavings
    OBVIOUS
  <2>2. \A l \in Lines : gone[l] \in {""} \cup Ways
    BY DEF Leavings
  <2> QED
    BY <2>1, <2>2 DEF Leave, Leavings
<1>4. \A s \in LineQueues : Queue(chain, s) \in Chains
  BY QueueIs DEF LineQueues, Chains
<1>5. \A s \in LineQueues, l \in Lines : Append(s, l) \in LineQueues
  BY AppendProperties DEF LineQueues
<1>6. \A s, t \in LineQueues : s \o t \in LineQueues
  BY ConcatProperties DEF LineQueues
<1>7. entries \in Nat \ {0}
  BY DEF Entries
<1>8. Departed \in Nat
  BY <1>7 DEF Departed
<1>9. \A l \in Lines : <<l>> \in LineQueues /\ Echoes(l) \in LineQueues
  BY <1>8, EchoesIs DEF LineQueues
<1>10. <<>> \in LineQueues /\ <<>> \in Chains /\ Idle \in Running
  BY DEF LineQueues, Chains, Idle, Running
<1>11. Await(chain) \in Chains /\ Append(chain, Switch) \in Chains
  BY <1>10, QueueIs DEF Chains, LineQueues
<1>12. ASSUME chain # <<>>
       PROVE  /\ Head(chain) \in Segments(Kinds) /\ Tail(chain) \in Chains
              /\ Head(chain).lines \in LineQueues /\ Await(Tail(chain)) \in Chains
              /\ Append(Tail(chain), [kind |-> "awaitAgain", lines |-> <<>>]) \in Chains
  <2>1. Head(chain) \in Segments(Kinds) /\ Tail(chain) \in Seq(Segments(Kinds))
    BY <1>12, HeadTailProperties DEF Chains
  <2>2. Head(chain).lines \in LineQueues
    BY <2>1 DEF Segments, LineQueues
  <2> QED
    BY <1>10, <2>1, <2>2, QueueIs DEF Chains, LineQueues
<1>13. Goals \subseteq Nat /\ (Goals # {} \/ leaving => entries + 1 \in Entries)
  <2>1. Goals \subseteq Nat
    <3>1. session + 1 \in Nat
      OBVIOUS
    <3> QED
      BY <3>1 DEF Goals
  <2>2. Goals # {} \/ leaving => entries < MaxEntries
    BY DEF Goals, EntryShape
  <2> QED
    BY <1>7, <2>1, <2>2 DEF Entries
<1>14. seg.lines \in LineQueues /\ [seg EXCEPT !.lines = <<>>] \in Running
  <2> HIDE DEF Typed
  <2>1. seg \in Running
    BY DEF Typed
  <2>2. Running = [at : {"idle", "asked", "turn"}, lines : LineQueues]
    BY DEF Running, LineQueues
  <2> QED
    BY <1>10, <2>1, <2>2
<1>15. \A a \in {"idle", "asked", "turn"}, s \in LineQueues : [at |-> a, lines |-> s] \in Running
  BY DEF Running, LineQueues
<1>16. \A s \in LineQueues : Said(s) \in Logs
  <2>1. \A s \in LineQueues : [session |-> session, lines |-> s] \in Inputs
    BY DEF Inputs, LineQueues
  <2> QED
    BY <2>1, AppendProperties DEF Said, Logs
<1> QED
  BY <1>1, <1>2, <1>3, <1>4, <1>5, <1>6, <1>9, <1>10, <1>11, <1>12, <1>13, <1>14, <1>15,
     <1>16

\* What the handlers make of the run.
LEMMA TypedRun ==
  ASSUME Typed
  PROVE  /\ \A l \in Lines \cup {None} : [run EXCEPT !.ingress = Append(@, l)] \in Runs
         /\ [run EXCEPT !.ingress = Notices(@)] \in Runs
         /\ (Humans(run.ingress) # <<>> =>
               [run EXCEPT !.ingress = Notices(@) \o Front(Humans(run.ingress))] \in Runs)
         /\ [NoRun EXCEPT !.st = "begun"] \in Runs /\ [NoRun EXCEPT !.st = "sealed"] \in Runs
         /\ NoRun \in Runs /\ [run EXCEPT !.st = "live"] \in Runs /\ Sealed \in Runs
         /\ [run EXCEPT !.taken = run.ingress, !.ingress = <<>>] \in Runs
         /\ \A n \in 1..Len(run.taken) :
              /\ [run EXCEPT !.taken = SubSeq(@, n + 1, Len(@))] \in Runs
              /\ SubSeq(run.taken, 1, n) \in Seq(Lines \cup {None})
              /\ SubSeq(run.taken, n + 1, Len(run.taken)) \in Seq(Lines \cup {None})
         /\ InHand(run) \subseteq Lines /\ ToSet(run.taken) \subseteq Lines \cup {None}
         /\ Handed(Len(Humans(run.ingress))) \in LineQueues
         /\ Handed(Len(run.unadmitted)) \in LineQueues
         /\ Humans(run.ingress) \in LineQueues /\ Humans(run.taken) \in LineQueues
         /\ run.unadmitted \in LineQueues
<1> DEFINE Z == Seq(Lines \cup {None})
<1>1. /\ run.st \in {"none", "begun", "live", "sealed"}
      /\ run.ingress \in Z /\ run.taken \in Z /\ run.unadmitted \in LineQueues
      /\ Humans(run.ingress) \in LineQueues /\ Humans(run.taken) \in LineQueues
      /\ InHand(run) \subseteq Lines /\ NoRun \in Runs
  BY RunIs DEF Typed, LineQueues
<1>2. \A l \in Lines \cup {None} : Append(run.ingress, l) \in Z
  BY <1>1, AppendProperties
<1>3. Notices(run.ingress) \in Z
  BY <1>1, HumansIs
<1>4. Humans(run.ingress) # <<>> => Notices(run.ingress) \o Front(Humans(run.ingress)) \in Z
  <2>1. Humans(run.ingress) # <<>> => Front(Humans(run.ingress)) \in Seq(Lines)
    BY <1>1, FrontAndLast DEF LineQueues
  <2> QED
    BY <1>1, <2>1, HumansMore
<1>5. ASSUME NEW n \in 1..Len(run.taken)
      PROVE SubSeq(run.taken, 1, n) \in Z /\ SubSeq(run.taken, n + 1, Len(run.taken)) \in Z
  <2>1. Len(run.taken) \in Nat /\ \A k \in 1..Len(run.taken) : run.taken[k] \in Lines \cup {None}
    BY <1>1, LenProperties, ElementOfSeq
  <2>2. /\ \A k \in 1..n : run.taken[k] \in Lines \cup {None}
        /\ \A k \in (n + 1)..Len(run.taken) : run.taken[k] \in Lines \cup {None}
        /\ n \in Int /\ n + 1 \in Int /\ Len(run.taken) \in Int /\ 1 \in Int
    BY <2>1
  <2> QED
    BY <1>1, <2>2, SubSeqProperties
<1>6. <<>> \in Z /\ <<>> \in LineQueues
  BY DEF LineQueues
<1>7. Handed(Len(Humans(run.ingress))) \in LineQueues /\ Handed(Len(run.unadmitted)) \in LineQueues
  BY HandedIs DEF Typed, LineQueues
<1>8. ToSet(run.taken) \subseteq Lines \cup {None}
  BY <1>1, SetIs
<1>9. Runs = [st : {"none", "begun", "live", "sealed"}, ingress : Z, taken : Z,
              unadmitted : LineQueues]
  BY DEF Runs, LineQueues
<1>10. run \in Runs
  BY DEF Typed
<1> HIDE DEF Z
<1>11. /\ \A s \in Z : [run EXCEPT !.ingress = s] \in Runs
       /\ \A s \in Z : [run EXCEPT !.taken = s] \in Runs
       /\ [run EXCEPT !.taken = run.ingress, !.ingress = <<>>] \in Runs
       /\ [run EXCEPT !.st = "live"] \in Runs
  BY <1>1, <1>6, <1>9, <1>10
<1>12. Sealed \in Runs
  BY <1>1, <1>6, <1>9, <1>10 DEF Sealed
<1>13. [NoRun EXCEPT !.st = "begun"] \in Runs /\ [NoRun EXCEPT !.st = "sealed"] \in Runs
  BY <1>1, <1>9
<1>14. /\ \A l \in Lines \cup {None} : [run EXCEPT !.ingress = Append(@, l)] \in Runs
       /\ [run EXCEPT !.ingress = Notices(@)] \in Runs
       /\ (Humans(run.ingress) # <<>> =>
               [run EXCEPT !.ingress = Notices(@) \o Front(Humans(run.ingress))] \in Runs)
  BY <1>2, <1>3, <1>4, <1>11
<1>15. \A n \in 1..Len(run.taken) : [run EXCEPT !.taken = SubSeq(@, n + 1, Len(@))] \in Runs
  BY <1>5, <1>11
<1> QED
  BY <1>1, <1>5, <1>7, <1>8, <1>11, <1>12, <1>13, <1>14, <1>15 DEF Z

LEMMA TypedMarks ==
  ASSUME Typed
  PROVE  /\ \A w \in Words : \A S : S \subseteq Lines \cup {None}
              => marks \cup Mark(w, S) \subseteq Words \X Lines
         /\ \A r, st, w, S :
              Mirror(r, st, Mark(w, S)) /\ w \in Words /\ S \subseteq Lines /\ InHand(r) \subseteq Lines
              => marks' \subseteq Words \X Lines
         /\ \A r, st : Mirror(r, st, {}) /\ InHand(r) \subseteq Lines
                => marks' \subseteq Words \X Lines
         /\ \A r \in Runs : InHand(r) \subseteq Lines
         /\ \A s \in LineQueues, k \in Nat :
              k <= Len(s)
                  => SubSeq(s, 1, k) \in LineQueues /\ SubSeq(s, k + 1, Len(s)) \in LineQueues
         /\ \A s \in LineQueues : ToSet(s) \subseteq Lines
<1>1. ASSUME NEW w \in Words, NEW S, S \subseteq Lines \cup {None}
      PROVE  Mark(w, S) \subseteq Words \X Lines
  BY <1>1, MarkIs DEF Words
<1>2. marks \subseteq Words \X Lines
  BY DEF Typed
<1>3. "unmirrored" \in Words
  BY DEF Words
<1>4. \A r, st, w, S :
        Mirror(r, st, Mark(w, S)) /\ w \in Words /\ S \subseteq Lines /\ InHand(r) \subseteq Lines
        => marks' \subseteq Words \X Lines
  <2> SUFFICES ASSUME NEW r, NEW st, NEW w \in Words, NEW S, Mirror(r, st, Mark(w, S)),
                      S \subseteq Lines, InHand(r) \subseteq Lines
               PROVE  marks' \subseteq Words \X Lines
    OBVIOUS
  <2>1. Mark(w, S) \subseteq Words \X Lines /\ Mark("unmirrored", InHand(r) \ ToSet(st)) \subseteq Words \X Lines
    <3>1. S \subseteq Lines \cup {None} /\ InHand(r) \ ToSet(st) \subseteq Lines \cup {None}
      OBVIOUS
    <3> QED
      BY <1>1, <1>3, <3>1
  <2> QED
    BY <1>2, <2>1 DEF Mirror
<1>5. \A r, st : Mirror(r, st, {}) /\ InHand(r) \subseteq Lines
          => marks' \subseteq Words \X Lines
  <2> SUFFICES ASSUME NEW r, NEW st, Mirror(r, st, {}), InHand(r) \subseteq Lines
               PROVE  marks' \subseteq Words \X Lines
    OBVIOUS
  <2>1. Mark("unmirrored", InHand(r) \ ToSet(st)) \subseteq Words \X Lines
    <3>1. InHand(r) \ ToSet(st) \subseteq Lines \cup {None}
      OBVIOUS
    <3> QED
      BY <1>1, <1>3, <3>1
  <2> QED
    BY <1>2, <2>1 DEF Mirror
<1>6. ASSUME NEW r \in Runs PROVE InHand(r) \subseteq Lines
  <2>1. /\ r.ingress \in Seq(Lines \cup {None}) /\ r.taken \in Seq(Lines \cup {None})
        /\ r.unadmitted \in Seq(Lines)
    BY DEF Runs
  <2>2. ToSet(Humans(r.ingress)) \subseteq Lines /\ ToSet(Humans(r.taken)) \subseteq Lines
    BY <2>1, HumansIs
  <2>3. ToSet(r.unadmitted) \subseteq Lines
    BY <2>1, SetIs
  <2> QED
    BY <2>2, <2>3 DEF InHand
<1>7. ASSUME NEW s \in LineQueues, NEW k \in Nat, k <= Len(s)
      PROVE  SubSeq(s, 1, k) \in LineQueues /\ SubSeq(s, k + 1, Len(s)) \in LineQueues
  <2>1. s \in Seq(Lines) /\ Len(s) \in Nat /\ \A i \in 1..Len(s) : s[i] \in Lines
    BY LenProperties, ElementOfSeq DEF LineQueues
  <2>2. /\ \A i \in 1..k : s[i] \in Lines
        /\ \A i \in (k + 1)..Len(s) : s[i] \in Lines
        /\ k \in Int /\ k + 1 \in Int /\ Len(s) \in Int /\ 1 \in Int
    BY <1>7, <2>1
  <2> QED
    BY <2>1, <2>2, SubSeqProperties DEF LineQueues
<1>8. \A s \in LineQueues : ToSet(s) \subseteq Lines
  BY SetIs DEF LineQueues
<1>9. \A w \in Words : \A S : S \subseteq Lines \cup {None}
          => marks \cup Mark(w, S) \subseteq Words \X Lines
  BY <1>1, <1>2
<1> QED
  BY <1>4, <1>5, <1>6, <1>7, <1>8, <1>9

\* The last turn of the chain.
LastTurnOf(c) ==
  CHOOSE k \in {n \in DOMAIN c : c[n].kind = "turn"} :
    \A j \in {n \in DOMAIN c : c[n].kind = "turn"} : j <= k

LEMMA LargestOf ==
  ASSUME NEW n \in Nat, NEW S \in SUBSET (1..n), S # {}
  PROVE  \E m \in S : \A x \in S : x <= m
<1> DEFINE T == {n - x : x \in S}
<1>1. T \in SUBSET Nat /\ T # {}
  <2>2. \A x \in 1..n : n - x \in Nat
    OBVIOUS
  <2>3. \A x \in S : n - x \in Nat
    BY <2>2
  <2> QED
    BY <2>3
<1>2. PICK m \in T : \A x \in T : m <= x
  <2> HIDE DEF T
  <2> QED
    BY <1>1, SmallestOf
<1>3. PICK y \in S : m = n - y
  OBVIOUS
<1>4. ASSUME NEW x \in S PROVE x <= y
  <2>1. n - x \in T
    OBVIOUS
  <2>2. m <= n - x
    BY <1>2, <2>1
  <2>3. x \in 1..n /\ y \in 1..n
    OBVIOUS
  <2> QED
    BY <1>3, <2>2, <2>3
<1> QED
  BY <1>4

LEMMA LastTurn ==
  ASSUME Typed, {k \in DOMAIN chain : chain[k].kind = "turn"} # {}
  PROVE  /\ LastTurnOf(chain) \in 1..Len(chain)
         /\ chain[LastTurnOf(chain)].kind = "turn"
<1> DEFINE S == {k \in DOMAIN chain : chain[k].kind = "turn"}
<1>1. Len(chain) \in Nat /\ DOMAIN chain = 1..Len(chain)
  BY LenProperties DEF Typed, Chains
<1>2. S \in SUBSET (1..Len(chain)) /\ S # {}
  BY <1>1
<1>3. LastTurnOf(chain) = CHOOSE k \in S : \A j \in S : j <= k
  BY DEF LastTurnOf
<1>4. \A k \in S : chain[k].kind = "turn"
  OBVIOUS
<1> HIDE DEF S
<1>5. \E k \in S : \A j \in S : j <= k
  BY <1>1, <1>2, LargestOf
<1>6. LastTurnOf(chain) \in S
  BY <1>3, <1>5
<1> QED
  BY <1>2, <1>4, <1>6

\* A boundary lands at least one input.
LEMMA BlockIs ==
  ASSUME NEW s \in Seq(Lines \cup {None}), s # <<>>
  PROVE  Block(s) \in 1..Len(s)
<1> DEFINE Q(n) == /\ \A k \in 1..n : (s[k] = None) <=> (s[1] = None)
                   /\ n < Len(s) => ((s[n + 1] = None) <=> (s[1] # None))
           S == {n \in 1..Len(s) : \A k \in 1..n : (s[k] = None) <=> (s[1] = None)}
<1>1. Len(s) \in Nat \ {0}
  BY EmptySeq, LenProperties
<1>2. 1 \in S
  <2>1. \A k \in 1..1 : k = 1
    OBVIOUS
  <2> QED
    BY <1>1, <2>1
<1>3. PICK n \in S : \A x \in S : x <= n
  <2>1. S \in SUBSET (1..Len(s)) /\ S # {}
    BY <1>2
  <2> HIDE DEF S
  <2> QED
    BY <1>1, <2>1, LargestOf
<1>4. Q(n)
  <2>1. \A k \in 1..n : (s[k] = None) <=> (s[1] = None)
    OBVIOUS
  <2>2. ASSUME n < Len(s), ~((s[n + 1] = None) <=> (s[1] # None)) PROVE FALSE
    <3>1. n + 1 \in 1..Len(s) /\ \A k \in 1..(n + 1) : k \in 1..n \/ k = n + 1
      BY <1>1, <2>2
    <3>2. n + 1 \in S
      BY <2>1, <2>2, <3>1
    <3>3. n + 1 <= n
      BY <1>3, <3>2
    <3> QED
      BY <1>1, <3>3
  <2> QED
    BY <2>1, <2>2
<1>5. n \in 1..Len(s)
  OBVIOUS
<1>6. Block(s) = CHOOSE m \in 1..Len(s) : Q(m)
  BY DEF Block
<1> HIDE DEF Q
<1> QED
  BY <1>4, <1>5, <1>6

LEMMA TypedBudgets ==
  ASSUME Typed
  PROVE  /\ notices < MaxNotices => <<notices + 1, faults>> \in Budgets
         /\ faults < MaxFaults => <<notices, faults + 1>> \in Budgets
<1>1. notices \in 0..MaxNotices /\ faults \in 0..MaxFaults
  BY DEF Typed, Budgets
<1> QED
  BY <1>1, TurnChainAssumption DEF Budgets

LEMMA TypedBegin ==
  ASSUME Typed, NEW s \in LineQueues, TurnBegins(s)
  PROVE  /\ cur' \in {"none", "recovery", "turn"} /\ slot' \in {"none", "recovery", "turn"}
         /\ run' \in Runs /\ seg' \in Running /\ gone' \in Leavings
<1>1. /\ [NoRun EXCEPT !.st = "begun"] \in Runs /\ [NoRun EXCEPT !.st = "sealed"] \in Runs
  BY TypedRun
<1>2. [at |-> "turn", lines |-> s] \in Running /\ [at |-> "turn", lines |-> <<>>] \in Running
  BY DEF Running, LineQueues
<1>3. Leave(ToSet(s), "told") => gone' \in Leavings
  <2>1. "told" \in Ways /\ \A l \in Lines : gone[l] \in {""} \cup Ways
    BY DEF Typed, Ways, Leavings
  <2> QED
    BY <2>1 DEF Leave, Leavings
<1> QED
  BY <1>1, <1>2, <1>3 DEF TurnBegins, Typed

LEMMA TypeStep ==
  ASSUME Typed, RunShape, EntryShape, Next
  PROVE  Typed'
<1>T. /\ session \in Nat /\ target \in Nat /\ entries \in Entries
      /\ phase \in {"starting", "recovering", "ready", "opening", "over"}
      /\ queuedLines \in LineQueues /\ switchLines \in LineQueues /\ seed \in LineQueues
      /\ steering \in LineQueues /\ chain \in Chains /\ seg \in Running
      /\ cur \in {"none", "recovery", "turn"} /\ slot \in {"none", "recovery", "turn"}
      /\ run \in Runs
      /\ steerable \in BOOLEAN /\ leaving \in BOOLEAN /\ aborted \in BOOLEAN
      /\ uncertain \in BOOLEAN
      /\ log \in Logs /\ gone \in Leavings
      /\ typed \in Typings /\ aim \in Aims
      /\ marks \subseteq Words \X Lines
      /\ <<notices, faults>> \in Budgets
  BY DEF Typed
<1>S. /\ \A l \in Lines : Typing(l) => typed' \in Typings
      /\ \A l \in Lines : (Aimed(l) \/ AimedAt(l, session)) => aim' \in Aims
      /\ \A how \in Ways : \A S : Leave(S, how) => gone' \in Leavings
      /\ \A s \in LineQueues : Queue(chain, s) \in Chains
      /\ \A s \in LineQueues, l \in Lines : Append(s, l) \in LineQueues
      /\ \A s, t \in LineQueues : s \o t \in LineQueues
      /\ \A l \in Lines : <<l>> \in LineQueues /\ Echoes(l) \in LineQueues
      /\ <<>> \in LineQueues /\ <<>> \in Chains /\ Idle \in Running
      /\ Await(chain) \in Chains /\ Append(chain, Switch) \in Chains
      /\ (chain # <<>> => Head(chain) \in Segments(Kinds) /\ Tail(chain) \in Chains
                          /\ Head(chain).lines \in LineQueues /\ Await(Tail(chain)) \in Chains
                          /\ Append(Tail(chain), [kind |-> "awaitAgain", lines |-> <<>>]) \in Chains)
      /\ Goals \subseteq Nat /\ (Goals # {} \/ leaving => entries + 1 \in Entries)
      /\ seg.lines \in LineQueues
      /\ \A a \in {"idle", "asked", "turn"}, s \in LineQueues : [at |-> a, lines |-> s] \in Running
      /\ [seg EXCEPT !.lines = <<>>] \in Running
      /\ \A s \in LineQueues : Said(s) \in Logs
  BY TypedSteps
<1>R. /\ \A l \in Lines \cup {None} : [run EXCEPT !.ingress = Append(@, l)] \in Runs
      /\ [run EXCEPT !.ingress = Notices(@)] \in Runs
      /\ (Humans(run.ingress) # <<>> =>
            [run EXCEPT !.ingress = Notices(@) \o Front(Humans(run.ingress))] \in Runs)
      /\ [NoRun EXCEPT !.st = "begun"] \in Runs /\ [NoRun EXCEPT !.st = "sealed"] \in Runs
      /\ NoRun \in Runs /\ [run EXCEPT !.st = "live"] \in Runs /\ Sealed \in Runs
      /\ [run EXCEPT !.taken = run.ingress, !.ingress = <<>>] \in Runs
      /\ InHand(run) \subseteq Lines /\ ToSet(run.taken) \subseteq Lines \cup {None}
      /\ Handed(Len(Humans(run.ingress))) \in LineQueues
      /\ Handed(Len(run.unadmitted)) \in LineQueues
  BY TypedRun
<1>M. /\ \A w \in Words : \A S : S \subseteq Lines \cup {None}
              => marks \cup Mark(w, S) \subseteq Words \X Lines
      /\ \A r, st, w, S :
              Mirror(r, st, Mark(w, S)) /\ w \in Words /\ S \subseteq Lines /\ InHand(r) \subseteq Lines
              => marks' \subseteq Words \X Lines
      /\ \A r, st : Mirror(r, st, {}) /\ InHand(r) \subseteq Lines
             => marks' \subseteq Words \X Lines
      /\ \A r \in Runs : InHand(r) \subseteq Lines
      /\ \A s \in LineQueues : ToSet(s) \subseteq Lines
  BY TypedMarks
<1>W. {"editor", "told", "dropped", "astray"} \subseteq Ways
      /\ {"unmirrored", "echoed", "sentOn", "behind"} \subseteq Words
  BY DEF Ways, Words
<1>X. \A r, st, more : Mirror(r, st, more) => run' = r /\ steering' = st
  BY DEF Mirror
<1>1. CASE EnterEarly
  BY <1>1, <1>T, <1>S DEF EnterEarly, Typed
<1>2. CASE EnterBetween
  BY <1>2, <1>T, <1>S, <1>W DEF EnterBetween, Typed
<1>3. CASE Enter
  <2>1. PICK l \in Lines :
          /\ Typing(l) /\ Aimed(l) /\ Submit(l)
          /\ UNCHANGED <<entryVars, placeVars, seg, cur, slot, aborted, uncertain, log, gone, marks, budgetVars>>
    BY <1>3 DEF Enter
  <2>2. /\ Append(steering, l) \in LineQueues /\ [run EXCEPT !.ingress = Append(@, l)] \in Runs
        /\ Queue(chain, <<l>>) \in Chains
    BY <1>T, <1>S, <1>R
  <2>3. run' \in Runs /\ steering' \in LineQueues /\ chain' \in Chains
    BY <1>T, <2>1, <2>2 DEF Submit
  <2>4. typed' \in Typings /\ aim' \in Aims
    BY <2>1, <1>S
  <2> QED
    BY <1>T, <2>1, <2>3, <2>4 DEF Typed
<1>4. CASE RedirectIdle
  <2>1. PICK l \in Lines :
          LET answers == phase # "opening" /\ ~leaving
              own == IF phase # "opening" /\ leaving THEN <<l>> ELSE <<>>
          IN /\ steerable /\ cur = "none"
             /\ Typing(l) /\ Aimed(l)
             /\ switchLines' = switchLines \o Echoes(l) \o own
             /\ chain' = IF answers THEN Queue(chain, <<l>>) ELSE chain
             /\ marks' = marks \union Mark("echoed", IF Departed > (IF phase = "opening" THEN 1 ELSE 0) THEN {l} ELSE {})
             /\ UNCHANGED <<entryVars, queuedLines, seed, seg, runVars, log, gone, budgetVars>>
    BY <1>4 DEF RedirectIdle
  <2>2. marks' \subseteq Words \X Lines
    BY <2>1, <1>M, <1>W
  <2>3. switchLines' \in LineQueues /\ chain' \in Chains /\ typed' \in Typings /\ aim' \in Aims
    BY <2>1, <1>T, <1>S
  <2> QED
    BY <2>1, <2>2, <2>3, <1>T DEF Typed
<1>5. CASE RedirectRun
  <2> DEFINE back == Handed(Len(Humans(run.ingress)))
             r == [run EXCEPT !.ingress = Notices(@)]
  <2>1. PICK l \in Lines :
          /\ Typing(l) /\ AimedAt(l, session)
          /\ Mirror(r, <<>>, Mark("echoed", IF Departed > 0 THEN {l} ELSE {}))
          /\ aborted' = TRUE
          /\ chain' = Queue(Others(chain), <<l>> \o back) \o Turns(chain)
          /\ switchLines' = switchLines \o Echoes(l)
          /\ UNCHANGED <<entryVars, queuedLines, seed, seg, cur, slot, uncertain, log, gone, budgetVars>>
    BY <1>5 DEF RedirectRun
  <2>2. r \in Runs /\ back \in LineQueues
    BY <1>R
  <2> HIDE DEF r, back
  <2>3. marks' \subseteq Words \X Lines /\ run' \in Runs /\ steering' \in LineQueues
    <3>1. (IF Departed > 0 THEN {l} ELSE {}) \subseteq Lines
      OBVIOUS
    <3>2. InHand(r) \subseteq Lines
      BY <2>2, <1>M
    <3>3. "echoed" \in Words
      BY <1>W
    <3>4. marks' \subseteq Words \X Lines
      <4> DEFINE S == IF Departed > 0 THEN {l} ELSE {}
      <4> HIDE DEF S
      <4>1. Mirror(r, <<>>, Mark("echoed", S)) /\ S \subseteq Lines
        BY <2>1, <3>1 DEF S
      <4> QED
        BY <4>1, <3>2, <3>3, <1>M
    <3> QED
      BY <2>1, <2>2, <3>4, <1>X, <1>S
  <2>4. chain' \in Chains
    <3>1. Others(chain) \in Chains /\ Turns(chain) \in Chains
      BY <1>T, QueueIs, <1>S DEF Chains, LineQueues
    <3>2. <<l>> \o back \in LineQueues
      BY <2>2, <1>S
    <3>3. Queue(Others(chain), <<l>> \o back) \in Chains
      BY <3>1, <3>2, QueueIs DEF Chains, LineQueues
    <3> QED
      BY <2>1, <3>1, <3>3, ConcatProperties DEF Chains
  <2> QED
    BY <2>1, <2>3, <2>4, <1>T, <1>S DEF Typed
<1>6. CASE Escape
  <2> DEFINE back == Handed(Len(Humans(run.ingress)))
             r == [run EXCEPT !.ingress = Notices(@)]
  <2>1. /\ Mirror(r, <<>>, {})
        /\ aborted' = TRUE
        /\ Leave(ToSet(back), "editor")
        /\ UNCHANGED <<entryVars, placeVars, chain, seg, cur, slot, uncertain, log, typed, aim, budgetVars>>
    BY <1>6 DEF Escape
  <2>2. r \in Runs
    BY <1>R
  <2> HIDE DEF r, back
  <2>3. marks' \subseteq Words \X Lines /\ run' \in Runs /\ steering' \in LineQueues
    BY <2>1, <2>2, <1>M, <1>X, <1>S
  <2> QED
    BY <2>1, <2>3, <1>T, <1>S, <1>W DEF Typed
<1>7. CASE UpSteer
  <2> DEFINE back == Humans(run.ingress)
             mine == Handed(Len(back))
             r == [run EXCEPT !.ingress = Notices(@) \o Front(back)]
  <2>1. /\ mine # <<>> /\ back # <<>>
        /\ Mirror(r, Front(mine), {})
        /\ Leave({Last(mine)}, "editor")
        /\ UNCHANGED <<entryVars, placeVars, chain, seg, cur, slot, aborted, uncertain, log, typed, aim, budgetVars>>
    BY <1>7 DEF UpSteer
  <2>2. r \in Runs /\ mine \in LineQueues
    BY <2>1, <1>R
  <2>3. Front(mine) \in LineQueues
    BY <2>1, <2>2, FrontAndLast DEF LineQueues
  <2> HIDE DEF r, mine, back
  <2>4. marks' \subseteq Words \X Lines /\ run' \in Runs /\ steering' \in LineQueues
    BY <2>1, <2>2, <2>3, <1>M, <1>X
  <2> QED
    BY <2>1, <2>4, <1>T, <1>S, <1>W DEF Typed
<1>8. CASE UpTurn
  <2> DEFINE turns == {k \in DOMAIN chain : chain[k].kind = "turn"}
             last == LastTurnOf(chain)
  <2>1. /\ turns # {}
        /\ chain' = RemoveAt(chain, last)
        /\ Leave(ToSet(chain[last].lines), "editor")
        /\ Mirror(run, IF cur # "none" THEN <<>> ELSE steering, {})
        /\ UNCHANGED <<entryVars, placeVars, seg, cur, slot, aborted, uncertain, log, typed, aim, budgetVars>>
    BY <1>8 DEF UpTurn, LastTurnOf
  <2>2. last \in 1..Len(chain)
    BY <2>1, LastTurn
  <2> HIDE DEF turns, last
  <2>3. chain' \in Chains
    BY <1>T, <2>1, <2>2, SegmentsLined, RemoveAtCounts DEF Chains
  <2>4. marks' \subseteq Words \X Lines /\ run' \in Runs /\ steering' \in LineQueues
    BY <2>1, <1>T, <1>M, <1>R, <1>X, <1>S
  <2> QED
    BY <2>1, <2>3, <2>4, <1>T, <1>S, <1>W DEF Typed
<1>9. CASE SwitchNow
  BY <1>9, <1>T, <1>S DEF SwitchNow, Typed
<1>10. CASE SwitchLater
  BY <1>10, <1>T, <1>S DEF SwitchLater, Typed, Switch
<1>11. CASE Wake
  BY <1>11, <1>T, <1>S, TypedBudgets DEF Wake, Typed
<1>12. CASE Notify
  BY <1>12, <1>T, <1>R, TypedBudgets DEF Notify, Typed
<1>13. CASE TurnStarts
  <2>1. chain # <<>> /\ chain' = Tail(chain) /\ chain' \in Chains /\ Head(chain).lines \in LineQueues
    BY <1>13, <1>S DEF TurnStarts, NextIs
  <2>2. /\ cur' \in {"none", "recovery", "turn"} /\ slot' \in {"none", "recovery", "turn"}
        /\ run' \in Runs /\ seg' \in Running /\ gone' \in Leavings
    <3>1. CASE uncertain
      BY <1>13, <2>1, <3>1, <1>T, <1>S DEF TurnStarts
    <3>2. CASE ~uncertain
      <4>1. TurnBegins(Head(chain).lines)
        BY <1>13, <3>2 DEF TurnStarts
      <4> QED
        BY <2>1, <4>1, TypedBegin
    <3> QED
      BY <3>1, <3>2
  <2> QED
    BY <1>13, <2>1, <2>2, <1>T DEF TurnStarts, Typed
<1>14. CASE Decides
  <2>1. /\ cur' \in {"none", "recovery", "turn"} /\ slot' \in {"none", "recovery", "turn"}
        /\ run' \in Runs /\ seg' \in Running /\ gone' \in Leavings
    <3>1. TurnBegins(seg.lines)
      BY <1>14 DEF Decides
    <3> QED
      BY <3>1, <1>S, TypedBegin
  <2> QED
    BY <1>14, <2>1, <1>T DEF Decides, Typed
<1>15. CASE Declines
  BY <1>15, <1>T, <1>S, <1>W DEF Declines, Typed
<1>16. CASE SwitchDecides
  <2>1. PICK t \in Goals \union {0} :
         IF t = 0
         THEN chain' = Tail(chain) /\ UNCHANGED <<leaving, target, marks>>
         ELSE /\ leaving' = TRUE /\ target' = t
              /\ chain' = Await(Tail(chain))
              /\ marks' = marks \union Mark("behind", ToSet(LinesOf(Tail(chain))))
    BY <1>16 DEF SwitchDecides
  <2>2. chain # <<>>
    BY <1>16 DEF SwitchDecides, NextIs
  <2>3. LinesOf(Tail(chain)) \in Seq(Lines)
    BY <2>2, <1>S, SegmentsLined, LinesCat DEF Chains
  <2>4. ToSet(LinesOf(Tail(chain))) \subseteq Lines
    BY <2>3, SetIs
  <2>5. chain' \in Chains /\ leaving' \in BOOLEAN /\ target' \in Nat /\ marks' \subseteq Words \X Lines
    <3>1. CASE t = 0
      BY <2>1, <2>2, <3>1, <1>T, <1>S
    <3>2. CASE t # 0
      <4>1. ToSet(LinesOf(Tail(chain))) \subseteq Lines \cup {None}
        BY <2>4
      <4> QED
        BY <2>1, <2>2, <3>2, <4>1, <1>T, <1>S, <1>M, <1>W
    <3> QED
      BY <3>1, <3>2
  <2> QED
    BY <1>16, <2>5, <1>T DEF SwitchDecides, Typed
<1>17. CASE AwaitsAgain
  BY <1>17, <1>T, <1>S DEF AwaitsAgain, NextIs, Typed
<1>18. CASE ChatReturns
  BY <1>18, <1>T, <1>S, <1>W DEF ChatReturns, Typed
<1>19. CASE Begins
  BY <1>19, <1>T, <1>S, <1>R DEF Begins, Typed
<1>20. CASE Admit
  BY <1>20, <1>T, <1>R DEF Admit, Typed
<1>21. CASE Land
  <2> DEFINE n == Block(run.taken)
             r == [run EXCEPT !.taken = SubSeq(@, n + 1, Len(@))]
  <2>1. /\ run.taken # <<>>
        /\ log' = Said(Humans(SubSeq(run.taken, 1, n)))
        /\ Mirror(r, <<>>, {})
        /\ UNCHANGED <<entryVars, placeVars, chain, seg, cur, slot, aborted, uncertain, gone, typed, aim, budgetVars>>
    BY <1>21 DEF Land
  <2>2. n \in 1..Len(run.taken)
    <3>1. run.taken \in Seq(Lines \cup {None})
      BY <1>T, RunIs
    <3> QED
      BY <2>1, <3>1, BlockIs
  <2>3. r \in Runs /\ SubSeq(run.taken, 1, n) \in Seq(Lines \cup {None})
    BY <2>2, TypedRun
  <2>4. Humans(SubSeq(run.taken, 1, n)) \in LineQueues
    BY <2>3, HumansIs DEF LineQueues
  <2> HIDE DEF r, n
  <2>5. marks' \subseteq Words \X Lines /\ run' \in Runs /\ steering' \in LineQueues /\ log' \in Logs
    BY <2>1, <2>3, <2>4, <1>M, <1>X, <1>S
  <2> QED
    BY <2>1, <2>5, <1>T DEF Typed
<1>22. CASE Seal
  BY <1>22, <1>T, <1>R DEF Seal, Typed
<1>23. CASE Throws
  BY <1>23, <1>T, <1>S, <1>R, <1>M, <1>W, TypedBudgets DEF Throws, Typed
<1>24. CASE Settles
  BY <1>24, <1>T, <1>S, <1>R DEF Settles, Typed
<1>25. CASE RecoveryStarts
  BY <1>25, <1>T, <1>S DEF RecoveryStarts, Typed
<1>26. CASE RecoverySettles
  <2>1. chain' \in Chains /\ leaving' \in BOOLEAN /\ target' \in Nat /\ switchLines' \in LineQueues
        /\ aim' \in Aims /\ marks' \subseteq Words \X Lines
    <3>1. CASE /\ chain' = QueueEach(chain, queuedLines)
               /\ UNCHANGED <<leaving, target, switchLines, aim, marks>>
      <4>1. QueueEach(chain, queuedLines) \in Chains
        BY <1>T, QueueEachIs DEF Chains, LineQueues
      <4> QED
        BY <3>1, <4>1, <1>T
    <3>2. CASE \E k \in 0..(Len(queuedLines) - 1), t \in Goals :
                 LET rest == SubSeq(queuedLines, k + 1, Len(queuedLines))
                 IN /\ chain' = Await(QueueEach(chain, SubSeq(queuedLines, 1, k)))
                    /\ leaving' = TRUE /\ target' = t
                    /\ switchLines' = switchLines \o rest
                    /\ aim' = [l \in Lines |-> IF l \in ToSet(rest) THEN t ELSE aim[l]]
                    /\ marks' = marks \union Mark("sentOn", ToSet(rest))
      <4>1. PICK k \in 0..(Len(queuedLines) - 1), t \in Goals :
                 LET rest == SubSeq(queuedLines, k + 1, Len(queuedLines))
                 IN /\ chain' = Await(QueueEach(chain, SubSeq(queuedLines, 1, k)))
                    /\ leaving' = TRUE /\ target' = t
                    /\ switchLines' = switchLines \o rest
                    /\ aim' = [l \in Lines |-> IF l \in ToSet(rest) THEN t ELSE aim[l]]
                    /\ marks' = marks \union Mark("sentOn", ToSet(rest))
        BY <3>2
      <4> DEFINE rest == SubSeq(queuedLines, k + 1, Len(queuedLines))
                 first == SubSeq(queuedLines, 1, k)
      <4>2. first \in LineQueues /\ rest \in LineQueues
        <5>1. Len(queuedLines) \in Nat
          BY <1>T, LenProperties DEF LineQueues
        <5>2. k \in Nat /\ k <= Len(queuedLines)
          BY <5>1
        <5> QED
          BY <1>T, <5>2, TypedMarks
      <4> HIDE DEF rest, first
      <4>3. ToSet(rest) \subseteq Lines \cup {None}
        BY <4>2, <1>M
      <4>4. Await(QueueEach(chain, first)) \in Chains
        <5>1. QueueEach(chain, first) \in Seq(Segments(Kinds))
          BY <1>T, <4>2, QueueEachIs DEF Chains, LineQueues
        <5> QED
          BY <5>1, <1>S, QueueIs DEF Chains, LineQueues
      <4>5. aim' \in Aims
        <5>1. \A l \in Lines : aim[l] \in Nat
          BY <1>T DEF Aims
        <5>2. t \in Nat
          BY <1>S
        <5>3. aim' = [l \in Lines |-> IF l \in ToSet(rest) THEN t ELSE aim[l]]
          BY <4>1 DEF rest
        <5> QED
          BY <5>1, <5>2, <5>3 DEF Aims
      <4> QED
        BY <4>1, <4>2, <4>3, <4>4, <4>5, <1>T, <1>S, <1>M, <1>W DEF rest, first
    <3> QED
      BY <1>26, <3>1, <3>2 DEF RecoverySettles
  <2> QED
    BY <1>26, <2>1, <1>T, <1>S DEF RecoverySettles, Typed
<1>27. CASE RecoveryThrows
  BY <1>27, <1>T, TypedBudgets DEF RecoveryThrows, Typed
<1>28. CASE NextEntry
  BY <1>28, <1>T, <1>S DEF NextEntry, EntryShape, Typed
<1>29. CASE SwitchRefused
  <2>1. gone' \in Leavings
    <3>1. \A l \in Lines : gone[l] \in {""} \cup Ways
      BY <1>T DEF Leavings
    <3> QED
      BY <1>29, <1>W, <3>1 DEF SwitchRefused, Leavings
  <2> QED
    BY <1>29, <2>1, <1>T, <1>S, TypedBudgets DEF SwitchRefused, EntryShape, Typed
<1> QED
  BY <1>1, <1>2, <1>3, <1>4, <1>5, <1>6, <1>7, <1>8, <1>9, <1>10, <1>11, <1>12, <1>13,
     <1>14,
     <1>15, <1>16, <1>17, <1>18, <1>19, <1>20, <1>21, <1>22, <1>23, <1>24, <1>25, <1>26, <1>27,
     <1>28, <1>29 DEF Next

-----------------------------------------------------------------------------
(* The run and the entry keep their shape.                                 *)

LEMMA HeadIn ==
  ASSUME Typed, chain # <<>>
  PROVE  /\ Head(chain) \in ToSet(chain) /\ ToSet(Tail(chain)) \subseteq ToSet(chain)
         /\ Head(chain) \in Segments(Kinds) /\ Tail(chain) \in Chains
         /\ \A l : CountIn(chain, l) = Count(Head(chain).lines, l) + CountIn(Tail(chain), l)
         /\ \A x : Count(chain, x) = (IF Head(chain) = x THEN 1 ELSE 0) + Count(Tail(chain), x)
<1>1. chain \in Seq(Segments(Kinds))
  BY DEF Typed, Chains
<1>2. ToSet(chain) = {Head(chain)} \cup ToSet(Tail(chain))
  BY <1>1, TailCounts
<1>3. \A l : CountIn(chain, l) = Count(Head(chain).lines, l) + CountIn(Tail(chain), l)
  BY <1>1, SegmentsLined, TailCountsIn
<1>4. \A x : Count(chain, x) = (IF Head(chain) = x THEN 1 ELSE 0) + Count(Tail(chain), x)
  BY <1>1, TailCounts
<1>5. Head(chain) \in Segments(Kinds) /\ Tail(chain) \in Chains
  BY <1>1, HeadTailProperties DEF Chains
<1> QED
  BY <1>2, <1>3, <1>4, <1>5

LEMMA ShapeFacts ==
  ASSUME Typed, RunShape
  PROVE  /\ Humans(<<>>) = <<>> /\ Notices(<<>>) = <<>>
         /\ run.st \in {"none", "begun", "live", "sealed"}
         /\ Idle.at = "idle" /\ Idle.lines = <<>>
         /\ \A s : [run EXCEPT !.ingress = s].st = run.st
         /\ (run.st \notin {"begun", "live"} => run.ingress = <<>> /\ run.taken = <<>>)
         /\ (seg.at \in {"idle", "asked", "turn"})
         /\ seg = [at |-> seg.at, lines |-> seg.lines]
         /\ run = [st |-> run.st, ingress |-> run.ingress, taken |-> run.taken,
                   unadmitted |-> run.unadmitted]
         /\ NoRun.st = "none" /\ NoRun.ingress = <<>> /\ NoRun.taken = <<>> /\ NoRun.unadmitted = <<>>
<1>1. Humans(<<>>) = <<>> /\ Notices(<<>>) = <<>>
  BY KeepEmpty DEF Humans, Notices
<1>2. run \in Runs /\ seg \in Running
  BY DEF Typed
<1>3. /\ run.st \in {"none", "begun", "live", "sealed"} /\ seg.at \in {"idle", "asked", "turn"}
      /\ seg = [at |-> seg.at, lines |-> seg.lines]
      /\ run = [st |-> run.st, ingress |-> run.ingress, taken |-> run.taken,
                unadmitted |-> run.unadmitted]
  BY <1>2 DEF Runs, Running
<1>4. \A s : [run EXCEPT !.ingress = s].st = run.st
  BY <1>2 DEF Runs
<1>5. run.st \notin {"begun", "live"} => run.ingress = <<>> /\ run.taken = <<>>
  BY <1>3 DEF RunShape, NoRun
<1> QED
  BY <1>1, <1>3, <1>4, <1>5 DEF Idle, NoRun

LEMMA EntryStep ==
  ASSUME Typed, RunShape, EntryShape, ChainShape, Next
  PROVE  EntryShape'
<1>0. /\ entries \in Nat \ {0} /\ MaxEntries \in Nat \ {0}
      /\ seg.at \in {"idle", "asked", "turn"} /\ Idle.at = "idle"
      /\ \A s : [seg EXCEPT !.lines = s].at = seg.at
  BY TurnChainAssumption DEF Typed, Entries, Running, Idle
<1>S. /\ leaving => phase \in {"ready", "opening"}
      /\ phase = "opening" => leaving /\ chain = <<>> /\ seg = Idle /\ queuedLines = <<>>
      /\ phase \in {"ready", "opening"} /\ seg.at # "turn" => cur = "none"
      /\ slot = "recovery" => phase \in {"recovering", "over"}
      /\ queuedLines # <<>> => phase # "ready" \/ leaving
      /\ seed # <<>> => phase = "opening"
      /\ leaving => entries < MaxEntries
      /\ entries \in 1..MaxEntries
  BY DEF EntryShape
<1>G. Goals # {} => entries < MaxEntries
  BY DEF Goals
<1>H. chain # <<>> => /\ Head(chain).kind # "turn" => phase = "ready"
                      /\ Head(chain).kind = "awaitAgain" => leaving
  BY HeadIn DEF ChainShape
<1>R. (run.st = "none") <=> (seg.at # "turn")
  BY DEF RunShape
<1>1. CASE EnterEarly
  BY <1>1, <1>0, <1>S, <1>G, <1>H, <1>R DEF EnterEarly, EntryShape
<1>2. CASE EnterBetween
  BY <1>2, <1>0, <1>S, <1>G, <1>H, <1>R DEF EnterBetween, EntryShape
<1>3. CASE Enter
  BY <1>3, <1>0, <1>S, <1>G, <1>H, <1>R DEF Enter, Submit, Steers, EntryShape
<1>4. CASE RedirectIdle
  BY <1>4, <1>0, <1>S, <1>G, <1>H, <1>R DEF RedirectIdle, EntryShape
<1>5. CASE RedirectRun
  BY <1>5, <1>0, <1>S, <1>G, <1>H, <1>R DEF RedirectRun, Mirror, EntryShape
<1>6. CASE Escape
  BY <1>6, <1>0, <1>S, <1>G, <1>H, <1>R DEF Escape, Mirror, EntryShape
<1>7. CASE UpSteer
  BY <1>7, <1>0, <1>S, <1>G, <1>H, <1>R DEF UpSteer, Mirror, EntryShape
<1>8. CASE UpTurn
  BY <1>8, <1>0, <1>S, <1>G, <1>H, <1>R DEF UpTurn, Mirror, EntryShape
<1>9. CASE SwitchNow
  BY <1>9, <1>0, <1>S, <1>G, <1>H, <1>R DEF SwitchNow, EntryShape
<1>10. CASE SwitchLater
  BY <1>10, <1>0, <1>S, <1>G, <1>H, <1>R DEF SwitchLater, EntryShape
<1>11. CASE Wake
  BY <1>11, <1>0, <1>S, <1>G, <1>H, <1>R DEF Wake, EntryShape
<1>12. CASE Notify
  BY <1>12, <1>0, <1>S, <1>G, <1>H, <1>R DEF Notify, EntryShape
<1>13. CASE TurnStarts
  BY <1>13, <1>0, <1>S, <1>G, <1>H, <1>R DEF TurnStarts, TurnBegins, NextIs, EntryShape
<1>14. CASE Decides
  BY <1>14, <1>0, <1>S, <1>G, <1>H, <1>R DEF Decides, TurnBegins, EntryShape
<1>15. CASE Declines
  BY <1>15, <1>0, <1>S, <1>G, <1>H, <1>R DEF Declines, EntryShape
<1>16. CASE SwitchDecides
  BY <1>16, <1>0, <1>S, <1>G, <1>H, <1>R DEF SwitchDecides, NextIs, EntryShape
<1>17. CASE AwaitsAgain
  BY <1>17, <1>0, <1>S, <1>G, <1>H, <1>R DEF AwaitsAgain, NextIs, EntryShape
<1>18. CASE ChatReturns
  BY <1>18, <1>0, <1>S, <1>G, <1>H, <1>R DEF ChatReturns, NextIs, EntryShape
<1>19. CASE Begins
  BY <1>19, <1>0, <1>S, <1>G, <1>H, <1>R DEF Begins, EntryShape
<1>20. CASE Admit
  BY <1>20, <1>0, <1>S, <1>G, <1>H, <1>R DEF Admit, EntryShape
<1>21. CASE Land
  BY <1>21, <1>0, <1>S, <1>G, <1>H, <1>R DEF Land, Mirror, EntryShape
<1>22. CASE Seal
  BY <1>22, <1>0, <1>S, <1>G, <1>H, <1>R DEF Seal, Sealed, EntryShape
<1>23. CASE Throws
  BY <1>23, <1>0, <1>S, <1>G, <1>H, <1>R DEF Throws, Sealed, EntryShape
<1>24. CASE Settles
  BY <1>24, <1>0, <1>S, <1>G, <1>H, <1>R DEF Settles, EntryShape
<1>25. CASE RecoveryStarts
  BY <1>25, <1>0, <1>S, <1>G, <1>H, <1>R DEF RecoveryStarts, EntryShape
<1>26. CASE RecoverySettles
  BY <1>26, <1>0, <1>S, <1>G, <1>H, <1>R DEF RecoverySettles, EntryShape
<1>27. CASE RecoveryThrows
  BY <1>27, <1>0, <1>S, <1>G, <1>H, <1>R DEF RecoveryThrows, EntryShape
<1>28. CASE NextEntry
  BY <1>28, <1>0, <1>S, <1>G, <1>H, <1>R DEF NextEntry, EntryShape
<1>29. CASE SwitchRefused
  BY <1>29, <1>0, <1>S, <1>G, <1>H, <1>R DEF SwitchRefused, EntryShape
<1> QED
  BY <1>1, <1>2, <1>3, <1>4, <1>5, <1>6, <1>7, <1>8, <1>9, <1>10, <1>11, <1>12, <1>13,
     <1>14, <1>15, <1>16, <1>17, <1>18, <1>19, <1>20, <1>21, <1>22, <1>23, <1>24, <1>25,
     <1>26, <1>27, <1>28, <1>29 DEF Next

LEMMA RunStep ==
  ASSUME Typed, RunShape, EntryShape, ChainShape, Next
  PROVE  RunShape'
<1>0. /\ Humans(<<>>) = <<>> /\ Notices(<<>>) = <<>>
      /\ run.st \in {"none", "begun", "live", "sealed"}
      /\ Idle.at = "idle" /\ Idle.lines = <<>>
      /\ (run.st \notin {"begun", "live"} => run.ingress = <<>> /\ run.taken = <<>>)
      /\ (seg.at \in {"idle", "asked", "turn"})
      /\ seg = [at |-> seg.at, lines |-> seg.lines]
      /\ run = [st |-> run.st, ingress |-> run.ingress, taken |-> run.taken,
                unadmitted |-> run.unadmitted]
      /\ NoRun = [st |-> "none", ingress |-> <<>>, taken |-> <<>>, unadmitted |-> <<>>]
  BY ShapeFacts DEF NoRun
<1>S. /\ (run.st = "none") <=> (seg.at # "turn")
      /\ run.st = "none" => run = NoRun
      /\ run.st = "begun" => run.taken = <<>>
      /\ run.st \in {"begun", "live"} => run.unadmitted = <<>> /\ slot = "turn"
      /\ run.st = "sealed" => run.taken = <<>> /\ run.ingress = <<>>
      /\ run.st \in {"live", "sealed"} => seg.lines = <<>>
      /\ slot # "turn" => run.unadmitted = <<>>
      /\ seg.at = "idle" => seg = Idle
  BY DEF RunShape
<1>C. slot \in {"none", "recovery", "turn"}
  BY DEF Typed
<1>1. CASE EnterEarly
  BY <1>1, <1>0, <1>S, <1>C DEF EnterEarly, RunShape
<1>2. CASE EnterBetween
  BY <1>2, <1>0, <1>S, <1>C DEF EnterBetween, RunShape
<1>3. CASE Enter
  BY <1>3, <1>0, <1>S, <1>C DEF Enter, Submit, Steers, RunShape
<1>4. CASE RedirectIdle
  BY <1>4, <1>0, <1>S, <1>C DEF RedirectIdle, RunShape
<1>5. CASE RedirectRun
  BY <1>5, <1>0, <1>S, <1>C DEF RedirectRun, Mirror, RunShape
<1>6. CASE Escape
  BY <1>6, <1>0, <1>S, <1>C DEF Escape, Mirror, RunShape
<1>7. CASE UpSteer
  BY <1>7, <1>0, <1>S, <1>C DEF UpSteer, Mirror, RunShape
<1>8. CASE UpTurn
  BY <1>8, <1>0, <1>S, <1>C DEF UpTurn, Mirror, RunShape
<1>9. CASE SwitchNow
  BY <1>9, <1>0, <1>S, <1>C DEF SwitchNow, RunShape
<1>10. CASE SwitchLater
  BY <1>10, <1>0, <1>S, <1>C DEF SwitchLater, RunShape
<1>11. CASE Wake
  BY <1>11, <1>0, <1>S, <1>C DEF Wake, RunShape
<1>12. CASE Notify
  BY <1>12, <1>0, <1>S, <1>C DEF Notify, RunShape
<1>13. CASE TurnStarts
  BY <1>13, <1>0, <1>S, <1>C DEF TurnStarts, TurnBegins, NextIs, RunShape
<1>14. CASE Decides
  BY <1>14, <1>0, <1>S, <1>C DEF Decides, TurnBegins, RunShape
<1>15. CASE Declines
  BY <1>15, <1>0, <1>S, <1>C DEF Declines, RunShape
<1>16. CASE SwitchDecides
  BY <1>16, <1>0, <1>S, <1>C DEF SwitchDecides, NextIs, RunShape
<1>17. CASE AwaitsAgain
  BY <1>17, <1>0, <1>S, <1>C DEF AwaitsAgain, NextIs, RunShape
<1>18. CASE ChatReturns
  BY <1>18, <1>0, <1>S, <1>C DEF ChatReturns, NextIs, RunShape
<1>19. CASE Begins
  BY <1>19, <1>0, <1>S, <1>C DEF Begins, RunShape
<1>20. CASE Admit
  BY <1>20, <1>0, <1>S, <1>C DEF Admit, RunShape
<1>21. CASE Land
  BY <1>21, <1>0, <1>S, <1>C DEF Land, Mirror, RunShape
<1>22. CASE Seal
  BY <1>22, <1>0, <1>S, <1>C DEF Seal, Sealed, RunShape
<1>23. CASE Throws
  BY <1>23, <1>0, <1>S, <1>C DEF Throws, Sealed, RunShape
<1>24. CASE Settles
  BY <1>24, <1>0, <1>S, <1>C DEF Settles, RunShape
<1>25. CASE RecoveryStarts
  BY <1>25, <1>0, <1>S, <1>C DEF RecoveryStarts, RunShape
<1>26. CASE RecoverySettles
  BY <1>26, <1>0, <1>S, <1>C DEF RecoverySettles, RunShape
<1>27. CASE RecoveryThrows
  BY <1>27, <1>0, <1>S, <1>C DEF RecoveryThrows, RunShape
<1>28. CASE NextEntry
  BY <1>28, <1>0, <1>S, <1>C DEF NextEntry, RunShape
<1>29. CASE SwitchRefused
  BY <1>29, <1>0, <1>S, <1>C DEF SwitchRefused, RunShape
<1> QED
  BY <1>1, <1>2, <1>3, <1>4, <1>5, <1>6, <1>7, <1>8, <1>9, <1>10, <1>11, <1>12, <1>13,
     <1>14, <1>15, <1>16, <1>17, <1>18, <1>19, <1>20, <1>21, <1>22, <1>23, <1>24, <1>25,
     <1>26, <1>27, <1>28, <1>29 DEF Next

-----------------------------------------------------------------------------
(* The chain keeps its shape.                                              *)

\* What a step may make of the chain: turns come and go, and what else is in
\* it was there.
MoreTurns(c, d) ==
  /\ \A x \in ToSet(d) : x \in ToSet(c) \/ x.kind = "turn"
  /\ Count(d, Switch) <= Count(c, Switch)

LEMMA ChainMoves ==
  ASSUME NEW c \in Chains
  PROVE  /\ Count(c, Switch) \in Nat /\ (Count(c, Switch) > 0 <=> Switch \in ToSet(c))
         /\ \A s \in LineQueues : MoreTurns(c, Queue(c, s))
         /\ \A s \in LineQueues : MoreTurns(c, QueueEach(c, s)) /\ QueueEach(c, s) \in Chains
         /\ \A s \in LineQueues : MoreTurns(c, Queue(Others(c), s) \o Turns(c))
         /\ \A i \in 1..Len(c) : MoreTurns(c, RemoveAt(c, i))
         /\ \A x \in Segments(Kinds) \ {Switch} :
              /\ ToSet(Append(c, x)) = ToSet(c) \cup {x}
              /\ Count(Append(c, x), Switch) = Count(c, Switch)
         /\ ToSet(Append(c, Switch)) = ToSet(c) \cup {Switch}
         /\ Count(Append(c, Switch), Switch) = Count(c, Switch) + 1
<1> DEFINE T == Seq(Segments(Kinds))
<1>0. c \in T
  BY DEF Chains
<1>1. Switch \in Segments(Kinds) /\ Switch.kind = "switch"
      /\ \A s \in LineQueues : /\ Turn(s) \in Segments(Kinds) /\ Turn(s) # Switch
                               /\ Turn(s).kind = "turn"
  BY DEF Switch, Segments, Kinds, Turn, LineQueues
<1>2. Count(c, Switch) \in Nat /\ (Count(c, Switch) > 0 <=> Switch \in ToSet(c))
  BY <1>0, CountIs
<1>3. ASSUME NEW d \in T, NEW x \in Segments(Kinds)
      PROVE  /\ ToSet(Append(d, x)) = ToSet(d) \cup {x}
             /\ Count(Append(d, x), Switch) = Count(d, Switch) + (IF x = Switch THEN 1 ELSE 0)
             /\ Count(d, Switch) \in Nat
  <2> HIDE DEF T
  <2>1. /\ ToSet(Append(d, x)) = ToSet(d) \cup {x}
        /\ Count(Append(d, x), Switch) = Count(d, Switch) + (IF x = Switch THEN 1 ELSE 0)
    BY CountAppend DEF T
  <2>2. Count(d, Switch) \in Nat
    BY CountIs DEF T
  <2> QED
    BY <2>1, <2>2
<1>4. ASSUME NEW s \in LineQueues PROVE MoreTurns(c, Queue(c, s))
  <2>1. Queue(c, s) = Append(c, Turn(s))
    BY DEF Queue, Turn
  <2>2. /\ ToSet(Append(c, Turn(s))) = ToSet(c) \cup {Turn(s)}
        /\ Count(Append(c, Turn(s)), Switch) = Count(c, Switch)
    BY <1>0, <1>1, <1>2, <1>3
  <2> QED
    BY <1>1, <1>2, <2>1, <2>2 DEF MoreTurns
<1>5. ASSUME NEW s \in LineQueues
                 PROVE MoreTurns(c, QueueEach(c, s)) /\ QueueEach(c, s) \in Chains
  <2>1. /\ QueueEach(c, s) \in Seq(Segments(Kinds))
        /\ ToSet(QueueEach(c, s)) \subseteq ToSet(c) \cup Segments({"turn"})
        /\ \A x : x \notin Segments({"turn"}) => Count(QueueEach(c, s), x) = Count(c, x)
    BY <1>0, QueueEachIs DEF LineQueues
  <2>2. Switch \notin Segments({"turn"}) /\ \A x \in Segments({"turn"}) : x.kind = "turn"
    BY DEF Segments, Switch
  <2>3. Count(QueueEach(c, s), Switch) = Count(c, Switch)
    BY <2>1, <2>2
  <2> QED
    BY <1>2, <2>1, <2>2, <2>3 DEF MoreTurns, Chains
<1>6. ASSUME NEW s \in LineQueues PROVE MoreTurns(c, Queue(Others(c), s) \o Turns(c))
  <2>1. /\ Others(c) \in T /\ Turns(c) \in T
        /\ ToSet(Others(c)) \subseteq ToSet(c) /\ ToSet(Turns(c)) \subseteq ToSet(c)
    BY <1>0, KeepSet DEF Others, Turns
  <2>2. Count(Others(c), Switch) = Count(c, Switch) /\ Count(Turns(c), Switch) = 0
    <3>1. Switch \in Segments(Kinds \ {"turn"}) /\ Switch \notin Segments({"turn"})
      BY DEF Segments, Switch, Kinds
    <3>2. \A S : Count(Keep(c, S), Switch) = IF Switch \in S THEN Count(c, Switch) ELSE 0
      BY <1>0, KeepSeq
    <3> QED
      BY <3>1, <3>2 DEF Others, Turns
  <2>3. Queue(Others(c), s) = Append(Others(c), Turn(s)) /\ Queue(Others(c), s) \in T
    BY <1>1, <2>1, AppendProperties DEF Queue, Turn
  <2>4. /\ ToSet(Append(Others(c), Turn(s))) = ToSet(Others(c)) \cup {Turn(s)}
        /\ Count(Append(Others(c), Turn(s)), Switch) = Count(c, Switch)
    BY <1>1, <1>2, <1>3, <2>1, <2>2
  <2>5. /\ ToSet(Queue(Others(c), s) \o Turns(c)) = ToSet(Queue(Others(c), s)) \cup ToSet(Turns(c))
        /\ Count(Queue(Others(c), s) \o Turns(c), Switch)
             = Count(Queue(Others(c), s), Switch) + Count(Turns(c), Switch)
    BY <2>1, <2>3, CountCat
  <2>6. Count(Queue(Others(c), s) \o Turns(c), Switch) = Count(c, Switch)
    BY <1>2, <2>2, <2>3, <2>4, <2>5
  <2>7. \A x \in ToSet(Queue(Others(c), s) \o Turns(c)) : x \in ToSet(c) \/ x = Turn(s)
    BY <2>1, <2>3, <2>4, <2>5
  <2> QED
    BY <1>1, <1>2, <2>6, <2>7 DEF MoreTurns
<1>7. ASSUME NEW i \in 1..Len(c) PROVE MoreTurns(c, RemoveAt(c, i))
  <2>1. /\ Count(c, Switch) = Count(RemoveAt(c, i), Switch) + (IF c[i] = Switch THEN 1 ELSE 0)
        /\ ToSet(RemoveAt(c, i)) \subseteq ToSet(c) /\ RemoveAt(c, i) \in T
    BY <1>0, SegmentsLined, RemoveAtCounts
  <2>2. Count(RemoveAt(c, i), Switch) \in Nat
    BY <2>1, CountIs
  <2> QED
    BY <2>1, <2>2 DEF MoreTurns
<1>8. \A x \in Segments(Kinds) \ {Switch} :
        /\ ToSet(Append(c, x)) = ToSet(c) \cup {x}
        /\ Count(Append(c, x), Switch) = Count(c, Switch)
  BY <1>0, <1>3
<1>9. /\ ToSet(Append(c, Switch)) = ToSet(c) \cup {Switch}
      /\ Count(Append(c, Switch), Switch) = Count(c, Switch) + 1
  BY <1>0, <1>1, <1>3
<1> QED
  BY <1>2, <1>4, <1>5, <1>6, <1>7, <1>8, <1>9

LEMMA ChainStep ==
  ASSUME Typed, Typed', EntryShape, ChainShape, Next
  PROVE  ChainShape'
<1> DEFINE A1 == [kind |-> "await", lines |-> <<>>]
           A2 == [kind |-> "awaitAgain", lines |-> <<>>]
<1>0. /\ A1.kind = "await" /\ A1.lines = <<>> /\ A2.kind = "awaitAgain" /\ A2.lines = <<>>
      /\ A1 \in Segments(Kinds) \ {Switch} /\ A2 \in Segments(Kinds) \ {Switch}
      /\ Switch.kind = "switch" /\ Switch.lines = <<>> /\ Switch \in Segments(Kinds)
  BY DEF Switch, Segments, Kinds
<1>A. \A c : Await(c) = Append(c, A1)
  BY DEF Await
<1>W. Switch = [kind |-> "switch", lines |-> <<>>]
  BY DEF Switch
<1>B. \A c : Append(c, [kind |-> "awaitAgain", lines |-> <<>>]) = Append(c, A2)
  OBVIOUS
<1> HIDE DEF A1, A2
<1>T. chain \in Chains /\ queuedLines \in LineQueues
  BY DEF Typed
<1>C. /\ \A x \in ToSet(chain) :
           /\ x.kind # "turn" => x.lines = <<>> /\ phase = "ready"
           /\ x.kind \in {"await", "awaitAgain"} => leaving
           /\ x.kind = "switch" => ~leaving
      /\ Count(chain, Switch) <= 1
      /\ Count(chain, Switch) \in Nat /\ (Count(chain, Switch) > 0 <=> Switch \in ToSet(chain))
  BY <1>T, ChainMoves DEF ChainShape
<1>K. ASSUME MoreTurns(chain, chain'), Count(chain', Switch) \in Nat,
             UNCHANGED <<phase, leaving>>
             \/ \A x \in ToSet(chain') : x.kind = "turn"
      PROVE  ChainShape'
  BY <1>K, <1>C DEF ChainShape, MoreTurns
<1>N. \A c \in Chains : Count(c, Switch) \in Nat /\ MoreTurns(c, c)
  <2>1. \A c \in Chains : Count(c, Switch) \in Nat
    BY ChainMoves
  <2> QED
    BY <2>1 DEF MoreTurns
<1>P. chain' \in Chains /\ Count(chain', Switch) \in Nat
  <2>1. chain' \in Chains
    BY DEF Typed
  <2> QED
    BY <2>1, <1>N
<1>M. /\ \A s \in LineQueues : MoreTurns(chain, Queue(chain, s))
      /\ \A s \in LineQueues : MoreTurns(chain, Queue(Others(chain), s) \o Turns(chain))
      /\ \A k \in 1..Len(chain) : MoreTurns(chain, RemoveAt(chain, k))
      /\ MoreTurns(chain, chain)
  BY <1>T, <1>N, ChainMoves
<1>Q. /\ <<>> \in LineQueues /\ \A l \in Lines : <<l>> \in LineQueues
      /\ \A s, t \in LineQueues : s \o t \in LineQueues
      /\ Handed(Len(Humans(run.ingress))) \in LineQueues
      /\ Handed(Len(run.unadmitted)) \in LineQueues
  <2>1. /\ <<>> \in LineQueues /\ \A l \in Lines : <<l>> \in LineQueues
        /\ \A s, t \in LineQueues : s \o t \in LineQueues
    BY ConcatProperties DEF LineQueues
  <2> QED
    BY <2>1, TypedRun
<1>H. chain # <<>> =>
        /\ Head(chain) \in ToSet(chain) /\ ToSet(Tail(chain)) \subseteq ToSet(chain)
        /\ Head(chain) \in Segments(Kinds) /\ Tail(chain) \in Chains
        /\ Count(Tail(chain), Switch) \in Nat
        /\ Count(chain, Switch) = (IF Head(chain) = Switch THEN 1 ELSE 0) + Count(Tail(chain), Switch)
        /\ (Count(Tail(chain), Switch) > 0 <=> Switch \in ToSet(Tail(chain)))
  BY HeadIn, ChainMoves
<1>D. /\ phase # "ready" => \A x \in ToSet(chain) : x.kind = "turn"
      /\ NoSwitchWaits => \A x \in ToSet(chain) : x.kind # "switch"
      /\ \A x \in ToSet(chain) : x \in Segments(Kinds)
      /\ ToSet(<<>>) = {} /\ Count(<<>>, Switch) = 0
  <2>1. NoSwitchWaits => \A x \in ToSet(chain) : x.kind # "switch"
    BY DEF NoSwitchWaits, ToSet
  <2>2. \A x \in ToSet(chain) : x \in Segments(Kinds)
    BY <1>T, SetIs DEF Chains
  <2> QED
    BY <1>C, <2>1, <2>2, CountEmpty
<1>E. \A x \in Segments(Kinds) : x.kind = "switch" /\ x.lines = <<>> => x = Switch
  BY DEF Segments, Switch
<1>a. ASSUME MoreTurns(chain, chain'), UNCHANGED <<phase, leaving>> PROVE ChainShape'
  BY <1>a, <1>C, <1>P DEF ChainShape, MoreTurns
<1>1. CASE EnterEarly
  BY <1>1, <1>a, <1>M, <1>Q DEF EnterEarly
<1>2. CASE EnterBetween
  BY <1>2, <1>a, <1>M, <1>Q DEF EnterBetween
<1>3. CASE RedirectIdle
  BY <1>3, <1>a, <1>M, <1>Q DEF RedirectIdle
<1>4. CASE RedirectRun
  BY <1>4, <1>a, <1>M, <1>Q DEF RedirectRun, Mirror
<1>5. CASE Escape
  BY <1>5, <1>a, <1>M, <1>Q DEF Escape, Mirror
<1>6. CASE UpSteer
  BY <1>6, <1>a, <1>M, <1>Q DEF UpSteer, Mirror
<1>7. CASE Wake
  BY <1>7, <1>a, <1>M, <1>Q DEF Wake
<1>8. CASE Notify
  BY <1>8, <1>a, <1>M, <1>Q DEF Notify
<1>9. CASE Decides
  BY <1>9, <1>a, <1>M, <1>Q DEF Decides
<1>10. CASE Declines
  BY <1>10, <1>a, <1>M, <1>Q DEF Declines
<1>11. CASE Begins
  BY <1>11, <1>a, <1>M, <1>Q DEF Begins
<1>12. CASE Admit
  BY <1>12, <1>a, <1>M, <1>Q DEF Admit
<1>13. CASE Land
  BY <1>13, <1>a, <1>M, <1>Q DEF Land
<1>14. CASE Seal
  BY <1>14, <1>a, <1>M, <1>Q DEF Seal
<1>15. CASE Throws
  BY <1>15, <1>a, <1>M, <1>Q DEF Throws
<1>16. CASE Settles
  BY <1>16, <1>a, <1>M, <1>Q DEF Settles
<1>17. CASE Enter
  <2>1. PICK l \in Lines : Submit(l) /\ UNCHANGED <<phase, leaving>>
    BY <1>17 DEF Enter
  <2>2. MoreTurns(chain, chain')
    BY <2>1, <1>M, <1>Q DEF Submit
  <2> QED
    BY <2>1, <2>2, <1>a
<1>18. CASE UpTurn
  <2>1. LastTurnOf(chain) \in 1..Len(chain) /\ chain' = RemoveAt(chain, LastTurnOf(chain))
    <3>1. {k \in DOMAIN chain : chain[k].kind = "turn"} # {}
      BY <1>18 DEF UpTurn
    <3> QED
      BY <1>18, <3>1, LastTurn DEF UpTurn, LastTurnOf
  <2>2. UNCHANGED <<phase, leaving>>
    BY <1>18 DEF UpTurn
  <2> QED
    BY <2>1, <2>2, <1>a, <1>M
<1>19. CASE TurnStarts
  <2>1. chain # <<>> /\ chain' = Tail(chain) /\ UNCHANGED <<phase, leaving>>
    BY <1>19 DEF TurnStarts, NextIs
  <2> QED
    BY <2>1, <1>H, <1>C, <1>a DEF MoreTurns
<1>20. CASE SwitchNow
  <2>1. chain' = Append(chain, A1) /\ leaving' = TRUE /\ phase = "ready" /\ phase' = phase /\ NoSwitchWaits
    BY <1>20, <1>A DEF SwitchNow
  <2>2. ToSet(chain') = ToSet(chain) \cup {A1} /\ Count(chain', Switch) = Count(chain, Switch)
    BY <1>0, <1>T, <2>1, ChainMoves
  <2> QED
    BY <1>0, <1>C, <1>D, <2>1, <2>2 DEF ChainShape
<1>21. CASE SwitchLater
  <2>1. chain' = Append(chain, Switch) /\ ~leaving /\ phase = "ready" /\ NoSwitchWaits
        /\ UNCHANGED <<phase, leaving>>
    BY <1>21 DEF SwitchLater, Switch
  <2>2. ToSet(chain') = ToSet(chain) \cup {Switch} /\ Count(chain', Switch) = Count(chain, Switch) + 1
    BY <1>T, <2>1, ChainMoves
  <2>3. Count(chain, Switch) = 0
    BY <1>0, <1>C, <1>D, <2>1
  <2> QED
    BY <1>0, <1>C, <2>1, <2>2, <2>3 DEF ChainShape
<1>22. CASE SwitchDecides
  <2>1. /\ chain # <<>> /\ Head(chain).kind = "switch" /\ phase' = phase
        /\ \/ chain' = Tail(chain) /\ UNCHANGED leaving
           \/ chain' = Append(Tail(chain), A1) /\ leaving' = TRUE
    BY <1>22, <1>A DEF SwitchDecides, NextIs
  <2>2. Head(chain) = Switch /\ phase = "ready" /\ ~leaving
    BY <1>C, <1>E, <1>H, <2>1
  <2>3. Count(Tail(chain), Switch) = 0 /\ \A x \in ToSet(Tail(chain)) : x.kind # "switch"
    BY <1>C, <1>D, <1>E, <1>H, <2>1, <2>2
  <2>4. CASE chain' = Tail(chain) /\ UNCHANGED leaving
    BY <1>C, <1>H, <2>1, <2>2, <2>4, <1>a DEF MoreTurns
  <2>5. CASE chain' = Append(Tail(chain), A1) /\ leaving' = TRUE
    <3>1. /\ ToSet(chain') = ToSet(Tail(chain)) \cup {A1}
          /\ Count(chain', Switch) = Count(Tail(chain), Switch)
      BY <1>0, <1>H, <2>1, <2>5, ChainMoves
    <3> QED
      BY <1>0, <1>C, <1>H, <2>1, <2>2, <2>3, <2>5, <3>1 DEF ChainShape
  <2> QED
    BY <2>1, <2>4, <2>5
<1>23. CASE AwaitsAgain
  <2>1. /\ chain # <<>> /\ Head(chain).kind = "await" /\ UNCHANGED <<phase, leaving>>
        /\ chain' = Append(Tail(chain), A2)
    BY <1>23, <1>B DEF AwaitsAgain, NextIs
  <2>2. leaving /\ phase = "ready"
    BY <1>C, <1>H, <2>1
  <2>3. /\ ToSet(chain') = ToSet(Tail(chain)) \cup {A2}
        /\ Count(chain', Switch) = Count(Tail(chain), Switch)
    BY <1>0, <1>H, <2>1, ChainMoves
  <2> QED
    BY <1>0, <1>C, <1>H, <2>1, <2>2, <2>3 DEF ChainShape
<1>24. CASE ChatReturns
  <2>1. chain' = <<>>
    BY <1>24 DEF ChatReturns
  <2>2. ToSet(chain') = {} /\ Count(chain', Switch) = 0
    BY <2>1, <1>D
  <2> QED
    BY <2>2 DEF ChainShape
<1>b. ASSUME phase # "ready", MoreTurns(chain, chain') PROVE ChainShape'
  <2>1. \A x \in ToSet(chain') : x.kind = "turn"
    BY <1>b, <1>D DEF MoreTurns
  <2> QED
    BY <1>b, <1>C, <1>P, <2>1 DEF ChainShape, MoreTurns
<1>25. CASE RecoveryStarts \/ RecoveryThrows
  BY <1>25, <1>M, <1>b DEF RecoveryStarts, RecoveryThrows
<1>26. CASE RecoverySettles
  <2>1. phase = "recovering" /\ phase' = "ready"
    BY <1>26 DEF RecoverySettles
  <2>2. CASE chain' = QueueEach(chain, queuedLines)
    BY <1>T, <2>1, <2>2, <1>b, ChainMoves
  <2>3. CASE \E k \in 0..(Len(queuedLines) - 1) :
               /\ chain' = Await(QueueEach(chain, SubSeq(queuedLines, 1, k))) /\ leaving' = TRUE
    <3>1. PICK k \in 0..(Len(queuedLines) - 1) :
               /\ chain' = Await(QueueEach(chain, SubSeq(queuedLines, 1, k))) /\ leaving' = TRUE
      BY <2>3
    <3> DEFINE f == SubSeq(queuedLines, 1, k)
               d == QueueEach(chain, f)
    <3>2. f \in LineQueues
      <4>1. Len(queuedLines) \in Nat
        BY <1>T, LenProperties DEF LineQueues
      <4>2. k \in Nat /\ k <= Len(queuedLines)
        BY <4>1
      <4> QED
        BY <1>T, <4>2, TypedMarks
    <3> HIDE DEF f
    <3>3. d \in Chains /\ MoreTurns(chain, d)
      BY <1>T, <3>2, ChainMoves
    <3>4. chain' = Append(d, A1)
      BY <3>1, <1>A DEF f
    <3> HIDE DEF d
    <3>5. ToSet(chain') = ToSet(d) \cup {A1} /\ Count(chain', Switch) = Count(d, Switch)
      BY <1>0, <3>3, <3>4, ChainMoves
    <3>6. \A x \in ToSet(d) : x.kind = "turn"
      BY <1>D, <2>1, <3>3 DEF MoreTurns
    <3> QED
      BY <1>0, <1>C, <1>P, <2>1, <3>1, <3>3, <3>5, <3>6 DEF ChainShape, MoreTurns
  <2> QED
    BY <1>26, <2>2, <2>3 DEF RecoverySettles
<1>27. CASE NextEntry \/ SwitchRefused
  BY <1>27, <1>M, <1>b DEF NextEntry, SwitchRefused
<1> QED
  BY <1>1, <1>2, <1>3, <1>4, <1>5, <1>6, <1>7, <1>8, <1>9, <1>10, <1>11, <1>12, <1>13,
     <1>14, <1>15, <1>16, <1>17, <1>18, <1>19, <1>20, <1>21, <1>22, <1>23, <1>24, <1>25,
     <1>26, <1>27 DEF Next

-----------------------------------------------------------------------------
(* The mirror keeps to what the run holds.                                 *)

LEMMA EmptyRun ==
  ASSUME NEW r, r.ingress = <<>>, r.taken = <<>>, r.unadmitted = <<>>
  PROVE  WaitingIn(r) = <<>> /\ InHand(r) = {}
<1>1. Humans(<<>>) = <<>> /\ ToSet(<<>>) = {}
  BY KeepEmpty, CountEmpty DEF Humans
<1>2. <<>> \o <<>> = <<>>
  OBVIOUS
<1> QED
  BY <1>1, <1>2 DEF WaitingIn, InHand

LEMMA MarksGrow ==
  ASSUME Typed, Next
  PROVE  marks \subseteq marks'
<1>1. \A r, st, more : Mirror(r, st, more) => marks \subseteq marks'
  BY DEF Mirror
<1> QED
  BY <1>1 DEF Next, EnterEarly, EnterBetween, Enter, RedirectIdle, RedirectRun, Escape,
     UpSteer, UpTurn, SwitchNow, SwitchLater, Wake, Notify, TurnStarts, Decides, Declines,
     SwitchDecides, AwaitsAgain, ChatReturns, Begins, Admit, Land, Seal, Throws, Settles,
     RecoveryStarts, RecoverySettles, RecoveryThrows, NextEntry, SwitchRefused

LEMMA MirrorStep ==
  ASSUME Typed, Typed', RunShape, RunShape', Mirrored, Next
  PROVE  Mirrored'
<1> DEFINE A == Humans(run.taken)
           B == Humans(run.ingress)
<1>T. /\ run \in Runs /\ run' \in Runs /\ steering \in Seq(Lines) /\ steering' \in Seq(Lines)
      /\ marks \subseteq marks' /\ InHand(run) \subseteq Lines
  BY MarksGrow, TypedRun DEF Typed, LineQueues
<1>H. InHand(run') \subseteq Lines
  BY <1>T, TypedMarks
<1>R. /\ A \in Seq(Lines) /\ B \in Seq(Lines) /\ run.unadmitted \in Seq(Lines)
      /\ run.ingress \in Seq(Lines \cup {None})
  BY <1>T, RunIs
<1>S. /\ run.st \notin {"begun", "live"} => run.ingress = <<>> /\ run.taken = <<>>
      /\ run.st \in {"begun", "live"} => run.unadmitted = <<>>
      /\ run.st \in {"none", "begun", "live", "sealed"}
      /\ run = [st |-> run.st, ingress |-> run.ingress, taken |-> run.taken,
                unadmitted |-> run.unadmitted]
  BY ShapeFacts DEF RunShape
<1>L. InHand(run) = ToSet(B) \cup ToSet(A) \cup ToSet(run.unadmitted)
      /\ WaitingIn(run) = A \o B \o run.unadmitted
  BY DEF InHand, WaitingIn
<1>E. /\ \A s \in Seq(Lines) : <<>> \o s = s /\ s \o <<>> = s
      /\ Humans(<<>>) = <<>> /\ ToSet(<<>>) = {} /\ <<>> \in Seq(Lines)
  BY ConcatEmptySeq, HumansMore, CountEmpty, KeepEmpty DEF Humans
<1>m. \A r, st, more : Mirror(r, st, more) =>
        /\ run' = r /\ steering' = st
        /\ (InHand(run') \ ToSet(steering')) \subseteq {l \in Lines : <<"unmirrored", l>> \in marks'}
  <2>1. \A l \in Lines : l # None
    BY DEF Lines, None
  <2> QED
    BY <1>H, <2>1 DEF Mirror, Mark
<1>K. ASSUME steering' = <<>>,
             (InHand(run') \ ToSet(steering')) \subseteq {l \in Lines : <<"unmirrored", l>> \in marks'}
      PROVE  Mirrored'
  <2>1. WaitingIn(run') \in Seq(Lines)
    <3>1. Humans(run'.taken) \in Seq(Lines) /\ Humans(run'.ingress) \in Seq(Lines)
          /\ run'.unadmitted \in Seq(Lines)
      BY <1>T, HumansIs DEF Runs
    <3> QED
      BY <3>1, ConcatProperties DEF WaitingIn
  <2>2. Suffixed(<<>>, WaitingIn(run'))
    BY <2>1, SuffixedEmpty
  <2> QED
    BY <1>K, <2>2 DEF Mirrored, Marked
<1>N. ASSUME run'.ingress = <<>>, run'.taken = <<>>, run'.unadmitted = <<>>
      PROVE  Mirrored'
  <2>1. WaitingIn(run') = <<>> /\ InHand(run') = {}
    BY <1>N, EmptyRun
  <2>2. Suffixed(steering', <<>>)
    BY <1>T, SuffixedEmpty
  <2> QED
    BY <2>1, <2>2 DEF Mirrored
<1>U. ASSUME steering' = steering, InHand(run') \subseteq InHand(run),
             Suffixed(steering, WaitingIn(run'))
      PROVE  Mirrored'
  BY <1>U, <1>T DEF Mirrored, Marked
<1>V. Suffixed(steering, WaitingIn(run))
      /\ (InHand(run) \ ToSet(steering)) \subseteq {l \in Lines : <<"unmirrored", l>> \in marks'}
  BY <1>T DEF Mirrored, Marked
<1>W. ASSUME UNCHANGED <<run, steering>> PROVE Mirrored'
  BY <1>W, <1>V, <1>U
<1>X. run.st \in {"begun", "live"}
          => WaitingIn(run) = A \o B /\ InHand(run) = ToSet(B) \cup ToSet(A)
  <2>1. A \o B \in Seq(Lines)
    BY <1>R, ConcatProperties
  <2> HIDE DEF A, B
  <2> QED
    BY <1>L, <1>S, <1>E, <2>1
<1> HIDE DEF A, B
<1>1. CASE EnterEarly \/ EnterBetween \/ RedirectIdle \/ SwitchNow \/ SwitchLater \/ Wake
           \/ Declines \/ SwitchDecides \/ AwaitsAgain \/ ChatReturns \/ RecoveryStarts
           \/ RecoveryThrows \/ NextEntry \/ SwitchRefused
  BY <1>1, <1>W DEF EnterEarly, EnterBetween, RedirectIdle, SwitchNow, SwitchLater,
     Wake,
     Declines, SwitchDecides, AwaitsAgain, ChatReturns, RecoveryStarts,
     RecoveryThrows, NextEntry, SwitchRefused
<1>2. CASE Enter
  <2>1. PICK l \in Lines : Submit(l)
    BY <1>2 DEF Enter
  <2>2. CASE Steers
    <3>1. run' = [run EXCEPT !.ingress = Append(@, l)] /\ steering' = Append(steering, l)
          /\ run.st \in {"begun", "live"}
      BY <2>1, <2>2 DEF Submit, Steers
    <3>2. run'.taken = run.taken /\ run'.ingress = Append(run.ingress, l) /\ run'.unadmitted = <<>>
      BY <1>S, <3>1
    <3>3. Humans(Append(run.ingress, l)) = Append(B, l)
      BY <1>R, HumansMore DEF B
    <3>4. WaitingIn(run') = (A \o Append(B, l)) \o <<>>
      BY <3>2, <3>3 DEF WaitingIn, A
    <3>5. A \o Append(B, l) = Append(A \o B, l) /\ A \o B \in Seq(Lines)
      BY <1>R, ConcatAppend
    <3>6. Append(A \o B, l) \in Seq(Lines)
      BY <3>5, AppendProperties
    <3>7. WaitingIn(run') = Append(A \o B, l)
      BY <1>E, <3>4, <3>5, <3>6
    <3>8. Suffixed(Append(steering, l), Append(A \o B, l))
      BY <1>T, <1>V, <1>X, <3>1, <3>5, SuffixedAppend
    <3>9. ToSet(Append(steering, l)) = ToSet(steering) \cup {l} /\ ToSet(Append(B, l)) = ToSet(B) \cup {l}
      BY <1>T, <1>R, CountAppend
    <3>10. InHand(run') = ToSet(Append(B, l)) \cup ToSet(A)
      BY <1>E, <3>2, <3>3 DEF InHand, A
    <3> QED
      BY <1>V, <1>X, <3>1, <3>7, <3>8, <3>9, <3>10 DEF Mirrored, Marked
  <2>3. CASE ~Steers
    <3>1. UNCHANGED <<run, steering>>
      BY <2>1, <2>3 DEF Submit
    <3> QED
      BY <3>1, <1>W
  <2> QED
    BY <2>2, <2>3
<1>3. CASE RedirectRun \/ Escape \/ Land
  <2>1. \E r, more : Mirror(r, <<>>, more)
    BY <1>3 DEF RedirectRun, Escape, Land
  <2>2. PICK r, more : Mirror(r, <<>>, more)
    BY <2>1
  <2> QED
    BY <2>2, <1>m, <1>K
<1>4. CASE UpSteer
  <2>1. /\ Handed(Len(B)) # <<>> /\ B # <<>>
        /\ Mirror([run EXCEPT !.ingress = Notices(@) \o Front(B)], Front(Handed(Len(B))), {})
    BY <1>4 DEF UpSteer, B
  <2>2. run.st \in {"begun", "live"}
    BY <1>S, <1>E, <2>1 DEF B
  <2>3. /\ run'.ingress = Notices(run.ingress) \o Front(B) /\ run'.taken = run.taken
        /\ run'.unadmitted = <<>> /\ steering' = Front(Handed(Len(B)))
    BY <1>S, <1>m, <2>1, <2>2
  <2>4. Front(B) \in Seq(Lines)
    BY <1>R, <2>1, FrontAndLast
  <2>5. Humans(run'.ingress) = Front(B)
    BY <1>R, <2>3, <2>4, HumansMore
  <2>6. WaitingIn(run') = A \o Front(B)
    <3>1. WaitingIn(run') = (A \o Front(B)) \o <<>>
      BY <2>3, <2>5 DEF WaitingIn, A
    <3>2. A \o Front(B) \in Seq(Lines)
      BY <1>R, <2>4, ConcatProperties
    <3> QED
      BY <1>E, <3>1, <3>2
  <2>7. Suffixed(Front(LastOf(steering, Len(B))), A \o Front(B))
    <3>1. Suffixed(steering, A \o B)
      BY <1>V, <1>X, <2>2
    <3>2. LastOf(steering, Len(B)) # <<>>
      BY <2>1 DEF Handed
    <3> QED
      BY <1>R, <1>T, <2>1, <3>1, <3>2, HandedFront
  <2>8. Suffixed(steering', WaitingIn(run'))
    BY <2>3, <2>6, <2>7 DEF Handed
  <2>9. (InHand(run') \ ToSet(steering')) \subseteq {l \in Lines : <<"unmirrored", l>> \in marks'}
    BY <2>1, <1>m
  <2> QED
    BY <2>8, <2>9 DEF Mirrored, Marked
<1>5. CASE UpTurn
  <2>1. Mirror(run, IF cur # "none" THEN <<>> ELSE steering, {})
    BY <1>5 DEF UpTurn
  <2>2. CASE cur # "none"
    <3>1. Mirror(run, <<>>, {})
      BY <2>1, <2>2
    <3> QED
      BY <3>1, <1>m, <1>K
  <2>3. CASE cur = "none"
    <3>1. Mirror(run, steering, {})
      BY <2>1, <2>3
    <3> QED
      BY <3>1, <1>m, <1>W
  <2> QED
    BY <2>2, <2>3
<1>6. CASE Notify
  <2>1. run' = [run EXCEPT !.ingress = Append(@, None)] /\ steering' = steering
    BY <1>6 DEF Notify
  <2>2. /\ run'.ingress = Append(run.ingress, None) /\ run'.taken = run.taken
        /\ run'.unadmitted = run.unadmitted
    BY <1>S, <2>1
  <2>3. Humans(run'.ingress) = B
    BY <1>R, <2>2, HumansMore DEF B
  <2>4. WaitingIn(run') = WaitingIn(run) /\ InHand(run') = InHand(run)
    BY <2>2, <2>3 DEF WaitingIn, InHand, B
  <2> QED
    BY <1>U, <1>V, <2>1, <2>4
<1>7. CASE TurnStarts \/ Decides
  <2>1. steering' = steering /\ (run' = run \/ \E s : TurnBegins(s))
    BY <1>7 DEF TurnStarts, Decides
  <2>2. CASE run' = run
    BY <2>1, <2>2, <1>W
  <2>3. CASE \E s : TurnBegins(s)
    <3>1. run'.ingress = <<>> /\ run'.taken = <<>> /\ run'.unadmitted = <<>>
      BY <2>3 DEF TurnBegins, NoRun
    <3> QED
      BY <3>1, <1>N
  <2> QED
    BY <2>1, <2>2, <2>3
<1>8. CASE Begins
  <2>1. run' = [run EXCEPT !.st = "live"] /\ steering' = steering
    BY <1>8 DEF Begins
  <2>2. /\ run'.ingress = run.ingress /\ run'.taken = run.taken
        /\ run'.unadmitted = run.unadmitted
    BY <1>S, <2>1
  <2>4. WaitingIn(run') = WaitingIn(run) /\ InHand(run') = InHand(run)
    BY <2>2 DEF WaitingIn, InHand
  <2> QED
    BY <1>U, <1>V, <2>1, <2>4
<1>9. CASE Admit
  <2>1. /\ run.st = "live" /\ run.taken = <<>> /\ steering' = steering
        /\ run' = [run EXCEPT !.taken = run.ingress, !.ingress = <<>>]
    BY <1>9 DEF Admit
  <2>2. run'.ingress = <<>> /\ run'.taken = run.ingress /\ run'.unadmitted = <<>>
    BY <1>S, <2>1
  <2>3. A = <<>>
    BY <1>E, <2>1 DEF A
  <2>4. WaitingIn(run') = B
    BY <1>E, <1>R, <2>2 DEF WaitingIn, B
  <2>5. WaitingIn(run) = B /\ InHand(run) = ToSet(B)
    BY <1>E, <1>R, <1>X, <2>1, <2>3
  <2>6. InHand(run') = ToSet(B)
    BY <1>E, <2>2 DEF InHand, B
  <2> QED
    BY <1>U, <1>V, <2>1, <2>4, <2>5, <2>6
<1>10. CASE Seal
  <2>1. run.st = "live" /\ run.taken = <<>> /\ steering' = steering /\ run' = Sealed
    BY <1>10 DEF Seal
  <2>2. run'.ingress = <<>> /\ run'.taken = <<>> /\ run'.unadmitted = B
    BY <1>S, <2>1 DEF Sealed, B
  <2>3. A = <<>>
    BY <1>E, <2>1 DEF A
  <2>4. WaitingIn(run') = B
    BY <1>E, <1>R, <2>2 DEF WaitingIn
  <2>5. WaitingIn(run) = B /\ InHand(run) = ToSet(B)
    BY <1>E, <1>R, <1>X, <2>1, <2>3
  <2>6. InHand(run') = ToSet(B)
    BY <1>E, <2>2 DEF InHand
  <2> QED
    BY <1>U, <1>V, <2>1, <2>4, <2>5, <2>6
<1>11. CASE Throws
  <2>1. run.st \in {"begun", "live"} /\ steering' = steering /\ run' = Sealed
    BY <1>11 DEF Throws
  <2>2. run'.ingress = <<>> /\ run'.taken = <<>> /\ run'.unadmitted = B
    BY <1>S, <2>1 DEF Sealed, B
  <2>4. WaitingIn(run') = B
    BY <1>E, <1>R, <2>2 DEF WaitingIn
  <2>5. Suffixed(steering, B)
    <3>1. Suffixed(steering, A \o B)
      BY <1>V, <1>X, <2>1
    <3> QED
      BY <1>R, <1>T, <3>1, SuffixedDrop
  <2>6. InHand(run') = ToSet(B)
    BY <1>E, <2>2 DEF InHand
  <2> QED
    BY <1>U, <1>X, <2>1, <2>4, <2>5, <2>6
<1>12. CASE Settles
  <2>1. run'.ingress = <<>> /\ run'.taken = <<>> /\ run'.unadmitted = <<>>
    BY <1>12 DEF Settles, NoRun
  <2> QED
    BY <2>1, <1>N
<1>13. CASE RecoverySettles
  <2>1. run' = run /\ steering' = <<>> /\ slot # "turn"
    BY <1>13 DEF RecoverySettles
  <2>2. run.ingress = <<>> /\ run.taken = <<>> /\ run.unadmitted = <<>>
    BY <1>S, <2>1 DEF RunShape
  <2> QED
    BY <2>1, <2>2, <1>N
<1> QED
  BY <1>1, <1>2, <1>3, <1>4, <1>5, <1>6, <1>7, <1>8, <1>9, <1>10, <1>11, <1>12, <1>13
     DEF Next

-----------------------------------------------------------------------------
(* Where a line goes: a step takes it from one place to at most one other. *)

\* What a chain, a log and a queue hold of a line after each kind of change.
LEMMA ChainCounts ==
  ASSUME NEW c \in Chains, NEW l
  PROVE  /\ CountIn(c, l) \in Nat /\ CountIn(<<>>, l) = 0
         /\ (CountIn(c, l) > 0 <=> l \in ToSet(LinesOf(c)))
         /\ \A s \in LineQueues : CountIn(Queue(c, s), l) = CountIn(c, l) + Count(s, l)
         /\ \A s \in LineQueues : CountIn(QueueEach(c, s), l) = CountIn(c, l) + Count(s, l)
         /\ CountIn(Await(c), l) = CountIn(c, l)
         /\ CountIn(Append(c, Switch), l) = CountIn(c, l)
         /\ CountIn(Append(c, [kind |-> "awaitAgain", lines |-> <<>>]), l) = CountIn(c, l)
         /\ \A s \in LineQueues :
              CountIn(Queue(Others(c), s) \o Turns(c), l) = CountIn(c, l) + Count(s, l)
         /\ \A i \in 1..Len(c) :
              CountIn(RemoveAt(c, i), l) + Count(c[i].lines, l) = CountIn(c, l)
<1> DEFINE R == Segments(Kinds)
           e2 == [kind |-> "await", lines |-> <<>>]
           e3 == [kind |-> "awaitAgain", lines |-> <<>>]
<1>0. /\ c \in Seq(R) /\ Lined(R, Lines) /\ Switch \in R /\ e2 \in R /\ e3 \in R
      /\ \A s \in LineQueues : [kind |-> "turn", lines |-> s] \in R
      /\ Switch.lines = <<>> /\ e2.lines = <<>> /\ e3.lines = <<>>
      /\ \A s : [kind |-> "turn", lines |-> s].lines = s
  BY SegmentsLined DEF Chains, Switch, Segments, Kinds, LineQueues
<1>1. Count(<<>>, l) = 0 /\ LinesOf(<<>>) = <<>>
  BY CountEmpty, LinesEmpty
<1>2. CountIn(c, l) \in Nat /\ (CountIn(c, l) > 0 <=> l \in ToSet(LinesOf(c)))
  BY <1>0, CountInIs
<1>A. \A d \in Seq(R) : \A e \in R : CountIn(Append(d, e), l) = CountIn(d, l) + Count(e.lines, l)
  BY <1>0, CountInAppend
<1>3. \A d \in Seq(R) : \A s \in LineQueues : CountIn(Queue(d, s), l) = CountIn(d, l) + Count(s, l)
  BY <1>0, <1>A DEF Queue
<1>4. ASSUME NEW s \in LineQueues
                 PROVE CountIn(QueueEach(c, s), l) = CountIn(c, l) + Count(s, l)
  <2>1. LinesOf(QueueEach(c, s)) = LinesOf(c) \o s /\ s \in Seq(Lines)
    BY <1>0, QueueEachIs DEF LineQueues
  <2>2. LinesOf(c) \in Seq(Lines)
    BY <1>0, QueueIs, <2>1
  <2> QED
    BY <2>1, <2>2, CountCat DEF CountIn
<1>5. /\ CountIn(Append(c, e2), l) = CountIn(c, l) + 0
      /\ CountIn(Append(c, Switch), l) = CountIn(c, l) + 0
      /\ CountIn(Append(c, e3), l) = CountIn(c, l) + 0
  BY <1>0, <1>1, <1>A
<1>6. ASSUME NEW s \in LineQueues
      PROVE  CountIn(Queue(Others(c), s) \o Turns(c), l) = CountIn(c, l) + Count(s, l)
  <2>1. Others(c) \in Seq(R) /\ Turns(c) \in Seq(R) /\ Queue(Others(c), s) \in Seq(R)
        /\ s \in Seq(Lines)
    BY <1>0, QueueIs DEF LineQueues
  <2>2. CountIn(Queue(Others(c), s) \o Turns(c), l)
          = CountIn(Queue(Others(c), s), l) + CountIn(Turns(c), l)
    BY <1>0, <2>1, CountInSum
  <2>3. CountIn(Turns(c), l) + CountIn(Others(c), l) = CountIn(c, l)
    BY <1>0, SegmentsLined, KeepSplits DEF Turns, Others
  <2>4. CountIn(Turns(c), l) \in Nat /\ CountIn(Others(c), l) \in Nat /\ Count(s, l) \in Nat
    BY <1>0, <2>1, CountInIs, CountIs
  <2> QED
    BY <1>3, <2>1, <2>2, <2>3, <2>4
<1>7. ASSUME NEW i \in 1..Len(c)
      PROVE  CountIn(RemoveAt(c, i), l) + Count(c[i].lines, l) = CountIn(c, l)
  BY <1>0, RemoveAtCounts
<1> HIDE DEF R
<1> QED
  BY <1>0, <1>1, <1>2, <1>3, <1>4, <1>5, <1>6, <1>7 DEF CountIn, Await

LEMMA QueueCounts ==
  ASSUME NEW l
  PROVE  /\ Count(<<>>, l) = 0
         /\ \A s \in LineQueues : Count(s, l) \in Nat /\ (Count(s, l) > 0 <=> l \in ToSet(s))
         /\ \A s, t \in LineQueues : Count(s \o t, l) = Count(s, l) + Count(t, l)
         /\ \A s \in LineQueues, x \in Lines :
              Count(Append(s, x), l) = Count(s, l) + (IF x = l THEN 1 ELSE 0)
         /\ \A x \in Lines : Count(<<x>>, l) = IF x = l THEN 1 ELSE 0
<1>1. \A s \in Seq(Lines) : Count(s, l) \in Nat /\ (Count(s, l) > 0 <=> l \in ToSet(s))
  BY CountIs
<1>2. \A s, t \in Seq(Lines) : Count(s \o t, l) = Count(s, l) + Count(t, l)
  BY CountCat
<1>3. \A s \in Seq(Lines), x \in Lines :
        Count(Append(s, x), l) = Count(s, l) + (IF x = l THEN 1 ELSE 0)
  BY CountAppend
<1>4. Count(<<>>, l) = 0 /\ \A x \in Lines : Count(<<x>>, l) = IF x = l THEN 1 ELSE 0
  BY CountEmpty, CountOne
<1> QED
  BY <1>1, <1>2, <1>3, <1>4 DEF LineQueues

LEMMA LogCounts ==
  ASSUME Typed, NEW l
  PROVE  /\ CountIn(log, l) \in Nat
         /\ (CountIn(log, l) > 0 <=> l \in ToSet(LinesOf(log)))
         /\ \A s \in LineQueues : Said(s) \in Logs
                                  /\ CountIn(Said(s), l) = CountIn(log, l) + Count(s, l)
                                  /\ LinesOf(Said(s)) = LinesOf(log) \o s
<1>1. log \in Seq(Inputs) /\ Lined(Inputs, Lines) /\ session \in Nat
  BY DEF Typed, Logs, Inputs, Lined
<1>2. CountIn(log, l) \in Nat /\ (CountIn(log, l) > 0 <=> l \in ToSet(LinesOf(log)))
  BY <1>1, CountInIs
<1>3. ASSUME NEW s \in LineQueues
      PROVE  Said(s) \in Logs /\ CountIn(Said(s), l) = CountIn(log, l) + Count(s, l)
             /\ LinesOf(Said(s)) = LinesOf(log) \o s
  <2> DEFINE e == [session |-> session, lines |-> s]
  <2>1. e \in Inputs /\ e.lines = s
    BY <1>1 DEF Inputs, LineQueues
  <2>2. /\ Append(log, e) \in Seq(Inputs)
        /\ CountIn(Append(log, e), l) = CountIn(log, l) + Count(s, l)
        /\ LinesOf(Append(log, e)) = LinesOf(log) \o s
    BY <1>1, <2>1, AppendProperties, CountInAppend, LinesAppend
  <2>3. Count(<<>>, l) = 0 /\ LinesOf(log) \in Seq(Lines)
    BY <1>1, CountEmpty, LinesCat
  <2>4. LinesOf(log) \o <<>> = LinesOf(log)
    BY <2>3, ConcatEmptySeq
  <2>5. CASE s = <<>>
    BY <1>1, <1>2, <2>3, <2>4, <2>5 DEF Said, Logs
  <2>6. CASE s # <<>>
    BY <2>2, <2>6 DEF Said, Logs
  <2> QED
    BY <2>5, <2>6
<1> QED
  BY <1>2, <1>3

\* What a run gives back is what it held, and what it held and does not
\* give back is noted.
LEMMA GivesBack ==
  ASSUME Typed, RunShape, Mirrored
  PROVE  LET B == Humans(run.ingress)
         IN /\ Handed(Len(B)) \in LineQueues /\ Handed(Len(run.unadmitted)) \in LineQueues
            /\ B \in LineQueues /\ run.unadmitted \in LineQueues
            /\ \A l \in Lines :
                 /\ Count(Handed(Len(B)), l) <= Count(B, l)
                 /\ Count(B, l) > 0 /\ Count(Handed(Len(B)), l) = 0
                        => <<"unmirrored", l>> \in marks
                 /\ Count(Handed(Len(run.unadmitted)), l) <= Count(run.unadmitted, l)
                 /\ Count(run.unadmitted, l) > 0 /\ Count(Handed(Len(run.unadmitted)), l) = 0
                      => <<"unmirrored", l>> \in marks
                 /\ Count(B, l) = Count(run.ingress, l)
            /\ B # <<>> /\ Handed(Len(B)) # <<>> => Last(Handed(Len(B))) = Last(B)
<1> DEFINE A == Humans(run.taken)
           B == Humans(run.ingress)
           C == run.unadmitted
<1>1. /\ A \in Seq(Lines) /\ B \in Seq(Lines) /\ C \in Seq(Lines) /\ steering \in Seq(Lines)
      /\ run.ingress \in Seq(Lines \cup {None})
  BY RunIs DEF Typed, LineQueues
<1>2. /\ run.st \notin {"begun", "live"} => B = <<>> /\ A = <<>>
      /\ run.st \in {"begun", "live"} => C = <<>>
  BY ShapeFacts DEF RunShape
<1>3. Suffixed(steering, A \o B \o C)
      /\ ((ToSet(B) \cup ToSet(C)) \ ToSet(steering)) \subseteq {l \in Lines : <<"unmirrored", l>> \in marks}
  BY DEF Mirrored, WaitingIn, InHand, Marked
<1>4. \A l \in Lines : Count(B, l) = Count(run.ingress, l)
  BY <1>1, HumansIs
<1>5. /\ \A s \in Seq(Lines) : s \o <<>> = s /\ <<>> \o s = s
      /\ \A s, t \in Seq(Lines) : s \o t \in Seq(Lines)
      /\ \A s \in Seq(Lines) : Suffixed(s, <<>>)
      /\ <<>> \in Seq(Lines)
  BY ConcatEmptySeq, ConcatProperties, SuffixedEmpty
<1> HIDE DEF A, B, C
<1>6. \E a \in Seq(Lines) : Suffixed(steering, a \o B)
  <2>1. CASE run.st \in {"begun", "live"}
    <3>1. A \o B \in Seq(Lines) /\ C = <<>>
      BY <1>1, <1>2, <1>5, <2>1
    <3>2. Suffixed(steering, A \o B)
      BY <1>3, <1>5, <3>1
    <3> QED
      BY <1>1, <3>2
  <2>2. CASE run.st \notin {"begun", "live"}
    <3>1. Suffixed(steering, <<>> \o B)
      BY <1>1, <1>2, <1>5, <2>2
    <3> QED
      BY <1>5, <3>1
  <2> QED
    BY <2>1, <2>2
<1>7. \E a \in Seq(Lines) : Suffixed(steering, a \o C)
  <2>1. A \o B \in Seq(Lines)
    BY <1>1, <1>5
  <2> QED
    BY <1>3, <2>1
<1>8. /\ LastOf(steering, Len(B)) \in Seq(Lines)
      /\ \A l : /\ Count(LastOf(steering, Len(B)), l) <= Count(B, l)
                /\ Count(B, l) > 0 /\ Count(LastOf(steering, Len(B)), l) = 0
                       => l \notin ToSet(steering)
  BY <1>1, <1>6, HandedCounts
<1>9. /\ LastOf(steering, Len(C)) \in Seq(Lines)
      /\ \A l : /\ Count(LastOf(steering, Len(C)), l) <= Count(C, l)
                /\ Count(C, l) > 0 /\ Count(LastOf(steering, Len(C)), l) = 0
                       => l \notin ToSet(steering)
  BY <1>1, <1>7, HandedCounts
<1>10. \A l : (Count(B, l) > 0 <=> l \in ToSet(B)) /\ (Count(C, l) > 0 <=> l \in ToSet(C))
  BY <1>1, CountIs
<1>11. B # <<>> /\ LastOf(steering, Len(B)) # <<>> => Last(LastOf(steering, Len(B))) = Last(B)
  BY <1>1, <1>6, HandedFront
<1>12. \A l \in Lines :
         /\ Count(B, l) > 0 /\ Count(LastOf(steering, Len(B)), l) = 0
                => <<"unmirrored", l>> \in marks
         /\ Count(C, l) > 0 /\ Count(LastOf(steering, Len(C)), l) = 0
                => <<"unmirrored", l>> \in marks
  BY <1>3, <1>8, <1>9, <1>10
<1>13. /\ LastOf(steering, Len(B)) \in LineQueues /\ LastOf(steering, Len(C)) \in LineQueues
       /\ B \in LineQueues /\ C \in LineQueues
  BY <1>1, <1>8, <1>9 DEF LineQueues
<1> QED
  BY <1>4, <1>8, <1>9, <1>11, <1>12, <1>13 DEF Handed, B, C

\* A line is typed and is somewhere, or it stays somewhere and comes to no
\* more places than it had.
Appears(l) ==
  /\ l \in Lines /\ l = typed + 1 /\ typed' = l
  /\ Everywhere'[l] >= 1
  /\ Everywhere'[l] > 1 => <<"echoed", l>> \in marks'
Stays(l) ==
  /\ ~(l = typed + 1 /\ typed' = l)
  /\ Everywhere'[l] <= Everywhere[l]
  /\ Everywhere'[l] = 0 => Everywhere[l] = 0 \/ <<"unmirrored", l>> \in marks'

LEMMA TypingMoves ==
  ASSUME Typed, Next
  PROVE  typed' = typed \/ (typed' = typed + 1 /\ typed' \in Lines)
<1>1. \A l \in Lines : Typing(l) => typed' = typed + 1 /\ typed' \in Lines
  BY DEF Typing
<1> QED
  BY <1>1 DEF Next, EnterEarly, EnterBetween, Enter, RedirectIdle, RedirectRun, Escape,
     UpSteer, UpTurn, SwitchNow, SwitchLater, Wake, Notify, TurnStarts, Decides, Declines,
     SwitchDecides, AwaitsAgain, ChatReturns, Begins, Admit, Land, Seal, Throws, Settles,
     RecoveryStarts, RecoverySettles, RecoveryThrows, NextEntry, SwitchRefused

\* A line in numbers: what each place holds of it.
LEMMA Places9 ==
  ASSUME Typed, NEW l \in Lines
  PROVE  /\ Everywhere[l] = Count(queuedLines, l) + Count(switchLines, l) + Count(seed, l)
              + CountIn(chain, l) + Count(seg.lines, l)
              + (Count(run.ingress, l) + Count(run.taken, l) + Count(run.unadmitted, l))
              + CountIn(log, l) + (IF gone[l] = "" THEN 0 ELSE 1)
         /\ Count(queuedLines, l) \in Nat /\ Count(switchLines, l) \in Nat
         /\ Count(seed, l) \in Nat /\ CountIn(chain, l) \in Nat
         /\ Count(seg.lines, l) \in Nat /\ Count(run.ingress, l) \in Nat
         /\ Count(run.taken, l) \in Nat /\ Count(run.unadmitted, l) \in Nat
         /\ CountIn(log, l) \in Nat /\ (IF gone[l] = "" THEN 0 ELSE 1) \in {0, 1}
<1>1. /\ queuedLines \in LineQueues /\ switchLines \in LineQueues /\ seed \in LineQueues
      /\ chain \in Chains /\ seg.lines \in LineQueues
      /\ run.ingress \in Seq(Lines \cup {None}) /\ run.taken \in Seq(Lines \cup {None})
      /\ run.unadmitted \in LineQueues
  BY RunIs DEF Typed, Running, LineQueues
<1>2. \A s \in LineQueues : Count(s, l) \in Nat
  BY QueueCounts
<1>3. \A s \in Seq(Lines \cup {None}) : Count(s, l) \in Nat
  BY CountIs
<1>4. CountIn(log, l) \in Nat
  BY LogCounts
<1>5. CountIn(chain, l) \in Nat
  BY <1>1, ChainCounts
<1>6. Everywhere[l] = Count(queuedLines, l) + Count(switchLines, l) + Count(seed, l)
              + CountIn(chain, l) + Count(seg.lines, l)
              + (Count(run.ingress, l) + Count(run.taken, l) + Count(run.unadmitted, l))
              + CountIn(log, l) + (IF gone[l] = "" THEN 0 ELSE 1)
  BY DEF Everywhere, Total, HeldBy
<1> QED
  BY <1>1, <1>2, <1>3, <1>4, <1>5, <1>6

\* The same of the next state.
LEMMA Places9Next ==
  ASSUME Typed', NEW l \in Lines
  PROVE  /\ Everywhere'[l] = Count(queuedLines', l) + Count(switchLines', l) + Count(seed', l)
              + CountIn(chain', l) + Count(seg'.lines, l)
              + (Count(run'.ingress, l) + Count(run'.taken, l) + Count(run'.unadmitted, l))
              + CountIn(log', l) + (IF gone'[l] = "" THEN 0 ELSE 1)
         /\ Count(queuedLines', l) \in Nat /\ Count(switchLines', l) \in Nat
         /\ Count(seed', l) \in Nat /\ CountIn(chain', l) \in Nat
         /\ Count(seg'.lines, l) \in Nat /\ Count(run'.ingress, l) \in Nat
         /\ Count(run'.taken, l) \in Nat /\ Count(run'.unadmitted, l) \in Nat
         /\ CountIn(log', l) \in Nat /\ (IF gone'[l] = "" THEN 0 ELSE 1) \in {0, 1}
<1>0. /\ queuedLines' \in LineQueues /\ switchLines' \in LineQueues /\ seed' \in LineQueues
      /\ chain' \in Chains /\ seg' \in Running /\ run' \in Runs /\ log' \in Logs
  BY DEF Typed
<1>1. /\ queuedLines' \in LineQueues /\ switchLines' \in LineQueues /\ seed' \in LineQueues
      /\ chain' \in Chains /\ seg'.lines \in LineQueues
      /\ run'.ingress \in Seq(Lines \cup {None}) /\ run'.taken \in Seq(Lines \cup {None})
      /\ run'.unadmitted \in LineQueues
  BY <1>0 DEF Running, LineQueues, Runs
<1>2. \A s \in LineQueues : Count(s, l) \in Nat
  BY QueueCounts
<1>3. \A s \in Seq(Lines \cup {None}) : Count(s, l) \in Nat
  BY CountIs
<1>4. CountIn(log', l) \in Nat
  <2>1. log' \in Seq(Inputs) /\ Lined(Inputs, Lines)
    BY <1>0 DEF Logs, Inputs, Lined
  <2> QED
    BY <2>1, CountInIs
<1>5. CountIn(chain', l) \in Nat
  BY <1>1, ChainCounts
<1>6. Everywhere'[l] = Count(queuedLines', l) + Count(switchLines', l) + Count(seed', l)
              + CountIn(chain', l) + Count(seg'.lines, l)
              + (Count(run'.ingress, l) + Count(run'.taken, l) + Count(run'.unadmitted, l))
              + CountIn(log', l) + (IF gone'[l] = "" THEN 0 ELSE 1)
  BY DEF Everywhere, Total, HeldBy
<1> QED
  BY <1>1, <1>2, <1>3, <1>4, <1>5, <1>6

LEMMA FlowStep ==
  ASSUME Typed, Typed', RunShape, RunShape', EntryShape, ChainShape, Mirrored, Fresh, Next
  PROVE  \A l \in Lines : Appears(l) \/ Stays(l)
<1> SUFFICES ASSUME NEW l \in Lines PROVE Appears(l) \/ Stays(l)
  OBVIOUS
<1> DEFINE Q == Count(queuedLines, l)
           W == Count(switchLines, l)
           D == Count(seed, l)
           C == CountIn(chain, l)
           G == Count(seg.lines, l)
           I == Count(run.ingress, l)
           T == Count(run.taken, l)
           U == Count(run.unadmitted, l)
           O == CountIn(log, l)
           X == IF gone[l] = "" THEN 0 ELSE 1
           H == I + T + U
           E == Everywhere[l]
           New == l = typed + 1 /\ typed' = l
           B == Humans(run.ingress)
           K == Count(Handed(Len(B)), l)
           K2 == Count(Handed(Len(run.unadmitted)), l)
<1>E. /\ E = Q + W + D + C + G + H + O + X
      /\ Q \in Nat /\ W \in Nat /\ D \in Nat /\ C \in Nat /\ G \in Nat /\ I \in Nat /\ T \in Nat
      /\ U \in Nat /\ O \in Nat /\ X \in Nat /\ X <= 1 /\ H \in Nat
  <2>1. /\ E = Q + W + D + C + G + (I + T + U) + O + X
        /\ Q \in Nat /\ W \in Nat /\ D \in Nat /\ C \in Nat /\ G \in Nat /\ I \in Nat /\ T \in Nat
        /\ U \in Nat /\ O \in Nat /\ X \in {0, 1}
    BY Places9
  <2>2. X \in Nat /\ X <= 1
    OBVIOUS
  <2> HIDE DEF Q, W, D, C, G, I, T, U, O, X
  <2>3. H \in Nat
    BY <2>1
  <2> QED
    BY <2>1, <2>2, <2>3
<1>F. /\ E' = Q' + W' + D' + C' + G' + H' + O' + X'
      /\ Q' \in Nat /\ W' \in Nat /\ D' \in Nat /\ C' \in Nat /\ G' \in Nat /\ I' \in Nat /\ T' \in Nat
      /\ U' \in Nat /\ O' \in Nat /\ X' \in Nat /\ X' <= 1 /\ H' \in Nat
  <2>1. /\ E' = Q' + W' + D' + C' + G' + (I' + T' + U') + O' + X'
        /\ Q' \in Nat /\ W' \in Nat /\ D' \in Nat /\ C' \in Nat /\ G' \in Nat /\ I' \in Nat
        /\ T' \in Nat /\ U' \in Nat /\ O' \in Nat /\ X' \in {0, 1}
    BY Places9Next
  <2>2. X' \in Nat /\ X' <= 1
    OBVIOUS
  <2> HIDE DEF Q, W, D, C, G, I, T, U, O, X
  <2>3. H' \in Nat
    <3>1. \A a, b, c \in Nat : a + b + c \in Nat
      OBVIOUS
    <3>2. I' + T' + U' \in Nat
      BY <2>1, <3>1, Zenon
    <3> QED
      BY <3>2
  <2> QED
    BY <2>1, <2>2, <2>3
<1>H. H = I + T + U /\ H' = I' + T' + U'
  OBVIOUS
<1>N. New => E = 0
  BY TurnChainAssumption DEF Fresh, Typed, Typings
<1>M. marks \subseteq marks'
  BY MarksGrow
<1>A. New /\ E' >= 1 /\ (E' > 1 => <<"echoed", l>> \in marks') => Appears(l)
  BY DEF Appears
<1>S. ~New /\ E' <= E /\ (E' = 0 => E = 0 \/ <<"unmirrored", l>> \in marks') => Stays(l)
  BY DEF Stays
<1>V. /\ queuedLines \in LineQueues /\ switchLines \in LineQueues /\ seed \in LineQueues
      /\ chain \in Chains /\ seg \in Running /\ seg.lines \in LineQueues /\ log \in Logs
      /\ run.ingress \in Seq(Lines \cup {None}) /\ run.taken \in Seq(Lines \cup {None})
      /\ run.unadmitted \in LineQueues /\ B \in LineQueues
  BY RunIs DEF Typed, Running, LineQueues
<1>c. /\ CountIn(<<>>, l) = 0
      /\ \A s \in LineQueues : CountIn(Queue(chain, s), l) = C + Count(s, l)
      /\ \A s \in LineQueues : CountIn(QueueEach(chain, s), l) = C + Count(s, l)
      /\ CountIn(Await(chain), l) = C
      /\ CountIn(Append(chain, Switch), l) = C
      /\ \A s \in LineQueues : CountIn(Queue(Others(chain), s) \o Turns(chain), l) = C + Count(s, l)
      /\ \A i \in 1..Len(chain) : CountIn(RemoveAt(chain, i), l) + Count(chain[i].lines, l) = C
  BY <1>V, ChainCounts
<1>q. /\ Count(<<>>, l) = 0
      /\ \A s \in LineQueues : Count(s, l) \in Nat /\ (Count(s, l) > 0 <=> l \in ToSet(s))
      /\ \A s, t \in LineQueues : Count(s \o t, l) = Count(s, l) + Count(t, l)
      /\ \A s \in LineQueues, x \in Lines :
           Count(Append(s, x), l) = Count(s, l) + (IF x = l THEN 1 ELSE 0)
      /\ \A x \in Lines : Count(<<x>>, l) = IF x = l THEN 1 ELSE 0
      /\ <<>> \in LineQueues /\ \A x \in Lines : <<x>> \in LineQueues
      /\ \A s, t \in LineQueues : s \o t \in LineQueues
  <2>1. \A x \in Lines : <<x>> \in LineQueues
    BY DEF LineQueues
  <2>2. <<>> \in LineQueues /\ \A s, t \in LineQueues : s \o t \in LineQueues
    BY ConcatProperties, EmptySeq DEF LineQueues
  <2> QED
    BY <2>1, <2>2, QueueCounts
<1>o. \A s \in LineQueues : CountIn(Said(s), l) = O + Count(s, l)
  BY LogCounts
<1>g. /\ Handed(Len(B)) \in LineQueues /\ Handed(Len(run.unadmitted)) \in LineQueues
      /\ K <= I
      /\ I > 0 /\ K = 0 => <<"unmirrored", l>> \in marks
      /\ K2 <= U
      /\ U > 0 /\ K2 = 0 => <<"unmirrored", l>> \in marks
      /\ Count(B, l) = I
      /\ B # <<>> /\ Handed(Len(B)) # <<>> => Last(Handed(Len(B))) = Last(B)
  BY GivesBack DEF K, K2, B
<1>b. /\ K \in Nat /\ (K > 0 <=> l \in ToSet(Handed(Len(B))))
      /\ K2 \in Nat /\ (K2 > 0 <=> l \in ToSet(Handed(Len(run.unadmitted))))
  BY <1>g, <1>q DEF K, K2
<1>n. Count(Notices(run.ingress), l) = 0
  BY <1>V, HumansIs
<1>x. \A how \in Ways : \A Z : Leave(Z, how) => X' = IF l \in Z THEN 1 ELSE X
  BY DEF Leave, Ways
<1>r. /\ run.st \in {"none", "begun", "live", "sealed"}
      /\ seg = [at |-> seg.at, lines |-> seg.lines]
      /\ run = [st |-> run.st, ingress |-> run.ingress, taken |-> run.taken,
                unadmitted |-> run.unadmitted]
      /\ Idle.at = "idle" /\ Idle.lines = <<>>
      /\ NoRun.st = "none" /\ NoRun.ingress = <<>> /\ NoRun.taken = <<>> /\ NoRun.unadmitted = <<>>
      /\ (run.st \notin {"begun", "live"} => run.ingress = <<>> /\ run.taken = <<>>)
  BY ShapeFacts
<1>w. "told" \in Ways /\ "editor" \in Ways /\ "dropped" \in Ways /\ "astray" \in Ways
  BY DEF Ways
<1>y. \A m \in Lines : Typing(m) => (New <=> m = l) /\ typed' = m
  BY DEF Typing
<1>z. typed' = typed => ~New
  BY DEF Typed, Typings
<1>h. chain # <<>> => /\ Head(chain).lines \in LineQueues /\ Tail(chain) \in Chains
                      /\ C = Count(Head(chain).lines, l) + CountIn(Tail(chain), l)
                      /\ CountIn(Await(Tail(chain)), l) = CountIn(Tail(chain), l)
                      /\ CountIn(Append(Tail(chain), [kind |-> "awaitAgain", lines |-> <<>>]), l)
                           = CountIn(Tail(chain), l)
                      /\ (Head(chain).kind # "turn"
                             => Head(chain).lines = <<>> /\ phase = "ready")
  <2>1. CASE chain # <<>>
    <3>1. /\ Head(chain) \in ToSet(chain)
          /\ Head(chain) \in Segments(Kinds) /\ Tail(chain) \in Chains
          /\ CountIn(chain, l) = Count(Head(chain).lines, l) + CountIn(Tail(chain), l)
      BY <2>1, HeadIn
    <3>2. Head(chain).lines \in LineQueues
      BY <3>1 DEF Segments, LineQueues
    <3>3. /\ CountIn(Await(Tail(chain)), l) = CountIn(Tail(chain), l)
          /\ CountIn(Append(Tail(chain), [kind |-> "awaitAgain", lines |-> <<>>]), l)
                           = CountIn(Tail(chain), l)
      BY <3>1, ChainCounts
    <3> QED
      BY <3>1, <3>2, <3>3 DEF ChainShape
  <2> QED
    BY <2>1
<1> HIDE DEF Q, W, D, C, G, I, T, U, O, X, E, H, New, B, K, K2
<1>e. /\ X \in Nat /\ X <= 1 /\ X' \in Nat /\ G \in Nat /\ G' \in Nat /\ C \in Nat /\ C' \in Nat
      /\ H \in Nat /\ H' \in Nat /\ T \in Nat
  BY <1>E, <1>F
<1>I. E >= H
  <2> DEFINE z == Q + W + D + C + G
  <2>1. z \in Nat /\ O + X \in Nat /\ E = z + H + (O + X)
    BY <1>E
  <2> HIDE DEF z
  <2> QED
    BY <1>E, <2>1
<1>0. ASSUME ~New, Q' = Q, W' = W, D' = D, C' = C, G' = G, H' = H, O' = O, X' = X
      PROVE  Appears(l) \/ Stays(l)
  BY <1>0, <1>E, <1>F, <1>S
<1>t. ASSUME UNCHANGED typed, E' <= E, E' = 0 => E = 0 \/ <<"unmirrored", l>> \in marks'
      PROVE  Appears(l) \/ Stays(l)
  BY <1>t, <1>S, <1>z
<1>k. \A m \in Lines : m # l /\ Typing(m) => ~New
  BY <1>y
<1>1. CASE EnterEarly
  <2>1. PICK m \in Lines : Typing(m) /\ queuedLines' = Append(queuedLines, m)
    BY <1>1 DEF EnterEarly
  <2>2. W' = W /\ D' = D /\ C' = C /\ G' = G /\ H' = H /\ O' = O /\ X' = X
    BY <1>1 DEF EnterEarly, W, D, C, G, I, T, U, O, X, H
  <2>3. Q' = Q + (IF m = l THEN 1 ELSE 0)
    BY <1>V, <1>q, <2>1 DEF Q
  <2> QED
    BY <1>A, <1>S, <1>E, <1>F, <1>N, <1>y, <2>1, <2>2, <2>3
<1>2. CASE EnterBetween
  <2>1. PICK m \in Lines : Typing(m) /\ Leave({m}, "dropped")
    BY <1>2 DEF EnterBetween
  <2>2. Q' = Q /\ W' = W /\ D' = D /\ C' = C /\ G' = G /\ H' = H /\ O' = O
    BY <1>2 DEF EnterBetween, Q, W, D, C, G, I, T, U, O, H
  <2>3. X' = IF m = l THEN 1 ELSE X
    BY <1>x, <1>w, <2>1
  <2> QED
    BY <1>A, <1>S, <1>E, <1>F, <1>N, <1>y, <2>1, <2>2, <2>3
<1>3. CASE Enter
  <2>1. PICK m \in Lines : Typing(m) /\ Submit(m)
    BY <1>3 DEF Enter
  <2>2. Q' = Q /\ W' = W /\ D' = D /\ G' = G /\ O' = O /\ X' = X
    BY <1>3 DEF Enter, Q, W, D, G, O, X
  <2>3. E' = E + (IF m = l THEN 1 ELSE 0)
    <3>1. CASE Steers
      <4>1. run' = [run EXCEPT !.ingress = Append(@, m)] /\ chain' = chain
        BY <2>1, <3>1 DEF Submit
      <4>2. run'.ingress = Append(run.ingress, m) /\ run'.taken = run.taken /\ run'.unadmitted = run.unadmitted
        BY <1>r, <4>1
      <4>3. Count(Append(run.ingress, m), l) = Count(run.ingress, l) + (IF m = l THEN 1 ELSE 0)
        BY <1>V, CountAppend
      <4>4. I' = I + (IF m = l THEN 1 ELSE 0) /\ T' = T /\ U' = U /\ C' = C
        BY <4>1, <4>2, <4>3 DEF I, T, U, C
      <4>5. H' = H + (IF m = l THEN 1 ELSE 0)
        BY <4>4, <1>E, <1>F, <1>H
      <4> QED
        BY <2>2, <4>4, <4>5, <1>E, <1>F
    <3>2. CASE ~Steers
      <4>1. run' = run /\ chain' = Queue(chain, <<m>>)
        BY <2>1, <3>2 DEF Submit
      <4>2. CountIn(Queue(chain, <<m>>), l) = CountIn(chain, l) + (IF m = l THEN 1 ELSE 0)
        BY <1>c, <1>q DEF C
      <4>3. C' = C + (IF m = l THEN 1 ELSE 0) /\ H' = H
        BY <4>1, <4>2 DEF C, I, T, U, H
      <4> QED
        BY <2>2, <4>3, <1>E, <1>F
    <3> QED
      BY <3>1, <3>2
  <2>4. CASE m = l
    <3>1. New /\ E' = 1
      BY <1>N, <1>y, <2>1, <2>3, <2>4
    <3> QED
      BY <3>1, <1>A
  <2>5. CASE m # l
    <3>1. ~New /\ E' = E + 0
      BY <1>y, <2>1, <2>3, <2>5
    <3> QED
      BY <3>1, <1>S, <1>E
  <2> QED
    BY <2>4, <2>5
<1>4. CASE RedirectIdle
  <2>0. PICK m \in Lines :
          LET answers == phase # "opening" /\ ~leaving
              own == IF phase # "opening" /\ leaving THEN <<m>> ELSE <<>>
          IN /\ Typing(m)
             /\ switchLines' = switchLines \o Echoes(m) \o own
             /\ chain' = IF answers THEN Queue(chain, <<m>>) ELSE chain
             /\ marks' = marks \union Mark("echoed", IF Departed > (IF phase = "opening" THEN 1 ELSE 0) THEN {m} ELSE {})
    BY <1>4 DEF RedirectIdle
  <2> DEFINE own == IF phase # "opening" /\ leaving THEN <<m>> ELSE <<>>
             answers == phase # "opening" /\ ~leaving
             hit == IF m = l THEN 1 ELSE 0
  <2>1. /\ Typing(m) /\ switchLines' = switchLines \o Echoes(m) \o own
        /\ chain' = IF answers THEN Queue(chain, <<m>>) ELSE chain
        /\ marks' = marks \union Mark("echoed", IF Departed > (IF phase = "opening" THEN 1 ELSE 0) THEN {m} ELSE {})
    BY <2>0
  <2>2. Q' = Q /\ D' = D /\ G' = G /\ H' = H /\ O' = O /\ X' = X
    BY <1>4 DEF RedirectIdle, Q, D, G, I, T, U, O, X, H
  <2>3. Departed \in Nat /\ (phase = "opening" => Departed >= 1)
    BY TurnChainAssumption DEF Departed, Typed, Entries
  <2>4. Echoes(m) \in LineQueues /\ Count(Echoes(m), l) = IF m = l THEN Departed ELSE 0
    BY <2>3, EchoesIs DEF LineQueues
  <2>5. own \in LineQueues /\ Count(own, l) = IF phase # "opening" /\ leaving THEN hit ELSE 0
    BY <1>q
  <2>6. W' = W + Count(Echoes(m), l) + Count(own, l)
    <3>1. /\ Count((switchLines \o Echoes(m)) \o own, l)
               = Count(switchLines \o Echoes(m), l) + Count(own, l)
          /\ Count(switchLines \o Echoes(m), l) = Count(switchLines, l) + Count(Echoes(m), l)
      BY <1>q, <1>V, <2>4, <2>5
    <3> QED
      BY <2>1, <3>1 DEF W
  <2>7. C' = C + (IF answers THEN hit ELSE 0)
    <3>1. CountIn(Queue(chain, <<m>>), l) = C + hit
      BY <1>c, <1>q
    <3> QED
      BY <2>1, <3>1, <1>E DEF C
  <2>8. m = l /\ Departed > (IF phase = "opening" THEN 1 ELSE 0) => <<"echoed", l>> \in marks'
    BY <2>1 DEF Mark, Lines, None
  <2> HIDE DEF own
  <2> QED
    <3> DEFINE z == Q + D + G + H + O + X
    <3>1. z \in Nat /\ E = z + (W + C) /\ E' = z + (W' + C')
      BY <2>2, <1>E, <1>F
    <3> HIDE DEF z
    <3>2. CASE m = l
      <4>1. New /\ E = 0 /\ z = 0 /\ W = 0 /\ C = 0
        BY <3>1, <3>2, <1>E, <1>N, <1>y, <2>1
      <4>2. W' = Departed + (IF phase # "opening" /\ leaving THEN 1 ELSE 0)
            /\ C' = IF answers THEN 1 ELSE 0
        BY <2>3, <2>4, <2>5, <2>6, <2>7, <3>2, <4>1
      <4>3. W' + C' = Departed + (IF phase = "opening" THEN 0 ELSE 1)
        BY <2>3, <4>2
      <4>4. E' = Departed + (IF phase = "opening" THEN 0 ELSE 1)
        BY <4>1, <4>3, <3>1, <2>3
      <4>5. E' >= 1 /\ (E' > 1 => Departed > (IF phase = "opening" THEN 1 ELSE 0))
        BY <2>3, <4>4
      <4> QED
        BY <4>1, <4>5, <3>2, <2>8, <1>A
    <3>3. CASE m # l
      <4>1. W' = W /\ C' = C /\ ~New
        BY <2>1, <2>4, <2>5, <2>6, <2>7, <3>3, <1>E, <1>y
      <4>2. E' = E
        BY <3>1, <4>1
      <4> QED
        BY <4>1, <4>2, <1>E, <1>S
    <3> QED
      BY <3>2, <3>3
<1>5. CASE RedirectRun
  <2>1. PICK m \in Lines :
          /\ Typing(m)
          /\ Mirror([run EXCEPT !.ingress = Notices(@)], <<>>,
                    Mark("echoed", IF Departed > 0 THEN {m} ELSE {}))
          /\ chain' = Queue(Others(chain), <<m>> \o Handed(Len(B))) \o Turns(chain)
          /\ switchLines' = switchLines \o Echoes(m)
    BY <1>5 DEF RedirectRun, B
  <2>2. Q' = Q /\ D' = D /\ G' = G /\ O' = O /\ X' = X
    BY <1>5 DEF RedirectRun, Q, D, G, O, X
  <2>3. /\ run'.ingress = Notices(run.ingress) /\ run'.taken = run.taken
        /\ run'.unadmitted = run.unadmitted
    BY <1>r, <2>1 DEF Mirror
  <2>4. I' = 0 /\ T' = T /\ U' = U
    BY <1>n, <2>3 DEF I, T, U
  <2>5. Departed \in Nat
    BY TurnChainAssumption DEF Departed, Typed, Entries
  <2>6. Echoes(m) \in LineQueues /\ Count(Echoes(m), l) = IF m = l THEN Departed ELSE 0
    BY <2>5, EchoesIs DEF LineQueues
  <2>7. W' = W + Count(Echoes(m), l)
    BY <1>q, <1>V, <2>1, <2>6 DEF W
  <2>8. C' = C + K + (IF m = l THEN 1 ELSE 0)
    <3>1. /\ <<m>> \o Handed(Len(B)) \in LineQueues
          /\ Count(<<m>> \o Handed(Len(B)), l) = (IF m = l THEN 1 ELSE 0) + K
      <4>1. <<m>> \in LineQueues /\ Handed(Len(B)) \in LineQueues
            /\ Count(<<m>>, l) = (IF m = l THEN 1 ELSE 0)
        BY <1>q, <1>g
      <4>2. /\ <<m>> \o Handed(Len(B)) \in LineQueues
            /\ Count(<<m>> \o Handed(Len(B)), l) = Count(<<m>>, l) + Count(Handed(Len(B)), l)
        BY <1>q, <4>1
      <4> QED
        BY <4>1, <4>2 DEF K
    <3>2. CountIn(Queue(Others(chain), <<m>> \o Handed(Len(B))) \o Turns(chain), l)
            = C + ((IF m = l THEN 1 ELSE 0) + K)
      BY <1>c, <3>1
    <3>3. C' = C + ((IF m = l THEN 1 ELSE 0) + K)
      BY <2>1, <3>2 DEF C
    <3> QED
      BY <3>3, <1>b, <1>E
  <2>9. m = l /\ Departed > 0 => <<"echoed", l>> \in marks'
    BY <2>1 DEF Mark, Lines, None, Mirror
  <2>10. K \in Nat /\ H' = H - I
    BY <1>b, <2>4, <1>E, <1>F, <1>H
  <2>11. CASE m = l
    <3>1. E = 0 /\ New
      BY <1>N, <1>y, <2>1, <2>11
    <3>2. W' = W + Departed /\ C' = C + K + 1
      BY <2>6, <2>7, <2>8, <2>11
    <3>3. I = 0 /\ K = 0
      BY <3>1, <1>E, <1>H, <1>g, <1>b
    <3>4. E' = 1 + Departed
      BY <3>1, <3>2, <3>3, <1>E, <1>F, <2>2, <2>5, <2>10
    <3> QED
      BY <3>1, <3>4, <1>A, <2>5, <2>9, <2>11
  <2>12. CASE m # l
    <3>0. W' = W /\ C' = C + K
      BY <2>6, <2>7, <2>8, <2>12, <1>E, <1>b
    <3>1. E' = E - I + K
      BY <1>E, <1>F, <2>2, <3>0, <2>10
    <3>2. E' <= E /\ (E' = 0 => E = 0 \/ (I > 0 /\ K = 0))
      <4>1. K <= I /\ I <= E /\ K \in Nat /\ I \in Nat /\ E \in Nat
        BY <1>E, <1>F, <1>H, <1>I, <1>b, <1>g, <2>10
      <4> QED
        BY <3>1, <4>1
    <3> QED
      BY <3>2, <1>S, <1>M, <1>g, <1>y, <2>1, <2>12
  <2> QED
    BY <2>11, <2>12
<1>6. CASE Escape
  <2>1. /\ Mirror([run EXCEPT !.ingress = Notices(@)], <<>>, {})
        /\ Leave(ToSet(Handed(Len(B))), "editor")
    BY <1>6 DEF Escape, B
  <2>2. Q' = Q /\ W' = W /\ D' = D /\ C' = C /\ G' = G /\ O' = O /\ typed' = typed
    BY <1>6 DEF Escape, Q, W, D, C, G, O
  <2>3. /\ run'.ingress = Notices(run.ingress) /\ run'.taken = run.taken
        /\ run'.unadmitted = run.unadmitted
    BY <1>r, <2>1 DEF Mirror
  <2>4. I' = 0 /\ T' = T /\ U' = U
    BY <1>n, <2>3 DEF I, T, U
  <2>5. X' = IF l \in ToSet(Handed(Len(B))) THEN 1 ELSE X
    BY <1>x, <1>w, <2>1
  <2>6. H' = H - I /\ I <= H
    BY <2>4, <1>E, <1>F, <1>H
  <2>7. E' <= E /\ (E' = 0 => E = 0 \/ (I > 0 /\ K = 0))
    BY <1>E, <1>F, <1>g, <1>b, <2>2, <2>5, <2>6
  <2> QED
    BY <2>7, <1>t, <1>M, <1>g, <2>2
<1>7. CASE UpSteer
  <2>1. /\ Mirror([run EXCEPT !.ingress = Notices(@) \o Front(B)], Front(Handed(Len(B))), {})
        /\ Leave({Last(Handed(Len(B)))}, "editor") /\ Handed(Len(B)) # <<>> /\ B # <<>>
    BY <1>7 DEF UpSteer, B
  <2>2. Q' = Q /\ W' = W /\ D' = D /\ C' = C /\ G' = G /\ O' = O /\ typed' = typed
    BY <1>7 DEF UpSteer, Q, W, D, C, G, O
  <2>3. /\ run'.ingress = Notices(run.ingress) \o Front(B) /\ run'.taken = run.taken
        /\ run'.unadmitted = run.unadmitted
    BY <1>r, <2>1 DEF Mirror
  <2>4. Front(B) \in LineQueues /\ Last(B) \in Lines /\ B = Append(Front(B), Last(B))
    BY <1>V, <2>1, FrontAndLast DEF LineQueues
  <2>5. Count(B, l) = Count(Front(B), l) + (IF Last(B) = l THEN 1 ELSE 0)
    BY <1>q, <2>4
  <2>6. Count(Notices(run.ingress) \o Front(B), l) = Count(Notices(run.ingress), l) + Count(Front(B), l)
    <3>1. Notices(run.ingress) \in Seq(Lines \cup {None})
      BY <1>V, HumansIs
    <3>2. Front(B) \in Seq(Lines \cup {None})
      <4>1. Front(B) \in Seq(Lines)
        BY <2>4 DEF LineQueues
      <4> QED
        BY <4>1
    <3> QED
      BY <3>1, <3>2, CountCat
  <2>7. Count(Front(B), l) \in Nat
    BY <1>q, <2>4
  <2>8. I' = I - (IF Last(B) = l THEN 1 ELSE 0) /\ T' = T /\ U' = U
    <3>1. I' = Count(Front(B), l)
      BY <1>n, <2>3, <2>6, <2>7 DEF I
    <3>2. T' = T /\ U' = U
      BY <2>3 DEF T, U
    <3> QED
      BY <3>1, <3>2, <1>g, <2>5, <2>7, <1>E
  <2>9. X' = IF l = Last(B) THEN 1 ELSE X
    BY <1>x, <1>w, <1>g, <2>1
  <2>11. H' = H - (IF Last(B) = l THEN 1 ELSE 0)
    BY <2>8, <1>E, <1>F, <1>H
  <2>10. E' <= E /\ (E' = 0 => E = 0)
    BY <1>E, <1>F, <2>2, <2>9, <2>11
  <2> QED
    BY <2>10, <1>t, <2>2
<1>8. CASE UpTurn
  <2> DEFINE k == LastTurnOf(chain)
  <2>1. /\ chain' = RemoveAt(chain, k) /\ Leave(ToSet(chain[k].lines), "editor")
        /\ {i \in DOMAIN chain : chain[i].kind = "turn"} # {}
        /\ run' = run
    BY <1>8 DEF UpTurn, LastTurnOf, Mirror
  <2>2. k \in 1..Len(chain)
    BY <2>1, LastTurn
  <2>3. Q' = Q /\ W' = W /\ D' = D /\ G' = G /\ O' = O /\ typed' = typed
    BY <1>8 DEF UpTurn, Q, W, D, G, O
  <2>4. H' = H
    BY <2>1 DEF I, T, U, H
  <2>5. chain[k].lines \in LineQueues
    <3>1. chain[k] \in Segments(Kinds)
      BY <1>V, <2>2, ElementOfSeq DEF Chains
    <3> QED
      BY <3>1 DEF Segments, LineQueues
  <2>6. C' + Count(chain[k].lines, l) = C
    <3>1. CountIn(RemoveAt(chain, k), l) + Count(chain[k].lines, l) = C
      BY <1>c, <2>2
    <3> QED
      BY <3>1, <2>1 DEF C
  <2>7. X' = IF l \in ToSet(chain[k].lines) THEN 1 ELSE X
    BY <1>x, <1>w, <2>1
  <2>8. Count(chain[k].lines, l) \in Nat /\ (Count(chain[k].lines, l) > 0
            <=> l \in ToSet(chain[k].lines))
    BY <1>q, <2>5
  <2> DEFINE N == Count(chain[k].lines, l)
  <2>10. N \in Nat /\ C = C' + N /\ X' = IF N > 0 THEN 1 ELSE X
    BY <1>F, <2>6, <2>7, <2>8
  <2> HIDE DEF k, N
  <2>9. E' <= E /\ (E' = 0 => E = 0)
    <3> DEFINE z == Q + W + D + G + H + O
    <3>1. z \in Nat /\ E = z + C + X /\ E' = z + C' + X'
      BY <2>3, <2>4, <1>E, <1>F
    <3> HIDE DEF z
    <3>2. PICK s, a, b, m, v, w \in Nat :
            s = z /\ a = C /\ b = C' /\ m = N /\ v = X /\ w = X'
      BY <3>1, <1>e, <2>10
    <3>3. /\ E = s + a + v /\ E' = s + b + w /\ a = b + m /\ v <= 1
          /\ (m > 0 /\ w = 1) \/ (m = 0 /\ w = v)
      BY <3>1, <3>2, <1>e, <2>10
    <3>4. s + b + w <= s + a + v /\ (s + b + w = 0 => s + a + v = 0)
      BY <3>3
    <3> QED
      BY <3>3, <3>4
  <2> QED
    BY <2>9, <1>t, <2>3
<1>9. CASE SwitchNow \/ SwitchLater \/ Wake \/ RecoveryStarts \/ RecoveryThrows
  <2>1. Q' = Q /\ W' = W /\ D' = D /\ G' = G /\ H' = H /\ O' = O /\ X' = X /\ typed' = typed
    BY <1>9 DEF SwitchNow, SwitchLater, Wake, RecoveryStarts, RecoveryThrows, Q, W, D,
       G, I, T, U, O, X, H
  <2>2. \/ chain' = chain \/ chain' = Await(chain) \/ chain' = Append(chain, Switch)
        \/ chain' = Queue(chain, <<>>)
    BY <1>9 DEF SwitchNow, SwitchLater, Wake, RecoveryStarts, RecoveryThrows, Switch
  <2>3. CountIn(Queue(chain, <<>>), l) = C
    BY <1>c, <1>q, <1>E
  <2>4. C' = C
    BY <2>2, <2>3, <1>c DEF C
  <2> QED
    BY <2>1, <2>4, <1>0, <1>z
<1>10. CASE Notify
  <2>1. Q' = Q /\ W' = W /\ D' = D /\ C' = C /\ G' = G /\ O' = O /\ X' = X /\ typed' = typed
    BY <1>10 DEF Notify, Q, W, D, C, G, O, X
  <2>2. run' = [run EXCEPT !.ingress = Append(@, None)]
    BY <1>10 DEF Notify
  <2>3. /\ run'.ingress = Append(run.ingress, None) /\ run'.taken = run.taken
        /\ run'.unadmitted = run.unadmitted
    BY <1>r, <2>2
  <2>4. Count(Append(run.ingress, None), l) = Count(run.ingress, l) + (IF None = l THEN 1 ELSE 0)
    BY <1>V, CountAppend
  <2>5. None # l
    BY DEF None, Lines
  <2>6. I' = I /\ T' = T /\ U' = U
    BY <2>3, <2>4, <2>5, <1>E DEF I, T, U
  <2>7. H' = H
    BY <2>6, <1>H
  <2> QED
    BY <2>1, <2>7, <1>0, <1>z
<1>t1. ASSUME NEW s \in LineQueues, TurnBegins(s), seg.at # "turn"
       PROVE  /\ H' = H
              /\ \/ G' = Count(s, l) /\ X' = X
                 \/ G' = 0 /\ X' = IF l \in ToSet(s) THEN 1 ELSE X
  <2>1. run = NoRun
    BY <1>t1 DEF RunShape
  <2>2. I = 0 /\ T = 0 /\ U = 0
    BY <2>1, <1>r, <1>q DEF I, T, U
  <2>3. run'.ingress = <<>> /\ run'.taken = <<>> /\ run'.unadmitted = <<>>
    BY <1>t1, <1>r DEF TurnBegins, NoRun
  <2>4. I' = 0 /\ T' = 0 /\ U' = 0
    BY <2>3, <1>q DEF I, T, U
  <2>7. H' = H
    BY <2>2, <2>4, <1>H
  <2>5. CASE slot = "none"
    <3>1. seg'.lines = s /\ gone' = gone
      BY <1>t1, <2>5 DEF TurnBegins
    <3>2. G' = Count(s, l) /\ X' = X
      BY <3>1 DEF G, X
    <3> QED
      BY <2>7, <3>2
  <2>6. CASE slot # "none"
    <3>1. seg'.lines = <<>> /\ Leave(ToSet(s), "told")
      BY <1>t1, <2>6 DEF TurnBegins
    <3>2. G' = 0
      BY <3>1, <1>q DEF G
    <3>3. X' = IF l \in ToSet(s) THEN 1 ELSE X
      BY <3>1, <1>w, <1>x
    <3> QED
      BY <2>7, <3>2, <3>3
  <2> QED
    BY <2>5, <2>6
<1>11. CASE TurnStarts
  <2>1. Q' = Q /\ W' = W /\ D' = D /\ O' = O /\ typed' = typed
    BY <1>11 DEF TurnStarts, Q, W, D, O
  <2>2. /\ chain' = Tail(chain) /\ chain # <<>> /\ seg = Idle
        /\ \/ seg' = [at |-> "asked", lines |-> Head(chain).lines] /\ run' = run /\ gone' = gone
           \/ TurnBegins(Head(chain).lines)
    BY <1>11 DEF TurnStarts, NextIs
  <2>3. C = Count(Head(chain).lines, l) + C' /\ Head(chain).lines \in LineQueues
    BY <1>h, <2>2 DEF C
  <2>4. G = 0 /\ seg.at # "turn"
    BY <1>r, <1>q, <2>2 DEF G
  <2>5. Count(Head(chain).lines, l) \in Nat /\ (Count(Head(chain).lines, l) > 0
            <=> l \in ToSet(Head(chain).lines))
    BY <1>q, <2>3
  <2> DEFINE N == Count(Head(chain).lines, l)
  <2>8. N \in Nat /\ C = N + C' /\ (N > 0 <=> l \in ToSet(Head(chain).lines))
    BY <2>3, <2>5
  <2>6. CASE TurnBegins(Head(chain).lines)
    <3>1. /\ H' = H
          /\ \/ G' = N /\ X' = X
             \/ G' = 0 /\ X' = IF N > 0 THEN 1 ELSE X
      BY <1>t1, <2>3, <2>4, <2>6, <2>8
    <3> HIDE DEF N
    <3>2. E' <= E /\ (E' = 0 => E = 0)
      <4> DEFINE z == Q + W + D + H + O
      <4>1. z \in Nat /\ E = z + C + X /\ E' = z + C' + X' + G'
        BY <2>1, <2>4, <3>1, <1>E, <1>F
      <4> HIDE DEF z
      <4>2. PICK s, a, b, m, v, w, g \in Nat :
              s = z /\ a = C /\ b = C' /\ m = N /\ v = X /\ w = X' /\ g = G'
        BY <4>1, <1>e, <2>8
      <4>3. /\ E = s + a + v /\ E' = s + b + w + g /\ a = m + b /\ v <= 1
            /\ (m > 0 /\ w = 1 /\ g = 0) \/ (m = 0 /\ g = 0 /\ w = v) \/ (g = m /\ w = v)
        BY <4>1, <4>2, <1>e, <2>8, <3>1
      <4>4. s + b + w + g <= s + a + v /\ (s + b + w + g = 0 => s + a + v = 0)
        BY <4>3
      <4> QED
        BY <4>3, <4>4
    <3> QED
      BY <1>t, <2>1, <3>2
  <2>7. CASE seg' = [at |-> "asked", lines |-> Head(chain).lines] /\ run' = run /\ gone' = gone
    <3>1. H' = H /\ X' = X /\ G' = N
      BY <2>7 DEF I, T, U, X, G, H
    <3> HIDE DEF N
    <3>2. E' <= E /\ (E' = 0 => E = 0)
      <4> DEFINE z == Q + W + D + H + O
      <4>1. z \in Nat /\ E = z + C + X /\ E' = z + C' + X' + G'
        BY <2>1, <2>4, <3>1, <1>E, <1>F
      <4> HIDE DEF z
      <4>2. PICK s, a, b, m, v, w, g \in Nat :
              s = z /\ a = C /\ b = C' /\ m = N /\ v = X /\ w = X' /\ g = G'
        BY <4>1, <1>e, <2>8
      <4>3. /\ E = s + a + v /\ E' = s + b + w + g /\ a = m + b /\ v <= 1
            /\ (m > 0 /\ w = 1 /\ g = 0) \/ (m = 0 /\ g = 0 /\ w = v) \/ (g = m /\ w = v)
        BY <4>1, <4>2, <1>e, <2>8, <3>1
      <4>4. s + b + w + g <= s + a + v /\ (s + b + w + g = 0 => s + a + v = 0)
        BY <4>3
      <4> QED
        BY <4>3, <4>4
    <3> QED
      BY <1>t, <2>1, <3>2
  <2> QED
    BY <2>2, <2>6, <2>7
<1>12. CASE Decides
  <2>1. Q' = Q /\ W' = W /\ D' = D /\ C' = C /\ O' = O /\ typed' = typed /\ seg.at # "turn"
        /\ TurnBegins(seg.lines)
    BY <1>12 DEF Decides, Q, W, D, C, O
  <2>2. /\ H' = H
        /\ \/ G' = G /\ X' = X
           \/ G' = 0 /\ X' = IF l \in ToSet(seg.lines) THEN 1 ELSE X
    BY <1>t1, <1>V, <2>1 DEF G
  <2>3. G > 0 <=> l \in ToSet(seg.lines)
    BY <1>q, <1>V DEF G
  <2>4. E' <= E /\ (E' = 0 => E = 0)
    <3> DEFINE z == Q + W + D + C + H + O
    <3>1. z \in Nat /\ E = z + G + X /\ E' = z + G' + X'
      BY <2>1, <2>2, <1>E, <1>F
    <3> HIDE DEF z
    <3>2. CASE G > 0 /\ G' = 0 /\ X' = 1
      BY <3>1, <3>2, <1>E, <1>F
    <3>3. CASE G' = G /\ X' = X
      BY <3>1, <3>3, <1>E, <1>F
    <3>4. CASE G = 0 /\ G' = 0 /\ X' = X
      BY <3>1, <3>4, <1>E, <1>F
    <3> QED
      BY <3>2, <3>3, <3>4, <2>2, <2>3, <1>E
  <2> QED
    BY <1>t, <2>1, <2>4
<1>13. CASE Declines
  <2>1. Q' = Q /\ W' = W /\ D' = D /\ C' = C /\ O' = O /\ typed' = typed /\ H' = H
    BY <1>13 DEF Declines, Q, W, D, C, O, I, T, U, H
  <2>2. Leave(ToSet(seg.lines), "told") /\ seg' = Idle
    BY <1>13 DEF Declines
  <2>3. G' = 0
    BY <2>2, <1>r, <1>q DEF G
  <2>4. X' = IF l \in ToSet(seg.lines) THEN 1 ELSE X
    BY <2>2, <1>x, <1>w
  <2>5. G > 0 <=> l \in ToSet(seg.lines)
    BY <1>q, <1>V DEF G
  <2>6. E' <= E /\ (E' = 0 => E = 0)
    BY <1>E, <1>F, <2>1, <2>3, <2>4, <2>5
  <2> QED
    BY <1>t, <2>1, <2>6
<1>14. CASE SwitchDecides \/ AwaitsAgain
  <2>1. Q' = Q /\ W' = W /\ D' = D /\ G' = G /\ O' = O /\ typed' = typed /\ H' = H /\ X' = X
    BY <1>14 DEF SwitchDecides, AwaitsAgain, Q, W, D, G, O, I, T, U, X, H
  <2>2. /\ chain # <<>> /\ Head(chain).kind # "turn"
        /\ \/ chain' = Tail(chain) \/ chain' = Await(Tail(chain))
           \/ chain' = Append(Tail(chain), [kind |-> "awaitAgain", lines |-> <<>>])
    BY <1>14 DEF SwitchDecides, AwaitsAgain, NextIs
  <2>3. Head(chain).lines = <<>>
    BY <1>h, <2>2
  <2>6. CountIn(chain', l) = CountIn(Tail(chain), l)
    <3>1. CASE chain' = Tail(chain)
      BY <3>1
    <3>2. CASE chain' = Await(Tail(chain))
      BY <3>2, <2>2, <1>h
    <3>3. CASE chain' = Append(Tail(chain), [kind |-> "awaitAgain", lines |-> <<>>])
      BY <3>3, <2>2, <1>h
    <3> QED
      BY <2>2, <3>1, <3>2, <3>3
  <2>4. C' = CountIn(Tail(chain), l)
    BY <2>6 DEF C
  <2>5. C = CountIn(Tail(chain), l)
    <3>1. C = 0 + CountIn(Tail(chain), l)
      BY <1>h, <1>q, <2>2, <2>3
    <3> QED
      BY <3>1, <2>4, <1>F
  <2> QED
    BY <2>1, <2>4, <2>5, <1>0, <1>z
<1>15. CASE ChatReturns
  <2>1. W' = W /\ G' = G /\ O' = O /\ typed' = typed /\ H' = H
    BY <1>15 DEF ChatReturns, W, G, O, I, T, U, H
  <2>2. /\ chain # <<>> /\ Head(chain).kind # "turn" /\ seed' = queuedLines /\ queuedLines' = <<>>
        /\ chain' = <<>> /\ Leave(ToSet(LinesOf(chain)), "astray")
    BY <1>15 DEF ChatReturns, NextIs
  <2>3. D = 0
    <3>1. seed = <<>>
      BY <1>h, <2>2 DEF EntryShape
    <3> QED
      BY <3>1, <1>q DEF D
  <2>4. D' = Q /\ Q' = 0 /\ C' = 0
    BY <2>2, <1>q, <1>c DEF D, Q, C
  <2>5. X' = IF l \in ToSet(LinesOf(chain)) THEN 1 ELSE X
    BY <2>2, <1>x, <1>w
  <2>6. C > 0 <=> l \in ToSet(LinesOf(chain))
    BY <1>V, ChainCounts DEF C
  <2>7. E' <= E /\ (E' = 0 => E = 0)
    BY <1>E, <1>F, <2>1, <2>3, <2>4, <2>5, <2>6
  <2> QED
    BY <1>t, <2>1, <2>7
<1>16. CASE Begins
  <2>1. Q' = Q /\ W' = W /\ D' = D /\ C' = C /\ X' = X /\ typed' = typed
    BY <1>16 DEF Begins, Q, W, D, C, X
  <2>2. run' = [run EXCEPT !.st = "live"] /\ log' = Said(seg.lines)
        /\ seg' = [seg EXCEPT !.lines = <<>>]
    BY <1>16 DEF Begins
  <2>3. /\ run'.ingress = run.ingress /\ run'.taken = run.taken
        /\ run'.unadmitted = run.unadmitted /\ seg'.lines = <<>>
    BY <1>r, <2>2
  <2>4. H' = H /\ G' = 0
    BY <1>q, <2>3 DEF I, T, U, G, H
  <2>5. O' = O + G
    BY <1>o, <1>V, <2>2 DEF O, G
  <2>6. E' <= E /\ (E' = 0 => E = 0)
    BY <1>E, <1>F, <2>1, <2>4, <2>5
  <2> QED
    BY <1>t, <2>1, <2>6
<1>17. CASE Admit
  <2>1. Q' = Q /\ W' = W /\ D' = D /\ C' = C /\ G' = G /\ O' = O /\ X' = X /\ typed' = typed
    BY <1>17 DEF Admit, Q, W, D, C, G, O, X
  <2>2. run.taken = <<>> /\ run' = [run EXCEPT !.taken = run.ingress, !.ingress = <<>>]
    BY <1>17 DEF Admit
  <2>3. run'.ingress = <<>> /\ run'.taken = run.ingress /\ run'.unadmitted = run.unadmitted
    BY <1>r, <2>2
  <2>4. I' = 0 /\ T' = I /\ U' = U /\ T = 0
    BY <1>q, <2>2, <2>3 DEF I, T, U
  <2>5. H' = H
    BY <2>4, <1>E, <1>H
  <2> QED
    BY <2>1, <2>5, <1>0, <1>z
<1>18. CASE Land
  <2> DEFINE n == Block(run.taken)
             a == SubSeq(run.taken, 1, n)
             b == SubSeq(run.taken, n + 1, Len(run.taken))
  <2>1. Q' = Q /\ W' = W /\ D' = D /\ C' = C /\ G' = G /\ X' = X /\ typed' = typed
    BY <1>18 DEF Land, Q, W, D, C, G, X
  <2>2. run.taken # <<>> /\ log' = Said(Humans(a))
        /\ Mirror([run EXCEPT !.taken = SubSeq(@, n + 1, Len(@))], <<>>, {})
    BY <1>18 DEF Land
  <2>3. n \in 1..Len(run.taken)
    BY <1>V, <2>2, BlockIs
  <2>4. a \in Seq(Lines \cup {None}) /\ b \in Seq(Lines \cup {None}) /\ run.taken = a \o b
    <3>1. a \in Seq(Lines \cup {None}) /\ b \in Seq(Lines \cup {None})
      BY <2>3, TypedRun
    <3>2. Len(run.taken) \in Nat
      BY <1>V, LenProperties
    <3>3. 1 \in 1..(Len(run.taken) + 1) /\ n \in (1 - 1)..Len(run.taken)
          /\ Len(run.taken) \in n..Len(run.taken)
      BY <2>3, <3>2
    <3>4. a \o b = SubSeq(run.taken, 1, Len(run.taken))
      BY <1>V, <3>3, ConcatAdjacentSubSeq
    <3> QED
      BY <3>1, <3>4, <1>V, SubSeqFull
  <2>5. run'.ingress = run.ingress /\ run'.taken = b /\ run'.unadmitted = run.unadmitted
    BY <1>r, <2>2 DEF Mirror
  <2> HIDE DEF a, b, n
  <2>6. Count(run.taken, l) = Count(a, l) + Count(b, l) /\ Count(Humans(a), l) = Count(a, l)
        /\ Humans(a) \in LineQueues
    BY <2>4, CountCat, HumansIs DEF LineQueues
  <2>7. O' = O + Count(a, l)
    BY <2>2, <2>6, <1>o DEF O
  <2>8. I' = I /\ T' = Count(b, l) /\ U' = U /\ T = Count(a, l) + Count(b, l)
    BY <2>5, <2>6 DEF I, T, U
  <2>9. Count(a, l) \in Nat /\ Count(b, l) \in Nat
    BY <2>4, CountIs
  <2>11. H = H' + Count(a, l)
    BY <2>8, <2>9, <1>E, <1>H
  <2>10. E' <= E /\ (E' = 0 => E = 0)
    BY <1>E, <1>F, <2>1, <2>7, <2>9, <2>11
  <2> QED
    BY <1>t, <2>1, <2>10
<1>19. CASE Seal
  <2>1. Q' = Q /\ W' = W /\ D' = D /\ C' = C /\ G' = G /\ O' = O /\ X' = X /\ typed' = typed
    BY <1>19 DEF Seal, Q, W, D, C, G, O, X
  <2>2. run.st = "live" /\ run.taken = <<>> /\ run' = Sealed
    BY <1>19 DEF Seal
  <2>3. run'.ingress = <<>> /\ run'.taken = <<>> /\ run'.unadmitted = B
    BY <1>r, <2>2 DEF Sealed, B
  <2>4. run.unadmitted = <<>>
    BY <2>2 DEF RunShape
  <2>5. I' = 0 /\ T' = 0 /\ U' = I /\ T = 0 /\ U = 0
    BY <1>q, <1>g, <2>2, <2>3, <2>4 DEF I, T, U
  <2>6. H' = H
    BY <2>5, <1>E, <1>H
  <2> QED
    BY <2>1, <2>6, <1>0, <1>z
<1>20. CASE Throws
  <2>1. Q' = Q /\ W' = W /\ D' = D /\ C' = C /\ O' = O /\ typed' = typed
    BY <1>20 DEF Throws, Q, W, D, C, O
  <2>2. run.st \in {"begun", "live"} /\ run' = Sealed /\ Leave(ToSet(seg.lines), "told")
        /\ seg' = [seg EXCEPT !.lines = <<>>]
        /\ marks' = marks \union Mark("unmirrored", ToSet(run.taken))
    BY <1>20 DEF Throws
  <2>3. run'.ingress = <<>> /\ run'.taken = <<>> /\ run'.unadmitted = B /\ seg'.lines = <<>>
    BY <1>r, <2>2 DEF Sealed, B
  <2>4. run.unadmitted = <<>>
    BY <2>2 DEF RunShape
  <2>5. I' = 0 /\ T' = 0 /\ U' = I /\ U = 0 /\ G' = 0
    BY <1>q, <1>g, <2>2, <2>3, <2>4 DEF I, T, U, G
  <2>6. X' = IF l \in ToSet(seg.lines) THEN 1 ELSE X
    BY <2>2, <1>x, <1>w
  <2>7. (G > 0 <=> l \in ToSet(seg.lines)) /\ (T > 0 => l \in ToSet(run.taken))
    BY <1>q, <1>V, CountIs DEF G, T
  <2>8. T > 0 => <<"unmirrored", l>> \in marks'
    BY <2>2, <2>7 DEF Mark, None, Lines
  <2>10. H = H' + T
    BY <2>5, <1>E, <1>F, <1>H
  <2>9. E' <= E /\ (E' = 0 => E = 0 \/ T > 0)
    <3> DEFINE z == Q + W + D + C + O
    <3>1. z \in Nat /\ E = z + G + H + X /\ E' = z + H' + X'
      BY <2>1, <2>5, <1>E, <1>F
    <3> HIDE DEF z
    <3>2. PICK s, g, h, k, t, v, w \in Nat :
            s = z /\ g = G /\ h = H /\ k = H' /\ t = T /\ v = X /\ w = X'
      BY <3>1, <1>e
    <3>3. /\ E = s + g + h + v /\ E' = s + k + w /\ h = k + t /\ v <= 1
          /\ (g > 0 /\ w = 1) \/ (g = 0 /\ w = v)
      BY <3>1, <3>2, <1>e, <2>6, <2>7, <2>10
    <3>4. s + k + w <= s + g + h + v /\ (s + k + w = 0 => s + g + h + v = 0 \/ t > 0)
      BY <3>3
    <3> QED
      BY <3>2, <3>3, <3>4
  <2> QED
    BY <1>t, <2>1, <2>8, <2>9
<1>21. CASE Settles
  <2>1. Q' = Q /\ W' = W /\ D' = D /\ O' = O /\ X' = X /\ typed' = typed
    BY <1>21 DEF Settles, Q, W, D, O, X
  <2>2. /\ run.st = "sealed" /\ run' = NoRun /\ seg' = Idle
        /\ chain' = IF Handed(Len(run.unadmitted)) = <<>> THEN chain
                    ELSE Queue(chain, Handed(Len(run.unadmitted)))
    BY <1>21 DEF Settles
  <2>3. run.ingress = <<>> /\ run.taken = <<>> /\ seg.lines = <<>>
    BY <2>2 DEF RunShape
  <2>4. I = 0 /\ T = 0 /\ G = 0 /\ I' = 0 /\ T' = 0 /\ U' = 0 /\ G' = 0
    BY <1>q, <1>r, <2>2, <2>3 DEF I, T, U, G
  <2>5. C' = C + K2
    <3>1. CountIn(Queue(chain, Handed(Len(run.unadmitted))), l) = C + K2
      BY <1>c, <1>g DEF K2
    <3> QED
      <4>1. CASE Handed(Len(run.unadmitted)) = <<>>
        <5>1. K2 = 0
          BY <4>1, <1>q DEF K2
        <5>2. C' = C
          BY <2>2, <4>1 DEF C
        <5> QED
          BY <5>1, <5>2, <1>E
      <4>2. CASE Handed(Len(run.unadmitted)) # <<>>
        BY <2>2, <3>1, <4>2 DEF C
      <4> QED
        BY <4>1, <4>2
  <2>6. H = U /\ H' = 0
    BY <2>4, <1>E, <1>H
  <2>7. E' <= E /\ (E' = 0 => E = 0 \/ (U > 0 /\ K2 = 0))
    BY <1>E, <1>F, <1>g, <1>b, <2>1, <2>4, <2>5, <2>6
  <2> QED
    BY <2>7, <1>t, <1>M, <1>g, <2>1
<1>22. CASE RecoverySettles
  <2>1. D' = D /\ G' = G /\ H' = H /\ O' = O /\ X' = X /\ typed' = typed
    BY <1>22 DEF RecoverySettles, D, G, I, T, U, O, X, H
  <2>2. queuedLines' = <<>>
    BY <1>22 DEF RecoverySettles
  <2>3. Q' = 0
    BY <2>2, <1>q DEF Q
  <2>4. C' + W' = C + W + Q
    <3>1. CASE chain' = QueueEach(chain, queuedLines) /\ switchLines' = switchLines
      <4>1. C' = C + Q /\ W' = W
        BY <3>1, <1>c, <1>V DEF C, Q, W
      <4> QED
        BY <4>1, <1>E
    <3>2. CASE \E k \in 0..(Len(queuedLines) - 1) :
                 /\ chain' = Await(QueueEach(chain, SubSeq(queuedLines, 1, k)))
                 /\ switchLines' = switchLines \o SubSeq(queuedLines, k + 1, Len(queuedLines))
      <4>1. PICK k \in 0..(Len(queuedLines) - 1) :
                 /\ chain' = Await(QueueEach(chain, SubSeq(queuedLines, 1, k)))
                 /\ switchLines' = switchLines \o SubSeq(queuedLines, k + 1, Len(queuedLines))
        BY <3>2
      <4> DEFINE a == SubSeq(queuedLines, 1, k)
                 b == SubSeq(queuedLines, k + 1, Len(queuedLines))
      <4>2. queuedLines \in Seq(Lines) /\ Len(queuedLines) \in Nat
        BY <1>V, LenProperties DEF LineQueues
      <4>3. k \in Nat /\ k <= Len(queuedLines)
        BY <4>2
      <4>4. a \in LineQueues /\ b \in LineQueues
        BY <1>V, <4>3, TypedMarks
      <4>5. queuedLines = a \o b
        <5>1. 1 \in 1..(Len(queuedLines) + 1) /\ k \in (1 - 1)..Len(queuedLines)
              /\ Len(queuedLines) \in k..Len(queuedLines)
          BY <4>2, <4>3
        <5>2. a \o b = SubSeq(queuedLines, 1, Len(queuedLines))
          BY <4>2, <5>1, ConcatAdjacentSubSeq
        <5> QED
          BY <5>2, <4>2, SubSeqFull
      <4> HIDE DEF a, b
      <4>6. Q = Count(a, l) + Count(b, l)
        BY <1>q, <4>4, <4>5 DEF Q
      <4>7. W' = W + Count(b, l)
        BY <1>q, <1>V, <4>1, <4>4 DEF W, b
      <4>8. C' = C + Count(a, l)
        <5>1. QueueEach(chain, a) \in Chains
          BY <1>V, <4>4, ChainMoves
        <5>2. CountIn(Await(QueueEach(chain, a)), l) = CountIn(QueueEach(chain, a), l)
          BY <5>1, ChainCounts
        <5> QED
          BY <1>c, <4>1, <4>4, <5>2 DEF C, a
      <4>9. Count(a, l) \in Nat /\ Count(b, l) \in Nat
        BY <1>q, <4>4
      <4> QED
        <5> DEFINE na == Count(a, l)
                   nb == Count(b, l)
        <5>1. Q = na + nb /\ W' = W + nb /\ C' = C + na /\ na \in Nat /\ nb \in Nat
          BY <4>6, <4>7, <4>8, <4>9
        <5> HIDE DEF na, nb
        <5> QED
          BY <5>1, <1>E
    <3> QED
      BY <1>22, <3>1, <3>2 DEF RecoverySettles
  <2>6. C' + W' = (C + W) + Q
    BY <2>4, <1>E
  <2>7. E' = Q' + D' + G' + H' + O' + X' + (C' + W') /\ E = D + G + H + O + X + ((C + W) + Q)
    BY <1>E, <1>F
  <2>5. E' = E
    <3> DEFINE z == D + G + H + O + X
    <3>1. z \in Nat /\ E = z + ((C + W) + Q) /\ E' = z + (C' + W')
      BY <2>1, <2>3, <2>7, <1>E, <1>F
    <3> QED
      BY <3>1, <2>6
  <2> QED
    BY <1>t, <1>E, <2>1, <2>5
<1>23. CASE NextEntry
  <2>1. C' = C /\ G' = G /\ H' = H /\ O' = O /\ X' = X /\ typed' = typed
    BY <1>23 DEF NextEntry, C, G, I, T, U, O, X, H
  <2>2. /\ queuedLines' = seed \o switchLines /\ seed' = <<>> /\ switchLines' = <<>>
        /\ phase = "opening"
    BY <1>23 DEF NextEntry
  <2>3. queuedLines = <<>>
    BY <2>2 DEF EntryShape
  <2>4. Q' = D + W /\ D' = 0 /\ W' = 0 /\ Q = 0
    BY <1>q, <1>V, <2>2, <2>3 DEF Q, D, W
  <2>5. E' <= E /\ (E' = 0 => E = 0)
    BY <1>E, <1>F, <2>1, <2>4
  <2> QED
    BY <1>t, <2>1, <2>5
<1>24. CASE SwitchRefused
  <2>1. Q' = Q /\ C' = C /\ G' = G /\ H' = H /\ O' = O /\ typed' = typed
    BY <1>24 DEF SwitchRefused, Q, C, G, I, T, U, O, H
  <2>2. /\ seed' = <<>> /\ switchLines' = <<>>
        /\ gone' = [x \in Lines |-> IF x \in ToSet(switchLines) THEN "told"
                              ELSE IF x \in ToSet(seed) THEN "dropped" ELSE gone[x]]
    BY <1>24 DEF SwitchRefused
  <2>3. D' = 0 /\ W' = 0
    BY <1>q, <2>2 DEF D, W
  <2>4. (D > 0 <=> l \in ToSet(seed)) /\ (W > 0 <=> l \in ToSet(switchLines))
    BY <1>q, <1>V DEF D, W
  <2>5. X' = IF D > 0 \/ W > 0 THEN 1 ELSE X
    BY <2>2, <2>4 DEF X
  <2>6. E' <= E /\ (E' = 0 => E = 0)
    BY <1>E, <1>F, <2>1, <2>3, <2>5
  <2> QED
    BY <1>t, <2>1, <2>6
<1> QED
  BY <1>1, <1>2, <1>3, <1>4, <1>5, <1>6, <1>7, <1>8, <1>9, <1>10, <1>11, <1>12, <1>13,
     <1>14,
     <1>15, <1>16, <1>17, <1>18, <1>19, <1>20, <1>21, <1>22, <1>23, <1>24 DEF Next

-----------------------------------------------------------------------------
(* A line is typed once and is in one place.                               *)

LEMMA HeldIs ==
  ASSUME NEW r \in Runs, NEW l \in Lines
  PROVE  /\ l \in InHand(r) <=> (Count(r.ingress, l) > 0 \/ Count(r.taken, l) > 0
                                 \/ Count(r.unadmitted, l) > 0)
         /\ Count(r.taken, l) > 0 <=> l \in ToSet(r.taken)
         /\ Count(r.ingress, l) \in Nat /\ Count(r.taken, l) \in Nat /\ Count(r.unadmitted, l) \in Nat
<1>1. /\ r.ingress \in Seq(Lines \cup {None}) /\ r.taken \in Seq(Lines \cup {None})
      /\ r.unadmitted \in Seq(Lines)
  BY DEF Runs
<1>2. \A s \in Seq(Lines \cup {None}) : Count(s, l) \in Nat /\ (Count(s, l) > 0
          <=> l \in ToSet(s))
  BY CountIs
<1>3. Count(r.unadmitted, l) \in Nat /\ (Count(r.unadmitted, l) > 0
          <=> l \in ToSet(r.unadmitted))
  BY <1>1, CountIs
<1>4. /\ ToSet(Humans(r.ingress)) = ToSet(r.ingress) \cap Lines
      /\ ToSet(Humans(r.taken)) = ToSet(r.taken) \cap Lines
  BY <1>1, HumansIs
<1> QED
  BY <1>1, <1>2, <1>3, <1>4 DEF InHand

\* A line that is nowhere is in none of the places.
LEMMA Absent ==
  ASSUME Typed, NEW l \in Lines, Everywhere[l] = 0
  PROVE  /\ l \notin ToSet(queuedLines) /\ l \notin ToSet(switchLines) /\ l \notin ToSet(seed)
         /\ l \notin ToSet(LinesOf(chain)) /\ l \notin ToSet(seg.lines) /\ l \notin InHand(run)
         /\ l \notin ToSet(run.taken) /\ l \notin ToSet(run.ingress) /\ l \notin ToSet(run.unadmitted)
         /\ l \notin ToSet(LinesOf(log))
<1> DEFINE Q == Count(queuedLines, l)
           W == Count(switchLines, l)
           D == Count(seed, l)
           C == CountIn(chain, l)
           G == Count(seg.lines, l)
           I == Count(run.ingress, l)
           T == Count(run.taken, l)
           U == Count(run.unadmitted, l)
           O == CountIn(log, l)
           X == IF gone[l] = "" THEN 0 ELSE 1
           E == Everywhere[l]
<1>1. /\ E = Q + W + D + C + G + (I + T + U) + O + X /\ E = 0
      /\ Q \in Nat /\ W \in Nat /\ D \in Nat /\ C \in Nat /\ G \in Nat /\ I \in Nat /\ T \in Nat
      /\ U \in Nat /\ O \in Nat /\ X \in {0, 1}
  BY Places9
<1> HIDE DEF Q, W, D, C, G, I, T, U, O, X, E
<1>z. X \in Nat
  BY <1>1
<1>y. /\ ~(Q > 0) /\ ~(W > 0) /\ ~(D > 0) /\ ~(C > 0) /\ ~(G > 0) /\ ~(I > 0) /\ ~(T > 0)
      /\ ~(U > 0) /\ ~(O > 0)
  BY <1>1, <1>z
<1>2. /\ ~(Count(queuedLines, l) > 0) /\ ~(Count(switchLines, l) > 0) /\ ~(Count(seed, l) > 0)
      /\ ~(CountIn(chain, l) > 0) /\ ~(Count(seg.lines, l) > 0) /\ ~(Count(run.ingress, l) > 0)
      /\ ~(Count(run.taken, l) > 0) /\ ~(Count(run.unadmitted, l) > 0) /\ ~(CountIn(log, l) > 0)
  BY <1>y DEF Q, W, D, C, G, I, T, U, O
<1>3. /\ queuedLines \in LineQueues /\ switchLines \in LineQueues /\ seed \in LineQueues
      /\ chain \in Chains /\ seg.lines \in LineQueues /\ run \in Runs
      /\ run.ingress \in Seq(Lines \cup {None}) /\ run.unadmitted \in LineQueues
  BY RunIs DEF Typed, Running, LineQueues
<1>4. \A s \in LineQueues : Count(s, l) > 0 <=> l \in ToSet(s)
  BY QueueCounts
<1>5. CountIn(log, l) > 0 <=> l \in ToSet(LinesOf(log))
  BY LogCounts
<1>6. CountIn(chain, l) > 0 <=> l \in ToSet(LinesOf(chain))
  BY <1>3, ChainCounts
<1>7. Count(run.ingress, l) > 0 <=> l \in ToSet(run.ingress)
  BY <1>3, CountIs
<1> QED
  BY <1>2, <1>3, <1>4, <1>5, <1>6, <1>7, HeldIs

LEMMA AbsentNext ==
  ASSUME Typed', NEW l \in Lines, Everywhere'[l] = 0
  PROVE  l \notin InHand(run')
<1> DEFINE X == IF gone'[l] = "" THEN 0 ELSE 1
           a == Count(queuedLines', l) + Count(switchLines', l) + Count(seed', l)
              + CountIn(chain', l) + Count(seg'.lines, l)
           i == Count(run'.ingress, l)
           t == Count(run'.taken, l)
           u == Count(run'.unadmitted, l)
           b == CountIn(log', l)
<1>1. /\ 0 = a + (i + t + u) + b + X /\ a \in Nat /\ i \in Nat /\ t \in Nat /\ u \in Nat
      /\ b \in Nat /\ X \in Nat
  <2>1. /\ Everywhere'[l] = a + (i + t + u) + b + X
        /\ Count(queuedLines', l) \in Nat /\ Count(switchLines', l) \in Nat
        /\ Count(seed', l) \in Nat /\ CountIn(chain', l) \in Nat
        /\ Count(seg'.lines, l) \in Nat
        /\ i \in Nat /\ t \in Nat /\ u \in Nat /\ b \in Nat /\ X \in {0, 1}
    BY Places9Next
  <2>2. X \in Nat
    OBVIOUS
  <2>3. \A c, d, e, f, g \in Nat : c + d + e + f + g \in Nat
    OBVIOUS
  <2>4. a \in Nat
    BY <2>1, <2>3, Zenon
  <2> HIDE DEF a, X, i, t, u, b
  <2> QED
    BY <2>1, <2>2, <2>4
<1> HIDE DEF a, X, i, t, u, b
<1>2. ~(i > 0) /\ ~(t > 0) /\ ~(u > 0)
  <2>1. PICK a1, i1, t1, u1, b1, x1 \in Nat :
          a1 = a /\ i1 = i /\ t1 = t /\ u1 = u /\ b1 = b /\ x1 = X
    BY <1>1
  <2>2. 0 = a1 + (i1 + t1 + u1) + b1 + x1
    BY <1>1, <2>1
  <2>3. ~(i1 > 0) /\ ~(t1 > 0) /\ ~(u1 > 0)
    BY <2>2
  <2> QED
    BY <2>1, <2>3
<1>3. run' \in Runs
  BY DEF Typed
<1> QED
  BY <1>2, <1>3, HeldIs DEF i, t, u

\* A line that is somewhere has been typed.
LEMMA FromTyped ==
  ASSUME Typed, Fresh
  PROVE  \A l \in Lines :
           (\/ l \in ToSet(queuedLines) \/ l \in ToSet(switchLines) \/ l \in ToSet(seed)
            \/ l \in ToSet(LinesOf(chain)) \/ l \in ToSet(seg.lines) \/ l \in InHand(run)
            \/ l \in ToSet(run.taken) \/ l \in ToSet(run.unadmitted) \/ l \in ToSet(LinesOf(log)))
           => l <= typed
<1>1. \A l \in Lines : ~(l <= typed) => Everywhere[l] = 0
  BY TurnChainAssumption DEF Fresh, Typed, Typings, Lines
<1> QED
  BY <1>1, Absent

\* What is noted of a line is noted when it is typed or where it is.
LEMMA MarksNew ==
  ASSUME Typed, Next
  PROVE  \A m \in marks' :
           \/ m \in marks
           \/ m[2] = typed' /\ typed' # typed
           \/ m[2] \in InHand(run') \/ m[2] \in ToSet(run.taken) \ {None}
           \/ m[2] \in ToSet(LinesOf(chain)) \/ m[2] \in ToSet(queuedLines)
<1> DEFINE Known == {m \in marks' :
           \/ m \in marks
           \/ m[2] = typed' /\ typed' # typed
           \/ m[2] \in InHand(run') \/ m[2] \in ToSet(run.taken) \ {None}
           \/ m[2] \in ToSet(LinesOf(chain)) \/ m[2] \in ToSet(queuedLines)}
<1>M. \A w, S : \A m \in Mark(w, S) : m[2] \in S \ {None}
  BY DEF Mark
<1>Y. \A l \in Lines : Typing(l) => typed' = l /\ typed' # typed
  BY DEF Typing, Typed, Typings
<1>R. \A r, st, more : Mirror(r, st, more) =>
        \A m \in marks' : m \in marks \/ m \in more \/ m[2] \in InHand(run')
  BY <1>M DEF Mirror
<1>E. \A w : Mark(w, {}) = {}
  BY DEF Mark
<1>1. CASE EnterEarly \/ EnterBetween \/ Enter \/ SwitchNow \/ SwitchLater \/ Wake \/ Notify
           \/ TurnStarts \/ Decides \/ Declines \/ AwaitsAgain \/ ChatReturns \/ Begins \/ Admit
           \/ Seal \/ Settles \/ RecoveryStarts \/ RecoveryThrows \/ NextEntry \/ SwitchRefused
  <2>1. marks' = marks
    BY <1>1 DEF EnterEarly, EnterBetween, Enter, SwitchNow, SwitchLater, Wake, Notify,
       TurnStarts, Decides, Declines, AwaitsAgain, ChatReturns, Begins, Admit, Seal, Settles,
       RecoveryStarts, RecoveryThrows, NextEntry, SwitchRefused
  <2> QED
    BY <2>1
<1>2. CASE RedirectIdle
  <2>1. PICK l \in Lines : Typing(l)
             /\ marks' = marks \union Mark("echoed", IF Departed > (IF phase = "opening" THEN 1 ELSE 0) THEN {l} ELSE {})
    BY <1>2 DEF RedirectIdle
  <2> QED
    BY <2>1, <1>M, <1>Y, <1>E
<1>3. CASE RedirectRun
  <2>1. PICK l \in Lines : Typing(l)
             /\ Mirror([run EXCEPT !.ingress = Notices(@)], <<>>,
                        Mark("echoed", IF Departed > 0 THEN {l} ELSE {}))
    BY <1>3 DEF RedirectRun
  <2>2. \A m \in Mark("echoed", IF Departed > 0 THEN {l} ELSE {}) : m[2] = typed' /\ typed' # typed
    BY <2>1, <1>M, <1>Y, <1>E
  <2> QED
    BY <2>1, <2>2, <1>R
<1>4. CASE Escape \/ UpSteer \/ UpTurn \/ Land
  <2>1. \E r, st : Mirror(r, st, {})
    BY <1>4 DEF Escape, UpSteer, UpTurn, Land
  <2> QED
    BY <2>1, <1>R
<1>5. CASE SwitchDecides
  <2>1. chain # <<>> /\ (marks' = marks \/ marks' = marks \union Mark("behind", ToSet(LinesOf(Tail(chain)))))
    BY <1>5 DEF SwitchDecides, NextIs
  <2>2. ToSet(LinesOf(Tail(chain))) \subseteq ToSet(LinesOf(chain))
    <3>1. Tail(chain) \in Chains /\ \A l : CountIn(chain, l) = Count(Head(chain).lines, l) + CountIn(Tail(chain), l)
          /\ Head(chain) \in Segments(Kinds)
      BY <2>1, HeadIn
    <3>2. ASSUME NEW l \in ToSet(LinesOf(Tail(chain))) PROVE l \in ToSet(LinesOf(chain))
      <4>1. CountIn(Tail(chain), l) \in Nat /\ CountIn(Tail(chain), l) > 0
        BY <3>1, <3>2, ChainCounts
      <4>2. Count(Head(chain).lines, l) \in Nat
        <5>1. Head(chain).lines \in LineQueues
          BY <3>1 DEF Segments, LineQueues
        <5> QED
          BY <5>1, QueueCounts
      <4>3. CountIn(chain, l) > 0
        BY <3>1, <4>1, <4>2
      <4>4. chain \in Chains
        BY DEF Typed
      <4> QED
        BY <4>3, <4>4, ChainCounts
    <3> QED
      BY <3>2
  <2> QED
    BY <2>1, <2>2, <1>M
<1>6. CASE Throws
  <2>1. marks' = marks \union Mark("unmirrored", ToSet(run.taken))
    BY <1>6 DEF Throws
  <2> QED
    BY <2>1, <1>M
<1>7. CASE RecoverySettles
  <2>1. marks' = marks \/ \E k \in 0..(Len(queuedLines) - 1) :
          marks' = marks \union Mark("sentOn", ToSet(SubSeq(queuedLines, k + 1, Len(queuedLines))))
    BY <1>7 DEF RecoverySettles
  <2>2. ASSUME NEW k \in 0..(Len(queuedLines) - 1)
        PROVE  ToSet(SubSeq(queuedLines, k + 1, Len(queuedLines))) \subseteq ToSet(queuedLines)
    <3> DEFINE a == SubSeq(queuedLines, 1, k)
               b == SubSeq(queuedLines, k + 1, Len(queuedLines))
    <3>1. queuedLines \in Seq(Lines) /\ Len(queuedLines) \in Nat
      BY LenProperties DEF Typed, LineQueues
    <3>2. k \in Nat /\ k <= Len(queuedLines)
      BY <3>1
    <3>3. a \in Seq(Lines) /\ b \in Seq(Lines)
      BY <3>1, <3>2, TypedMarks DEF LineQueues
    <3>4. queuedLines = a \o b
      <4>1. 1 \in 1..(Len(queuedLines) + 1) /\ k \in (1 - 1)..Len(queuedLines)
            /\ Len(queuedLines) \in k..Len(queuedLines)
        BY <3>1, <3>2
      <4>2. a \o b = SubSeq(queuedLines, 1, Len(queuedLines))
        BY <3>1, <4>1, ConcatAdjacentSubSeq
      <4> QED
        BY <4>2, <3>1, SubSeqFull
    <3> HIDE DEF a, b
    <3>5. ToSet(queuedLines) = ToSet(a) \cup ToSet(b)
      BY <3>3, <3>4, CountCat
    <3> QED
      BY <3>5 DEF b
  <2> QED
    BY <2>1, <2>2, <1>M
<1> QED
  BY <1>1, <1>2, <1>3, <1>4, <1>5, <1>6, <1>7 DEF Next

LEMMA EverywhereNat ==
  ASSUME Typed, Typed', NEW l \in Lines
  PROVE  Everywhere[l] \in Nat /\ Everywhere'[l] \in Nat
<1> DEFINE Q == Count(queuedLines, l)
           W == Count(switchLines, l)
           D == Count(seed, l)
           C == CountIn(chain, l)
           G == Count(seg.lines, l)
           I == Count(run.ingress, l)
           T == Count(run.taken, l)
           U == Count(run.unadmitted, l)
           O == CountIn(log, l)
           X == IF gone[l] = "" THEN 0 ELSE 1
           E == Everywhere[l]
<1>1. /\ E = Q + W + D + C + G + (I + T + U) + O + X
      /\ Q \in Nat /\ W \in Nat /\ D \in Nat /\ C \in Nat /\ G \in Nat /\ I \in Nat /\ T \in Nat
      /\ U \in Nat /\ O \in Nat /\ X \in {0, 1}
  BY Places9
<1>2. /\ E' = Q' + W' + D' + C' + G' + (I' + T' + U') + O' + X'
      /\ Q' \in Nat /\ W' \in Nat /\ D' \in Nat /\ C' \in Nat /\ G' \in Nat /\ I' \in Nat
      /\ T' \in Nat /\ U' \in Nat /\ O' \in Nat /\ X' \in {0, 1}
  BY Places9Next
<1> HIDE DEF Q, W, D, C, G, I, T, U, O, X, E
<1>3. \A x \in {0, 1} : x \in Nat
  OBVIOUS
<1>4. E \in Nat
  BY <1>1, <1>3
<1>5. E' \in Nat
  <2>1. PICK q, w, d, c, g, i, t, u, o, x \in Nat :
          /\ q = Q' /\ w = W' /\ d = D' /\ c = C' /\ g = G' /\ i = I' /\ t = T' /\ u = U'
          /\ o = O' /\ x = X'
    BY <1>2, <1>3
  <2>2. E' = q + w + d + c + g + (i + t + u) + o + x
    BY <1>2, <2>1
  <2> QED
    BY <2>2
<1> QED
  BY <1>4, <1>5 DEF E

LEMMA FreshStep ==
  ASSUME Typed, Typed', RunShape, RunShape', EntryShape, ChainShape, Mirrored, Fresh, Next
  PROVE  Fresh'
<1> SUFFICES ASSUME NEW l \in Lines, l > typed'
             PROVE  Everywhere'[l] = 0 /\ \A m \in marks' : m[2] # l
  BY DEF Fresh
<1>0. typed \in Nat /\ typed' \in Nat /\ l \in Nat
  BY TurnChainAssumption DEF Typed, Typings, Lines
<1>1. l > typed /\ l # typed' /\ ~(l = typed + 1 /\ typed' = l)
  BY <1>0, TypingMoves
<1>2. Everywhere[l] = 0 /\ \A m \in marks : m[2] # l
  BY <1>1 DEF Fresh
<1>3. Everywhere'[l] = 0
  <2>1. Stays(l)
    BY <1>1, FlowStep DEF Appears
  <2>2. Everywhere'[l] \in Nat
    BY EverywhereNat
  <2>3. Everywhere'[l] <= 0
    BY <1>2, <2>1 DEF Stays
  <2> QED
    BY <2>2, <2>3
<1>4. l \notin InHand(run')
  BY <1>3, AbsentNext
<1>5. ASSUME NEW m \in marks', m[2] = l PROVE FALSE
  BY <1>1, <1>2, <1>4, <1>5, Absent, MarksNew
<1> QED
  BY <1>3, <1>5

LEMMA PlacedStep ==
  ASSUME Typed, Typed', RunShape, RunShape', EntryShape, ChainShape, Mirrored, Fresh, Placed, Next
  PROVE  Placed'
<1> SUFFICES ASSUME NEW l \in Lines
             PROVE  /\ Everywhere'[l] > 1 => <<"echoed", l>> \in marks'
                    /\ l <= typed' /\ Everywhere'[l] = 0 => <<"unmirrored", l>> \in marks'
  BY DEF Placed, Marked
<1>0. /\ typed \in Nat /\ typed' \in Nat /\ l \in Nat
      /\ Everywhere[l] \in Nat /\ Everywhere'[l] \in Nat /\ marks \subseteq marks'
  BY TurnChainAssumption, EverywhereNat, MarksGrow DEF Typed, Typings, Lines
<1>1. CASE Appears(l)
  <2>1. PICK e \in Nat : e = Everywhere'[l]
    BY <1>0
  <2>2. e >= 1 /\ (e > 1 => <<"echoed", l>> \in marks')
    BY <1>1, <2>1 DEF Appears
  <2>3. e # 0
    BY <2>2
  <2> QED
    BY <2>1, <2>2, <2>3
<1>2. CASE Stays(l)
  <2>1. PICK d, e \in Nat : d = Everywhere[l] /\ e = Everywhere'[l]
    BY <1>0
  <2>2. e <= d /\ (e = 0 => d = 0 \/ <<"unmirrored", l>> \in marks')
    BY <1>2, <2>1 DEF Stays
  <2>3. e > 1 => d > 1
    BY <2>2
  <2>4. e > 1 => <<"echoed", l>> \in marks'
    BY <1>0, <2>1, <2>3 DEF Placed, Marked
  <2>5. l <= typed' => l <= typed
    <3>1. ~(l = typed + 1 /\ typed' = l)
      BY <1>2 DEF Stays
    <3>2. PICK t, u \in Nat : t = typed /\ u = typed'
      BY <1>0
    <3>3. ~(l = t + 1 /\ u = l) /\ (u = t \/ u = t + 1)
      BY <3>1, <3>2, TypingMoves
    <3>4. l <= u => l <= t
      BY <3>3, <1>0
    <3> QED
      BY <3>2, <3>4
  <2>6. l <= typed' /\ e = 0 => <<"unmirrored", l>> \in marks'
    BY <1>0, <2>1, <2>2, <2>5 DEF Placed, Marked
  <2> QED
    BY <2>1, <2>4, <2>6
<1> QED
  BY <1>1, <1>2, FlowStep

-----------------------------------------------------------------------------
(* A line is answered where it was aimed.                                  *)

\* The lines of a chain after each kind of change.
LEMMA ChainSets ==
  ASSUME NEW c \in Chains, NEW l
  PROVE  /\ l \notin ToSet(LinesOf(<<>>))
         /\ \A s \in LineQueues :
              l \in ToSet(LinesOf(Queue(c, s))) <=> l \in ToSet(LinesOf(c)) \/ l \in ToSet(s)
         /\ \A s \in LineQueues :
              l \in ToSet(LinesOf(QueueEach(c, s)))
                  <=> l \in ToSet(LinesOf(c)) \/ l \in ToSet(s)
         /\ l \in ToSet(LinesOf(Await(c))) <=> l \in ToSet(LinesOf(c))
         /\ l \in ToSet(LinesOf(Append(c, Switch))) <=> l \in ToSet(LinesOf(c))
         /\ l \in ToSet(LinesOf(Append(c, [kind |-> "awaitAgain", lines |-> <<>>])))
              <=> l \in ToSet(LinesOf(c))
         /\ \A s \in LineQueues :
              l \in ToSet(LinesOf(Queue(Others(c), s) \o Turns(c)))
                <=> l \in ToSet(LinesOf(c)) \/ l \in ToSet(s)
         /\ \A i \in 1..Len(c) :
              l \in ToSet(LinesOf(RemoveAt(c, i))) => l \in ToSet(LinesOf(c))
<1> DEFINE n(x) == CountIn(x, l)
           a2 == [kind |-> "awaitAgain", lines |-> <<>>]
<1>1. \A x \in Chains : n(x) \in Nat /\ (n(x) > 0 <=> l \in ToSet(LinesOf(x)))
  BY ChainCounts
<1>2. \A s \in LineQueues : Count(s, l) \in Nat /\ (Count(s, l) > 0 <=> l \in ToSet(s))
  BY QueueCounts
<1>3. /\ \A s \in LineQueues : Queue(c, s) \in Chains /\ QueueEach(c, s) \in Chains
      /\ Await(c) \in Chains /\ Append(c, Switch) \in Chains /\ Append(c, a2) \in Chains
      /\ \A s \in LineQueues : Queue(Others(c), s) \o Turns(c) \in Chains
      /\ \A i \in 1..Len(c) : RemoveAt(c, i) \in Chains
  <2>1. c \in Seq(Segments(Kinds))
    BY DEF Chains
  <2>2. \A s \in Seq(Lines) : /\ Queue(c, s) \in Seq(Segments(Kinds))
                              /\ QueueEach(c, s) \in Seq(Segments(Kinds))
    BY <2>1, QueueIs, QueueEachIs
  <2>3. Await(c) \in Seq(Segments(Kinds)) /\ Append(c, Switch) \in Seq(Segments(Kinds))
        /\ Append(c, a2) \in Seq(Segments(Kinds)) /\ Others(c) \in Seq(Segments(Kinds))
        /\ Turns(c) \in Seq(Segments(Kinds))
    <3>1. <<>> \in Seq(Lines)
      BY EmptySeq
    <3> QED
      BY <2>1, <3>1, QueueIs
  <2>4. \A s \in Seq(Lines) : Queue(Others(c), s) \o Turns(c) \in Seq(Segments(Kinds))
    <3>1. \A s \in Seq(Lines) : Queue(Others(c), s) \in Seq(Segments(Kinds))
      BY <2>3, QueueIs
    <3> QED
      BY <2>3, <3>1, ConcatProperties
  <2>5. \A i \in 1..Len(c) : RemoveAt(c, i) \in Seq(Segments(Kinds))
    BY <2>1, SegmentsLined, RemoveAtCounts
  <2> QED
    BY <2>2, <2>3, <2>4, <2>5 DEF Chains, LineQueues
<1>4. /\ \A s \in LineQueues : n(Queue(c, s)) = n(c) + Count(s, l)
      /\ \A s \in LineQueues : n(QueueEach(c, s)) = n(c) + Count(s, l)
      /\ n(Await(c)) = n(c) /\ n(Append(c, Switch)) = n(c) /\ n(Append(c, a2)) = n(c)
      /\ \A s \in LineQueues : n(Queue(Others(c), s) \o Turns(c)) = n(c) + Count(s, l)
      /\ \A i \in 1..Len(c) : n(RemoveAt(c, i)) + Count(c[i].lines, l) = n(c)
  BY ChainCounts
<1>5. l \notin ToSet(LinesOf(<<>>))
  BY LinesEmpty, CountEmpty
<1>6. ASSUME NEW i \in 1..Len(c), n(RemoveAt(c, i)) > 0 PROVE n(c) > 0
  <2>1. Count(c[i].lines, l) \in Nat
    <3>0. c \in Seq(Segments(Kinds))
      BY DEF Chains
    <3>9. c[i] \in Segments(Kinds)
      BY <3>0, ElementOfSeq
    <3>1. c[i].lines \in LineQueues
      BY <3>9 DEF Segments, LineQueues
    <3> QED
      BY <3>1, <1>2
  <2>2. n(RemoveAt(c, i)) \in Nat /\ n(RemoveAt(c, i)) + Count(c[i].lines, l) = n(c)
    BY <1>1, <1>3, <1>4
  <2> HIDE DEF n
  <2> QED
    BY <1>6, <2>1, <2>2
<1> HIDE DEF n, a2
<1>7. ASSUME NEW s \in LineQueues
      PROVE  /\ l \in ToSet(LinesOf(Queue(c, s))) <=> l \in ToSet(LinesOf(c)) \/ l \in ToSet(s)
             /\ l \in ToSet(LinesOf(QueueEach(c, s)))
                    <=> l \in ToSet(LinesOf(c)) \/ l \in ToSet(s)
             /\ l \in ToSet(LinesOf(Queue(Others(c), s) \o Turns(c)))
                  <=> l \in ToSet(LinesOf(c)) \/ l \in ToSet(s)
  <2>1. \A a, b \in Nat : a + b > 0 <=> a > 0 \/ b > 0
    OBVIOUS
  <2>2. n(c) \in Nat /\ Count(s, l) \in Nat
    BY <1>1, <1>2
  <2>3. n(c) + Count(s, l) > 0 <=> n(c) > 0 \/ Count(s, l) > 0
    BY <2>1, <2>2
  <2> QED
    BY <1>1, <1>2, <1>3, <1>4, <2>3
<1>8. \A i \in 1..Len(c) : l \in ToSet(LinesOf(RemoveAt(c, i))) => l \in ToSet(LinesOf(c))
  BY <1>1, <1>3, <1>6
<1>9. /\ l \in ToSet(LinesOf(Await(c))) <=> l \in ToSet(LinesOf(c))
      /\ l \in ToSet(LinesOf(Append(c, Switch))) <=> l \in ToSet(LinesOf(c))
      /\ l \in ToSet(LinesOf(Append(c, a2))) <=> l \in ToSet(LinesOf(c))
  BY <1>1, <1>3, <1>4
<1> QED
  BY <1>5, <1>7, <1>8, <1>9 DEF a2

LEMMA QueueSets ==
  /\ ToSet(<<>>) = {}
  /\ \A s, t \in LineQueues : ToSet(s \o t) = ToSet(s) \cup ToSet(t) /\ s \o t \in LineQueues
  /\ \A s \in LineQueues, x \in Lines : ToSet(Append(s, x)) = ToSet(s) \cup {x}
  /\ \A x \in Lines : ToSet(<<x>>) = {x} /\ <<x>> \in LineQueues
  /\ <<>> \in LineQueues
  /\ \A s \in LineQueues : \A k \in 0..Len(s) :
       /\ SubSeq(s, 1, k) \in LineQueues /\ SubSeq(s, k + 1, Len(s)) \in LineQueues
       /\ s = SubSeq(s, 1, k) \o SubSeq(s, k + 1, Len(s))
<1>1. ToSet(<<>>) = {} /\ \A x \in Lines : ToSet(<<x>>) = {x}
  BY CountEmpty, CountOne
<1>2. \A s, t \in Seq(Lines) : ToSet(s \o t) = ToSet(s) \cup ToSet(t) /\ s \o t \in Seq(Lines)
  BY CountCat, ConcatProperties
<1>3. \A s \in Seq(Lines), x \in Lines : ToSet(Append(s, x)) = ToSet(s) \cup {x}
  BY CountAppend
<1>4. <<>> \in Seq(Lines) /\ \A x \in Lines : <<x>> \in Seq(Lines)
  OBVIOUS
<1>5. ASSUME NEW s \in Seq(Lines), NEW k \in 0..Len(s)
      PROVE  /\ SubSeq(s, 1, k) \in Seq(Lines) /\ SubSeq(s, k + 1, Len(s)) \in Seq(Lines)
             /\ s = SubSeq(s, 1, k) \o SubSeq(s, k + 1, Len(s))
  <2>1. Len(s) \in Nat /\ \A i \in 1..Len(s) : s[i] \in Lines
    BY LenProperties, ElementOfSeq
  <2>2. 1 \in 1..(Len(s) + 1) /\ k \in (1 - 1)..Len(s) /\ Len(s) \in k..Len(s)
        /\ 1 \in Int /\ k \in Int /\ k + 1 \in Int /\ Len(s) \in Int
    BY <2>1
  <2>3. SubSeq(s, 1, k) \o SubSeq(s, k + 1, Len(s)) = SubSeq(s, 1, Len(s))
    BY <2>2, ConcatAdjacentSubSeq
  <2>4. (\A i \in 1..k : s[i] \in Lines) /\ (\A i \in (k + 1)..Len(s) : s[i] \in Lines)
    BY <2>1
  <2>5. SubSeq(s, 1, k) \in Seq(Lines) /\ SubSeq(s, k + 1, Len(s)) \in Seq(Lines)
    BY <2>2, <2>4, SubSeqProperties
  <2> QED
    BY <2>3, <2>5, SubSeqFull
<1> QED
  BY <1>1, <1>2, <1>3, <1>4, <1>5 DEF LineQueues

\* What a log says of a line, before and after it grows.
SaidIn(o, l, v) == \A k \in DOMAIN o : l \in ToSet(o[k].lines) => o[k].session = v

LEMMA SaidMore ==
  ASSUME Typed, NEW l, NEW v, NEW s \in LineQueues, SaidIn(log, l, v),
         l \in ToSet(s) => session = v
  PROVE  SaidIn(Said(s), l, v)
<1> DEFINE e == [session |-> session, lines |-> s]
<1>1. log \in Seq(Inputs) /\ e \in Inputs /\ e.session = session /\ e.lines = s
  BY DEF Typed, Logs, Inputs, LineQueues
<1> HIDE DEF e
<1>2. /\ Len(log) \in Nat /\ DOMAIN log = 1..Len(log) /\ Append(log, e) \in Seq(Inputs)
      /\ DOMAIN Append(log, e) = 1..(Len(log) + 1)
      /\ \A k \in 1..Len(log) : Append(log, e)[k] = log[k]
      /\ Append(log, e)[Len(log) + 1] = e
  BY <1>1, LenProperties, AppendProperties
<1>3. ASSUME NEW k \in 1..(Len(log) + 1), l \in ToSet(Append(log, e)[k].lines)
      PROVE  Append(log, e)[k].session = v
  <2>1. k \in 1..Len(log) \/ k = Len(log) + 1
    BY <1>2
  <2> QED
    BY <1>1, <1>2, <1>3, <2>1 DEF SaidIn
<1> QED
  BY <1>2, <1>3 DEF SaidIn, Said, e

LEMMA NotSaid ==
  ASSUME Typed, NEW l, l \notin ToSet(LinesOf(log))
  PROVE  \A v : SaidIn(log, l, v)
<1>1. log \in Seq(Inputs) /\ Lined(Inputs, Lines)
  BY DEF Typed, Logs, Inputs, Lined
<1>2. \A k \in 1..Len(log) : ToSet(log[k].lines) \subseteq ToSet(LinesOf(log))
  BY <1>1, LinesWithin
<1>3. DOMAIN log = 1..Len(log)
  BY <1>1, LenProperties
<1> QED
  BY <1>2, <1>3 DEF SaidIn

\* What each step leaves in the hands of the run.
LEMMA HandMoves ==
  ASSUME Typed, NEW l \in Lines
  PROVE  /\ \A m \in Lines : l \in InHand([run EXCEPT !.ingress = Append(@, m)])
                            <=> l \in InHand(run) \/ l = m
         /\ l \in InHand([run EXCEPT !.ingress = Append(@, None)]) <=> l \in InHand(run)
         /\ l \in InHand([run EXCEPT !.ingress = Notices(@)]) => l \in InHand(run)
         /\ Humans(run.ingress) # <<>> =>
              (l \in InHand([run EXCEPT !.ingress = Notices(@) \o Front(Humans(run.ingress))])
                 => l \in InHand(run))
         /\ l \notin InHand(NoRun) /\ l \notin InHand([NoRun EXCEPT !.st = "begun"])
         /\ l \notin InHand([NoRun EXCEPT !.st = "sealed"])
         /\ InHand([run EXCEPT !.st = "live"]) = InHand(run)
         /\ l \in InHand(Sealed) => l \in InHand(run)
         /\ l \in InHand([run EXCEPT !.taken = run.ingress, !.ingress = <<>>])
                => l \in InHand(run)
         /\ \A n \in 1..Len(run.taken) :
              /\ l \in InHand([run EXCEPT !.taken = SubSeq(@, n + 1, Len(@))])
                     => l \in InHand(run)
              /\ l \in ToSet(Humans(SubSeq(run.taken, 1, n))) => l \in InHand(run)
<1> DEFINE I == run.ingress
           T == run.taken
           U == run.unadmitted
           B == Humans(I)
<1>1. I \in Seq(Lines \cup {None}) /\ T \in Seq(Lines \cup {None}) /\ U \in Seq(Lines)
      /\ B \in Seq(Lines) /\ run \in Runs
  BY RunIs DEF Typed
<1>2. \A r : InHand(r) = ToSet(Humans(r.ingress)) \cup ToSet(Humans(r.taken)) \cup ToSet(r.unadmitted)
  BY DEF InHand
<1>3. /\ \A m \in Lines : ToSet(Humans(Append(I, m))) = ToSet(B) \cup {m}
      /\ Humans(Append(I, None)) = B /\ Humans(Notices(I)) = <<>> /\ Humans(<<>>) = <<>>
      /\ ToSet(<<>>) = {}
  <2> HIDE DEF I
  <2>1. /\ \A m \in Lines : Humans(Append(I, m)) = Append(B, m)
        /\ Humans(Append(I, None)) = B /\ Humans(<<>>) = <<>> /\ Humans(Notices(I)) = <<>>
    BY <1>1, HumansMore, HumansIs
  <2> HIDE DEF B
  <2>2. \A m \in Lines : ToSet(Append(B, m)) = ToSet(B) \cup {m}
    BY <1>1, CountAppend
  <2> QED
    BY <2>1, <2>2, CountEmpty
<1>4. B # <<>>
          => /\ Humans(Notices(I) \o Front(B)) = Front(B) /\ ToSet(Front(B)) \subseteq ToSet(B)
  <2>1. ASSUME B # <<>> PROVE Front(B) \in Seq(Lines) /\ Last(B) \in Lines /\ B = Append(Front(B), Last(B))
    BY <1>1, <2>1, FrontAndLast
  <2>2. ASSUME B # <<>> PROVE ToSet(Front(B)) \subseteq ToSet(B)
    <3> DEFINE f == Front(B)
               e == Last(B)
    <3>1. f \in Seq(Lines) /\ e \in Lines /\ B = Append(f, e)
      BY <2>1, <2>2
    <3> HIDE DEF B, f, e
    <3>2. ToSet(Append(f, e)) = ToSet(f) \cup {e}
      BY <3>1, CountAppend
    <3>3. ToSet(f) \subseteq ToSet(B)
      BY <3>1, <3>2
    <3> QED
      BY <3>3 DEF f
  <2> QED
    BY <1>1, <2>1, <2>2, HumansMore
<1>5. ASSUME NEW n \in 1..Len(T)
      PROVE  /\ ToSet(Humans(SubSeq(T, 1, n))) \subseteq ToSet(Humans(T))
             /\ ToSet(Humans(SubSeq(T, n + 1, Len(T)))) \subseteq ToSet(Humans(T))
  <2>1. /\ SubSeq(T, 1, n) \in Seq(Lines \cup {None})
        /\ SubSeq(T, n + 1, Len(T)) \in Seq(Lines \cup {None})
    BY TypedRun
  <2>2. T = SubSeq(T, 1, n) \o SubSeq(T, n + 1, Len(T))
    <3>1. Len(T) \in Nat /\ \A i \in 1..Len(T) : T[i] \in Lines \cup {None}
      BY <1>1, LenProperties, ElementOfSeq
    <3> HIDE DEF T
    <3>2. 1 \in Int /\ n \in Int /\ n + 1 \in Int /\ Len(T) \in Int
          /\ 1 \in 1..(Len(T) + 1) /\ n \in (1 - 1)..Len(T) /\ Len(T) \in n..Len(T)
      BY <3>1
    <3>3. SubSeq(T, 1, n) \o SubSeq(T, n + 1, Len(T)) = SubSeq(T, 1, Len(T))
      BY <1>1, <3>2, ConcatAdjacentSubSeq
    <3> QED
      BY <1>1, <3>3, SubSeqFull
  <2> HIDE DEF T
  <2>3. ToSet(T) = ToSet(SubSeq(T, 1, n)) \cup ToSet(SubSeq(T, n + 1, Len(T)))
    BY <2>1, <2>2, CountCat
  <2> QED
    BY <1>1, <2>1, <2>3, HumansIs
<1> DEFINE in(r) == l \in InHand(r)
<1>7. run = [st |-> run.st, ingress |-> I, taken |-> T, unadmitted |-> U]
  BY <1>1 DEF Runs
<1> DEFINE rec(s, i, t, u) == [st |-> s, ingress |-> i, taken |-> t, unadmitted |-> u]
<1>8. ASSUME NEW s, NEW i, NEW t, NEW u
      PROVE  in(rec(s, i, t, u))
                 <=> l \in ToSet(Humans(i)) \/ l \in ToSet(Humans(t)) \/ l \in ToSet(u)
  BY DEF InHand
<1>9. /\ \A x : [run EXCEPT !.ingress = x] = rec(run.st, x, T, U)
      /\ \A x : [run EXCEPT !.taken = x] = rec(run.st, I, x, U)
      /\ [run EXCEPT !.st = "live"] = rec("live", I, T, U)
      /\ run = rec(run.st, I, T, U) /\ NoRun = rec("none", <<>>, <<>>, <<>>)
      /\ \A x : [NoRun EXCEPT !.st = x] = rec(x, <<>>, <<>>, <<>>)
  <2> DEFINE z == run.st
  <2>1. run = [st |-> z, ingress |-> I, taken |-> T, unadmitted |-> U]
    BY <1>7
  <2>5. run = rec(run.st, I, T, U)
    BY <1>7
  <2> HIDE DEF I, T, U, B, z
  <2>2. /\ \A x : [run EXCEPT !.ingress = x] = rec(z, x, T, U)
        /\ \A x : [run EXCEPT !.taken = x] = rec(z, I, x, U)
    BY <2>1
  <2>6. [run EXCEPT !.st = "live"] = rec("live", I, T, U)
    BY <2>1
  <2>4. NoRun = rec("none", <<>>, <<>>, <<>>) /\ \A x : [NoRun EXCEPT !.st = x] = rec(x, <<>>, <<>>, <<>>)
    BY DEF NoRun
  <2> QED
    BY <2>2, <2>4, <2>5, <2>6 DEF z
<1> HIDE DEF in, rec
<1>10. in(run) <=> l \in ToSet(B) \/ l \in ToSet(Humans(T)) \/ l \in ToSet(U)
  <2>1. run = rec(run.st, I, T, U)
    BY <1>9
  <2>2. in(rec(run.st, I, T, U))
            <=> l \in ToSet(Humans(I)) \/ l \in ToSet(Humans(T)) \/ l \in ToSet(U)
    BY <1>8
  <2> QED
    BY <2>1, <2>2
<1>11. \A m \in Lines : in([run EXCEPT !.ingress = Append(I, m)]) <=> in(run) \/ l = m
  <2>1. TAKE m \in Lines
  <2>2. in(rec(run.st, Append(I, m), T, U))
          <=> l \in ToSet(Humans(Append(I, m))) \/ l \in ToSet(Humans(T)) \/ l \in ToSet(U)
    BY <1>8
  <2>3. [run EXCEPT !.ingress = Append(I, m)] = rec(run.st, Append(I, m), T, U)
    BY <1>9
  <2>4. l \in ToSet(Humans(Append(I, m))) <=> l \in ToSet(B) \/ l = m
    BY <1>3
  <2> QED
    BY <1>10, <2>2, <2>3, <2>4
<1>12. in([run EXCEPT !.ingress = Append(I, None)]) <=> in(run)
  <2>1. in(rec(run.st, Append(I, None), T, U))
          <=> l \in ToSet(Humans(Append(I, None))) \/ l \in ToSet(Humans(T)) \/ l \in ToSet(U)
    BY <1>8
  <2> QED
    BY <1>3, <1>9, <1>10, <2>1
<1>13. in([run EXCEPT !.ingress = Notices(I)]) => in(run)
  <2>1. in(rec(run.st, Notices(I), T, U))
          <=> l \in ToSet(Humans(Notices(I))) \/ l \in ToSet(Humans(T)) \/ l \in ToSet(U)
    BY <1>8
  <2> QED
    BY <1>3, <1>9, <1>10, <2>1
<1>14. B # <<>> => (in([run EXCEPT !.ingress = Notices(I) \o Front(B)]) => in(run))
  <2>1. in(rec(run.st, Notices(I) \o Front(B), T, U))
          <=> l \in ToSet(Humans(Notices(I) \o Front(B))) \/ l \in ToSet(Humans(T)) \/ l \in ToSet(U)
    BY <1>8
  <2> QED
    BY <1>4, <1>9, <1>10, <2>1
<1>15. ~in(NoRun) /\ ~in([NoRun EXCEPT !.st = "begun"]) /\ ~in([NoRun EXCEPT !.st = "sealed"])
  <2>1. \A x : in(rec(x, <<>>, <<>>, <<>>))
           <=> l \in ToSet(Humans(<<>>)) \/ l \in ToSet(Humans(<<>>)) \/ l \in ToSet(<<>>)
    BY <1>8
  <2>2. \A x : ~in(rec(x, <<>>, <<>>, <<>>))
    BY <1>3, <2>1
  <2>3. NoRun = rec("none", <<>>, <<>>, <<>>)
        /\ [NoRun EXCEPT !.st = "begun"] = rec("begun", <<>>, <<>>, <<>>)
        /\ [NoRun EXCEPT !.st = "sealed"] = rec("sealed", <<>>, <<>>, <<>>)
    BY <1>9
  <2> QED
    BY <2>2, <2>3
<1>16. InHand([run EXCEPT !.st = "live"]) = InHand(run)
  <2>1. run.st = run.st /\ [run EXCEPT !.st = "live"] = [st |-> "live", ingress |-> I, taken |-> T, unadmitted |-> U]
    BY <1>9 DEF rec
  <2> QED
    BY <1>2, <2>1
<1>17. in(Sealed) => in(run)
  <2>1. Sealed.ingress = <<>> /\ Sealed.taken = <<>> /\ Sealed.unadmitted = B
    BY <1>7 DEF Sealed
  <2>2. in(Sealed) <=> l \in ToSet(Humans(<<>>)) \/ l \in ToSet(Humans(<<>>)) \/ l \in ToSet(B)
    BY <2>1 DEF in, InHand
  <2> QED
    BY <1>3, <1>10, <2>2
<1>18. in([run EXCEPT !.taken = I, !.ingress = <<>>]) => in(run)
  <2> DEFINE r == [run EXCEPT !.taken = I, !.ingress = <<>>]
  <2>1. r.ingress = <<>> /\ r.taken = I /\ r.unadmitted = U
    BY <1>7
  <2>2. in(r) <=> l \in ToSet(Humans(<<>>)) \/ l \in ToSet(Humans(I)) \/ l \in ToSet(U)
    BY <2>1 DEF in, InHand
  <2> QED
    BY <1>3, <1>10, <2>2
<1>19. \A n \in 1..Len(T) : in([run EXCEPT !.taken = SubSeq(T, n + 1, Len(T))]) => in(run)
  <2>1. TAKE n \in 1..Len(T)
  <2>2. in(rec(run.st, I, SubSeq(T, n + 1, Len(T)), U))
          <=> l \in ToSet(Humans(I)) \/ l \in ToSet(Humans(SubSeq(T, n + 1, Len(T)))) \/ l \in ToSet(U)
    BY <1>8
  <2> QED
    BY <1>5, <1>9, <1>10, <2>2
<1>20. \A n \in 1..Len(T) : l \in ToSet(Humans(SubSeq(T, 1, n))) => in(run)
  BY <1>5, <1>10
<1> QED
  BY <1>11, <1>12, <1>13, <1>14, <1>15, <1>16, <1>17, <1>18, <1>19, <1>20 DEF in

AimedLine(l) ==
  /\ l \in ToSet(queuedLines) => aim[l] = IF leaving THEN target ELSE session
  /\ l \in ToSet(switchLines) => leaving /\ aim[l] = target
  /\ l \in ToSet(seed) => leaving /\ aim[l] = target
  /\ l \in ToSet(LinesOf(chain)) \/ l \in ToSet(seg.lines) \/ l \in InHand(run)
       => aim[l] = session
  /\ SaidIn(log, l, aim[l])

LEMMA AimedLines ==
  /\ AimedAll <=> \A l \in Lines : <<"echoed", l>> \notin marks => AimedLine(l)
  /\ (\A l \in Lines : <<"echoed", l>> \notin marks' => AimedLine(l)') => AimedAll'
<1>1. AimedAll <=> \A l \in Lines : <<"echoed", l>> \notin marks => AimedLine(l)
  BY DEF AimedAll, AimedLine, Now, Marked, SaidIn
<1>2. (\A l \in Lines : <<"echoed", l>> \notin marks' => AimedLine(l)') => AimedAll'
  BY DEF AimedAll, AimedLine, Now, Marked, SaidIn
<1> QED
  BY <1>1, <1>2

\* A line just typed was in none of the places.
LEMMA NewLine ==
  ASSUME Typed, Fresh, NEW l \in Lines, l = typed + 1
  PROVE  /\ l \notin ToSet(queuedLines) /\ l \notin ToSet(switchLines) /\ l \notin ToSet(seed)
         /\ l \notin ToSet(LinesOf(chain)) /\ l \notin ToSet(seg.lines) /\ l \notin InHand(run)
         /\ \A v : SaidIn(log, l, v)
<1>1. l > typed
  BY DEF Typed, Typings
<1>2. Everywhere[l] = 0
  BY <1>1 DEF Fresh
<1> QED
  BY <1>2, Absent, NotSaid

\* What a boundary lands on the log, and what a run hands back, it held.
LEMMA HandedWithin ==
  ASSUME Typed, RunShape, Mirrored, NEW l \in Lines
  PROVE  /\ l \in ToSet(Handed(Len(Humans(run.ingress)))) => l \in InHand(run)
         /\ l \in ToSet(Handed(Len(run.unadmitted))) => l \in InHand(run)
         /\ Handed(Len(Humans(run.ingress))) \in LineQueues
         /\ Handed(Len(run.unadmitted)) \in LineQueues
<1> DEFINE B == Humans(run.ingress)
           U == run.unadmitted
           hb == Handed(Len(B))
           hu == Handed(Len(U))
<1>1. /\ hb \in LineQueues /\ hu \in LineQueues /\ B \in LineQueues /\ U \in LineQueues
      /\ Count(hb, l) <= Count(B, l) /\ Count(hu, l) <= Count(U, l)
  BY GivesBack
<1>2. InHand(run) = ToSet(B) \cup ToSet(Humans(run.taken)) \cup ToSet(U)
  BY DEF InHand
<1> HIDE DEF B, U, hb, hu
<1>3. \A s \in LineQueues : Count(s, l) \in Nat /\ (Count(s, l) > 0 <=> l \in ToSet(s))
  BY QueueCounts
<1>4. (l \in ToSet(hb) => l \in ToSet(B)) /\ (l \in ToSet(hu) => l \in ToSet(U))
  BY <1>1, <1>3
<1> QED
  BY <1>1, <1>2, <1>4 DEF B, U, hb, hu

LEMMA AimedStep ==
  ASSUME Typed, Typed', RunShape, EntryShape, ChainShape, Mirrored, Fresh, Placed, AimedAll, Next
  PROVE  AimedAll'
<1> SUFFICES ASSUME NEW l \in Lines, <<"echoed", l>> \notin marks' PROVE AimedLine(l)'
  BY AimedLines
<1> DEFINE q == l \in ToSet(queuedLines)
           w == l \in ToSet(switchLines)
           d == l \in ToSet(seed)
           c == l \in ToSet(LinesOf(chain))
           g == l \in ToSet(seg.lines)
           h == l \in InHand(run)
           a == aim[l]
           S(o, v) == SaidIn(o, l, v)
<1>A. /\ q => a = IF leaving THEN target ELSE session
      /\ w => leaving /\ a = target
      /\ d => leaving /\ a = target
      /\ c \/ g \/ h => a = session
      /\ S(log, a)
  <2>1. <<"echoed", l>> \notin marks
    BY MarksGrow
  <2> QED
    BY <2>1, AimedLines DEF AimedLine
<1>G. ASSUME q' => a' = IF leaving' THEN target' ELSE session',
             w' => leaving' /\ a' = target',
             d' => leaving' /\ a' = target',
             c' \/ g' \/ h' => a' = session',
             S(log', a')
      PROVE  AimedLine(l)'
  BY <1>G DEF AimedLine
<1>Y. /\ queuedLines \in LineQueues /\ switchLines \in LineQueues /\ seed \in LineQueues
      /\ chain \in Chains /\ seg.lines \in LineQueues /\ run \in Runs /\ run.unadmitted \in LineQueues
      /\ Humans(run.ingress) \in LineQueues /\ aim \in Aims /\ entries \in Nat
  BY RunIs DEF Typed, Running, LineQueues, Entries
<1>N. \A m \in Lines : Typing(m) /\ l = m
          => ~q /\ ~w /\ ~d /\ ~c /\ ~g /\ ~h /\ \A v : S(log, v)
  BY NewLine DEF Typing
<1>T. /\ \A m \in Lines : Aimed(m)
             => a' = IF l = m THEN IF leaving THEN target ELSE session ELSE a
      /\ \A m \in Lines : \A v : AimedAt(m, v) => a' = IF l = m THEN v ELSE a
  BY <1>Y DEF Aimed, AimedAt, Aims
<1>Q. /\ ToSet(<<>>) = {}
      /\ \A s, t \in LineQueues : ToSet(s \o t) = ToSet(s) \cup ToSet(t) /\ s \o t \in LineQueues
      /\ \A s \in LineQueues, x \in Lines : ToSet(Append(s, x)) = ToSet(s) \cup {x}
      /\ \A x \in Lines : ToSet(<<x>>) = {x} /\ <<x>> \in LineQueues
      /\ <<>> \in LineQueues
  BY QueueSets
<1>C. /\ l \notin ToSet(LinesOf(<<>>))
      /\ \A s \in LineQueues : l \in ToSet(LinesOf(Queue(chain, s))) <=> c \/ l \in ToSet(s)
      /\ \A s \in LineQueues : l \in ToSet(LinesOf(QueueEach(chain, s))) <=> c \/ l \in ToSet(s)
      /\ l \in ToSet(LinesOf(Await(chain))) <=> c
      /\ l \in ToSet(LinesOf(Append(chain, Switch))) <=> c
      /\ \A s \in LineQueues :
              l \in ToSet(LinesOf(Queue(Others(chain), s) \o Turns(chain)))
                  <=> c \/ l \in ToSet(s)
      /\ \A i \in 1..Len(chain) : l \in ToSet(LinesOf(RemoveAt(chain, i))) => c
  BY <1>Y, ChainSets
<1>D. chain # <<>> =>
        /\ l \in ToSet(LinesOf(Tail(chain))) => c
        /\ l \in ToSet(Head(chain).lines) => c
        /\ l \in ToSet(LinesOf(Await(Tail(chain)))) => c
        /\ l \in ToSet(LinesOf(Append(Tail(chain), [kind |-> "awaitAgain", lines |-> <<>>]))) => c
  <2> SUFFICES ASSUME chain # <<>>
               PROVE /\ l \in ToSet(LinesOf(Tail(chain))) => c
                     /\ l \in ToSet(Head(chain).lines) => c
                     /\ l \in ToSet(LinesOf(Await(Tail(chain)))) => c
                     /\ l \in ToSet(LinesOf(Append(Tail(chain), [kind |-> "awaitAgain", lines |-> <<>>]))) => c
    OBVIOUS
  <2>1. Tail(chain) \in Chains /\ Head(chain).lines \in LineQueues
        /\ CountIn(chain, l) = Count(Head(chain).lines, l) + CountIn(Tail(chain), l)
    BY HeadIn DEF Segments, LineQueues
  <2>2. /\ CountIn(chain, l) > 0 <=> c
        /\ CountIn(Tail(chain), l) \in Nat
        /\ CountIn(Tail(chain), l) > 0 <=> l \in ToSet(LinesOf(Tail(chain)))
    BY <1>Y, <2>1, ChainCounts
  <2>3. Count(Head(chain).lines, l) \in Nat
        /\ (Count(Head(chain).lines, l) > 0 <=> l \in ToSet(Head(chain).lines))
    BY <2>1, QueueCounts
  <2>4. (l \in ToSet(LinesOf(Tail(chain))) => c) /\ (l \in ToSet(Head(chain).lines) => c)
    <3> DEFINE x == CountIn(chain, l)
               y == Count(Head(chain).lines, l)
               z == CountIn(Tail(chain), l)
    <3>1. x = y + z /\ y \in Nat /\ z \in Nat
      BY <2>1, <2>2, <2>3
    <3> HIDE DEF x, y, z
    <3>2. (y > 0 => x > 0) /\ (z > 0 => x > 0)
      BY <3>1
    <3> QED
      BY <3>2, <2>2, <2>3 DEF x, y, z
  <2> QED
    BY <2>1, <2>4, ChainSets
<1>H. /\ \A m \in Lines : l \in InHand([run EXCEPT !.ingress = Append(@, m)]) <=> h \/ l = m
      /\ l \in InHand([run EXCEPT !.ingress = Append(@, None)]) <=> h
      /\ l \in InHand([run EXCEPT !.ingress = Notices(@)]) => h
      /\ Humans(run.ingress) # <<>> =>
              (l \in InHand([run EXCEPT !.ingress = Notices(@) \o Front(Humans(run.ingress))]) => h)
      /\ l \notin InHand(NoRun) /\ l \notin InHand([NoRun EXCEPT !.st = "begun"])
      /\ l \notin InHand([NoRun EXCEPT !.st = "sealed"])
      /\ InHand([run EXCEPT !.st = "live"]) = InHand(run)
      /\ l \in InHand(Sealed) => h
      /\ l \in InHand([run EXCEPT !.taken = run.ingress, !.ingress = <<>>]) => h
      /\ \A n \in 1..Len(run.taken) :
              /\ l \in InHand([run EXCEPT !.taken = SubSeq(@, n + 1, Len(@))]) => h
              /\ l \in ToSet(Humans(SubSeq(run.taken, 1, n))) => h
  BY HandMoves
<1>K. ASSUME a' = a, session' = session, leaving' = leaving, target' = target, q' => q, w' => w,
             d' => d, c' => c \/ g \/ h, g' => c \/ g \/ h, h' => c \/ g \/ h, S(log', a)
      PROVE  AimedLine(l)'
  BY <1>A, <1>G, <1>K
<1> HIDE DEF S
<1>1. CASE EnterEarly
  <2>1. PICK m \in Lines : /\ Typing(m) /\ Aimed(m)
                           /\ queuedLines' = Append(queuedLines, m)
                           /\ UNCHANGED <<entryVars, switchLines, seed, chain, seg, runVars, log>>
    BY <1>1 DEF EnterEarly
  <2>2. (q' <=> q \/ l = m) /\ w' = w /\ d' = d /\ c' = c /\ g' = g /\ h' = h
    BY <1>Q, <1>Y, <2>1
  <2>3. a' = IF l = m THEN IF leaving THEN target ELSE session ELSE a
    BY <1>T, <2>1
  <2> HIDE DEF q, w, d, c, g, h, a
  <2>4. CASE l = m
    BY <1>G, <1>N, <2>1, <2>2, <2>3, <2>4
  <2>5. CASE l # m
    BY <1>A, <1>K, <2>1, <2>2, <2>3, <2>5
  <2> QED
    BY <2>4, <2>5
<1>2. CASE EnterBetween
  <2>1. PICK m \in Lines : /\ Typing(m) /\ Aimed(m)
                           /\ UNCHANGED <<entryVars, placeVars, chain, seg, runVars, log>>
    BY <1>2 DEF EnterBetween
  <2>2. q' = q /\ w' = w /\ d' = d /\ c' = c /\ g' = g /\ h' = h
    BY <2>1
  <2>3. a' = IF l = m THEN IF leaving THEN target ELSE session ELSE a
    BY <1>T, <2>1
  <2> HIDE DEF q, w, d, c, g, h, a
  <2>4. CASE l = m
    BY <1>G, <1>N, <2>1, <2>2, <2>3, <2>4
  <2>5. CASE l # m
    BY <1>A, <1>K, <2>1, <2>2, <2>3, <2>5
  <2> QED
    BY <2>4, <2>5
<1>3. CASE Enter
  <2>1. PICK m \in Lines : /\ Typing(m) /\ Aimed(m) /\ ~leaving /\ Submit(m)
                           /\ UNCHANGED <<entryVars, placeVars, seg, log>>
    BY <1>3 DEF Enter
  <2>2. q' = q /\ w' = w /\ d' = d /\ g' = g
    BY <2>1
  <2>3. (c' => c \/ l = m) /\ (h' => h \/ l = m)
    <3>1. CASE Steers
      BY <1>H, <2>1, <3>1 DEF Submit
    <3>2. CASE ~Steers
      BY <1>C, <1>Q, <2>1, <3>2 DEF Submit
    <3> QED
      BY <3>1, <3>2
  <2>4. a' = IF l = m THEN IF leaving THEN target ELSE session ELSE a
    BY <1>T, <2>1
  <2> HIDE DEF q, w, d, c, g, h, a
  <2>5. CASE l = m
    BY <1>G, <1>N, <2>1, <2>2, <2>3, <2>4, <2>5
  <2>6. CASE l # m
    BY <1>A, <1>K, <2>1, <2>2, <2>3, <2>4, <2>6
  <2> QED
    BY <2>5, <2>6
<1>4. CASE RedirectIdle
  <2>1. PICK m \in Lines :
          /\ Typing(m) /\ Aimed(m)
          /\ switchLines' = switchLines \o Echoes(m)
                              \o (IF phase # "opening" /\ leaving THEN <<m>> ELSE <<>>)
          /\ chain' = IF phase # "opening" /\ ~leaving THEN Queue(chain, <<m>>) ELSE chain
          /\ marks' = marks \union Mark("echoed",
                        IF Departed > (IF phase = "opening" THEN 1 ELSE 0) THEN {m} ELSE {})
          /\ UNCHANGED <<entryVars, queuedLines, seed, seg, runVars, log>>
    BY <1>4 DEF RedirectIdle
  <2>2. q' = q /\ d' = d /\ g' = g /\ h' = h
    BY <2>1
  <2>3. a' = IF l = m THEN IF leaving THEN target ELSE session ELSE a
    BY <1>T, <2>1
  <2>4. c' <=> c \/ (l = m /\ phase # "opening" /\ ~leaving)
    BY <1>C, <1>Q, <2>1
  <2>5. Departed \in Nat
    BY TurnChainAssumption DEF Departed, Typed, Entries
  <2>6. Echoes(m) \in LineQueues /\ ToSet(Echoes(m)) \subseteq {m} /\ Count(Echoes(m), m) = Departed
    BY <2>5, EchoesIs DEF LineQueues
  <2>7. w' => w \/ l \in ToSet(Echoes(m)) \/ (l = m /\ phase # "opening" /\ leaving)
    BY <1>Q, <1>Y, <2>1, <2>6
  <2>8. l = m /\ l \in ToSet(Echoes(m)) => phase = "opening"
    <3> SUFFICES ASSUME l = m, l \in ToSet(Echoes(m)), phase # "opening" PROVE FALSE
      OBVIOUS
    <3>1. Departed > 0
      BY <2>6, QueueCounts
    <3>2. <<"echoed", l>> \in marks'
      BY <2>1, <3>1 DEF Mark, Lines, None
    <3> QED
      BY <3>2
  <2>9. phase = "opening" => leaving
    BY DEF EntryShape
  <2> HIDE DEF q, w, d, c, g, h, a
  <2>10. CASE l = m
    BY <1>G, <1>N, <2>1, <2>2, <2>3, <2>4, <2>7, <2>8, <2>9, <2>10
  <2>11. CASE l # m
    BY <1>A, <1>K, <2>1, <2>2, <2>3, <2>4, <2>6, <2>7, <2>11
  <2> QED
    BY <2>10, <2>11
<1>5. CASE RedirectRun
  <2> DEFINE back == Handed(Len(Humans(run.ingress)))
  <2>1. PICK m \in Lines :
          /\ Typing(m) /\ AimedAt(m, session)
          /\ Mirror([run EXCEPT !.ingress = Notices(@)], <<>>,
                    Mark("echoed", IF Departed > 0 THEN {m} ELSE {}))
          /\ chain' = Queue(Others(chain), <<m>> \o back) \o Turns(chain)
          /\ switchLines' = switchLines \o Echoes(m)
          /\ UNCHANGED <<entryVars, queuedLines, seed, seg, log>>
    BY <1>5 DEF RedirectRun
  <2>2. q' = q /\ d' = d /\ g' = g
    BY <2>1
  <2>3. a' = IF l = m THEN session ELSE a
    BY <1>T, <2>1
  <2>4. back \in LineQueues /\ (l \in ToSet(back) => h)
    BY HandedWithin
  <2>5. h' => h
    BY <1>H, <2>1 DEF Mirror
  <2>6. c' => c \/ l = m \/ h
    <3> HIDE DEF back
    <3>1. <<m>> \o back \in LineQueues /\ ToSet(<<m>> \o back) = {m} \cup ToSet(back)
      BY <1>Q, <2>4
    <3> QED
      BY <1>C, <2>1, <2>4, <3>1
  <2>7. Departed \in Nat
    BY TurnChainAssumption DEF Departed, Typed, Entries
  <2>8. Echoes(m) \in LineQueues /\ ToSet(Echoes(m)) \subseteq {m} /\ Count(Echoes(m), m) = Departed
    BY <2>7, EchoesIs DEF LineQueues
  <2>9. w' => w \/ l \in ToSet(Echoes(m))
    BY <1>Q, <1>Y, <2>1, <2>8
  <2>10. ~(l = m /\ l \in ToSet(Echoes(m)))
    <3> SUFFICES ASSUME l = m, l \in ToSet(Echoes(m)) PROVE FALSE
      OBVIOUS
    <3>1. Departed > 0
      BY <2>8, QueueCounts
    <3>2. <<"echoed", l>> \in marks'
      BY <2>1, <3>1 DEF Mirror, Mark, Lines, None
    <3> QED
      BY <3>2
  <2> HIDE DEF q, w, d, c, g, h, a
  <2>11. CASE l = m
    BY <1>G, <1>N, <2>1, <2>2, <2>3, <2>5, <2>6, <2>9, <2>10, <2>11
  <2>12. CASE l # m
    BY <1>A, <1>K, <2>1, <2>2, <2>3, <2>5, <2>6, <2>8, <2>9, <2>12
  <2> QED
    BY <2>11, <2>12
<1>6. CASE Escape
  <2>1. q' = q /\ w' = w /\ d' = d /\ c' = c /\ g' = g /\ log' = log /\ a' = a
        /\ session' = session /\ leaving' = leaving /\ target' = target
        /\ run' = [run EXCEPT !.ingress = Notices(@)]
    BY <1>6 DEF Escape, Mirror
  <2>2. h' => h
    BY <1>H, <2>1
  <2> HIDE DEF q, w, d, c, g, h, a
  <2> QED
    BY <1>A, <1>K, <2>1, <2>2
<1>7. CASE UpSteer
  <2>1. q' = q /\ w' = w /\ d' = d /\ c' = c /\ g' = g /\ log' = log /\ a' = a
        /\ session' = session /\ leaving' = leaving /\ target' = target
        /\ Humans(run.ingress) # <<>>
        /\ run' = [run EXCEPT !.ingress = Notices(@) \o Front(Humans(run.ingress))]
    BY <1>7 DEF UpSteer, Mirror
  <2>2. h' => h
    BY <1>H, <2>1
  <2> HIDE DEF q, w, d, c, g, h, a
  <2> QED
    BY <1>A, <1>K, <2>1, <2>2
<1>8. CASE UpTurn
  <2> DEFINE turns == {k \in DOMAIN chain : chain[k].kind = "turn"}
  <2>1. q' = q /\ w' = w /\ d' = d /\ g' = g /\ h' = h /\ log' = log /\ a' = a
        /\ session' = session /\ leaving' = leaving /\ target' = target
        /\ turns # {} /\ chain' = RemoveAt(chain, LastTurnOf(chain))
    BY <1>8 DEF UpTurn, Mirror, LastTurnOf
  <2>2. LastTurnOf(chain) \in 1..Len(chain)
    BY <2>1, LastTurn
  <2>3. c' => c
    BY <1>C, <2>1, <2>2
  <2> HIDE DEF q, w, d, c, g, h, a
  <2> QED
    BY <1>A, <1>K, <2>1, <2>3
<1>9. CASE SwitchNow
  <2>1. /\ q' = q /\ w' = w /\ d' = d /\ g' = g /\ h' = h /\ log' = log /\ a' = a
        /\ session' = session /\ phase = "ready" /\ ~leaving /\ chain' = Await(chain)
    BY <1>9 DEF SwitchNow
  <2>2. c' = c
    BY <1>C, <2>1
  <2>3. ~q
    BY <1>Q, <2>1 DEF EntryShape
  <2> HIDE DEF q, w, d, c, g, h, a
  <2> QED
    BY <1>A, <1>G, <2>1, <2>2, <2>3
<1>10. CASE SwitchLater
  <2>1. /\ q' = q /\ w' = w /\ d' = d /\ g' = g /\ h' = h /\ log' = log /\ a' = a
        /\ session' = session /\ leaving' = leaving /\ target' = target
        /\ chain' = Append(chain, Switch)
    BY <1>10 DEF SwitchLater, Switch
  <2>2. c' = c
    BY <1>C, <2>1
  <2> HIDE DEF q, w, d, c, g, h, a
  <2> QED
    BY <1>A, <1>K, <2>1, <2>2
<1>11. CASE Wake
  <2>1. /\ q' = q /\ w' = w /\ d' = d /\ g' = g /\ h' = h /\ log' = log /\ a' = a
        /\ session' = session /\ leaving' = leaving /\ target' = target
        /\ chain' = Queue(chain, <<>>)
    BY <1>11 DEF Wake
  <2>2. c' = c
    BY <1>C, <1>Q, <2>1
  <2> HIDE DEF q, w, d, c, g, h, a
  <2> QED
    BY <1>A, <1>K, <2>1, <2>2
<1>12. CASE Notify
  <2>1. /\ q' = q /\ w' = w /\ d' = d /\ c' = c /\ g' = g /\ log' = log /\ a' = a
        /\ session' = session /\ leaving' = leaving /\ target' = target
        /\ run' = [run EXCEPT !.ingress = Append(@, None)]
    BY <1>12 DEF Notify
  <2>2. h' = h
    BY <1>H, <2>1
  <2> HIDE DEF q, w, d, c, g, h, a
  <2> QED
    BY <1>A, <1>K, <2>1, <2>2
<1>B. ASSUME NEW s \in LineQueues, TurnBegins(s), l \in ToSet(s) => c \/ g \/ h
      PROVE  (g' => c \/ g \/ h) /\ ~h'
  <2>1. CASE slot = "none"
    <3>1. run' = [NoRun EXCEPT !.st = "begun"] /\ seg' = [at |-> "turn", lines |-> s]
      BY <1>B, <2>1 DEF TurnBegins
    <3>2. ~h'
      BY <1>H, <3>1
    <3> QED
      BY <1>B, <3>1, <3>2
  <2>2. CASE slot # "none"
    <3>1. run' = [NoRun EXCEPT !.st = "sealed"] /\ seg' = [at |-> "turn", lines |-> <<>>]
      BY <1>B, <2>2 DEF TurnBegins
    <3>2. ~h'
      BY <1>H, <3>1
    <3> QED
      BY <1>Q, <3>1, <3>2
  <2> QED
    BY <2>1, <2>2
<1>13. CASE TurnStarts
  <2>1. /\ q' = q /\ w' = w /\ d' = d /\ log' = log /\ a' = a
        /\ session' = session /\ leaving' = leaving /\ target' = target
        /\ chain # <<>> /\ chain' = Tail(chain)
        /\ \/ seg' = [at |-> "asked", lines |-> Head(chain).lines] /\ run' = run
           \/ TurnBegins(Head(chain).lines)
    BY <1>13 DEF TurnStarts, NextIs
  <2>2. Head(chain).lines \in LineQueues
    BY <2>1, HeadIn DEF Segments, LineQueues
  <2>3. c' => c
    BY <1>D, <2>1
  <2>4. (g' => c \/ g \/ h) /\ (h' => h)
    <3>1. CASE seg' = [at |-> "asked", lines |-> Head(chain).lines] /\ run' = run
      BY <1>D, <2>1, <3>1
    <3>2. CASE TurnBegins(Head(chain).lines)
      BY <1>B, <1>D, <2>1, <2>2, <3>2
    <3> QED
      BY <2>1, <3>1, <3>2
  <2> HIDE DEF q, w, d, c, g, h, a
  <2> QED
    BY <1>A, <1>K, <2>1, <2>3, <2>4
<1>14. CASE Decides
  <2>1. /\ q' = q /\ w' = w /\ d' = d /\ c' = c /\ log' = log /\ a' = a
        /\ session' = session /\ leaving' = leaving /\ target' = target
        /\ TurnBegins(seg.lines)
    BY <1>14 DEF Decides
  <2>2. (g' => c \/ g \/ h) /\ ~h'
    BY <1>B, <1>Y, <2>1
  <2> HIDE DEF q, w, d, c, g, h, a
  <2> QED
    BY <1>A, <1>K, <2>1, <2>2
<1>15. CASE Declines
  <2>1. /\ q' = q /\ w' = w /\ d' = d /\ c' = c /\ h' = h /\ log' = log /\ a' = a
        /\ session' = session /\ leaving' = leaving /\ target' = target /\ seg' = Idle
    BY <1>15 DEF Declines
  <2>2. ~g'
    BY <1>Q, <2>1 DEF Idle
  <2> HIDE DEF q, w, d, c, g, h, a
  <2> QED
    BY <1>A, <1>K, <2>1, <2>2
<1>16. CASE SwitchDecides
  <2>1. /\ q' = q /\ w' = w /\ d' = d /\ g' = g /\ h' = h /\ log' = log /\ a' = a
        /\ session' = session /\ chain # <<>> /\ Head(chain).kind = "switch"
        /\ \/ chain' = Tail(chain) /\ leaving' = leaving /\ target' = target
           \/ chain' = Await(Tail(chain)) /\ leaving'
    BY <1>16 DEF SwitchDecides, NextIs
  <2>2. c' => c
    BY <1>D, <2>1
  <2>3. phase = "ready" /\ ~leaving
    BY <2>1, HeadIn DEF ChainShape
  <2>4. ~q
    BY <1>Q, <2>3 DEF EntryShape
  <2> HIDE DEF q, w, d, c, g, h, a
  <2>5. CASE chain' = Tail(chain) /\ leaving' = leaving /\ target' = target
    BY <1>A, <1>K, <2>1, <2>2, <2>5
  <2>6. CASE chain' = Await(Tail(chain)) /\ leaving'
    BY <1>A, <1>G, <2>1, <2>2, <2>3, <2>4, <2>6
  <2> QED
    BY <2>1, <2>5, <2>6
<1>17. CASE AwaitsAgain
  <2>1. /\ q' = q /\ w' = w /\ d' = d /\ g' = g /\ h' = h /\ log' = log /\ a' = a
        /\ session' = session /\ leaving' = leaving /\ target' = target /\ chain # <<>>
        /\ chain' = Append(Tail(chain), [kind |-> "awaitAgain", lines |-> <<>>])
    BY <1>17 DEF AwaitsAgain, NextIs
  <2>2. c' => c
    BY <1>D, <2>1
  <2> HIDE DEF q, w, d, c, g, h, a
  <2> QED
    BY <1>A, <1>K, <2>1, <2>2
<1>18. CASE ChatReturns
  <2>1. /\ w' = w /\ g' = g /\ h' = h /\ log' = log /\ a' = a
        /\ session' = session /\ leaving' = leaving /\ target' = target /\ chain # <<>>
        /\ Head(chain).kind = "awaitAgain"
        /\ chain' = <<>> /\ seed' = queuedLines /\ queuedLines' = <<>>
    BY <1>18 DEF ChatReturns, NextIs
  <2>2. ~c' /\ ~q' /\ d' = q
    BY <1>C, <1>Q, <2>1
  <2>3. leaving
    BY <2>1, HeadIn DEF ChainShape
  <2> HIDE DEF q, w, d, c, g, h, a
  <2> QED
    BY <1>A, <1>G, <2>1, <2>2, <2>3
<1>19. CASE Begins
  <2>1. /\ q' = q /\ w' = w /\ d' = d /\ c' = c /\ a' = a
        /\ session' = session /\ leaving' = leaving /\ target' = target
        /\ run' = [run EXCEPT !.st = "live"] /\ log' = Said(seg.lines)
        /\ seg' = [seg EXCEPT !.lines = <<>>]
    BY <1>19 DEF Begins
  <2>2. ~g' /\ h' = h
    <3>1. seg' = [at |-> seg.at, lines |-> <<>>]
      BY <2>1 DEF Typed, Running
    <3> QED
      BY <1>H, <1>Q, <2>1, <3>1
  <2>3. S(log', a)
    BY <1>A, <1>Y, <2>1, SaidMore DEF S
  <2> HIDE DEF q, w, d, c, g, h, a
  <2> QED
    BY <1>A, <1>K, <2>1, <2>2, <2>3
<1>20. CASE Admit
  <2>1. /\ q' = q /\ w' = w /\ d' = d /\ c' = c /\ g' = g /\ log' = log /\ a' = a
        /\ session' = session /\ leaving' = leaving /\ target' = target
        /\ run' = [run EXCEPT !.taken = run.ingress, !.ingress = <<>>]
    BY <1>20 DEF Admit
  <2>2. h' => h
    BY <1>H, <2>1
  <2> HIDE DEF q, w, d, c, g, h, a
  <2> QED
    BY <1>A, <1>K, <2>1, <2>2
<1>21. CASE Land
  <2> DEFINE n == Block(run.taken)
             s == Humans(SubSeq(run.taken, 1, n))
  <2>1. /\ q' = q /\ w' = w /\ d' = d /\ c' = c /\ g' = g /\ a' = a
        /\ session' = session /\ leaving' = leaving /\ target' = target
        /\ run.taken # <<>> /\ log' = Said(s)
        /\ run' = [run EXCEPT !.taken = SubSeq(@, n + 1, Len(@))]
    BY <1>21 DEF Land, Mirror
  <2>2. n \in 1..Len(run.taken)
    BY <2>1, RunIs, BlockIs DEF Typed
  <2>3. (h' => h) /\ (l \in ToSet(s) => h)
    BY <1>H, <2>1, <2>2
  <2>4. s \in LineQueues
    BY <2>2, TypedRun, HumansIs DEF LineQueues
  <2> HIDE DEF s
  <2>5. S(log', a)
    BY <1>A, <2>1, <2>3, <2>4, SaidMore DEF S
  <2> HIDE DEF q, w, d, c, g, h, a, n
  <2> QED
    BY <1>A, <1>K, <2>1, <2>3, <2>5
<1>22. CASE Seal
  <2>1. /\ q' = q /\ w' = w /\ d' = d /\ c' = c /\ g' = g /\ log' = log /\ a' = a
        /\ session' = session /\ leaving' = leaving /\ target' = target /\ run' = Sealed
    BY <1>22 DEF Seal
  <2>2. h' => h
    BY <1>H, <2>1
  <2> HIDE DEF q, w, d, c, g, h, a
  <2> QED
    BY <1>A, <1>K, <2>1, <2>2
<1>23. CASE Throws
  <2>1. /\ q' = q /\ w' = w /\ d' = d /\ c' = c /\ log' = log /\ a' = a
        /\ session' = session /\ leaving' = leaving /\ target' = target /\ run' = Sealed
        /\ seg' = [seg EXCEPT !.lines = <<>>]
    BY <1>23 DEF Throws
  <2>2. (h' => h) /\ ~g'
    <3>1. seg' = [at |-> seg.at, lines |-> <<>>]
      BY <2>1 DEF Typed, Running
    <3> QED
      BY <1>H, <1>Q, <2>1, <3>1
  <2> HIDE DEF q, w, d, c, g, h, a
  <2> QED
    BY <1>A, <1>K, <2>1, <2>2
<1>24. CASE Settles
  <2> DEFINE left == Handed(Len(run.unadmitted))
  <2>1. /\ q' = q /\ w' = w /\ d' = d /\ log' = log /\ a' = a
        /\ session' = session /\ leaving' = leaving /\ target' = target /\ run' = NoRun
        /\ seg' = Idle /\ chain' = IF left = <<>> THEN chain ELSE Queue(chain, left)
    BY <1>24 DEF Settles
  <2>2. left \in LineQueues /\ (l \in ToSet(left) => h)
    BY HandedWithin
  <2>3. ~h' /\ ~g'
    BY <1>H, <1>Q, <2>1 DEF Idle
  <2> HIDE DEF left
  <2>4. c' => c \/ h
    BY <1>C, <2>1, <2>2
  <2> HIDE DEF q, w, d, c, g, h, a
  <2> QED
    BY <1>A, <1>K, <2>1, <2>3, <2>4
<1>25. CASE RecoveryStarts
  <2>1. /\ q' = q /\ w' = w /\ d' = d /\ c' = c /\ g' = g /\ h' = h /\ log' = log /\ a' = a
        /\ session' = session /\ leaving' = leaving /\ target' = target
    BY <1>25 DEF RecoveryStarts
  <2> HIDE DEF q, w, d, c, g, h, a
  <2> QED
    BY <1>A, <1>K, <2>1
<1>27. CASE RecoveryThrows
  <2>1. /\ q' = q /\ w' = w /\ d' = d /\ c' = c /\ g' = g /\ h' = h /\ log' = log /\ a' = a
        /\ session' = session /\ leaving' = leaving /\ target' = target
    BY <1>27 DEF RecoveryThrows
  <2> HIDE DEF q, w, d, c, g, h, a
  <2> QED
    BY <1>A, <1>K, <2>1
<1>28. CASE NextEntry
  <2>1. /\ h' = h /\ c' = c /\ g' = g /\ log' = log /\ a' = a
        /\ session' = target /\ target' = target /\ leaving' = FALSE
        /\ phase = "opening" /\ queuedLines' = seed \o switchLines
        /\ seed' = <<>> /\ switchLines' = <<>>
    BY <1>28 DEF NextEntry
  <2>2. chain = <<>> /\ seg = Idle /\ run = NoRun
    BY <2>1 DEF EntryShape, RunShape, Idle
  <2>3. ~h /\ ~c /\ ~g /\ ~d' /\ ~w' /\ (q' <=> d \/ w)
    BY <1>C, <1>H, <1>Q, <1>Y, <2>1, <2>2 DEF Idle
  <2> HIDE DEF q, w, d, c, g, h, a
  <2> QED
    BY <1>A, <1>G, <2>1, <2>3
<1>29. CASE SwitchRefused
  <2>1. /\ h' = h /\ c' = c /\ g' = g /\ log' = log /\ a' = a /\ queuedLines' = queuedLines
        /\ session' = session /\ phase = "opening" /\ seed' = <<>> /\ switchLines' = <<>>
    BY <1>29 DEF SwitchRefused
  <2>2. chain = <<>> /\ seg = Idle /\ run = NoRun /\ queuedLines = <<>>
    BY <2>1 DEF EntryShape, RunShape, Idle
  <2>3. ~h /\ ~c /\ ~g /\ ~d' /\ ~w' /\ ~q'
    BY <1>C, <1>H, <1>Q, <1>Y, <2>1, <2>2 DEF Idle
  <2> HIDE DEF q, w, d, c, g, h, a
  <2> QED
    BY <1>A, <1>G, <2>1, <2>3
<1>26. CASE RecoverySettles
  <2>1. /\ g' = g /\ h' = h /\ d' = d /\ log' = log /\ session' = session
        /\ phase = "recovering" /\ queuedLines' = <<>> /\ phase' = "ready"
    BY <1>26 DEF RecoverySettles
  <2>2. ~leaving /\ ~q'
    BY <1>Q, <2>1 DEF EntryShape
  <2>3. CASE /\ chain' = QueueEach(chain, queuedLines)
             /\ UNCHANGED <<leaving, target, switchLines, aim, marks>>
    <3>1. (c' <=> c \/ q) /\ w' = w /\ a' = a /\ leaving' = leaving /\ target' = target
      BY <1>C, <1>Y, <2>3
    <3> HIDE DEF q, w, d, c, g, h, a
    <3> QED
      BY <1>A, <1>G, <2>1, <2>2, <3>1
  <2>4. CASE \E k \in 0..(Len(queuedLines) - 1), t \in Goals :
               LET rest == SubSeq(queuedLines, k + 1, Len(queuedLines))
               IN /\ chain' = Await(QueueEach(chain, SubSeq(queuedLines, 1, k)))
                  /\ leaving' = TRUE /\ target' = t
                  /\ switchLines' = switchLines \o rest
                  /\ aim' = [m \in Lines |-> IF m \in ToSet(rest) THEN t ELSE aim[m]]
                  /\ marks' = marks \union Mark("sentOn", ToSet(rest))
    <3>1. PICK k \in 0..(Len(queuedLines) - 1), t \in Goals :
               /\ chain' = Await(QueueEach(chain, SubSeq(queuedLines, 1, k)))
               /\ leaving' = TRUE /\ target' = t
               /\ switchLines' = switchLines \o SubSeq(queuedLines, k + 1, Len(queuedLines))
               /\ aim' = [m \in Lines |->
                    IF m \in ToSet(SubSeq(queuedLines, k + 1, Len(queuedLines))) THEN t ELSE aim[m]]
      BY <2>4
    <3> DEFINE pre == SubSeq(queuedLines, 1, k)
               rest == SubSeq(queuedLines, k + 1, Len(queuedLines))
    <3>2. pre \in LineQueues /\ rest \in LineQueues /\ queuedLines = pre \o rest
      <4>1. Len(queuedLines) \in Nat
        BY <1>Y, LenProperties DEF LineQueues
      <4>2. k \in 0..Len(queuedLines)
        BY <4>1
      <4> QED
        BY <1>Y, <4>2, QueueSets
    <3> HIDE DEF pre, rest
    <3>3. c' <=> c \/ l \in ToSet(pre)
      <4>1. QueueEach(chain, pre) \in Chains
        BY <1>Y, <3>2, ChainMoves
      <4> QED
        BY <1>C, <3>1, <3>2, <4>1, ChainSets DEF pre
    <3>4. (w' <=> w \/ l \in ToSet(rest)) /\ a' = (IF l \in ToSet(rest) THEN t ELSE a)
      BY <1>Q, <1>Y, <3>1, <3>2 DEF rest
    <3>5. q <=> l \in ToSet(pre) \/ l \in ToSet(rest)
      BY <1>Q, <3>2
    <3>6. l \in ToSet(rest)
              => l \notin ToSet(pre) /\ ~c /\ ~g /\ ~h /\ ~d /\ ~w /\ \A v : S(log, v)
      <4> SUFFICES ASSUME l \in ToSet(rest)
                   PROVE  l \notin ToSet(pre) /\ ~c /\ ~g /\ ~h /\ ~d /\ ~w /\ \A v : S(log, v)
        OBVIOUS
      <4> DEFINE P == Count(pre, l)
                 R == Count(rest, l)
                 Q == Count(queuedLines, l)
                 W == Count(switchLines, l)
                 D == Count(seed, l)
                 C == CountIn(chain, l)
                 G == Count(seg.lines, l)
                 I == Count(run.ingress, l)
                 T == Count(run.taken, l)
                 U == Count(run.unadmitted, l)
                 O == CountIn(log, l)
                 X == IF gone[l] = "" THEN 0 ELSE 1
                 E == Everywhere[l]
      <4>1. /\ E = Q + W + D + C + G + (I + T + U) + O + X
            /\ Q \in Nat /\ W \in Nat /\ D \in Nat /\ C \in Nat /\ G \in Nat /\ I \in Nat /\ T \in Nat
            /\ U \in Nat /\ O \in Nat /\ X \in Nat
        BY Places9
      <4>2. Q = P + R /\ P \in Nat /\ R \in Nat /\ R > 0
        BY <3>2, QueueCounts
      <4>3. ~(E > 1)
        BY MarksGrow DEF Placed, Marked
      <4>6. /\ P > 0 <=> l \in ToSet(pre)
            /\ C > 0 <=> c
            /\ G > 0 <=> g
            /\ D > 0 <=> d
            /\ W > 0 <=> w
            /\ O > 0 <=> l \in ToSet(LinesOf(log))
            /\ h <=> (I > 0 \/ T > 0 \/ U > 0)
        BY <1>Y, <3>2, QueueCounts, ChainCounts, LogCounts, HeldIs
      <4> HIDE DEF P, R, Q, W, D, C, G, I, T, U, O, X, E, q, w, d, c, g, h
      <4>4. P = 0 /\ W = 0 /\ D = 0 /\ C = 0 /\ G = 0 /\ I = 0 /\ T = 0 /\ U = 0 /\ O = 0
        BY <4>1, <4>2, <4>3
      <4>5. l \notin ToSet(LinesOf(log))
        BY <4>4, <4>6
      <4> QED
        BY <4>4, <4>5, <4>6, NotSaid DEF S
    <3> HIDE DEF q, w, d, c, g, h, a
    <3> QED
      BY <1>A, <1>G, <2>1, <2>2, <3>1, <3>3, <3>4, <3>5, <3>6
  <2> QED
    BY <1>26, <2>3, <2>4 DEF RecoverySettles
<1> QED
  BY <1>1, <1>2, <1>3, <1>4, <1>5, <1>6, <1>7, <1>8, <1>9, <1>10, <1>11, <1>12, <1>13,
     <1>14,
     <1>15, <1>16, <1>17, <1>18, <1>19, <1>20, <1>21, <1>22, <1>23, <1>24, <1>25, <1>26, <1>27,
     <1>28, <1>29 DEF Next

-----------------------------------------------------------------------------
(* The lines of a pipe keep their order.                                   *)

LEMMA OrderGrows ==
  ASSUME NEW M, NEW N, M \subseteq N
  PROVE  /\ \A s : Ordered(M, s) => Ordered(N, s)
         /\ \A S, T : Precede(M, S, T) => Precede(N, S, T)
BY DEF Ordered, Precede, InTurn

\* A line just typed comes after all there are.
LEMMA NewLineLast ==
  ASSUME Typed, Fresh, NEW m \in Lines, m = typed + 1, NEW M
  PROVE  /\ Precede(M, ToSet(queuedLines), {m}) /\ Precede(M, ToSet(seed), {m})
         /\ Precede(M, ToSet(LinesOf(chain)), {m}) /\ Precede(M, ToSet(seg.lines), {m})
         /\ Precede(M, ToSet(LinesOf(log)), {m})
<1> DEFINE S == ToSet(queuedLines) \cup ToSet(seed) \cup ToSet(LinesOf(chain)) \cup ToSet(seg.lines)
                  \cup ToSet(LinesOf(log))
<1>1. /\ queuedLines \in Seq(Lines) /\ seed \in Seq(Lines) /\ chain \in Seq(Segments(Kinds))
      /\ seg.lines \in Seq(Lines) /\ log \in Seq(Inputs)
  BY DEF Typed, LineQueues, Chains, Running, Logs
<1>2. LinesOf(chain) \in Seq(Lines) /\ LinesOf(log) \in Seq(Lines)
  <2>1. Lined(Inputs, Lines)
    BY DEF Lined, Inputs
  <2> QED
    BY <1>1, <2>1, SegmentsLined, LinesCat
<1>3. S \subseteq Lines
  BY <1>1, <1>2, SetIs
<1>4. \A x \in S : x <= typed
  BY <1>3, FromTyped
<1>5. typed \in Nat
  BY DEF Typed, Typings
<1>6. \A x \in S : x \in Nat /\ ~(m < x)
  BY <1>3, <1>4, <1>5 DEF Lines
<1> HIDE DEF S
<1>7. \A T : T \subseteq S => Precede(M, T, {m})
  BY <1>6 DEF Precede, InTurn
<1> QED
  BY <1>7 DEF S

LEMMA PrecedeSets ==
  ASSUME NEW M
  PROVE  /\ \A S : Precede(M, S, {}) /\ Precede(M, {}, S)
         /\ \A S, T, U : Precede(M, S, T \cup U) <=> Precede(M, S, T) /\ Precede(M, S, U)
         /\ \A S, T, U : Precede(M, S \cup T, U) <=> Precede(M, S, U) /\ Precede(M, T, U)
         /\ \A S, T, U : Precede(M, S, T) /\ U \subseteq T => Precede(M, S, U)
         /\ \A S, T, U : Precede(M, S, T) /\ U \subseteq S => Precede(M, U, T)
         /\ \A S, T : T \subseteq M => Precede(M, S, T)
BY DEF Precede, InTurn

\* The same of sequences of lines.
LEMMA OrderedLines ==
  ASSUME NEW M
  PROVE  /\ Ordered(M, <<>>)
         /\ \A s, t \in LineQueues :
              Ordered(M, s \o t)
                  <=> Ordered(M, s) /\ Ordered(M, t) /\ Precede(M, ToSet(s), ToSet(t))
         /\ \A s \in LineQueues, x \in Lines :
              Ordered(M, Append(s, x)) <=> Ordered(M, s) /\ Precede(M, ToSet(s), {x})
         /\ \A s \in LineQueues : ToSet(s) \subseteq M => Ordered(M, s)
<1>1. \A s \in LineQueues : ToSet(s) \subseteq M => Ordered(M, s)
  BY DEF Ordered, InTurn, ToSet, LineQueues
<1>2. \A s, t \in Seq(Lines) :
        Ordered(M, s \o t) <=> Ordered(M, s) /\ Ordered(M, t) /\ Precede(M, ToSet(s), ToSet(t))
  BY OrderedCat
<1>3. \A s \in Seq(Lines), x \in Lines :
        Ordered(M, Append(s, x)) <=> Ordered(M, s) /\ Precede(M, ToSet(s), {x})
  BY OrderedAppend
<1> QED
  BY <1>1, <1>2, <1>3, OrderedSmall DEF LineQueues

\* The lines of a chain, as one sequence, after each kind of change.
LEMMA ChainLines ==
  ASSUME NEW c \in Chains
  PROVE  /\ LinesOf(c) \in LineQueues /\ LinesOf(<<>>) = <<>>
         /\ \A s \in LineQueues : LinesOf(Queue(c, s)) = LinesOf(c) \o s
         /\ \A s \in LineQueues : LinesOf(QueueEach(c, s)) = LinesOf(c) \o s
         /\ LinesOf(Await(c)) = LinesOf(c)
         /\ LinesOf(Append(c, Switch)) = LinesOf(c)
         /\ LinesOf(Append(c, [kind |-> "awaitAgain", lines |-> <<>>])) = LinesOf(c)
         /\ c # <<>> => /\ LinesOf(c) = Head(c).lines \o LinesOf(Tail(c))
                        /\ Head(c).lines \in LineQueues /\ Tail(c) \in Chains
                        /\ LinesOf(Tail(c)) \in LineQueues
<1>1. c \in Seq(Segments(Kinds)) /\ Lined(Segments(Kinds), Lines)
  BY SegmentsLined DEF Chains
<1>2. \A e \in Segments(Kinds) : LinesOf(Append(c, e)) = LinesOf(c) \o e.lines
  BY <1>1, LinesAppend
<1>3. LinesOf(c) \in Seq(Lines) /\ LinesOf(c) \o <<>> = LinesOf(c)
  BY <1>1, LinesCat, ConcatEmptySeq
<1>4. \A s \in Seq(Lines) : [kind |-> "turn", lines |-> s] \in Segments(Kinds)
  BY DEF Segments, Kinds
<1>5. /\ [kind |-> "await", lines |-> <<>>] \in Segments(Kinds)
      /\ Switch \in Segments(Kinds) /\ Switch.lines = <<>>
      /\ [kind |-> "awaitAgain", lines |-> <<>>] \in Segments(Kinds)
  BY DEF Segments, Kinds, Switch
<1>6. \A s \in Seq(Lines) : LinesOf(Queue(c, s)) = LinesOf(c) \o s
  BY <1>2, <1>4 DEF Queue
<1>7. \A s \in Seq(Lines) : LinesOf(QueueEach(c, s)) = LinesOf(c) \o s
  BY <1>1, QueueEachIs
<1>8. /\ LinesOf(Await(c)) = LinesOf(c) /\ LinesOf(Append(c, Switch)) = LinesOf(c)
      /\ LinesOf(Append(c, [kind |-> "awaitAgain", lines |-> <<>>])) = LinesOf(c)
  BY <1>2, <1>3, <1>5 DEF Await
<1>9. ASSUME c # <<>>
      PROVE  /\ LinesOf(c) = Head(c).lines \o LinesOf(Tail(c)) /\ Head(c).lines \in LineQueues
             /\ Tail(c) \in Chains /\ LinesOf(Tail(c)) \in LineQueues
  <2> DEFINE x == Head(c)
             t == Tail(c)
  <2>1. c = <<x>> \o t /\ x \in Segments(Kinds) /\ t \in Seq(Segments(Kinds))
        /\ <<x>> \in Seq(Segments(Kinds))
    BY <1>1, <1>9, HeadAndTail
  <2>2. x.lines \in Seq(Lines)
    BY <2>1, <1>1 DEF Lined
  <2> HIDE DEF x, t
  <2>3. LinesOf(<<x>> \o t) = LinesOf(<<x>>) \o LinesOf(t) /\ LinesOf(t) \in Seq(Lines)
    BY <1>1, <2>1, LinesCat
  <2>4. LinesOf(<<x>>) = x.lines
    <3>1. <<>> \in Seq(Segments(Kinds)) /\ Append(<<>>, x) = <<x>>
      BY <2>1
    <3>2. LinesOf(Append(<<>>, x)) = LinesOf(<<>>) \o x.lines
      BY <1>1, <2>1, <3>1, LinesAppend
    <3> QED
      BY <2>2, <3>1, <3>2, LinesEmpty, ConcatEmptySeq
  <2> QED
    BY <2>1, <2>2, <2>3, <2>4 DEF x, t, LineQueues, Chains
<1> QED
  BY <1>3, <1>6, <1>7, <1>8, <1>9, LinesEmpty DEF LineQueues

\* A run that gives back from an empty mirror gives nothing.
LEMMA NothingHanded ==
  ASSUME steering = <<>>, NEW n \in Nat
  PROVE  Handed(n) = <<>>
<1>1. Len(<<>>) = 0 /\ ~(n < 0) /\ SubSeq(<<>>, 1, 0) = <<>>
  OBVIOUS
<1> QED
  BY <1>1 DEF Handed, LastOf

LEMMA PipeStep ==
  ASSUME Typed, Typed', RunShape, EntryShape, ChainShape, Mirrored, Fresh, PipeOrder, Next
  PROVE  PipeOrder'
<1> DEFINE M == Marked("sentOn")
           O == LinesOf(log)
           G == seg.lines
           C == LinesOf(chain)
           Q == queuedLines
           D == seed
           W == switchLines
           H == InHand(run)
           N == M'
<1>0. SUFFICES ASSUME ~steerable'
               PROVE  PipeOrder'
  BY DEF PipeOrder
<1>s. ~steerable
  <2>1. steerable' = steerable
    BY DEF Next, EnterEarly, EnterBetween, Enter, RedirectIdle, RedirectRun, Escape,
       UpSteer, UpTurn,
       SwitchNow, SwitchLater, Wake, Notify, TurnStarts, Decides, Declines, SwitchDecides, AwaitsAgain,
       ChatReturns, Begins, Admit, Land, Seal, Throws, Settles, RecoveryStarts, RecoverySettles,
       RecoveryThrows, NextEntry, SwitchRefused
  <2> QED
    BY <1>0, <2>1
<1>M. M \subseteq N
  BY MarksGrow DEF Marked
<1>Y. /\ Q \in LineQueues /\ W \in LineQueues /\ D \in LineQueues /\ G \in LineQueues
      /\ C \in LineQueues /\ O \in LineQueues /\ chain \in Chains /\ <<>> \in LineQueues
      /\ seg = [at |-> seg.at, lines |-> seg.lines]
  <2>1. chain \in Chains
    BY DEF Typed
  <2>2. LinesOf(log) \in Seq(Lines)
    <3>1. Lined(Inputs, Lines) /\ log \in Seq(Inputs)
      BY DEF Lined, Inputs, Typed, Logs
    <3> QED
      BY <3>1, LinesCat
  <2> QED
    BY <2>1, <2>2, ChainLines, QueueSets DEF Typed, Running, LineQueues
<1>P. /\ steering = <<>> /\ H = {} /\ ToSet(W) \subseteq N
      /\ Ordered(N, O) /\ Ordered(N, G) /\ Ordered(N, C) /\ Ordered(N, Q) /\ Ordered(N, D)
      /\ Precede(N, ToSet(O), ToSet(G)) /\ Precede(N, ToSet(O), ToSet(C))
      /\ Precede(N, ToSet(O), ToSet(Q)) /\ Precede(N, ToSet(O), ToSet(D))
      /\ Precede(N, ToSet(G), ToSet(C)) /\ Precede(N, ToSet(G), ToSet(Q))
      /\ Precede(N, ToSet(G), ToSet(D)) /\ Precede(N, ToSet(C), ToSet(Q))
      /\ Precede(N, ToSet(C), ToSet(D))
  <2>1. /\ steering = <<>> /\ H = {} /\ ToSet(W) \subseteq M
        /\ Ordered(M, O) /\ Ordered(M, G) /\ Ordered(M, C) /\ Ordered(M, Q) /\ Ordered(M, D)
        /\ Precede(M, ToSet(O), ToSet(G)) /\ Precede(M, ToSet(O), ToSet(C))
        /\ Precede(M, ToSet(O), ToSet(Q) \cup ToSet(D)) /\ Precede(M, ToSet(G), ToSet(C))
        /\ Precede(M, ToSet(G), ToSet(Q) \cup ToSet(D))
        /\ Precede(M, ToSet(C), ToSet(Q) \cup ToSet(D))
    BY <1>s DEF PipeOrder
  <2> HIDE DEF M, N, O, G, C, Q, D, W, H
  <2> QED
    BY <2>1, <1>M, OrderGrows, PrecedeSets
<1>G. ASSUME steering' = <<>>, H' = {}, ToSet(W') \subseteq N,
             Ordered(N, O'), Ordered(N, G'), Ordered(N, C'), Ordered(N, Q'), Ordered(N, D'),
             Precede(N, ToSet(O'), ToSet(G')), Precede(N, ToSet(O'), ToSet(C')),
             Precede(N, ToSet(O'), ToSet(Q')), Precede(N, ToSet(O'), ToSet(D')),
             Precede(N, ToSet(G'), ToSet(C')), Precede(N, ToSet(G'), ToSet(Q')),
             Precede(N, ToSet(G'), ToSet(D')), Precede(N, ToSet(C'), ToSet(Q')),
             Precede(N, ToSet(C'), ToSet(D'))
      PROVE  PipeOrder'
  <2>1. /\ Precede(N, ToSet(O'), ToSet(Q') \cup ToSet(D'))
        /\ Precede(N, ToSet(G'), ToSet(Q') \cup ToSet(D'))
        /\ Precede(N, ToSet(C'), ToSet(Q') \cup ToSet(D'))
    <3> HIDE DEF M, N, O, G, C, Q, D, W, H
    <3> QED
      BY <1>G, PrecedeSets
  <2> QED
    BY <1>G, <2>1 DEF PipeOrder
<1>Q. /\ ToSet(<<>>) = {} /\ Ordered(N, <<>>)
      /\ \A s, t \in LineQueues : ToSet(s \o t) = ToSet(s) \cup ToSet(t) /\ s \o t \in LineQueues
      /\ \A s \in LineQueues, x \in Lines : ToSet(Append(s, x)) = ToSet(s) \cup {x}
      /\ \A x \in Lines : ToSet(<<x>>) = {x} /\ <<x>> \in LineQueues
      /\ \A s \in LineQueues : s \o <<>> = s
  <2>1. \A s \in Seq(Lines) : s \o <<>> = s
    BY ConcatEmptySeq
  <2> QED
    BY <2>1, QueueSets, OrderedLines DEF LineQueues
<1>R. /\ \A S : Precede(N, S, {}) /\ Precede(N, {}, S)
      /\ \A S, T, U : Precede(N, S, T \cup U) <=> Precede(N, S, T) /\ Precede(N, S, U)
      /\ \A S, T, U : Precede(N, S \cup T, U) <=> Precede(N, S, U) /\ Precede(N, T, U)
      /\ \A S, T : T \subseteq N => Precede(N, S, T)
      /\ \A s, t \in LineQueues :
           Ordered(N, s \o t)
               <=> Ordered(N, s) /\ Ordered(N, t) /\ Precede(N, ToSet(s), ToSet(t))
      /\ \A s \in LineQueues, x \in Lines :
           Ordered(N, Append(s, x)) <=> Ordered(N, s) /\ Precede(N, ToSet(s), {x})
      /\ \A s \in LineQueues : ToSet(s) \subseteq N => Ordered(N, s)
  BY PrecedeSets, OrderedLines
<1>N. \A m \in Lines : Typing(m) =>
         /\ Precede(N, ToSet(Q), {m}) /\ Precede(N, ToSet(D), {m}) /\ Precede(N, ToSet(C), {m})
         /\ Precede(N, ToSet(G), {m}) /\ Precede(N, ToSet(O), {m})
  BY NewLineLast DEF Typing
<1>H. (\A l \in Lines : l \notin H') => H' = {}
  <2>1. run' \in Runs
    BY DEF Typed
  <2>2. H' \subseteq Lines
    <3>1. /\ run'.ingress \in Seq(Lines \cup {None}) /\ run'.taken \in Seq(Lines \cup {None})
          /\ run'.unadmitted \in Seq(Lines)
      BY <2>1 DEF Runs
    <3>2. Humans(run'.ingress) \in Seq(Lines) /\ Humans(run'.taken) \in Seq(Lines)
      BY <3>1, HumansIs
    <3> QED
      BY <3>1, <3>2, SetIs DEF InHand
  <2> QED
    BY <2>2
<1>E. /\ phase \in {"starting", "recovering", "ready", "over"} => D = <<>>
      /\ phase = "ready" /\ ~leaving => Q = <<>>
  BY DEF EntryShape
<1>L. chain # <<>> =>
        /\ C = Head(chain).lines \o LinesOf(Tail(chain))
        /\ Head(chain).lines \in LineQueues /\ Tail(chain) \in Chains
        /\ LinesOf(Tail(chain)) \in LineQueues
  BY <1>Y, ChainLines
\* Nothing is said, nothing is queued, and the run holds nothing.
<1>K. ASSUME steering' = <<>>, H' = {}, ToSet(W') \subseteq N, O' = O, C' = C, Q' = Q, D' = D,
             G' = G \/ G' = <<>>
      PROVE  PipeOrder'
  <2> HIDE DEF M, N, O, G, C, Q, D, W, H
  <2>1. CASE G' = G
    BY <1>G, <1>K, <1>P, <2>1
  <2>2. CASE G' = <<>>
    BY <1>G, <1>K, <1>P, <1>Q, <1>R, <2>2
  <2> QED
    BY <1>K, <2>1, <2>2
\* The head of the chain leaves it, and runs or is dropped.
<1>T. ASSUME steering' = <<>>, H' = {}, W' = W, O' = O, Q' = Q, D' = D, seg = Idle, chain # <<>>,
             C' = LinesOf(Tail(chain)), G' = Head(chain).lines \/ G' = <<>>
      PROVE  PipeOrder'
  <2> DEFINE x == Head(chain).lines
             t == LinesOf(Tail(chain))
  <2>1. C = x \o t /\ x \in LineQueues /\ t \in LineQueues /\ C' = t
    BY <1>L, <1>T
  <2> HIDE DEF M, N, O, G, C, Q, D, W, H
  <2>2. G' = x \/ G' = <<>>
    BY <1>T
  <2> HIDE DEF x, t
  <2>3. ToSet(C) = ToSet(x) \cup ToSet(t)
    BY <1>Q, <2>1
  <2>4. Ordered(N, x) /\ Ordered(N, t) /\ Precede(N, ToSet(x), ToSet(t))
    BY <1>P, <1>R, <2>1
  <2>5. /\ Precede(N, ToSet(O), ToSet(x)) /\ Precede(N, ToSet(O), ToSet(t))
        /\ Precede(N, ToSet(x), ToSet(Q)) /\ Precede(N, ToSet(t), ToSet(Q))
        /\ Precede(N, ToSet(x), ToSet(D)) /\ Precede(N, ToSet(t), ToSet(D))
    BY <1>P, <1>R, <2>3
  <2>6. CASE G' = x
    BY <1>G, <1>P, <1>T, <2>1, <2>4, <2>5, <2>6
  <2>7. CASE G' = <<>>
    BY <1>G, <1>P, <1>Q, <1>R, <1>T, <2>1, <2>4, <2>5, <2>7
  <2> QED
    BY <2>2, <2>6, <2>7
<1>1. CASE EnterEarly
  <2>1. PICK m \in Lines : /\ Typing(m) /\ Q' = Append(Q, m) /\ W' = W /\ D' = D /\ C' = C /\ G' = G
                           /\ O' = O /\ steering' = steering /\ H' = H
                           /\ phase \in {"starting", "recovering"} \/ phase = "ready"
    BY <1>1 DEF EnterEarly
  <2> HIDE DEF M, N, O, G, C, Q, D, W, H
  <2>2. ToSet(Q') = ToSet(Q) \cup {m} /\ Ordered(N, Q')
    BY <1>N, <1>P, <1>Q, <1>R, <1>Y, <2>1
  <2>3. /\ Precede(N, ToSet(O), ToSet(Q')) /\ Precede(N, ToSet(G), ToSet(Q'))
        /\ Precede(N, ToSet(C), ToSet(Q'))
    BY <1>N, <1>P, <1>R, <2>1, <2>2
  <2> QED
    BY <1>G, <1>P, <2>1, <2>2, <2>3
<1>2. CASE EnterBetween
  <2>1. Q' = Q /\ W' = W /\ D' = D /\ C' = C /\ G' = G /\ O' = O /\ steering' = steering /\ H' = H
    BY <1>2 DEF EnterBetween
  <2> HIDE DEF M, N, O, G, C, Q, D, W, H
  <2> QED
    BY <1>K, <1>P, <2>1
<1>3. CASE Enter
  <2>1. PICK m \in Lines : /\ Typing(m) /\ Q' = Q /\ W' = W /\ D' = D /\ G' = G /\ O' = O
                           /\ phase = "ready" /\ ~leaving
                           /\ chain' = Queue(chain, <<m>>) /\ UNCHANGED <<run, steering>>
    BY <1>3, <1>s DEF Enter, Submit, Steers
  <2>2. C' = C \o <<m>> /\ H' = H /\ <<m>> \in LineQueues /\ ToSet(<<m>>) = {m}
    BY <1>Q, <1>Y, <2>1, ChainLines
  <2>3. Q = <<>> /\ D = <<>>
    BY <1>E, <2>1
  <2>8. steering' = <<>>
    BY <1>P, <2>1
  <2> HIDE DEF M, N, O, G, C, Q, D, W, H
  <2>4. ToSet(C') = ToSet(C) \cup {m}
    BY <1>Q, <1>Y, <2>2
  <2>5. Ordered(N, <<m>>)
    BY OrderedSmall
  <2>6. Ordered(N, C')
    BY <1>N, <1>P, <1>R, <1>Y, <2>1, <2>2, <2>5
  <2>7. Precede(N, ToSet(O), ToSet(C')) /\ Precede(N, ToSet(G), ToSet(C'))
    BY <1>N, <1>P, <1>R, <2>1, <2>4
  <2> QED
    BY <1>G, <1>P, <1>Q, <1>R, <2>1, <2>2, <2>3, <2>6, <2>7, <2>8
<1>4. CASE RedirectIdle \/ RedirectRun \/ UpSteer \/ UpTurn
  BY <1>4, <1>s DEF RedirectIdle, RedirectRun, UpSteer, UpTurn
<1>6. CASE Escape
  <2>1. /\ Q' = Q /\ W' = W /\ D' = D /\ C' = C /\ G' = G /\ O' = O /\ steering' = <<>>
        /\ run' = [run EXCEPT !.ingress = Notices(@)]
    BY <1>6 DEF Escape, Mirror
  <2>2. H' = {}
    BY <1>H, <1>P, <2>1, HandMoves
  <2> HIDE DEF M, N, O, G, C, Q, D, W, H
  <2> QED
    BY <1>K, <1>P, <2>1, <2>2
<1>9. CASE SwitchNow
  <2>1. /\ Q' = Q /\ W' = W /\ D' = D /\ G' = G /\ O' = O /\ steering' = steering /\ H' = H
        /\ chain' = Await(chain)
    BY <1>9 DEF SwitchNow
  <2>2. C' = C
    BY <1>Y, <2>1, ChainLines
  <2> HIDE DEF M, N, O, G, C, Q, D, W, H
  <2> QED
    BY <1>K, <1>P, <2>1, <2>2
<1>10. CASE SwitchLater
  <2>1. /\ Q' = Q /\ W' = W /\ D' = D /\ G' = G /\ O' = O /\ steering' = steering /\ H' = H
        /\ chain' = Append(chain, Switch)
    BY <1>10 DEF SwitchLater, Switch
  <2>2. C' = C
    BY <1>Y, <2>1, ChainLines
  <2> HIDE DEF M, N, O, G, C, Q, D, W, H
  <2> QED
    BY <1>K, <1>P, <2>1, <2>2
<1>11. CASE Wake
  <2>1. /\ Q' = Q /\ W' = W /\ D' = D /\ G' = G /\ O' = O /\ steering' = steering /\ H' = H
        /\ chain' = Queue(chain, <<>>)
    BY <1>11 DEF Wake
  <2>2. C' = C
    BY <1>Q, <1>Y, <2>1, ChainLines
  <2> HIDE DEF M, N, O, G, C, Q, D, W, H
  <2> QED
    BY <1>K, <1>P, <2>1, <2>2
<1>12. CASE Notify
  <2>1. /\ Q' = Q /\ W' = W /\ D' = D /\ C' = C /\ G' = G /\ O' = O /\ steering' = steering
        /\ run' = [run EXCEPT !.ingress = Append(@, None)]
    BY <1>12 DEF Notify
  <2>2. H' = {}
    BY <1>H, <1>P, <2>1, HandMoves
  <2> HIDE DEF M, N, O, G, C, Q, D, W, H
  <2> QED
    BY <1>K, <1>P, <2>1, <2>2
<1>B. ASSUME NEW s \in LineQueues, TurnBegins(s)
      PROVE  (G' = s \/ G' = <<>>) /\ H' = {}
  <2>1. CASE slot = "none"
    <3>1. run' = [NoRun EXCEPT !.st = "begun"] /\ seg' = [at |-> "turn", lines |-> s]
      BY <1>B, <2>1 DEF TurnBegins
    <3>2. H' = {}
      BY <1>H, <3>1, HandMoves
    <3> QED
      BY <3>1, <3>2
  <2>2. CASE slot # "none"
    <3>1. run' = [NoRun EXCEPT !.st = "sealed"] /\ seg' = [at |-> "turn", lines |-> <<>>]
      BY <1>B, <2>2 DEF TurnBegins
    <3>2. H' = {}
      BY <1>H, <3>1, HandMoves
    <3> QED
      BY <3>1, <3>2
  <2> QED
    BY <2>1, <2>2
<1>13. CASE TurnStarts
  <2>1. /\ Q' = Q /\ W' = W /\ D' = D /\ O' = O /\ steering' = steering
        /\ seg = Idle /\ chain # <<>> /\ chain' = Tail(chain)
        /\ \/ seg' = [at |-> "asked", lines |-> Head(chain).lines] /\ run' = run
           \/ TurnBegins(Head(chain).lines)
    BY <1>13 DEF TurnStarts, NextIs
  <2>2. (G' = Head(chain).lines \/ G' = <<>>) /\ H' = {}
    <3>1. CASE seg' = [at |-> "asked", lines |-> Head(chain).lines] /\ run' = run
      BY <1>P, <3>1
    <3>2. CASE TurnBegins(Head(chain).lines)
      BY <1>B, <1>L, <2>1, <3>2
    <3> QED
      BY <2>1, <3>1, <3>2
  <2>3. C' = LinesOf(Tail(chain))
    BY <2>1
  <2> HIDE DEF M, N, O, G, C, Q, D, W, H
  <2> QED
    BY <1>P, <1>T, <2>1, <2>2, <2>3
<1>14. CASE Decides
  <2>1. Q' = Q /\ W' = W /\ D' = D /\ C' = C /\ O' = O /\ steering' = steering /\ TurnBegins(seg.lines)
    BY <1>14 DEF Decides
  <2>2. (G' = G \/ G' = <<>>) /\ H' = {}
    BY <1>B, <1>Y, <2>1
  <2> HIDE DEF M, N, O, G, C, Q, D, W, H
  <2> QED
    BY <1>K, <1>P, <2>1, <2>2
<1>15. CASE Declines
  <2>1. /\ Q' = Q /\ W' = W /\ D' = D /\ C' = C /\ O' = O /\ steering' = steering /\ H' = H
        /\ G' = <<>>
    BY <1>15 DEF Declines, Idle
  <2> HIDE DEF M, N, O, G, C, Q, D, W, H
  <2> QED
    BY <1>K, <1>P, <2>1
<1>16. CASE SwitchDecides
  <2>1. /\ Q' = Q /\ W' = W /\ D' = D /\ O' = O /\ steering' = steering /\ H' = H /\ seg' = Idle
        /\ seg = Idle /\ chain # <<>>
        /\ \/ chain' = Tail(chain)
           \/ chain' = Await(Tail(chain))
    BY <1>16 DEF SwitchDecides, NextIs
  <2>2. C' = LinesOf(Tail(chain)) /\ G' = <<>>
    BY <1>L, <2>1, ChainLines DEF Idle
  <2> HIDE DEF M, N, O, G, C, Q, D, W, H
  <2> QED
    BY <1>P, <1>T, <2>1, <2>2
<1>17. CASE AwaitsAgain
  <2>1. /\ Q' = Q /\ W' = W /\ D' = D /\ O' = O /\ steering' = steering /\ H' = H /\ seg' = Idle
        /\ seg = Idle /\ chain # <<>>
        /\ chain' = Append(Tail(chain), [kind |-> "awaitAgain", lines |-> <<>>])
    BY <1>17 DEF AwaitsAgain, NextIs
  <2>2. C' = LinesOf(Tail(chain)) /\ G' = <<>>
    BY <1>L, <2>1, ChainLines DEF Idle
  <2> HIDE DEF M, N, O, G, C, Q, D, W, H
  <2> QED
    BY <1>P, <1>T, <2>1, <2>2
<1>18. CASE ChatReturns
  <2>1. /\ W' = W /\ G' = G /\ O' = O /\ steering' = steering /\ H' = H /\ chain # <<>>
        /\ Head(chain).kind = "awaitAgain" /\ chain' = <<>> /\ D' = Q /\ Q' = <<>>
    BY <1>18 DEF ChatReturns, NextIs
  <2>2. C' = <<>>
    BY <2>1, <1>Y, ChainLines
  <2> HIDE DEF M, N, O, G, C, Q, D, W, H
  <2> QED
    BY <1>G, <1>P, <1>Q, <1>R, <2>1, <2>2
<1>19. CASE Begins
  <2>1. /\ Q' = Q /\ W' = W /\ D' = D /\ C' = C /\ steering' = steering
        /\ run' = [run EXCEPT !.st = "live"] /\ log' = Said(seg.lines)
        /\ seg' = [seg EXCEPT !.lines = <<>>]
    BY <1>19 DEF Begins
  <2>2. O' = O \o G
    BY <1>Y, <2>1, LogCounts
  <2>3. H' = {}
    BY <1>H, <1>P, <2>1, HandMoves
  <2>4. G' = <<>>
    <3>1. seg' = [at |-> seg.at, lines |-> <<>>]
      BY <1>Y, <2>1
    <3> QED
      BY <3>1
  <2> HIDE DEF M, N, O, G, C, Q, D, W, H
  <2>5. Ordered(N, O') /\ ToSet(O') = ToSet(O) \cup ToSet(G)
    BY <1>P, <1>Q, <1>R, <1>Y, <2>2
  <2>6. /\ Precede(N, ToSet(O'), ToSet(C)) /\ Precede(N, ToSet(O'), ToSet(Q))
        /\ Precede(N, ToSet(O'), ToSet(D))
    BY <1>P, <1>R, <2>5
  <2> QED
    BY <1>G, <1>P, <1>Q, <1>R, <2>1, <2>3, <2>4, <2>5, <2>6
<1>20. CASE Admit
  <2>1. /\ Q' = Q /\ W' = W /\ D' = D /\ C' = C /\ G' = G /\ O' = O /\ steering' = steering
        /\ run' = [run EXCEPT !.taken = run.ingress, !.ingress = <<>>]
    BY <1>20 DEF Admit
  <2>2. H' = {}
    BY <1>H, <1>P, <2>1, HandMoves
  <2> HIDE DEF M, N, O, G, C, Q, D, W, H
  <2> QED
    BY <1>K, <1>P, <2>1, <2>2
<1>21. CASE Land
  <2> DEFINE n == Block(run.taken)
             s == Humans(SubSeq(run.taken, 1, n))
  <2>1. /\ Q' = Q /\ W' = W /\ D' = D /\ C' = C /\ G' = G /\ steering' = <<>>
        /\ run.taken # <<>> /\ log' = Said(s)
        /\ run' = [run EXCEPT !.taken = SubSeq(@, n + 1, Len(@))]
    BY <1>21 DEF Land, Mirror
  <2>2. n \in 1..Len(run.taken)
    BY <2>1, RunIs, BlockIs DEF Typed
  <2>3. H' = {} /\ \A l \in Lines : l \notin ToSet(s)
    BY <1>H, <1>P, <2>1, <2>2, HandMoves
  <2>4. s \in LineQueues
    BY <2>2, TypedRun, HumansIs DEF LineQueues
  <2> HIDE DEF s, n
  <2>5. s = <<>>
    <3>1. s \in Seq(Lines)
      BY <2>4 DEF LineQueues
    <3>2. ToSet(s) \subseteq Lines
      BY <3>1, SetIs
    <3>3. ToSet(s) = {}
      BY <2>3, <3>2
    <3> QED
      BY <3>1, <3>3, NothingIn
  <2>6. O' = O
    BY <2>1, <2>5 DEF Said
  <2> HIDE DEF M, N, O, G, C, Q, D, W, H
  <2> QED
    BY <1>K, <1>P, <2>1, <2>3, <2>6
<1>22. CASE Seal
  <2>1. /\ Q' = Q /\ W' = W /\ D' = D /\ C' = C /\ G' = G /\ O' = O /\ steering' = steering
        /\ run' = Sealed
    BY <1>22 DEF Seal
  <2>2. H' = {}
    BY <1>H, <1>P, <2>1, HandMoves
  <2> HIDE DEF M, N, O, G, C, Q, D, W, H
  <2> QED
    BY <1>K, <1>P, <2>1, <2>2
<1>23. CASE Throws
  <2>1. /\ Q' = Q /\ W' = W /\ D' = D /\ C' = C /\ O' = O /\ steering' = steering
        /\ run' = Sealed /\ seg' = [seg EXCEPT !.lines = <<>>]
    BY <1>23 DEF Throws
  <2>2. H' = {}
    BY <1>H, <1>P, <2>1, HandMoves
  <2>3. G' = <<>>
    <3>1. seg' = [at |-> seg.at, lines |-> <<>>]
      BY <1>Y, <2>1
    <3> QED
      BY <3>1
  <2> HIDE DEF M, N, O, G, C, Q, D, W, H
  <2> QED
    BY <1>K, <1>P, <2>1, <2>2, <2>3
<1>24. CASE Settles
  <2> DEFINE left == Handed(Len(run.unadmitted))
  <2>1. /\ Q' = Q /\ W' = W /\ D' = D /\ O' = O /\ steering' = <<>> /\ run' = NoRun
        /\ seg' = Idle /\ chain' = IF left = <<>> THEN chain ELSE Queue(chain, left)
    BY <1>24 DEF Settles
  <2>2. left = <<>>
    <3>1. Len(run.unadmitted) \in Nat
      BY RunIs, LenProperties DEF Typed
    <3> QED
      BY <1>P, <3>1, NothingHanded
  <2>3. H' = {} /\ G' = <<>> /\ C' = C
    BY <1>H, <2>1, <2>2, HandMoves DEF Idle
  <2> HIDE DEF M, N, O, G, C, Q, D, W, H
  <2> QED
    BY <1>K, <1>P, <2>1, <2>3
<1>25. CASE RecoveryStarts
  <2>1. Q' = Q /\ W' = W /\ D' = D /\ C' = C /\ G' = G /\ O' = O /\ steering' = steering /\ H' = H
    BY <1>25 DEF RecoveryStarts
  <2> HIDE DEF M, N, O, G, C, Q, D, W, H
  <2> QED
    BY <1>K, <1>P, <2>1
<1>27. CASE RecoveryThrows
  <2>1. Q' = Q /\ W' = W /\ D' = D /\ C' = C /\ G' = G /\ O' = O /\ steering' = steering /\ H' = H
    BY <1>27 DEF RecoveryThrows
  <2> HIDE DEF M, N, O, G, C, Q, D, W, H
  <2> QED
    BY <1>K, <1>P, <2>1
<1>28. CASE NextEntry
  <2>1. /\ C' = C /\ G' = G /\ O' = O /\ steering' = steering /\ H' = H
        /\ phase = "opening" /\ Q' = D \o W /\ D' = <<>> /\ W' = <<>>
    BY <1>28 DEF NextEntry
  <2>2. C = <<>> /\ G = <<>>
    BY <1>Y, <2>1, ChainLines DEF EntryShape, Idle
  <2> HIDE DEF M, N, O, G, C, Q, D, W, H
  <2>3. Ordered(N, Q') /\ ToSet(Q') = ToSet(D) \cup ToSet(W)
    BY <1>P, <1>Q, <1>R, <1>Y, <2>1
  <2>4. Precede(N, ToSet(O), ToSet(Q'))
    BY <1>P, <1>R, <2>3
  <2> QED
    BY <1>G, <1>P, <1>Q, <1>R, <2>1, <2>2, <2>3, <2>4
<1>29. CASE SwitchRefused
  <2>1. /\ C' = C /\ G' = G /\ O' = O /\ Q' = Q /\ steering' = steering /\ H' = H
        /\ D' = <<>> /\ W' = <<>>
    BY <1>29 DEF SwitchRefused
  <2> HIDE DEF M, N, O, G, C, Q, D, W, H
  <2> QED
    BY <1>G, <1>P, <1>Q, <1>R, <2>1
<1>26. CASE RecoverySettles
  <2>1. /\ G' = G /\ D' = D /\ O' = O /\ H' = H /\ steering' = <<>>
        /\ phase = "recovering" /\ Q' = <<>>
    BY <1>26 DEF RecoverySettles
  <2>2. D = <<>>
    BY <1>E, <2>1
  \* What is routed goes behind the chain.
  <2>3. ASSUME NEW s \in LineQueues, NEW t \in LineQueues, Q = s \o t, C' = C \o s, ToSet(W') \subseteq N
        PROVE  PipeOrder'
    <3> HIDE DEF M, N, O, G, C, Q, D, W, H
    <3>1. Ordered(N, s) /\ ToSet(Q) = ToSet(s) \cup ToSet(t) /\ ToSet(C') = ToSet(C) \cup ToSet(s)
      BY <1>P, <1>Q, <1>R, <1>Y, <2>3
    <3>2. /\ Precede(N, ToSet(C), ToSet(s)) /\ Precede(N, ToSet(O), ToSet(s))
          /\ Precede(N, ToSet(G), ToSet(s))
      BY <1>P, <1>R, <3>1
    <3>3. Ordered(N, C') /\ Precede(N, ToSet(O), ToSet(C')) /\ Precede(N, ToSet(G), ToSet(C'))
      BY <1>P, <1>R, <1>Y, <2>3, <3>1, <3>2
    <3> QED
      BY <1>G, <1>P, <1>Q, <1>R, <2>1, <2>2, <2>3, <3>3
  <2>4. CASE chain' = QueueEach(chain, queuedLines) /\ switchLines' = switchLines
    <3>1. C' = C \o Q /\ Q = Q \o <<>>
      BY <1>Q, <1>Y, <2>4, ChainLines
    <3>2. ToSet(W') \subseteq N
      BY <1>P, <2>4
    <3> QED
      BY <1>Y, <2>3, <3>1, <3>2
  <2>5. CASE \E k \in 0..(Len(queuedLines) - 1) :
               LET rest == SubSeq(queuedLines, k + 1, Len(queuedLines))
               IN /\ chain' = Await(QueueEach(chain, SubSeq(queuedLines, 1, k)))
                  /\ switchLines' = switchLines \o rest
                  /\ marks' = marks \union Mark("sentOn", ToSet(rest))
    <3>1. PICK k \in 0..(Len(queuedLines) - 1) :
             /\ chain' = Await(QueueEach(chain, SubSeq(queuedLines, 1, k)))
             /\ switchLines' = switchLines \o SubSeq(queuedLines, k + 1, Len(queuedLines))
             /\ marks' = marks \union Mark("sentOn", ToSet(SubSeq(queuedLines, k + 1, Len(queuedLines))))
      BY <2>5
    <3> DEFINE pre == SubSeq(queuedLines, 1, k)
               rest == SubSeq(queuedLines, k + 1, Len(queuedLines))
    <3>2. pre \in LineQueues /\ rest \in LineQueues /\ Q = pre \o rest
      <4>1. Len(queuedLines) \in Nat
        BY <1>Y, LenProperties DEF LineQueues
      <4>2. k \in 0..Len(queuedLines)
        BY <4>1
      <4> QED
        BY <1>Y, <4>2, QueueSets
    <3>3. /\ chain' = Await(QueueEach(chain, pre)) /\ W' = W \o rest
          /\ marks' = marks \union Mark("sentOn", ToSet(rest))
      BY <3>1
    <3> HIDE DEF pre, rest
    <3>4. C' = C \o pre
      <4>1. QueueEach(chain, pre) \in Chains
        BY <1>Y, <3>2, ChainMoves
      <4> QED
        BY <1>Y, <3>2, <3>3, <4>1, ChainLines
    <3>5. ToSet(rest) \subseteq N
      <4>1. ToSet(rest) \subseteq Lines
        BY <3>2, SetIs DEF LineQueues
      <4> QED
        BY <3>3, <4>1 DEF Marked, Mark, Lines, None
    <3>6. ToSet(W') \subseteq N
      BY <1>P, <1>Q, <1>Y, <3>2, <3>3, <3>5
    <3> QED
      BY <2>3, <3>2, <3>4, <3>6
  <2> QED
    BY <1>26, <2>4, <2>5 DEF RecoverySettles
<1> QED
  BY <1>1, <1>2, <1>3, <1>4, <1>6, <1>9, <1>10, <1>11, <1>12, <1>13, <1>14,
     <1>15, <1>16, <1>17, <1>18, <1>19, <1>20, <1>21, <1>22, <1>23, <1>24, <1>25, <1>26, <1>27,
     <1>28, <1>29 DEF Next

-----------------------------------------------------------------------------
(* The invariant, and the theorems.                                        *)

IInv == /\ Typed /\ RunShape /\ EntryShape /\ ChainShape /\ Mirrored
        /\ Fresh /\ Placed /\ AimedAll /\ PipeOrder

LEMMA AtInit == Init => IInv
<1> SUFFICES ASSUME Init PROVE IInv
  OBVIOUS
<1>1. /\ session = 1 /\ target = 1 /\ entries = 1 /\ phase = "starting" /\ leaving = FALSE
      /\ queuedLines = <<>> /\ switchLines = <<>> /\ seed = <<>> /\ chain = <<>> /\ seg = Idle
      /\ cur = "none" /\ slot = "none" /\ run = NoRun /\ steering = <<>>
      /\ aborted = FALSE /\ uncertain = FALSE /\ log = <<>> /\ gone = [l \in Lines |-> ""]
      /\ typed = 0 /\ aim = [l \in Lines |-> 0] /\ marks = {} /\ notices = 0 /\ faults = 0
      /\ steerable \in BOOLEAN
  BY DEF Init
<1>2. MaxLines \in Nat /\ MaxEntries \in Nat /\ MaxEntries >= 1 /\ MaxNotices \in Nat /\ MaxFaults \in Nat
  BY TurnChainAssumption
<1>3. Typed
  <2>1. entries \in Entries /\ typed \in Typings /\ <<notices, faults>> \in Budgets
    <3>1. 1 \in 1..(MaxEntries + MaxFaults) /\ 0 \in 0..MaxLines
      BY <1>2
    <3>2. 0 \in 0..MaxNotices /\ 0 \in 0..MaxFaults
      BY <1>2
    <3>3. <<0, 0>> \in Budgets
      BY <3>2 DEF Budgets
    <3> QED
      BY <1>1, <3>1, <3>3 DEF Entries, Typings
  <2>2. gone \in Leavings /\ aim \in Aims /\ marks \subseteq Words \X Lines
    BY <1>1 DEF Leavings, Aims
  <2>3. NoRun \in Runs /\ Idle \in Running
    BY DEF NoRun, Runs, Idle, Running
  <2>4. <<>> \in LineQueues /\ <<>> \in Chains /\ <<>> \in Logs
    BY DEF LineQueues, Chains, Logs
  <2> QED
    BY <1>1, <2>1, <2>2, <2>3, <2>4 DEF Typed
<1>4. RunShape
  BY <1>1 DEF RunShape, NoRun, Idle
<1>5. EntryShape
  <2>1. 1 \in 1..MaxEntries
    BY <1>2
  <2> QED
    BY <1>1, <2>1 DEF EntryShape
<1>6. ChainShape
  <2>1. ToSet(chain) = {} /\ Count(chain, Switch) = 0
    BY <1>1, CountEmpty
  <2>2. 0 <= 1
    OBVIOUS
  <2> QED
    BY <2>1, <2>2 DEF ChainShape
<1>7. InHand(run) = {} /\ WaitingIn(run) = <<>>
  BY <1>1, EmptyRun DEF NoRun
<1>8. Mirrored
  <2>1. <<>> \in Seq(Lines)
    OBVIOUS
  <2> QED
    BY <1>1, <1>7, <2>1, SuffixedEmpty DEF Mirrored
<1>9. \A l \in Lines : Everywhere[l] = 0
  <2>1. TAKE l \in Lines
  <2>2. /\ Count(queuedLines, l) = 0 /\ Count(switchLines, l) = 0 /\ Count(seed, l) = 0
        /\ CountIn(chain, l) = 0 /\ Count(seg.lines, l) = 0 /\ Count(run.ingress, l) = 0
        /\ Count(run.taken, l) = 0 /\ Count(run.unadmitted, l) = 0 /\ CountIn(log, l) = 0
    BY <1>1, CountEmpty, LinesEmpty DEF CountIn, Idle, NoRun
  <2>3. (IF gone[l] = "" THEN 0 ELSE 1) = 0
    BY <1>1
  <2> DEFINE q == Count(queuedLines, l)
             w == Count(switchLines, l)
             d == Count(seed, l)
             c == CountIn(chain, l)
             g == Count(seg.lines, l)
             i == Count(run.ingress, l)
             t == Count(run.taken, l)
             u == Count(run.unadmitted, l)
             o == CountIn(log, l)
             X == IF gone[l] = "" THEN 0 ELSE 1
             E == Everywhere[l]
  <2>4. E = q + w + d + c + g + (i + t + u) + o + X
    BY <1>3, Places9
  <2>5. q = 0 /\ w = 0 /\ d = 0 /\ c = 0 /\ g = 0 /\ i = 0 /\ t = 0 /\ u = 0 /\ o = 0 /\ X = 0
    BY <2>2, <2>3
  <2> HIDE DEF q, w, d, c, g, i, t, u, o, X, E
  <2>6. E = 0
    BY <2>4, <2>5
  <2> QED
    BY <2>6 DEF E
<1>10. Fresh
  BY <1>1, <1>9 DEF Fresh
<1>11. Placed
  <2>1. \A l \in Lines : ~(l <= typed) /\ ~(Everywhere[l] > 1)
    <3>1. \A l \in Lines : l \in Nat /\ l >= 1
      BY <1>2 DEF Lines
    <3>2. ~(0 > 1)
      OBVIOUS
    <3>3. \A l \in Lines : ~(l <= 0)
      <4>1. \A n \in Nat : n >= 1 => ~(n <= 0)
        OBVIOUS
      <4> QED
        BY <3>1, <4>1
    <3>4. \A l \in Lines : ~(Everywhere[l] > 1)
      BY <1>9, <3>2, Zenon
    <3> QED
      BY <1>1, <3>3, <3>4
  <2> QED
    BY <2>1 DEF Placed
<1>12. ToSet(<<>>) = {} /\ LinesOf(<<>>) = <<>> /\ DOMAIN <<>> = {}
  BY CountEmpty, LinesEmpty
<1>13. AimedAll
  BY <1>1, <1>7, <1>12 DEF AimedAll, Now, Idle
<1>14. PipeOrder
  <2>1. \A M : Ordered(M, <<>>) /\ Precede(M, {}, {})
    BY OrderedLines, PrecedeSets
  <2>2. seg.lines = <<>>
    BY <1>1 DEF Idle
  <2> QED
    BY <1>1, <1>7, <1>12, <2>1, <2>2 DEF PipeOrder
<1> QED
  BY <1>3, <1>4, <1>5, <1>6, <1>8, <1>10, <1>11, <1>13, <1>14 DEF IInv

LEMMA Stuttering == IInv /\ UNCHANGED vars => IInv'
<1> SUFFICES ASSUME IInv, UNCHANGED vars PROVE IInv'
  OBVIOUS
<1> USE DEF vars
<1>1. Typed'
  BY DEF IInv, Typed
<1>2. RunShape'
  BY DEF IInv, RunShape
<1>3. EntryShape'
  BY DEF IInv, EntryShape
<1>4. ChainShape'
  BY DEF IInv, ChainShape
<1>5. Mirrored'
  BY DEF IInv, Mirrored, Marked
<1>6. Everywhere' = Everywhere
  BY DEF Everywhere
<1>7. Fresh'
  BY <1>6 DEF IInv, Fresh
<1>8. Placed'
  BY <1>6 DEF IInv, Placed, Marked
<1>9. AimedAll'
  BY DEF IInv, AimedAll, Now, Marked
<1>10. PipeOrder'
  BY DEF IInv, PipeOrder, Marked
<1> QED
  BY <1>1, <1>2, <1>3, <1>4, <1>5, <1>7, <1>8, <1>9, <1>10 DEF IInv

LEMMA Inductive == IInv /\ [Next]_vars => IInv'
<1>1. ASSUME IInv, Next PROVE IInv'
  <2>1. Typed'
    BY <1>1, TypeStep DEF IInv
  <2>2. RunShape'
    BY <1>1, RunStep DEF IInv
  <2>3. EntryShape'
    BY <1>1, EntryStep DEF IInv
  <2>4. ChainShape'
    BY <1>1, <2>1, ChainStep DEF IInv
  <2>5. Mirrored'
    BY <1>1, <2>1, <2>2, MirrorStep DEF IInv
  <2>6. Fresh'
    BY <1>1, <2>1, <2>2, FreshStep DEF IInv
  <2>7. Placed'
    BY <1>1, <2>1, <2>2, PlacedStep DEF IInv
  <2>8. AimedAll'
    BY <1>1, <2>1, AimedStep DEF IInv
  <2>9. PipeOrder'
    BY <1>1, <2>1, PipeStep DEF IInv
  <2> QED
    BY <2>1, <2>2, <2>3, <2>4, <2>5, <2>6, <2>7, <2>8, <2>9 DEF IInv
<1> QED
  BY <1>1, Stuttering

\* What InOnePlace counts, place by place.
LEMMA CopiesAre ==
  ASSUME Typed, NEW l \in Lines
  PROVE  Copies(l) = Everywhere[l]
<1> DEFINE Z == Seq(Lines \cup {None})
           C == LinesOf(chain)
           O == LinesOf(log)
           n(s) == Count(s, l)
<1>1. /\ queuedLines \in Z /\ switchLines \in Z /\ seed \in Z /\ seg.lines \in Z
      /\ run.ingress \in Z /\ run.taken \in Z /\ run.unadmitted \in Z
  <2>1. \A s \in Seq(Lines) : s \in Seq(Lines \cup {None})
    OBVIOUS
  <2>2. /\ queuedLines \in Seq(Lines) /\ switchLines \in Seq(Lines) /\ seed \in Seq(Lines)
        /\ seg.lines \in Seq(Lines)
    BY DEF Typed, LineQueues, Running
  <2> QED
    BY <2>1, <2>2, RunIs DEF Typed
<1>2. C \in Z /\ O \in Z
  <2>1. \A s \in Seq(Lines) : s \in Seq(Lines \cup {None})
    OBVIOUS
  <2>2. Lined(Inputs, Lines) /\ log \in Seq(Inputs) /\ chain \in Seq(Segments(Kinds))
    BY DEF Lined, Inputs, Typed, Logs, Chains
  <2>3. C \in Seq(Lines) /\ O \in Seq(Lines)
    BY <2>2, SegmentsLined, LinesCat
  <2> QED
    BY <2>1, <2>3
<1>3. \A s, t \in Z : s \o t \in Z /\ n(s \o t) = n(s) + n(t)
  BY CountCat, ConcatProperties
<1>4. n(Places) = n(queuedLines) + n(switchLines) + n(seed) + n(C) + n(seg.lines)
                    + n(run.ingress) + n(run.taken) + n(run.unadmitted) + n(O)
  <2> DEFINE p1 == queuedLines \o switchLines
             p2 == p1 \o seed
             p3 == p2 \o C
             p4 == p3 \o seg.lines
             p5 == p4 \o run.ingress
             p6 == p5 \o run.taken
             p7 == p6 \o run.unadmitted
  <2>0. Places = p7 \o O
    BY DEF Places
  <2> HIDE DEF Z, C, O, n
  <2>1. p1 \in Z /\ n(p1) = n(queuedLines) + n(switchLines)
    BY <1>1, <1>3
  <2> HIDE DEF p1
  <2>2. p2 \in Z /\ n(p2) = n(p1) + n(seed)
    BY <1>1, <1>3, <2>1
  <2> HIDE DEF p2
  <2>3. p3 \in Z /\ n(p3) = n(p2) + n(C)
    BY <1>2, <1>3, <2>2
  <2> HIDE DEF p3
  <2>4. p4 \in Z /\ n(p4) = n(p3) + n(seg.lines)
    BY <1>1, <1>3, <2>3
  <2> HIDE DEF p4
  <2>5. p5 \in Z /\ n(p5) = n(p4) + n(run.ingress)
    BY <1>1, <1>3, <2>4
  <2> HIDE DEF p5
  <2>6. p6 \in Z /\ n(p6) = n(p5) + n(run.taken)
    BY <1>1, <1>3, <2>5
  <2> HIDE DEF p6
  <2>7. p7 \in Z /\ n(p7) = n(p6) + n(run.unadmitted)
    BY <1>1, <1>3, <2>6
  <2> HIDE DEF p7
  <2>8. n(Places) = n(p7) + n(O)
    BY <1>2, <1>3, <2>0, <2>7
  <2> QED
    BY <2>1, <2>2, <2>3, <2>4, <2>5, <2>6, <2>7, <2>8
<1>5. Copies(l) = n(Places) + (IF gone[l] = "" THEN 0 ELSE 1)
  BY DEF Copies, Count
<1>6. n(C) = CountIn(chain, l) /\ n(O) = CountIn(log, l)
  BY DEF CountIn
<1> DEFINE X == IF gone[l] = "" THEN 0 ELSE 1
           q == n(queuedLines)
           w == n(switchLines)
           d == n(seed)
           c == n(C)
           g == n(seg.lines)
           i == n(run.ingress)
           t == n(run.taken)
           u == n(run.unadmitted)
           o == n(O)
<1>7. Everywhere[l] = q + w + d + c + g + (i + t + u) + o + X
      /\ q \in Nat /\ w \in Nat /\ d \in Nat /\ c \in Nat /\ g \in Nat /\ i \in Nat /\ t \in Nat
      /\ u \in Nat /\ o \in Nat /\ X \in Nat
  BY <1>6, Places9
<1>8. Copies(l) = q + w + d + c + g + i + t + u + o + X
  BY <1>4, <1>5
<1> HIDE DEF q, w, d, c, g, i, t, u, o, X
<1> QED
  BY <1>7, <1>8

LEMMA Implies == IInv => TypeOK /\ InOnePlace /\ AnsweredWhereAimed /\ AnsweredInOrder
<1> SUFFICES ASSUME IInv PROVE TypeOK /\ InOnePlace /\ AnsweredWhereAimed /\ AnsweredInOrder
  OBVIOUS
<1>1. TypeOK
  BY TypedIs DEF IInv
<1>2. InOnePlace
  <2>1. 1..typed \subseteq Lines /\ \A l \in 1..typed : l <= typed
    BY TurnChainAssumption DEF IInv, Typed, Typings, Lines
  <2>2. \A l \in 1..typed : Copies(l) = Everywhere[l]
    BY <2>1, CopiesAre DEF IInv
  <2> QED
    BY <2>1, <2>2 DEF IInv, Placed, InOnePlace
<1>3. log \in Seq(Inputs) /\ DOMAIN log = 1..Len(log) /\ Lined(Inputs, Lines)
  BY LenProperties DEF IInv, Typed, Logs, Lined, Inputs
<1>4. \A k \in 1..Len(log) : ToSet(log[k].lines) \subseteq Lines
  <2>1. \A k \in 1..Len(log) : log[k] \in Inputs
    BY <1>3, ElementOfSeq
  <2> QED
    BY <2>1, SetIs DEF Inputs
<1>5. AnsweredWhereAimed
  BY <1>3, <1>4 DEF IInv, AimedAll, AnsweredWhereAimed
<1>6. AnsweredInOrder
  <2> SUFFICES ASSUME ~steerable, NEW j \in DOMAIN log, NEW k \in DOMAIN log, j < k,
                      NEW x \in ToSet(log[j].lines), NEW y \in ToSet(log[k].lines), y < x
               PROVE  y \in Marked("sentOn")
    BY DEF AnsweredInOrder
  <2> DEFINE M == Marked("sentOn")
  <2>1. Ordered(M, LinesOf(log))
    BY DEF IInv, PipeOrder
  <2> HIDE DEF M
  <2>2. Precede(M, ToSet(log[j].lines), ToSet(log[k].lines))
    BY <1>3, <2>1, OrderedInputs
  <2> QED
    BY <2>2 DEF Precede, InTurn, M
<1> QED
  BY <1>1, <1>2, <1>5, <1>6

LEMMA Invariant == Spec => []IInv
BY AtInit, Inductive, PTL DEF Spec

\* Every queue, segment, run and log holds what its name says.
THEOREM ChatTypeCorrect == Spec => []TypeOK
BY Invariant, Implies, PTL

\* A line that was typed is in one place, or it was echoed; it is nowhere
\* only when a run held it without its mirror.
THEOREM LinesInOnePlace == Spec => []InOnePlace
BY Invariant, Implies, PTL

\* A line is answered by the session it was typed for.
THEOREM LinesAnsweredWhereAimed == Spec => []AnsweredWhereAimed
BY Invariant, Implies, PTL

\* The lines of a pipe are answered in the order they came.
THEOREM PipesAnsweredInOrder == Spec => []AnsweredInOrder
BY Invariant, Implies, PTL

=============================================================================
