-------------------------- MODULE TaskDeliveryProofs --------------------------
(***************************************************************************)
(* Theorems about how the ends of background tasks are told, for any       *)
(* number of tasks, turns, faults and wakes: the types, that an end the    *)
(* watcher has done with is told, on its way, or claimed by a call, and    *)
(* that none is told twice.                                                *)
(*                                                                         *)
(* The delivery's sequences of bags are summed, cut and kept by recursive  *)
(* functions, so the first parts say what those do, by induction over the  *)
(* sequence.  Then what one step of the delivery may do to what it holds   *)
(* (Goes), the inductive invariant, and one part for each of its           *)
(* conjuncts.  For "never twice" the items are counted, place by place:    *)
(* what may be counted once (Sound), what a group holds of its agents      *)
(* (Grouping), and what a claim and a wait leave possible (Free).          *)
(***************************************************************************)
EXTENDS TaskDelivery, FiniteSetTheorems, SequenceTheorems, WellFoundedInduction, TLAPS

-----------------------------------------------------------------------------
(* Induction over numbers and over sequences, in sets.                     *)

LEMMA SmallestOf ==
  ASSUME NEW S \in SUBSET Nat, S # {}
  PROVE  \E m \in S : \A x \in S : m <= x
<1> DEFINE R == OpToRel(<, Nat)
<1>1. \A j \in S, i \in S : i < j => <<i, j>> \in R
  BY DEF OpToRel
<1>2. IsWellFoundedOn(R, Nat)
  BY NatLessThanWellFounded
<1> HIDE DEF R
<1>3. PICK m \in S : \A x \in S : ~(<<x, m>> \in R)
  BY <1>2, WFMin
<1>4. ASSUME NEW x \in S PROVE m <= x
  <2>1. ~(x < m)
    BY <1>1, <1>3
  <2> QED
    BY <2>1
<1> QED
  BY <1>4

LEMMA UpTo ==
  ASSUME NEW n \in Nat, NEW G, 0 \in G, \A i \in 0..(n - 1) : i \in G => i + 1 \in G
  PROVE  \A i \in 0..n : i \in G
<1> DEFINE B == {i \in 0..n : i \notin G}
<1> SUFFICES ASSUME B # {} PROVE FALSE
  OBVIOUS
<1>1. B \in SUBSET Nat
  OBVIOUS
<1> HIDE DEF B
<1>2. PICK m \in B : \A x \in B : m <= x
  BY <1>1, SmallestOf
<1>3. m \in 0..n /\ m \notin G /\ m # 0
  BY <1>2 DEF B
<1>4. m - 1 \in 0..(n - 1) /\ (m - 1) + 1 = m /\ m - 1 \in 0..n /\ ~(m <= m - 1)
  BY <1>3
<1>5. m - 1 \in G
  BY <1>2, <1>4 DEF B
<1> QED
  BY <1>3, <1>4, <1>5

LEMMA ByAppend ==
  ASSUME NEW X, NEW G, <<>> \in G,
         \A s \in Seq(X), e \in X : s \in G => Append(s, e) \in G
  PROVE  \A s \in Seq(X) : s \in G
<1> SUFFICES ASSUME NEW s \in Seq(X) PROVE s \in G
  OBVIOUS
<1> DEFINE H == {n \in 0..Len(s) : SubSeq(s, 1, n) \in G}
<1>1. Len(s) \in Nat /\ \A i \in 1..Len(s) : s[i] \in X
  BY LenProperties, ElementOfSeq
<1>2. 0 \in H
  <2>1. SubSeq(s, 1, 0) = <<>>
    BY SubSeqEmpty
  <2>2. 0 \in 0..Len(s)
    BY <1>1
  <2>3. SubSeq(s, 1, 0) \in G
    BY <2>1, Zenon
  <2> QED
    BY <2>2, <2>3
<1>3. ASSUME NEW i \in 0..(Len(s) - 1), i \in H PROVE i + 1 \in H
  <2>1. i + 1 \in 1..Len(s) /\ (i + 1) - 1 = i /\ 1 \in 1..Len(s) /\ i + 1 \in 0..Len(s)
    BY <1>1
  <2>2. SubSeq(s, 1, i + 1) = SubSeq(s, 1, i) \o <<s[i + 1]>>
    BY <2>1, SubSeqRecursiveSecond
  <2>3. SubSeq(s, 1, i) \in Seq(X)
    BY <1>1, SubSeqProperties
  <2>4. SubSeq(s, 1, i) \o <<s[i + 1]>> = Append(SubSeq(s, 1, i), s[i + 1])
    BY <1>1, <2>1, <2>3, AppendIsConcat
  <2> QED
    BY <1>1, <1>3, <2>1, <2>2, <2>3, <2>4
<1> HIDE DEF H
<1>4. Len(s) \in H
  BY <1>1, <1>2, <1>3, UpTo
<1> QED
  BY <1>4, SubSeqFull DEF H

-----------------------------------------------------------------------------
(* The recursive operators, by their last element.                         *)

KeepStep(f, s, S) ==
  [n \in 0..Len(s) |->
     IF n = 0 THEN <<>>
     ELSE IF s[n] \in S THEN Append(f[n - 1], s[n]) ELSE f[n - 1]]
KeepFn(s, S) == CHOOSE f : f = KeepStep(f, s, S)

LEMMA KeepFnExists ==
  ASSUME NEW X, NEW S
  PROVE  \A s \in Seq(X) : \E f : f = KeepStep(f, s, S)
<1> DEFINE G == {s \in Seq(X) : \E f : f = KeepStep(f, s, S)}
<1>1. <<>> \in G
  <2> DEFINE f == [n \in 0..Len(<<>>) |-> <<>>]
  <2>1. \A n \in 0..Len(<<>>) : n = 0
    OBVIOUS
  <2>2. f = KeepStep(f, <<>>, S)
    BY <2>1 DEF KeepStep
  <2> QED
    BY <2>2
<1>2. ASSUME NEW s \in Seq(X), NEW e \in X, s \in G PROVE Append(s, e) \in G
  <2>1. PICK f : f = KeepStep(f, s, S)
    BY <1>2
  <2>2. /\ Len(s) \in Nat /\ Append(s, e) \in Seq(X) /\ Len(Append(s, e)) = Len(s) + 1
        /\ \A i \in 1..Len(s) : Append(s, e)[i] = s[i]
        /\ Append(s, e)[Len(s) + 1] = e
    BY LenProperties, AppendProperties
  <2> DEFINE t == Append(s, e)
             g == [n \in 0..Len(t) |->
                     IF n <= Len(s) THEN f[n]
                     ELSE IF e \in S THEN Append(f[Len(s)], e) ELSE f[Len(s)]]
  <2>3. ASSUME NEW n \in 0..Len(t)
        PROVE  g[n] = IF n = 0 THEN <<>>
                      ELSE IF t[n] \in S THEN Append(g[n - 1], t[n]) ELSE g[n - 1]
    <3>1. CASE n = 0
      <4>1. 0 \in 0..Len(s) /\ 0 <= Len(s)
        BY <2>2
      <4>2. f[0] = <<>>
        BY <2>1, <4>1 DEF KeepStep
      <4> QED
        BY <3>1, <4>1, <4>2
    <3>2. CASE n # 0 /\ n <= Len(s)
      <4>1. n \in 0..Len(s) /\ n \in 1..Len(s) /\ n - 1 \in 0..Len(t) /\ n - 1 <= Len(s)
        BY <2>2, <3>2
      <4>2. f[n] = IF s[n] \in S THEN Append(f[n - 1], s[n]) ELSE f[n - 1]
        BY <2>1, <3>2, <4>1 DEF KeepStep
      <4>3. g[n] = f[n] /\ g[n - 1] = f[n - 1] /\ t[n] = s[n]
        BY <2>2, <3>2, <4>1
      <4> HIDE DEF g, t
      <4> QED
        BY <3>2, <4>2, <4>3
    <3>3. CASE ~(n <= Len(s))
      <4>1. n = Len(s) + 1 /\ n - 1 = Len(s) /\ Len(s) \in 0..Len(t) /\ n # 0 /\ Len(s) <= Len(s)
        BY <2>2, <3>3
      <4>2. g[Len(s)] = f[Len(s)] /\ t[n] = e
        BY <2>2, <4>1
      <4>3. g[n] = IF e \in S THEN Append(f[Len(s)], e) ELSE f[Len(s)]
        BY <3>3
      <4> HIDE DEF g, t
      <4> QED
        BY <4>1, <4>2, <4>3
    <3> QED
      BY <3>1, <3>2, <3>3
  <2>4. g = KeepStep(g, t, S)
    BY <2>3 DEF KeepStep
  <2> QED
    BY <2>2, <2>4
<1> HIDE DEF G
<1>3. \A s \in Seq(X) : s \in G
  BY <1>1, <1>2, ByAppend
<1> QED
  BY <1>3 DEF G

LEMMA KeepFnIs ==
  ASSUME NEW X, NEW S, NEW s \in Seq(X)
  PROVE  /\ Keep(s, S) = KeepFn(s, S)[Len(s)]
         /\ KeepFn(s, S)[0] = <<>>
         /\ \A n \in 1..Len(s) : KeepFn(s, S)[n] =
              IF s[n] \in S THEN Append(KeepFn(s, S)[n - 1], s[n]) ELSE KeepFn(s, S)[n - 1]
<1>1. Keep(s, S) = KeepFn(s, S)[Len(s)]
  BY DEF Keep, KeepFn, KeepStep
<1>2. KeepFn(s, S) = KeepStep(KeepFn(s, S), s, S)
  BY KeepFnExists DEF KeepFn
<1>3. Len(s) \in Nat
  BY LenProperties
<1> DEFINE f == KeepFn(s, S)
<1>4. ASSUME NEW n \in 0..Len(s)
      PROVE  f[n] = IF n = 0 THEN <<>>
                    ELSE IF s[n] \in S THEN Append(f[n - 1], s[n]) ELSE f[n - 1]
  <2> HIDE DEF f
  <2>1. f = KeepStep(f, s, S)
    BY <1>2 DEF f
  <2> QED
    BY <2>1 DEF KeepStep
<1> HIDE DEF f
<1>5. 0 \in 0..Len(s) /\ \A n \in 1..Len(s) : n \in 0..Len(s) /\ n # 0
  BY <1>3
<1>6. f[0] = <<>> /\ \A n \in 1..Len(s) : f[n] = IF s[n] \in S THEN Append(f[n - 1], s[n]) ELSE f[n - 1]
  BY <1>4, <1>5
<1> QED
  BY <1>1, <1>6 DEF f

LEMMA KeepIs ==
  ASSUME NEW X, NEW S, NEW s \in Seq(X), NEW e \in X
  PROVE  /\ Keep(<<>>, S) = <<>>
         /\ Keep(Append(s, e), S) = IF e \in S THEN Append(Keep(s, S), e) ELSE Keep(s, S)
<1> DEFINE t == Append(s, e)
           f == KeepFn(s, S)
           g == KeepFn(t, S)
           G == {n \in 0..Len(s) : g[n] = f[n]}
<1>1. /\ Len(s) \in Nat /\ t \in Seq(X) /\ Len(t) = Len(s) + 1
      /\ \A i \in 1..Len(s) : t[i] = s[i]
      /\ t[Len(s) + 1] = e
  BY LenProperties, AppendProperties
<1> HIDE DEF t
<1>2. /\ Keep(s, S) = f[Len(s)] /\ f[0] = <<>>
      /\ \A n \in 1..Len(s) : f[n] = IF s[n] \in S THEN Append(f[n - 1], s[n]) ELSE f[n - 1]
  BY KeepFnIs
<1>3. /\ Keep(t, S) = g[Len(t)] /\ g[0] = <<>>
      /\ \A n \in 1..Len(t) : g[n] = IF t[n] \in S THEN Append(g[n - 1], t[n]) ELSE g[n - 1]
  BY <1>1, KeepFnIs
<1> HIDE DEF f, g
<1>4. 0 \in G
  BY <1>1, <1>2, <1>3
<1>5. ASSUME NEW i \in 0..(Len(s) - 1), i \in G PROVE i + 1 \in G
  <2>1. /\ i + 1 \in 1..Len(s) /\ i + 1 \in 1..Len(t) /\ (i + 1) - 1 = i /\ i + 1 \in 0..Len(s)
    BY <1>1
  <2>2. g[i] = f[i] /\ t[i + 1] = s[i + 1]
    BY <1>1, <1>5, <2>1
  <2>3. g[i + 1] = f[i + 1]
    BY <1>2, <1>3, <2>1, <2>2
  <2> QED
    BY <2>1, <2>3
<1>6. g[Len(s)] = f[Len(s)]
  <2> HIDE DEF G
  <2>1. \A i \in 0..Len(s) : i \in G
    BY <1>1, <1>4, <1>5, UpTo
  <2>2. Len(s) \in 0..Len(s)
    BY <1>1
  <2>3. Len(s) \in G
    BY <2>1, <2>2
  <2> QED
    BY <2>3 DEF G
<1>7. Len(t) \in 1..Len(t) /\ Len(t) - 1 = Len(s)
  BY <1>1
<1>8. g[Len(t)] = IF e \in S THEN Append(g[Len(s)], e) ELSE g[Len(s)]
  BY <1>1, <1>3, <1>7
<1>9. Keep(<<>>, S) = <<>>
  <2>1. <<>> \in Seq(X) /\ Len(<<>>) = 0
    BY EmptySeq
  <2>2. \A z \in Seq(X) : Keep(z, S) = KeepFn(z, S)[Len(z)] /\ KeepFn(z, S)[0] = <<>>
    BY KeepFnIs
  <2> QED
    BY <2>1, <2>2
<1> QED
  BY <1>2, <1>3, <1>6, <1>8, <1>9 DEF t

LEMMA KeepEmpty ==
  ASSUME NEW S
  PROVE  Keep(<<>>, S) = <<>>
<1>1. <<>> \in Seq({1})
  BY EmptySeq
<1>2. 1 \in {1}
  OBVIOUS
<1> QED
  BY <1>1, <1>2, KeepIs

SumStep(f, s) ==
  [n \in 0..Len(s) |->
     IF n = 0 THEN Nothing ELSE Both(f[n - 1], s[n])]
SumFn(s) == CHOOSE f : f = SumStep(f, s)

LEMMA SumFnExists ==
  ASSUME NEW X
  PROVE  \A s \in Seq(X) : \E f : f = SumStep(f, s)
<1> DEFINE G == {s \in Seq(X) : \E f : f = SumStep(f, s)}
<1>1. <<>> \in G
  <2> DEFINE f == [n \in 0..Len(<<>>) |-> Nothing]
  <2>1. \A n \in 0..Len(<<>>) : n = 0
    OBVIOUS
  <2>2. f = SumStep(f, <<>>)
    BY <2>1 DEF SumStep
  <2> QED
    BY <2>2
<1>2. ASSUME NEW s \in Seq(X), NEW e \in X, s \in G PROVE Append(s, e) \in G
  <2>1. PICK f : f = SumStep(f, s)
    BY <1>2
  <2>2. /\ Len(s) \in Nat /\ Append(s, e) \in Seq(X) /\ Len(Append(s, e)) = Len(s) + 1
        /\ \A i \in 1..Len(s) : Append(s, e)[i] = s[i]
        /\ Append(s, e)[Len(s) + 1] = e
    BY LenProperties, AppendProperties
  <2> DEFINE t == Append(s, e)
             g == [n \in 0..Len(t) |->
                     IF n <= Len(s) THEN f[n]
                     ELSE Both(f[Len(s)], e)]
  <2>3. ASSUME NEW n \in 0..Len(t)
        PROVE  g[n] = IF n = 0 THEN Nothing
                      ELSE Both(g[n - 1], t[n])
    <3>1. CASE n = 0
      <4>1. 0 \in 0..Len(s) /\ 0 <= Len(s)
        BY <2>2
      <4>2. f[0] = Nothing
        BY <2>1, <4>1 DEF SumStep
      <4> QED
        BY <3>1, <4>1, <4>2
    <3>2. CASE n # 0 /\ n <= Len(s)
      <4>1. n \in 0..Len(s) /\ n \in 1..Len(s) /\ n - 1 \in 0..Len(t) /\ n - 1 <= Len(s)
        BY <2>2, <3>2
      <4>2. f[n] = Both(f[n - 1], s[n])
        BY <2>1, <3>2, <4>1 DEF SumStep
      <4>3. g[n] = f[n] /\ g[n - 1] = f[n - 1] /\ t[n] = s[n]
        BY <2>2, <3>2, <4>1
      <4> HIDE DEF g, t
      <4> QED
        BY <3>2, <4>2, <4>3
    <3>3. CASE ~(n <= Len(s))
      <4>1. n = Len(s) + 1 /\ n - 1 = Len(s) /\ Len(s) \in 0..Len(t) /\ n # 0 /\ Len(s) <= Len(s)
        BY <2>2, <3>3
      <4>2. g[Len(s)] = f[Len(s)] /\ t[n] = e
        BY <2>2, <4>1
      <4>3. g[n] = Both(f[Len(s)], e)
        BY <3>3
      <4> HIDE DEF g, t
      <4> QED
        BY <4>1, <4>2, <4>3
    <3> QED
      BY <3>1, <3>2, <3>3
  <2>4. g = SumStep(g, t)
    BY <2>3 DEF SumStep
  <2> QED
    BY <2>2, <2>4
<1> HIDE DEF G
<1>3. \A s \in Seq(X) : s \in G
  BY <1>1, <1>2, ByAppend
<1> QED
  BY <1>3 DEF G

LEMMA SumFnIs ==
  ASSUME NEW X, NEW s \in Seq(X)
  PROVE  /\ All(s) = SumFn(s)[Len(s)]
         /\ SumFn(s)[0] = Nothing
         /\ \A n \in 1..Len(s) : SumFn(s)[n] =
              Both(SumFn(s)[n - 1], s[n])
<1>1. All(s) = SumFn(s)[Len(s)]
  BY DEF All, SumFn, SumStep
<1>2. SumFn(s) = SumStep(SumFn(s), s)
  BY SumFnExists DEF SumFn
<1>3. Len(s) \in Nat
  BY LenProperties
<1> DEFINE f == SumFn(s)
<1>4. ASSUME NEW n \in 0..Len(s)
      PROVE  f[n] = IF n = 0 THEN Nothing
                    ELSE Both(f[n - 1], s[n])
  <2> HIDE DEF f
  <2>1. f = SumStep(f, s)
    BY <1>2 DEF f
  <2> QED
    BY <2>1 DEF SumStep
<1> HIDE DEF f
<1>5. 0 \in 0..Len(s) /\ \A n \in 1..Len(s) : n \in 0..Len(s) /\ n # 0
  BY <1>3
<1>6. f[0] = Nothing /\ \A n \in 1..Len(s) : f[n] = Both(f[n - 1], s[n])
  BY <1>4, <1>5
<1> QED
  BY <1>1, <1>6 DEF f

LEMMA SumIs ==
  ASSUME NEW X, NEW s \in Seq(X), NEW e \in X
  PROVE  /\ All(<<>>) = Nothing
         /\ All(Append(s, e)) = Both(All(s), e)
<1> DEFINE t == Append(s, e)
           f == SumFn(s)
           g == SumFn(t)
           G == {n \in 0..Len(s) : g[n] = f[n]}
<1>1. /\ Len(s) \in Nat /\ t \in Seq(X) /\ Len(t) = Len(s) + 1
      /\ \A i \in 1..Len(s) : t[i] = s[i]
      /\ t[Len(s) + 1] = e
  BY LenProperties, AppendProperties
<1> HIDE DEF t
<1>2. /\ All(s) = f[Len(s)] /\ f[0] = Nothing
      /\ \A n \in 1..Len(s) : f[n] = Both(f[n - 1], s[n])
  BY SumFnIs
<1>3. /\ All(t) = g[Len(t)] /\ g[0] = Nothing
      /\ \A n \in 1..Len(t) : g[n] = Both(g[n - 1], t[n])
  BY <1>1, SumFnIs
<1> HIDE DEF f, g
<1>4. 0 \in G
  BY <1>1, <1>2, <1>3
<1>5. ASSUME NEW i \in 0..(Len(s) - 1), i \in G PROVE i + 1 \in G
  <2>1. /\ i + 1 \in 1..Len(s) /\ i + 1 \in 1..Len(t) /\ (i + 1) - 1 = i /\ i + 1 \in 0..Len(s)
    BY <1>1
  <2>2. g[i] = f[i] /\ t[i + 1] = s[i + 1]
    BY <1>1, <1>5, <2>1
  <2>3. g[i + 1] = f[i + 1]
    BY <1>2, <1>3, <2>1, <2>2
  <2> QED
    BY <2>1, <2>3
<1>6. g[Len(s)] = f[Len(s)]
  <2> HIDE DEF G
  <2>1. \A i \in 0..Len(s) : i \in G
    BY <1>1, <1>4, <1>5, UpTo
  <2>2. Len(s) \in 0..Len(s)
    BY <1>1
  <2>3. Len(s) \in G
    BY <2>1, <2>2
  <2> QED
    BY <2>3 DEF G
<1>7. Len(t) \in 1..Len(t) /\ Len(t) - 1 = Len(s)
  BY <1>1
<1>8. g[Len(t)] = Both(g[Len(s)], e)
  BY <1>1, <1>3, <1>7
<1>9. All(<<>>) = Nothing
  <2>1. <<>> \in Seq(X) /\ Len(<<>>) = 0
    BY EmptySeq
  <2>2. \A z \in Seq(X) : All(z) = SumFn(z)[Len(z)] /\ SumFn(z)[0] = Nothing
    BY SumFnIs
  <2> QED
    BY <2>1, <2>2
<1> QED
  BY <1>2, <1>3, <1>6, <1>8, <1>9 DEF t

LEMMA SumEmpty == All(<<>>) = Nothing
<1>1. <<>> \in Seq({1})
  BY EmptySeq
<1>2. 1 \in {1}
  OBVIOUS
<1> QED
  BY <1>1, <1>2, SumIs

-----------------------------------------------------------------------------
(* What is in sequences of bags, of notices and of turns.                  *)

ItemsIn(s) == UNION {In(p.items) : p \in ToSet(s)}
BagItems(s) == UNION {In(b) : b \in ToSet(s)}

LEMMA Elements ==
  ASSUME NEW X, NEW s \in Seq(X)
  PROVE  /\ ToSet(s) = {s[k] : k \in DOMAIN s} /\ ToSet(s) \subseteq X
         /\ DOMAIN s = 1..Len(s) /\ Len(s) \in Nat
<1>1. DOMAIN s = 1..Len(s) /\ Len(s) \in Nat /\ \A k \in 1..Len(s) : s[k] \in X
  BY LenProperties, ElementOfSeq
<1> QED
  BY <1>1 DEF ToSet

LEMMA ElementsOf ==
  ASSUME NEW X
  PROVE  /\ ToSet(<<>>) = {}
         /\ \A s \in Seq(X), e \in X : Append(s, e) \in Seq(X) /\ ToSet(Append(s, e)) = ToSet(s) \cup {e}
         /\ \A s, t \in Seq(X) : s \o t \in Seq(X) /\ ToSet(s \o t) = ToSet(s) \cup ToSet(t)
         /\ \A s \in Seq(X) : s # <<>> =>
              Head(s) \in X /\ Tail(s) \in Seq(X) /\ ToSet(s) = {Head(s)} \cup ToSet(Tail(s))
<1>1. ToSet(<<>>) = {}
  BY DEF ToSet
<1>2. ASSUME NEW s \in Seq(X), NEW t \in Seq(X)
      PROVE  s \o t \in Seq(X) /\ ToSet(s \o t) = ToSet(s) \cup ToSet(t)
  <2>1. /\ s \o t \in Seq(X) /\ Len(s \o t) = Len(s) + Len(t)
        /\ \A k \in 1..(Len(s) + Len(t)) :
             (s \o t)[k] = IF k <= Len(s) THEN s[k] ELSE t[k - Len(s)]
    BY ConcatProperties
  <2> DEFINE c == s \o t
  <2>2. /\ ToSet(s) = {s[k] : k \in 1..Len(s)} /\ ToSet(t) = {t[k] : k \in 1..Len(t)}
        /\ ToSet(c) = {c[k] : k \in 1..(Len(s) + Len(t))}
        /\ Len(s) \in Nat /\ Len(t) \in Nat
    BY <2>1, Elements
  <2> HIDE DEF c
  <2>3. ASSUME NEW k \in 1..(Len(s) + Len(t)) PROVE c[k] \in ToSet(s) \cup ToSet(t)
    <3>1. c[k] = IF k <= Len(s) THEN s[k] ELSE t[k - Len(s)]
      BY <2>1 DEF c
    <3>2. (k <= Len(s) /\ k \in 1..Len(s)) \/ (~(k <= Len(s)) /\ k - Len(s) \in 1..Len(t))
      BY <2>2
    <3> QED
      BY <2>2, <3>1, <3>2
  <2>4. ASSUME NEW k \in 1..Len(s) PROVE s[k] \in ToSet(c)
    <3>1. k \in 1..(Len(s) + Len(t)) /\ k <= Len(s)
      BY <2>2
    <3>2. c[k] = s[k]
      BY <2>1, <3>1 DEF c
    <3> QED
      BY <2>2, <3>1, <3>2
  <2>5. ASSUME NEW k \in 1..Len(t) PROVE t[k] \in ToSet(c)
    <3>1. k + Len(s) \in 1..(Len(s) + Len(t)) /\ ~(k + Len(s) <= Len(s)) /\ (k + Len(s)) - Len(s) = k
      BY <2>2
    <3>2. c[k + Len(s)] = t[(k + Len(s)) - Len(s)]
      BY <2>1, <3>1 DEF c
    <3> QED
      BY <2>2, <3>1, <3>2
  <2>6. ToSet(c) = ToSet(s) \cup ToSet(t)
    BY <2>2, <2>3, <2>4, <2>5
  <2> QED
    BY <2>1, <2>6 DEF c
<1>3. \A e \in X : <<e>> \in Seq(X) /\ ToSet(<<e>>) = {e}
  BY DEF ToSet
<1>4. \A s \in Seq(X), e \in X : Append(s, e) \in Seq(X) /\ ToSet(Append(s, e)) = ToSet(s) \cup {e}
  <2>1. TAKE s \in Seq(X), e \in X
  <2>2. s \o <<e>> \in Seq(X) /\ ToSet(s \o <<e>>) = ToSet(s) \cup ToSet(<<e>>)
    BY <1>2, <1>3
  <2>3. Append(s, e) = s \o <<e>>
    BY AppendIsConcat
  <2> QED
    BY <1>3, <2>2, <2>3
<1>5. ASSUME NEW s \in Seq(X), s # <<>>
      PROVE  Head(s) \in X /\ Tail(s) \in Seq(X) /\ ToSet(s) = {Head(s)} \cup ToSet(Tail(s))
  <2> DEFINE r == Tail(s)
  <2>1. /\ Head(s) \in X /\ r \in Seq(X) /\ Len(r) = Len(s) - 1 /\ Head(s) = s[1]
        /\ \A i \in 1..Len(r) : r[i] = s[i + 1]
    BY <1>5, HeadTailProperties, EmptySeq
  <2>2. Len(s) \in Nat /\ Len(s) # 0
    BY <1>5, LenProperties, EmptySeq
  <2>3. ToSet(s) = {s[k] : k \in 1..Len(s)} /\ ToSet(r) = {r[k] : k \in 1..Len(r)}
    BY <2>1, Elements
  <2> HIDE DEF r
  <2>4. 1 \in 1..Len(s) /\ \A k \in 1..Len(r) : k + 1 \in 1..Len(s)
    BY <2>1, <2>2
  <2>5. \A k \in 1..Len(s) : k # 1 => k - 1 \in 1..Len(r) /\ (k - 1) + 1 = k
    BY <2>1, <2>2
  <2>6. ToSet(r) \subseteq ToSet(s) /\ Head(s) \in ToSet(s)
    BY <2>1, <2>3, <2>4
  <2>7. \A k \in 1..Len(s) : s[k] = Head(s) \/ s[k] \in ToSet(r)
    BY <2>1, <2>3, <2>5
  <2>8. ToSet(s) = {Head(s)} \cup ToSet(r)
    BY <2>3, <2>6, <2>7
  <2> QED
    BY <2>1, <2>8 DEF r
<1> QED
  BY <1>1, <1>2, <1>4, <1>5

LEMMA KeptElements ==
  ASSUME NEW X, NEW S
  PROVE  \A s \in Seq(X) : Keep(s, S) \in Seq(X) /\ ToSet(Keep(s, S)) = ToSet(s) \cap S
<1> DEFINE G == {s \in Seq(X) : Keep(s, S) \in Seq(X) /\ ToSet(Keep(s, S)) = ToSet(s) \cap S}
<1>1. <<>> \in G
  <2>1. <<>> \in Seq(X)
    OBVIOUS
  <2> QED
    BY <2>1, KeepEmpty, ElementsOf
<1>2. ASSUME NEW s \in Seq(X), NEW e \in X, s \in G PROVE Append(s, e) \in G
  <2>1. Keep(s, S) \in Seq(X) /\ ToSet(Keep(s, S)) = ToSet(s) \cap S
    BY <1>2
  <2>2. Keep(Append(s, e), S) = IF e \in S THEN Append(Keep(s, S), e) ELSE Keep(s, S)
    BY KeepIs
  <2>3. Append(s, e) \in Seq(X) /\ ToSet(Append(s, e)) = ToSet(s) \cup {e}
    BY ElementsOf
  <2>4. Append(Keep(s, S), e) \in Seq(X) /\ ToSet(Append(Keep(s, S), e)) = ToSet(Keep(s, S)) \cup {e}
    BY <2>1, ElementsOf
  <2> QED
    BY <2>1, <2>2, <2>3, <2>4
<1> HIDE DEF G
<1>3. \A s \in Seq(X) : s \in G
  BY <1>1, <1>2, ByAppend
<1> QED
  BY <1>3 DEF G

LEMMA InNothing == Nothing \in Bags /\ In(Nothing) = {}
<1>1. \A i \in Items : Nothing[i] = 0
  BY DEF Nothing
<1>2. ~(0 > 0) /\ 0 \in Nat
  OBVIOUS
<1>3. Nothing \in Bags
  BY <1>2 DEF Nothing, Bags
<1> QED
  BY <1>1, <1>2, <1>3 DEF In

LEMMA InOnce ==
  ASSUME NEW is, is \subseteq Items
  PROVE  Once(is) \in Bags /\ In(Once(is)) = is
<1>1. \A i \in Items : Once(is)[i] = IF i \in is THEN 1 ELSE 0
  BY DEF Once
<1>2. 1 > 0 /\ ~(0 > 0) /\ 0 \in Nat /\ 1 \in Nat
  OBVIOUS
<1>3. Once(is) \in Bags
  BY <1>2 DEF Once, Bags
<1> QED
  BY <1>1, <1>2, <1>3 DEF In

LEMMA InBoth ==
  ASSUME NEW a \in Bags, NEW b \in Bags
  PROVE  Both(a, b) \in Bags /\ In(Both(a, b)) = In(a) \cup In(b)
<1>1. \A i \in Items : a[i] \in Nat /\ b[i] \in Nat /\ Both(a, b)[i] = a[i] + b[i]
  BY DEF Bags, Both
<1>2. \A m, n \in Nat : m + n \in Nat /\ (m + n > 0 <=> m > 0 \/ n > 0)
  OBVIOUS
<1>3. Both(a, b) \in Bags
  BY <1>1, <1>2 DEF Both, Bags
<1>4. \A i \in Items : Both(a, b)[i] > 0 <=> a[i] > 0 \/ b[i] > 0
  BY <1>1, <1>2
<1> QED
  BY <1>3, <1>4 DEF In

\* A bag of bags holds what each of them does.
LEMMA InAll ==
  \A s \in Seq(Bags) : All(s) \in Bags /\ In(All(s)) = BagItems(s)
<1> DEFINE G == {s \in Seq(Bags) : All(s) \in Bags /\ In(All(s)) = BagItems(s)}
<1>1. <<>> \in G
  <2>1. <<>> \in Seq(Bags)
    OBVIOUS
  <2>2. BagItems(<<>>) = {}
    BY ElementsOf DEF BagItems
  <2> QED
    BY <2>1, <2>2, SumEmpty, InNothing
<1>2. ASSUME NEW s \in Seq(Bags), NEW e \in Bags, s \in G PROVE Append(s, e) \in G
  <2>1. All(s) \in Bags /\ In(All(s)) = BagItems(s)
    BY <1>2
  <2>2. All(Append(s, e)) = Both(All(s), e)
    BY SumIs
  <2>3. Append(s, e) \in Seq(Bags) /\ ToSet(Append(s, e)) = ToSet(s) \cup {e}
    BY ElementsOf
  <2>4. BagItems(Append(s, e)) = BagItems(s) \cup In(e)
    BY <2>3 DEF BagItems
  <2> QED
    BY <2>1, <2>2, <2>3, <2>4, InBoth
<1> HIDE DEF G
<1>3. \A s \in Seq(Bags) : s \in G
  BY <1>1, <1>2, ByAppend
<1> QED
  BY <1>3 DEF G

LEMMA BagsIn ==
  /\ BagItems(<<>>) = {}
  /\ \A s \in Seq(Bags), b \in Bags :
       Append(s, b) \in Seq(Bags) /\ BagItems(Append(s, b)) = BagItems(s) \cup In(b)
<1>1. BagItems(<<>>) = {}
  BY ElementsOf DEF BagItems
<1>2. ASSUME NEW s \in Seq(Bags), NEW b \in Bags
      PROVE  Append(s, b) \in Seq(Bags) /\ BagItems(Append(s, b)) = BagItems(s) \cup In(b)
  BY ElementsOf DEF BagItems
<1> QED
  BY <1>1, <1>2

\* The same of notices and of turns, X.
LEMMA NoticesIn ==
  ASSUME NEW X, NEW s \in Seq(X)
  PROVE  /\ ItemsIn(<<>>) = {}
         /\ \A p \in X : Append(s, p) \in Seq(X) /\ ItemsIn(Append(s, p)) = ItemsIn(s) \cup In(p.items)
         /\ \A t \in Seq(X) : s \o t \in Seq(X) /\ ItemsIn(s \o t) = ItemsIn(s) \cup ItemsIn(t)
         /\ s # <<>> => /\ Head(s) \in X /\ Tail(s) \in Seq(X)
                        /\ ItemsIn(s) = In(Head(s).items) \cup ItemsIn(Tail(s))
<1>1. ItemsIn(<<>>) = {}
  BY ElementsOf DEF ItemsIn
<1>2. ASSUME NEW p \in X
      PROVE  Append(s, p) \in Seq(X) /\ ItemsIn(Append(s, p)) = ItemsIn(s) \cup In(p.items)
  BY ElementsOf DEF ItemsIn
<1>3. ASSUME NEW t \in Seq(X)
      PROVE  s \o t \in Seq(X) /\ ItemsIn(s \o t) = ItemsIn(s) \cup ItemsIn(t)
  BY ElementsOf DEF ItemsIn
<1>4. s # <<>> => /\ Head(s) \in X /\ Tail(s) \in Seq(X)
                  /\ ItemsIn(s) = In(Head(s).items) \cup ItemsIn(Tail(s))
  BY ElementsOf DEF ItemsIn
<1> QED
  BY <1>1, <1>2, <1>3, <1>4

\* What is held, as bags, and bags, held again.
LEMMA HeldAsBags ==
  ASSUME NEW p \in Seq(Notices)
  PROVE  /\ [k \in DOMAIN p |-> p[k].items] \in Seq(Bags)
         /\ BagItems([k \in DOMAIN p |-> p[k].items]) = ItemsIn(p)
<1> DEFINE b == [k \in DOMAIN p |-> p[k].items]
<1>1. DOMAIN p = 1..Len(p) /\ Len(p) \in Nat /\ \A k \in 1..Len(p) : p[k] \in Notices
  BY LenProperties, ElementOfSeq
<1>2. \A k \in 1..Len(p) : p[k].items \in Bags
  BY <1>1 DEF Notices
<1>3. b \in Seq(Bags)
  <2>1. b = [k \in 1..Len(p) |-> p[k].items]
    BY <1>1
  <2>2. b \in [1..Len(p) -> Bags]
    BY <1>2, <2>1
  <2> HIDE DEF b
  <2> QED
    BY <1>1, <2>2, SeqDef
<1>4. BagItems(b) = ItemsIn(p)
  <2>1. ToSet(b) = {p[k].items : k \in DOMAIN p} /\ ToSet(p) = {p[k] : k \in DOMAIN p}
    BY DEF ToSet
  <2> HIDE DEF b
  <2>2. \A i : i \in BagItems(b) <=> \E k \in DOMAIN p : i \in In(p[k].items)
    BY <2>1 DEF BagItems
  <2>3. \A i : i \in ItemsIn(p) <=> \E k \in DOMAIN p : i \in In(p[k].items)
    BY <2>1 DEF ItemsIn
  <2> QED
    BY <2>2, <2>3
<1> QED
  BY <1>3, <1>4

LEMMA BagsAsHeld ==
  ASSUME NEW g \in Seq(Bags)
  PROVE  /\ [k \in DOMAIN g |-> [items |-> g[k], wake |-> AnyWakes(g[k])]] \in Seq(Notices)
         /\ ItemsIn([k \in DOMAIN g |-> [items |-> g[k], wake |-> AnyWakes(g[k])]]) = BagItems(g)
<1> DEFINE p == [k \in DOMAIN g |-> [items |-> g[k], wake |-> AnyWakes(g[k])]]
<1>1. DOMAIN g = 1..Len(g) /\ Len(g) \in Nat /\ \A k \in 1..Len(g) : g[k] \in Bags
  BY LenProperties, ElementOfSeq
<1>2. \A k \in 1..Len(g) : [items |-> g[k], wake |-> AnyWakes(g[k])] \in Notices
  <2>1. \A k \in 1..Len(g) : AnyWakes(g[k]) \in BOOLEAN
    BY DEF AnyWakes
  <2> QED
    BY <1>1, <2>1 DEF Notices
<1>3. p \in Seq(Notices)
  <2>1. p = [k \in 1..Len(g) |-> [items |-> g[k], wake |-> AnyWakes(g[k])]]
    BY <1>1
  <2>2. p \in [1..Len(g) -> Notices]
    BY <1>2, <2>1
  <2> HIDE DEF p
  <2> QED
    BY <1>1, <2>2, SeqDef
<1>4. ItemsIn(p) = BagItems(g)
  <2>1. /\ ToSet(p) = {[items |-> g[k], wake |-> AnyWakes(g[k])] : k \in DOMAIN g}
        /\ ToSet(g) = {g[k] : k \in DOMAIN g}
    BY DEF ToSet
  <2>2. ItemsIn(p) = UNION {In(q.items) : q \in {[items |-> g[k], wake |-> AnyWakes(g[k])] : k \in DOMAIN g}}
    BY <2>1 DEF ItemsIn
  <2>3. BagItems(g) = UNION {In(b) : b \in {g[k] : k \in DOMAIN g}}
    BY <2>1 DEF BagItems
  <2> HIDE DEF p
  <2>4. \A k \in DOMAIN g : [items |-> g[k], wake |-> AnyWakes(g[k])].items = g[k]
    OBVIOUS
  <2>5. \A i : i \in ItemsIn(p) <=> \E k \in DOMAIN g : i \in In(g[k])
    BY <2>2, <2>4
  <2>6. \A i : i \in BagItems(g) <=> \E k \in DOMAIN g : i \in In(g[k])
    BY <2>3
  <2> QED
    BY <2>5, <2>6
<1> QED
  BY <1>3, <1>4

-----------------------------------------------------------------------------
(* The delivery's steps: what they hold and hand on is not lost.           *)

HeldStates ==
  [pending : Seq(Notices), inFlight : SUBSET Items, waking : BOOLEAN,
   ended : [Agents -> {"no", "heard", "restart"}], queue : Seq(Turns), ingress : Seq(Bags)]

Rides(s) == ItemsIn(s.queue) \cup BagItems(s.ingress)
Has(s) == ItemsIn(s.pending) \cup Rides(s)
Quiet(turns) == \A p \in ToSet(turns) : p.by # "wake" => p.items = Nothing

\* From s to r nothing held is lost, and what is newly in flight rides.
Goes(s, r) ==
  /\ r \in HeldStates
  /\ Has(s) \subseteq Has(r) /\ Rides(s) \subseteq Rides(r)
  /\ r.inFlight \subseteq s.inFlight \cup Rides(r)
  /\ Quiet(s.queue) => Quiet(r.queue)
  /\ ~ Live => r.ingress = s.ingress

LEMMA GoesOn ==
  ASSUME NEW s \in HeldStates
  PROVE  Goes(s, s) /\ \A r, q : Goes(s, r) /\ Goes(r, q) => Goes(s, q)
<1>1. Goes(s, s)
  BY DEF Goes
<1>2. ASSUME NEW r, NEW q, Goes(s, r), Goes(r, q) PROVE Goes(s, q)
  BY <1>2 DEF Goes
<1> QED
  BY <1>1, <1>2

LEMMA PendingIs ==
  ASSUME NEW s, s.pending \in Seq(Notices)
  PROVE  Pending(s) = ItemsIn(s.pending)
<1>1. ToSet(s.pending) = {s.pending[k] : k \in DOMAIN s.pending}
  BY DEF ToSet
<1> QED
  BY <1>1 DEF Pending, ItemsIn

LEMMA HoldsGoes ==
  ASSUME NEW s \in HeldStates, NEW items \in Bags, NEW wake \in BOOLEAN
  PROVE  /\ Goes(s, Holds(s, items, wake))
         /\ In(items) \subseteq ItemsIn(Holds(s, items, wake).pending)
         /\ ItemsIn(s.pending) \subseteq ItemsIn(Holds(s, items, wake).pending)
         /\ Holds(s, items, wake).ended = s.ended /\ Holds(s, items, wake).inFlight = s.inFlight
<1> DEFINE r == Holds(s, items, wake)
           n == [items |-> items, wake |-> wake]
<1>1. s.pending \in Seq(Notices) /\ n \in Notices /\ n.items = items
  BY DEF HeldStates, Notices
<1>2. Append(s.pending, n) \in Seq(Notices) /\ ItemsIn(Append(s.pending, n)) = ItemsIn(s.pending) \cup In(items)
  BY <1>1, NoticesIn
<1>3. /\ r.pending = Append(s.pending, n) /\ r.inFlight = s.inFlight /\ r.waking = s.waking
      /\ r.ended = s.ended /\ r.queue = s.queue /\ r.ingress = s.ingress
  BY DEF Holds, HeldStates
<1>4. r \in HeldStates
  BY <1>2 DEF Holds, HeldStates
<1> HIDE DEF r
<1>5. Rides(r) = Rides(s)
  BY <1>3 DEF Rides
<1>6. Has(r) = Has(s) \cup In(items)
  BY <1>2, <1>3, <1>5 DEF Has
<1>7. Goes(s, r)
  BY <1>3, <1>4, <1>5, <1>6 DEF Goes
<1>8. In(items) \subseteq ItemsIn(r.pending) /\ ItemsIn(s.pending) \subseteq ItemsIn(r.pending)
  BY <1>2, <1>3
<1> QED
  BY <1>3, <1>7, <1>8 DEF r

LEMMA HandGoes ==
  ASSUME NEW s \in HeldStates, NEW items \in Bags, NEW wake \in BOOLEAN
  PROVE  /\ Goes(s, Hand(s, items, wake))
         /\ In(items) \subseteq Has(Hand(s, items, wake))
         /\ Hand(s, items, wake).ended = s.ended
<1>1. CASE Live
  <2> DEFINE r == Hand(s, items, wake)
             b == Append(s.ingress, items)
  <2>1. b \in Seq(Bags) /\ BagItems(b) = BagItems(s.ingress) \cup In(items)
    BY BagsIn DEF HeldStates
  <2>2. r = [s EXCEPT !.ingress = b, !.inFlight = s.inFlight \cup In(items)]
    BY <1>1 DEF Hand
  <2>3. /\ r.pending = s.pending /\ r.inFlight = s.inFlight \cup In(items) /\ r.waking = s.waking
        /\ r.ended = s.ended /\ r.queue = s.queue /\ r.ingress = b
    BY <2>2 DEF HeldStates
  <2>4. In(items) \subseteq Items
    BY DEF In
  <2>5. r \in HeldStates
    BY <2>1, <2>2, <2>4 DEF HeldStates
  <2> HIDE DEF r, b
  <2>6. Rides(r) = Rides(s) \cup In(items)
    BY <2>1, <2>3 DEF Rides
  <2>7. Has(r) = Has(s) \cup In(items)
    BY <2>3, <2>6 DEF Has
  <2>8. Goes(s, r)
    BY <1>1, <2>3, <2>5, <2>6, <2>7 DEF Goes
  <2> QED
    BY <2>3, <2>7, <2>8 DEF r
<1>2. CASE ~ Live
  <2>1. Hand(s, items, wake) = Holds(s, items, wake)
    BY <1>2 DEF Hand
  <2> QED
    BY <2>1, HoldsGoes DEF Has
<1> QED
  BY <1>1, <1>2

LEMMA PumpGoes ==
  ASSUME NEW s \in HeldStates, NEW idle
  PROVE  Goes(s, Pump(s, idle)) /\ Pump(s, idle).ended = s.ended
<1>1. CASE s.waking \/ ~ idle \/ ~ \E k \in DOMAIN s.pending : s.pending[k].wake
  BY <1>1, GoesOn DEF Pump
<1>2. CASE ~(s.waking \/ ~ idle \/ ~ \E k \in DOMAIN s.pending : s.pending[k].wake)
  <2> DEFINE b == [k \in DOMAIN s.pending |-> s.pending[k].items]
             items == All(b)
             turn == [by |-> "wake", items |-> items]
             q == Append(s.queue, turn)
             r == Pump(s, idle)
  <2>1. b \in Seq(Bags) /\ BagItems(b) = ItemsIn(s.pending)
    BY HeldAsBags DEF HeldStates
  <2> HIDE DEF b
  <2>2. items \in Bags /\ In(items) = ItemsIn(s.pending)
    BY <2>1, InAll
  <2>3. r = [s EXCEPT !.pending = <<>>, !.inFlight = s.inFlight \cup In(items), !.waking = TRUE,
                      !.queue = q]
    BY <1>2 DEF Pump, b
  <2> HIDE DEF items
  <2>4. turn \in Turns /\ turn.items = items /\ turn.by = "wake"
    BY <2>2 DEF Turns
  <2> HIDE DEF turn
  <2>5. q \in Seq(Turns) /\ ItemsIn(q) = ItemsIn(s.queue) \cup In(items) /\ ToSet(q) = ToSet(s.queue) \cup {turn}
    BY <2>4, NoticesIn, ElementsOf DEF HeldStates
  <2> HIDE DEF q
  <2>6. /\ r.pending = <<>> /\ r.inFlight = s.inFlight \cup In(items) /\ r.waking = TRUE
        /\ r.ended = s.ended /\ r.queue = q /\ r.ingress = s.ingress
    BY <2>3 DEF HeldStates
  <2>7. In(items) \subseteq Items /\ <<>> \in Seq(Notices)
    BY DEF In
  <2>8. r \in HeldStates
    BY <2>3, <2>5, <2>7 DEF HeldStates
  <2> HIDE DEF r
  <2>9. ItemsIn(<<>>) = {}
    BY <2>7, NoticesIn
  <2>10. Rides(r) = Rides(s) \cup In(items) /\ Has(r) = Has(s)
    BY <2>2, <2>5, <2>6, <2>9 DEF Rides, Has
  <2>11. Quiet(s.queue) => Quiet(r.queue)
    BY <2>4, <2>5, <2>6 DEF Quiet
  <2>12. Goes(s, r)
    BY <2>6, <2>8, <2>10, <2>11 DEF Goes
  <2> QED
    BY <2>6, <2>12 DEF r
<1> QED
  BY <1>1, <1>2

LEMMA EndItemIs == \A t \in Tasks : EndName(t) \in Transitions /\ EndItem(t) \in Items
BY DEF EndName, EndItem, Items, Transitions

\* What is said of an agent whose group is delivered.
Spoken(s, r, a) ==
  \/ ToldByResult(a) \/ noticed[EndItem(a)] # 0
  \/ EndItem(a) \in s.inFlight \/ EndItem(a) \in Has(r)

LEMMA DeliverGroupGoes ==
  ASSUME NEW s \in HeldStates, NEW idle
  PROVE  Goes(s, DeliverGroup(s, idle)) /\ \A a \in Members : Spoken(s, DeliverGroup(s, idle), a)
<1> DEFINE F == {EndItem(a) : a \in {b \in Members :
                  ~ ToldByResult(b) /\ noticed[EndItem(b)] = 0 /\ EndItem(b) \notin s.inFlight}}
           alone(p) == Cardinality(In(p.items)) = 1 /\ In(p.items) \subseteq F
           S == {p \in Notices : ~ alone(p)}
           none == [a \in Agents |-> "no"]
           W == ~ (\E a \in Members : s.ended[a] = "restart") /\ AnyWakes(Once(F))
           R == [s EXCEPT !.ended = none, !.pending = Keep(@, S)]
           r == DeliverGroup(s, idle)
<1>1. F \subseteq Items
  BY EndItemIs DEF Members, Tasks
<1>2. \A a \in Members : ToldByResult(a) \/ noticed[EndItem(a)] # 0 \/ EndItem(a) \in s.inFlight \/ EndItem(a) \in F
  OBVIOUS
<1>3. r = IF F = {} THEN [s EXCEPT !.ended = none] ELSE Pump(Hand(R, Once(F), W), idle)
  BY DEF DeliverGroup
<1>4. W \in BOOLEAN
  OBVIOUS
<1>5. \A p \in Notices : p \in S \/ In(p.items) \subseteq F
  OBVIOUS
<1> HIDE DEF F, W, S, r
<1>6. none \in [Agents -> {"no", "heard", "restart"}]
  OBVIOUS
<1> HIDE DEF none
<1>7. CASE F = {}
  <2> DEFINE e == [s EXCEPT !.ended = none]
  <2>1. /\ e.pending = s.pending /\ e.inFlight = s.inFlight /\ e.queue = s.queue /\ e.ingress = s.ingress
        /\ e \in HeldStates
    BY <1>6 DEF HeldStates
  <2> HIDE DEF e
  <2>2. Goes(s, e)
    BY <2>1 DEF Goes, Has, Rides
  <2>3. r = e
    BY <1>3, <1>7 DEF e
  <2> QED
    BY <1>2, <1>7, <2>2, <2>3 DEF Spoken, r
<1>8. CASE F # {}
  <2>1. s.pending \in Seq(Notices)
    BY DEF HeldStates
  <2>2. Keep(s.pending, S) \in Seq(Notices) /\ ToSet(Keep(s.pending, S)) = ToSet(s.pending) \cap S
    BY <2>1, KeptElements
  <2>3. ItemsIn(s.pending) \subseteq ItemsIn(Keep(s.pending, S)) \cup F
    <3>1. ToSet(s.pending) \subseteq Notices
      BY <2>1, Elements
    <3> QED
      BY <1>5, <2>2, <3>1 DEF ItemsIn
  <2>4. /\ R.pending = Keep(s.pending, S) /\ R.inFlight = s.inFlight /\ R.queue = s.queue
        /\ R.ingress = s.ingress /\ R \in HeldStates
    BY <1>6, <2>2 DEF HeldStates
  <2> DEFINE H == Hand(R, Once(F), W)
  <2> HIDE DEF R
  <2>5. Once(F) \in Bags /\ In(Once(F)) = F
    BY <1>1, InOnce
  <2>6. Goes(R, H) /\ F \subseteq Has(H)
    BY <1>4, <2>4, <2>5, HandGoes
  <2>7. r = Pump(H, idle)
    BY <1>3, <1>8 DEF R
  <2> HIDE DEF H
  <2>8. Goes(H, r)
    BY <2>6, <2>7, PumpGoes DEF Goes
  <2>9. Goes(R, r) /\ Has(H) \subseteq Has(r)
    BY <2>4, <2>6, <2>8, GoesOn DEF Goes
  <2>10. Rides(R) = Rides(s) /\ Has(s) \subseteq Has(R) \cup F
    BY <2>3, <2>4 DEF Has, Rides
  <2>11. Goes(s, r)
    BY <2>4, <2>6, <2>9, <2>10 DEF Goes
  <2> QED
    BY <1>2, <2>6, <2>9, <2>11 DEF Spoken, r
<1> QED
  BY <1>7, <1>8

LEMMA GroupsGo ==
  ASSUME NEW s \in HeldStates, NEW idle
  PROVE  /\ Goes(s, Groups(s, idle))
         /\ \A a \in Agents : s.ended[a] # "no" /\ Planned(a) =>
              Groups(s, idle).ended[a] # "no" \/ Spoken(s, Groups(s, idle), a)
<1>1. CASE GroupComplete /\ \E a \in Agents : s.ended[a] # "no"
  <2>1. Groups(s, idle) = DeliverGroup(s, idle)
    BY <1>1 DEF Groups
  <2> QED
    BY <2>1, DeliverGroupGoes DEF Members
<1>2. CASE ~(GroupComplete /\ \E a \in Agents : s.ended[a] # "no")
  <2>1. Groups(s, idle) = s
    BY <1>2 DEF Groups
  <2> QED
    BY <2>1, GoesOn
<1> QED
  BY <1>1, <1>2

-----------------------------------------------------------------------------
(* What the steps that deliver make of what is held.                       *)

LEMMA HeldIs == TypeOK => /\ Held \in HeldStates
                          /\ Held.pending = pending /\ Held.inFlight = inFlight /\ Held.waking = waking
                          /\ Held.ended = ended /\ Held.queue = queue /\ Held.ingress = run.ingress
BY DEF TypeOK, Held, HeldStates

\* The agents that waited for their group still do, or it was delivered.
Grouped(s, r) == \A a \in Agents : s.ended[a] # "no" /\ Planned(a) => r.ended[a] # "no" \/ Spoken(s, r, a)

Handing(g) == Becomes(g) /\ run' = [run EXCEPT !.ingress = g.ingress]

LEMMA FlushGoes ==
  ASSUME TypeOK, Flush
  PROVE  \E g : /\ Goes(Held, g) /\ g.ended = ended /\ Handing(g)
                /\ \A i \in In(buffer) : noticed[i] > 0 \/ i \in inFlight \/ i \in Has(g)
<1> DEFINE fresh == [i \in Items |-> IF noticed[i] > 0 \/ i \in inFlight \/ i \in Pending(Held)
                                     THEN 0 ELSE buffer[i]]
           handed == Hand(Held, fresh, AnyWakes(fresh))
           w == In(fresh) \cap wakeful # {}
           s == IF fresh = Nothing THEN Held
                ELSE IF run.st = "none" THEN Pump(Holds(Held, fresh, w), TRUE)
                ELSE IF Live THEN handed
                ELSE Holds(handed, fresh, w)
<1>1. Becomes(s) /\ run' = [run EXCEPT !.ingress = s.ingress]
  BY DEF Flush
<1>2. fresh \in Bags
  BY DEF Bags, TypeOK
<1>3. \A i \in In(buffer) : noticed[i] > 0 \/ i \in inFlight \/ i \in Pending(Held) \/ i \in In(fresh)
  BY DEF In
<1>4. w \in BOOLEAN /\ AnyWakes(fresh) \in BOOLEAN
  BY DEF AnyWakes
<1> HIDE DEF fresh, w
<1>5. Held \in HeldStates /\ Held.ended = ended
  BY HeldIs
<1>6. Goes(Held, handed) /\ In(fresh) \subseteq Has(handed) /\ handed.ended = ended
  BY <1>2, <1>4, <1>5, HandGoes
<1> DEFINE h == Holds(Held, fresh, w)
           k == Holds(handed, fresh, w)
<1>7. Goes(Held, h) /\ In(fresh) \subseteq Has(h) /\ h.ended = ended
  BY <1>2, <1>4, <1>5, HoldsGoes DEF Has
<1>8. Goes(handed, k) /\ k.ended = handed.ended
  BY <1>2, <1>4, <1>6, HoldsGoes DEF Goes
<1> HIDE DEF handed, h, k
<1>9. Goes(Held, k) /\ In(fresh) \subseteq Has(k)
  <2>1. Goes(Held, k)
    BY <1>5, <1>6, <1>8, GoesOn
  <2> QED
    BY <1>6, <1>8, <2>1 DEF Goes
<1> DEFINE p == Pump(h, TRUE)
<1>10. Goes(h, p) /\ p.ended = h.ended
  BY <1>7, PumpGoes DEF Goes
<1> HIDE DEF p
<1>11. Goes(Held, p) /\ In(fresh) \subseteq Has(p)
  <2>1. Goes(Held, p)
    BY <1>5, <1>7, <1>10, GoesOn
  <2> QED
    BY <1>7, <1>10, <2>1 DEF Goes
<1>12. s = IF fresh = Nothing THEN Held ELSE IF run.st = "none" THEN p ELSE IF Live THEN handed ELSE k
  BY DEF h, k, p
<1> HIDE DEF s
<1>13. Goes(Held, s) /\ s.ended = ended
  BY <1>5, <1>6, <1>7, <1>8, <1>9, <1>10, <1>11, <1>12, GoesOn
<1>14. In(fresh) \subseteq Has(s)
  BY <1>6, <1>9, <1>11, <1>12, InNothing
<1>15. Pending(Held) \subseteq Has(s)
  <2>1. Pending(Held) = ItemsIn(Held.pending)
    BY <1>5, PendingIs DEF HeldStates
  <2> QED
    BY <1>13, <2>1 DEF Goes, Has
<1> QED
  BY <1>1, <1>3, <1>13, <1>14, <1>15 DEF Handing

LEMMA AgentEndedGoes ==
  ASSUME TypeOK, NEW a \in Agents, AgentEnded(a)
  PROVE  \E g : /\ Goes(Held, g) /\ Grouped(Held, g) /\ Handing(g)
                /\ Planned(a) => noticed[EndItem(a)] > 0 \/ g.ended[a] # "no" \/ Spoken(Held, g, a)
<1> DEFINE i == EndItem(a)
           known == noticed[i] > 0 \/ i \in inFlight \/ i \in Pending(Held) \/ ended[a] # "no"
           h == IF i[2] = "failed" /\ run.st # "none" THEN Hand(Held, Once({i}), Wakes(i)) ELSE Held
           s == [h EXCEPT !.ended[a] = "heard"]
           g == Groups(s, Idle)
<1>1. Held \in HeldStates /\ Held.inFlight = inFlight /\ Held.ended = ended /\ Held.ingress = run.ingress
  BY HeldIs
<1>2. CASE known
  <2>1. Becomes(Held) /\ UNCHANGED run
    BY <1>2 DEF AgentEnded
  <2>2. [run EXCEPT !.ingress = run.ingress] = run
    BY DEF TypeOK
  <2>3. Goes(Held, Held) /\ Grouped(Held, Held)
    BY <1>1, GoesOn DEF Grouped
  <2>4. Pending(Held) \subseteq Has(Held)
    BY <1>1, PendingIs DEF HeldStates, Has
  <2>5. noticed[i] > 0 \/ Held.ended[a] # "no" \/ Spoken(Held, Held, a)
    BY <1>1, <1>2, <2>4 DEF Spoken
  <2> QED
    BY <1>1, <2>1, <2>2, <2>3, <2>5 DEF Handing
<1>3. CASE ~ known
  <2>1. Handing(g)
    BY <1>3 DEF AgentEnded, Handing
  <2>2. i \in Items /\ Wakes(i) \in BOOLEAN
    BY EndItemIs DEF Tasks, Wakes
  <2>3. Once({i}) \in Bags
    BY <2>2, InOnce
  <2>4. Goes(Held, h) /\ h.ended = ended
    BY <1>1, <2>2, <2>3, HandGoes, GoesOn
  <2> HIDE DEF h
  <2>5. h \in HeldStates
    BY <2>4 DEF Goes
  <2>6. /\ s.pending = h.pending /\ s.inFlight = h.inFlight /\ s.queue = h.queue /\ s.ingress = h.ingress
        /\ s.ended = [h.ended EXCEPT ![a] = "heard"] /\ s \in HeldStates
    BY <2>5 DEF HeldStates
  <2> HIDE DEF s
  <2>7. Goes(Held, s)
    BY <2>4, <2>6 DEF Goes, Has, Rides
  <2>8. Goes(s, g) /\ Grouped(s, g)
    BY <2>6, GroupsGo DEF Grouped
  <2> HIDE DEF g
  <2>9. Goes(Held, g)
    BY <1>1, <2>7, <2>8, GoesOn
  <2>10. \A b \in Agents : ended[b] # "no" => s.ended[b] # "no"
    BY <1>1, <2>4, <2>6 DEF HeldStates
  <2>11. s.ended[a] # "no"
    BY <2>4, <2>5, <2>6 DEF HeldStates
  <2>12. \A b \in Agents : Spoken(s, g, b) => Spoken(Held, g, b)
    BY <2>7, <2>8 DEF Goes, Spoken, Has
  <2>13. Grouped(Held, g) /\ (Planned(a) => g.ended[a] # "no" \/ Spoken(Held, g, a))
    BY <1>1, <2>8, <2>10, <2>11, <2>12 DEF Grouped
  <2> QED
    BY <2>1, <2>9, <2>13
<1> QED
  BY <1>2, <1>3

LEMMA RecheckGoes ==
  ASSUME TypeOK, Recheck
  PROVE  \E g : Goes(Held, g) /\ Grouped(Held, g) /\ Handing(g)
<1> DEFINE g == Groups(Held, Idle)
<1>1. Goes(Held, g) /\ Grouped(Held, g)
  BY HeldIs, GroupsGo DEF Grouped
<1>2. Handing(g)
  BY DEF Recheck, Handing
<1> QED
  BY <1>1, <1>2

LEMMA PumpTimerGoes ==
  ASSUME TypeOK, PumpTimer
  PROVE  \E g : Goes(Held, g) /\ g.ended = ended /\ Becomes(g) /\ run' = run /\ g.ingress = run.ingress
<1> DEFINE g == Pump(Held, Idle)
<1>1. Goes(Held, g) /\ g.ended = ended
  BY HeldIs, PumpGoes
<1>2. g.ingress = run.ingress
  BY HeldIs DEF Pump, HeldStates
<1>3. Becomes(g) /\ run' = run
  BY DEF PumpTimer
<1> QED
  BY <1>1, <1>2, <1>3

\* A run that settles gives its ingress back.
Returned == [Held EXCEPT !.pending = @ \o [k \in DOMAIN run.ingress |->
                            [items |-> run.ingress[k], wake |-> AnyWakes(run.ingress[k])]],
                         !.ingress = <<>>, !.inFlight = @ \ In(All(run.ingress))]

LEMMA SettlesGoes ==
  ASSUME TypeOK, RunSettles
  PROVE  /\ Returned \in HeldStates /\ Has(Held) \subseteq Has(Returned)
         /\ Returned.ended = ended /\ Returned.queue = queue
         /\ Returned.inFlight = inFlight \ BagItems(run.ingress) /\ Returned.ingress = <<>>
         /\ \E g : Goes(Returned, g) /\ Grouped(Returned, g) /\ Becomes(g) /\ run' = NoRun
<1> DEFINE back == [k \in DOMAIN run.ingress |->
                      [items |-> run.ingress[k], wake |-> AnyWakes(run.ingress[k])]]
<1>1. run.ingress \in Seq(Bags) /\ pending \in Seq(Notices)
  BY DEF TypeOK
<1>2. back \in Seq(Notices) /\ ItemsIn(back) = BagItems(run.ingress)
  BY <1>1, BagsAsHeld
<1> HIDE DEF back
<1>3. pending \o back \in Seq(Notices) /\ ItemsIn(pending \o back) = ItemsIn(pending) \cup ItemsIn(back)
  BY <1>1, <1>2, NoticesIn
<1>4. In(All(run.ingress)) = BagItems(run.ingress)
  BY <1>1, InAll
<1>5. /\ Returned.pending = pending \o back /\ Returned.inFlight = inFlight \ BagItems(run.ingress)
      /\ Returned.ended = ended /\ Returned.queue = queue /\ Returned.ingress = <<>>
      /\ Returned \in HeldStates
  <2>1. Returned = [Held EXCEPT !.pending = pending \o back, !.ingress = <<>>,
                                !.inFlight = inFlight \ BagItems(run.ingress)]
    BY <1>4 DEF Returned, back, Held
  <2>2. <<>> \in Seq(Bags)
    OBVIOUS
  <2> QED
    BY <1>3, <2>1, <2>2, HeldIs DEF HeldStates
<1>6. Has(Held) \subseteq Has(Returned)
  <2>1. Held.pending = pending /\ Held.queue = queue /\ Held.ingress = run.ingress
    BY HeldIs
  <2>2. BagItems(<<>>) = {}
    BY BagsIn
  <2> QED
    BY <1>2, <1>3, <1>5, <2>1, <2>2 DEF Has, Rides
<1>7. Goes(Returned, Groups(Returned, TRUE)) /\ Grouped(Returned, Groups(Returned, TRUE))
  BY <1>5, GroupsGo DEF Grouped
<1>8. Becomes(Groups(Returned, TRUE)) /\ run' = NoRun
  BY DEF RunSettles, Returned
<1> QED
  BY <1>5, <1>6, <1>7, <1>8

\* What a process that starts finds untold.
Missed(a) == Settled(a) /\ noticed[EndItem(a)] = 0 /\ ~ ToldByResult(a)

LEMMA AttachGoes ==
  ASSUME TypeOK, Attach
  PROVE  \E s, g :
           /\ s \in HeldStates /\ Has(Held) \subseteq Has(s) /\ s.inFlight = inFlight
           /\ s.queue = queue /\ s.ingress = run.ingress
           /\ \A a \in Agents : Missed(a) => s.ended[a] # "no"
           /\ \A t \in Shells : Settled(t) /\ noticed[EndItem(t)] = 0 /\ claim[t] # EndName(t) =>
                EndItem(t) \in Has(s)
           /\ Goes(s, g) /\ Grouped(s, g) /\ Becomes(g)
<1> DEFINE S == {EndItem(t) : t \in {u \in Shells :
                   Settled(u) /\ noticed[EndItem(u)] = 0 /\ claim[u] # EndName(u)}}
           missed == [a \in Agents |->
                   IF Settled(a) /\ noticed[EndItem(a)] = 0 /\ ~ ToldByResult(a)
                   THEN "restart" ELSE "no"]
           h == IF S = {} THEN Held ELSE Holds(Held, Once(S), FALSE)
           s == [h EXCEPT !.ended = missed]
           g == Groups(s, TRUE)
<1>1. Becomes(g)
  BY DEF Attach
<1>2. S \subseteq Items
  BY EndItemIs DEF Tasks
<1>3. \A t \in Shells : Settled(t) /\ noticed[EndItem(t)] = 0 /\ claim[t] # EndName(t) => EndItem(t) \in S
  OBVIOUS
<1>4. missed \in [Agents -> {"no", "heard", "restart"}] /\ \A a \in Agents : Missed(a) => missed[a] # "no"
  BY DEF Missed
<1> HIDE DEF S, missed
<1>5. Once(S) \in Bags /\ In(Once(S)) = S
  BY <1>2, InOnce
<1>6. /\ h \in HeldStates /\ Has(Held) \subseteq Has(h) /\ S \subseteq Has(h) /\ h.inFlight = inFlight
      /\ h.queue = queue /\ h.ingress = run.ingress
  <2>1. Held \in HeldStates /\ Held.inFlight = inFlight /\ Held.queue = queue /\ Held.ingress = run.ingress
    BY HeldIs
  <2> DEFINE k == Holds(Held, Once(S), FALSE)
  <2>2. Goes(Held, k) /\ S \subseteq Has(k) /\ k.inFlight = inFlight
    BY <1>5, <2>1, HoldsGoes DEF Has
  <2>3. k.queue = queue /\ k.ingress = run.ingress
    BY <2>1 DEF Holds, HeldStates
  <2> HIDE DEF k
  <2>4. CASE S = {}
    BY <2>1, <2>4
  <2>5. CASE S # {}
    <3>1. h = k
      BY <2>5 DEF k
    <3> QED
      BY <2>2, <2>3, <3>1 DEF Goes
  <2> QED
    BY <2>4, <2>5
<1> HIDE DEF h
<1>7. /\ s.pending = h.pending /\ s.inFlight = h.inFlight /\ s.queue = h.queue /\ s.ingress = h.ingress
      /\ s.ended = missed /\ s \in HeldStates
  BY <1>4, <1>6 DEF HeldStates
<1> HIDE DEF s
<1>8. Has(s) = Has(h)
  BY <1>7 DEF Has, Rides
<1>9. Goes(s, g) /\ Grouped(s, g)
  BY <1>7, GroupsGo DEF Grouped
<1> HIDE DEF g
<1> QED
  BY <1>1, <1>3, <1>4, <1>6, <1>7, <1>8, <1>9

-----------------------------------------------------------------------------
(* The inductive invariant.                                                *)

\* What a journal holds goes with its runner, and what the watcher saw of a
\* task is in it.
JournalInv == \A t \in Tasks :
  /\ rec[t] # {} \/ t \in late => Planned(t)
  /\ proc[t] = "up" => Planned(t) /\ ~ Terminal(t) /\ ("runner" \in rec[t] => "command" \in rec[t])
  /\ seen[t] = "ended" => Terminal(t)
  /\ seen[t] = "unknown" => "command" \in rec[t] /\ proc[t] # "up"
  /\ seen[t] = "not_run" => t \in late \/ "runner" \in rec[t]

\* A call belongs to a live run.  Only the delegate call waits for agents, it
\* claims what it saw end, and its result tells what it claimed.
CallInv ==
  /\ act # NoCall => run.st = "live"
  /\ act.kind = "delegate" => call = "open" /\ act.of = Agents
  /\ \A a \in Agents :
       /\ wait[a] = "waiting" => act.kind = "delegate"
       /\ claim[a] # "none" => Planned(a) /\ call # "none"
       /\ act.kind = "delegate" /\ claim[a] # "none" => wait[a] = "claimed"
       /\ call = "result" /\ claim[a] # "none" => <<a, claim[a]>> \in carried
  /\ \A t \in Tasks : wait[t] = "claimed" => claim[t] # "none"

\* A turn carries items only when it is a wake's, up to its run's input.
HostInv ==
  /\ up # "up" => run = NoRun
  /\ run.st = "none" => run = NoRun
  /\ run.st # "begun" \/ run.by # "wake" => run.first = Nothing
  /\ Quiet(queue)

\* What is in flight is in a turn, in a run's input or in its ingress.
Riding == ItemsIn(queue) \cup BagItems(run.ingress) \cup In(run.first)
FlightInv == inFlight \subseteq Riding

\* What an announced end may have come to; a run gave up none of it.
Reach == In(noticed) \cup carried \cup In(buffer) \cup ItemsIn(pending) \cup Riding
Covered(t) ==
  EndItem(t) \in Reach \/ InItsGroup(t) \/ ClaimedByCall(t) \/ LostClaim(t) \/ FilledClaim(t)
CoverInv == \A t \in Tasks : Announcing(t) => Covered(t)

IInv == TypeOK /\ JournalInv /\ CallInv /\ HostInv /\ FlightInv /\ CoverInv

-----------------------------------------------------------------------------
(* Types.                                                                  *)

USE DEF managerVars, durable, logVars, heldVars, deliveryVars, hostVars, unheard

Runs == [st : {"none", "begun", "live", "sealed"}, by : {"none", "person", "wake", "resume"},
         first : Bags, ingress : Seq(Bags)]

\* What the delivery makes of what it holds is typed.
LEMMA BecomesTyped ==
  ASSUME TypeOK, NEW s \in HeldStates, Becomes(s)
  PROVE  /\ pending' \in Seq(Notices) /\ inFlight' \subseteq Items /\ waking' \in BOOLEAN
         /\ ended' \in [Agents -> {"no", "heard", "restart"}] /\ queue' \in Seq(Turns)
         /\ run' = [run EXCEPT !.ingress = s.ingress] => run' \in Runs
BY DEF TypeOK, Becomes, HeldStates, Runs

HostTyped ==
  /\ pending \in Seq(Notices) /\ inFlight \subseteq Items /\ waking \in BOOLEAN
  /\ ended \in [Agents -> {"no", "heard", "restart"}] /\ queue \in Seq(Turns)
  /\ run \in Runs
LogTyped ==
  /\ noticed \in Bags /\ carried \subseteq Items
  /\ call \in {"none", "open", "result", "filled"} /\ wakes \in Nat /\ open \in BOOLEAN
RestTyped ==
  /\ buffer \in Bags /\ wakeful \subseteq Items /\ pumping \in BOOLEAN
  /\ persons \in 0..MaxPersons /\ faults \in 0..MaxFaults /\ twice \subseteq Tasks

LEMMA TypeIs == TypeOK <=> ManagerTypeOK /\ HostTyped /\ LogTyped /\ RestTyped
BY DEF TypeOK, HostTyped, LogTyped, RestTyped, Runs

\* The steps of the tasks and of their calls, which tell nobody.
TaskStep(t) ==
  \/ RunnerSpeaks(t) \/ CommandEnds(t) \/ RunnerDies(t) \/ StartWindowPasses(t) \/ PersonStops(t)
  \/ (Working /\ ShellStarts(t)) \/ ShellStarted(t) \/ AgentStarts(t) \/ AgentStarted(t)
  \/ (Working /\ StopCall(t)) \/ AwaitSettled(t) \/ WaitEnds(t)
ManagerSteps == Join \/ Boot \/ \E t \in Tasks : TaskStep(t)

LEMMA ManagerTyped ==
  ManagerTypeOK /\ (ManagerSteps \/ \E t \in Tasks : Poll(t)) => ManagerTypeOK'
<1> SUFFICES ASSUME ManagerTypeOK, ManagerSteps \/ \E t \in Tasks : Poll(t) PROVE ManagerTypeOK'
  OBVIOUS
<1> USE DEF ManagerTypeOK, Records, Waits, NoCall
<1>0. /\ \A t \in Tasks : Sees(t) \in Ends \cup {"live"} /\ EndName(t) \in Transitions
      /\ \A t \in Tasks : Settled(t) => Verdict(t) \in Ends
      /\ Shells \subseteq Tasks
  BY EndItemIs DEF Sees, Settled, Tasks
<1>1. ASSUME NEW t \in Tasks, TaskStep(t) PROVE ManagerTypeOK'
  <2>2. CASE RunnerSpeaks(t) \/ PersonStops(t) \/ StartWindowPasses(t)
    BY <2>2 DEF RunnerSpeaks, PersonStops, Recorded, StartWindowPasses
  <2>3. CASE CommandEnds(t)
    BY <2>3 DEF CommandEnds
  <2>4. CASE RunnerDies(t)
    BY <2>4 DEF RunnerDies
  <2>5. CASE ShellStarts(t) \/ AgentStarts(t)
    BY <2>5 DEF ShellStarts, AgentStarts, Start, Recorded, Now
  <2>6. CASE ShellStarted(t) \/ AgentStarted(t)
    BY <2>6 DEF ShellStarted, AgentStarted, Spawned, SpawnTimesOut, Now
  <2>8. CASE StopCall(t)
    BY <1>0, <2>8 DEF StopCall, Recorded, Now
  <2>9. CASE AwaitSettled(t)
    BY <1>0, <2>9 DEF AwaitSettled, Now
  <2>10. CASE WaitEnds(t)
    BY <2>10 DEF WaitEnds, Now
  <2> QED
    BY <1>1, <2>2, <2>3, <2>4, <2>5, <2>6, <2>8, <2>9, <2>10 DEF TaskStep
<1>2. CASE Join
  BY <1>2 DEF Join
<1>3. CASE Boot \/ \E t \in Tasks : Poll(t)
  BY <1>0, <1>3 DEF Poll, Boot
<1> QED
  BY <1>1, <1>2, <1>3 DEF ManagerSteps

\* The steps of the delivery and of the host, which leave the tasks alone.
HostSteps ==
  \/ Flush \/ Recheck \/ PumpTimer \/ PersonSpeaks \/ BeginTurn \/ Resume \/ ResolveUncertain
  \/ FirstInput \/ Admit \/ Seal \/ RunSettles

LEMMA NextIs ==
  Next => \/ /\ ManagerSteps
             /\ UNCHANGED <<logVars, deliveryVars, run, queue, persons, twice>>
             /\ UNCHANGED faults \/ Fault
          \/ Delegate \/ DelegateReturns \/ StopReturns
          \/ (\E t \in Tasks : Watch(t)) \/ HostSteps \/ Crash \/ Attach
BY DEF Next, ManagerSteps, TaskStep, HostSteps, Aside, Strikes

LEMMA HostStepsTyped ==
  ASSUME TypeOK, HostSteps
  PROVE  TypeOK'
<1> USE DEF HostTyped, LogTyped, RestTyped
<1>1. ManagerTypeOK /\ HostTyped /\ LogTyped /\ RestTyped /\ Held \in HeldStates
  BY TypeIs, HeldIs
<1>2. UNCHANGED managerVars
  BY DEF HostSteps, Flush, Recheck, PumpTimer, PersonSpeaks, BeginTurn, Resume, ResolveUncertain,
         FirstInput, Admit, Seal, RunSettles, Begins
<1>3. ManagerTypeOK'
  BY <1>1, <1>2 DEF ManagerTypeOK, Planned, NoCall
<1>4. HostTyped' /\ LogTyped' /\ RestTyped'
  <2>1. CASE Flush
    <3>1. /\ buffer' = Nothing /\ wakeful' = {} /\ (twice' \ twice) \subseteq Tasks
          /\ UNCHANGED <<managerVars, logVars, pumping, persons, faults>>
      <4>1. \A b : {i[1] : i \in In(b)} \subseteq Tasks
        BY DEF In, Items
      <4> QED
        BY <2>1, <4>1 DEF Flush
    <3>2. PICK g : Goes(Held, g) /\ Handing(g)
      BY <2>1, FlushGoes
    <3>3. HostTyped'
      BY <3>2, BecomesTyped DEF Goes, Handing
    <3> QED
      BY <1>1, <3>1, <3>3, InNothing
  <2>2. CASE Recheck
    <3>1. PICK g : Goes(Held, g) /\ Handing(g)
      BY <2>2, RecheckGoes
    <3>3. HostTyped'
      BY <3>1, BecomesTyped DEF Goes, Handing
    <3> QED
      BY <1>1, <2>2, <3>3 DEF Recheck
  <2>3. CASE PumpTimer
    <3>1. PICK g : Goes(Held, g) /\ Becomes(g) /\ run' = run
      BY <2>3, PumpTimerGoes
    <3>3. HostTyped'
      BY <1>1, <3>1, BecomesTyped DEF Goes
    <3> QED
      BY <1>1, <2>3, <3>3 DEF PumpTimer
  <2>4. CASE PersonSpeaks
    <3>1. [by |-> "person", items |-> Nothing] \in Turns
      BY InNothing DEF Turns
    <3>2. queue' \in Seq(Turns)
      BY <1>1, <2>4, <3>1, NoticesIn DEF PersonSpeaks
    <3>3. persons' \in 0..MaxPersons
      BY <1>1, <2>4, DeliveryAssumption DEF PersonSpeaks
    <3> QED
      BY <1>1, <2>4, <3>2, <3>3 DEF PersonSpeaks
  <2>5. ASSUME NEW st \in {"begun", "live"}, NEW by \in {"person", "wake", "resume"}, NEW first \in Bags,
               Begins(st, by, first)
        PROVE  /\ run' \in Runs /\ inFlight' \subseteq Items /\ pending' \in Seq(Notices)
               /\ waking' \in BOOLEAN /\ LogTyped' /\ RestTyped' /\ ended' = ended
    <3>1. [k \in DOMAIN pending |-> pending[k].items] \in Seq(Bags)
      BY <1>1, HeldAsBags
    <3>2. Pending(Held) \subseteq Items /\ <<>> \in Seq(Notices)
      BY DEF Pending, In
    <3>3. run' = [st |-> st, by |-> by, first |-> first,
                  ingress |-> [k \in DOMAIN pending |-> pending[k].items]]
      BY <2>5 DEF Begins
    <3>4. run' \in Runs
      BY <3>1, <3>3 DEF Runs
    <3> QED
      BY <1>1, <2>5, <3>2, <3>4 DEF Begins
  <2>6. CASE BeginTurn
    <3>1. Head(queue) \in Turns /\ Tail(queue) \in Seq(Turns)
      BY <1>1, <2>6, NoticesIn DEF BeginTurn
    <3>2. Head(queue).by \in {"person", "wake", "resume"} /\ Head(queue).items \in Bags
      BY <3>1 DEF Turns
    <3> QED
      BY <1>1, <2>5, <2>6, <3>1, <3>2 DEF BeginTurn
  <2>7. CASE Resume
    BY <1>1, <2>5, <2>7, InNothing DEF Resume
  <2>8. CASE ResolveUncertain
    BY <1>1, <2>8 DEF ResolveUncertain
  <2>9. CASE FirstInput
    <3>1. Both(noticed, run.first) \in Bags
      BY <1>1, InBoth DEF Runs
    <3>2. run' \in Runs
      BY <1>1, <2>9, InNothing DEF FirstInput, Runs
    <3>3. wakes' \in Nat
      BY <1>1, <2>9 DEF FirstInput
    <3> QED
      BY <1>1, <2>9, <3>1, <3>2, <3>3 DEF FirstInput, Lands
  <2>10. CASE Admit
    <3>1. Both(noticed, All(run.ingress)) \in Bags
      BY <1>1, InBoth, InAll DEF Runs
    <3>2. run' \in Runs
      <4>1. <<>> \in Seq(Bags) /\ run' = [run EXCEPT !.ingress = <<>>]
        BY <2>10 DEF Admit
      <4> QED
        BY <1>1, <4>1 DEF Runs
    <3> QED
      BY <1>1, <2>10, <3>1, <3>2 DEF Admit, Lands
  <2>11. CASE Seal
    <3>1. run' \in Runs
      BY <1>1, <2>11 DEF Seal, Runs
    <3> QED
      BY <1>1, <2>11, <3>1 DEF Seal
  <2>12. CASE RunSettles
    <3>1. PICK g : Goes(Returned, g) /\ Becomes(g) /\ run' = NoRun
      BY <2>12, SettlesGoes
    <3>2. NoRun \in Runs
      BY InNothing DEF NoRun, Runs
    <3>8. HostTyped'
      BY <3>1, <3>2, BecomesTyped DEF Goes
    <3> QED
      BY <1>1, <2>12, <3>8 DEF RunSettles
  <2> QED
    BY <2>1, <2>2, <2>3, <2>4, <2>6, <2>7, <2>8, <2>9, <2>10, <2>11, <2>12 DEF HostSteps
<1> QED
  BY <1>3, <1>4 DEF TypeOK, Runs

LEMMA TypeStep == TypeOK /\ CallInv /\ Next => TypeOK'
<1> SUFFICES ASSUME TypeOK, CallInv, Next PROVE TypeOK'
  OBVIOUS
<1> USE DEF HostTyped, LogTyped, RestTyped
<1>1. ManagerTypeOK /\ HostTyped /\ LogTyped /\ RestTyped /\ Held \in HeldStates
  BY TypeIs, HeldIs
<1>2. CASE /\ ManagerSteps
           /\ UNCHANGED <<logVars, deliveryVars, run, queue, persons, twice>>
           /\ UNCHANGED faults \/ Fault
  <2>1. faults' \in 0..MaxFaults
    BY <1>1, <1>2, DeliveryAssumption DEF Fault
  <2>2. ManagerTypeOK'
    BY <1>1, <1>2, ManagerTyped
  <2>3. HostTyped' /\ LogTyped' /\ RestTyped'
    BY <1>1, <1>2, <2>1
  <2> QED
    BY <2>2, <2>3 DEF TypeOK, Runs
<1>3. CASE Delegate \/ DelegateReturns \/ StopReturns
  <2>1. Claimed \subseteq Items
    BY <1>1 DEF Claimed, Items, ManagerTypeOK, CallInv
  <2>2. ManagerTypeOK'
    BY <1>1, <1>3 DEF Delegate, DelegateReturns, StopReturns, ManagerTypeOK, NoCall, Tasks, Waits
  <2>3. HostTyped' /\ LogTyped' /\ RestTyped'
    BY <1>1, <1>3, <2>1 DEF Delegate, DelegateReturns, StopReturns
  <2> QED
    BY <2>2, <2>3 DEF TypeOK, Runs
<1>4. ASSUME NEW t \in Tasks, Watch(t) PROVE TypeOK'
  <2>1. ManagerTypeOK'
    BY <1>1, <1>4, ManagerTyped DEF Watch
  <2>2. UNCHANGED <<logVars, pumping, persons, faults>> /\ (twice' \ twice) \subseteq Tasks
    BY <1>4 DEF Watch
  <2>3. HostTyped' /\ buffer' \in Bags /\ wakeful' \subseteq Items
    <3>1. CASE ~ Announced(t)
      BY <1>1, <1>4, <3>1 DEF Watch
    <3>2. CASE Announced(t) /\ t \in Agents
      <4>1. AgentEnded(t) /\ UNCHANGED <<buffer, wakeful>>
        BY <1>4, <3>2 DEF Watch, Hear
      <4>2. PICK g : Goes(Held, g) /\ Handing(g)
        BY <3>2, <4>1, AgentEndedGoes
      <4>3. HostTyped'
        BY <4>2, BecomesTyped DEF Goes, Handing
      <4> QED
        BY <1>1, <4>1, <4>3
    <3>3. CASE Announced(t) /\ t \notin Agents
      <4>1. EndItem(t) \in Items
        BY EndItemIs
      <4>2. Once({EndItem(t)}) \in Bags
        BY <4>1, InOnce
      <4>3. Both(buffer, Once({EndItem(t)})) \in Bags
        BY <1>1, <4>2, InBoth
      <4> QED
        BY <1>1, <1>4, <3>3, <4>1, <4>3 DEF Watch, Hear
    <3> QED
      BY <3>1, <3>2, <3>3
  <2>4. LogTyped' /\ RestTyped'
    BY <1>1, <2>2, <2>3
  <2> QED
    BY <2>1, <2>3, <2>4 DEF TypeOK, Runs
<1>5. CASE HostSteps
  BY <1>5, HostStepsTyped
<1>6. CASE Crash
  <2>1. faults' \in 0..MaxFaults
    BY <1>1, <1>6, DeliveryAssumption DEF Crash, Fault
  <2>2. ManagerTypeOK'
    BY <1>1, <1>6 DEF Crash, Down, ManagerTypeOK, Records, Waits, Ends, NoCall
  <2>3. NoRun \in Runs /\ <<>> \in Seq(Notices) /\ <<>> \in Seq(Turns)
    BY InNothing DEF NoRun, Runs
  <2>4. HostTyped' /\ LogTyped' /\ RestTyped'
    BY <1>1, <1>6, <2>1, <2>3, InNothing DEF Crash
  <2> QED
    BY <2>2, <2>4 DEF TypeOK, Runs
<1>7. CASE Attach
  <2>1. UNCHANGED <<durable, seen, wait, act, logVars, buffer, wakeful, pumping, run, persons, faults, twice>>
        /\ up' = "up"
    BY <1>7 DEF Attach
  <2>2. PICK s, g : Goes(s, g) /\ Becomes(g)
    BY <1>7, AttachGoes
  <2>3. ManagerTypeOK'
    BY <1>1, <2>1 DEF ManagerTypeOK
  <2>4. HostTyped' /\ LogTyped' /\ RestTyped'
    BY <1>1, <2>1, <2>2, BecomesTyped DEF Goes
  <2> QED
    BY <2>3, <2>4 DEF TypeOK, Runs
<1> QED
  BY <1>2, <1>3, <1>4, <1>5, <1>6, <1>7, NextIs

-----------------------------------------------------------------------------
(* The journals and the calls.                                             *)

LEMMA SeesIs ==
  ASSUME NEW t \in Tasks
  PROVE  /\ Sees(t) = "ended" => Terminal(t)
         /\ Sees(t) = "unknown" => "command" \in rec[t] /\ proc[t] # "up"
         /\ Sees(t) = "not_run" => t \in late \/ "runner" \in rec[t]
         /\ Settled(t) => Sees(t) = Verdict(t)
BY DEF Sees, Settled, Verdict, Ends

LEMMA JournalStep == TypeOK /\ JournalInv /\ Next => JournalInv'
<1> SUFFICES ASSUME TypeOK, JournalInv, Next PROVE JournalInv'
  OBVIOUS
<1> DEFINE J(t) ==
      /\ rec[t] # {} \/ t \in late => Planned(t)
      /\ proc[t] = "up" => Planned(t) /\ ~ Terminal(t) /\ ("runner" \in rec[t] => "command" \in rec[t])
      /\ seen[t] = "ended" => Terminal(t)
      /\ seen[t] = "unknown" => "command" \in rec[t] /\ proc[t] # "up"
      /\ seen[t] = "not_run" => t \in late \/ "runner" \in rec[t]
<1>0. /\ rec \in [Tasks -> SUBSET Records] /\ proc \in [Tasks -> {"none", "up", "dead"}]
      /\ seen \in [Tasks -> Ends \cup {"live"}] /\ wait \in [Tasks -> Waits]
  BY DEF TypeOK, ManagerTypeOK
<1>1. ASSUME NEW t \in Tasks, TaskStep(t) PROVE JournalInv'
  <2>1. SUFFICES ASSUME NEW u \in Tasks PROVE J(u)'
    BY DEF JournalInv
  <2>2. J(u) /\ J(t)
    BY DEF JournalInv
  <2> USE <1>0, <2>2 DEF Planned, Terminal
  <2>3. CASE RunnerSpeaks(t)
    BY <2>3 DEF RunnerSpeaks
  <2>4. CASE CommandEnds(t)
    BY <2>4 DEF CommandEnds
  <2>5. CASE RunnerDies(t)
    BY <2>5 DEF RunnerDies
  <2>6. CASE StartWindowPasses(t)
    BY <2>6 DEF StartWindowPasses
  <2>7. CASE PersonStops(t) \/ StopCall(t)
    BY <2>7 DEF PersonStops, StopCall, Recorded, Stoppable
  <2>8. CASE ShellStarts(t) \/ AgentStarts(t)
    BY <2>8 DEF ShellStarts, AgentStarts, Start, Recorded
  <2>9. CASE ShellStarted(t) \/ AgentStarted(t)
    BY <2>9 DEF ShellStarted, AgentStarted, Spawned, SpawnTimesOut
  <2>10. CASE AwaitSettled(t)
    <3>1. J(u)' \/ u = t
      BY <2>10 DEF AwaitSettled
    <3>2. J(t)'
      BY <2>10, SeesIs DEF AwaitSettled
    <3> QED
      BY <3>1, <3>2
  <2>11. CASE WaitEnds(t)
    BY <2>11 DEF WaitEnds
  <2> QED
    BY <1>1, <2>3, <2>4, <2>5, <2>6, <2>7, <2>8, <2>9, <2>10, <2>11 DEF TaskStep
<1>2. CASE UNCHANGED <<rec, proc, late, seen>>
  BY <1>2 DEF JournalInv, Planned, Terminal
<1>3. ASSUME Boot \/ \E t \in Tasks : Poll(t) PROVE JournalInv'
  <2>1. SUFFICES ASSUME NEW u \in Tasks PROVE J(u)'
    BY DEF JournalInv
  <2>2. J(u)
    BY DEF JournalInv
  <2>3. seen'[u] = seen[u] \/ seen'[u] = Sees(u)
    BY <1>0, <1>3 DEF Boot, Poll
  <2> QED
    BY <1>3, <2>2, <2>3, SeesIs DEF Boot, Poll, Planned, Terminal
<1>4. CASE Crash
  <2>1. SUFFICES ASSUME NEW u \in Tasks PROVE J(u)'
    BY DEF JournalInv
  <2>2. J(u)
    BY DEF JournalInv
  <2>3. /\ seen' = [t \in Tasks |-> "live"] /\ UNCHANGED <<proc, late>>
        /\ rec'[u] = rec[u] \/ (rec'[u] = {"planned"} /\ ~ Planned(u))
    BY <1>0, <1>4 DEF Crash, Down
  <2> QED
    BY <1>0, <2>2, <2>3 DEF Planned, Terminal
<1>5. CASE Delegate \/ DelegateReturns \/ StopReturns \/ HostSteps \/ Attach \/ Join
  BY <1>2, <1>5 DEF Delegate, DelegateReturns, StopReturns, Attach, Join, HostSteps, Flush, Recheck,
     PumpTimer, PersonSpeaks, BeginTurn, Resume, ResolveUncertain, FirstInput, Admit, Seal, RunSettles, Begins
<1>6. CASE \E t \in Tasks : Watch(t)
  BY <1>3, <1>6 DEF Watch
<1> QED
  BY <1>1, <1>3, <1>4, <1>5, <1>6, NextIs DEF ManagerSteps

LEMMA PlannedOnce ==
  ASSUME JournalInv, NEW t \in Tasks, Settled(t)
  PROVE  Planned(t)
BY DEF JournalInv, Settled, Verdict, Terminal, Ends

\* What a record adds leaves a plan a plan.
LEMMA PlansStay == TypeOK /\ Next => \A t \in Tasks : rec[t] \subseteq rec'[t] \/ ~ Planned(t)
<1> SUFFICES ASSUME TypeOK, Next, NEW u \in Tasks PROVE rec[u] \subseteq rec'[u] \/ ~ Planned(u)
  OBVIOUS
<1>0. rec \in [Tasks -> SUBSET Records]
  BY DEF TypeOK, ManagerTypeOK
<1>1. ASSUME NEW t \in Tasks, TaskStep(t) PROVE rec[u] \subseteq rec'[u]
  BY <1>0, <1>1 DEF TaskStep, RunnerSpeaks, CommandEnds, RunnerDies, StartWindowPasses, PersonStops,
     StopCall,
     ShellStarts, AgentStarts, Start, Recorded, ShellStarted, AgentStarted, AwaitSettled, WaitEnds
<1>2. CASE Crash
  BY <1>0, <1>2 DEF Crash, Down
<1>3. CASE Delegate \/ DelegateReturns \/ StopReturns \/ HostSteps \/ Attach \/ Join \/ Boot
  BY <1>3 DEF Delegate, DelegateReturns, StopReturns, Attach, Join, Boot, HostSteps, Flush, Recheck,
     PumpTimer, PersonSpeaks, BeginTurn, Resume, ResolveUncertain, FirstInput, Admit, Seal, RunSettles, Begins
<1>4. CASE \E t \in Tasks : Watch(t)
  BY <1>4 DEF Watch, Poll
<1> QED
  BY <1>1, <1>2, <1>3, <1>4, NextIs DEF ManagerSteps

LEMMA CallStep == TypeOK /\ JournalInv /\ CallInv /\ Next => CallInv'
<1> SUFFICES ASSUME TypeOK, JournalInv, CallInv, Next PROVE CallInv'
  OBVIOUS
<1> DEFINE A(a) ==
       /\ wait[a] = "waiting" => act.kind = "delegate"
       /\ claim[a] # "none" => Planned(a) /\ call # "none"
       /\ act.kind = "delegate" /\ claim[a] # "none" => wait[a] = "claimed"
       /\ call = "result" /\ claim[a] # "none" => <<a, claim[a]>> \in carried
<1> DEFINE C ==
       /\ act # NoCall => run.st = "live"
       /\ act.kind = "delegate" => call = "open" /\ act.of = Agents
<1> DEFINE W == \A t \in Tasks : wait[t] = "claimed" => claim[t] # "none"
<1>0. /\ rec \in [Tasks -> SUBSET Records] /\ claim \in [Tasks -> Transitions \cup {"none"}]
      /\ wait \in [Tasks -> Waits] /\ C /\ W /\ (\A a \in Agents : A(a)) /\ Agents \subseteq Tasks
      /\ Shells \cap Agents = {} /\ NoCall.kind = "none" /\ "none" \notin Transitions
  BY TasksAssumption DEF TypeOK, ManagerTypeOK, CallInv, Tasks, NoCall, Transitions
<1>P. \A a \in Agents : Planned(a) => Planned(a)'
  BY <1>0, PlansStay DEF Planned
<1>1. ASSUME NEW t \in Tasks, TaskStep(t), UNCHANGED <<call, carried, run>> PROVE CallInv'
  <2>1. CASE RunnerSpeaks(t) \/ CommandEnds(t) \/ RunnerDies(t) \/ StartWindowPasses(t) \/ PersonStops(t)
    BY <1>0, <1>1, <1>P, <2>1 DEF CallInv, RunnerSpeaks, CommandEnds, RunnerDies, StartWindowPasses,
       PersonStops
  <2>2. CASE Working /\ ShellStarts(t)
    <3>1. /\ act = NoCall /\ t \in Shells /\ act' = [kind |-> "shell", of |-> {t}]
          /\ wait' = [wait EXCEPT ![t] = "spawning"] /\ UNCHANGED claim /\ run.st = "live"
      BY <1>0, <2>2 DEF ShellStarts, Startable, Start, Now, Working
    <3> QED
      BY <1>0, <1>1, <1>P, <3>1 DEF CallInv
  <2>3. CASE ShellStarted(t)
    <3>1. /\ act.kind = "shell" /\ act' = NoCall /\ UNCHANGED claim
          /\ \E w \in {"started", "left"} : wait' = [wait EXCEPT ![t] = w]
      BY <2>3 DEF ShellStarted, Spawned, SpawnTimesOut, Now
    <3> QED
      BY <1>0, <1>1, <1>P, <3>1 DEF CallInv
  <2>4. CASE AgentStarts(t)
    <3>1. ~ Planned(t) /\ t \in Agents /\ wait' = [wait EXCEPT ![t] = "spawning"] /\ UNCHANGED <<claim, act>>
      BY <2>4 DEF AgentStarts, Start, Now
    <3> QED
      BY <1>0, <1>1, <1>P, <3>1 DEF CallInv
  <2>5. CASE AgentStarted(t)
    <3>1. /\ UNCHANGED <<claim, act>> /\ wait[t] = "spawning"
          /\ \E w \in {"started", "left"} : wait' = [wait EXCEPT ![t] = w]
      BY <2>5 DEF AgentStarted, Spawned, SpawnTimesOut, Now
    <3> QED
      BY <1>0, <1>1, <1>P, <3>1 DEF CallInv
  <2>6. CASE Working /\ StopCall(t)
    <3>1. /\ act = NoCall /\ t \in Shells /\ act' = [kind |-> "stop", of |-> {t}] /\ run.st = "live"
          /\ wait' = [wait EXCEPT ![t] = "waiting"] /\ UNCHANGED claim
      BY <2>6 DEF StopCall, Now, Working
    <3> QED
      BY <1>0, <1>1, <1>P, <3>1 DEF CallInv
  <2>7. CASE AwaitSettled(t)
    <3>1. /\ wait[t] = "waiting" /\ claim' = [claim EXCEPT ![t] = EndName(t)]
          /\ wait' = [wait EXCEPT ![t] = "claimed"] /\ UNCHANGED act /\ Planned(t) /\ EndName(t) # "none"
      BY <1>0, <2>7, PlannedOnce, EndItemIs DEF AwaitSettled, Now
    <3> QED
      BY <1>0, <1>1, <1>P, <3>1 DEF CallInv
  <2>8. CASE WaitEnds(t)
    <3>1. wait[t] = "waiting" /\ wait' = [wait EXCEPT ![t] = "left"] /\ UNCHANGED <<claim, act>>
      BY <2>8 DEF WaitEnds, Now
    <3> QED
      BY <1>0, <1>1, <1>P, <3>1 DEF CallInv
  <2> QED
    BY <1>1, <2>1, <2>2, <2>3, <2>4, <2>5, <2>6, <2>7, <2>8 DEF TaskStep
<1>2. CASE (Join \/ Boot) /\ UNCHANGED <<call, carried, run>>
  BY <1>0, <1>2, <1>P DEF CallInv, Join, Boot
<1>3. CASE Delegate
  <2>1. /\ act' = [kind |-> "delegate", of |-> Agents] /\ call = "none" /\ call' = "open" /\ run.st = "live"
        /\ UNCHANGED <<wait, claim, carried, run>>
    BY <1>3 DEF Delegate, Working
  <2> QED
    BY <1>0, <1>P, <2>1 DEF CallInv
<1>4. CASE DelegateReturns
  <2>1. /\ act.kind = "delegate" /\ carried' = carried \cup Claimed /\ call' = "result" /\ act' = NoCall
        /\ UNCHANGED <<wait, claim, run>> /\ \A a \in act.of : wait[a] \in {"claimed", "left"}
    BY <1>4 DEF DelegateReturns, Over
  <2>2. \A a \in Agents : claim[a] # "none" => <<a, claim[a]>> \in Claimed
    BY <1>0, <2>1 DEF Claimed
  <2> QED
    BY <1>0, <1>P, <2>1, <2>2 DEF CallInv
<1>5. CASE StopReturns
  <2>1. /\ act.kind = "stop" /\ carried' = carried \cup Claimed /\ act' = NoCall
        /\ wait' = [t \in Tasks |-> IF t \in act.of THEN "left" ELSE wait[t]]
        /\ UNCHANGED <<claim, call, run>>
    BY <1>5 DEF StopReturns
  <2> QED
    BY <1>0, <1>P, <2>1 DEF CallInv
<1>6. CASE \E t \in Tasks : Watch(t)
  <2>1. UNCHANGED <<act, wait, claim, call, carried>>
    BY <1>6 DEF Watch, Poll
  <2>2. run'.st = run.st
    <3>1. PICK t \in Tasks : Watch(t)
      BY <1>6
    <3>2. CASE Announced(t) /\ t \in Agents
      <4>1. AgentEnded(t)
        BY <3>1, <3>2 DEF Watch, Hear
      <4>2. PICK g : Handing(g)
        BY <3>2, <4>1, AgentEndedGoes
      <4> QED
        BY <4>2 DEF Handing, TypeOK
    <3>3. CASE ~(Announced(t) /\ t \in Agents)
      BY <3>1, <3>3 DEF Watch, Hear
    <3> QED
      BY <3>2, <3>3
  <2> QED
    BY <1>0, <1>P, <2>1, <2>2 DEF CallInv
<1>7. CASE HostSteps
  <2>1. UNCHANGED <<act, wait, claim, carried, rec>>
    BY <1>7 DEF HostSteps, Flush, Recheck, PumpTimer, PersonSpeaks, BeginTurn, Resume,
       ResolveUncertain,
       FirstInput, Admit, Seal, RunSettles, Begins
  <2>2. act # NoCall => run'.st = "live"
    BY <1>0, <1>7 DEF HostSteps, Flush, Recheck, PumpTimer, PersonSpeaks, BeginTurn, Resume,
       ResolveUncertain,
       FirstInput, Admit, Seal, RunSettles, Begins, TypeOK
  <2>3. call' = call \/ (call = "open" /\ call' = "filled" /\ act = NoCall)
    BY <1>0, <1>7 DEF HostSteps, Flush, Recheck, PumpTimer, PersonSpeaks, BeginTurn, Resume,
       ResolveUncertain,
       FirstInput, Admit, Seal, RunSettles, Begins
  <2> QED
    BY <1>0, <1>P, <2>1, <2>2, <2>3 DEF CallInv
<1>8. CASE Crash
  <2>1. /\ act' = NoCall /\ UNCHANGED <<claim, call, carried>>
        /\ \A t \in Tasks : wait'[t] \in {"left", "none"}
    BY <1>8 DEF Crash, Down
  <2> QED
    BY <1>0, <1>P, <2>1 DEF CallInv
<1>9. CASE Attach
  <2>1. UNCHANGED <<act, wait, claim, call, carried, rec, run>>
    BY <1>9 DEF Attach
  <2> QED
    BY <1>0, <1>P, <2>1 DEF CallInv
<1> QED
  BY <1>1, <1>2, <1>3, <1>4, <1>5, <1>6, <1>7, <1>8, <1>9, NextIs DEF ManagerSteps

-----------------------------------------------------------------------------
(* The runs and what is in flight.                                         *)

LEMMA HeldRides ==
  TypeOK => /\ Rides(Held) = ItemsIn(queue) \cup BagItems(run.ingress)
            /\ Has(Held) = ItemsIn(pending) \cup Rides(Held)
            /\ Pending(Held) = ItemsIn(pending)
<1> SUFFICES ASSUME TypeOK PROVE /\ Rides(Held) = ItemsIn(queue) \cup BagItems(run.ingress)
                                 /\ Has(Held) = ItemsIn(pending) \cup Rides(Held)
                                 /\ Pending(Held) = ItemsIn(pending)
  OBVIOUS
<1>1. Held.pending \in Seq(Notices)
  BY HeldIs DEF HeldStates
<1> QED
  BY <1>1, HeldIs, PendingIs DEF Rides, Has

\* What a step hands on leaves a run what it is.
LEMMA HandingKeeps ==
  ASSUME TypeOK, HostInv, NEW g, Goes(Held, g), Handing(g), UNCHANGED up
  PROVE  /\ HostInv' /\ run'.st = run.st /\ run'.first = run.first /\ run'.ingress = g.ingress
         /\ queue' = g.queue /\ pending' = g.pending /\ inFlight' = g.inFlight /\ ended' = g.ended
<1>1. run \in Runs /\ Held.queue = queue /\ Held.ingress = run.ingress
  BY HeldIs DEF TypeOK, Runs
<1>2. /\ queue' = g.queue /\ pending' = g.pending /\ inFlight' = g.inFlight /\ ended' = g.ended
      /\ run' = [run EXCEPT !.ingress = g.ingress]
  BY DEF Handing, Becomes
<1>3. /\ run'.st = run.st /\ run'.by = run.by /\ run'.first = run.first /\ run'.ingress = g.ingress
      /\ ~ Live => run' = run
  BY <1>1, <1>2 DEF Runs, Goes
<1>4. ~ Live \/ (run.st # "none" /\ run # NoRun)
  BY DEF Live, NoRun
<1>5. Quiet(queue')
  BY <1>1, <1>2 DEF Goes, HostInv
<1>6. HostInv'
  BY <1>3, <1>4, <1>5 DEF HostInv, NoRun
<1> QED
  BY <1>2, <1>3, <1>6

LEMMA QuietTurns ==
  ASSUME NEW q \in Seq(Turns), Quiet(q)
  PROVE  /\ \A p \in Turns : (p.by # "wake" => p.items = Nothing) => Quiet(Append(q, p))
         /\ q # <<>> => Quiet(Tail(q)) /\ (Head(q).by # "wake" => Head(q).items = Nothing)
         /\ Quiet(<<>>)
<1>1. \A p \in Turns : ToSet(Append(q, p)) = ToSet(q) \cup {p}
  BY ElementsOf
<1>2. q # <<>> => ToSet(q) = {Head(q)} \cup ToSet(Tail(q))
  BY ElementsOf
<1>3. ToSet(<<>>) = {}
  BY ElementsOf
<1> QED
  BY <1>1, <1>2, <1>3 DEF Quiet

LEMMA WatchHands ==
  ASSUME TypeOK, NEW t \in Tasks, Watch(t)
  PROVE  \/ UNCHANGED <<pending, inFlight, waking, ended, queue, run>> /\ ~ (Announced(t) /\ t \in Agents)
         \/ /\ Announced(t) /\ t \in Agents /\ UNCHANGED buffer
            /\ \E g : /\ Goes(Held, g) /\ Grouped(Held, g) /\ Handing(g)
                      /\ Planned(t) => noticed[EndItem(t)] > 0 \/ g.ended[t] # "no" \/ Spoken(Held, g, t)
<1>1. CASE Announced(t) /\ t \in Agents
  <2>1. AgentEnded(t) /\ UNCHANGED buffer
    BY <1>1 DEF Watch, Hear
  <2> QED
    BY <1>1, <2>1, AgentEndedGoes
<1>2. CASE ~(Announced(t) /\ t \in Agents)
  BY <1>2 DEF Watch, Hear
<1> QED
  BY <1>1, <1>2

LEMMA HostStep == ~ MayDropWake /\ TypeOK /\ HostInv /\ Next => HostInv'
<1> SUFFICES ASSUME ~ MayDropWake, TypeOK, HostInv, Next PROVE HostInv'
  OBVIOUS
<1>0. run \in Runs /\ queue \in Seq(Turns) /\ Quiet(queue)
  BY DEF TypeOK, Runs, HostInv
<1>1. CASE ManagerSteps /\ UNCHANGED <<run, queue>>
  <2>1. up' = up \/ (up' # "up" /\ up # "up")
    BY <1>1 DEF ManagerSteps, Join, Boot, TaskStep, RunnerSpeaks, CommandEnds, RunnerDies,
       StartWindowPasses,
       PersonStops, ShellStarts, ShellStarted, AgentStarts, AgentStarted, Start, StopCall, AwaitSettled, WaitEnds
  <2> QED
    BY <1>1, <2>1 DEF HostInv
<1>2. CASE Delegate \/ DelegateReturns \/ StopReturns
  BY <1>2 DEF HostInv, Delegate, DelegateReturns, StopReturns
<1>3. ASSUME NEW t \in Tasks, Watch(t) PROVE HostInv'
  <2>1. UNCHANGED up
    BY <1>3 DEF Watch, Poll
  <2>2. CASE UNCHANGED <<pending, inFlight, waking, ended, queue, run>>
    BY <2>1, <2>2 DEF HostInv
  <2>3. CASE \E g : Goes(Held, g) /\ Handing(g)
    BY <2>1, <2>3, HandingKeeps
  <2> QED
    BY <1>3, <2>2, <2>3, WatchHands
<1>4. CASE Flush \/ Recheck
  <2>1. UNCHANGED up
    BY <1>4 DEF Flush, Recheck
  <2>2. PICK g : Goes(Held, g) /\ Handing(g)
    BY <1>4, FlushGoes, RecheckGoes
  <2> QED
    BY <2>1, <2>2, HandingKeeps
<1>5. CASE PumpTimer
  <2>1. PICK g : Goes(Held, g) /\ Becomes(g) /\ run' = run
    BY <1>5, PumpTimerGoes
  <2>2. Quiet(queue')
    BY <1>0, <2>1, HeldIs DEF Goes, Becomes
  <2>3. UNCHANGED up
    BY <1>5 DEF PumpTimer
  <2> QED
    BY <2>1, <2>2, <2>3 DEF HostInv
<1>6. CASE PersonSpeaks
  <2> DEFINE p == [by |-> "person", items |-> Nothing]
  <2>1. p \in Turns /\ p.items = Nothing
    BY InNothing DEF Turns
  <2> HIDE DEF p
  <2>2. Quiet(Append(queue, p))
    BY <1>0, <2>1, QuietTurns
  <2>3. queue' = Append(queue, p) /\ UNCHANGED <<run, up>>
    BY <1>6 DEF PersonSpeaks, p
  <2> QED
    BY <2>2, <2>3 DEF HostInv
<1>7. ASSUME NEW st \in {"begun", "live"}, NEW by, NEW first, Begins(st, by, first), Quiet(queue'),
             by # "wake" => first = Nothing, st = "live" => first = Nothing
      PROVE  HostInv'
  <2>1. /\ up = "up" /\ up' = up /\ run'.st = st /\ run'.by = by /\ run'.first = first
    BY <1>7 DEF Begins
  <2> QED
    BY <1>7, <2>1 DEF HostInv
<1>8. CASE BeginTurn
  <2>1. Quiet(queue') /\ (Head(queue).by # "wake" => Head(queue).items = Nothing)
    BY <1>0, <1>8, QuietTurns DEF BeginTurn
  <2> QED
    BY <1>7, <1>8, <2>1 DEF BeginTurn
<1>9. CASE Resume
  BY <1>0, <1>7, <1>9 DEF Resume
<1>10. CASE ResolveUncertain
  BY <1>10 DEF HostInv, ResolveUncertain
<1>11. CASE FirstInput \/ Admit \/ Seal
  <2>1. up = "up" /\ up' = up /\ UNCHANGED queue /\ run.st \in {"begun", "live"} /\ run'.st \in {"live", "sealed"}
    BY <1>0, <1>11 DEF FirstInput, Admit, Seal, Runs
  <2>2. run'.first = Nothing
    <3>1. CASE FirstInput
      BY <1>0, <3>1 DEF FirstInput, Runs
    <3>2. CASE Admit \/ Seal
      BY <1>0, <3>2 DEF Admit, Seal, Runs, HostInv
    <3> QED
      BY <1>11, <3>1, <3>2
  <2> QED
    BY <1>0, <2>1, <2>2 DEF HostInv
<1>12. CASE RunSettles
  <2>1. PICK g : Goes(Returned, g) /\ Becomes(g) /\ run' = NoRun
    BY <1>12, SettlesGoes
  <2>2. Quiet(queue')
    BY <1>0, <1>12, <2>1, SettlesGoes DEF Goes, Becomes
  <2> QED
    BY <2>1, <2>2 DEF HostInv, NoRun
<1>13. CASE Crash
  <2>1. run' = NoRun /\ queue' = <<>>
    BY <1>13 DEF Crash
  <2> QED
    BY <1>0, <2>1, QuietTurns DEF HostInv, NoRun
<1>14. CASE Attach
  <2>1. PICK s, g : s.queue = queue /\ Goes(s, g) /\ Becomes(g)
    BY <1>14, AttachGoes
  <2>2. Quiet(queue') /\ run' = run /\ up # "up" /\ up' = "up"
    BY <1>0, <1>14, <2>1 DEF Goes, Becomes, Attach
  <2> QED
    BY <2>2 DEF HostInv
<1> QED
  BY <1>1, <1>2, <1>3, <1>4, <1>5, <1>6, <1>8, <1>9, <1>10, <1>11, <1>12, <1>13, <1>14, NextIs
     DEF HostSteps

\* What a step puts in flight rides.
LEMMA HandingFlies ==
  ASSUME TypeOK, HostInv, FlightInv, NEW g, Goes(Held, g), Handing(g), UNCHANGED up
  PROVE  FlightInv' /\ Riding \subseteq Riding' /\ Has(g) \subseteq ItemsIn(pending') \cup Riding'
         /\ ItemsIn(pending) \subseteq ItemsIn(pending') \cup Riding'
<1>1. /\ run'.st = run.st /\ run'.first = run.first /\ run'.ingress = g.ingress
      /\ queue' = g.queue /\ pending' = g.pending /\ inFlight' = g.inFlight
  BY HandingKeeps
<1>2. Riding = Rides(Held) \cup In(run.first) /\ Riding' = Rides(g) \cup In(run.first)
  BY <1>1, HeldRides DEF Riding, Rides
<1>3. Held.inFlight = inFlight
  BY HeldIs
<1>4. Has(g) = ItemsIn(pending') \cup Rides(g)
  BY <1>1 DEF Has
<1>5. ItemsIn(pending) \subseteq Has(g)
  BY HeldRides DEF Goes
<1> QED
  BY <1>1, <1>2, <1>3, <1>4, <1>5 DEF FlightInv, Goes

LEMMA BeginsFlies ==
  ASSUME TypeOK, HostInv, FlightInv, NEW st, NEW by, NEW first, Begins(st, by, first),
         ItemsIn(queue) \subseteq ItemsIn(queue') \cup In(first)
  PROVE  FlightInv' /\ Riding \subseteq Riding' /\ ItemsIn(pending) \subseteq Riding'
<1> DEFINE b == [k \in DOMAIN pending |-> pending[k].items]
<1>1. pending \in Seq(Notices)
  BY DEF TypeOK
<1>2. BagItems(b) = ItemsIn(pending)
  BY <1>1, HeldAsBags
<1> HIDE DEF b
<1>3. /\ run = NoRun /\ run' = [st |-> st, by |-> by, first |-> first, ingress |-> b]
      /\ inFlight' = inFlight \cup Pending(Held)
  BY DEF Begins, HostInv, b
<1>4. Riding = ItemsIn(queue)
  BY <1>3, BagsIn, InNothing DEF Riding, NoRun
<1>5. run'.first = first /\ run'.ingress = b
  BY <1>3
<1>6. Riding' = ItemsIn(queue') \cup BagItems(b) \cup In(first)
  BY <1>5 DEF Riding
<1> QED
  BY <1>2, <1>3, <1>4, <1>6, HeldRides DEF FlightInv

\* An agent whose group is delivered is told, on its way, or its claim was
\* filled in.
LEMMA SpokenReaches ==
  ASSUME TypeOK, CallInv, FlightInv, NEW s, NEW r, NEW a \in Agents, Spoken(s, r, a),
         s.inFlight \subseteq inFlight
  PROVE  EndItem(a) \in Reach \cup Has(r) \/ FilledClaim(a)
<1>1. EndItem(a) \in Items /\ EndName(a) # "none" /\ a \in Tasks
  BY EndItemIs DEF Transitions, Tasks
<1>2. CASE ToldByResult(a)
  <2>1. claim[a] = EndName(a) /\ call \in {"result", "filled"}
    BY <1>2 DEF ToldByResult
  <2>2. call = "result" => EndItem(a) \in carried
    BY <1>1, <2>1 DEF CallInv, EndItem
  <2> QED
    BY <2>1, <2>2 DEF Reach, FilledClaim
<1>3. CASE noticed[EndItem(a)] # 0
  <2>1. noticed[EndItem(a)] \in Nat
    BY <1>1 DEF TypeOK, Bags
  <2>2. noticed[EndItem(a)] > 0
    BY <1>3, <2>1
  <2> QED
    BY <1>1, <2>2 DEF In, Reach
<1>4. CASE EndItem(a) \in s.inFlight \/ EndItem(a) \in Has(r)
  BY <1>4 DEF FlightInv, Reach
<1> QED
  BY <1>2, <1>3, <1>4 DEF Spoken

\* A step of the delivery keeps what is in flight riding, and forgets
\* nothing it has been told.
Advances ==
  /\ FlightInv' /\ Reach \subseteq Reach'
  /\ \A a \in Agents : Planned(a) /\ ended[a] # "no" =>
       ended'[a] # "no" \/ EndItem(a) \in Reach' \/ FilledClaim(a)

LEMMA GroupedAdvances ==
  ASSUME TypeOK, CallInv, FlightInv, NEW s, NEW g, Grouped(s, g), s.ended = ended,
         s.inFlight \subseteq inFlight,
         FlightInv', ended' = g.ended, Reach \subseteq Reach', Has(g) \subseteq Reach'
  PROVE  Advances
<1>1. ASSUME NEW a \in Agents, Planned(a), ended[a] # "no"
      PROVE  ended'[a] # "no" \/ EndItem(a) \in Reach' \/ FilledClaim(a)
  <2>1. CASE g.ended[a] # "no"
    BY <2>1
  <2>2. CASE Spoken(s, g, a)
    BY <2>2, SpokenReaches
  <2> QED
    BY <1>1, <2>1, <2>2 DEF Grouped
<1> QED
  BY <1>1 DEF Advances

LEMMA HandingAdvances ==
  ASSUME TypeOK, CallInv, HostInv, FlightInv, NEW g, Goes(Held, g), Handing(g),
         UNCHANGED <<up, noticed, carried>>,
         In(buffer) \subseteq Reach'
  PROVE  /\ FlightInv' /\ Reach \subseteq Reach' /\ Has(g) \subseteq Reach'
         /\ Grouped(Held, g) => Advances
         /\ g.ended = ended => Advances
<1>1. /\ FlightInv' /\ Riding \subseteq Riding' /\ Has(g) \subseteq ItemsIn(pending') \cup Riding'
      /\ ItemsIn(pending) \subseteq ItemsIn(pending') \cup Riding'
  BY HandingFlies
<1>2. Reach \subseteq Reach' /\ Has(g) \subseteq Reach'
  BY <1>1 DEF Reach
<1>3. ended' = g.ended /\ Held.ended = ended /\ Held.inFlight = inFlight
  BY HeldIs, HandingKeeps
<1> QED
  BY <1>1, <1>2, <1>3, GroupedAdvances DEF Advances

LEMMA HostAdvances ==
  ASSUME TypeOK, CallInv, HostInv, FlightInv, HostSteps
  PROVE  Advances
<1>0. run \in Runs /\ queue \in Seq(Turns) /\ run.ingress \in Seq(Bags) /\ noticed \in Bags /\ run.first \in Bags
  BY DEF TypeOK, Runs
<1>1. CASE Flush
  <2>1. PICK g : /\ Goes(Held, g) /\ g.ended = ended /\ Handing(g)
                 /\ \A i \in In(buffer) : noticed[i] > 0 \/ i \in inFlight \/ i \in Has(g)
    BY <1>1, FlushGoes
  <2>2. UNCHANGED <<up, noticed, carried>>
    BY <1>1 DEF Flush
  <2>3. /\ Riding \subseteq Riding' /\ Has(g) \subseteq ItemsIn(pending') \cup Riding'
    BY <2>1, <2>2, HandingFlies
  <2>4. In(buffer) \subseteq Reach'
    <3>1. \A i \in In(buffer) : noticed[i] > 0 => i \in In(noticed)
      BY DEF In
    <3> QED
      BY <2>1, <2>2, <2>3, <3>1 DEF Reach, FlightInv
  <2> QED
    BY <2>1, <2>2, <2>4, HandingAdvances
<1>2. CASE Recheck
  <2>1. PICK g : Goes(Held, g) /\ Grouped(Held, g) /\ Handing(g)
    BY <1>2, RecheckGoes
  <2>2. UNCHANGED <<up, noticed, carried, buffer>>
    BY <1>2 DEF Recheck
  <2>3. In(buffer) \subseteq Reach'
    BY <2>2 DEF Reach
  <2> QED
    BY <2>1, <2>2, <2>3, HandingAdvances
<1>3. CASE PumpTimer
  <2>1. PICK g : Goes(Held, g) /\ g.ended = ended /\ Becomes(g) /\ run' = run /\ g.ingress = run.ingress
    BY <1>3, PumpTimerGoes
  <2>2. UNCHANGED <<up, noticed, carried, buffer>>
    BY <1>3 DEF PumpTimer
  <2>3. [run EXCEPT !.ingress = run.ingress] = run
    BY <1>0 DEF Runs
  <2>4. Handing(g)
    BY <2>1, <2>3 DEF Handing
  <2>5. In(buffer) \subseteq Reach'
    BY <2>2 DEF Reach
  <2> QED
    BY <2>1, <2>2, <2>4, <2>5, HandingAdvances
<1>4. CASE PersonSpeaks
  <2> DEFINE p == [by |-> "person", items |-> Nothing]
  <2>1. p \in Turns
    BY InNothing DEF Turns
  <2> HIDE DEF p
  <2>2. ItemsIn(queue) \subseteq ItemsIn(Append(queue, p))
    BY <1>0, <2>1, NoticesIn
  <2>3. queue' = Append(queue, p) /\ UNCHANGED <<run, inFlight, pending, buffer, noticed, carried, ended>>
    BY <1>4 DEF PersonSpeaks, p
  <2>4. FlightInv' /\ Reach \subseteq Reach'
    BY <2>2, <2>3 DEF FlightInv, Riding, Reach
  <2> QED
    BY <2>3, <2>4 DEF Advances
<1>5. ASSUME NEW st, NEW by, NEW first, Begins(st, by, first), ItemsIn(queue) \subseteq ItemsIn(queue') \cup In(first)
      PROVE  Advances
  <2>1. FlightInv' /\ Riding \subseteq Riding' /\ ItemsIn(pending) \subseteq Riding'
    BY <1>5, BeginsFlies
  <2>2. UNCHANGED <<noticed, carried, buffer, ended>>
    BY <1>5 DEF Begins
  <2> QED
    BY <2>1, <2>2 DEF Advances, Reach
<1>6. CASE BeginTurn
  <2>1. ItemsIn(queue) = In(Head(queue).items) \cup ItemsIn(Tail(queue))
    BY <1>0, <1>6, NoticesIn DEF BeginTurn
  <2> QED
    BY <1>5, <1>6, <2>1 DEF BeginTurn
<1>7. CASE Resume
  BY <1>5, <1>7 DEF Resume
<1>8. CASE ResolveUncertain
  BY <1>8 DEF ResolveUncertain, Advances, FlightInv, Reach, Riding
<1>9. CASE FirstInput
  <2>1. /\ run'.first = Nothing /\ run'.ingress = run.ingress /\ noticed' = Both(noticed, run.first)
        /\ inFlight' = inFlight \ In(run.first) /\ UNCHANGED <<carried, pending, buffer, queue, ended>>
    BY <1>0, <1>9 DEF FirstInput, Lands, Runs
  <2>2. In(noticed') = In(noticed) \cup In(run.first)
    BY <1>0, <2>1, InBoth
  <2>3. FlightInv' /\ Reach \subseteq Reach'
    BY <2>1, <2>2, InNothing DEF FlightInv, Riding, Reach
  <2> QED
    BY <2>1, <2>3 DEF Advances
<1>10. CASE Admit
  <2>1. /\ run'.first = run.first /\ run'.ingress = <<>> /\ noticed' = Both(noticed, All(run.ingress))
        /\ inFlight' = inFlight \ In(All(run.ingress)) /\ UNCHANGED <<carried, pending, buffer, queue, ended>>
    BY <1>0, <1>10 DEF Admit, Lands, Runs
  <2>2. All(run.ingress) \in Bags /\ In(All(run.ingress)) = BagItems(run.ingress)
    BY <1>0, InAll
  <2>3. In(noticed') = In(noticed) \cup BagItems(run.ingress)
    BY <1>0, <2>1, <2>2, InBoth
  <2>4. FlightInv' /\ Reach \subseteq Reach'
    BY <2>1, <2>2, <2>3, BagsIn DEF FlightInv, Riding, Reach
  <2> QED
    BY <2>1, <2>4 DEF Advances
<1>11. CASE Seal
  <2>1. /\ run'.first = run.first /\ run'.ingress = run.ingress
        /\ UNCHANGED <<noticed, carried, pending, buffer, queue, ended, inFlight>>
    BY <1>0, <1>11 DEF Seal, Runs
  <2> QED
    BY <2>1 DEF Advances, FlightInv, Riding, Reach
<1>12. CASE RunSettles
  <2>1. PICK g : Goes(Returned, g) /\ Grouped(Returned, g) /\ Becomes(g) /\ run' = NoRun
    BY <1>12, SettlesGoes
  <2>2. /\ Returned \in HeldStates /\ Has(Held) \subseteq Has(Returned)
        /\ Returned.ended = ended /\ Returned.queue = queue
        /\ Returned.inFlight = inFlight \ BagItems(run.ingress) /\ Returned.ingress = <<>>
    BY <1>12, SettlesGoes
  <2>3. run.first = Nothing /\ ~ Live /\ UNCHANGED <<noticed, carried, buffer>>
    BY <1>12 DEF RunSettles, HostInv, Live
  <2>4. /\ pending' = g.pending /\ inFlight' = g.inFlight /\ ended' = g.ended /\ queue' = g.queue
        /\ run'.ingress = <<>> /\ run'.first = Nothing /\ g.ingress = <<>>
    BY <2>1, <2>2, <2>3 DEF Becomes, NoRun, Goes
  <2>5. BagItems(<<>>) = {} /\ In(Nothing) = {}
    BY BagsIn, InNothing
  <2>6. Riding' = Rides(g)
    BY <2>4, <2>5 DEF Riding, Rides
  <2>7. inFlight \ BagItems(run.ingress) \subseteq Rides(Returned)
    BY <2>2, <2>3, <2>5 DEF FlightInv, Riding, Rides
  <2>8. FlightInv'
    BY <2>1, <2>2, <2>4, <2>6, <2>7 DEF FlightInv, Goes
  <2>9. Has(g) = ItemsIn(pending') \cup Riding' /\ Has(Held) \subseteq Has(g)
    BY <2>1, <2>2, <2>4, <2>6 DEF Has, Goes
  <2>10. Reach \subseteq Reach' /\ Has(g) \subseteq Reach'
    BY <2>3, <2>5, <2>9, HeldRides DEF Reach, Riding
  <2> QED
    BY <2>1, <2>2, <2>4, <2>8, <2>10, GroupedAdvances
<1> QED
  BY <1>1, <1>2, <1>3, <1>4, <1>6, <1>7, <1>8, <1>9, <1>10, <1>11, <1>12 DEF HostSteps

LEMMA FlightStep == TypeOK /\ CallInv /\ HostInv /\ FlightInv /\ Next => FlightInv'
<1> SUFFICES ASSUME TypeOK, CallInv, HostInv, FlightInv, Next PROVE FlightInv'
  OBVIOUS
<1>1. CASE UNCHANGED <<run, queue, inFlight>>
  BY <1>1 DEF FlightInv, Riding
<1>2. CASE Delegate \/ DelegateReturns \/ StopReturns
  BY <1>1, <1>2 DEF Delegate, DelegateReturns, StopReturns
<1>3. ASSUME NEW t \in Tasks, Watch(t) PROVE FlightInv'
  <2>1. UNCHANGED up
    BY <1>3 DEF Watch, Poll
  <2> QED
    BY <1>1, <1>3, <2>1, WatchHands, HandingFlies
<1>4. CASE Crash
  BY <1>4 DEF Crash, FlightInv
<1>5. CASE Attach
  <2>1. PICK s, g : /\ s \in HeldStates /\ s.inFlight = inFlight /\ s.queue = queue /\ s.ingress = run.ingress
                    /\ Goes(s, g) /\ Becomes(g)
    BY <1>5, AttachGoes
  <2>2. run' = run /\ run = NoRun
    BY <1>5 DEF Attach, HostInv
  <2>3. g.ingress = run.ingress /\ Rides(s) \cup In(run.first) = Riding
    BY <2>1, <2>2 DEF Goes, Live, NoRun, Riding, Rides
  <2>4. Riding' = Rides(g) \cup In(run.first) /\ inFlight' = g.inFlight
    BY <2>1, <2>2, <2>3 DEF Riding, Rides, Becomes
  <2> QED
    BY <2>1, <2>3, <2>4 DEF FlightInv, Goes
<1> QED
  BY <1>1, <1>2, <1>3, <1>4, <1>5, HostAdvances, NextIs DEF Advances

-----------------------------------------------------------------------------
(* No announced end is forgotten.                                          *)

\* An end announced after a step of the tasks was announced before it, under
\* the same name, and its claim stands; or a call claims it.
Stands(t) ==
  /\ Announcing(t) /\ EndName(t)' = EndName(t)
  /\ claim[t] = EndName(t) => claim'[t] = claim[t]
  /\ wait[t] = "claimed" => wait'[t] = "claimed"

LEMMA TaskStands ==
  ASSUME TypeOK, JournalInv, NEW u \in Tasks, TaskStep(u), NEW t \in Tasks, Announcing(t)'
  PROVE  Stands(t) \/ ClaimedByCall(t)'
<1> DEFINE J(v) ==
      /\ rec[v] # {} \/ v \in late => Planned(v)
      /\ proc[v] = "up" => Planned(v) /\ ~ Terminal(v) /\ ("runner" \in rec[v] => "command" \in rec[v])
      /\ seen[v] = "ended" => Terminal(v)
      /\ seen[v] = "unknown" => "command" \in rec[v] /\ proc[v] # "up"
      /\ seen[v] = "not_run" => v \in late \/ "runner" \in rec[v]
<1>0. /\ rec \in [Tasks -> SUBSET Records] /\ proc \in [Tasks -> {"none", "up", "dead"}]
      /\ seen \in [Tasks -> Ends \cup {"live"}] /\ wait \in [Tasks -> Waits] /\ J(t)
      /\ claim \in [Tasks -> Transitions \cup {"none"}]
  BY DEF TypeOK, ManagerTypeOK, JournalInv
<1>1. ASSUME /\ rec'[t] = rec[t] /\ proc'[t] = proc[t] /\ seen'[t] = seen[t] /\ claim'[t] = claim[t]
             /\ (t \in late') = (t \in late) /\ (wait[t] = "claimed" => wait'[t] = "claimed") /\ up' = up
      PROVE  Stands(t)
  BY <1>1 DEF Stands, Announcing, Settled, Verdict, EndName, Terminal, Planned
<1>2. CASE u # t
  BY <1>0, <1>1, <1>2 DEF TaskStep, RunnerSpeaks, CommandEnds, RunnerDies, StartWindowPasses,
     PersonStops, StopCall,
     ShellStarts, AgentStarts, Start, Recorded, ShellStarted, AgentStarted, Spawned, SpawnTimesOut,
     AwaitSettled, WaitEnds, Now
<1>3. CASE u = t
  <2>0. TaskStep(t)
    BY <1>3
  <2>1. CASE RunnerSpeaks(t)
    BY <1>0, <2>1 DEF RunnerSpeaks, Announcing, Settled, Verdict, Terminal, Planned, Ends
  <2>2. CASE CommandEnds(t)
    BY <1>0, <2>2 DEF CommandEnds, Announcing, Settled, Verdict, Terminal, Planned, Ends
  <2>3. CASE RunnerDies(t)
    <3>1. CASE "command" \in rec[t]
      BY <1>0, <2>3, <3>1 DEF RunnerDies, Announcing, Settled, Verdict, Terminal, Planned, Ends
    <3>2. CASE "command" \notin rec[t]
      <4>1. /\ rec'[t] = rec[t] \/ rec'[t] = rec[t] \cup {"runner"}
            /\ UNCHANGED <<claim, late, up, seen, wait>> /\ proc'[t] = "dead" /\ proc[t] = "up"
        BY <1>0, <2>3, <3>2 DEF RunnerDies
      <4>2. Verdict(t)' \in {"not_run", "starting"}
        BY <1>0, <3>2, <4>1 DEF Verdict, Terminal, Planned
      <4>3. seen[t] = "not_run" /\ Verdict(t)' = "not_run" /\ up = "up"
        BY <4>1, <4>2 DEF Announcing, Settled, Ends
      <4>4. t \in late /\ Verdict(t) = "not_run"
        <5>1. ~ Terminal(t) /\ Planned(t) /\ "runner" \notin rec[t] /\ t \in late
          BY <1>0, <3>2, <4>1, <4>3
        <5> QED
          BY <3>2, <5>1 DEF Verdict
      <4>5. EndName(t) = "failed" /\ EndName(t)' = "failed"
        BY <4>3, <4>4 DEF EndName
      <4> QED
        BY <4>1, <4>3, <4>4, <4>5 DEF Stands, Announcing, Settled, Ends
    <3> QED
      BY <3>1, <3>2
  <2>4. CASE StartWindowPasses(t)
    <3>1. /\ UNCHANGED <<rec, claim, proc, up, seen, wait>> /\ "runner" \notin rec[t] /\ t \notin late /\ Planned(t)
      BY <2>4 DEF StartWindowPasses
    <3>2. seen[t] # "not_run"
      BY <1>0, <3>1
    <3>3. Verdict(t)' # "not_run"
      BY <3>1, <3>2 DEF Announcing
    <3>4. Verdict(t)' = Verdict(t)
      BY <3>1, <3>3 DEF Verdict, Terminal, Planned
    <3> QED
      BY <3>1, <3>4 DEF Stands, Announcing, Settled, EndName
  <2>5. CASE PersonStops(t) \/ StopCall(t)
    <3>1. Stoppable(t) /\ rec'[t] = rec[t] \cup {"stop"} /\ proc' = proc
      BY <1>0, <2>5 DEF PersonStops, StopCall, Recorded
    <3>2. Verdict(t)' = "running"
      BY <1>0, <3>1 DEF Verdict, Terminal, Planned, Stoppable
    <3> QED
      BY <3>2 DEF Announcing, Settled, Ends
  <2>6. CASE ShellStarts(t) \/ AgentStarts(t)
    <3>1. ~ Planned(t) /\ rec'[t] = rec[t] \cup {"planned"} /\ UNCHANGED <<seen, late>> /\ proc'[t] = "up"
      BY <1>0, <2>6 DEF ShellStarts, AgentStarts, Start, Recorded
    <3>2. rec[t] = {} /\ t \notin late
      BY <1>0, <3>1
    <3>3. rec'[t] = {"planned"}
      BY <3>1, <3>2
    <3>4. Verdict(t)' = "starting"
      BY <3>1, <3>2, <3>3 DEF Verdict, Terminal, Planned
    <3> QED
      BY <3>4 DEF Announcing, Settled, Ends
  <2>7. CASE ShellStarted(t) \/ AgentStarted(t)
    <3>1. UNCHANGED <<durable, up>> /\ wait[t] = "spawning" /\ (seen'[t] = "live" \/ UNCHANGED seen)
      BY <1>0, <2>7 DEF ShellStarted, AgentStarted, Spawned, SpawnTimesOut
    <3>2. seen'[t] # "live"
      BY DEF Announcing, Settled, Ends
    <3> QED
      BY <1>1, <3>1, <3>2
  <2>8. CASE AwaitSettled(t)
    <3>1. claim'[t] = EndName(t) /\ wait'[t] = "claimed" /\ UNCHANGED <<rec, proc, late>>
      BY <1>0, <2>8 DEF AwaitSettled, Now
    <3>2. EndName(t)' = EndName(t)
      BY <3>1 DEF EndName, Verdict, Terminal, Planned
    <3> QED
      BY <3>1, <3>2 DEF ClaimedByCall
  <2>9. CASE WaitEnds(t)
    <3>1. UNCHANGED <<durable, up, seen>> /\ wait[t] = "waiting"
      BY <2>9 DEF WaitEnds
    <3> QED
      BY <1>1, <3>1
  <2> QED
    BY <2>0, <2>1, <2>2, <2>3, <2>4, <2>5, <2>6, <2>7, <2>8, <2>9 DEF TaskStep
<1> QED
  BY <1>2, <1>3

LEMMA ManagerStands ==
  ASSUME TypeOK, JournalInv, ManagerSteps, NEW t \in Tasks, Announcing(t)'
  PROVE  Stands(t) \/ ClaimedByCall(t)'
<1>1. CASE Join
  <2>1. UNCHANGED <<rec, claim, proc, late, up, seen>> /\ (wait[t] = "claimed" => wait'[t] = "claimed")
    BY <1>1 DEF Join
  <2> QED
    BY <2>1 DEF Stands, Announcing, Settled, Verdict, EndName, Terminal, Planned
<1>2. CASE Boot
  BY <1>2 DEF Boot, Announcing
<1> QED
  BY <1>1, <1>2, TaskStands DEF ManagerSteps

\* The tasks are left alone.
LEMMA SameEnds ==
  ASSUME UNCHANGED <<rec, proc, late>>, NEW t
  PROVE  Settled(t)' = Settled(t) /\ Verdict(t)' = Verdict(t) /\ EndName(t)' = EndName(t) /\ EndItem(t)' = EndItem(t)
BY DEF Settled, Verdict, EndName, EndItem, Terminal, Planned

\* What covers an end covers it after a step that keeps its claim, reaches
\* what was reached and holds the agents that waited.
LEMMA CoverStays ==
  ASSUME NEW t \in Tasks, Covered(t), EndName(t)' = EndName(t), Reach \subseteq Reach',
         claim[t] = EndName(t) => claim'[t] = claim[t],
         ClaimedByCall(t) => wait'[t] = "claimed" \/ EndItem(t) \in Reach',
         call = "filled" => call' = "filled",
         InItsGroup(t) => ended'[t] # "no" \/ EndItem(t) \in Reach' \/ FilledClaim(t)
  PROVE  Covered(t)'
<1>1. EndItem(t)' = EndItem(t)
  BY DEF EndItem
<1>2. CASE EndItem(t) \in Reach'
  BY <1>1, <1>2 DEF Covered
<1>3. CASE InItsGroup(t) /\ ended'[t] # "no"
  BY <1>3 DEF Covered, InItsGroup
<1>4. CASE ClaimedByCall(t) /\ wait'[t] = "claimed"
  BY <1>4 DEF Covered, ClaimedByCall
<1>5. CASE LostClaim(t)
  BY <1>5 DEF Covered, LostClaim
<1>6. CASE FilledClaim(t)
  BY <1>6 DEF Covered, FilledClaim
<1> QED
  BY <1>2, <1>3, <1>4, <1>5, <1>6 DEF Covered

LEMMA CoverStep ==
  TypeOK /\ JournalInv /\ CallInv /\ HostInv /\ FlightInv /\ CoverInv /\ Next => CoverInv'
<1> SUFFICES ASSUME TypeOK, JournalInv, CallInv, HostInv, FlightInv, CoverInv, Next,
                    NEW t \in Tasks, Announcing(t)'
             PROVE  Covered(t)'
  BY DEF CoverInv
<1>0. /\ buffer \in Bags /\ noticed \in Bags /\ queue \in Seq(Turns) /\ run \in Runs
      /\ EndItem(t) \in Items /\ EndName(t) \in Transitions /\ Tasks = Shells \cup Agents
  BY EndItemIs DEF TypeOK, Runs, Tasks
<1>1. Announcing(t) => Covered(t) /\ Planned(t)
  BY PlannedOnce DEF CoverInv, Announcing
<1>2. CASE ManagerSteps /\ UNCHANGED <<logVars, deliveryVars, run, queue, persons, twice>>
  <2>1. Reach' = Reach /\ UNCHANGED <<call, ended>>
    BY <1>2 DEF Reach, Riding
  <2>2. CASE ClaimedByCall(t)'
    BY <2>2 DEF Covered
  <2>3. CASE Stands(t)
    BY <1>1, <2>1, <2>3, CoverStays DEF Stands, ClaimedByCall, InItsGroup
  <2> QED
    BY <1>2, <2>2, <2>3, ManagerStands
<1>3. CASE Delegate
  <2>1. UNCHANGED <<rec, proc, late, claim, up, seen, wait, noticed, carried, buffer, pending, run, queue, ended>>
    BY <1>3 DEF Delegate
  <2>2. Reach' = Reach /\ Announcing(t) /\ EndName(t)' = EndName(t)
    BY <2>1, SameEnds DEF Reach, Riding, Announcing
  <2>3. call # "filled"
    BY <1>3 DEF Delegate
  <2> QED
    BY <1>1, <2>1, <2>2, <2>3, CoverStays DEF ClaimedByCall, InItsGroup
<1>4. CASE DelegateReturns
  <2>1. /\ UNCHANGED <<rec, proc, late, claim, up, seen, wait, noticed, buffer, pending, run, queue, ended>>
        /\ carried' = carried \cup Claimed /\ act.kind = "delegate"
    BY <1>4 DEF DelegateReturns
  <2>2. Reach \subseteq Reach' /\ Announcing(t) /\ EndName(t)' = EndName(t)
    BY <2>1, SameEnds DEF Reach, Riding, Announcing
  <2>3. call # "filled"
    BY <2>1 DEF CallInv
  <2> QED
    BY <1>1, <2>1, <2>2, <2>3, CoverStays DEF ClaimedByCall, InItsGroup
<1>5. CASE StopReturns
  <2>1. /\ UNCHANGED <<rec, proc, late, claim, up, seen, call, noticed, buffer, pending, run, queue, ended>>
        /\ carried' = carried \cup Claimed
        /\ wait'[t] = IF t \in act.of THEN "left" ELSE wait[t]
    BY <1>5 DEF StopReturns
  <2>2. Reach \subseteq Reach' /\ carried' \subseteq Reach' /\ Announcing(t) /\ EndName(t)' = EndName(t)
    BY <2>1, SameEnds DEF Reach, Riding, Announcing
  <2>3. ClaimedByCall(t) => wait'[t] = "claimed" \/ EndItem(t) \in carried'
    BY <2>1 DEF ClaimedByCall, Claimed, EndItem
  <2> QED
    BY <1>1, <2>1, <2>2, <2>3, CoverStays DEF InItsGroup
<1>6. CASE HostSteps
  <2>1. UNCHANGED <<rec, proc, late, claim, up, seen, wait>>
    BY <1>6 DEF HostSteps, Flush, Recheck, PumpTimer, PersonSpeaks, BeginTurn, Resume,
       ResolveUncertain,
       FirstInput, Admit, Seal, RunSettles, Begins
  <2>2. call = "filled" => call' = "filled"
    BY <1>6 DEF HostSteps, Flush, Recheck, PumpTimer, PersonSpeaks, BeginTurn, Resume,
       ResolveUncertain,
       FirstInput, Admit, Seal, RunSettles, Begins
  <2>3. Announcing(t) /\ EndName(t)' = EndName(t)
    BY <2>1, SameEnds DEF Announcing
  <2>4. Reach \subseteq Reach' /\ (InItsGroup(t) => ended'[t] # "no" \/ EndItem(t) \in Reach' \/ FilledClaim(t))
    BY <1>1, <1>6, <2>3, HostAdvances DEF Advances, InItsGroup
  <2> QED
    BY <1>1, <2>1, <2>2, <2>3, <2>4, CoverStays DEF ClaimedByCall
<1>7. ASSUME NEW u \in Tasks, Watch(u) PROVE Covered(t)'
  <2>1. UNCHANGED <<rec, proc, late, claim, up, wait, act, call, noticed, carried>> /\ seen' = [seen EXCEPT ![u] = Sees(u)]
    BY <1>7 DEF Watch, Poll
  <2>2. EndName(t)' = EndName(t) /\ EndItem(t)' = EndItem(t) /\ Settled(t) /\ up = "up"
    BY <2>1, SameEnds DEF Announcing
  <2>3. Planned(t)
    BY <2>2, PlannedOnce
  <2>4. CASE Announced(u) /\ u \in Agents
    <3>1. PICK g : /\ Goes(Held, g) /\ Grouped(Held, g) /\ Handing(g)
                   /\ Planned(u) => noticed[EndItem(u)] > 0 \/ g.ended[u] # "no" \/ Spoken(Held, g, u)
      BY <1>7, <2>4, WatchHands
    <3>2. UNCHANGED buffer
      BY <1>7, <2>4, WatchHands
    <3>3. In(buffer) \subseteq Reach'
      BY <3>2 DEF Reach
    <3>4. Advances /\ Has(g) \subseteq Reach'
      BY <2>1, <3>1, <3>3, HandingAdvances
    <3>5. CASE t # u
      <4>1. Announcing(t)
        BY <2>1, <2>2, <3>5, SameEnds DEF Announcing, TypeOK, ManagerTypeOK
      <4> QED
        BY <1>1, <2>1, <2>2, <3>4, <4>1, CoverStays DEF Advances, ClaimedByCall, InItsGroup
    <3>6. CASE t = u
      <4>1. CASE noticed[EndItem(t)] > 0
        <5>1. EndItem(t) \in Reach'
          BY <1>0, <2>1, <4>1 DEF In, Reach
        <5> QED
          BY <2>2, <5>1 DEF Covered
      <4>2. CASE g.ended[t] # "no"
        <5>1. ended'[t] # "no" /\ t \in Agents
          BY <2>4, <3>1, <3>6, <4>2 DEF Handing, Becomes
        <5> QED
          BY <5>1 DEF Covered, InItsGroup
      <4>3. CASE Spoken(Held, g, t)
        <5>1. EndItem(t) \in Reach \cup Has(g) \/ FilledClaim(t)
          BY <2>4, <3>6, <4>3, HeldIs, SpokenReaches
        <5>2. CASE EndItem(t) \in Reach'
          BY <2>2, <5>2 DEF Covered
        <5>3. CASE FilledClaim(t)
          BY <2>1, <2>2, <5>3 DEF Covered, FilledClaim
        <5> QED
          BY <3>4, <5>1, <5>2, <5>3 DEF Advances
      <4> QED
        BY <2>3, <3>1, <3>6, <4>1, <4>2, <4>3
    <3> QED
      BY <3>5, <3>6
  <2>5. CASE ~ (Announced(u) /\ u \in Agents)
    <3>1. UNCHANGED <<pending, inFlight, waking, ended, queue, run>>
      <4>1. ~ (Announced(u) /\ u \in Agents)
        BY <2>5
      <4> QED
        BY <1>7, <4>1, WatchHands
    <3>2. UNCHANGED buffer \/ (Announced(u) /\ buffer' = Both(buffer, Once({EndItem(u)})))
      BY <1>7, <2>5 DEF Watch, Hear
    <3>3. EndItem(u) \in Items /\ In(Once({EndItem(u)})) = {EndItem(u)} /\ Once({EndItem(u)}) \in Bags
      BY EndItemIs, InOnce
    <3>4. In(buffer) \subseteq In(buffer')
      BY <1>0, <3>2, <3>3, InBoth
    <3>5. Reach \subseteq Reach' /\ In(buffer') \subseteq Reach'
      BY <2>1, <3>1, <3>4 DEF Reach, Riding
    <3>6. CASE t # u
      <4>1. Announcing(t)
        BY <2>1, <2>2, <3>6, SameEnds DEF Announcing, TypeOK, ManagerTypeOK
      <4> QED
        BY <1>1, <2>1, <2>2, <3>1, <3>5, <4>1, CoverStays DEF ClaimedByCall, InItsGroup
    <3>7. CASE t = u
      <4>1. Announced(u)
        BY <2>2, <3>7 DEF Announced
      <4>2. buffer' = Both(buffer, Once({EndItem(u)}))
        BY <1>7, <2>5, <4>1 DEF Watch, Hear
      <4>3. EndItem(t) \in In(buffer')
        BY <1>0, <3>3, <3>7, <4>2, InBoth
      <4> QED
        BY <2>2, <3>5, <4>3 DEF Covered
    <3> QED
      BY <3>6, <3>7
  <2> QED
    BY <2>4, <2>5
<1>8. CASE Crash
  BY <1>8 DEF Crash, Down, Announcing
<1>9. CASE Attach
  <2>1. PICK s, g :
           /\ s \in HeldStates /\ Has(Held) \subseteq Has(s) /\ s.inFlight = inFlight
           /\ s.ingress = run.ingress
           /\ \A a \in Agents : Missed(a) => s.ended[a] # "no"
           /\ \A v \in Shells : Settled(v) /\ noticed[EndItem(v)] = 0 /\ claim[v] # EndName(v) =>
                EndItem(v) \in Has(s)
           /\ Goes(s, g) /\ Grouped(s, g) /\ Becomes(g)
    BY <1>9, AttachGoes
  <2>2. UNCHANGED <<rec, proc, late, claim, wait, call, noticed, carried, buffer, run>> /\ run = NoRun
    BY <1>9 DEF Attach, HostInv
  <2>3. /\ EndName(t)' = EndName(t) /\ EndItem(t)' = EndItem(t) /\ Settled(t)
    BY <2>2, SameEnds DEF Announcing
  <2>4. Planned(t)
    BY <2>3, PlannedOnce
  <2>5. /\ pending' = g.pending /\ queue' = g.queue /\ ended' = g.ended /\ g.ingress = run.ingress
        /\ Has(s) \subseteq Has(g)
    <3>1. ~ Live
      BY <2>2 DEF Live, NoRun
    <3> QED
      BY <2>1, <3>1 DEF Becomes, Goes
  <2>6. Has(g) \subseteq Reach'
    BY <2>2, <2>5 DEF Reach, Has, Riding, Rides
  <2>7. Reach \subseteq Reach'
    <3>1. ItemsIn(pending) \cup ItemsIn(queue) \cup BagItems(run.ingress) \subseteq Reach'
      BY <2>1, <2>5, <2>6, HeldRides
    <3> QED
      BY <2>2, <3>1 DEF Reach, Riding
  <2>8. CASE noticed[EndItem(t)] # 0
    <3>1. noticed[EndItem(t)] \in Nat
      BY <1>0 DEF Bags
    <3>2. noticed[EndItem(t)] > 0
      BY <2>8, <3>1
    <3>3. EndItem(t) \in Reach'
      BY <1>0, <2>2, <3>2 DEF In, Reach
    <3> QED
      BY <2>3, <3>3 DEF Covered
  <2>9. CASE noticed[EndItem(t)] = 0 /\ t \in Shells
    <3>1. CASE claim[t] = EndName(t)
      BY <2>2, <2>3, <2>9, <3>1 DEF Covered, LostClaim
    <3>2. CASE claim[t] # EndName(t)
      <4>1. EndItem(t) \in Reach'
        BY <2>1, <2>3, <2>5, <2>6, <2>9, <3>2
      <4> QED
        BY <2>3, <4>1 DEF Covered
    <3> QED
      BY <3>1, <3>2
  <2>10. CASE noticed[EndItem(t)] = 0 /\ t \in Agents
    <3>1. CASE g.ended[t] # "no"
      BY <2>5, <2>10, <3>1 DEF Covered, InItsGroup
    <3>2. CASE Spoken(s, g, t)
      <4>1. EndItem(t) \in Reach \cup Has(g) \/ FilledClaim(t)
        BY <2>1, <2>10, <3>2, SpokenReaches
      <4>2. CASE EndItem(t) \in Reach'
        BY <2>3, <4>2 DEF Covered
      <4>3. CASE FilledClaim(t)
        BY <2>2, <2>3, <4>3 DEF Covered, FilledClaim
      <4> QED
        BY <2>6, <2>7, <4>1, <4>2, <4>3
    <3>3. CASE ToldByResult(t)
      BY <3>2, <3>3 DEF Spoken
    <3> QED
      BY <2>1, <2>3, <2>4, <2>10, <3>1, <3>2, <3>3 DEF Missed, Grouped
  <2> QED
    BY <1>0, <2>8, <2>9, <2>10
<1> QED
  BY <1>2, <1>3, <1>4, <1>5, <1>6, <1>7, <1>8, <1>9, NextIs

-----------------------------------------------------------------------------
(* How often an item is in what is held, in a queue, in an ingress.        *)

Bundled(s) == [k \in DOMAIN s |-> s[k].items]
Many(s, i) == All(Bundled(s))[i]

\* X: notices or turns.
Carriers(X) == \A p \in X : p.items \in Bags

LEMMA CarriersAre == Carriers(Notices) /\ Carriers(Turns)
BY DEF Carriers, Notices, Turns

LEMMA BundledIs ==
  ASSUME NEW X, Carriers(X)
  PROVE  /\ Bundled(<<>>) = <<>>
         /\ \A s \in Seq(X) : Bundled(s) \in Seq(Bags)
         /\ \A s \in Seq(X), p \in X : Bundled(Append(s, p)) = Append(Bundled(s), p.items)
<1>1. Bundled(<<>>) = <<>>
  BY DEF Bundled
<1>2. ASSUME NEW s \in Seq(X) PROVE /\ Bundled(s) \in Seq(Bags) /\ Len(Bundled(s)) = Len(s)
                                    /\ \A k \in 1..Len(s) : Bundled(s)[k] = s[k].items
  <2>1. DOMAIN s = 1..Len(s) /\ Len(s) \in Nat /\ \A k \in 1..Len(s) : s[k] \in X
    BY LenProperties, ElementOfSeq
  <2>2. Bundled(s) = [k \in 1..Len(s) |-> s[k].items]
    BY <2>1 DEF Bundled
  <2>3. Bundled(s) \in [1..Len(s) -> Bags]
    BY <2>1, <2>2 DEF Carriers
  <2>4. Bundled(s) \in Seq(Bags)
    BY <2>1, <2>3, SeqDef
  <2>5. DOMAIN Bundled(s) = 1..Len(s)
    BY <2>3
  <2>6. Len(Bundled(s)) = Len(s)
    BY <2>1, <2>4, <2>5, LenProperties
  <2> QED
    BY <2>2, <2>4, <2>6
<1>3. ASSUME NEW s \in Seq(X), NEW p \in X PROVE Bundled(Append(s, p)) = Append(Bundled(s), p.items)
  <2> DEFINE t == Append(s, p)
             b == Bundled(s)
             c == Bundled(t)
             d == Append(b, p.items)
  <2>1. /\ t \in Seq(X) /\ Len(t) = Len(s) + 1 /\ Len(s) \in Nat
        /\ \A k \in 1..Len(s) : t[k] = s[k]
        /\ t[Len(s) + 1] = p
    BY LenProperties, AppendProperties
  <2>2. p.items \in Bags
    BY DEF Carriers
  <2>3. /\ b \in Seq(Bags) /\ Len(b) = Len(s) /\ \A k \in 1..Len(s) : b[k] = s[k].items
        /\ c \in Seq(Bags) /\ Len(c) = Len(t) /\ \A k \in 1..Len(t) : c[k] = t[k].items
    BY <1>2, <2>1
  <2> HIDE DEF b, c, t
  <2>4. /\ d \in Seq(Bags) /\ Len(d) = Len(s) + 1
        /\ \A k \in 1..Len(s) : d[k] = b[k]
        /\ d[Len(s) + 1] = p.items
    BY <2>2, <2>3, AppendProperties
  <2> HIDE DEF d
  <2>5. \A k \in 1..Len(d) : c[k] = d[k]
    <3> TAKE k \in 1..Len(d)
    <3>1. k \in 1..Len(t) /\ (k \in 1..Len(s) \/ k = Len(s) + 1)
      BY <2>1, <2>4
    <3> QED
      BY <2>1, <2>3, <2>4, <3>1
  <2>6. c = d
    BY <2>1, <2>3, <2>4, <2>5, SeqEqual
  <2> QED
    BY <2>6 DEF b, c, d, t
<1> QED
  BY <1>1, <1>2, <1>3

LEMMA ManyOne ==
  ASSUME NEW X, Carriers(X), NEW i \in Items
  PROVE  /\ Many(<<>>, i) = 0
         /\ \A s \in Seq(X) : Many(s, i) \in Nat
         /\ \A s \in Seq(X), p \in X : p.items[i] \in Nat /\ Many(Append(s, p), i) = Many(s, i) + p.items[i]
<1>1. Many(<<>>, i) = 0
  <2>1. Bundled(<<>>) = <<>>
    BY DEF Bundled
  <2> QED
    BY <2>1, SumEmpty DEF Many, Nothing
<1>2. ASSUME NEW s \in Seq(X) PROVE Many(s, i) \in Nat
  <2>1. All(Bundled(s)) \in Bags
    BY BundledIs, InAll
  <2> QED
    BY <2>1 DEF Many, Bags
<1>3. ASSUME NEW s \in Seq(X), NEW p \in X
      PROVE  p.items[i] \in Nat /\ Many(Append(s, p), i) = Many(s, i) + p.items[i]
  <2>1. p.items \in Bags /\ Bundled(s) \in Seq(Bags) /\ Bundled(Append(s, p)) = Append(Bundled(s), p.items)
    BY BundledIs DEF Carriers
  <2>2. All(Bundled(Append(s, p))) = Both(All(Bundled(s)), p.items)
    BY <2>1, SumIs
  <2> QED
    BY <2>1, <2>2 DEF Many, Both, Bags
<1> QED
  BY <1>1, <1>2, <1>3

LEMMA ManyBoth ==
  ASSUME NEW X, Carriers(X), NEW i \in Items, NEW s \in Seq(X)
  PROVE  /\ \A t \in Seq(X) : s \o t \in Seq(X) /\ Many(s \o t, i) = Many(s, i) + Many(t, i)
         /\ s # <<>> => /\ Head(s) \in X /\ Tail(s) \in Seq(X) /\ Head(s).items[i] \in Nat
                        /\ Many(s, i) = Head(s).items[i] + Many(Tail(s), i)
<1>1. ASSUME NEW r \in Seq(X)
      PROVE  \A t \in Seq(X) : r \o t \in Seq(X) /\ Many(r \o t, i) = Many(r, i) + Many(t, i)
  <2> DEFINE G == {t \in Seq(X) : Many(r \o t, i) = Many(r, i) + Many(t, i)}
  <2>1. <<>> \in G
    <3>1. <<>> \in Seq(X) /\ r \o <<>> = r
      BY ConcatEmptySeq
    <3> QED
      BY <3>1, ManyOne
  <2>2. ASSUME NEW t \in Seq(X), NEW e \in X, t \in G PROVE Append(t, e) \in G
    <3>1. r \o Append(t, e) = Append(r \o t, e) /\ r \o t \in Seq(X) /\ Append(t, e) \in Seq(X)
      <4>1. <<e>> \in Seq(X) /\ r \o t \in Seq(X)
        BY ConcatProperties
      <4>2. Append(t, e) = t \o <<e>> /\ Append(r \o t, e) = (r \o t) \o <<e>>
        BY <4>1, AppendIsConcat
      <4>3. (r \o t) \o <<e>> = r \o (t \o <<e>>)
        BY <4>1, ConcatAssociative
      <4> QED
        BY <4>1, <4>2, <4>3, AppendProperties
    <3>2. /\ Many(Append(r \o t, e), i) = Many(r \o t, i) + e.items[i] /\ e.items[i] \in Nat
          /\ Many(Append(t, e), i) = Many(t, i) + e.items[i]
      BY <3>1, ManyOne
    <3>3. Many(r \o t, i) = Many(r, i) + Many(t, i)
      BY <2>2
    <3>4. Many(r, i) \in Nat /\ Many(t, i) \in Nat
      BY ManyOne
    <3>5. \A x, y, z \in Nat : (x + y) + z = x + (y + z)
      OBVIOUS
    <3>6. e.items[i] \in Nat /\ Many(Append(r \o t, e), i) = (Many(r, i) + Many(t, i)) + e.items[i]
      BY <3>2, <3>3
    <3>7. Many(r \o Append(t, e), i) = Many(r, i) + Many(Append(t, e), i)
      BY <3>1, <3>2, <3>4, <3>5, <3>6
    <3> QED
      BY <3>1, <3>7
  <2> HIDE DEF G
  <2>3. \A t \in Seq(X) : t \in G
    BY <2>1, <2>2, ByAppend
  <2> QED
    BY <2>3, ConcatProperties DEF G
<1>2. \A r \in Seq(X) : r # <<>> =>
        /\ Head(r) \in X /\ Tail(r) \in Seq(X) /\ Head(r).items[i] \in Nat
        /\ Many(r, i) = Head(r).items[i] + Many(Tail(r), i)
  <2> DEFINE P(r) == /\ Head(r) \in X /\ Tail(r) \in Seq(X) /\ Head(r).items[i] \in Nat
                     /\ Many(r, i) = Head(r).items[i] + Many(Tail(r), i)
             G == {r \in Seq(X) : r # <<>> => P(r)}
  <2>1. <<>> \in G
    OBVIOUS
  <2>2. ASSUME NEW r \in Seq(X), NEW e \in X, r \in G PROVE Append(r, e) \in G
    <3>1. /\ Head(Append(r, e)) = IF r = <<>> THEN e ELSE Head(r)
          /\ Tail(Append(r, e)) = IF r = <<>> THEN <<>> ELSE Append(Tail(r), e)
          /\ Append(r, e) \in Seq(X)
      BY HeadTailAppend, AppendProperties
    <3>2. /\ Many(Append(r, e), i) = Many(r, i) + e.items[i] /\ e.items[i] \in Nat /\ Many(r, i) \in Nat
          /\ Many(<<>>, i) = 0
      BY ManyOne
    <3>3. CASE r = <<>>
      <4>1. Many(Append(r, e), i) = e.items[i] + Many(<<>>, i) /\ <<>> \in Seq(X)
        BY <3>2, <3>3
      <4>2. P(Append(r, e))
        BY <3>1, <3>2, <3>3, <4>1
      <4> QED
        BY <3>1, <4>2
    <3>4. CASE r # <<>>
      <4>1. P(r)
        BY <2>2, <3>4
      <4> DEFINE v == Tail(r)
      <4>7. v \in Seq(X)
        BY <4>1
      <4> HIDE DEF v
      <4>8. Append(v, e) \in Seq(X) /\ Many(Append(v, e), i) = Many(v, i) + e.items[i]
        BY <4>7, ManyOne, AppendProperties
      <4>2. Append(Tail(r), e) \in Seq(X) /\ Many(Append(Tail(r), e), i) = Many(Tail(r), i) + e.items[i]
        BY <4>8 DEF v
      <4>3. Many(Tail(r), i) \in Nat
        BY <4>1, ManyOne
      <4>4. \A x, y, z \in Nat : (x + y) + z = x + (y + z)
        OBVIOUS
      <4>5. Many(Append(r, e), i) = Head(r).items[i] + Many(Append(Tail(r), e), i)
        BY <3>2, <4>1, <4>2, <4>3, <4>4
      <4>6. P(Append(r, e))
        BY <3>1, <3>4, <4>1, <4>2, <4>5
      <4> QED
        BY <3>1, <4>6
    <3> QED
      BY <3>3, <3>4
  <2> HIDE DEF G
  <2>3. \A r \in Seq(X) : r \in G
    BY <2>1, <2>2, ByAppend
  <2> QED
    BY <2>3 DEF G
<1> QED
  BY <1>1, <1>2

LEMMA ManyKept ==
  ASSUME NEW S, NEW i \in Items
  PROVE  \A s \in Seq(Notices) : Many(Keep(s, S), i) <= Many(s, i)
<1> DEFINE G == {s \in Seq(Notices) : Many(Keep(s, S), i) <= Many(s, i)}
<1>1. <<>> \in G
  <2>1. <<>> \in Seq(Notices)
    OBVIOUS
  <2> QED
    BY <2>1, KeepEmpty, ManyOne, CarriersAre
<1>2. ASSUME NEW s \in Seq(Notices), NEW e \in Notices, s \in G PROVE Append(s, e) \in G
  <2>1. /\ Keep(Append(s, e), S) = IF e \in S THEN Append(Keep(s, S), e) ELSE Keep(s, S)
        /\ Keep(s, S) \in Seq(Notices) /\ Append(s, e) \in Seq(Notices)
    BY KeepIs, KeptElements, AppendProperties
  <2>2. /\ Many(Append(s, e), i) = Many(s, i) + e.items[i] /\ e.items[i] \in Nat /\ Many(s, i) \in Nat
        /\ Many(Append(Keep(s, S), e), i) = Many(Keep(s, S), i) + e.items[i] /\ Many(Keep(s, S), i) \in Nat
    BY <2>1, ManyOne, CarriersAre
  <2>3. Many(Keep(s, S), i) <= Many(s, i)
    BY <1>2
  <2>4. \A x, y, z \in Nat : x <= y => x + z <= y + z /\ x <= y + z
    OBVIOUS
  <2>5. CASE e \in S
    BY <2>1, <2>2, <2>3, <2>4, <2>5
  <2>6. CASE e \notin S
    BY <2>1, <2>2, <2>3, <2>4, <2>6
  <2> QED
    BY <2>5, <2>6
<1> HIDE DEF G
<1>3. \A s \in Seq(Notices) : s \in G
  BY <1>1, <1>2, ByAppend
<1> QED
  BY <1>3 DEF G

\* An item is there when it is counted.
LEMMA ManyIn ==
  ASSUME NEW X, Carriers(X), NEW s \in Seq(X), NEW i \in Items
  PROVE  i \in ItemsIn(s) <=> Many(s, i) > 0
<1>1. All(Bundled(s)) \in Bags /\ In(All(Bundled(s))) = BagItems(Bundled(s))
  BY BundledIs, InAll
<1>2. ToSet(Bundled(s)) = {s[k].items : k \in DOMAIN s}
  BY DEF ToSet, Bundled
<1>3. ToSet(s) = {s[k] : k \in DOMAIN s}
  BY DEF ToSet
<1>4. BagItems(Bundled(s)) = ItemsIn(s)
  <2>1. \A j : j \in BagItems(Bundled(s)) <=> \E k \in DOMAIN s : j \in In(s[k].items)
    BY <1>2 DEF BagItems
  <2>2. \A j : j \in ItemsIn(s) <=> \E k \in DOMAIN s : j \in In(s[k].items)
    BY <1>3 DEF ItemsIn
  <2> QED
    BY <2>1, <2>2
<1> QED
  BY <1>1, <1>4 DEF Many, In

\* The same of an ingress.
LEMMA IngressIs ==
  ASSUME NEW g \in Seq(Bags), NEW i \in Items
  PROVE  /\ All(g)[i] \in Nat /\ (i \in BagItems(g) <=> All(g)[i] > 0)
         /\ \A b \in Bags : b[i] \in Nat /\ All(Append(g, b))[i] = All(g)[i] + b[i]
         /\ All(<<>>)[i] = 0
<1>1. All(g) \in Bags /\ In(All(g)) = BagItems(g)
  BY InAll
<1>2. \A b \in Bags : All(Append(g, b)) = Both(All(g), b)
  BY SumIs
<1> QED
  BY <1>1, <1>2, SumEmpty DEF In, Bags, Both, Nothing

\* What is held rides a run's first admission; an ingress is held again.
LEMMA ManyMoved ==
  ASSUME NEW i \in Items
  PROVE  /\ \A p \in Seq(Notices) : /\ [k \in DOMAIN p |-> p[k].items] \in Seq(Bags)
                                    /\ All([k \in DOMAIN p |-> p[k].items])[i] = Many(p, i)
                                    /\ ToSet([k \in DOMAIN p |-> p[k].items]) = {q.items : q \in ToSet(p)}
         /\ \A g \in Seq(Bags) :
              LET back == [k \in DOMAIN g |-> [items |-> g[k], wake |-> AnyWakes(g[k])]]
              IN Many(back, i) = All(g)[i] /\ {q.items : q \in ToSet(back)} = ToSet(g)
<1>1. ASSUME NEW p \in Seq(Notices)
      PROVE  /\ [k \in DOMAIN p |-> p[k].items] \in Seq(Bags)
             /\ All([k \in DOMAIN p |-> p[k].items])[i] = Many(p, i)
             /\ ToSet([k \in DOMAIN p |-> p[k].items]) = {q.items : q \in ToSet(p)}
  <2>1. [k \in DOMAIN p |-> p[k].items] \in Seq(Bags)
    BY HeldAsBags
  <2>2. ToSet([k \in DOMAIN p |-> p[k].items]) = {p[k].items : k \in DOMAIN p} /\ ToSet(p) = {p[k] : k \in DOMAIN p}
    BY DEF ToSet
  <2> QED
    BY <2>1, <2>2 DEF Many, Bundled
<1>2. ASSUME NEW g \in Seq(Bags)
      PROVE  LET back == [k \in DOMAIN g |-> [items |-> g[k], wake |-> AnyWakes(g[k])]]
             IN Many(back, i) = All(g)[i] /\ {q.items : q \in ToSet(back)} = ToSet(g)
  <2> DEFINE back == [k \in DOMAIN g |-> [items |-> g[k], wake |-> AnyWakes(g[k])]]
  <2>1. DOMAIN back = DOMAIN g /\ \A k \in DOMAIN g : back[k].items = g[k]
    OBVIOUS
  <2>2. g = [k \in DOMAIN g |-> g[k]]
    <3>1. g \in [1..Len(g) -> Bags]
      BY SeqDef, LenProperties
    <3> QED
      BY <3>1
  <2>3. Bundled(back) = [k \in DOMAIN g |-> g[k]]
    BY <2>1 DEF Bundled
  <2>4. ToSet(back) = {back[k] : k \in DOMAIN g} /\ ToSet(g) = {g[k] : k \in DOMAIN g}
    BY DEF ToSet
  <2> HIDE DEF back
  <2>5. {q.items : q \in ToSet(back)} = ToSet(g)
    BY <2>1, <2>4
  <2>6. Many(back, i) = All(g)[i]
    BY <2>2, <2>3 DEF Many
  <2> QED
    BY <2>5, <2>6 DEF back
<1> QED
  BY <1>1, <1>2

-----------------------------------------------------------------------------
(* What keeps an end out of two places.                                    *)

\* The tasks an end of which is in one place, and the names that stay.
NoSlow == \A a \in Agents : ~ Slow(a)
Plains == {t \in Tasks : t \notin twice \cup SlowGroup}
Final == {"stopped", "unknown"}
Firm(i) == ~ Slow(i[1]) \/ i[2] \in Final

\* A told end is the task's, no call has claimed it and none will.
Said(i) == Planned(i[1]) /\ (Firm(i) => Settled(i[1]) /\ EndItem(i[1]) = i)
Free(i, P) ==
  /\ i[1] \in P => claim[i[1]] # i[2]
  /\ i[1] \in P /\ i[1] \in Agents => wait[i[1]] \notin {"spawning", "started", "waiting"}
  /\ i[1] \in Shells /\ wait[i[1]] = "waiting" => i[2] \notin Final

Count(s, i) == Many(s.pending, i) + Many(s.queue, i) + All(s.ingress)[i]

\* What is held and handed on has each plain item once, and what rides is in
\* flight.
Sound(s, P) ==
  /\ \A i \in Items : i[1] \in P => noticed[i] + run.first[i] + Count(s, i) <= 1
  /\ \A i \in Has(s) : Said(i) /\ Free(i, P)
  /\ \A i \in Rides(s) \cup In(run.first) : i[1] \in P => i \in s.inFlight

\* An agent's end is held on its own, or the group's is told.
Bundles(s) == {p.items : p \in ToSet(s.pending)} \cup ToSet(s.ingress)
Lone(b) == \A i \in In(b) : i[1] \in Agents => In(b) = {i}
Singly(s) == \A b \in Bundles(s) : Lone(b)
Kept(s) == s.inFlight \cup ItemsIn(s.pending)
Done(s) ==
  /\ GroupComplete /\ \A a \in Agents : s.ended[a] = "no"
  /\ \A a \in Members : ToldByResult(a) \/ EndItem(a) \in In(noticed) \cup Kept(s)
Grouping(s) == NoSlow => Singly(s) \/ Done(s)

LEMMA CountIs ==
  ASSUME NEW s \in HeldStates, NEW i \in Items
  PROVE  /\ Many(s.pending, i) \in Nat /\ Many(s.queue, i) \in Nat /\ All(s.ingress)[i] \in Nat
         /\ Count(s, i) \in Nat
         /\ i \in Has(s) <=> Count(s, i) > 0
         /\ i \in Rides(s) <=> Many(s.queue, i) + All(s.ingress)[i] > 0
<1>1. s.pending \in Seq(Notices) /\ s.queue \in Seq(Turns) /\ s.ingress \in Seq(Bags)
  BY DEF HeldStates
<1>2. /\ Many(s.pending, i) \in Nat /\ (i \in ItemsIn(s.pending) <=> Many(s.pending, i) > 0)
      /\ Many(s.queue, i) \in Nat /\ (i \in ItemsIn(s.queue) <=> Many(s.queue, i) > 0)
  BY <1>1, ManyOne, ManyIn, CarriersAre
<1>3. All(s.ingress)[i] \in Nat /\ (i \in BagItems(s.ingress) <=> All(s.ingress)[i] > 0)
  BY <1>1, IngressIs
<1>4. \A x, y, z \in Nat : /\ x + y + z \in Nat /\ (x + y + z > 0 <=> x > 0 \/ y > 0 \/ z > 0)
                           /\ (y + z > 0 <=> y > 0 \/ z > 0)
  OBVIOUS
<1>5. Count(s, i) \in Nat /\ (Count(s, i) > 0 <=> Many(s.pending, i) > 0 \/ Many(s.queue, i) > 0 \/ All(s.ingress)[i] > 0)
  BY <1>2, <1>3, <1>4 DEF Count
<1>6. i \in Rides(s) <=> Many(s.queue, i) > 0 \/ All(s.ingress)[i] > 0
  BY <1>2, <1>3 DEF Rides
<1> QED
  BY <1>2, <1>3, <1>4, <1>5, <1>6 DEF Has

LEMMA HasItems == \A s \in HeldStates : Has(s) \subseteq Items /\ Rides(s) \subseteq Items
<1> SUFFICES ASSUME NEW s \in HeldStates PROVE Has(s) \subseteq Items
  BY DEF Has
<1>1. \A b : In(b) \subseteq Items
  BY DEF In
<1> QED
  BY <1>1 DEF Has, Rides, ItemsIn, BagItems

\* A bag that brings only what is nowhere yet.
Brings(s, b, P) == \A i \in In(b) :
  /\ Said(i) /\ Free(i, P)
  /\ i[1] \in P => b[i] = 1 /\ noticed[i] = 0 /\ run.first[i] = 0 /\ i \notin Has(s)

LEMMA SoundFrom ==
  ASSUME TypeOK, NEW P, NEW s \in HeldStates, NEW r \in HeldStates, NEW b \in Bags, Sound(s, P),
         Brings(s, b, P),
         \A i \in Items : Count(r, i) <= Count(s, i) + b[i],
         s.inFlight \subseteq r.inFlight, Rides(r) \subseteq Rides(s) \cup r.inFlight
  PROVE  Sound(r, P)
<1>1. ASSUME NEW i \in Items
      PROVE  /\ Count(s, i) \in Nat /\ Count(r, i) \in Nat /\ b[i] \in Nat /\ noticed[i] \in Nat /\ run.first[i] \in Nat
             /\ (i \in Has(s) <=> Count(s, i) > 0) /\ (i \in Has(r) <=> Count(r, i) > 0)
             /\ Count(r, i) <= Count(s, i) + b[i]
  BY CountIs DEF TypeOK, Bags
<1>2. ASSUME NEW i \in Items, i[1] \in P PROVE noticed[i] + run.first[i] + Count(r, i) <= 1
  <2>1. noticed[i] + run.first[i] + Count(s, i) <= 1
    BY <1>2 DEF Sound
  <2>2. CASE i \in In(b)
    <3>1. b[i] = 1 /\ noticed[i] = 0 /\ run.first[i] = 0 /\ ~ (Count(s, i) > 0)
      BY <1>1, <1>2, <2>2 DEF Brings
    <3> QED
      BY <1>1, <3>1
  <2>3. CASE i \notin In(b)
    <3>1. b[i] = 0
      BY <1>1, <2>3 DEF In
    <3> QED
      BY <1>1, <2>1, <3>1
  <2> QED
    BY <2>2, <2>3
<1>3. Has(r) \subseteq Has(s) \cup In(b)
  <2> SUFFICES ASSUME NEW i \in Has(r), i \notin In(b) PROVE i \in Has(s)
    OBVIOUS
  <2>1. i \in Items
    BY HasItems
  <2>2. b[i] = 0
    BY <1>1, <2>1 DEF In
  <2> QED
    BY <1>1, <2>1, <2>2
<1>4. \A i \in Has(r) : Said(i) /\ Free(i, P)
  BY <1>3 DEF Sound, Brings
<1>5. \A i \in Rides(r) \cup In(run.first) : i[1] \in P => i \in r.inFlight
  BY DEF Sound
<1> QED
  BY <1>2, <1>4, <1>5 DEF Sound

\* What a step of the delivery leaves of the group's state.
Grows(s, r) == r.ended = s.ended /\ Kept(s) \subseteq Kept(r)

LEMMA DoneStays == \A s, r : Grows(s, r) /\ Done(s) => Done(r)
BY DEF Grows, Done

LEMMA HoldsSound ==
  ASSUME TypeOK, NEW P, NEW s \in HeldStates, NEW b \in Bags, NEW w \in BOOLEAN, Sound(s, P),
         Brings(s, b, P)
  PROVE  LET r == Holds(s, b, w) IN
         /\ r \in HeldStates /\ Sound(r, P) /\ Grows(s, r) /\ In(b) \subseteq Kept(r)
         /\ Singly(s) /\ Lone(b) => Singly(r)
<1> DEFINE n == [items |-> b, wake |-> w]
           r == Holds(s, b, w)
<1>1. s.pending \in Seq(Notices) /\ n \in Notices /\ n.items = b
  BY DEF HeldStates, Notices
<1>2. /\ r.pending = Append(s.pending, n) /\ r.inFlight = s.inFlight /\ r.queue = s.queue
      /\ r.ended = s.ended /\ r.ingress = s.ingress
  BY DEF Holds, HeldStates
<1>3. r \in HeldStates /\ In(b) \subseteq ItemsIn(r.pending) /\ ItemsIn(s.pending) \subseteq ItemsIn(r.pending)
  BY HoldsGoes DEF Goes
<1> HIDE DEF r, n
<1>4. ASSUME NEW i \in Items PROVE Count(r, i) <= Count(s, i) + b[i]
  <2>1. Many(r.pending, i) = Many(s.pending, i) + b[i] /\ b[i] \in Nat
    BY <1>1, <1>2, ManyOne, CarriersAre
  <2>2. Many(s.pending, i) \in Nat /\ Many(s.queue, i) \in Nat /\ All(s.ingress)[i] \in Nat
    BY CountIs
  <2>3. \A x, y, z, k \in Nat : (x + k) + y + z <= (x + y + z) + k
    OBVIOUS
  <2> QED
    BY <1>2, <2>1, <2>2, <2>3 DEF Count
<1>5. Sound(r, P)
  <2>1. Rides(r) = Rides(s)
    BY <1>2 DEF Rides
  <2> QED
    BY <1>2, <1>3, <1>4, <2>1, SoundFrom
<1>6. Bundles(r) = Bundles(s) \cup {b}
  <2>1. ToSet(r.pending) = ToSet(s.pending) \cup {n}
    BY <1>1, <1>2, ElementsOf
  <2> QED
    BY <1>1, <1>2, <2>1 DEF Bundles
<1> QED
  BY <1>2, <1>3, <1>5, <1>6 DEF r, Grows, Kept, Singly

LEMMA HandSound ==
  ASSUME TypeOK, NEW P, NEW s \in HeldStates, NEW b \in Bags, NEW w \in BOOLEAN, Sound(s, P),
         Brings(s, b, P)
  PROVE  LET r == Hand(s, b, w) IN
         /\ r \in HeldStates /\ Sound(r, P) /\ Grows(s, r) /\ In(b) \subseteq Kept(r)
         /\ Singly(s) /\ Lone(b) => Singly(r)
<1>1. CASE Live
  <2> DEFINE r == Hand(s, b, w)
  <2>1. r = [s EXCEPT !.ingress = Append(s.ingress, b), !.inFlight = s.inFlight \cup In(b)]
    BY <1>1 DEF Hand
  <2>2. /\ r.pending = s.pending /\ r.inFlight = s.inFlight \cup In(b) /\ r.queue = s.queue
        /\ r.ended = s.ended /\ r.ingress = Append(s.ingress, b)
    BY <2>1 DEF HeldStates
  <2>3. r \in HeldStates
    BY HandGoes DEF Goes
  <2> HIDE DEF r
  <2>4. s.ingress \in Seq(Bags)
    BY DEF HeldStates
  <2>5. ASSUME NEW i \in Items PROVE Count(r, i) <= Count(s, i) + b[i]
    <3>1. All(r.ingress)[i] = All(s.ingress)[i] + b[i] /\ b[i] \in Nat
      BY <2>2, <2>4, IngressIs
    <3>2. Many(s.pending, i) \in Nat /\ Many(s.queue, i) \in Nat /\ All(s.ingress)[i] \in Nat
      BY CountIs
    <3>3. \A x, y, z, k \in Nat : x + y + (z + k) <= (x + y + z) + k
      OBVIOUS
    <3> QED
      BY <2>2, <3>1, <3>2, <3>3 DEF Count
  <2>6. Sound(r, P)
    <3>1. Rides(r) = Rides(s) \cup In(b)
      BY <2>2, <2>4, BagsIn DEF Rides
    <3> QED
      BY <2>2, <2>3, <2>5, <3>1, SoundFrom
  <2>7. Bundles(r) = Bundles(s) \cup {b}
    <3>1. ToSet(r.ingress) = ToSet(s.ingress) \cup {b}
      BY <2>2, <2>4, ElementsOf
    <3> QED
      BY <2>2, <3>1 DEF Bundles
  <2> QED
    BY <2>2, <2>3, <2>6, <2>7 DEF r, Grows, Kept, Singly
<1>2. CASE ~ Live
  <2>1. Hand(s, b, w) = Holds(s, b, w)
    BY <1>2 DEF Hand
  <2> QED
    BY <2>1, HoldsSound
<1> QED
  BY <1>1, <1>2

LEMMA PumpSound ==
  ASSUME TypeOK, NEW P, NEW s \in HeldStates, NEW idle, Sound(s, P)
  PROVE  LET r == Pump(s, idle) IN
         /\ r \in HeldStates /\ Sound(r, P) /\ Grows(s, r)
         /\ Singly(s) => Singly(r)
<1>1. CASE s.waking \/ ~ idle \/ ~ \E k \in DOMAIN s.pending : s.pending[k].wake
  <2>1. Pump(s, idle) = s
    BY <1>1 DEF Pump
  <2> QED
    BY <2>1 DEF Grows
<1>2. CASE ~ (s.waking \/ ~ idle \/ ~ \E k \in DOMAIN s.pending : s.pending[k].wake)
  <2> DEFINE c == All([k \in DOMAIN s.pending |-> s.pending[k].items])
             n == [by |-> "wake", items |-> c]
             r == Pump(s, idle)
  <2>1. r = [s EXCEPT !.pending = <<>>, !.inFlight = s.inFlight \cup In(c), !.waking = TRUE,
                      !.queue = Append(s.queue, n)]
    BY <1>2 DEF Pump
  <2>2. /\ r.pending = <<>> /\ r.inFlight = s.inFlight \cup In(c) /\ r.queue = Append(s.queue, n)
        /\ r.ended = s.ended /\ r.ingress = s.ingress
    BY <2>1 DEF HeldStates
  <2>3. r \in HeldStates
    BY PumpGoes DEF Goes
  <2>4. s.pending \in Seq(Notices) /\ s.queue \in Seq(Turns)
    BY DEF HeldStates
  <2>5. /\ c \in Bags /\ In(c) = ItemsIn(s.pending)
        /\ \A i \in Items : c[i] = Many(s.pending, i)
    <3>1. [k \in DOMAIN s.pending |-> s.pending[k].items] \in Seq(Bags)
      BY <2>4, HeldAsBags
    <3>2. \A i \in Items : c[i] = Many(s.pending, i)
      BY <2>4, ManyMoved
    <3> QED
      BY <2>4, <3>1, <3>2, HeldAsBags, InAll
  <2> HIDE DEF c, r
  <2>6. n \in Turns /\ n.items = c
    BY <2>5 DEF Turns
  <2> HIDE DEF n
  <2>7. ASSUME NEW i \in Items PROVE Count(r, i) <= Count(s, i) + Nothing[i]
    <3>1. Many(r.queue, i) = Many(s.queue, i) + Many(s.pending, i)
      BY <2>2, <2>4, <2>5, <2>6, ManyOne, CarriersAre
    <3>2. Many(r.pending, i) = 0
      BY <2>2, ManyOne, CarriersAre
    <3>3. Many(s.pending, i) \in Nat /\ Many(s.queue, i) \in Nat /\ All(s.ingress)[i] \in Nat
      BY CountIs
    <3>4. \A x, y, z \in Nat : 0 + (y + x) + z <= (x + y + z) + 0
      OBVIOUS
    <3> QED
      BY <2>2, <3>1, <3>2, <3>3, <3>4 DEF Count, Nothing
  <2>8. Sound(r, P)
    <3>1. Rides(r) = Rides(s) \cup In(c)
      <4>1. ItemsIn(r.queue) = ItemsIn(s.queue) \cup In(c)
        BY <2>2, <2>4, <2>6, NoticesIn
      <4> QED
        BY <2>2, <4>1 DEF Rides
    <3>2. Nothing \in Bags /\ Brings(s, Nothing, P)
      BY InNothing DEF Brings
    <3> QED
      BY <2>2, <2>3, <2>7, <3>1, <3>2, SoundFrom
  <2>9. Bundles(r) \subseteq Bundles(s)
    BY <2>2, ElementsOf DEF Bundles
  <2>10. Kept(s) \subseteq Kept(r)
    BY <2>2, <2>5 DEF Kept
  <2> QED
    BY <2>2, <2>3, <2>8, <2>9, <2>10 DEF r, Grows, Singly
<1> QED
  BY <1>1, <1>2

\* A call that still waits has claimed nothing, and belongs to what runs.
WaitInv ==
  /\ \A t \in Tasks : wait[t] = "spawning" =>
       /\ t \in act.of /\ claim[t] = "none"
       /\ t \notin twice => \A n \in Transitions : buffer[<<t, n>>] = 0
  /\ \A t \in Shells : wait[t] = "waiting" =>
       act.kind = "stop" /\ t \in act.of /\ {"stop", "command"} \subseteq rec[t] /\ claim[t] = "none"
  /\ \A a \in Agents : wait[a] \in {"spawning", "started", "waiting"} =>
       act.kind = "delegate" /\ claim[a] = "none"

\* What a claim names is the end, and the watcher has seen it.
ClaimInv ==
  /\ \A i \in carried : claim[i[1]] = i[2]
  /\ \A t \in Shells : claim[t] \in Final \cup {"none"} /\ (claim[t] # "none" => "stop" \in rec[t])
  /\ \A t \in Tasks : claim[t] # "none" /\ Firm(<<t, claim[t]>>) =>
       Settled(t) /\ EndName(t) = claim[t] /\ (up # "down" => seen[t] # "live")

LEMMA SoundSame ==
  ASSUME TypeOK, NEW P, NEW s \in HeldStates, NEW r \in HeldStates, Sound(s, P),
         r.queue = s.queue, r.ingress = s.ingress, s.inFlight \subseteq r.inFlight,
         \A i \in Items : Many(r.pending, i) <= Many(s.pending, i)
  PROVE  Sound(r, P)
<1>1. ASSUME NEW i \in Items PROVE Count(r, i) <= Count(s, i) + Nothing[i]
  <2>1. /\ Many(s.pending, i) \in Nat /\ Many(s.queue, i) \in Nat /\ All(s.ingress)[i] \in Nat
        /\ Many(r.pending, i) \in Nat /\ Many(r.pending, i) <= Many(s.pending, i)
    BY CountIs
  <2>2. \A x, y, z, k \in Nat : k <= x => k + y + z <= (x + y + z) + 0
    OBVIOUS
  <2> QED
    BY <2>1, <2>2 DEF Count, Nothing
<1>2. Nothing \in Bags /\ Brings(s, Nothing, P)
  BY InNothing DEF Brings
<1>3. Rides(r) = Rides(s)
  BY DEF Rides
<1> QED
  BY <1>1, <1>2, <1>3, SoundFrom

LEMMA PlainAgents == \A a \in Agents : a \in Plains => NoSlow
BY DEF Plains, SlowGroup, NoSlow

\* The group's notice brings what nothing told, and takes the place of what
\* was held of it.
LEMMA DeliverSound ==
  ASSUME TypeOK, CallInv, WaitInv, NEW P, P \subseteq Plains, NEW s \in HeldStates, Sound(s, P),
         NEW idle,
         GroupComplete, NoSlow => Singly(s)
  PROVE  LET r == DeliverGroup(s, idle) IN r \in HeldStates /\ Sound(r, P) /\ Done(r)
<1> DEFINE F == {EndItem(a) : a \in {b \in Members :
                  ~ ToldByResult(b) /\ noticed[EndItem(b)] = 0 /\ EndItem(b) \notin s.inFlight}}
           alone(p) == Cardinality(In(p.items)) = 1 /\ In(p.items) \subseteq F
           S == {p \in Notices : ~ alone(p)}
           none == [a \in Agents |-> "no"]
           W == ~ (\E a \in Members : s.ended[a] = "restart") /\ AnyWakes(Once(F))
           R == [s EXCEPT !.ended = none, !.pending = Keep(@, S)]
           r == DeliverGroup(s, idle)
<1>1. F \subseteq Items
  BY EndItemIs DEF Members, Tasks
<1>2. \A a \in Members : ToldByResult(a) \/ noticed[EndItem(a)] # 0 \/ EndItem(a) \in s.inFlight \/ EndItem(a) \in F
  OBVIOUS
<1>3. r = IF F = {} THEN [s EXCEPT !.ended = none] ELSE Pump(Hand(R, Once(F), W), idle)
  BY DEF DeliverGroup
<1>4. W \in BOOLEAN
  OBVIOUS
<1>5. \A p \in Notices, i \in F : In(p.items) = {i} => p \notin S
  <2> TAKE p \in Notices, i \in F
  <2>1. Cardinality({i}) = 1
    BY FS_Singleton
  <2> QED
    BY <2>1
<1>6. \A i \in F : \E a \in Agents :
         /\ i = EndItem(a) /\ Planned(a) /\ ~ ToldByResult(a) /\ noticed[i] = 0 /\ i \notin s.inFlight
         /\ Settled(a)
  BY DEF Members, GroupComplete
<1> HIDE DEF F, W, S, r
<1>7. none \in [Agents -> {"no", "heard", "restart"}] /\ \A a \in Agents : none[a] = "no"
  OBVIOUS
<1> HIDE DEF none
<1>8. ASSUME NEW h \in HeldStates, h.ended = none, s.inFlight \subseteq Kept(h), F \subseteq Kept(h)
      PROVE  Done(h)
  <2>1. ASSUME NEW a \in Members PROVE ToldByResult(a) \/ EndItem(a) \in In(noticed) \cup Kept(h)
    <3>1. EndItem(a) \in Items
      BY EndItemIs DEF Members, Tasks
    <3>2. noticed[EndItem(a)] # 0 => EndItem(a) \in In(noticed)
      <4>1. noticed[EndItem(a)] \in Nat
        BY <3>1 DEF TypeOK, Bags
      <4> QED
        BY <3>1, <4>1 DEF In
    <3> QED
      BY <1>2, <1>8, <3>2
  <2> QED
    BY <1>7, <1>8, <2>1 DEF Done
<1>9. CASE F = {}
  <2> DEFINE e == [s EXCEPT !.ended = none]
  <2>1. /\ e.pending = s.pending /\ e.inFlight = s.inFlight /\ e.queue = s.queue /\ e.ingress = s.ingress
        /\ e \in HeldStates /\ e.ended = none
    BY <1>7 DEF HeldStates
  <2>2. r = e
    BY <1>3, <1>9
  <2> HIDE DEF e
  <2>3. \A i \in Items : Many(e.pending, i) <= Many(s.pending, i)
    BY <2>1, CountIs
  <2>4. Sound(e, P)
    BY <2>1, <2>3, SoundSame
  <2>5. Done(e)
    BY <1>8, <1>9, <2>1 DEF Kept
  <2> QED
    BY <2>1, <2>2, <2>4, <2>5 DEF r
<1>10. CASE F # {}
  <2>1. s.pending \in Seq(Notices)
    BY DEF HeldStates
  <2>2. Keep(s.pending, S) \in Seq(Notices) /\ ToSet(Keep(s.pending, S)) = ToSet(s.pending) \cap S
    BY <2>1, KeptElements
  <2>3. /\ R.pending = Keep(s.pending, S) /\ R.inFlight = s.inFlight /\ R.queue = s.queue
        /\ R.ingress = s.ingress /\ R \in HeldStates /\ R.ended = none
    BY <1>7, <2>2 DEF HeldStates
  <2> DEFINE H == Hand(R, Once(F), W)
  <2>4. r = Pump(H, idle)
    BY <1>3, <1>10
  <2> HIDE DEF R
  <2>5. Once(F) \in Bags /\ In(Once(F)) = F /\ \A i \in F : Once(F)[i] = 1
    BY <1>1, InOnce DEF Once
  <2>6. Sound(R, P)
    BY <2>1, <2>3, ManyKept, SoundSame
  <2>7. ASSUME NEW i \in F
        PROVE  Said(i) /\ Free(i, P) /\ (i[1] \in P => noticed[i] = 0 /\ run.first[i] = 0 /\ i \notin Has(R))
    <3>1. PICK a \in Agents : /\ i = EndItem(a) /\ Planned(a) /\ ~ ToldByResult(a) /\ noticed[i] = 0
                              /\ i \notin s.inFlight /\ Settled(a)
      BY <1>6
    <3>2. i[1] = a /\ i[2] = EndName(a) /\ a \notin Shells /\ i \in Items
      BY <1>1, <3>1, TasksAssumption DEF EndItem
    <3>3. Said(i)
      BY <3>1, <3>2 DEF Said
    <3>4. claim[a] # EndName(a) /\ act.kind # "delegate"
      BY <3>1 DEF ToldByResult, GroupComplete, GroupClosed, CallInv
    <3>5. Free(i, P)
      BY <3>2, <3>4 DEF Free, WaitInv
    <3>6. CASE a \in P
      <4>1. Singly(s)
        BY <3>6, PlainAgents
      <4>2. i \notin Rides(s) \cup In(run.first)
        BY <3>1, <3>2, <3>6 DEF Sound
      <4>3. run.first[i] = 0
        <5>1. run.first[i] \in Nat
          BY <3>2 DEF TypeOK, Bags
        <5> QED
          BY <3>2, <4>2, <5>1 DEF In
      <4>4. i \notin ItemsIn(R.pending)
        <5> SUFFICES ASSUME NEW p \in ToSet(R.pending), i \in In(p.items) PROVE FALSE
          BY DEF ItemsIn
        <5>1. p \in ToSet(s.pending) /\ p \in S /\ p \in Notices
          BY <2>1, <2>2, <2>3, Elements
        <5>2. p.items \in Bundles(s)
          BY <5>1 DEF Bundles
        <5>3. In(p.items) = {i}
          BY <3>2, <4>1, <5>2 DEF Singly, Lone
        <5> QED
          BY <1>5, <5>1, <5>3
      <4>5. i \notin Has(R)
        BY <2>3, <4>2, <4>4 DEF Has, Rides
      <4> QED
        BY <3>1, <3>3, <3>5, <4>3, <4>5
    <3> QED
      BY <3>2, <3>3, <3>5, <3>6
  <2>8. Brings(R, Once(F), P)
    BY <2>5, <2>7 DEF Brings
  <2>9. H \in HeldStates /\ Sound(H, P) /\ Grows(R, H) /\ F \subseteq Kept(H)
    BY <1>4, <2>3, <2>5, <2>6, <2>8, HandSound
  <2> HIDE DEF H
  <2>10. r \in HeldStates /\ Sound(r, P) /\ Grows(H, r)
    BY <2>4, <2>9, PumpSound
  <2>11. r.ended = none /\ s.inFlight \subseteq Kept(r) /\ F \subseteq Kept(r)
    BY <2>3, <2>9, <2>10 DEF Grows, Kept
  <2>12. Done(r)
    BY <1>8, <2>10, <2>11
  <2> QED
    BY <2>10, <2>12 DEF r
<1> QED
  BY <1>9, <1>10

LEMMA GroupsSound ==
  ASSUME TypeOK, CallInv, WaitInv, NEW P, P \subseteq Plains, NEW s \in HeldStates, Sound(s, P),
         Grouping(s), NEW idle
  PROVE  LET g == Groups(s, idle) IN g \in HeldStates /\ Sound(g, P) /\ Grouping(g)
<1>1. CASE GroupComplete /\ \E a \in Agents : s.ended[a] # "no"
  <2>1. Groups(s, idle) = DeliverGroup(s, idle)
    BY <1>1 DEF Groups
  <2>2. NoSlow => Singly(s)
    BY <1>1 DEF Grouping, Done
  <2> QED
    BY <1>1, <2>1, <2>2, DeliverSound DEF Grouping
<1>2. CASE ~(GroupComplete /\ \E a \in Agents : s.ended[a] # "no")
  <2>1. Groups(s, idle) = s
    BY <1>2 DEF Groups
  <2> QED
    BY <2>1
<1> QED
  BY <1>1, <1>2

-----------------------------------------------------------------------------
(* What a step leaves of a journal, of an end and of the group.            *)

LEMMA JournalMoves ==
  ASSUME TypeOK, JournalInv, Next, NEW u \in Tasks
  PROVE  /\ late \subseteq late'
         /\ Planned(u) => rec[u] \subseteq rec'[u]
         /\ Planned(u) /\ proc[u] # "up" => rec'[u] = rec[u] /\ proc'[u] = proc[u]
         /\ Planned(u) /\ rec'[u] # rec[u] /\ "command" \notin rec[u] => "runner" \in rec'[u]
<1> DEFINE Moves ==
         /\ late \subseteq late'
         /\ Planned(u) => rec[u] \subseteq rec'[u]
         /\ Planned(u) /\ proc[u] # "up" => rec'[u] = rec[u] /\ proc'[u] = proc[u]
         /\ Planned(u) /\ rec'[u] # rec[u] /\ "command" \notin rec[u] => "runner" \in rec'[u]
<1>0. /\ rec \in [Tasks -> SUBSET Records] /\ proc \in [Tasks -> {"none", "up", "dead"}]
  BY DEF TypeOK, ManagerTypeOK
<1> USE DEF Planned
<1>1. ASSUME NEW t \in Tasks, TaskStep(t) PROVE Moves
  <2>1. CASE RunnerSpeaks(t)
    BY <1>0, <2>1 DEF RunnerSpeaks
  <2>2. CASE CommandEnds(t)
    BY <1>0, <2>2 DEF CommandEnds
  <2>3. CASE RunnerDies(t)
    BY <1>0, <2>3 DEF RunnerDies
  <2>4. CASE StartWindowPasses(t)
    BY <2>4 DEF StartWindowPasses
  <2>5. CASE PersonStops(t) \/ StopCall(t)
    BY <1>0, <2>5 DEF PersonStops, StopCall, Recorded, Stoppable
  <2>6. CASE ShellStarts(t) \/ AgentStarts(t)
    BY <1>0, <2>6 DEF ShellStarts, AgentStarts, Start, Recorded
  <2>7. CASE ShellStarted(t) \/ AgentStarted(t) \/ AwaitSettled(t) \/ WaitEnds(t)
    BY <2>7 DEF ShellStarted, AgentStarted, AwaitSettled, WaitEnds
  <2> QED
    BY <1>1, <2>1, <2>2, <2>3, <2>4, <2>5, <2>6, <2>7 DEF TaskStep
<1>2. CASE Crash
  BY <1>0, <1>2 DEF Crash, Down
<1>3. CASE Delegate \/ DelegateReturns \/ StopReturns \/ HostSteps \/ Attach \/ Join \/ Boot
  BY <1>3 DEF Delegate, DelegateReturns, StopReturns, Attach, Join, Boot, HostSteps, Flush, Recheck,
     PumpTimer, PersonSpeaks, BeginTurn, Resume, ResolveUncertain, FirstInput, Admit, Seal, RunSettles, Begins
<1>4. CASE \E t \in Tasks : Watch(t)
  BY <1>4 DEF Watch, Poll
<1>5. Moves
  BY <1>1, <1>2, <1>3, <1>4, NextIs DEF ManagerSteps
<1> QED
  BY <1>5

\* What ended stays as it ended, but for a runner that speaks too late.
LEMMA SettledStays ==
  ASSUME TypeOK, JournalInv, Next, NEW u \in Tasks
  PROVE  /\ Planned(u) => Planned(u)'
         /\ Slow(u) /\ Planned(u) => Slow(u)'
         /\ Settled(u) /\ (~ Slow(u)' \/ EndName(u) \in Final) =>
              Settled(u)' /\ Verdict(u)' = Verdict(u) /\ EndName(u)' = EndName(u) /\ EndItem(u)' = EndItem(u)
         /\ Verdict(u) = "unknown" => Verdict(u)' = "unknown"
<1>1. /\ late \subseteq late'
      /\ Planned(u) => rec[u] \subseteq rec'[u]
      /\ Planned(u) /\ proc[u] # "up" => rec'[u] = rec[u] /\ proc'[u] = proc[u]
      /\ Planned(u) /\ rec'[u] # rec[u] /\ "command" \notin rec[u] => "runner" \in rec'[u]
  BY JournalMoves
<1>2. (Planned(u) => Planned(u)') /\ (Slow(u) /\ Planned(u) => Slow(u)')
  BY <1>1 DEF Planned, Slow
<1>3. CASE proc[u] # "up" /\ Settled(u) /\ (Terminal(u) \/ "command" \in rec[u] \/ "runner" \in rec[u])
  <2>1. Planned(u)
    BY <1>3 DEF JournalInv, Terminal
  <2>2. rec'[u] = rec[u] /\ proc'[u] = proc[u]
    BY <1>1, <1>3, <2>1
  <2>3. Verdict(u)' = Verdict(u)
    BY <1>3, <2>2 DEF Verdict, Terminal, Planned
  <2>4. EndName(u)' = EndName(u)
    BY <2>2, <2>3 DEF EndName
  <2> QED
    BY <1>2, <1>3, <2>3, <2>4 DEF Settled, EndItem
<1>4. CASE Settled(u) /\ ~ Terminal(u) /\ "command" \notin rec[u] /\ "runner" \notin rec[u]
  <2>1. Planned(u) /\ u \in late /\ Verdict(u) = "not_run" /\ EndName(u) = "failed"
    BY <1>4 DEF Settled, Verdict, Ends, EndName
  <2>2. CASE ~ Slow(u)'
    <3>1. "runner" \notin rec'[u]
      BY <1>1, <2>1, <2>2 DEF Slow
    <3>2. rec'[u] = rec[u]
      BY <1>1, <1>4, <2>1, <3>1
    <3>3. Verdict(u)' = "not_run" /\ EndName(u)' = "failed"
      BY <1>1, <1>4, <2>1, <3>2 DEF Verdict, Terminal, Planned, EndName
    <3> QED
      BY <1>2, <2>1, <3>3 DEF Settled, EndItem, Ends
  <2> QED
    BY <1>2, <2>1, <2>2 DEF Final
<1>5. CASE ~ Settled(u)
  <2>1. Verdict(u) # "unknown"
    BY <1>5 DEF Settled, Ends
  <2> QED
    BY <1>2, <1>5, <2>1
<1>6. Settled(u) /\ (Terminal(u) \/ "command" \in rec[u] \/ "runner" \in rec[u]) => proc[u] # "up"
  BY DEF JournalInv, Settled, Verdict, Ends
<1> QED
  BY <1>3, <1>4, <1>5, <1>6

LEMMA TwiceGrows == Next => twice \subseteq twice'
<1> SUFFICES ASSUME Next PROVE twice \subseteq twice'
  OBVIOUS
<1>1. CASE HostSteps
  BY <1>1 DEF HostSteps, Flush, Recheck, PumpTimer, PersonSpeaks, BeginTurn, Resume,
     ResolveUncertain,
     FirstInput, Admit, Seal, RunSettles, Begins
<1>2. CASE Delegate \/ DelegateReturns \/ StopReturns \/ Crash \/ Attach
  BY <1>2 DEF Delegate, DelegateReturns, StopReturns, Crash, Attach
<1>3. CASE \E t \in Tasks : Watch(t)
  BY <1>3 DEF Watch
<1> QED
  BY <1>1, <1>2, <1>3, NextIs

LEMMA MarksStay ==
  ASSUME TypeOK, JournalInv, Next
  PROVE  /\ NoSlow' => NoSlow
         /\ Plains' \subseteq Plains
         /\ \A i \in Items : Said(i) => Said(i)'
<1>1. \A t \in Tasks : Slow(t) => Slow(t)'
  BY SettledStays DEF Slow, JournalInv
<1>2. NoSlow' => NoSlow
  BY <1>1 DEF NoSlow, Tasks
<1>3. Plains' \subseteq Plains
  <2>1. SlowGroup \subseteq SlowGroup'
    BY <1>1 DEF SlowGroup, Tasks
  <2> QED
    BY <2>1, TwiceGrows DEF Plains
<1>4. ASSUME NEW i \in Items, Said(i) PROVE Said(i)'
  <2>1. i[1] \in Tasks
    BY DEF Items
  <2>2. Planned(i[1])'
    BY <1>4, <2>1, SettledStays DEF Said
  <2>3. ASSUME Firm(i)' PROVE Settled(i[1])' /\ EndItem(i[1])' = i
    <3>1. ~ Slow(i[1])' \/ i[2] \in Final
      BY <2>3 DEF Firm
    <3>2. Firm(i)
      BY <1>1, <2>1, <3>1 DEF Firm
    <3>3. Settled(i[1]) /\ EndItem(i[1]) = i /\ EndName(i[1]) = i[2]
      BY <1>4, <3>2 DEF Said, EndItem
    <3> QED
      BY <2>1, <3>1, <3>3, SettledStays
  <2> QED
    BY <2>2, <2>3 DEF Said
<1> QED
  BY <1>2, <1>3, <1>4

\* A group whose call has its result stays the group it is.
LEMMA GroupStays ==
  ASSUME TypeOK, JournalInv, CallInv, WaitInv, Next, NoSlow', GroupComplete
  PROVE  /\ GroupComplete' /\ Members' = Members
         /\ \A a \in Members : EndItem(a)' = EndItem(a) /\ (ToldByResult(a) => ToldByResult(a)')
<1>1. call \in {"result", "filled"} /\ act.kind # "delegate"
  BY DEF GroupComplete, GroupClosed, CallInv
<1>0. /\ rec \in [Tasks -> SUBSET Records] /\ claim \in [Tasks -> Transitions \cup {"none"}]
      /\ Agents \subseteq Tasks /\ Shells \cap Agents = {} /\ NoCall.kind = "none"
  BY TasksAssumption DEF TypeOK, ManagerTypeOK, Tasks, NoCall
<1>2. call' \in {"result", "filled"}
  <2>1. CASE HostSteps
    BY <1>1, <2>1 DEF HostSteps, Flush, Recheck, PumpTimer, PersonSpeaks, BeginTurn, Resume,
       ResolveUncertain,
       FirstInput, Admit, Seal, RunSettles, Begins
  <2>2. CASE Delegate \/ DelegateReturns \/ StopReturns \/ Crash \/ Attach
    BY <1>1, <2>2 DEF Delegate, DelegateReturns, StopReturns, Crash, Attach
  <2>3. CASE \E t \in Tasks : Watch(t)
    BY <1>1, <2>3 DEF Watch
  <2> QED
    BY <1>1, <2>1, <2>2, <2>3, NextIs
<1>3. ASSUME NEW a \in Agents PROVE claim'[a] = claim[a] /\ (Planned(a)' => Planned(a))
  <2>1. ASSUME NEW t \in Tasks, TaskStep(t) PROVE claim'[a] = claim[a] /\ (Planned(a)' => Planned(a))
    <3>1. CASE RunnerSpeaks(t) \/ CommandEnds(t) \/ RunnerDies(t) \/ StartWindowPasses(t) \/ PersonStops(t)
                 \/ StopCall(t)
      BY <1>0, <3>1 DEF RunnerSpeaks, CommandEnds, RunnerDies, StartWindowPasses, PersonStops,
         StopCall,
         Recorded, Planned, Stoppable
    <3>2. CASE ShellStarts(t)
      BY <1>0, <3>2 DEF ShellStarts, Start, Recorded, Planned
    <3>3. CASE AgentStarts(t)
      BY <1>0, <1>1, <3>3 DEF AgentStarts, Startable
    <3>4. CASE ShellStarted(t) \/ AgentStarted(t) \/ WaitEnds(t)
      BY <3>4 DEF ShellStarted, AgentStarted, WaitEnds, Planned
    <3>5. CASE AwaitSettled(t)
      <4>1. t # a
        BY <1>1, <3>5 DEF AwaitSettled, WaitInv
      <4> QED
        BY <1>0, <3>5, <4>1 DEF AwaitSettled, Planned
    <3> QED
      BY <2>1, <3>1, <3>2, <3>3, <3>4, <3>5 DEF TaskStep
  <2>2. CASE Crash
    <3>1. PICK between : /\ between \in {{}} \cup {{t} : t \in {s \in Tasks : Working /\ Startable(s) /\ ~ Planned(s)}}
                         /\ Down(between)
      BY <2>2 DEF Crash
    <3>2. a \notin between
      BY <1>0, <1>1, <3>1 DEF Startable
    <3> QED
      BY <1>0, <3>1, <3>2 DEF Down, Planned
  <2>3. CASE Delegate \/ DelegateReturns \/ StopReturns \/ HostSteps \/ Attach \/ Join \/ Boot
    BY <2>3 DEF Delegate, DelegateReturns, StopReturns, Attach, Join, Boot, HostSteps, Flush,
       Recheck, Planned,
       PumpTimer, PersonSpeaks, BeginTurn, Resume, ResolveUncertain, FirstInput, Admit, Seal, RunSettles, Begins
  <2>4. CASE \E t \in Tasks : Watch(t)
    BY <2>4 DEF Watch, Poll, Planned
  <2> QED
    BY <2>1, <2>2, <2>3, <2>4, NextIs DEF ManagerSteps
<1>4. Members' = Members
  BY <1>0, <1>3, SettledStays DEF Members
<1>5. ASSUME NEW a \in Members
      PROVE  Settled(a)' /\ EndItem(a)' = EndItem(a) /\ EndName(a)' = EndName(a)
  <2>1. a \in Tasks /\ ~ Slow(a)' /\ Settled(a)
    BY <1>0 DEF Members, NoSlow, GroupComplete
  <2> QED
    BY <2>1, SettledStays
<1>6. GroupComplete'
  BY <1>2, <1>4, <1>5 DEF GroupComplete, GroupClosed
<1>7. \A a \in Members : ToldByResult(a) => ToldByResult(a)'
  BY <1>2, <1>3, <1>5 DEF ToldByResult, Members
<1> QED
  BY <1>4, <1>5, <1>6, <1>7

-----------------------------------------------------------------------------
(* What the delivery made of what it holds, in the next state.             *)

HeldBecomes(g) ==
  /\ pending' = g.pending /\ inFlight' = g.inFlight /\ queue' = g.queue /\ run'.ingress = g.ingress

LEMMA SoundBecomes ==
  ASSUME TypeOK, JournalInv, Next, NEW P, Plains' \subseteq P, NEW g \in HeldStates,
         Sound(g, P), HeldBecomes(g),
         noticed' = noticed, run'.first \in {run.first, Nothing},
         \A i \in Has(g) : Free(i, P) => Free(i, Plains)'
  PROVE  Sound(Held, Plains)'
<1>1. /\ Held'.pending = g.pending /\ Held'.inFlight = g.inFlight /\ Held'.queue = g.queue
      /\ Held'.ingress = g.ingress
  BY DEF Held, HeldBecomes
<1>2. \A i \in Items : Count(Held, i)' = Count(g, i)
  BY <1>1 DEF Count
<1>3. Has(Held)' = Has(g) /\ Rides(Held)' = Rides(g)
  BY <1>1 DEF Has, Rides
<1>4. ASSUME NEW i \in Items, i[1] \in Plains'
      PROVE  noticed'[i] + run'.first[i] + Count(Held, i)' <= 1
  <2>1. noticed[i] + run.first[i] + Count(g, i) <= 1
    BY <1>4 DEF Sound
  <2>2. noticed[i] \in Nat /\ run.first[i] \in Nat /\ Count(g, i) \in Nat /\ Nothing[i] = 0
    BY CountIs DEF TypeOK, Bags, Nothing
  <2>3. CASE run'.first = run.first
    BY <1>2, <2>1, <2>3
  <2>4. CASE run'.first = Nothing
    <3>1. \A x, y, z \in Nat : x + y + z <= 1 => x + 0 + z <= 1
      OBVIOUS
    <3>2. noticed[i] + 0 + Count(g, i) <= 1
      BY <2>1, <2>2, <3>1
    <3> QED
      BY <1>2, <2>2, <2>4, <3>2
  <2> QED
    BY <2>3, <2>4
<1>5. ASSUME NEW i \in Has(Held)' PROVE Said(i)' /\ Free(i, Plains)'
  <2>1. i \in Items /\ i \in Has(g)
    BY <1>3, HasItems
  <2> QED
    BY <2>1, MarksStay DEF Sound
<1>6. ASSUME NEW i \in (Rides(Held) \cup In(run.first))', i[1] \in Plains'
      PROVE  i \in Held'.inFlight
  <2>1. i \in Rides(g) \cup In(run.first)
    BY <1>3, InNothing
  <2> QED
    BY <1>1, <1>6, <2>1 DEF Sound
<1> QED
  BY <1>4, <1>5, <1>6 DEF Sound

LEMMA GroupBecomes ==
  ASSUME TypeOK, JournalInv, CallInv, WaitInv, Next, NEW g, Grouping(g), ended' = g.ended,
         Bundles(Held)' \subseteq Bundles(g),
         In(noticed) \cup Kept(g) \subseteq In(noticed') \cup inFlight' \cup ItemsIn(pending')
  PROVE  Grouping(Held)'
<1> SUFFICES ASSUME NoSlow' PROVE (Singly(Held) \/ Done(Held))'
  BY DEF Grouping
<1>1. NoSlow
  BY MarksStay
<1>2. CASE Singly(g)
  <2>1. \A b \in Bundles(Held)' : Lone(b)
    BY <1>2 DEF Singly
  <2>2. Singly(Held)'
    BY <2>1 DEF Singly, Lone
  <2> QED
    BY <2>2
<1>3. CASE Done(g)
  <2>1. GroupComplete /\ \A a \in Agents : g.ended[a] = "no"
    BY <1>3 DEF Done
  <2>2. /\ GroupComplete' /\ Members' = Members
        /\ \A a \in Members : EndItem(a)' = EndItem(a) /\ (ToldByResult(a) => ToldByResult(a)')
    BY <2>1, GroupStays
  <2>3. Kept(Held)' = inFlight' \cup ItemsIn(pending') /\ Held'.ended = ended'
    BY DEF Kept, Held
  <2>4. ASSUME NEW a \in Members PROVE ToldByResult(a)' \/ EndItem(a)' \in (In(noticed) \cup Kept(Held))'
    BY <1>3, <2>2, <2>3 DEF Done
  <2>5. Done(Held)'
    BY <2>1, <2>2, <2>3, <2>4 DEF Done
  <2> QED
    BY <2>5
<1> QED
  BY <1>1, <1>2, <1>3 DEF Grouping

-----------------------------------------------------------------------------
(* The invariant, and what a step leaves of its parts on calls and claims. *)

Beside == In(noticed) \cup In(buffer) \cup In(run.first)
BesideInv == \A i \in Beside : Said(i) /\ Free(i, Plains)

\* A window holds a shell's end once, and the watcher has seen it.
BufferInv == \A i \in In(buffer) :
  i[1] \in Shells /\ (i[1] \notin twice => buffer[i] <= 1 /\ seen[i[1]] # "live")

\* A settled task that the watcher sees so is not looked at again.
SeenInv == \A t \in Tasks : seen[t] = "unknown" => Verdict(t) = "unknown"

\* A process that is not up holds nothing.
DownInv == up # "up" =>
  /\ pending = <<>> /\ inFlight = {} /\ queue = <<>> /\ run = NoRun /\ buffer = Nothing
  /\ act = NoCall /\ \A a \in Agents : ended[a] = "no"

OnceInv ==
  /\ Sound(Held, Plains) /\ Grouping(Held)
  /\ BesideInv /\ BufferInv /\ WaitInv /\ ClaimInv /\ SeenInv /\ DownInv

LEMMA SeenMoves ==
  ASSUME TypeOK, Next, NEW t \in Tasks
  PROVE  \/ seen'[t] = seen[t]
         \/ seen'[t] = Sees(t) /\ up # "down" /\ up' = up
         \/ seen'[t] = Sees(t) /\ up = "down"
         \/ seen'[t] = "live" /\ (up' = "down" \/ wait[t] = "spawning")
<1> DEFINE Moves ==
         \/ seen'[t] = seen[t]
         \/ seen'[t] = Sees(t) /\ up # "down" /\ up' = up
         \/ seen'[t] = Sees(t) /\ up = "down"
         \/ seen'[t] = "live" /\ (up' = "down" \/ wait[t] = "spawning")
<1>0. seen \in [Tasks -> Ends \cup {"live"}] /\ up \in {"down", "booting", "up"}
  BY DEF TypeOK, ManagerTypeOK
<1>1. ASSUME NEW u \in Tasks, TaskStep(u) PROVE Moves
  <2>1. CASE RunnerSpeaks(u) \/ CommandEnds(u) \/ RunnerDies(u) \/ StartWindowPasses(u) \/ PersonStops(u)
               \/ StopCall(u) \/ ShellStarts(u) \/ AgentStarts(u) \/ WaitEnds(u)
    BY <2>1 DEF RunnerSpeaks, CommandEnds, RunnerDies, StartWindowPasses, PersonStops, StopCall,
       ShellStarts,
       AgentStarts, Start, WaitEnds
  <2>2. CASE ShellStarted(u) \/ AgentStarted(u)
    BY <1>0, <2>2 DEF ShellStarted, AgentStarted, Spawned, SpawnTimesOut
  <2>3. CASE AwaitSettled(u)
    <3>1. /\ seen' = [seen EXCEPT ![u] = Verdict(u)] /\ Settled(u) /\ up' = up
      BY <2>3 DEF AwaitSettled
    <3>2. Verdict(u) = Sees(u)
      BY <3>1 DEF Sees
    <3> QED
      BY <1>0, <3>1, <3>2
  <2> QED
    BY <1>1, <2>1, <2>2, <2>3 DEF TaskStep
<1>2. CASE Crash
  BY <1>2 DEF Crash, Down
<1>3. CASE Delegate \/ DelegateReturns \/ StopReturns \/ HostSteps \/ Attach \/ Join
  BY <1>3 DEF Delegate, DelegateReturns, StopReturns, Attach, Join, HostSteps, Flush, Recheck,
     PumpTimer, PersonSpeaks, BeginTurn, Resume, ResolveUncertain, FirstInput, Admit, Seal, RunSettles, Begins
<1>4. CASE Boot
  BY <1>4 DEF Boot
<1>5. CASE \E u \in Tasks : Watch(u)
  BY <1>0, <1>5 DEF Watch, Poll
<1>6. Moves
  BY <1>1, <1>2, <1>3, <1>4, <1>5, NextIs DEF ManagerSteps
<1> QED
  BY <1>6

LEMMA SeenStep == TypeOK /\ JournalInv /\ SeenInv /\ Next => SeenInv'
<1> SUFFICES ASSUME TypeOK, JournalInv, SeenInv, Next, NEW t \in Tasks, seen'[t] = "unknown"
             PROVE  Verdict(t)' = "unknown"
  BY DEF SeenInv
<1>1. seen[t] = "unknown" \/ Sees(t) = "unknown"
  BY SeenMoves
<1>2. Verdict(t) = "unknown"
  BY <1>1 DEF SeenInv, Sees
<1> QED
  BY <1>2, SettledStays

\* The claims and the waits of a step.
Unmoved(u) == claim'[u] = claim[u] /\ wait'[u] = wait[u]

LEMMA WaitMoves ==
  ASSUME TypeOK, JournalInv, CallInv, WaitInv, Next, NEW u \in Tasks
  PROVE  \/ Unmoved(u)
         \/ claim'[u] = claim[u] /\ wait'[u] \in {"left", "none"}
         \/ claim'[u] = claim[u] /\ wait'[u] = "spawning" /\ ~ Planned(u)
         \/ claim'[u] = claim[u] /\ wait'[u] = "started" /\ wait[u] = "spawning"
         \/ claim'[u] = claim[u] /\ wait'[u] = "waiting" /\ wait[u] = "started" /\ u \in Agents
         \/ claim'[u] = claim[u] /\ wait'[u] = "waiting" /\ u \in Shells /\ StopCall(u)
         \/ AwaitSettled(u)
<1> DEFINE Moves ==
         \/ Unmoved(u)
         \/ claim'[u] = claim[u] /\ wait'[u] \in {"left", "none"}
         \/ claim'[u] = claim[u] /\ wait'[u] = "spawning" /\ ~ Planned(u)
         \/ claim'[u] = claim[u] /\ wait'[u] = "started" /\ wait[u] = "spawning"
         \/ claim'[u] = claim[u] /\ wait'[u] = "waiting" /\ wait[u] = "started" /\ u \in Agents
         \/ claim'[u] = claim[u] /\ wait'[u] = "waiting" /\ u \in Shells /\ StopCall(u)
         \/ AwaitSettled(u)
<1>0. claim \in [Tasks -> Transitions \cup {"none"}] /\ wait \in [Tasks -> Waits]
  BY DEF TypeOK, ManagerTypeOK
<1> USE DEF Unmoved
<1>1. ASSUME NEW t \in Tasks, TaskStep(t) PROVE Moves
  <2>1. CASE RunnerSpeaks(t) \/ CommandEnds(t) \/ RunnerDies(t) \/ StartWindowPasses(t) \/ PersonStops(t)
    BY <2>1 DEF RunnerSpeaks, CommandEnds, RunnerDies, StartWindowPasses, PersonStops
  <2>2. CASE ShellStarts(t) \/ AgentStarts(t)
    BY <1>0, <2>2 DEF ShellStarts, AgentStarts, Start, Now
  <2>3. CASE ShellStarted(t) \/ AgentStarted(t)
    BY <1>0, <2>3 DEF ShellStarted, AgentStarted, Spawned, SpawnTimesOut, Now
  <2>4. CASE StopCall(t)
    <3>1. wait' = [wait EXCEPT ![t] = "waiting"] /\ claim' = claim /\ t \in Shells
      BY <2>4 DEF StopCall, Now
    <3> QED
      BY <1>0, <2>4, <3>1
  <2>5. CASE AwaitSettled(t)
    <3>1. wait' = [wait EXCEPT ![t] = "claimed"] /\ claim' = [claim EXCEPT ![t] = EndName(t)]
      BY <2>5 DEF AwaitSettled, Now
    <3> QED
      BY <1>0, <2>5, <3>1
  <2>6. CASE WaitEnds(t)
    BY <1>0, <2>6 DEF WaitEnds, Now
  <2> QED
    BY <1>1, <2>1, <2>2, <2>3, <2>4, <2>5, <2>6 DEF TaskStep
<1>2. CASE Join
  <2>1. act.of = Agents /\ claim' = claim
    BY <1>2 DEF Join, CallInv
  <2>2. wait'[u] = IF u \in act.of /\ wait[u] = "started" THEN "waiting" ELSE wait[u]
    BY <1>2 DEF Join
  <2> QED
    BY <2>1, <2>2
<1>3. CASE Crash
  BY <1>3 DEF Crash, Down
<1>4. CASE Delegate \/ DelegateReturns \/ HostSteps \/ Attach \/ Boot
  BY <1>4 DEF Delegate, DelegateReturns, Attach, Boot, HostSteps, Flush, Recheck,
     PumpTimer, PersonSpeaks, BeginTurn, Resume, ResolveUncertain, FirstInput, Admit, Seal, RunSettles, Begins
<1>5. CASE StopReturns
  BY <1>5 DEF StopReturns
<1>6. CASE \E t \in Tasks : Watch(t)
  BY <1>6 DEF Watch, Poll
<1>7. Moves
  BY <1>1, <1>2, <1>3, <1>4, <1>5, <1>6, NextIs DEF ManagerSteps
<1> QED
  BY <1>7

\* A shell a stop waits for ends under a name that stays.
LEMMA StoppedIsFinal ==
  ASSUME NEW t, {"stop", "command"} \subseteq rec[t], Settled(t)
  PROVE  EndName(t) \in Final
BY DEF Settled, Verdict, Ends, EndName, Final

LEMMA FreeStays ==
  ASSUME TypeOK, JournalInv, CallInv, WaitInv, Next, NEW i \in Items, Said(i), Free(i, Plains)
  PROVE  Free(i, Plains)'
<1> DEFINE t == i[1]
<1>0. t \in Tasks /\ Plains' \subseteq Plains /\ Planned(t) /\ Shells \cap Agents = {} /\ i[2] # "none"
  BY MarksStay, TasksAssumption DEF Items, Said, Transitions
<1>1. CASE Unmoved(t) \/ (claim'[t] = claim[t] /\ wait'[t] \in {"left", "none"})
  BY <1>0, <1>1 DEF Unmoved, Free
<1>2. CASE claim'[t] = claim[t] /\ wait'[t] = "started" /\ wait[t] = "spawning"
  BY <1>0, <1>2 DEF Free
<1>3. CASE claim'[t] = claim[t] /\ wait'[t] = "waiting" /\ wait[t] = "started" /\ t \in Agents
  BY <1>0, <1>3 DEF Free
<1>4. CASE claim'[t] = claim[t] /\ wait'[t] = "waiting" /\ t \in Shells /\ StopCall(t)
  <2>1. i[2] \notin Final
    <3> SUFFICES ASSUME i[2] \in Final PROVE FALSE
      OBVIOUS
    <3>1. Settled(t)
      BY DEF Said, Firm
    <3>2. proc[t] = "up" /\ ~ Terminal(t) /\ "command" \in rec[t]
      BY <1>0, <1>4 DEF StopCall, Stoppable, JournalInv
    <3> QED
      BY <1>0, <3>1, <3>2 DEF Settled, Verdict, Ends
  <2> QED
    BY <1>0, <1>4, <2>1 DEF Free
<1>5. CASE AwaitSettled(t)
  <2>1. wait[t] = "waiting" /\ claim'[t] = EndName(t) /\ wait'[t] = "claimed" /\ Settled(t)
    BY <1>0, <1>5 DEF AwaitSettled, Now, TypeOK, ManagerTypeOK
  <2>2. CASE t \in Shells
    <3>1. EndName(t) \in Final /\ i[2] \notin Final
      BY <2>1, <2>2, StoppedIsFinal DEF WaitInv, Free
    <3> QED
      BY <1>0, <2>1, <2>2, <3>1 DEF Free
  <2>3. CASE t \in Agents
    <3>1. t \notin Plains
      BY <2>1, <2>3 DEF Free
    <3> QED
      BY <1>0, <2>1, <2>3, <3>1 DEF Free
  <2> QED
    BY <1>0, <2>2, <2>3 DEF Tasks
<1> QED
  BY <1>0, <1>1, <1>2, <1>3, <1>4, <1>5, WaitMoves

\* A process that is down does nothing but start.
LEMMA Boots == TypeOK /\ Next /\ up = "down" /\ up' # "down" => Boot
<1> SUFFICES ASSUME TypeOK, Next, up = "down", up' # "down" PROVE Boot
  OBVIOUS
<1>1. ASSUME NEW u \in Tasks, TaskStep(u) PROVE up' = up
  BY <1>1 DEF TaskStep, RunnerSpeaks, CommandEnds, RunnerDies, StartWindowPasses, PersonStops,
     StopCall, ShellStarts,
     AgentStarts, Start, WaitEnds, ShellStarted, AgentStarted, AwaitSettled
<1>2. CASE Crash
  BY <1>2 DEF Crash, Down
<1>3. CASE Delegate \/ DelegateReturns \/ StopReturns \/ HostSteps \/ Attach \/ Join
  BY <1>3 DEF Delegate, DelegateReturns, StopReturns, Attach, Join, HostSteps, Flush, Recheck,
     PumpTimer, PersonSpeaks, BeginTurn, Resume, ResolveUncertain, FirstInput, Admit, Seal, RunSettles, Begins
<1>4. CASE \E u \in Tasks : Watch(u)
  BY <1>4 DEF Watch, Poll
<1> QED
  BY <1>1, <1>2, <1>3, <1>4, NextIs DEF ManagerSteps

LEMMA ClaimStep == TypeOK /\ JournalInv /\ CallInv /\ WaitInv /\ ClaimInv /\ Next => ClaimInv'
<1> SUFFICES ASSUME TypeOK, JournalInv, CallInv, WaitInv, ClaimInv, Next PROVE ClaimInv'
  OBVIOUS
<1>0. /\ carried \subseteq Items /\ Shells \subseteq Tasks /\ Tasks = Shells \cup Agents
      /\ claim \in [Tasks -> Transitions \cup {"none"}]
      /\ up \in {"down", "booting", "up"}
  BY DEF TypeOK, ManagerTypeOK, Tasks
<1>1. ASSUME NEW t \in Tasks PROVE claim'[t] = claim[t] \/ (AwaitSettled(t) /\ claim[t] = "none")
  <2>1. claim'[t] = claim[t] \/ AwaitSettled(t)
    BY WaitMoves DEF Unmoved
  <2>2. AwaitSettled(t) => wait[t] = "waiting"
    BY DEF AwaitSettled
  <2> QED
    BY <1>0, <2>1, <2>2 DEF WaitInv
<1>2. ASSUME NEW t \in Tasks, AwaitSettled(t)
      PROVE  claim'[t] = EndName(t) /\ Settled(t) /\ wait[t] = "waiting" /\ up' = up /\ seen'[t] \in Ends
  BY <1>2 DEF AwaitSettled, TypeOK, ManagerTypeOK, Settled
<1>3. ASSUME NEW i \in carried' PROVE claim'[i[1]] = i[2]
  <2>1. CASE i \in carried
    <3>1. i[1] \in Tasks /\ claim[i[1]] = i[2] /\ i[2] # "none"
      BY <1>0, <2>1 DEF ClaimInv, Items, Transitions
    <3> QED
      BY <1>1, <3>1
  <2>2. CASE i \notin carried
    <3>1. UNCHANGED claim /\ i \in Claimed
      <4>1. CASE DelegateReturns \/ StopReturns
        BY <1>3, <2>2, <4>1 DEF DelegateReturns, StopReturns
      <4>2. CASE HostSteps \/ Delegate \/ Crash \/ Attach
        BY <1>3, <2>2, <4>2 DEF Delegate, Attach, Crash, HostSteps, Flush, Recheck,
           PumpTimer, PersonSpeaks, BeginTurn, Resume, ResolveUncertain, FirstInput, Admit, Seal, RunSettles, Begins
      <4>3. CASE \E t \in Tasks : Watch(t)
        BY <1>3, <2>2, <4>3 DEF Watch
      <4> QED
        BY <1>3, <2>2, <4>1, <4>2, <4>3, NextIs
    <3> QED
      BY <3>1 DEF Claimed
  <2> QED
    BY <2>1, <2>2
<1>4. ASSUME NEW t \in Shells
      PROVE  claim'[t] \in Final \cup {"none"} /\ (claim'[t] # "none" => "stop" \in rec'[t])
  <2>1. CASE claim'[t] = claim[t]
    <3>1. claim[t] # "none" => "stop" \in rec[t] /\ Planned(t)
      BY <1>0 DEF ClaimInv, JournalInv
    <3> QED
      BY <1>0, <2>1, <3>1, JournalMoves DEF ClaimInv
  <2>2. CASE AwaitSettled(t)
    <3>1. {"stop", "command"} \subseteq rec[t] /\ UNCHANGED rec
      BY <1>0, <1>2, <2>2 DEF WaitInv, AwaitSettled
    <3> QED
      BY <1>0, <1>2, <2>2, <3>1, StoppedIsFinal
  <2> QED
    BY <1>0, <1>1, <2>1, <2>2
<1>5. ASSUME NEW t \in Tasks, claim'[t] # "none", ~ Slow(t)' \/ claim'[t] \in Final
      PROVE  Settled(t)' /\ EndName(t)' = claim'[t] /\ (up' # "down" => seen'[t] # "live")
  <2>1. CASE claim'[t] = claim[t]
    <3>1. Planned(t) /\ (~ Slow(t) \/ claim[t] \in Final)
      <4>1. CASE t \in Shells
        BY <1>5, <2>1, <4>1 DEF ClaimInv, JournalInv
      <4>2. CASE t \in Agents
        <5>1. Planned(t)
          BY <1>5, <2>1, <4>2 DEF CallInv
        <5> QED
          BY <1>5, <2>1, <5>1, SettledStays
      <4> QED
        BY <1>0, <4>1, <4>2
    <3>2. Firm(<<t, claim[t]>>)
      BY <3>1 DEF Firm
    <3>3. Settled(t) /\ EndName(t) = claim[t] /\ (up # "down" => seen[t] # "live")
      BY <1>5, <2>1, <3>2 DEF ClaimInv
    <3>4. Settled(t)' /\ EndName(t)' = EndName(t)
      BY <1>5, <2>1, <3>3, SettledStays
    <3>5. wait[t] # "spawning" /\ Sees(t) # "live"
      BY <1>5, <2>1, <3>3 DEF WaitInv, Sees, Settled, Ends
    <3>6. up' # "down" => seen'[t] # "live"
      <4>1. up' = "down" \/ up # "down" \/ seen'[t] = Sees(t)
        <5>1. CASE up = "down" /\ up' # "down"
          <6>1. Boot
            BY <5>1, Boots
          <6> QED
            BY <6>1 DEF Boot
        <5> QED
          BY <5>1
      <4> QED
        BY <3>3, <3>5, <4>1, SeenMoves
    <3> QED
      BY <2>1, <3>3, <3>4, <3>6
  <2>2. CASE AwaitSettled(t)
    <3>1. UNCHANGED <<rec, proc, late>>
      BY <2>2 DEF AwaitSettled
    <3> QED
      BY <1>2, <2>2, <3>1, SameEnds DEF Ends
  <2> QED
    BY <1>1, <2>1, <2>2
<1>6. \A t \in Tasks : claim'[t] # "none" /\ Firm(<<t, claim[t]>>)' =>
         Settled(t)' /\ EndName(t)' = claim'[t] /\ (up' # "down" => seen'[t] # "live")
  BY <1>5 DEF Firm
<1> QED
  BY <1>3, <1>4, <1>6 DEF ClaimInv

\* A step that leaves the calls alone, and the window or empties it.
LEMMA WaitKept ==
  ASSUME TypeOK, JournalInv, WaitInv, Next, UNCHANGED <<wait, act, claim>>,
         \A i \in Items : buffer'[i] \in {0, buffer[i]}
  PROVE  WaitInv'
<1>1. ASSUME NEW t \in Tasks, wait[t] = "spawning", t \notin twice', NEW n \in Transitions
      PROVE  buffer'[<<t, n>>] = 0
  <2>1. <<t, n>> \in Items /\ t \notin twice
    BY <1>1, TwiceGrows DEF Items
  <2> QED
    BY <1>1, <2>1 DEF WaitInv
<1>2. ASSUME NEW t \in Shells, wait[t] = "waiting" PROVE {"stop", "command"} \subseteq rec'[t]
  <2>1. t \in Tasks /\ {"stop", "command"} \subseteq rec[t]
    BY <1>2 DEF WaitInv, Tasks
  <2>2. Planned(t)
    BY <2>1 DEF JournalInv
  <2> QED
    BY <2>1, <2>2, JournalMoves
<1> QED
  BY <1>1, <1>2 DEF WaitInv

\* Between two calls nobody waits.
LEMMA NobodyWaits ==
  ASSUME WaitInv, act = NoCall
  PROVE  /\ \A t \in Tasks : wait[t] # "spawning"
         /\ \A t \in Shells : wait[t] # "waiting"
         /\ \A a \in Agents : wait[a] \notin {"spawning", "started", "waiting"}
BY DEF WaitInv, NoCall

LEMMA NewWaitsFor ==
  ASSUME TypeOK, JournalInv, BesideInv, NEW t \in Tasks, ~ Planned(t)
  PROVE  \A n \in Transitions : buffer[<<t, n>>] = 0
<1> SUFFICES ASSUME NEW n \in Transitions, buffer[<<t, n>>] # 0 PROVE FALSE
  OBVIOUS
<1>1. <<t, n>> \in Items /\ buffer[<<t, n>>] \in Nat
  BY DEF Items, TypeOK, Bags
<1>2. <<t, n>> \in Beside
  BY <1>1 DEF Beside, In
<1> QED
  BY <1>2 DEF BesideInv, Said

LEMMA WaitStep ==
  TypeOK /\ JournalInv /\ CallInv /\ WaitInv /\ ClaimInv /\ BesideInv /\ Next => WaitInv'
<1> SUFFICES ASSUME TypeOK, JournalInv, CallInv, WaitInv, ClaimInv, BesideInv, Next PROVE WaitInv'
  OBVIOUS
<1>0. /\ Shells \subseteq Tasks /\ Agents \subseteq Tasks /\ Shells \cap Agents = {} /\ Tasks = Shells \cup Agents
      /\ claim \in [Tasks -> Transitions \cup {"none"}] /\ wait \in [Tasks -> Waits]
      /\ rec \in [Tasks -> SUBSET Records]
      /\ NoCall.kind = "none" /\ NoCall.of = {}
  BY TasksAssumption DEF TypeOK, ManagerTypeOK, Tasks, NoCall
<1>T. twice \subseteq twice'
  BY TwiceGrows
<1>B. Nothing \in Bags /\ \A i \in Items : Nothing[i] = 0
  BY InNothing DEF Nothing
<1>1. ASSUME NEW t \in Tasks, TaskStep(t), UNCHANGED <<buffer, twice>> PROVE WaitInv'
  <2>1. CASE RunnerSpeaks(t) \/ CommandEnds(t) \/ RunnerDies(t) \/ StartWindowPasses(t) \/ PersonStops(t)
    <3>1. UNCHANGED <<wait, act, claim>>
      BY <2>1 DEF RunnerSpeaks, CommandEnds, RunnerDies, StartWindowPasses, PersonStops
    <3> QED
      BY <1>1, <3>1, WaitKept
  <2>2. CASE Working /\ ShellStarts(t)
    <3>1. /\ act = NoCall /\ ~ Planned(t) /\ wait' = [wait EXCEPT ![t] = "spawning"] /\ t \in Shells
          /\ act' = [kind |-> "shell", of |-> {t}] /\ claim' = claim
      BY <1>0, <2>2 DEF ShellStarts, Startable, Start, Now, CallInv
    <3>2. claim[t] = "none"
      BY <1>0, <3>1 DEF ClaimInv, JournalInv
    <3>3. \A n \in Transitions : buffer'[<<t, n>>] = 0
      BY <1>1, <3>1, NewWaitsFor
    <3>4. \A u \in Tasks : wait'[u] = IF u = t THEN "spawning" ELSE wait[u]
      BY <1>0, <3>1
    <3>5. \A u \in Tasks : wait'[u] = "spawning" =>
            /\ u \in act'.of /\ claim'[u] = "none"
            /\ u \notin twice' => \A n \in Transitions : buffer'[<<u, n>>] = 0
      BY <3>1, <3>2, <3>3, <3>4, NobodyWaits
    <3>6. \A u \in Shells : wait'[u] # "waiting"
      BY <1>0, <3>1, <3>4, NobodyWaits
    <3>7. \A a \in Agents : wait'[a] \notin {"spawning", "started", "waiting"}
      BY <1>0, <3>1, <3>4, NobodyWaits
    <3> QED
      BY <3>5, <3>6, <3>7 DEF WaitInv
  <2>3. CASE ShellStarted(t)
    <3>1. /\ act.kind = "shell" /\ act.of = {t} /\ act' = NoCall /\ claim' = claim /\ wait[t] = "spawning"
      BY <2>3 DEF ShellStarted, Spawned, SpawnTimesOut
    <3>2. \E w \in {"started", "left"} : wait' = [wait EXCEPT ![t] = w]
      BY <2>3 DEF ShellStarted, Spawned, SpawnTimesOut, Now
    <3>3. t \notin Agents
      BY <3>1 DEF WaitInv
    <3>4. \A u \in Tasks : wait'[u] # "spawning"
      BY <1>0, <3>1, <3>2 DEF WaitInv
    <3>5. \A u \in Shells : wait'[u] # "waiting"
      BY <1>0, <3>1, <3>2 DEF WaitInv
    <3>6. \A a \in Agents : wait'[a] \notin {"spawning", "started", "waiting"}
      BY <1>0, <3>1, <3>2, <3>3 DEF WaitInv
    <3> QED
      BY <3>4, <3>5, <3>6 DEF WaitInv
  <2>4. CASE AgentStarts(t)
    <3>1. /\ ~ Planned(t) /\ wait' = [wait EXCEPT ![t] = "spawning"] /\ t \in Agents
          /\ act' = act /\ claim' = claim
      BY <2>4 DEF AgentStarts, Start, Now
    <3>2. act.kind = "delegate" /\ act.of = Agents
      BY <1>0, <2>4, <3>1 DEF AgentStarts, Startable, CallInv
    <3>3. claim[t] = "none"
      BY <3>1 DEF CallInv
    <3>4. \A n \in Transitions : buffer'[<<t, n>>] = 0
      BY <1>1, <3>1, NewWaitsFor
    <3>5. \A u \in Tasks : wait'[u] = IF u = t THEN "spawning" ELSE wait[u]
      BY <1>0, <3>1
    <3>6. \A u \in Tasks : wait'[u] = "spawning" =>
            /\ u \in act'.of /\ claim'[u] = "none"
            /\ u \notin twice' => \A n \in Transitions : buffer'[<<u, n>>] = 0
      BY <1>1, <3>1, <3>2, <3>3, <3>4, <3>5 DEF WaitInv
    <3>7. \A u \in Shells : wait'[u] # "waiting"
      BY <1>0, <3>1, <3>2, <3>5 DEF WaitInv
    <3>8. \A a \in Agents : wait'[a] \in {"spawning", "started", "waiting"} => act'.kind = "delegate" /\ claim'[a] = "none"
      BY <1>0, <3>1, <3>2, <3>3, <3>5 DEF WaitInv
    <3> QED
      BY <3>6, <3>7, <3>8 DEF WaitInv
  <2>5. CASE AgentStarted(t)
    <3>1. /\ act.kind = "delegate" /\ act.of = Agents /\ act' = act /\ claim' = claim /\ rec' = rec
      BY <2>5 DEF AgentStarted, CallInv
    <3>2. wait[t] = "spawning" /\ \E w \in {"started", "left"} : wait' = [wait EXCEPT ![t] = w]
      BY <2>5 DEF AgentStarted, Spawned, SpawnTimesOut, Now
    <3>3. PICK w \in {"started", "left"} : \A u \in Tasks : wait'[u] = IF u = t THEN w ELSE wait[u]
      BY <1>0, <3>2
    <3>4. \A u \in Tasks : wait'[u] = "spawning" => wait[u] = "spawning"
      BY <3>3
    <3>5. \A u \in Shells : wait'[u] # "waiting"
      BY <1>0, <3>1, <3>3 DEF WaitInv
    <3>6. \A a \in Agents : wait'[a] \in {"spawning", "started", "waiting"} => act'.kind = "delegate" /\ claim'[a] = "none"
      BY <1>0, <3>1, <3>2, <3>3 DEF WaitInv
    <3>7. \A u \in Tasks : wait'[u] = "spawning" =>
            /\ u \in act'.of /\ claim'[u] = "none"
            /\ u \notin twice' => \A n \in Transitions : buffer'[<<u, n>>] = 0
      BY <1>1, <3>1, <3>4 DEF WaitInv
    <3> QED
      BY <3>5, <3>6, <3>7 DEF WaitInv
  <2>6. CASE Working /\ StopCall(t)
    <3>1. /\ act = NoCall /\ t \in Shells /\ wait' = [wait EXCEPT ![t] = "waiting"] /\ claim' = claim
          /\ rec' = [rec EXCEPT ![t] = @ \cup {"stop"}] /\ act' = [kind |-> "stop", of |-> {t}]
          /\ "runner" \in rec[t] /\ proc[t] = "up" /\ "stop" \notin rec[t]
      BY <2>6 DEF StopCall, Stoppable, Now, Recorded
    <3>2. claim[t] = "none" /\ {"stop", "command"} \subseteq rec'[t]
      BY <1>0, <3>1 DEF ClaimInv, JournalInv
    <3>3. \A u \in Tasks : wait'[u] = IF u = t THEN "waiting" ELSE wait[u]
      BY <1>0, <3>1
    <3>4. \A u \in Tasks : wait'[u] # "spawning"
      BY <3>1, <3>3, NobodyWaits
    <3>5. \A u \in Shells : wait'[u] = "waiting" => u = t
      BY <1>0, <3>1, <3>3, NobodyWaits
    <3>6. \A a \in Agents : wait'[a] \notin {"spawning", "started", "waiting"}
      BY <1>0, <3>1, <3>3, NobodyWaits
    <3> QED
      BY <3>1, <3>2, <3>4, <3>5, <3>6 DEF WaitInv
  <2>7. CASE AwaitSettled(t) \/ WaitEnds(t)
    <3>1. PICK w \in {"claimed", "left"} : \A u \in Tasks : wait'[u] = IF u = t THEN w ELSE wait[u]
      BY <1>0, <2>7 DEF AwaitSettled, WaitEnds, Now
    <3>2. /\ \A u \in Tasks : u # t => claim'[u] = claim[u]
          /\ act' = act /\ rec' = rec
      BY <1>0, <2>7 DEF AwaitSettled, WaitEnds
    <3>3. \A u \in Tasks : wait'[u] \in {"spawning", "started", "waiting"} => u # t /\ wait[u] = wait'[u] /\ claim'[u] = claim[u]
      BY <3>1, <3>2
    <3>4. \A u \in Tasks : wait'[u] = "spawning" =>
            /\ u \in act'.of /\ claim'[u] = "none"
            /\ u \notin twice' => \A n \in Transitions : buffer'[<<u, n>>] = 0
      BY <1>1, <3>2, <3>3 DEF WaitInv
    <3>5. \A u \in Shells : wait'[u] = "waiting" =>
            act'.kind = "stop" /\ u \in act'.of /\ {"stop", "command"} \subseteq rec'[u] /\ claim'[u] = "none"
      BY <1>0, <3>2, <3>3 DEF WaitInv
    <3>6. \A a \in Agents : wait'[a] \in {"spawning", "started", "waiting"} => act'.kind = "delegate" /\ claim'[a] = "none"
      BY <1>0, <3>2, <3>3 DEF WaitInv
    <3> QED
      BY <3>4, <3>5, <3>6 DEF WaitInv
  <2> QED
    BY <1>1, <2>1, <2>2, <2>3, <2>4, <2>5, <2>6, <2>7 DEF TaskStep
<1>2. CASE Join /\ UNCHANGED <<buffer, twice>>
  <2>1. /\ act.kind = "delegate" /\ act.of = Agents /\ act' = act /\ claim' = claim
        /\ \A u \in Tasks : wait'[u] = IF u \in act.of /\ wait[u] = "started" THEN "waiting" ELSE wait[u]
    BY <1>2 DEF Join, CallInv
  <2>2. \A u \in Tasks : wait'[u] = "spawning" => wait[u] = "spawning"
    BY <2>1
  <2>3. \A u \in Shells : wait'[u] # "waiting"
    BY <1>0, <2>1 DEF WaitInv
  <2>4. \A a \in Agents : wait'[a] \in {"spawning", "started", "waiting"} => act'.kind = "delegate" /\ claim'[a] = "none"
    BY <1>0, <2>1 DEF WaitInv
  <2>5. \A u \in Tasks : wait'[u] = "spawning" =>
          /\ u \in act'.of /\ claim'[u] = "none"
          /\ u \notin twice' => \A n \in Transitions : buffer'[<<u, n>>] = 0
    BY <1>2, <2>1, <2>2 DEF WaitInv
  <2> QED
    BY <2>3, <2>4, <2>5 DEF WaitInv
<1>3. CASE Boot /\ UNCHANGED <<buffer, twice>>
  BY <1>3, WaitKept DEF Boot
<1>4. CASE Delegate
  <2>1. act = NoCall /\ wait' = wait /\ claim' = claim
    BY <1>4 DEF Delegate
  <2> QED
    BY <2>1, NobodyWaits DEF WaitInv
<1>5. CASE DelegateReturns \/ StopReturns
  <2>1. /\ \A t \in act.of : wait[t] \in {"claimed", "left"}
        /\ act.kind = "delegate" => act.of = Agents
        /\ act.kind \in {"stop", "delegate"}
    BY <1>5 DEF DelegateReturns, StopReturns, Over, CallInv
  <2>2. /\ \A t \in Tasks : wait[t] # "spawning"
        /\ \A t \in Shells : wait[t] # "waiting"
        /\ \A a \in Agents : wait[a] \notin {"spawning", "started", "waiting"}
    BY <2>1 DEF WaitInv
  <2>3. \A t \in Tasks : wait'[t] \in {wait[t], "left"}
    BY <1>5 DEF DelegateReturns, StopReturns
  <2> QED
    BY <1>0, <2>2, <2>3 DEF WaitInv
<1>6. CASE \E t \in Tasks : Watch(t)
  <2>1. PICK t \in Tasks : Watch(t)
    BY <1>6
  <2>2. UNCHANGED <<rec, act, claim, wait>>
    BY <2>1 DEF Watch, Poll
  <2>3. CASE buffer' = buffer
    BY <2>2, <2>3, WaitKept
  <2>4. CASE buffer' # buffer
    <3>1. /\ buffer' = Both(buffer, Once({EndItem(t)}))
          /\ twice' = IF t \in act.of THEN twice \cup {t} ELSE twice
      BY <2>1, <2>4 DEF Watch, Hear
    <3>2. ASSUME NEW u \in Tasks, wait[u] = "spawning", u \notin twice', NEW n \in Transitions PROVE buffer'[<<u, n>>] = 0
      <4>1. u # t
        BY <3>1, <3>2 DEF WaitInv
      <4>2. <<u, n>> \in Items /\ <<u, n>> # EndItem(t) /\ u \notin twice
        BY <1>T, <3>2, <4>1 DEF Items, EndItem
      <4>3. buffer'[<<u, n>>] = buffer[<<u, n>>] + 0
        BY <3>1, <4>2 DEF Both, Once
      <4>4. buffer[<<u, n>>] = 0
        BY <3>2, <4>2 DEF WaitInv
      <4> QED
        BY <4>3, <4>4
    <3> QED
      BY <2>2, <3>2 DEF WaitInv
  <2> QED
    BY <2>3, <2>4
<1>7. CASE HostSteps
  <2>1. UNCHANGED <<wait, act, claim>>
    BY <1>7 DEF HostSteps, Flush, Recheck, PumpTimer, PersonSpeaks, BeginTurn, Resume,
       ResolveUncertain,
       FirstInput, Admit, Seal, RunSettles, Begins
  <2>2. buffer' = buffer \/ buffer' = Nothing
    BY <1>7 DEF HostSteps, Flush, Recheck, PumpTimer, PersonSpeaks, BeginTurn, Resume,
       ResolveUncertain,
       FirstInput, Admit, Seal, RunSettles, Begins
  <2> QED
    BY <1>B, <2>1, <2>2, WaitKept
<1>8. CASE Crash
  <2>1. \A t \in Tasks : wait'[t] \in {"left", "none"}
    BY <1>8 DEF Crash, Down
  <2> QED
    BY <1>0, <2>1 DEF WaitInv
<1>9. CASE Attach
  BY <1>9, WaitKept DEF Attach
<1> QED
  BY <1>1, <1>2, <1>3, <1>4, <1>5, <1>6, <1>7, <1>8, <1>9, NextIs DEF ManagerSteps

\* What the watcher saw end it does not see live again, but in another
\* process or while the start of the task is waited for.
LEMMA SeenHolds ==
  ASSUME TypeOK, SeenInv, Next, NEW t \in Tasks, seen[t] # "live", seen'[t] = "live"
  PROVE  up' = "down" \/ up = "down" \/ wait[t] = "spawning"
<1>0. seen \in [Tasks -> Ends \cup {"live"}]
  BY DEF TypeOK, ManagerTypeOK
<1>1. seen'[t] # seen[t] /\ Sees(t) # "live" => \/ up = "down" \/ up' = "down" \/ wait[t] = "spawning"
  BY SeenMoves
<1>2. CASE Sees(t) = "live"
  <2>1. ASSUME NEW u \in Tasks, TaskStep(u) PROVE wait[t] = "spawning"
    <3>1. CASE RunnerSpeaks(u) \/ CommandEnds(u) \/ RunnerDies(u) \/ StartWindowPasses(u) \/ PersonStops(u)
                 \/ StopCall(u) \/ ShellStarts(u) \/ AgentStarts(u) \/ WaitEnds(u)
      BY <3>1 DEF RunnerSpeaks, CommandEnds, RunnerDies, StartWindowPasses, PersonStops, StopCall,
         ShellStarts,
         AgentStarts, Start, WaitEnds
    <3>2. CASE ShellStarted(u) \/ AgentStarted(u)
      BY <1>0, <3>2 DEF ShellStarted, AgentStarted, Spawned, SpawnTimesOut
    <3>3. CASE AwaitSettled(u)
      <4>1. seen' = [seen EXCEPT ![u] = Verdict(u)] /\ Verdict(u) # "live"
        BY <3>3 DEF AwaitSettled, Settled, Ends
      <4> QED
        BY <1>0, <4>1
    <3> QED
      BY <2>1, <3>1, <3>2, <3>3 DEF TaskStep
  <2>2. CASE Crash
    BY <2>2 DEF Crash, Down
  <2>3. CASE Delegate \/ DelegateReturns \/ StopReturns \/ HostSteps \/ Attach \/ Join
    BY <2>3 DEF Delegate, DelegateReturns, StopReturns, Attach, Join, HostSteps, Flush, Recheck,
       PumpTimer, PersonSpeaks, BeginTurn, Resume, ResolveUncertain, FirstInput, Admit, Seal, RunSettles, Begins
  <2>4. CASE Boot
    BY <2>4 DEF Boot
  <2>5. ASSUME NEW u \in Tasks, Watch(u) PROVE FALSE
    <3>1. seen[u] \notin {"ended", "not_run"} /\ seen' = [seen EXCEPT ![u] = Sees(u)] /\ Sees(u) # seen[u]
      BY <2>5 DEF Watch, Poll
    <3>2. u = t
      BY <1>0, <3>1
    <3>3. seen[t] = "unknown"
      BY <1>0, <3>1, <3>2 DEF Ends
    <3>4. Sees(t) = "unknown"
      BY <3>3 DEF SeenInv, Sees, Settled, Ends
    <3> QED
      BY <1>2, <3>4
  <2> QED
    BY <2>1, <2>2, <2>3, <2>4, <2>5, NextIs DEF ManagerSteps
<1> QED
  BY <1>1, <1>2

LEMMA DownStep == TypeOK /\ CallInv /\ DownInv /\ Next => DownInv'
<1> SUFFICES ASSUME TypeOK, CallInv, DownInv, Next, up' # "up" PROVE DownInv'
  BY DEF DownInv
<1>0. /\ Shells \cap Agents = {} /\ NoCall.kind = "none" /\ NoRun.st = "none"
      /\ UNCHANGED act => UNCHANGED NoCall
  BY TasksAssumption DEF NoCall, NoRun
<1> DEFINE Same == up # "up" /\ UNCHANGED <<pending, inFlight, queue, run, buffer, act, ended>>
<1>1. Same => DownInv'
  BY DEF DownInv, NoRun, Nothing, NoCall
<1>2. ASSUME NEW u \in Tasks, TaskStep(u), UNCHANGED <<deliveryVars, run, queue>> PROVE Same
  <2>1. up # "up"
    BY <1>2 DEF TaskStep, RunnerSpeaks, CommandEnds, RunnerDies, StartWindowPasses, PersonStops,
       StopCall, ShellStarts,
       AgentStarts, Start, WaitEnds, ShellStarted, AgentStarted, AwaitSettled
  <2>2. act = NoCall
    BY <2>1 DEF DownInv
  <2>3. act' = act
    BY <1>0, <1>2, <2>1, <2>2 DEF TaskStep, RunnerSpeaks, CommandEnds, RunnerDies,
       StartWindowPasses, PersonStops, StopCall,
       ShellStarts, AgentStarts, Start, WaitEnds, ShellStarted, AgentStarted, AwaitSettled, Startable, Working
  <2> QED
    BY <1>2, <2>1, <2>3
<1>3. CASE Join /\ UNCHANGED <<deliveryVars, run, queue>>
  BY <1>0, <1>3 DEF Join, DownInv
<1>4. CASE Boot /\ UNCHANGED <<deliveryVars, run, queue>>
  BY <1>1, <1>4 DEF Boot
<1>5. CASE Crash
  BY <1>5 DEF Crash, Down, DownInv, NoCall, NoRun, Nothing
<1>6. CASE Delegate \/ DelegateReturns \/ StopReturns \/ Attach
  BY <1>0, <1>6 DEF Delegate, DelegateReturns, StopReturns, Attach, Over, Working, DownInv
<1>7. CASE HostSteps
  BY <1>7 DEF HostSteps, Flush, Recheck, PumpTimer, PersonSpeaks, BeginTurn, Resume,
     ResolveUncertain,
     FirstInput, Admit, Seal, RunSettles, Begins
<1>8. CASE \E u \in Tasks : Watch(u)
  BY <1>1, <1>8 DEF Watch, Poll, Announced
<1> QED
  BY <1>1, <1>2, <1>3, <1>4, <1>5, <1>6, <1>7, <1>8, NextIs DEF ManagerSteps

LEMMA BufferKept ==
  ASSUME TypeOK, CallInv, SeenInv, WaitInv, DownInv, BufferInv, Next, buffer' = buffer
  PROVE  BufferInv'
<1> SUFFICES ASSUME NEW i \in In(buffer), i[1] \notin twice' PROVE seen'[i[1]] # "live"
  BY TwiceGrows DEF BufferInv, In
<1> DEFINE t == i[1]
<1>1. /\ t \in Tasks /\ i = <<t, i[2]>> /\ i[2] \in Transitions /\ i \in Items /\ buffer[i] # 0
      /\ t \notin twice
  BY TwiceGrows DEF In, Items
<1>2. buffer # Nothing
  BY <1>1 DEF Nothing
<1>3. seen[t] # "live" /\ up # "down" /\ wait[t] # "spawning"
  BY <1>1, <1>2 DEF BufferInv, DownInv, WaitInv
<1>4. up' # "down" \/ buffer' = Nothing
  BY DownStep DEF DownInv, Nothing
<1> QED
  <2>1. seen'[t] = "live" => up' = "down" \/ up = "down" \/ wait[t] = "spawning"
    BY <1>1, <1>3, SeenHolds
  <2> QED
    BY <1>3, <1>4, <1>2, <2>1

LEMMA BesideStays ==
  ASSUME TypeOK, JournalInv, CallInv, WaitInv, Next, Sound(Held, Plains), BesideInv,
         \A i \in Beside' : i \in Beside \cup Has(Held) \/ (i \in Items /\ Said(i) /\ Free(i, Plains))
  PROVE  BesideInv'
<1> SUFFICES ASSUME NEW i \in Beside' PROVE Said(i)' /\ Free(i, Plains)'
  BY DEF BesideInv
<1>1. Beside \subseteq Items /\ Has(Held) \subseteq Items
  <2>1. \A b : In(b) \subseteq Items
    BY DEF In
  <2> QED
    BY <2>1, HeldIs, HasItems DEF Beside
<1>2. i \in Items /\ Said(i) /\ Free(i, Plains)
  BY <1>1 DEF BesideInv, Sound
<1> QED
  BY <1>2, MarksStay, FreeStays

\* A step that makes of what is held what the delivery made of it, g.
LEMMA HandsOn ==
  ASSUME TypeOK, JournalInv, CallInv, WaitInv, Next, NEW P, NEW g \in HeldStates, Sound(g, P),
         Grouping(g),
         P = Plains \/ (P = Plains' /\ UNCHANGED <<claim, wait>>),
         HeldBecomes(g), ended' = g.ended, noticed' = noticed, run'.first \in {run.first, Nothing}
  PROVE  (Sound(Held, Plains) /\ Grouping(Held))'
<1>1. Plains' \subseteq P
  BY MarksStay
<1>2. ASSUME NEW i \in Has(g), Free(i, P) PROVE Free(i, Plains)'
  <2>1. i \in Items /\ Said(i)
    BY HasItems DEF Sound
  <2> QED
    BY <1>2, <2>1, FreeStays DEF Free
<1>3. Sound(Held, Plains)'
  BY <1>1, <1>2, SoundBecomes
<1>4. Bundles(Held)' = Bundles(g)
  BY DEF HeldBecomes, Bundles, Held
<1>5. inFlight' \cup ItemsIn(pending') = Kept(g)
  BY DEF HeldBecomes, Kept
<1>6. Grouping(Held)'
  BY <1>4, <1>5, GroupBecomes
<1> QED
  BY <1>3, <1>6

\* A step that moves what there is from place to place.
LEMMA SoundMoves ==
  ASSUME TypeOK, JournalInv, CallInv, WaitInv, Next, Sound(Held, Plains),
         \A i \in Items : noticed'[i] + run'.first[i] + Count(Held, i)' <= noticed[i] + run.first[i] + Count(Held, i),
         Has(Held)' \subseteq Has(Held),
         \A i \in Rides(Held)' \cup In(run'.first) : i[1] \in Plains => i \in inFlight'
  PROVE  Sound(Held, Plains)'
<1>1. ASSUME NEW i \in Items, i[1] \in Plains'
      PROVE  noticed'[i] + run'.first[i] + Count(Held, i)' <= 1
  <2>1. i[1] \in Plains
    BY <1>1, MarksStay
  <2>2. noticed[i] + run.first[i] + Count(Held, i) <= 1
    BY <2>1 DEF Sound
  <2>3. noticed[i] + run.first[i] + Count(Held, i) \in Nat
    <3>1. noticed[i] \in Nat /\ run.first[i] \in Nat /\ Count(Held, i) \in Nat
      BY HeldIs, CountIs DEF TypeOK, Bags
    <3> QED
      BY <3>1
  <2>4. TypeOK' /\ Held' \in HeldStates
    <3>1. TypeOK'
      BY TypeStep
    <3>2. TypeOK => Held \in HeldStates
      BY HeldIs
    <3>3. Held' \in HeldStates
      BY <3>1 DEF TypeOK, Held, HeldStates
    <3> QED
      BY <3>1, <3>3
  <2>5. noticed'[i] \in Nat /\ run'.first[i] \in Nat /\ Count(Held, i)' \in Nat
    <3>1. Count(Held', i) \in Nat
      BY <2>4, CountIs
    <3>2. Count(Held, i)' = Count(Held', i)
      BY DEF Count, Many, Bundled, All, Both, Nothing
    <3> QED
      BY <2>4, <3>1, <3>2 DEF TypeOK, Bags
  <2> DEFINE a == noticed'[i]
             b == run'.first[i]
             c == Count(Held, i)'
             n == noticed[i] + run.first[i] + Count(Held, i)
  <2>6. a \in Nat /\ b \in Nat /\ c \in Nat /\ n \in Nat /\ a + b + c <= n /\ n <= 1
    BY <2>2, <2>3, <2>5
  <2> HIDE DEF a, b, c, n
  <2>7. a + b + c <= 1
    BY <2>6
  <2> QED
    BY <2>7 DEF a, b, c
<1>2. ASSUME NEW i \in Has(Held)' PROVE Said(i)' /\ Free(i, Plains)'
  <2>1. i \in Items /\ Said(i) /\ Free(i, Plains)
    BY HeldIs, HasItems DEF Sound
  <2> QED
    BY <2>1, MarksStay, FreeStays
<1>3. ASSUME NEW i \in (Rides(Held) \cup In(run.first))', i[1] \in Plains'
      PROVE  i \in Held'.inFlight
  <2>1. i \in Rides(Held)' \cup In(run'.first) /\ i[1] \in Plains
    BY <1>3, MarksStay DEF In
  <2> QED
    BY <2>1 DEF Held
<1> QED
  BY <1>1, <1>2, <1>3 DEF Sound

LEMMA HeldNext ==
  ASSUME NEW i
  PROVE  /\ Count(Held, i) = Many(pending, i) + Many(queue, i) + All(run.ingress)[i]
         /\ Count(Held, i)' = Many(pending', i) + Many(queue', i) + All(run'.ingress)[i]
         /\ Rides(Held)' = ItemsIn(queue') \cup BagItems(run'.ingress)
         /\ Has(Held)' = ItemsIn(pending') \cup Rides(Held)'
         /\ Bundles(Held)' = {p.items : p \in ToSet(pending')} \cup ToSet(run'.ingress)
         /\ Kept(Held)' = inFlight' \cup ItemsIn(pending')
<1>1. /\ Held.pending = pending /\ Held.queue = queue /\ Held.ingress = run.ingress
      /\ Held'.pending = pending' /\ Held'.queue = queue' /\ Held'.ingress = run'.ingress /\ Held'.inFlight = inFlight'
  BY DEF Held
<1>2. Count(Held, i) = Many(pending, i) + Many(queue, i) + All(run.ingress)[i]
  BY <1>1 DEF Count
<1>3. Count(Held, i)' = Many(pending', i) + Many(queue', i) + All(run'.ingress)[i]
  BY <1>1 DEF Count
<1>4. Rides(Held)' = ItemsIn(queue') \cup BagItems(run'.ingress)
  BY <1>1 DEF Rides
<1>5. Has(Held)' = ItemsIn(pending') \cup Rides(Held)'
  BY <1>1 DEF Has, Rides
<1>6. Bundles(Held)' = {p.items : p \in ToSet(pending')} \cup ToSet(run'.ingress)
  BY <1>1 DEF Bundles
<1>7. Kept(Held)' = inFlight' \cup ItemsIn(pending')
  BY <1>1 DEF Kept
<1> QED
  BY <1>2, <1>3, <1>4, <1>5, <1>6, <1>7

\* The counts of what is held, and where an item that counts is.
LEMMA HeldCounts ==
  ASSUME TypeOK, NEW i \in Items
  PROVE  /\ noticed[i] \in Nat /\ run.first[i] \in Nat /\ All(run.ingress)[i] \in Nat
         /\ Many(pending, i) \in Nat /\ Many(queue, i) \in Nat /\ buffer[i] \in Nat
         /\ i \in In(noticed) <=> noticed[i] > 0
         /\ i \in In(run.first) <=> run.first[i] > 0
         /\ i \in ItemsIn(pending) <=> Many(pending, i) > 0
         /\ i \in ItemsIn(queue) <=> Many(queue, i) > 0
         /\ i \in BagItems(run.ingress) <=> All(run.ingress)[i] > 0
<1>1. pending \in Seq(Notices) /\ queue \in Seq(Turns) /\ run.ingress \in Seq(Bags) /\ run.first \in Bags
      /\ noticed \in Bags /\ buffer \in Bags
  BY DEF TypeOK
<1>2. noticed[i] \in Nat /\ run.first[i] \in Nat /\ buffer[i] \in Nat
  BY <1>1 DEF Bags
<1>3. /\ Many(pending, i) \in Nat /\ (i \in ItemsIn(pending) <=> Many(pending, i) > 0)
      /\ Many(queue, i) \in Nat /\ (i \in ItemsIn(queue) <=> Many(queue, i) > 0)
  BY <1>1, ManyOne, ManyIn, CarriersAre
<1>4. All(run.ingress)[i] \in Nat /\ (i \in BagItems(run.ingress) <=> All(run.ingress)[i] > 0)
  BY <1>1, IngressIs
<1> QED
  BY <1>2, <1>3, <1>4 DEF In

\* A plain item is in one place.
LEMMA OnePlace ==
  ASSUME TypeOK, Sound(Held, Plains), NEW i \in Items, i[1] \in Plains
  PROVE  /\ i \in In(noticed) => i \notin In(run.first) /\ i \notin Has(Held)
         /\ i \in In(run.first) => i \notin Has(Held)
         /\ i \in ItemsIn(pending) => i \notin Rides(Held)
         /\ i \in ItemsIn(queue) => i \notin BagItems(run.ingress)
<1> DEFINE n == noticed[i]
           f == run.first[i]
           p == Many(pending, i)
           q == Many(queue, i)
           g == All(run.ingress)[i]
<1>1. n + f + (p + q + g) <= 1
  BY HeldNext DEF Sound
<1>2. /\ n \in Nat /\ f \in Nat /\ p \in Nat /\ q \in Nat /\ g \in Nat
      /\ i \in In(noticed) <=> n > 0
      /\ i \in In(run.first) <=> f > 0
      /\ i \in ItemsIn(pending) <=> p > 0
      /\ i \in ItemsIn(queue) <=> q > 0
      /\ i \in BagItems(run.ingress) <=> g > 0
  BY HeldCounts
<1>3. Rides(Held) = ItemsIn(queue) \cup BagItems(run.ingress) /\ Has(Held) = ItemsIn(pending) \cup Rides(Held)
  BY HeldRides
<1> HIDE DEF n, f, p, q, g
<1>4. /\ n > 0 => f = 0 /\ p = 0 /\ q = 0 /\ g = 0
      /\ f > 0 => p = 0 /\ q = 0 /\ g = 0
      /\ p > 0 => q = 0 /\ g = 0
      /\ q > 0 => g = 0
  BY <1>1, <1>2
<1> QED
  BY <1>2, <1>3, <1>4

LEMMA BeginsOnce ==
  ASSUME TypeOK, JournalInv, CallInv, WaitInv, Next, Sound(Held, Plains), Grouping(Held), BesideInv,
         NEW st, NEW by, NEW first \in Bags, Begins(st, by, first), queue' \in Seq(Turns),
         \A i \in Items : first[i] + Many(queue', i) <= Many(queue, i),
         ItemsIn(queue') \cup In(first) \subseteq ItemsIn(queue)
  PROVE  (Sound(Held, Plains) /\ Grouping(Held) /\ BesideInv)'
<1>1. /\ run'.first = first /\ run'.ingress = [k \in DOMAIN pending |-> pending[k].items]
      /\ inFlight' = inFlight \cup ItemsIn(pending) /\ pending' = <<>> /\ UNCHANGED <<noticed, ended, buffer>>
  BY HeldRides DEF Begins
<1>2. pending \in Seq(Notices)
  BY DEF TypeOK
<1> DEFINE moved == [k \in DOMAIN pending |-> pending[k].items]
<1>3. /\ moved \in Seq(Bags) /\ BagItems(moved) = ItemsIn(pending)
      /\ ToSet(moved) = {q.items : q \in ToSet(pending)}
      /\ \A i \in Items : All(moved)[i] = Many(pending, i)
  <2>1. moved \in Seq(Bags) /\ BagItems(moved) = ItemsIn(pending)
    BY <1>2, HeldAsBags
  <2>2. \A i \in Items : All(moved)[i] = Many(pending, i)
    BY <1>2, ManyMoved
  <2>3. ToSet(moved) = {moved[k] : k \in DOMAIN moved} /\ ToSet(pending) = {pending[k] : k \in DOMAIN pending}
    BY <1>2, <2>1, Elements
  <2>4. ToSet(moved) = {q.items : q \in ToSet(pending)}
    BY <2>3
  <2> QED
    BY <2>1, <2>2, <2>4
<1> HIDE DEF moved
<1>4. run'.ingress = moved
  BY <1>1 DEF moved
<1>5. ASSUME NEW i \in Items
      PROVE  noticed'[i] + run'.first[i] + Count(Held, i)' <= noticed[i] + run.first[i] + Count(Held, i)
  <2> DEFINE n == noticed[i]
             f == run.first[i]
             p == Many(pending, i)
             q == Many(queue, i)
             g == All(run.ingress)[i]
             h == first[i]
             r == Many(queue', i)
  <2>1. Count(Held, i) = p + q + g
    BY HeldNext
  <2>2. Count(Held, i)' = 0 + r + p
    <3>1. Count(Held, i)' = Many(pending', i) + Many(queue', i) + All(run'.ingress)[i]
      BY HeldNext
    <3>2. Many(<<>>, i) = 0
      BY ManyOne, CarriersAre
    <3> QED
      BY <1>1, <1>3, <1>4, <3>1, <3>2
  <2>3. n \in Nat /\ f \in Nat /\ p \in Nat /\ q \in Nat /\ g \in Nat /\ h \in Nat /\ r \in Nat /\ h + r <= q
    BY HeldCounts, ManyOne, CarriersAre DEF Bags
  <2> HIDE DEF n, f, p, q, g, h, r
  <2>4. n + h + (0 + r + p) <= n + f + (p + q + g)
    BY <2>3
  <2>5. noticed'[i] = n /\ run'.first[i] = h
    BY <1>1 DEF n, h
  <2>6. noticed'[i] + run'.first[i] + Count(Held, i)' = n + h + (0 + r + p)
    BY <2>2, <2>5
  <2>7. noticed[i] + run.first[i] + Count(Held, i) = n + f + (p + q + g)
    BY <2>1 DEF n, f
  <2> QED
    BY <2>4, <2>6, <2>7
<1>6. Rides(Held)' = ItemsIn(queue') \cup ItemsIn(pending) /\ Has(Held)' = Rides(Held)'
  <2>1. ItemsIn(pending') = {}
    BY <1>1, NoticesIn
  <2> QED
    BY <1>3, <1>4, <2>1, HeldNext
<1>7. Has(Held)' \subseteq Has(Held)
  BY <1>6, HeldRides
<1>8. \A i \in Rides(Held)' \cup In(run'.first) : i[1] \in Plains => i \in inFlight'
  BY <1>1, <1>6, HeldRides, HeldIs DEF Sound
<1>9. Sound(Held, Plains)'
  BY <1>5, <1>7, <1>8, SoundMoves
<1>10. Grouping(Held)'
  <2>1. Bundles(Held)' \subseteq Bundles(Held)
    <3>1. ToSet(pending') = {} /\ ToSet(pending) = ToSet(Held.pending)
      BY <1>1, ElementsOf DEF Held
    <3> QED
      BY <1>3, <1>4, <3>1, HeldNext DEF Bundles
  <2>2. In(noticed) \cup Kept(Held) \subseteq In(noticed') \cup inFlight' \cup ItemsIn(pending')
    BY <1>1, HeldIs DEF Kept
  <2>3. ended' = Held.ended
    BY <1>1, HeldIs
  <2> QED
    BY <2>1, <2>2, <2>3, GroupBecomes
<1>11. BesideInv'
  <2>1. Beside' \subseteq Beside \cup Has(Held)
    <3>1. Beside' = In(noticed) \cup In(buffer) \cup In(first)
      BY <1>1 DEF Beside, In
    <3> QED
      BY <3>1, HeldRides DEF Beside
  <2> QED
    BY <2>1, BesideStays
<1> QED
  BY <1>9, <1>10, <1>11

LEMMA LandsOnce ==
  ASSUME TypeOK, JournalInv, CallInv, WaitInv, Next, Sound(Held, Plains), Grouping(Held), BesideInv,
         NEW b \in Bags, Lands(b), UNCHANGED <<pending, queue, ended, buffer>>,
         run'.first \in Bags, run'.ingress \in Seq(Bags),
         \A i \in Items : run'.first[i] + All(run'.ingress)[i] + b[i] <= run.first[i] + All(run.ingress)[i],
         In(b) \subseteq In(run.first) \cup BagItems(run.ingress),
         In(run'.first) \subseteq In(run.first), BagItems(run'.ingress) \subseteq BagItems(run.ingress),
         ToSet(run'.ingress) \subseteq ToSet(run.ingress),
         \A i \in In(b) : i[1] \in Plains => i \notin ItemsIn(queue) \cup BagItems(run'.ingress) \cup In(run'.first)
  PROVE  (Sound(Held, Plains) /\ Grouping(Held) /\ BesideInv)'
<1>1. noticed' = Both(noticed, b) /\ inFlight' = inFlight \ In(b) /\ noticed \in Bags
  BY DEF Lands, TypeOK
<1>2. noticed' \in Bags /\ In(noticed') = In(noticed) \cup In(b)
  BY <1>1, InBoth
<1>3. ASSUME NEW i \in Items
      PROVE  noticed'[i] + run'.first[i] + Count(Held, i)' <= noticed[i] + run.first[i] + Count(Held, i)
  <2> DEFINE n == noticed[i]
             f == run.first[i]
             p == Many(pending, i)
             q == Many(queue, i)
             g == All(run.ingress)[i]
             h == run'.first[i]
             r == All(run'.ingress)[i]
             c == b[i]
  <2>1. Count(Held, i) = p + q + g /\ Count(Held, i)' = p + q + r
    BY HeldNext
  <2>2. n \in Nat /\ f \in Nat /\ p \in Nat /\ q \in Nat /\ g \in Nat
    BY HeldCounts
  <2>3. h \in Nat /\ r \in Nat /\ c \in Nat /\ h + r + c <= f + g
    BY IngressIs DEF Bags
  <2>4. noticed'[i] = n + c
    BY <1>1 DEF Both
  <2> HIDE DEF n, f, p, q, g, h, r, c
  <2>5. n + c + h + (p + q + r) <= n + f + (p + q + g)
    BY <2>2, <2>3
  <2>6. noticed'[i] + run'.first[i] + Count(Held, i)' = n + c + h + (p + q + r)
    BY <2>1, <2>4 DEF h
  <2>7. noticed[i] + run.first[i] + Count(Held, i) = n + f + (p + q + g)
    BY <2>1 DEF n, f
  <2> QED
    BY <2>5, <2>6, <2>7
<1>4. Rides(Held)' = ItemsIn(queue) \cup BagItems(run'.ingress) /\ Has(Held)' = ItemsIn(pending) \cup Rides(Held)'
  BY HeldNext
<1>5. Has(Held)' \subseteq Has(Held)
  BY <1>4, HeldRides
<1>6. \A i \in Rides(Held)' \cup In(run'.first) : i[1] \in Plains => i \in inFlight'
  BY <1>1, <1>4, HeldRides, HeldIs DEF Sound
<1>7. Sound(Held, Plains)'
  BY <1>3, <1>5, <1>6, SoundMoves
<1>8. Grouping(Held)'
  <2>1. Bundles(Held)' \subseteq Bundles(Held)
    BY HeldNext, HeldIs DEF Bundles
  <2>2. In(noticed) \cup Kept(Held) \subseteq In(noticed') \cup inFlight' \cup ItemsIn(pending')
    BY <1>1, <1>2, HeldIs DEF Kept
  <2>3. ended' = Held.ended
    BY HeldIs
  <2> QED
    BY <2>1, <2>2, <2>3, GroupBecomes
<1>9. BesideInv'
  <2>1. Beside' \subseteq Beside \cup Has(Held)
    <3>1. Beside' = In(noticed') \cup In(buffer) \cup In(run'.first)
      BY DEF Beside, In
    <3> QED
      BY <1>2, <3>1, HeldRides DEF Beside
  <2> QED
    BY <2>1, BesideStays
<1> QED
  BY <1>7, <1>8, <1>9

LEMMA FirstInputOnce ==
  ASSUME TypeOK, JournalInv, CallInv, WaitInv, Next, Sound(Held, Plains), Grouping(Held),
         BesideInv, FirstInput
  PROVE  (Sound(Held, Plains) /\ Grouping(Held) /\ BesideInv)'
<1>1. /\ run'.first = Nothing /\ run'.ingress = run.ingress /\ Lands(run.first)
      /\ UNCHANGED <<pending, queue, ended, buffer>>
      /\ run.first \in Bags /\ run.ingress \in Seq(Bags)
  BY DEF FirstInput, TypeOK
<1>2. Nothing \in Bags /\ In(Nothing) = {} /\ \A i \in Items : Nothing[i] = 0
  BY InNothing DEF Nothing
<1>3. ASSUME NEW i \in Items
      PROVE  run'.first[i] + All(run'.ingress)[i] + run.first[i] <= run.first[i] + All(run.ingress)[i]
  <2>1. run.first[i] \in Nat /\ All(run.ingress)[i] \in Nat
    BY HeldCounts
  <2>2. \A x, y \in Nat : 0 + y + x <= x + y
    OBVIOUS
  <2> QED
    BY <1>1, <1>2, <2>1, <2>2
<1>4. ASSUME NEW i \in In(run.first), i[1] \in Plains
      PROVE  i \notin ItemsIn(queue) \cup BagItems(run'.ingress) \cup In(run'.first)
  <2>1. i \in Items
    BY DEF In
  <2> QED
    BY <1>1, <1>2, <1>4, <2>1, OnePlace, HeldRides
<1> QED
  BY <1>1, <1>2, <1>3, <1>4, LandsOnce

LEMMA AdmitOnce ==
  ASSUME TypeOK, JournalInv, CallInv, WaitInv, Next, Sound(Held, Plains), Grouping(Held),
         BesideInv, Admit
  PROVE  (Sound(Held, Plains) /\ Grouping(Held) /\ BesideInv)'
<1> DEFINE b == All(run.ingress)
<1>1. /\ run'.first = run.first /\ run'.ingress = <<>> /\ Lands(b)
      /\ UNCHANGED <<pending, queue, ended, buffer>>
      /\ run.first \in Bags /\ run.ingress \in Seq(Bags)
  BY DEF Admit, TypeOK
<1>2. b \in Bags /\ In(b) = BagItems(run.ingress) /\ BagItems(<<>>) = {} /\ ToSet(<<>>) = {}
  BY <1>1, InAll, BagsIn, ElementsOf
<1>3. ASSUME NEW i \in Items
      PROVE  run'.first[i] + All(run'.ingress)[i] + b[i] <= run.first[i] + All(run.ingress)[i]
  <2>1. run.first[i] \in Nat /\ b[i] \in Nat /\ All(<<>>)[i] = 0
    BY <1>1, HeldCounts, IngressIs
  <2>2. \A x, y \in Nat : x + 0 + y <= x + y
    OBVIOUS
  <2> HIDE DEF b
  <2>3. run'.first[i] + All(run'.ingress)[i] + b[i] <= run.first[i] + b[i]
    BY <1>1, <2>1, <2>2
  <2> QED
    BY <2>3 DEF b
<1> HIDE DEF b
<1>4. ASSUME NEW i \in In(b), i[1] \in Plains
      PROVE  i \notin ItemsIn(queue) \cup BagItems(run'.ingress) \cup In(run'.first)
  <2>1. i \in Items
    BY DEF In
  <2> QED
    BY <1>1, <1>2, <1>4, <2>1, OnePlace, HeldRides
<1>5. \A i \in Items : run'.first[i] + All(run'.ingress)[i] + b[i] <= run.first[i] + All(run.ingress)[i]
  BY <1>3
<1>6. run'.ingress \in Seq(Bags)
  BY <1>1
<1> QED
  BY <1>1, <1>2, <1>4, <1>5, <1>6, LandsOnce

LEMMA CrashOnce ==
  ASSUME TypeOK, JournalInv, CallInv, WaitInv, Next, Sound(Held, Plains), Grouping(Held),
         BesideInv, Crash
  PROVE  (Sound(Held, Plains) /\ Grouping(Held) /\ BesideInv)'
<1>1. /\ pending' = <<>> /\ queue' = <<>> /\ run'.first = Nothing /\ run'.ingress = <<>> /\ noticed' = noticed
      /\ buffer' = Nothing
  BY DEF Crash, NoRun
<1>2. /\ ItemsIn(<<>>) = {} /\ BagItems(<<>>) = {} /\ ToSet(<<>>) = {} /\ In(Nothing) = {}
      /\ \A i \in Items : Many(<<>>, i) = 0 /\ All(<<>>)[i] = 0 /\ Nothing[i] = 0
  <2>1. <<>> \in Seq(Bags) /\ <<>> \in Seq(Turns)
    OBVIOUS
  <2>2. ASSUME NEW i \in Items PROVE Many(<<>>, i) = 0 /\ All(<<>>)[i] = 0 /\ Nothing[i] = 0
    <3>1. Many(<<>>, i) = 0
      BY ManyOne, CarriersAre
    <3>2. All(<<>>)[i] = 0
      BY <2>1, IngressIs
    <3> QED
      BY <3>1, <3>2 DEF Nothing
  <2>3. ItemsIn(<<>>) = {} /\ ToSet(<<>>) = {}
    BY <2>1, NoticesIn, ElementsOf
  <2> QED
    BY <2>2, <2>3, BagsIn, InNothing
<1>3. ASSUME NEW i \in Items
      PROVE  noticed'[i] + run'.first[i] + Count(Held, i)' <= noticed[i] + run.first[i] + Count(Held, i)
  <2>1. Count(Held, i)' = 0 + 0 + 0
    BY <1>1, <1>2, HeldNext
  <2>2. noticed[i] \in Nat /\ run.first[i] \in Nat /\ Count(Held, i) \in Nat
    BY HeldCounts, HeldIs, CountIs
  <2>3. \A x, y, z \in Nat : x + 0 + (0 + 0 + 0) <= x + y + z
    OBVIOUS
  <2> QED
    BY <1>1, <1>2, <2>1, <2>2, <2>3
<1>4. Has(Held)' = {} /\ Rides(Held)' = {} /\ Bundles(Held)' = {}
  BY <1>1, <1>2, HeldNext
<1>5. Sound(Held, Plains)'
  BY <1>1, <1>2, <1>3, <1>4, SoundMoves
<1>6. Grouping(Held)'
  BY <1>4 DEF Grouping, Singly
<1>7. BesideInv'
  <2>1. Beside' \subseteq Beside
    BY <1>1, <1>2 DEF Beside, In
  <2> QED
    BY <2>1, BesideStays
<1> QED
  BY <1>5, <1>6, <1>7

LEMMA SpeaksOnce ==
  ASSUME TypeOK, JournalInv, CallInv, WaitInv, Next, Sound(Held, Plains), Grouping(Held),
         BesideInv, PersonSpeaks
  PROVE  (Sound(Held, Plains) /\ Grouping(Held) /\ BesideInv)'
<1> DEFINE n == [by |-> "person", items |-> Nothing]
<1>1. /\ queue' = Append(queue, n) /\ n \in Turns /\ n.items = Nothing
      /\ UNCHANGED <<pending, run, inFlight, ended, buffer, noticed>> /\ queue \in Seq(Turns)
  BY InNothing DEF PersonSpeaks, Turns, TypeOK
<1> HIDE DEF n
<1>2. ASSUME NEW i \in Items
      PROVE  noticed'[i] + run'.first[i] + Count(Held, i)' <= noticed[i] + run.first[i] + Count(Held, i)
  <2>1. Many(queue', i) = Many(queue, i) + 0
    BY <1>1, ManyOne, CarriersAre DEF Nothing
  <2>2. /\ noticed[i] \in Nat /\ run.first[i] \in Nat /\ Many(pending, i) \in Nat /\ Many(queue, i) \in Nat
        /\ All(run.ingress)[i] \in Nat
    BY HeldCounts
  <2>3. \A x, y, z, v, w \in Nat : x + y + (z + (v + 0) + w) <= x + y + (z + v + w)
    OBVIOUS
  <2>4. /\ Count(Held, i)' = Many(pending, i) + (Many(queue, i) + 0) + All(run.ingress)[i]
        /\ Count(Held, i) = Many(pending, i) + Many(queue, i) + All(run.ingress)[i]
    BY <1>1, <2>1, HeldNext
  <2> QED
    BY <1>1, <2>2, <2>3, <2>4
<1>3. Rides(Held)' = Rides(Held) /\ Has(Held)' = Has(Held)
  <2>1. ItemsIn(queue') = ItemsIn(queue)
    <3>1. ItemsIn(Append(queue, n)) = ItemsIn(queue) \cup In(n.items)
      BY <1>1, NoticesIn
    <3> QED
      BY <1>1, <3>1, InNothing
  <2> QED
    BY <1>1, <2>1, HeldNext, HeldRides
<1>4. Sound(Held, Plains)'
  <2>1. \A i \in Rides(Held)' \cup In(run'.first) : i[1] \in Plains => i \in inFlight'
    BY <1>1, <1>3, HeldIs DEF Sound
  <2> QED
    BY <1>2, <1>3, <2>1, SoundMoves
<1>5. Grouping(Held)'
  <2>1. Bundles(Held)' = Bundles(Held)
    BY <1>1, HeldNext, HeldIs DEF Bundles
  <2> QED
    BY <1>1, <2>1, HeldIs, GroupBecomes DEF Kept
<1>6. BesideInv'
  <2>1. Beside' = Beside
    BY <1>1 DEF Beside, In
  <2> QED
    BY <2>1, BesideStays
<1> QED
  BY <1>4, <1>5, <1>6

LEMMA SoundFewer == \A s, P : \A Q \in SUBSET P : Sound(s, P) => Sound(s, Q)
BY DEF Sound, Free

\* A step that leaves what is held alone.
LEMMA RestOnce ==
  ASSUME TypeOK, JournalInv, CallInv, WaitInv, Next, Sound(Held, Plains), Grouping(Held), BesideInv,
         UNCHANGED <<pending, inFlight, queue, ended, noticed, buffer>>,
         run'.first = run.first, run'.ingress = run.ingress
  PROVE  (Sound(Held, Plains) /\ Grouping(Held) /\ BesideInv)'
<1>1. Held \in HeldStates /\ HeldBecomes(Held) /\ ended' = Held.ended
  BY HeldIs DEF HeldBecomes
<1>2. (Sound(Held, Plains) /\ Grouping(Held))'
  BY <1>1, HandsOn
<1>3. Beside' = Beside
  BY DEF Beside, In
<1> QED
  BY <1>2, <1>3, BesideStays

\* No call has claimed the end of a task the watcher takes for a live one.
LEMMA Unclaimed ==
  ASSUME TypeOK, ClaimInv, NEW t \in Tasks, seen[t] = "live", up # "down", t \in Shells \/ ~ Slow(t)
  PROVE  claim[t] = "none"
<1>1. claim[t] # "none" => Firm(<<t, claim[t]>>)
  BY DEF ClaimInv, Firm
<1> QED
  BY <1>1 DEF ClaimInv

LEMMA PollsLive ==
  ASSUME TypeOK, SeenInv, NEW t \in Tasks, Poll(t)
  PROVE  /\ seen[t] = "live" /\ Sees(t) # "live" /\ up # "down" /\ wait[t] # "waiting"
         /\ seen' = [seen EXCEPT ![t] = Sees(t)]
         /\ UNCHANGED <<rec, claim, proc, late, up, wait, act>>
<1>1. /\ seen[t] \notin {"ended", "not_run"} /\ up # "down" /\ wait[t] # "waiting" /\ Sees(t) # seen[t]
      /\ seen' = [seen EXCEPT ![t] = Sees(t)] /\ UNCHANGED <<rec, claim, proc, late, up, wait, act>>
      /\ seen[t] \in Ends \cup {"live"}
  BY DEF Poll, TypeOK, ManagerTypeOK
<1>2. seen[t] # "unknown"
  BY <1>1 DEF SeenInv, Sees, Settled, Ends
<1> QED
  BY <1>1, <1>2 DEF Ends

LEMMA HearsShell ==
  ASSUME TypeOK, JournalInv, CallInv, WaitInv, ClaimInv, SeenInv, BufferInv, Next,
         Sound(Held, Plains), Grouping(Held), BesideInv,
         NEW t \in Shells, Watch(t), Announced(t)
  PROVE  (Sound(Held, Plains) /\ Grouping(Held) /\ BesideInv /\ BufferInv)'
<1> DEFINE i == EndItem(t)
<1>0. t \in Tasks /\ t \notin Agents /\ i \in Items /\ i[1] = t /\ i[2] = EndName(t) /\ i[2] \in Transitions
  BY EndItemIs, TasksAssumption DEF Tasks, EndItem
<1>1. /\ seen[t] = "live" /\ Sees(t) # "live" /\ up # "down" /\ wait[t] # "waiting"
      /\ seen' = [seen EXCEPT ![t] = Sees(t)]
      /\ UNCHANGED <<rec, claim, proc, late, up, wait, act>>
  BY <1>0, PollsLive DEF Watch
<1>2. /\ UNCHANGED <<pending, inFlight, waking, ended, queue, run, noticed>>
      /\ buffer' = Both(buffer, Once({i})) /\ Settled(t)
  BY <1>0 DEF Watch, Hear, Announced
<1>3. /\ {i} \subseteq Items /\ In(Once({i})) = {i} /\ Once({i}) \in Bags
      /\ buffer' \in Bags /\ In(buffer') = In(buffer) \cup {i}
  <2>1. In(Once({i})) = {i} /\ Once({i}) \in Bags
    BY <1>0, InOnce
  <2>2. buffer \in Bags
    BY DEF TypeOK
  <2> QED
    BY <1>0, <1>2, <2>1, <2>2, InBoth
<1>4. claim[t] = "none"
  BY <1>0, <1>1, Unclaimed
<1>5. Planned(t)
  BY <1>0, <1>2, PlannedOnce
<1> HIDE DEF i
<1>6. Said(i) /\ Free(i, Plains)
  <2>1. EndItem(t) = i
    BY DEF i
  <2> QED
    BY <1>0, <1>1, <1>2, <1>4, <1>5, <2>1 DEF Said, Free, Transitions
<1>7. (Sound(Held, Plains) /\ Grouping(Held))'
  <2>1. Held \in HeldStates /\ HeldBecomes(Held) /\ ended' = Held.ended
    BY <1>2, HeldIs DEF HeldBecomes
  <2> QED
    BY <1>2, <2>1, HandsOn
<1>8. BesideInv'
  <2>1. Beside' = In(noticed') \cup In(buffer') \cup In(run'.first)
    BY DEF Beside, In
  <2>2. Beside' \subseteq Beside \cup {i}
    BY <1>2, <1>3, <2>1 DEF Beside
  <2> QED
    BY <1>0, <1>6, <2>2, BesideStays
<1>9. BufferInv'
  <2>1. ASSUME NEW j \in In(buffer') PROVE j[1] \in Shells
    BY <1>0, <1>3, <2>1 DEF BufferInv
  <2>2. ASSUME NEW j \in In(buffer'), j[1] \notin twice' PROVE buffer'[j] <= 1 /\ seen'[j[1]] # "live"
    <3>1. j \in Items /\ j[1] \in Tasks /\ j[1] \notin twice /\ buffer[j] \in Nat
      BY <2>2, TwiceGrows DEF In, Items, TypeOK, Bags
    <3>2. CASE j[1] = t
      <4>1. buffer[j] = 0
        <5>1. j \notin In(buffer)
          BY <1>1, <3>1, <3>2 DEF BufferInv
        <5> QED
          BY <3>1, <5>1 DEF In
      <4>2. j = i
        BY <1>3, <2>2, <3>1, <4>1 DEF In
      <4>3. buffer'[j] = 0 + 1
        BY <1>0, <1>2, <3>1, <4>1, <4>2 DEF Both, Once
      <4>4. seen'[t] # "live"
        BY <1>0, <1>1 DEF TypeOK, ManagerTypeOK
      <4> QED
        BY <3>2, <4>3, <4>4
    <3>3. CASE j[1] # t
      <4>1. j # i
        BY <1>0, <3>3
      <4>2. buffer'[j] = buffer[j] + 0 /\ j \in In(buffer)
        BY <1>2, <1>3, <2>2, <3>1, <4>1 DEF Both, Once
      <4>3. buffer[j] <= 1 /\ seen[j[1]] # "live"
        BY <3>1, <4>2 DEF BufferInv
      <4>4. seen'[j[1]] = seen[j[1]]
        BY <1>1, <3>1, <3>3 DEF TypeOK, ManagerTypeOK
      <4> QED
        BY <3>1, <4>2, <4>3, <4>4
    <3> QED
      BY <3>2, <3>3
  <2> QED
    BY <2>1, <2>2 DEF BufferInv, In
<1> QED
  BY <1>7, <1>8, <1>9

LEMMA HearsAgent ==
  ASSUME TypeOK, JournalInv, CallInv, WaitInv, ClaimInv, SeenInv, Next,
         Sound(Held, Plains), Grouping(Held), BesideInv,
         NEW t \in Agents, Watch(t), Announced(t)
  PROVE  (Sound(Held, Plains) /\ Grouping(Held) /\ BesideInv)'
<1> DEFINE i == EndItem(t)
           P == Plains'
           s == IF i[2] = "failed" /\ run.st # "none" THEN Hand(Held, Once({i}), Wakes(i)) ELSE Held
           e == [s EXCEPT !.ended[t] = "heard"]
           g == Groups(e, Idle)
<1>0. t \in Tasks /\ t \notin Shells /\ i \in Items /\ i[1] = t /\ i[2] = EndName(t) /\ i[2] \in Transitions
  BY EndItemIs, TasksAssumption DEF Tasks, EndItem
<1>1. /\ seen[t] = "live" /\ up # "down" /\ wait[t] # "waiting" /\ UNCHANGED <<claim, wait>>
  BY <1>0, PollsLive DEF Watch
<1>2. /\ UNCHANGED <<noticed, buffer>> /\ Settled(t)
      /\ twice' = IF t \in act.of THEN twice \cup {t} ELSE twice
      /\ IF \/ noticed[i] > 0 \/ i \in inFlight \/ i \in Pending(Held)
            \/ ended[t] # "no"
         THEN Becomes(Held) /\ UNCHANGED run
         ELSE Becomes(g) /\ run' = [run EXCEPT !.ingress = g.ingress]
  BY DEF Watch, Hear, Announced, AgentEnded
<1>3. Held \in HeldStates /\ Pending(Held) = ItemsIn(pending) /\ run \in Runs
  BY HeldIs, HeldRides, TypeIs DEF HostTyped
<1>4. CASE Becomes(Held) /\ UNCHANGED run
  <2>1. UNCHANGED <<pending, inFlight, queue, ended>>
    BY <1>4, HeldIs DEF Becomes
  <2> QED
    BY <1>2, <1>4, <2>1, RestOnce
<1>5. CASE /\ ~ (noticed[i] > 0) /\ i \notin inFlight /\ i \notin ItemsIn(pending) /\ ended[t] = "no"
           /\ Becomes(g) /\ run' = [run EXCEPT !.ingress = g.ingress]
  <2>0. P \subseteq Plains /\ (t \in P => t \notin act.of)
    <3>1. t \in P => t \notin twice'
      BY DEF Plains
    <3> QED
      BY <1>2, <3>1, MarksStay
  <2> HIDE DEF P
  <2>1. {i} \subseteq Items /\ In(Once({i})) = {i} /\ Once({i}) \in Bags /\ Once({i})[i] = 1
    <3>1. In(Once({i})) = {i} /\ Once({i}) \in Bags
      BY <1>0, InOnce
    <3> QED
      BY <1>0, <3>1 DEF Once
  <2>2. NoSlow => claim[t] = "none"
    BY <1>0, <1>1, Unclaimed DEF NoSlow
  <2>3. t \in P => NoSlow
    BY <2>0, PlainAgents
  <2>4. Planned(t)
    BY <1>0, <1>2, PlannedOnce
  <2>5. Said(i) /\ Free(i, P)
    <3>1. EndItem(t) = i
      OBVIOUS
    <3>2. t \in P => claim[t] # i[2]
      BY <1>0, <2>2, <2>3 DEF Transitions
    <3>3. t \in P => wait[t] \notin {"spawning", "started", "waiting"}
      BY <1>0, <2>0 DEF WaitInv, CallInv
    <3> HIDE DEF i
    <3> QED
      BY <1>0, <1>2, <2>4, <3>1, <3>2, <3>3 DEF Said, Free
  <2>6. Sound(Held, P)
    BY <2>0, SoundFewer
  <2>7. Brings(Held, Once({i}), P)
    <3>1. t \in P => i \notin Rides(Held) \cup In(run.first)
      BY <1>0, <1>5, <2>6, HeldIs DEF Sound
    <3>2. i \notin ItemsIn(Held.pending)
      BY <1>5, HeldIs
    <3>3. noticed[i] = 0 /\ (i \notin In(run.first) => run.first[i] = 0)
      <4>1. noticed[i] \in Nat /\ run.first[i] \in Nat /\ (i \in In(run.first) <=> run.first[i] > 0)
        BY <1>0, HeldCounts
      <4> QED
        BY <1>5, <4>1
    <3> HIDE DEF i
    <3> QED
      BY <1>0, <2>1, <2>5, <3>1, <3>2, <3>3 DEF Brings, Has
  <2>8. Wakes(i) \in BOOLEAN
    BY DEF Wakes
  <2>9. Lone(Once({i}))
    BY <2>1 DEF Lone
  <2> HIDE DEF i
  <2>10. s \in HeldStates /\ Sound(s, P) /\ (Singly(Held) => Singly(s)) /\ s.ended = ended
    <3>1. CASE s = Held
      BY <1>3, <2>6, <3>1, HeldIs
    <3>2. CASE s = Hand(Held, Once({i}), Wakes(i))
      BY <1>3, <2>1, <2>6, <2>7, <2>8, <2>9, <3>2, HandSound, HeldIs DEF Grows
    <3> QED
      BY <3>1, <3>2
  <2> HIDE DEF s
  <2>11. e \in HeldStates /\ e.pending = s.pending /\ e.queue = s.queue /\ e.ingress = s.ingress /\ e.inFlight = s.inFlight
    BY <2>10 DEF HeldStates
  <2> HIDE DEF e
  <2>12. Sound(e, P)
    <3>1. \A j \in Items : Many(e.pending, j) <= Many(s.pending, j)
      BY <2>10, <2>11, CountIs
    <3> QED
      BY <2>10, <2>11, <3>1, SoundSame
  <2>13. ~ (NoSlow /\ Done(Held))
    <3> SUFFICES ASSUME NoSlow, Done(Held) PROVE FALSE
      OBVIOUS
    <3>1. t \in Members
      BY <2>4 DEF Members
    <3>2. ToldByResult(t) \/ i \in In(noticed) \cup Kept(Held)
      BY <3>1 DEF Done, i
    <3>3. ~ ToldByResult(t)
      BY <1>0, <2>2 DEF ToldByResult, Transitions
    <3>4. i \notin In(noticed)
      BY <1>5 DEF In
    <3>5. i \notin Kept(Held)
      BY <1>5, HeldIs DEF Kept
    <3> QED
      BY <3>2, <3>3, <3>4, <3>5
  <2>14. Grouping(e)
    <3>1. Singly(s) => Singly(e)
      BY <2>11 DEF Singly, Bundles
    <3> QED
      BY <2>10, <2>13, <3>1 DEF Grouping
  <2>15. g \in HeldStates /\ Sound(g, P) /\ Grouping(g)
    BY <2>0, <2>11, <2>12, <2>14, GroupsSound
  <2>16. HeldBecomes(g) /\ ended' = g.ended /\ run'.first = run.first
    BY <1>3, <1>5 DEF HeldBecomes, Becomes, Runs
  <2> HIDE DEF g
  <2>17. (Sound(Held, Plains) /\ Grouping(Held))'
    BY <1>1, <1>2, <2>15, <2>16, HandsOn DEF P
  <2>18. Beside' = Beside
    BY <1>2, <2>16 DEF Beside, In
  <2> QED
    BY <2>17, <2>18, BesideStays
<1> QED
  BY <1>2, <1>3, <1>4, <1>5

LEMMA FlushOnce ==
  ASSUME TypeOK, JournalInv, CallInv, WaitInv, BufferInv, Next,
         Sound(Held, Plains), Grouping(Held), BesideInv, Flush
  PROVE  (Sound(Held, Plains) /\ Grouping(Held) /\ BesideInv /\ BufferInv)'
<1> DEFINE fresh == [i \in Items |-> IF noticed[i] > 0 \/ i \in inFlight \/ i \in Pending(Held)
                                     THEN 0 ELSE buffer[i]]
           handed == Hand(Held, fresh, AnyWakes(fresh))
           w == In(fresh) \cap wakeful # {}
           h == Holds(Held, fresh, w)
           p == Pump(h, TRUE)
           k == Holds(handed, fresh, w)
           s == IF fresh = Nothing THEN Held
                ELSE IF run.st = "none" THEN p
                ELSE IF Live THEN handed
                ELSE k
           P == Plains'
<1>1. /\ Becomes(s) /\ run' = [run EXCEPT !.ingress = s.ingress] /\ buffer' = Nothing
      /\ twice' = IF run.st = "sealed" THEN twice \cup {i[1] : i \in In(fresh)} ELSE twice
      /\ UNCHANGED <<claim, wait, noticed>>
  BY DEF Flush
<1>2. fresh \in Bags /\ Pending(Held) = ItemsIn(pending) /\ run \in Runs
  BY HeldRides, TypeIs DEF Bags, TypeOK, HostTyped
<1>3. ASSUME NEW i \in In(fresh)
      PROVE  /\ i \in Items /\ i \in In(buffer) /\ fresh[i] = buffer[i] /\ ~ (noticed[i] > 0)
             /\ i \notin inFlight /\ i \notin ItemsIn(pending)
  BY <1>2 DEF In
<1>4. w \in BOOLEAN /\ AnyWakes(fresh) \in BOOLEAN
  BY DEF AnyWakes
<1>5. P \subseteq Plains /\ (run.st = "sealed" => \A i \in In(fresh) : i[1] \notin P)
  <2>1. run.st = "sealed" => \A i \in In(fresh) : i[1] \in twice'
    BY <1>1
  <2>2. \A t \in P : t \notin twice'
    BY DEF Plains
  <2> QED
    BY <2>1, <2>2, MarksStay
<1> HIDE DEF fresh, w, P
<1>6. Held \in HeldStates /\ Sound(Held, P)
  BY <1>5, HeldIs, SoundFewer
<1>7. \A i \in In(fresh) : Said(i) /\ Free(i, P)
  BY <1>3, <1>5 DEF BesideInv, Beside, Free
<1>8. Brings(Held, fresh, P)
  <2> SUFFICES ASSUME NEW i \in In(fresh), i[1] \in P
               PROVE  fresh[i] = 1 /\ noticed[i] = 0 /\ run.first[i] = 0 /\ i \notin Has(Held)
    BY <1>7 DEF Brings
  <2>1. /\ noticed[i] \in Nat /\ run.first[i] \in Nat /\ buffer[i] \in Nat
        /\ (i \in In(run.first) <=> run.first[i] > 0) /\ buffer[i] > 0
    BY <1>3, HeldCounts DEF In
  <2>2. i \notin Rides(Held) \cup In(run.first)
    BY <1>3, <1>6, HeldIs DEF Sound
  <2>3. i[1] \notin twice
    BY <1>5 DEF Plains
  <2>4. buffer[i] <= 1
    BY <1>3, <2>3 DEF BufferInv
  <2>5. fresh[i] = 1 /\ noticed[i] = 0 /\ run.first[i] = 0
    BY <1>3, <2>1, <2>2, <2>4
  <2> QED
    BY <1>3, <2>2, <2>5, HeldRides
<1>9. Lone(fresh)
  BY <1>3, TasksAssumption DEF Lone, BufferInv
<1>10. handed \in HeldStates /\ Sound(handed, P) /\ Grows(Held, handed) /\ (Singly(Held) => Singly(handed))
  BY <1>2, <1>4, <1>6, <1>8, <1>9, HandSound
<1>11. h \in HeldStates /\ Sound(h, P) /\ Grows(Held, h) /\ (Singly(Held) => Singly(h))
  BY <1>2, <1>4, <1>6, <1>8, <1>9, HoldsSound
<1> HIDE DEF handed, h
<1>12. p \in HeldStates /\ Sound(p, P) /\ Grows(h, p) /\ (Singly(h) => Singly(p))
  BY <1>11, PumpSound
<1>13. run.st = "sealed" =>
         k \in HeldStates /\ Sound(k, P) /\ Grows(handed, k) /\ (Singly(handed) => Singly(k))
  <2> SUFFICES ASSUME run.st = "sealed"
               PROVE  k \in HeldStates /\ Sound(k, P) /\ Grows(handed, k) /\ (Singly(handed) => Singly(k))
    OBVIOUS
  <2>1. Brings(handed, fresh, P)
    BY <1>5, <1>7 DEF Brings
  <2> QED
    BY <1>2, <1>4, <1>9, <1>10, <2>1, HoldsSound
<1> HIDE DEF p, k
<1>14. run.st = "none" \/ Live \/ run.st = "sealed"
  BY <1>2 DEF Runs, Live
<1>15. s \in HeldStates /\ Sound(s, P) /\ Grows(Held, s) /\ (Singly(Held) => Singly(s))
  <2>1. CASE fresh = Nothing
    BY <1>6, <2>1 DEF Grows
  <2>2. CASE fresh # Nothing /\ run.st = "none"
    BY <1>11, <1>12, <2>2 DEF Grows
  <2>3. CASE fresh # Nothing /\ run.st # "none" /\ Live
    BY <1>10, <2>3
  <2>4. CASE fresh # Nothing /\ run.st # "none" /\ ~ Live
    BY <1>10, <1>13, <1>14, <2>4 DEF Grows
  <2> QED
    BY <2>1, <2>2, <2>3, <2>4
<1> HIDE DEF s
<1>16. Grouping(s)
  BY <1>15, DoneStays DEF Grouping
<1>17. HeldBecomes(s) /\ ended' = s.ended /\ run'.first = run.first
  BY <1>1, <1>2 DEF HeldBecomes, Becomes, Runs
<1>18. (Sound(Held, Plains) /\ Grouping(Held))'
  BY <1>1, <1>15, <1>16, <1>17, HandsOn DEF P
<1>19. In(buffer') = {}
  BY <1>1, InNothing
<1>20. BesideInv'
  <2>1. Beside' = In(noticed') \cup In(buffer') \cup In(run'.first)
    BY DEF Beside, In
  <2>2. Beside' \subseteq Beside
    BY <1>1, <1>17, <1>19, <2>1 DEF Beside
  <2> QED
    BY <2>2, BesideStays
<1>21. BufferInv'
  BY <1>19 DEF BufferInv, In
<1> QED
  BY <1>18, <1>20, <1>21

LEMMA RecheckOnce ==
  ASSUME TypeOK, JournalInv, CallInv, WaitInv, Next, Sound(Held, Plains), Grouping(Held),
         BesideInv, Recheck
  PROVE  (Sound(Held, Plains) /\ Grouping(Held) /\ BesideInv)'
<1> DEFINE g == Groups(Held, Idle)
<1>1. Becomes(g) /\ run' = [run EXCEPT !.ingress = g.ingress] /\ UNCHANGED <<noticed, buffer>>
  BY DEF Recheck
<1>2. Held \in HeldStates /\ run \in Runs
  BY HeldIs, TypeIs DEF HostTyped
<1>3. g \in HeldStates /\ Sound(g, Plains) /\ Grouping(g)
  BY <1>2, GroupsSound
<1> HIDE DEF g
<1>4. HeldBecomes(g) /\ ended' = g.ended /\ run'.first = run.first
  BY <1>1, <1>2 DEF HeldBecomes, Becomes, Runs
<1>5. (Sound(Held, Plains) /\ Grouping(Held))'
  BY <1>1, <1>3, <1>4, HandsOn
<1>6. Beside' = Beside
  BY <1>1, <1>4 DEF Beside, In
<1> QED
  BY <1>5, <1>6, BesideStays

LEMMA PumpTimerOnce ==
  ASSUME TypeOK, JournalInv, CallInv, WaitInv, Next, Sound(Held, Plains), Grouping(Held),
         BesideInv, PumpTimer
  PROVE  (Sound(Held, Plains) /\ Grouping(Held) /\ BesideInv)'
<1> DEFINE g == Pump(Held, Idle)
<1>1. Becomes(g) /\ run' = run /\ UNCHANGED <<noticed, buffer>>
  BY DEF PumpTimer
<1>2. Held \in HeldStates /\ g.ingress = run.ingress
  BY HeldIs DEF Pump, HeldStates
<1>3. g \in HeldStates /\ Sound(g, Plains) /\ Grows(Held, g) /\ (Singly(Held) => Singly(g))
  BY <1>2, PumpSound
<1> HIDE DEF g
<1>4. Grouping(g)
  BY <1>3, DoneStays DEF Grouping
<1>5. HeldBecomes(g) /\ ended' = g.ended
  BY <1>1, <1>2 DEF HeldBecomes, Becomes
<1>6. (Sound(Held, Plains) /\ Grouping(Held))'
  BY <1>1, <1>3, <1>4, <1>5, HandsOn
<1>7. Beside' = Beside
  BY <1>1 DEF Beside, In
<1> QED
  BY <1>6, <1>7, BesideStays

\* What a run gives back is held as it was handed on.
LEMMA ReturnedSound ==
  ASSUME TypeOK, Sound(Held, Plains), Grouping(Held)
  PROVE  Returned \in HeldStates /\ Sound(Returned, Plains) /\ Grouping(Returned)
<1> DEFINE back == [k \in DOMAIN run.ingress |->
                      [items |-> run.ingress[k], wake |-> AnyWakes(run.ingress[k])]]
<1>1. run.ingress \in Seq(Bags) /\ pending \in Seq(Notices)
  BY DEF TypeOK
<1>2. /\ back \in Seq(Notices) /\ ItemsIn(back) = BagItems(run.ingress)
      /\ \A i \in Items : Many(back, i) = All(run.ingress)[i]
      /\ {q.items : q \in ToSet(back)} = ToSet(run.ingress)
  <2>1. back \in Seq(Notices) /\ ItemsIn(back) = BagItems(run.ingress)
    BY <1>1, BagsAsHeld
  <2>2. \A i \in Items : Many(back, i) = All(run.ingress)[i]
    BY <1>1, ManyMoved
  <2>3. DOMAIN back = DOMAIN run.ingress /\ \A k \in DOMAIN run.ingress : back[k].items = run.ingress[k]
    OBVIOUS
  <2>4. {q.items : q \in ToSet(back)} = ToSet(run.ingress)
    <3> HIDE DEF back
    <3>1. ToSet(back) = {back[k] : k \in DOMAIN back}
      BY <2>1, Elements
    <3>2. ToSet(run.ingress) = {run.ingress[k] : k \in DOMAIN run.ingress}
      BY <1>1, Elements
    <3> QED
      BY <2>3, <3>1, <3>2
  <2> QED
    BY <2>1, <2>2, <2>4
<1>3. In(All(run.ingress)) = BagItems(run.ingress)
  BY <1>1, InAll
<1> DEFINE all == pending \o back
<1>4. /\ Returned.pending = all /\ Returned.inFlight = inFlight \ BagItems(run.ingress)
      /\ Returned.ended = ended /\ Returned.queue = queue /\ Returned.ingress = <<>>
      /\ Returned \in HeldStates
  <2> HIDE DEF back
  <2>1. Returned = [Held EXCEPT !.pending = all, !.ingress = <<>>,
                                !.inFlight = inFlight \ BagItems(run.ingress)]
    BY <1>3 DEF Returned, back, Held
  <2>2. <<>> \in Seq(Bags) /\ all \in Seq(Notices)
    BY <1>1, <1>2
  <2> HIDE DEF all
  <2> QED
    BY <2>1, <2>2, HeldIs DEF HeldStates
<1> HIDE DEF back
<1>5. /\ ItemsIn(all) = ItemsIn(pending) \cup BagItems(run.ingress)
      /\ ToSet(all) = ToSet(pending) \cup ToSet(back)
      /\ \A i \in Items : Many(all, i) = Many(pending, i) + All(run.ingress)[i]
  <2>1. ItemsIn(all) = ItemsIn(pending) \cup BagItems(run.ingress) /\ ToSet(all) = ToSet(pending) \cup ToSet(back)
    BY <1>1, <1>2, NoticesIn, ElementsOf
  <2>2. ASSUME NEW i \in Items PROVE Many(all, i) = Many(pending, i) + All(run.ingress)[i]
    BY <1>1, <1>2, ManyBoth, CarriersAre
  <2> QED
    BY <2>1, <2>2
<1> HIDE DEF all
<1>6. BagItems(<<>>) = {} /\ ToSet(<<>>) = {}
  BY BagsIn, ElementsOf
<1>7. Rides(Returned) = ItemsIn(queue) /\ Has(Returned) = Has(Held)
  BY <1>4, <1>5, <1>6, HeldRides DEF Has, Rides
<1>8. ASSUME NEW i \in Items PROVE Count(Returned, i) = Count(Held, i)
  <2>1. /\ Many(pending, i) \in Nat /\ Many(queue, i) \in Nat /\ All(run.ingress)[i] \in Nat
    BY HeldCounts
  <2>2. All(<<>>)[i] = 0
    BY <1>1, IngressIs
  <2>3. Count(Returned, i) = (Many(pending, i) + All(run.ingress)[i]) + Many(queue, i) + 0
    BY <1>4, <1>5, <2>2 DEF Count
  <2>4. Count(Held, i) = Many(pending, i) + Many(queue, i) + All(run.ingress)[i]
    BY HeldNext
  <2>5. \A x, y, z \in Nat : (x + z) + y + 0 = x + y + z
    OBVIOUS
  <2> QED
    BY <2>1, <2>3, <2>4, <2>5
<1>9. Sound(Returned, Plains)
  <2>1. ASSUME NEW i \in Rides(Returned) \cup In(run.first), i[1] \in Plains PROVE i \in Returned.inFlight
    <3>1. i \in Items /\ i \in inFlight
      BY <1>7, <2>1, HeldIs, HeldRides, HasItems DEF Sound, In
    <3>2. i \notin BagItems(run.ingress)
      BY <1>7, <2>1, <3>1, OnePlace, HeldRides
    <3> QED
      BY <1>4, <3>1, <3>2
  <2>2. \A i \in Has(Returned) : Said(i) /\ Free(i, Plains)
    BY <1>7 DEF Sound
  <2>3. \A i \in Items : i[1] \in Plains => noticed[i] + run.first[i] + Count(Returned, i) <= 1
    BY <1>8 DEF Sound
  <2> QED
    BY <2>1, <2>2, <2>3 DEF Sound
<1>10. Grouping(Returned)
  <2>1. Bundles(Returned) = Bundles(Held)
    BY <1>2, <1>4, <1>5, <1>6, HeldIs DEF Bundles
  <2>2. Kept(Held) \subseteq Kept(Returned) /\ Returned.ended = Held.ended
    BY <1>4, <1>5, HeldIs DEF Kept
  <2> QED
    BY <2>1, <2>2 DEF Grouping, Singly, Done
<1> QED
  BY <1>4, <1>9, <1>10

LEMMA SettlesOnce ==
  ASSUME TypeOK, JournalInv, CallInv, WaitInv, Next, Sound(Held, Plains), Grouping(Held),
         BesideInv, RunSettles
  PROVE  (Sound(Held, Plains) /\ Grouping(Held) /\ BesideInv)'
<1> DEFINE g == Groups(Returned, TRUE)
<1>1. Becomes(g) /\ run' = NoRun /\ UNCHANGED <<noticed, buffer>> /\ ~ Live
  BY DEF RunSettles, Returned, Live
<1>2. Returned \in HeldStates /\ Sound(Returned, Plains) /\ Grouping(Returned) /\ Returned.ingress = <<>>
  BY ReturnedSound, SettlesGoes
<1>3. g \in HeldStates /\ Sound(g, Plains) /\ Grouping(g)
  BY <1>2, GroupsSound
<1>4. g.ingress = <<>>
  BY <1>1, <1>2, GroupsGo DEF Goes
<1> HIDE DEF g
<1>5. HeldBecomes(g) /\ ended' = g.ended /\ run'.first = Nothing
  BY <1>1, <1>4 DEF HeldBecomes, Becomes, NoRun
<1>6. (Sound(Held, Plains) /\ Grouping(Held))'
  BY <1>1, <1>3, <1>5, HandsOn
<1>7. Beside' \subseteq Beside
  <2>1. Beside' = In(noticed') \cup In(buffer') \cup In(run'.first)
    BY DEF Beside, In
  <2> QED
    BY <1>1, <1>5, <2>1, InNothing DEF Beside
<1> QED
  BY <1>6, <1>7, BesideStays

LEMMA AttachOnce ==
  ASSUME TypeOK, JournalInv, CallInv, WaitInv, DownInv, Next,
         Sound(Held, Plains), Grouping(Held), BesideInv, Attach
  PROVE  (Sound(Held, Plains) /\ Grouping(Held) /\ BesideInv)'
<1> DEFINE S == {EndItem(t) : t \in {u \in Shells :
                   Settled(u) /\ noticed[EndItem(u)] = 0 /\ claim[u] # EndName(u)}}
           missed == [a \in Agents |->
                   IF Settled(a) /\ noticed[EndItem(a)] = 0 /\ ~ ToldByResult(a)
                   THEN "restart" ELSE "no"]
           h == IF S = {} THEN Held ELSE Holds(Held, Once(S), FALSE)
           s == [h EXCEPT !.ended = missed]
           g == Groups(s, TRUE)
<1>1. Becomes(g) /\ UNCHANGED <<run, noticed, buffer>>
  BY DEF Attach
<1>2. /\ pending = <<>> /\ inFlight = {} /\ queue = <<>> /\ run = NoRun /\ act = NoCall
  BY DEF Attach, DownInv
<1>3. S \subseteq Items
  BY EndItemIs DEF Tasks
<1>4. ASSUME NEW i \in S
      PROVE  \E t \in Shells : i = EndItem(t) /\ Settled(t) /\ noticed[i] = 0 /\ claim[t] # EndName(t)
  OBVIOUS
<1>5. missed \in [Agents -> {"no", "heard", "restart"}]
  OBVIOUS
<1> HIDE DEF S, missed
<1>6. Once(S) \in Bags /\ In(Once(S)) = S /\ \A i \in S : Once(S)[i] = 1
  BY <1>3, InOnce DEF Once
<1>7. Held \in HeldStates /\ Held.ingress = <<>> /\ Has(Held) = {} /\ Bundles(Held) = {}
  <2>1. ItemsIn(<<>>) = {} /\ BagItems(<<>>) = {} /\ ToSet(<<>>) = {}
    <3>1. <<>> \in Seq(Turns)
      OBVIOUS
    <3> QED
      BY <3>1, NoticesIn, BagsIn, ElementsOf
  <2>2. Held.pending = <<>> /\ Held.queue = <<>> /\ Held.ingress = <<>> /\ Held \in HeldStates
    BY <1>2, HeldIs DEF NoRun
  <2> QED
    BY <2>1, <2>2 DEF Has, Rides, Bundles
<1>8. ASSUME NEW i \in S
      PROVE  Said(i) /\ Free(i, Plains) /\ i[1] \in Shells /\ noticed[i] = 0 /\ run.first[i] = 0
  <2>1. PICK t \in Shells : i = EndItem(t) /\ Settled(t) /\ noticed[i] = 0 /\ claim[t] # EndName(t)
    BY <1>4
  <2>2. i[1] = t /\ i[2] = EndName(t) /\ t \in Tasks /\ t \notin Agents
    BY <2>1, TasksAssumption DEF EndItem, Tasks
  <2>3. Planned(t)
    BY <2>1, <2>2, PlannedOnce
  <2>4. wait[t] # "waiting"
    BY <1>2, NobodyWaits
  <2>5. run.first[i] = 0
    BY <1>2, <1>3 DEF NoRun, Nothing
  <2> QED
    BY <2>1, <2>2, <2>3, <2>4, <2>5 DEF Said, Free
<1>9. Brings(Held, Once(S), Plains)
  BY <1>6, <1>7, <1>8 DEF Brings
<1>10. Lone(Once(S)) /\ Singly(Held)
  BY <1>6, <1>7, <1>8, TasksAssumption DEF Lone, Singly
<1>11. h \in HeldStates /\ Sound(h, Plains) /\ Singly(h) /\ h.ingress = <<>>
  <2>1. CASE h = Held
    BY <1>7, <1>10, <2>1
  <2>2. CASE h = Holds(Held, Once(S), FALSE)
    <3>1. Holds(Held, Once(S), FALSE).ingress = Held.ingress
      BY <1>7 DEF Holds, HeldStates
    <3> QED
      BY <1>6, <1>7, <1>9, <1>10, <2>2, <3>1, HoldsSound
  <2> QED
    BY <2>1, <2>2
<1> HIDE DEF h
<1>12. /\ s \in HeldStates /\ s.pending = h.pending /\ s.queue = h.queue /\ s.ingress = h.ingress
       /\ s.inFlight = h.inFlight
  BY <1>5, <1>11 DEF HeldStates
<1> HIDE DEF s
<1>13. Sound(s, Plains)
  <2>1. \A i \in Items : Many(s.pending, i) <= Many(h.pending, i)
    BY <1>11, <1>12, CountIs
  <2> QED
    BY <1>11, <1>12, <2>1, SoundSame
<1>14. Grouping(s)
  BY <1>11, <1>12 DEF Grouping, Singly, Bundles
<1>15. g \in HeldStates /\ Sound(g, Plains) /\ Grouping(g)
  BY <1>12, <1>13, <1>14, GroupsSound
<1>16. g.ingress = <<>>
  <2>1. ~ Live
    BY <1>2 DEF Live, NoRun
  <2> QED
    BY <1>11, <1>12, <2>1, GroupsGo DEF Goes
<1> HIDE DEF g
<1>17. HeldBecomes(g) /\ ended' = g.ended
  BY <1>1, <1>2, <1>16 DEF HeldBecomes, Becomes, NoRun
<1>18. (Sound(Held, Plains) /\ Grouping(Held))'
  BY <1>1, <1>15, <1>17, HandsOn
<1>19. Beside' = Beside
  BY <1>1 DEF Beside, In
<1> QED
  BY <1>18, <1>19, BesideStays

LEMMA BeginTurnOnce ==
  ASSUME TypeOK, JournalInv, CallInv, WaitInv, Next, Sound(Held, Plains), Grouping(Held), BesideInv,
         BeginTurn \/ Resume
  PROVE  (Sound(Held, Plains) /\ Grouping(Held) /\ BesideInv)'
<1>1. queue \in Seq(Turns)
  BY DEF TypeOK
<1>2. CASE BeginTurn
  <2>1. /\ queue # <<>> /\ queue' = Tail(queue) /\ Begins("begun", Head(queue).by, Head(queue).items)
    BY <1>2 DEF BeginTurn
  <2>2. Head(queue) \in Turns /\ Tail(queue) \in Seq(Turns) /\ Head(queue).items \in Bags
    <3>1. Head(queue) \in Turns /\ Tail(queue) \in Seq(Turns)
      BY <1>1, <2>1, ElementsOf
    <3>2. \A p \in Turns : p.items \in Bags
      BY DEF Turns
    <3> QED
      BY <3>1, <3>2
  <2>3. ItemsIn(queue) = In(Head(queue).items) \cup ItemsIn(Tail(queue))
    BY <1>1, <2>1, NoticesIn
  <2>4. ASSUME NEW i \in Items PROVE Head(queue).items[i] + Many(queue', i) <= Many(queue, i)
    <3>1. /\ Many(queue, i) = Head(queue).items[i] + Many(Tail(queue), i)
          /\ Head(queue).items[i] \in Nat /\ Many(Tail(queue), i) \in Nat
      BY <1>1, <2>1, <2>2, ManyBoth, ManyOne, CarriersAre
    <3> QED
      BY <2>1, <3>1
  <2> QED
    BY <2>1, <2>2, <2>3, <2>4, BeginsOnce
<1>3. CASE Resume
  <2>1. queue' = queue /\ Begins("live", "resume", Nothing)
    BY <1>3 DEF Resume
  <2>2. ASSUME NEW i \in Items PROVE Nothing[i] + Many(queue', i) <= Many(queue, i)
    <3>1. Many(queue, i) \in Nat /\ Nothing[i] = 0
      BY HeldCounts DEF Nothing
    <3> QED
      BY <2>1, <3>1
  <2>3. ItemsIn(queue') \cup In(Nothing) \subseteq ItemsIn(queue)
    BY <2>1, InNothing
  <2>4. Nothing \in Bags
    BY InNothing
  <2> QED
    BY <1>1, <2>1, <2>2, <2>3, <2>4, BeginsOnce
<1> QED
  BY <1>2, <1>3

LEMMA OnceStep == TypeOK /\ JournalInv /\ CallInv /\ OnceInv /\ Next => OnceInv'
<1> SUFFICES ASSUME TypeOK, JournalInv, CallInv, OnceInv, Next PROVE OnceInv'
  OBVIOUS
<1>1. /\ Sound(Held, Plains) /\ Grouping(Held)
      /\ BesideInv /\ BufferInv /\ WaitInv /\ ClaimInv /\ SeenInv /\ DownInv
  BY DEF OnceInv
<1>2. WaitInv' /\ ClaimInv' /\ SeenInv' /\ DownInv'
  BY <1>1, WaitStep, ClaimStep, SeenStep, DownStep
<1> DEFINE Goal == (Sound(Held, Plains) /\ Grouping(Held) /\ BesideInv /\ BufferInv)'
<1>3. ASSUME (Sound(Held, Plains) /\ Grouping(Held) /\ BesideInv)', buffer' = buffer PROVE Goal
  BY <1>1, <1>3, BufferKept
<1> SUFFICES Goal
  BY <1>2 DEF OnceInv
<1>4. CASE ManagerSteps /\ UNCHANGED <<logVars, deliveryVars, run, queue, persons, twice>>
  <2>1. (Sound(Held, Plains) /\ Grouping(Held) /\ BesideInv)'
    BY <1>1, <1>4, RestOnce
  <2> QED
    BY <1>3, <1>4, <2>1
<1>5. CASE Delegate \/ DelegateReturns \/ StopReturns
  <2>1. UNCHANGED <<pending, inFlight, queue, ended, noticed, buffer, run>>
    BY <1>5 DEF Delegate, DelegateReturns, StopReturns
  <2>2. (Sound(Held, Plains) /\ Grouping(Held) /\ BesideInv)'
    BY <1>1, <2>1, RestOnce
  <2> QED
    BY <1>3, <2>1, <2>2
<1>6. CASE Seal \/ ResolveUncertain
  <2>1. UNCHANGED <<pending, inFlight, queue, ended, noticed, buffer>> /\ run'.first = run.first /\ run'.ingress = run.ingress
    <3>1. run \in Runs
      BY TypeIs DEF HostTyped
    <3> QED
      BY <1>6, <3>1 DEF Seal, ResolveUncertain, Runs
  <2>2. (Sound(Held, Plains) /\ Grouping(Held) /\ BesideInv)'
    BY <1>1, <2>1, RestOnce
  <2> QED
    BY <1>3, <2>1, <2>2
<1>7. CASE \E t \in Tasks : Watch(t)
  <2>1. PICK t \in Tasks : Watch(t)
    BY <1>7
  <2>2. CASE ~ Announced(t)
    <3>1. UNCHANGED <<pending, inFlight, queue, ended, noticed, buffer, run>>
      BY <2>1, <2>2 DEF Watch
    <3>2. (Sound(Held, Plains) /\ Grouping(Held) /\ BesideInv)'
      BY <1>1, <3>1, RestOnce
    <3> QED
      BY <1>3, <3>1, <3>2
  <2>3. CASE Announced(t) /\ t \in Shells
    BY <1>1, <2>1, <2>3, HearsShell
  <2>4. CASE Announced(t) /\ t \in Agents
    <3>1. buffer' = buffer
      BY <2>1, <2>4 DEF Watch, Hear
    <3>2. (Sound(Held, Plains) /\ Grouping(Held) /\ BesideInv)'
      BY <1>1, <2>1, <2>4, HearsAgent
    <3> QED
      BY <1>3, <3>1, <3>2
  <2> QED
    BY <2>2, <2>3, <2>4 DEF Tasks
<1>8. CASE Flush
  BY <1>1, <1>8, FlushOnce
<1>9. CASE Recheck \/ PumpTimer \/ PersonSpeaks \/ BeginTurn \/ Resume \/ FirstInput \/ Admit \/ RunSettles
  <2>1. buffer' = buffer
    BY <1>9 DEF Recheck, PumpTimer, PersonSpeaks, BeginTurn, Resume, FirstInput, Admit, RunSettles,
       Begins
  <2>2. (Sound(Held, Plains) /\ Grouping(Held) /\ BesideInv)'
    BY <1>1, <1>9, RecheckOnce, PumpTimerOnce, SpeaksOnce, BeginTurnOnce, FirstInputOnce, AdmitOnce,
       SettlesOnce
  <2> QED
    BY <1>3, <2>1, <2>2
<1>10. CASE Crash
  <2>1. (Sound(Held, Plains) /\ Grouping(Held) /\ BesideInv)'
    BY <1>1, <1>10, CrashOnce
  <2>2. In(buffer') = {}
    BY <1>10, InNothing DEF Crash
  <2>3. BufferInv'
    BY <2>2 DEF BufferInv, In
  <2> QED
    BY <2>1, <2>3
<1>11. CASE Attach
  <2>1. buffer' = buffer
    BY <1>11 DEF Attach
  <2>2. (Sound(Held, Plains) /\ Grouping(Held) /\ BesideInv)'
    BY <1>1, <1>11, AttachOnce
  <2> QED
    BY <1>3, <2>1, <2>2
<1> HIDE DEF Goal
<1> QED
  BY <1>4, <1>5, <1>6, <1>7, <1>8, <1>9, <1>10, <1>11, NextIs DEF HostSteps

-----------------------------------------------------------------------------
(* The invariants, together.                                               *)

CallsInv == TypeOK /\ JournalInv /\ CallInv

LEMMA AtInit == Init => IInv
<1> SUFFICES ASSUME Init PROVE IInv
  OBVIOUS
<1> USE DEF Init
<1>1. ManagerTypeOK
  BY DEF ManagerInit, ManagerTypeOK, NoCall, Records, Waits
<1>2. TypeOK
  <2>1. /\ Nothing \in Bags /\ 0 \in 0..MaxPersons /\ 0 \in 0..MaxFaults
        /\ <<>> \in Seq(Notices) /\ <<>> \in Seq(Turns) /\ <<>> \in Seq(Bags)
    BY InNothing, DeliveryAssumption
  <2>2. NoRun \in Runs
    BY <2>1 DEF NoRun, Runs
  <2> QED
    BY <1>1, <2>1, <2>2 DEF TypeOK, Runs
<1>3. JournalInv
  BY DEF ManagerInit, JournalInv
<1>4. CallInv
  BY DEF ManagerInit, CallInv, NoCall, Tasks
<1>5. HostInv
  <2>1. <<>> \in Seq(Turns) /\ queue = <<>> /\ run = NoRun
    OBVIOUS
  <2>2. Quiet(queue)
    BY <2>1, ElementsOf DEF Quiet
  <2>3. run.first = Nothing
    BY <2>1 DEF NoRun
  <2> QED
    BY <2>1, <2>2, <2>3 DEF HostInv
<1>6. FlightInv
  BY DEF FlightInv
<1>7. CoverInv
  BY DEF ManagerInit, CoverInv, Announcing, Settled, Ends
<1> QED
  BY <1>2, <1>3, <1>4, <1>5, <1>6, <1>7 DEF IInv

LEMMA Stutters ==
  UNCHANGED vars => (CallsInv => CallsInv') /\ (IInv => IInv')
<1> SUFFICES ASSUME UNCHANGED vars PROVE (CallsInv => CallsInv') /\ (IInv => IInv')
  OBVIOUS
<1> USE DEF vars
<1>1. TypeOK => TypeOK'
  BY DEF TypeOK, ManagerTypeOK, NoCall
<1>2. JournalInv => JournalInv'
  BY DEF JournalInv, Planned, Terminal
<1>3. CallInv => CallInv'
  BY DEF CallInv, Planned, NoCall
<1>4. HostInv => HostInv'
  BY DEF HostInv, NoRun
<1>5. FlightInv => FlightInv'
  BY DEF FlightInv, Riding
<1>6. CoverInv => CoverInv'
  <2> SUFFICES ASSUME NEW t \in Tasks, Announcing(t)', CoverInv PROVE Covered(t)'
    BY DEF CoverInv
  <2>1. Announcing(t) /\ EndName(t)' = EndName(t)
    BY SameEnds DEF Announcing
  <2>2. Reach' = Reach /\ Covered(t)
    BY <2>1 DEF Reach, Riding, CoverInv
  <2> QED
    BY <2>1, <2>2, CoverStays DEF ClaimedByCall, InItsGroup
<1> QED
  BY <1>1, <1>2, <1>3, <1>4, <1>5, <1>6 DEF CallsInv, IInv

LEMMA Inductive ==
  /\ CallsInv /\ [Next]_vars => CallsInv'
  /\ ~ MayDropWake /\ IInv /\ [Next]_vars => IInv'
<1>1. CallsInv /\ [Next]_vars => CallsInv'
  BY TypeStep, JournalStep, CallStep, Stutters DEF CallsInv
<1>2. ~ MayDropWake /\ IInv /\ [Next]_vars => IInv'
  BY TypeStep, JournalStep, CallStep, HostStep, FlightStep, CoverStep, Stutters DEF IInv
<1> QED
  BY <1>1, <1>2

LEMMA CoveredIsKept == IInv => NothingForgotten
<1> SUFFICES ASSUME IInv, NEW t \in Tasks, Announcing(t)
             PROVE  \/ Told(t) \/ OnItsWay(EndItem(t)) \/ InItsGroup(t) \/ ClaimedByCall(t)
                    \/ LostClaim(t) \/ FilledClaim(t)
  BY DEF NothingForgotten
<1> DEFINE i == EndItem(t)
<1>1. TypeOK /\ Covered(t) /\ i \in Items
  BY EndItemIs DEF IInv, CoverInv
<1>2. /\ queue \in Seq(Turns) /\ run.ingress \in Seq(Bags) /\ noticed \in Bags /\ buffer \in Bags
  BY <1>1 DEF TypeOK
<1> HIDE DEF i
<1>3. CASE i \in In(noticed) \cup carried
  BY <1>3 DEF In, Told, i
<1>4. CASE i \in In(buffer) \cup In(run.first)
  BY <1>4 DEF In, OnItsWay, i
<1>5. CASE i \in ItemsIn(pending)
  BY <1>1, <1>5, HeldRides DEF OnItsWay, i
<1>6. CASE i \in ItemsIn(queue)
  <2>1. PICK k \in DOMAIN queue : i \in In(queue[k].items)
    BY <1>2, <1>6, Elements DEF ItemsIn
  <2> QED
    BY <2>1 DEF In, OnItsWay, i
<1>7. CASE i \in BagItems(run.ingress)
  <2>1. PICK k \in DOMAIN run.ingress : i \in In(run.ingress[k])
    BY <1>2, <1>7, Elements DEF BagItems
  <2> QED
    BY <2>1 DEF In, OnItsWay, i
<1> QED
  BY <1>1, <1>3, <1>4, <1>5, <1>6, <1>7 DEF Covered, Reach, Riding, i

LEMMA OnceAtInit == Init => OnceInv
<1> SUFFICES ASSUME Init PROVE OnceInv
  OBVIOUS
<1>1. TypeOK
  BY AtInit DEF IInv
<1>2. /\ pending = <<>> /\ queue = <<>> /\ run.ingress = <<>> /\ run.first = Nothing /\ noticed = Nothing
      /\ buffer = Nothing /\ carried = {} /\ act = NoCall /\ up = "up"
      /\ \A t \in Tasks : wait[t] = "none" /\ claim[t] = "none" /\ seen[t] = "live"
  BY DEF Init, ManagerInit, NoRun
<1>3. /\ ItemsIn(<<>>) = {} /\ BagItems(<<>>) = {} /\ ToSet(<<>>) = {} /\ In(Nothing) = {}
      /\ \A i \in Items : Nothing[i] = 0
  <2>1. <<>> \in Seq(Turns)
    OBVIOUS
  <2> QED
    BY <2>1, NoticesIn, BagsIn, ElementsOf, InNothing DEF Nothing
<1>4. Has(Held) = {} /\ Rides(Held) = {}
  BY <1>1, <1>2, <1>3, HeldRides
<1>5. Sound(Held, Plains)
  <2>1. ASSUME NEW i \in Items PROVE noticed[i] + run.first[i] + Count(Held, i) <= 1
    <3>1. Count(Held, i) \in Nat /\ ~ (Count(Held, i) > 0)
      BY <1>1, <1>4, HeldIs, CountIs
    <3>2. \A x \in Nat : ~ (x > 0) => 0 + 0 + x <= 1
      OBVIOUS
    <3> QED
      BY <1>2, <1>3, <3>1, <3>2
  <2> QED
    BY <1>2, <1>3, <1>4, <2>1 DEF Sound
<1>6. Grouping(Held)
  <2>1. Bundles(Held) = {}
    BY <1>1, <1>2, <1>3, HeldIs DEF Bundles
  <2> QED
    BY <2>1 DEF Grouping, Singly
<1>7. BesideInv /\ BufferInv
  BY <1>2, <1>3 DEF BesideInv, Beside, BufferInv
<1>8. WaitInv /\ ClaimInv /\ SeenInv /\ DownInv
  BY <1>2 DEF WaitInv, ClaimInv, SeenInv, DownInv, Tasks
<1> QED
  BY <1>5, <1>6, <1>7, <1>8 DEF OnceInv

LEMMA OnceStutters == UNCHANGED vars /\ OnceInv => OnceInv'
<1> SUFFICES ASSUME UNCHANGED vars, OnceInv PROVE OnceInv'
  OBVIOUS
<1> USE DEF vars
<1>1. /\ Held' = Held /\ (\A t : Slow(t)' = Slow(t)) /\ (\A t : Planned(t)' = Planned(t))
      /\ \A t : Sees(t)' = Sees(t) /\ Verdict(t)' = Verdict(t)
  BY DEF Held, Slow, Planned, Sees, Settled, Verdict, Terminal
<1>2. Plains' = Plains /\ NoSlow' = NoSlow
  BY <1>1 DEF Plains, NoSlow, SlowGroup
<1>3. \A t : Settled(t)' = Settled(t) /\ EndName(t)' = EndName(t) /\ EndItem(t)' = EndItem(t)
  BY SameEnds
<1>4. \A i : Said(i)' = Said(i) /\ (Free(i, Plains)' <=> Free(i, Plains))
  BY <1>1, <1>2, <1>3 DEF Said, Firm, Free
<1>5. \A i : Count(Held, i)' = Count(Held, i)
  BY <1>1 DEF Count
<1>6. Has(Held)' = Has(Held) /\ Rides(Held)' = Rides(Held) /\ Bundles(Held)' = Bundles(Held) /\ Kept(Held)' = Kept(Held)
  BY <1>1 DEF Has, Rides, Bundles, Kept
<1>7. Sound(Held, Plains)'
  <2>1. Sound(Held, Plains)
    BY DEF OnceInv
  <2>2. \A i \in Items : i[1] \in Plains' => noticed'[i] + run'.first[i] + Count(Held, i)' <= 1
    BY <1>2, <1>5, <2>1 DEF Sound
  <2>3. \A i \in Has(Held)' : Said(i)' /\ Free(i, Plains)'
    BY <1>4, <1>6, <2>1 DEF Sound
  <2>4. \A i \in (Rides(Held) \cup In(run.first))' : i[1] \in Plains' => i \in Held'.inFlight
    BY <1>1, <1>2, <1>6, <2>1 DEF Sound, In
  <2> QED
    BY <2>2, <2>3, <2>4 DEF Sound
<1>8. Grouping(Held)'
  <2>1. GroupComplete' = GroupComplete /\ Members' = Members /\ (\A a : ToldByResult(a)' = ToldByResult(a))
    BY <1>1, <1>3 DEF GroupComplete, GroupClosed, Members, ToldByResult
  <2>2. Singly(Held)' = Singly(Held)
    BY <1>6 DEF Singly, Lone, In
  <2>3. Done(Held)' = Done(Held)
    BY <1>1, <1>3, <1>6, <2>1 DEF Done, In
  <2> QED
    BY <1>2, <2>2, <2>3 DEF OnceInv, Grouping
<1>9. BesideInv' /\ BufferInv'
  <2>1. Beside' = Beside
    BY DEF Beside, In
  <2> QED
    BY <1>4, <2>1 DEF OnceInv, BesideInv, BufferInv, In
<1>10. WaitInv' /\ SeenInv' /\ DownInv'
  BY <1>1 DEF OnceInv, WaitInv, SeenInv, DownInv, NoRun, NoCall, Nothing
<1>11. ClaimInv'
  BY <1>1, <1>3 DEF OnceInv, ClaimInv, Firm
<1> QED
  BY <1>7, <1>8, <1>9, <1>10, <1>11 DEF OnceInv

LEMMA OnceIsTold == TypeOK /\ OnceInv => ToldOnce
<1> SUFFICES ASSUME TypeOK, OnceInv, NEW i \in Items, i[1] \notin twice \cup SlowGroup
             PROVE  noticed[i] + (IF i \in carried THEN 1 ELSE 0) <= 1
  BY DEF ToldOnce
<1>1. i[1] \in Plains
  BY DEF Plains, Items
<1>2. noticed[i] \in Nat /\ noticed[i] <= 1
  <2>1. noticed[i] + run.first[i] + Count(Held, i) <= 1
    BY <1>1 DEF OnceInv, Sound
  <2>2. noticed[i] \in Nat /\ run.first[i] \in Nat /\ Count(Held, i) \in Nat
    BY HeldCounts, HeldIs, CountIs
  <2>3. \A x, y, z \in Nat : x + y + z <= 1 => x <= 1
    OBVIOUS
  <2> QED
    BY <2>1, <2>2, <2>3
<1>3. i \in carried => noticed[i] = 0
  <2> SUFFICES ASSUME i \in carried, i \in In(noticed) PROVE FALSE
    BY <1>2 DEF In
  <2>1. Free(i, Plains)
    BY DEF OnceInv, BesideInv, Beside
  <2> QED
    BY <1>1, <2>1 DEF OnceInv, ClaimInv, Free
<1> QED
  BY <1>2, <1>3

\* The types are right, whatever the host gives up.
THEOREM TasksTypeCorrect == Spec => []TypeOK
<1>1. Init => CallsInv
  BY AtInit DEF IInv, CallsInv
<1>2. CallsInv => TypeOK
  BY DEF CallsInv
<1> QED
  BY <1>1, <1>2, Inductive, PTL DEF Spec

\* "Never in neither" (delivery.ts): an end the watcher has done with is
\* told, is on its way, waits for its group, or is claimed by a call that
\* will tell it, where the host does not give up a wake's turn before its
\* input is in the log.
THEOREM EndsNotForgotten == ~ MayDropWake => (Spec => []NothingForgotten)
<1> SUFFICES ASSUME ~ MayDropWake PROVE Spec => []NothingForgotten
  OBVIOUS
<1>1. IInv /\ [Next]_vars => IInv'
  BY Inductive
<1> QED
  BY <1>1, AtInit, CoveredIsKept, PTL DEF Spec

\* "Never in both places" (delivery.ts): an end is in one notice, or in one
\* call's result, whatever the host gives up.  The ends that are announced
\* while their start is still waited for, or flushed into a sealed run, and
\* the group of a slow runner are the exceptions ToldOnce names.
THEOREM EndsToldOnce == Spec => []ToldOnce
<1> DEFINE OInv == CallsInv /\ OnceInv
<1>1. Init => OInv
  BY AtInit, OnceAtInit DEF IInv, CallsInv
<1>2. OInv /\ [Next]_vars => OInv'
  BY Inductive, OnceStep, OnceStutters DEF CallsInv
<1>3. OInv => ToldOnce
  BY OnceIsTold DEF CallsInv
<1> QED
  BY <1>1, <1>2, <1>3, PTL DEF Spec

=============================================================================
