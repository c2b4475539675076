----------------------------- MODULE DataTheorems -----------------------------
(***************************************************************************)
(* Facts about numbers, sequences and recursion that the proofs of several *)
(* modules need.  Induction and recursion are stated with sets and functions: *)
(* what holds of all is a set that holds all, and one step of a recursion is *)
(* a function, so that a proof can cite them for any data.                 *)
(***************************************************************************)
EXTENDS SequencesExt, FiniteSetTheorems, WellFoundedInduction, TLAPS

\* A set of numbers has a least element.
LEMMA LeastElement ==
    ASSUME NEW S \in SUBSET Nat, S # {}
    PROVE  \E m \in S : \A k \in S : m <= k
<1> DEFINE R == {kk \in Nat \X Nat : kk[1] < kk[2]}
<1>1. IsWellFoundedOn(R, Nat)
  BY NatLessThanWellFounded DEF OpToRel
<1>2. \A k, m \in Nat : k < m => <<k, m>> \in R
  OBVIOUS
<1> HIDE DEF R
<1>3. PICK m \in S : \A k \in S : ~(<<k, m>> \in R)
  BY <1>1, WFMin
<1>4. ASSUME NEW k \in S PROVE m <= k
  <2>1. k \in Nat /\ m \in Nat
    OBVIOUS
  <2>2. ~(k < m)
    BY <1>2, <1>3, <2>1, Zenon
  <2> QED
    BY <2>1, <2>2
<1> QED
  BY <1>4

\* A bounded one has a greatest.
LEMMA GreatestElement ==
    ASSUME NEW n \in Nat, NEW S \in SUBSET (1..n), S # {}
    PROVE  \E m \in S : \A k \in S : k <= m
<1> DEFINE Above == {m \in Nat : \A k \in S : k <= m}
<1>1. n \in Above
  OBVIOUS
<1>2. PICK m \in Above : \A k \in Above : m <= k
  <2>1. Above \in SUBSET Nat /\ Above # {}
    BY <1>1
  <2> HIDE DEF Above
  <2> QED
    BY <2>1, LeastElement
<1>3. m \in S
  <2> SUFFICES ASSUME m \notin S PROVE FALSE
    OBVIOUS
  <2>1. PICK k \in S : TRUE
    OBVIOUS
  <2>2. m # 0
    BY <2>1
  <2>3. \A j \in S : j <= m - 1
    OBVIOUS
  <2>4. m - 1 \in Above
    BY <2>2, <2>3
  <2> QED
    BY <1>2, <2>4
<1> QED
  BY <1>3

\* Min and Max choose them.
LEMMA MinMax ==
    ASSUME NEW n \in Nat, NEW S \in SUBSET (1..n), S # {}
    PROVE  /\ Min(S) \in S /\ \A k \in S : Min(S) <= k
           /\ Max(S) \in S /\ \A k \in S : k <= Max(S)
<1>1. S \in SUBSET Nat
  OBVIOUS
<1>2. \E m \in S : \A k \in S : m <= k
  BY <1>1, LeastElement
<1>3. \E m \in S : \A k \in S : k <= m
  BY GreatestElement
<1>4. \E m \in S : \A k \in S : m >= k
  BY <1>1, <1>3
<1>5. Max(S) \in S /\ \A k \in S : Max(S) >= k
  BY <1>4 DEF Max
<1> QED
  BY <1>1, <1>2, <1>5 DEF Min

\* Induction, over a set.
LEMMA SimpleInduction ==
    ASSUME NEW S \in SUBSET Nat, 0 \in S, \A n \in S : n + 1 \in S
    PROVE  S = Nat
<1> SUFFICES ASSUME Nat \ S # {} PROVE FALSE
  OBVIOUS
<1>1. PICK m \in Nat \ S : \A k \in Nat \ S : m <= k
  BY LeastElement
<1>2. m # 0
  OBVIOUS
<1>3. m - 1 \in S
  BY <1>1, <1>2
<1> QED
  BY <1>3

\* What holds of an element if it holds of all that are less deep holds of all.
LEMMA DepthInduction ==
    ASSUME NEW D, NEW depth \in [D -> Nat], NEW G \in SUBSET D,
           \A x \in D : (\A y \in D : depth[y] < depth[x] => y \in G) => x \in G
    PROVE  G = D
<1> SUFFICES ASSUME D \ G # {} PROVE FALSE
  OBVIOUS
<1> DEFINE S == {depth[x] : x \in D \ G}
<1>1. S \in SUBSET Nat /\ S # {}
  OBVIOUS
<1>2. PICK m \in S : \A k \in S : m <= k
  <2> HIDE DEF S
  <2> QED BY <1>1, LeastElement
<1>3. PICK x \in D \ G : m = depth[x]
  OBVIOUS
<1>4. \A y \in D : depth[y] < depth[x] => y \in G
  <2> SUFFICES ASSUME NEW y \in D, depth[y] < depth[x], y \notin G PROVE FALSE
    OBVIOUS
  <2>1. depth[y] \in S
    OBVIOUS
  <2>2. depth[x] <= depth[y]
    <3> HIDE DEF S
    <3> QED BY <2>1, <1>2, <1>3
  <2> QED BY <2>2
<1> QED BY <1>3, <1>4

\* A recursion that goes down has a solution.  One step of it is a function F.
GoesDown(F, D, V, depth) ==
    /\ F \in [[D -> V] -> [D -> V]]
    /\ depth \in [D -> Nat]
    /\ \A g, h \in [D -> V] : \A x \in D :
           (\A y \in D : depth[y] < depth[x] => g[y] = h[y]) => F[g][x] = F[h][x]

\* The equation has a solution: the values for ever deeper elements agree.
LEMMA Recursion ==
    ASSUME NEW F, NEW D, NEW V, NEW depth, V # {}, GoesDown(F, D, V, depth)
    PROVE  \E f \in [D -> V] : F[f] = f
<1> USE DEF GoesDown
<1>0. PICK v0 \in V : TRUE
  OBVIOUS
<1> DEFINE Solves(g, n) == \A x \in D : depth[x] < n => F[g][x] = g[x]
           Solvable == {n \in Nat : \E g \in [D -> V] : Solves(g, n)}
<1>1. Solvable = Nat
  <2>1. [x \in D |-> v0] \in [D -> V] /\ Solves([x \in D |-> v0], 0)
    OBVIOUS
  <2>2. 0 \in Solvable
    BY <2>1
  <2>3. ASSUME NEW n \in Solvable PROVE n + 1 \in Solvable
    <3>1. PICK g \in [D -> V] : Solves(g, n)
      OBVIOUS
    <3>2. F[g] \in [D -> V]
      OBVIOUS
    <3>3. ASSUME NEW x \in D, depth[x] < n + 1 PROVE F[F[g]][x] = F[g][x]
      <4>1. ASSUME NEW y \in D, depth[y] < depth[x] PROVE F[g][y] = g[y]
        <5>1. depth[y] < n
          BY <3>3, <4>1
        <5> QED BY <3>1, <5>1
      <4> QED BY <3>2, <4>1
    <3>4. Solves(F[g], n + 1)
      BY <3>3
    <3> QED BY <3>2, <3>4
  <2>4. Solvable \in SUBSET Nat
    OBVIOUS
  <2> HIDE DEF Solvable
  <2> QED BY <2>2, <2>3, <2>4, SimpleInduction
<1>2. ASSUME NEW n \in Nat, NEW m \in Nat,
             NEW g \in [D -> V], NEW h \in [D -> V], Solves(g, n), Solves(h, m)
      PROVE  \A x \in D : depth[x] < n /\ depth[x] < m => g[x] = h[x]
  <2> DEFINE G == {x \in D : depth[x] < n /\ depth[x] < m => g[x] = h[x]}
  <2>1. ASSUME NEW x \in D, \A y \in D : depth[y] < depth[x] => y \in G PROVE x \in G
    <3> SUFFICES ASSUME depth[x] < n, depth[x] < m PROVE g[x] = h[x]
      OBVIOUS
    <3>1. ASSUME NEW y \in D, depth[y] < depth[x] PROVE g[y] = h[y]
      BY <2>1, <3>1
    <3>2. F[g][x] = F[h][x]
      BY <3>1
    <3> QED BY <1>2, <3>2
  <2>2. G \in SUBSET D
    OBVIOUS
  <2>3. G = D
    <3> HIDE DEF G
    <3> QED BY <2>1, <2>2, DepthInduction
  <2> QED BY <2>3
<1> DEFINE upTo(n) == CHOOSE g \in [D -> V] : Solves(g, n)
           f == [x \in D |-> upTo(depth[x] + 1)[x]]
<1>3. \A n \in Nat : upTo(n) \in [D -> V] /\ Solves(upTo(n), n)
  <2> SUFFICES ASSUME NEW n \in Nat PROVE upTo(n) \in [D -> V] /\ Solves(upTo(n), n)
    OBVIOUS
  <2>1. n \in Solvable
    BY <1>1
  <2>2. \E g \in [D -> V] : Solves(g, n)
    BY <2>1
  <2> HIDE DEF Solves
  <2> QED BY <2>2
<1> HIDE DEF upTo
<1>4. f \in [D -> V]
  <2>1. \A x \in D : depth[x] + 1 \in Nat
    OBVIOUS
  <2> QED BY <1>3, <2>1
<1>5. ASSUME NEW n \in Nat, NEW x \in D, depth[x] < n PROVE f[x] = upTo(n)[x]
  <2>1. depth[x] + 1 \in Nat /\ depth[x] < depth[x] + 1
    OBVIOUS
  <2>2. upTo(depth[x] + 1)[x] = upTo(n)[x]
    <3> HIDE DEF Solves, f
    <3> QED BY <1>2, <1>3, <1>5, <2>1
  <2> QED BY <2>2
<1>6. ASSUME NEW x \in D PROVE F[f][x] = f[x]
  <2> DEFINE g == upTo(depth[x] + 1)
  <2>1. depth[x] + 1 \in Nat /\ depth[x] < depth[x] + 1
    OBVIOUS
  <2>2. g \in [D -> V] /\ Solves(g, depth[x] + 1)
    BY <1>3, <2>1
  <2>3. ASSUME NEW y \in D, depth[y] < depth[x] PROVE f[y] = g[y]
    <3>1. depth[y] < depth[x] + 1
      BY <2>3
    <3> HIDE DEF f
    <3> QED BY <1>5, <2>1, <3>1
  <2>4. F[g][x] = g[x]
    <3> HIDE DEF g, f
    <3> QED BY <2>1, <2>2
  <2>5. F[f][x] = F[g][x]
    <3> HIDE DEF g, f
    <3> QED BY <1>4, <2>2, <2>3
  <2> QED BY <2>4, <2>5
<1> HIDE DEF f
<1>7. F[f] \in [D -> V]
  BY <1>4
<1>8. F[f] = f
  BY <1>4, <1>6, <1>7
<1> QED BY <1>4, <1>8
-----------------------------------------------------------------------------
\* What is in a sequence made of two.
LEMMA RangeOfConcat ==
    ASSUME NEW S, NEW s \in Seq(S), NEW t \in Seq(S)
    PROVE  ToSet(s \o t) = ToSet(s) \cup ToSet(t)
<1>1. s \o t \in Seq(S) /\ Len(s \o t) = Len(s) + Len(t)
  OBVIOUS
<1>2. ASSUME NEW i \in DOMAIN s PROVE i \in DOMAIN (s \o t) /\ (s \o t)[i] = s[i]
  OBVIOUS
<1>3. ASSUME NEW i \in DOMAIN t
      PROVE  Len(s) + i \in DOMAIN (s \o t) /\ (s \o t)[Len(s) + i] = t[i]
  OBVIOUS
<1>4. ASSUME NEW i \in DOMAIN (s \o t) PROVE (s \o t)[i] \in ToSet(s) \cup ToSet(t)
  <2>1. CASE i <= Len(s) BY <2>1, <1>1 DEF ToSet
  <2>2. CASE i > Len(s)
    <3>1. i - Len(s) \in DOMAIN t /\ (s \o t)[i] = t[i - Len(s)]
      BY <1>1, <2>2
    <3> QED BY <3>1 DEF ToSet
  <2> QED BY <2>1, <2>2, <1>1
<1>5. ToSet(s \o t) \subseteq ToSet(s) \cup ToSet(t)
  BY <1>4 DEF ToSet
<1>6. ToSet(s) \subseteq ToSet(s \o t)
  BY <1>2 DEF ToSet
<1>7. ToSet(t) \subseteq ToSet(s \o t)
  BY <1>3 DEF ToSet
<1> QED BY <1>5, <1>6, <1>7

\* FlattenSeq appends one sequence after the other.
LEMMA FlattenSteps ==
    ASSUME NEW S, NEW ss \in Seq(Seq(S))
    PROVE  \E flat \in [0..Len(ss) -> Seq(S)] :
               /\ flat[0] = <<>>
               /\ \A i \in 1..Len(ss) : flat[i] = flat[i - 1] \o ss[i]
               /\ FlattenSeq(ss) = flat[Len(ss)]
<1>0. Len(ss) \in Nat /\ DOMAIN ss = 1..Len(ss) /\ <<>> \in Seq(S)
  OBVIOUS
<1>1. CASE Len(ss) = 0
  <2>1. [i \in 0..Len(ss) |-> <<>>] \in [0..Len(ss) -> Seq(S)] /\ ss = <<>>
    BY <1>0, <1>1
  <2>2. FlattenSeq(ss) = <<>>
    BY <1>1, <2>1 DEF FlattenSeq
  <2> DEFINE flat == [i \in 0..Len(ss) |-> <<>>]
  <2>3. flat \in [0..Len(ss) -> Seq(S)] /\ flat[0] = <<>> /\ flat[Len(ss)] = <<>>
    BY <1>0, <1>1
  <2>4. 1..Len(ss) = {}
    BY <1>1
  <2> HIDE DEF flat
  <2> QED
    BY <2>2, <2>3, <2>4
<1>2. CASE Len(ss) # 0
  <2> DEFINE D == 1..Len(ss)
             step(g, i) == IF i = 1 THEN ss[i] ELSE g[i - 1] \o ss[i]
             F == [g \in [D -> Seq(S)] |-> [i \in D |-> step(g, i)]]
             depth == [i \in D |-> i]
             flatten == CHOOSE g : g = [i \in D |-> step(g, i)]
  <2>1. Len(ss) \in D /\ D \subseteq Nat
    BY <1>2
  <2>2. \A i \in D : ss[i] \in Seq(S)
    OBVIOUS
  <2>3. PICK f \in [D -> Seq(S)] : f = [i \in D |-> step(f, i)]
    <3>1. F \in [[D -> Seq(S)] -> [D -> Seq(S)]]
      <4> SUFFICES ASSUME NEW g \in [D -> Seq(S)], NEW i \in D PROVE step(g, i) \in Seq(S)
        OBVIOUS
      <4>1. CASE i = 1 BY <4>1, <2>2
      <4>2. CASE i # 1
        <5>1. i - 1 \in D BY <4>2
        <5>2. g[i - 1] \in Seq(S) /\ ss[i] \in Seq(S)
          <6> HIDE DEF D
          <6> QED BY <5>1, <2>2
        <5> QED BY <4>2, <5>2
      <4> QED BY <4>1, <4>2
    <3>2. depth \in [D -> Nat] /\ \A i \in D : depth[i] = i
      OBVIOUS
    <3>3. ASSUME NEW g \in [D -> Seq(S)], NEW h \in [D -> Seq(S)], NEW i \in D,
                 \A j \in D : depth[j] < depth[i] => g[j] = h[j]
          PROVE  F[g][i] = F[h][i]
      <4>1. CASE i = 1 BY <4>1
      <4>2. CASE i # 1
        <5>1. i - 1 \in D /\ i - 1 < i BY <4>2
        <5>2. g[i - 1] = h[i - 1] BY <3>2, <3>3, <5>1
        <5> QED BY <5>2
      <4> QED BY <4>1, <4>2
    <3>4. \E g \in [D -> Seq(S)] : F[g] = g
      <4> HIDE DEF F, depth, D
      <4>1. GoesDown(F, D, Seq(S), depth)
        BY <3>1, <3>2, <3>3 DEF GoesDown
      <4> QED BY <1>0, <4>1, Recursion
    <3> QED BY <3>4
  <2>4. flatten = [i \in D |-> step(flatten, i)]
    BY <2>3
  <2>5. FlattenSeq(ss) = flatten[Len(ss)]
    BY <1>2 DEF FlattenSeq
  <2> HIDE DEF flatten
  <2>6. flatten[1] = ss[1] /\ f[1] = ss[1]
    BY <2>3, <2>4, <1>2
  <2>7. \A i \in D : i # 1 => flatten[i] = flatten[i - 1] \o ss[i]
    BY <2>4
  <2>8. \A i \in D : i # 1 => f[i] = f[i - 1] \o ss[i]
    BY <2>3
  <2>9. flatten[Len(ss)] = f[Len(ss)]
    <3> DEFINE Same == {i \in Nat : i + 1 \in D => flatten[i + 1] = f[i + 1]}
    <3>1. 0 \in Same
      BY <2>6
    <3>2. ASSUME NEW i \in Same PROVE i + 1 \in Same
      <4>1. i \in Nat /\ (i + 1 \in D => flatten[i + 1] = f[i + 1])
        BY <3>2
      <4> SUFFICES ASSUME (i + 1) + 1 \in D PROVE flatten[(i + 1) + 1] = f[(i + 1) + 1]
        BY <4>1
      <4>2. i + 1 \in D /\ (i + 1) + 1 # 1 /\ ((i + 1) + 1) - 1 = i + 1
        BY <4>1
      <4> HIDE DEF D
      <4> QED
        BY <2>7, <2>8, <4>1, <4>2
    <3>3. Same \in SUBSET Nat
      OBVIOUS
    <3>4. Same = Nat
      <4> HIDE DEF Same
      <4> QED BY <3>1, <3>2, <3>3, SimpleInduction
    <3> DEFINE last == Len(ss) - 1
    <3>5. last \in Nat /\ last + 1 = Len(ss)
      BY <1>0, <1>2
    <3> HIDE DEF last
    <3>6. last \in Same
      BY <3>4, <3>5
    <3> QED BY <2>1, <3>5, <3>6
  <2> DEFINE flat == [i \in 0..Len(ss) |-> IF i = 0 THEN <<>> ELSE f[i]]
  <2>10. \A i \in 0..Len(ss) : i # 0 => i \in D
    BY <1>0
  <2>11. \A i \in D : f[i] \in Seq(S)
    OBVIOUS
  <2>12. flat \in [0..Len(ss) -> Seq(S)]
    <3> HIDE DEF D
    <3> QED BY <1>0, <2>10, <2>11
  <2>13. flat[0] = <<>> /\ flat[Len(ss)] = f[Len(ss)]
    BY <1>0, <1>2
  <2>14. ASSUME NEW i \in 1..Len(ss) PROVE flat[i] = flat[i - 1] \o ss[i]
    <3>1. CASE i = 1
      <4>1. flat[1] = ss[1] /\ flat[1 - 1] = <<>> /\ ss[1] \in Seq(S)
        <5>1. 1 \in 0..Len(ss) /\ 0 \in 0..Len(ss) /\ 1 - 1 = 0 /\ 1 \in D
          BY <1>0, <3>1
        <5>2. flat[1] = f[1] /\ flat[0] = <<>>
          <6> HIDE DEF D
          <6> QED BY <5>1
        <5> QED BY <2>2, <2>6, <5>1, <5>2
      <4>2. <<>> \o ss[1] = ss[1]
        BY <4>1
      <4> QED BY <3>1, <4>1, <4>2
    <3>2. CASE i # 1
      <4>1. flat[i] = f[i] /\ flat[i - 1] = f[i - 1]
        BY <1>0, <3>2
      <4> QED BY <2>8, <3>2, <4>1
    <3> QED BY <3>1, <3>2
  <2> HIDE DEF flat
  <2>15. FlattenSeq(ss) = flat[Len(ss)]
    BY <2>5, <2>9, <2>13
  <2> QED BY <2>12, <2>13, <2>14, <2>15
<1> QED BY <1>1, <1>2

\* FlattenSeq yields what is in any of the sequences.
LEMMA FlattenSeqRange ==
    ASSUME NEW S, NEW ss \in Seq(Seq(S))
    PROVE  /\ FlattenSeq(ss) \in Seq(S)
           /\ ToSet(FlattenSeq(ss)) = UNION {ToSet(ss[i]) : i \in DOMAIN ss}
<1> DEFINE n == Len(ss)
<1>1. n \in Nat /\ DOMAIN ss = 1..n /\ \A i \in 1..n : ss[i] \in Seq(S)
  OBVIOUS
<1>2. PICK flat \in [0..n -> Seq(S)] : /\ flat[0] = <<>>
                                       /\ \A i \in 1..n : flat[i] = flat[i - 1] \o ss[i]
                                       /\ FlattenSeq(ss) = flat[n]
  BY FlattenSteps
<1> HIDE DEF n
<1> DEFINE yields(i) == ToSet(flat[i]) = UNION {ToSet(ss[j]) : j \in 1..i}
           Done == {i \in Nat : i <= n => yields(i)}
<1>3. 0 \in Done
  <2>1. 1..0 = {} /\ ToSet(<<>>) = {}
    BY DEF ToSet
  <2> QED
    BY <1>2, <2>1
<1>4. ASSUME NEW i \in Nat, i \in Done, i + 1 <= n
      PROVE  yields(i + 1)
  <2>1. i <= n => ToSet(flat[i]) = UNION {ToSet(ss[j]) : j \in 1..i}
    BY <1>4
  <2> HIDE DEF Done
  <2>2. i + 1 \in 1..n /\ (i + 1) - 1 = i /\ i \in 0..n /\ i <= n
    BY <1>1, <1>4
  <2>3. flat[i + 1] = flat[i] \o ss[i + 1] /\ flat[i] \in Seq(S) /\ ss[i + 1] \in Seq(S)
    BY <1>1, <1>2, <2>2
  <2>4. ToSet(flat[i + 1]) = ToSet(flat[i]) \cup ToSet(ss[i + 1])
    BY <2>3, RangeOfConcat
  <2>5. 1..(i + 1) = 1..i \cup {i + 1}
    OBVIOUS
  <2>6. UNION {ToSet(ss[j]) : j \in 1..(i + 1)} =
            (UNION {ToSet(ss[j]) : j \in 1..i}) \cup ToSet(ss[i + 1])
    BY <2>5
  <2> QED
    BY <2>1, <2>2, <2>4, <2>6
<1>5. Done \in SUBSET Nat
  OBVIOUS
<1>6. Done = Nat
  <2>1. \A i \in Done : i + 1 \in Done
    <3> HIDE DEF yields
    <3> QED
      BY <1>4
  <2> HIDE DEF Done
  <2> QED
    BY <1>3, <1>5, <2>1, SimpleInduction
<1>7. n \in Done
  BY <1>1, <1>6
<1> QED
  BY <1>1, <1>2, <1>7
=============================================================================
