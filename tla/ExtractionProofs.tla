--------------------------- MODULE ExtractionProofs ---------------------------
(***************************************************************************)
(* From what the walk finds to what is listed: why sorting, grouping and   *)
(* dropping what repeats itself loses nothing and mixes nothing up, for every *)
(* response, alphabet and set of vendors.                                  *)
(***************************************************************************)
EXTENDS DocumentProofs

\* R is a strict total order on S.
Orders(R, S) ==
    /\ \A x \in S : <<x, x>> \notin R
    /\ \A x, y, z \in S : <<x, y>> \in R /\ <<y, z>> \in R => <<x, z>> \in R
    /\ \A x, y \in S : x # y => <<x, y>> \in R \/ <<y, x>> \in R

\* inOrder lists every element of a finite set once, in the order given: what a sort
\* by a total order does.
LEMMA InOrder ==
    ASSUME NEW S, NEW R, IsFiniteSet(S), Orders(R, S)
    PROVE  /\ Cardinality(S) \in Nat
           /\ inOrder(S, R) \in [1..Cardinality(S) -> S]
           /\ \A x \in S : \E n \in 1..Cardinality(S) : inOrder(S, R)[n] = x
           /\ \A m, n \in 1..Cardinality(S) :
                  m < n => <<inOrder(S, R)[m], inOrder(S, R)[n]>> \in R
<1> DEFINE ahead(x) == {y \in S : <<y, x>> \in R}
           rankOf == [x \in S |-> Cardinality(ahead(x))]
           N == Cardinality(S)
<1>1. N \in Nat
  BY FS_CardinalityType
<1>2. \A x \in S : IsFiniteSet(ahead(x)) /\ Cardinality(ahead(x)) \in Nat
  <2> SUFFICES ASSUME NEW x \in S PROVE IsFiniteSet(ahead(x)) /\ Cardinality(ahead(x)) \in Nat
    OBVIOUS
  <2>1. ahead(x) \in SUBSET S
    OBVIOUS
  <2> HIDE DEF ahead
  <2>2. IsFiniteSet(ahead(x))
    BY <2>1, FS_Subset
  <2> QED BY <2>2, FS_CardinalityType
<1>3. ASSUME NEW x \in S, NEW T, IsFiniteSet(T), ahead(x) \cup {x} \subseteq T
      PROVE  Cardinality(ahead(x)) < Cardinality(T)
  <2>1. x \notin ahead(x)
    BY DEF Orders
  <2> HIDE DEF ahead
  <2>2. Cardinality(ahead(x) \cup {x}) = Cardinality(ahead(x)) + 1
    BY <1>2, <2>1, FS_AddElement
  <2>3. Cardinality(ahead(x) \cup {x}) <= Cardinality(T)
    BY <1>3, FS_Subset
  <2>4. Cardinality(T) \in Nat
    BY <1>3, FS_CardinalityType
  <2> QED BY <1>2, <2>2, <2>3, <2>4
<1>4. rankOf \in [S -> 0..(N - 1)]
  <2> SUFFICES ASSUME NEW x \in S PROVE Cardinality(ahead(x)) \in 0..(N - 1)
    OBVIOUS
  <2>1. ahead(x) \cup {x} \subseteq S
    OBVIOUS
  <2> HIDE DEF ahead
  <2>2. Cardinality(ahead(x)) < N
    BY <1>3, <2>1
  <2> QED BY <1>1, <1>2, <2>2
<1>5. ASSUME NEW x \in S, NEW y \in S, <<x, y>> \in R PROVE rankOf[x] < rankOf[y]
  <2>1. ahead(x) \cup {x} \subseteq ahead(y)
    BY <1>5 DEF Orders
  <2>2. Cardinality(ahead(x)) < Cardinality(ahead(y))
    <3> HIDE DEF ahead
    <3> QED BY <1>2, <1>3, <2>1
  <2> QED BY <2>2
<1>6. \A x, y \in S : rankOf[x] = rankOf[y] => x = y
  <2> SUFFICES ASSUME NEW x \in S, NEW y \in S, x # y PROVE rankOf[x] # rankOf[y]
    OBVIOUS
  <2>1. <<x, y>> \in R \/ <<y, x>> \in R
    BY DEF Orders
  <2>2. rankOf[x] \in Nat /\ rankOf[y] \in Nat
    BY <1>2
  <2> HIDE DEF rankOf
  <2> QED BY <1>5, <2>1, <2>2
<1>7. \A k \in 0..(N - 1) : \E x \in S : rankOf[x] = k
  <2>1. IsFiniteSet(0..(N - 1)) /\ Cardinality(0..(N - 1)) = N
    <3>1. IsFiniteSet(0..(N - 1)) /\ Cardinality(0..(N - 1)) = IF 0 > N - 1 THEN 0 ELSE (N - 1) - 0 + 1
      <4> HIDE DEF N
      <4>1. 0 \in Int /\ N - 1 \in Int BY <1>1
      <4> QED BY <4>1, FS_Interval
    <3> HIDE DEF N
    <3> QED BY <1>1, <3>1
  <2>2. rankOf \in Injection(S, 0..(N - 1))
    <3> HIDE DEF rankOf, N
    <3> QED BY <1>4, <1>6 DEF Injection, IsInjective
  <2>3. rankOf \in Surjection(S, 0..(N - 1))
    <3> HIDE DEF rankOf
    <3> QED BY <2>1, <2>2, FS_Injection
  <2> HIDE DEF rankOf
  <2> QED BY <2>3 DEF Surjection
<1>8. ASSUME NEW n \in 1..N PROVE inOrder(S, R)[n] \in S /\ rankOf[inOrder(S, R)[n]] = n - 1
  <2>1. inOrder(S, R)[n] = CHOOSE x \in S : Cardinality(ahead(x)) = n - 1
    BY DEF inOrder
  <2>2. n - 1 \in 0..(N - 1)
    BY <1>1
  <2>3. \E x \in S : Cardinality(ahead(x)) = n - 1
    BY <1>7, <2>2
  <2> QED BY <2>1, <2>3
<1>9. inOrder(S, R) \in [1..N -> S]
  BY <1>8 DEF inOrder
<1>10. ASSUME NEW x \in S PROVE \E n \in 1..N : inOrder(S, R)[n] = x
  <2>1. rankOf[x] \in 0..(N - 1)
    BY <1>4
  <2> HIDE DEF rankOf, N
  <2>2. rankOf[x] + 1 \in 1..N /\ (rankOf[x] + 1) - 1 = rankOf[x]
    BY <1>1, <2>1
  <2> QED BY <1>6, <1>8, <2>2
<1>11. ASSUME NEW m \in 1..N, NEW n \in 1..N, m < n
       PROVE  <<inOrder(S, R)[m], inOrder(S, R)[n]>> \in R
  <2> DEFINE x == inOrder(S, R)[m]
             y == inOrder(S, R)[n]
  <2>1. x \in S /\ y \in S /\ rankOf[x] = m - 1 /\ rankOf[y] = n - 1
    BY <1>8
  <2>2. m \in Nat /\ n \in Nat
    OBVIOUS
  <2> HIDE DEF x, y, rankOf, N
  <2>3. x # y
    BY <1>11, <2>1, <2>2
  <2>4. ~(<<y, x>> \in R)
    BY <1>5, <1>11, <2>1, <2>2
  <2>5. <<x, y>> \in R
    BY <2>1, <2>3, <2>4 DEF Orders
  <2> QED BY <2>5 DEF x, y
<1> QED BY <1>1, <1>9, <1>10, <1>11

-----------------------------------------------------------------------------
\* The alphabet orders all names, and words made of them.
LEMMA PrecedesOnce ==
    ASSUME NEW a \in Seq(Names)
    PROVE  ~precedes(a, a)
<1>1. Len(a) \in Nat /\ \A n \in 1..Len(a) : a[n] \in Names
  OBVIOUS
<1>2. \A n \in Names : Rank[n] \in Nat
  BY NamesAssumption
<1> QED
  BY <1>1, <1>2 DEF precedes

\* what precedes something precedes what that precedes,
LEMMA PrecedesOn ==
    ASSUME NEW a \in Seq(Names), NEW b \in Seq(Names), NEW c \in Seq(Names),
           precedes(a, b), precedes(b, c)
    PROVE  precedes(a, c)
<1>1. /\ Len(a) \in Nat /\ Len(b) \in Nat /\ Len(c) \in Nat
      /\ \A n \in 1..Len(a) : Rank[a[n]] \in Nat
      /\ \A n \in 1..Len(b) : Rank[b[n]] \in Nat
      /\ \A n \in 1..Len(c) : Rank[c[n]] \in Nat
  <2>1. /\ \A n \in 1..Len(a) : a[n] \in Names
        /\ \A n \in 1..Len(b) : b[n] \in Names
        /\ \A n \in 1..Len(c) : c[n] \in Names
    OBVIOUS
  <2>2. \A n \in Names : Rank[n] \in Nat
    BY NamesAssumption
  <2> QED
    BY <2>1, <2>2
<1>2. PICK n \in 1..Len(b) :
          /\ \A i \in 1..(n - 1) : i <= Len(a) /\ a[i] = b[i]
          /\ n > Len(a) \/ Rank[a[n]] < Rank[b[n]]
  BY DEF precedes
<1>3. PICK m \in 1..Len(c) :
          /\ \A i \in 1..(m - 1) : i <= Len(b) /\ b[i] = c[i]
          /\ m > Len(b) \/ Rank[b[m]] < Rank[c[m]]
  BY DEF precedes
<1>4. n \in Nat /\ m \in Nat /\ n >= 1 /\ m >= 1 /\ n <= Len(b) /\ m <= Len(c)
  BY <1>1
<1>5. CASE n < m
  <2>1. n \in 1..(m - 1) /\ n \in 1..Len(c)
    BY <1>1, <1>4, <1>5
  <2>2. b[n] = c[n]
    BY <1>3, <2>1
  <2>3. ASSUME NEW i \in 1..(n - 1) PROVE i <= Len(a) /\ a[i] = c[i]
    <3>1. i \in 1..(m - 1)
      BY <1>4, <1>5
    <3> QED
      BY <1>2, <1>3, <3>1
  <2> QED
    BY <1>2, <2>1, <2>2, <2>3 DEF precedes
<1>6. CASE m < n
  <2>1. m \in 1..(n - 1) /\ m \in 1..Len(b)
    BY <1>1, <1>4, <1>6
  <2>2. m <= Len(a) /\ a[m] = b[m] /\ Rank[b[m]] < Rank[c[m]]
    BY <1>1, <1>2, <1>3, <1>4, <2>1
  <2>3. \A i \in 1..(m - 1) : i <= Len(a) /\ a[i] = c[i]
    <3>1. \A i \in 1..(m - 1) : i \in 1..(n - 1)
      BY <1>4, <1>6
    <3> QED
      BY <1>2, <1>3, <3>1
  <2> QED
    BY <1>3, <2>2, <2>3 DEF precedes
<1>7. CASE m = n
  <2>1. \A i \in 1..(m - 1) : i <= Len(a) /\ a[i] = c[i]
    BY <1>1, <1>2, <1>3, <1>4, <1>7
  <2>2. Rank[b[m]] < Rank[c[m]]
    BY <1>1, <1>3, <1>4, <1>7
  <2>3. n > Len(a) \/ n \in 1..Len(a)
    BY <1>1, <1>4
  <2>4. m > Len(a) \/ Rank[a[m]] < Rank[c[m]]
    <3>1. CASE n > Len(a)
      BY <1>7, <3>1
    <3>2. CASE ~(n > Len(a))
      <4>1. Rank[a[n]] < Rank[b[n]] /\ Rank[b[n]] < Rank[c[n]]
        BY <1>2, <1>7, <2>2, <3>2
      <4>2. Rank[a[n]] \in Nat /\ Rank[b[n]] \in Nat /\ Rank[c[n]] \in Nat
        BY <1>1, <1>7, <2>3, <3>2
      <4> QED
        BY <1>7, <4>1, <4>2
    <3> QED
      BY <3>1, <3>2
  <2> QED
    BY <1>3, <2>1, <2>4 DEF precedes
<1> QED
  BY <1>4, <1>5, <1>6, <1>7

\* and of two different ones, one precedes the other.
LEMMA PrecedesAny ==
    ASSUME NEW a \in Seq(Names), NEW b \in Seq(Names), a # b
    PROVE  precedes(a, b) \/ precedes(b, a)
<1> DEFINE Differ == {n \in Nat : n >= 1 /\ (n > Len(a) \/ n > Len(b) \/ a[n] # b[n])}
<1>1. /\ Len(a) \in Nat /\ Len(b) \in Nat
      /\ \A n \in 1..Len(a) : a[n] \in Names
      /\ \A n \in 1..Len(b) : b[n] \in Names
  OBVIOUS
<1>2. Len(a) + 1 \in Differ
  BY <1>1
<1>3. PICK n \in Differ : \A k \in Differ : n <= k
  <2>1. Differ \in SUBSET Nat /\ Differ # {}
    BY <1>2
  <2> HIDE DEF Differ
  <2> QED
    BY <2>1, LeastElement
<1>4. \A i \in 1..(n - 1) : i <= Len(a) /\ i <= Len(b) /\ a[i] = b[i]
  <2> SUFFICES ASSUME NEW i \in 1..(n - 1), ~(i <= Len(a) /\ i <= Len(b) /\ a[i] = b[i])
               PROVE  FALSE
    OBVIOUS
  <2>1. i \in Differ
    BY <1>1
  <2>2. n <= i
    <3> HIDE DEF Differ
    <3> QED
      BY <1>3, <2>1
  <2> QED
    BY <2>2
<1>5. CASE n > Len(a) /\ n > Len(b)
  <2>1. Len(a) = n - 1 /\ Len(b) = n - 1
    <3>1. Len(a) <= n - 1 /\ Len(b) <= n - 1
      BY <1>1, <1>5
    <3>2. ~(Len(a) < n - 1)
      <4> SUFFICES ASSUME Len(a) < n - 1 PROVE FALSE
        OBVIOUS
      <4>1. Len(a) + 1 \in 1..(n - 1)
        BY <1>1
      <4> QED
        BY <1>1, <1>4, <4>1
    <3>3. ~(Len(b) < n - 1)
      <4> SUFFICES ASSUME Len(b) < n - 1 PROVE FALSE
        OBVIOUS
      <4>1. Len(b) + 1 \in 1..(n - 1)
        BY <1>1
      <4> QED
        BY <1>1, <1>4, <4>1
    <3> QED
      BY <1>1, <3>1, <3>2, <3>3
  <2>2. a = b
    BY <1>1, <1>4, <2>1
  <2> QED
    BY <2>2
<1>6. CASE n > Len(a) /\ ~(n > Len(b))
  <2>1. n \in 1..Len(b)
    BY <1>1, <1>6
  <2> QED
    BY <1>4, <1>6, <2>1 DEF precedes
<1>7. CASE n > Len(b) /\ ~(n > Len(a))
  <2>1. n \in 1..Len(a)
    BY <1>1, <1>7
  <2>2. \A i \in 1..(n - 1) : i <= Len(b) /\ b[i] = a[i]
    BY <1>4
  <2> QED
    BY <1>7, <2>1, <2>2 DEF precedes
<1>8. CASE ~(n > Len(a)) /\ ~(n > Len(b))
  <2>1. n \in 1..Len(a) /\ n \in 1..Len(b) /\ a[n] # b[n]
    BY <1>1, <1>8
  <2>2. a[n] \in Names /\ b[n] \in Names
    BY <1>1, <2>1
  <2>3. Rank[a[n]] \in Nat /\ Rank[b[n]] \in Nat /\ Rank[a[n]] # Rank[b[n]]
    BY <2>1, <2>2, NamesAssumption
  <2>4. Rank[a[n]] < Rank[b[n]] \/ Rank[b[n]] < Rank[a[n]]
    BY <2>3
  <2>5. \A i \in 1..(n - 1) : /\ i <= Len(a) /\ a[i] = b[i]
                             /\ i <= Len(b) /\ b[i] = a[i]
    BY <1>4
  <2> QED
    BY <2>1, <2>4, <2>5 DEF precedes
<1> QED
  BY <1>5, <1>6, <1>7, <1>8

\* A sequence of one.
LEMMA Single ==
    ASSUME NEW S, NEW x \in S
    PROVE  <<x>> \in Seq(S) /\ ToSet(<<x>>) = {x}
BY DEF ToSet

\* What the headers give is filed under Headers.
LEMMA HeaderLinks ==
    ASSUME NEW headers \in Seq([name : Names, text : Target])
    PROVE  headerLinks(headers) \in Seq(InHeaders)
<1> DEFINE n == Len(headers)
           of(i) == IF headerTarget(headers[i].text) = NoText THEN <<>>
                    ELSE <<found(<<"Headers", "">>,
                             link(<<headers[i].name>>, "header",
                                  headerTarget(headers[i].text)))>>
           ss == [i \in DOMAIN headers |-> of(i)]
<1>1. n \in Nat /\ DOMAIN headers = 1..n
  OBVIOUS
<1>2. ASSUME NEW i \in 1..n PROVE ss[i] \in Seq(InHeaders)
  <2> DEFINE t == headerTarget(headers[i].text)
             l == link(<<headers[i].name>>, "header", t)
  <2>1. headers[i].name \in Names /\ headers[i].text \in Target
    <3>1. headers[i] \in [name : Names, text : Target]
      BY <1>1, Elements
    <3> QED
      BY <3>1
  <2>2. CASE t = NoText
    BY <1>1, <2>2
  <2>3. CASE t # NoText
    <3>1. t \in Target
      BY <2>1, TargetType
    <3>2. IsResourcePath(t)
      BY <2>3 DEF headerTarget
    <3> HIDE DEF t
    <3>3. <<headers[i].name>> \in Path
      BY <2>1 DEF Path
    <3>4. l \in Link /\ Leads(l) /\ l.kind = "header"
      BY <2>3, <3>1, <3>2, <3>3, ResourcePathLeads, NoTextType DEF link, Link, Leads
    <3>5. <<"Headers", "">> \in Group
      BY NamesAssumption, Titled DEF Group
    <3> HIDE DEF l
    <3>6. found(<<"Headers", "">>, l) \in InHeaders
      BY <3>4, <3>5 DEF found, InHeaders, Finds, Found
    <3>7. ss[i] = <<found(<<"Headers", "">>, l)>>
      BY <1>1, <2>3 DEF l, t
    <3>8. <<found(<<"Headers", "">>, l)>> \in Seq(InHeaders)
      BY <3>6, Single
    <3> QED
      BY <3>7, <3>8
  <2> QED
    BY <2>2, <2>3
<1>3. headerLinks(headers) = FlattenSeq(ss)
  BY DEF headerLinks
<1>4. DOMAIN ss = 1..n /\ ss = [i \in 1..n |-> ss[i]]
  BY <1>1
<1> HIDE DEF ss, n
<1>5. FlattenSeq(ss) \in Seq(InHeaders)
  BY <1>1, <1>2, <1>4, FlattenOver
<1> QED
  BY <1>3, <1>5

\* What goes before and behind the path when texts are compared.
start(t) == IF t.blank = "before" THEN " " ELSE t.host

end(t) ==
    CASE t.blank = "behind" -> " "
      [] t.blank = "escaped" -> "%20"
      [] OTHER -> "<end>"

LEMMA SpelledFrame ==
    \A t : spelled(t) = <<start(t), t.host>> \o t.path \o <<end(t)>>
BY Zenon DEF spelled, start, end

\* What links are compared by is made of names.
LEMMA SortKeys ==
    ASSUME NEW l \in Link
    PROVE  lowered(l.label) \in Seq(Names) /\ spelled(l.target) \in Seq(Names)
<1>1. l.label \in Seq(Names) /\ l.target \in Target
  BY DEF Link, Path
<1>2. \A n \in Names : Lower[n] \in Names
  BY NamesAssumption
<1>3. lowered(l.label) \in Seq(Names)
  BY <1>1, <1>2 DEF lowered
<1>4. l.target.host \in Names /\ l.target.path \in Seq(Names)
  BY <1>1, NamesAssumption DEF Target, Text
<1>5. start(l.target) \in Names /\ end(l.target) \in Names
  BY <1>4, NamesAssumption DEF start, end
<1>6. <<start(l.target), l.target.host>> \in Seq(Names) /\ <<end(l.target)>> \in Seq(Names)
  BY <1>4, <1>5
<1>7. spelled(l.target) = <<start(l.target), l.target.host>> \o l.target.path
                              \o <<end(l.target)>>
  BY SpelledFrame
<1> QED
  BY <1>3, <1>4, <1>6, <1>7

\* Links that compare neither way are spelled alike; the others are in an order.
LEMMA CompareLinks ==
    /\ \A l \in Link : ~compareLinks(l, l)
    /\ \A l, k, j \in Link : compareLinks(l, k) /\ compareLinks(k, j) => compareLinks(l, j)
    /\ \A l, k \in Link : ~compareLinks(l, k) /\ ~compareLinks(k, l) =>
           /\ lowered(l.label) = lowered(k.label)
           /\ spelled(l.target) = spelled(k.target)
<1>1. ASSUME NEW l \in Link PROVE ~compareLinks(l, l)
  BY SortKeys, PrecedesOnce DEF compareLinks
<1>2. ASSUME NEW l \in Link, NEW k \in Link, NEW j \in Link,
             compareLinks(l, k), compareLinks(k, j)
      PROVE  compareLinks(l, j)
  <2> DEFINE a == lowered(l.label)
             b == lowered(k.label)
             c == lowered(j.label)
             d == spelled(l.target)
             e == spelled(k.target)
             f == spelled(j.target)
  <2>1. /\ a \in Seq(Names) /\ b \in Seq(Names) /\ c \in Seq(Names)
        /\ d \in Seq(Names) /\ e \in Seq(Names) /\ f \in Seq(Names)
    BY SortKeys
  <2>2. precedes(a, b) \/ (a = b /\ precedes(d, e))
    <3>1. compareLinks(l, k)
      BY <1>2
    <3> QED
      BY <3>1, Zenon DEF compareLinks
  <2>6. precedes(b, c) \/ (b = c /\ precedes(e, f))
    <3>1. compareLinks(k, j)
      BY <1>2
    <3> QED
      BY <3>1, Zenon DEF compareLinks
  <2>3. precedes(a, c) \/ (a = c /\ precedes(d, f)) => compareLinks(l, j)
    BY DEF compareLinks
  <2> HIDE DEF a, b, c, d, e, f
  <2>4. precedes(a, b) /\ precedes(b, c) => precedes(a, c)
    BY <2>1, PrecedesOn
  <2>5. precedes(d, e) /\ precedes(e, f) => precedes(d, f)
    BY <2>1, PrecedesOn
  <2> QED
    BY <2>2, <2>3, <2>4, <2>5, <2>6
<1>3. ASSUME NEW l \in Link, NEW k \in Link, ~compareLinks(l, k), ~compareLinks(k, l)
      PROVE  /\ lowered(l.label) = lowered(k.label)
             /\ spelled(l.target) = spelled(k.target)
  <2>1. lowered(l.label) = lowered(k.label)
    BY <1>3, SortKeys, PrecedesAny DEF compareLinks
  <2> QED
    BY <1>3, <2>1, SortKeys, PrecedesAny DEF compareLinks
<1> QED
  BY <1>1, <1>2, <1>3

\* With their positions to break ties, the rows of a group are in an order.
LEMMA SortsBefore ==
    ASSUME NEW links \in Seq(Finds), NEW rows \in SUBSET (DOMAIN links)
    PROVE  Orders({ij \in rows \X rows : sortsBefore(links, ij[1], ij[2])}, rows)
<1> DEFINE R == {ij \in rows \X rows : sortsBefore(links, ij[1], ij[2])}
           c(i, j) == compareLinks(links[i].link, links[j].link)
<1>1. \A i \in rows : i \in Nat /\ links[i].link \in Link
  BY DEF Finds, Found
<1>2. \A i, j \in rows : <<i, j>> \in R <=> c(i, j) \/ (~c(j, i) /\ i < j)
  <2>1. \A i, j \in rows : <<i, j>> \in R <=> sortsBefore(links, i, j)
    OBVIOUS
  <2>2. \A i, j : sortsBefore(links, i, j) <=> c(i, j) \/ (~c(j, i) /\ i < j)
    BY Zenon DEF sortsBefore
  <2> HIDE DEF R, c
  <2> QED
    BY <2>1, <2>2
<1>3. \A i \in rows : ~c(i, i)
  BY <1>1, CompareLinks
<1>4. \A i, j, k \in rows : c(i, j) /\ c(j, k) => c(i, k)
  BY <1>1, CompareLinks
<1>5. ASSUME NEW i \in rows, NEW j \in rows, NEW k \in rows, ~c(i, j), ~c(j, i)
      PROVE  /\ c(i, k) <=> c(j, k)
             /\ c(k, i) <=> c(k, j)
  <2>1. /\ lowered(links[i].link.label) = lowered(links[j].link.label)
        /\ spelled(links[i].link.target) = spelled(links[j].link.target)
    BY <1>1, <1>5, CompareLinks
  <2> QED
    BY <2>1 DEF compareLinks
<1> HIDE DEF R, c
<1>6. \A i, j, k \in rows : <<i, j>> \in R /\ <<j, k>> \in R => <<i, k>> \in R
  <2> SUFFICES ASSUME NEW i \in rows, NEW j \in rows, NEW k \in rows,
                      <<i, j>> \in R, <<j, k>> \in R
               PROVE  <<i, k>> \in R
    OBVIOUS
  <2>1. i \in Nat /\ j \in Nat /\ k \in Nat
    BY <1>1
  <2>2. CASE c(i, j) /\ c(j, k)
    BY <1>2, <1>4, <2>2
  <2>3. CASE c(i, j) /\ ~c(j, k)
    <3>1. ~c(k, j)
      BY <1>2, <2>3
    <3> QED
      BY <1>2, <1>5, <2>3, <3>1
  <2>4. CASE ~c(i, j) /\ c(j, k)
    <3>1. ~c(j, i)
      BY <1>2, <2>4
    <3> QED
      BY <1>2, <1>5, <2>4, <3>1
  <2>5. CASE ~c(i, j) /\ ~c(j, k)
    <3>1. ~c(j, i) /\ ~c(k, j) /\ i < j /\ j < k
      BY <1>2, <2>5
    <3>2. i < k
      BY <2>1, <3>1
    <3>3. ~c(k, i)
      BY <1>5, <2>5, <3>1
    <3> QED
      BY <1>2, <3>2, <3>3
  <2> QED
    BY <2>2, <2>3, <2>4, <2>5
<1>7. \A i \in rows : <<i, i>> \notin R
  BY <1>1, <1>2, <1>3
<1>8. ASSUME NEW i \in rows, NEW j \in rows, i # j PROVE <<i, j>> \in R \/ <<j, i>> \in R
  <2>1. i < j \/ j < i
    BY <1>1, <1>8
  <2>2. c(i, j) \/ c(j, i) \/ (~c(i, j) /\ ~c(j, i))
    BY Zenon
  <2> QED
    BY <1>2, <2>1, <2>2, Zenon
<1>9. Orders(R, rows)
  BY <1>6, <1>7, <1>8 DEF Orders
<1> QED
  BY <1>9 DEF R

\* And so are groups.
LEMMA GroupsOrdered ==
    ASSUME NEW used \in SUBSET Group
    PROVE  Orders({gh \in used \X used : groupBefore(gh[1], gh[2])}, used)
<1> DEFINE R == {gh \in used \X used : groupBefore(gh[1], gh[2])}
<1>1. ASSUME NEW g \in used
      PROVE  /\ groupRank(g) \in Nat /\ Titles[groupRank(g)] = g[1]
             /\ g[2] \in Names /\ Rank[g[2]] \in Nat
             /\ g = <<g[1], g[2]>>
  <2>1. g[1] \in ToSet(Titles) /\ g[2] \in Names /\ g = <<g[1], g[2]>>
    BY DEF Group
  <2>2. \E i \in DOMAIN Titles : Titles[i] = g[1]
    BY <2>1 DEF ToSet
  <2>3. groupRank(g) \in DOMAIN Titles /\ Titles[groupRank(g)] = g[1]
    BY <2>2 DEF groupRank
  <2>4. \A i \in DOMAIN Titles : i \in Nat
    BY Titled
  <2> QED
    BY <2>1, <2>3, <2>4, NamesAssumption
<1>2. \A g, h \in used : <<g, h>> \in R <=>
          \/ groupRank(g) < groupRank(h)
          \/ groupRank(g) = groupRank(h) /\ Rank[g[2]] < Rank[h[2]]
  BY DEF groupBefore
<1> HIDE DEF R
<1>3. \A g \in used : <<g, g>> \notin R
  BY <1>1, <1>2
<1>4. \A g, h, k \in used : <<g, h>> \in R /\ <<h, k>> \in R => <<g, k>> \in R
  BY <1>1, <1>2
<1>5. ASSUME NEW g \in used, NEW h \in used, g # h, <<g, h>> \notin R, <<h, g>> \notin R
      PROVE  FALSE
  <2>1. groupRank(g) = groupRank(h) /\ Rank[g[2]] = Rank[h[2]]
    BY <1>1, <1>2, <1>5
  <2>2. g[1] = h[1] /\ g[2] = h[2]
    BY <1>1, <2>1, NamesAssumption
  <2> QED
    BY <1>1, <1>5, <2>2
<1>6. Orders(R, used)
  BY <1>3, <1>4, <1>5 DEF Orders
<1> QED
  BY <1>6 DEF R

\* Positions of links, for the provers.
LEMMA Positions ==
    ASSUME NEW links \in Seq(Finds), NEW left \in SUBSET (DOMAIN links)
    PROVE  /\ left \in SUBSET Nat /\ IsFiniteSet(left)
           /\ kept(links, left) \in SUBSET left
           /\ \A i \in DOMAIN links :
                  /\ links[i] \in Finds
                  /\ links[i].group \in Group
                  /\ links[i] = [group |-> links[i].group, link |-> links[i].link]
<1>1. Len(links) \in Nat /\ DOMAIN links = 1..Len(links)
  OBVIOUS
<1>2. IsFiniteSet(1..Len(links))
  <2>1. 1 \in Int /\ Len(links) \in Int
    BY <1>1
  <2> QED
    BY <2>1, FS_Interval
<1>3. IsFiniteSet(left) /\ left \in SUBSET Nat
  BY <1>1, <1>2, FS_Subset
<1>4. kept(links, left) \in SUBSET left
  BY DEF kept
<1>5. \A i \in DOMAIN links : links[i] \in Finds
  BY Elements
<1>6. \A f \in Finds : f.group \in Group /\ f = [group |-> f.group, link |-> f.link]
  BY DEF Finds, Found
<1> QED
  BY <1>3, <1>4, <1>5, <1>6

\* The first of several links to a target in a group is kept, and no other.
LEMMA Kept ==
    ASSUME NEW links \in Seq(Finds), NEW left \in SUBSET (DOMAIN links)
    PROVE  /\ \A i \in left : \E j \in kept(links, left) :
                  /\ links[j].group = links[i].group
                  /\ links[j].link.target = links[i].link.target
           /\ \A i, j \in kept(links, left) :
                  links[i].group = links[j].group /\ links[i].link.target = links[j].link.target
                      => i = j
<1>1. left \in SUBSET Nat
  BY Positions
<1>2. ASSUME NEW i \in left
      PROVE  \E j \in kept(links, left) : /\ links[j].group = links[i].group
                                          /\ links[j].link.target = links[i].link.target
  <2> DEFINE like == {j \in left : /\ links[j].group = links[i].group
                                   /\ links[j].link.target = links[i].link.target}
  <2>1. like \in SUBSET Nat /\ i \in like
    BY <1>1
  <2>2. PICK j \in like : \A k \in like : j <= k
    <3> HIDE DEF like
    <3> QED
      BY <2>1, LeastElement
  <2>3. j \in kept(links, left)
    <3> SUFFICES ASSUME NEW k \in left, k < j, links[k].group = links[j].group,
                        links[k].link.target = links[j].link.target
                 PROVE  FALSE
      BY DEF kept
    <3>1. k \in like
      OBVIOUS
    <3>2. j <= k
      <4> HIDE DEF like
      <4> QED
        BY <2>2, <3>1
    <3>3. j \in Nat /\ k \in Nat
      BY <1>1
    <3> QED
      BY <3>2, <3>3
  <2> QED
    BY <2>2, <2>3
<1>3. ASSUME NEW i \in kept(links, left), NEW j \in kept(links, left),
             links[i].group = links[j].group, links[i].link.target = links[j].link.target
      PROVE  i = j
  <2>1. i \in left /\ j \in left /\ i \in Nat /\ j \in Nat
    BY <1>1 DEF kept
  <2>2. ~(i < j) /\ ~(j < i)
    BY <1>3, <2>1 DEF kept
  <2> QED
    BY <2>1, <2>2
<1> QED
  BY <1>2, <1>3

\* A row of a group is a link at one of the positions.
Shows(rowsShown, links, rows) ==
    \A l : l \in ToSet(rowsShown) <=> \E i \in rows : l = links[i].link

\* No two rows lead to the same target.
Apart(rowsShown) ==
    \A m, n \in DOMAIN rowsShown : rowsShown[m].target = rowsShown[n].target => m = n

\* A group shows the links at its positions, each in one row.
LEMMA GroupOf ==
    ASSUME NEW links \in Seq(Finds), NEW rows \in SUBSET (DOMAIN links), NEW title,
           \A i, j \in rows : links[i].link.target = links[j].link.target => i = j,
           NEW g, g = groupOf(links, title, rows)
    PROVE  /\ g.group = title
           /\ Shows(g.links, links, rows)
           /\ Apart(g.links)
<1> DEFINE R == {ij \in rows \X rows : sortsBefore(links, ij[1], ij[2])}
           sorted == inOrder(rows, R)
           N == Cardinality(rows)
<1>1. IsFiniteSet(rows) /\ Orders(R, rows)
  BY Positions, SortsBefore
<1>2. g = [group |-> title, links |-> [m \in DOMAIN sorted |-> links[sorted[m]].link]]
  BY DEF groupOf
<1> HIDE DEF R
<1>3. /\ N \in Nat /\ sorted \in [1..N -> rows]
      /\ \A x \in rows : \E n \in 1..N : sorted[n] = x
      /\ \A m, n \in 1..N : m < n => <<sorted[m], sorted[n]>> \in R
  BY <1>1, InOrder
<1> HIDE DEF sorted, N
<1>4. g.group = title /\ g.links = [m \in 1..N |-> links[sorted[m]].link]
  BY <1>2, <1>3
<1>5. \A l : l \in ToSet(g.links) <=> \E i \in rows : l = links[i].link
  <2>1. ASSUME NEW l PROVE l \in ToSet(g.links) <=> \E m \in 1..N : l = links[sorted[m]].link
    BY <1>4 DEF ToSet
  <2>2. \A m \in 1..N : sorted[m] \in rows
    BY <1>3
  <2>3. ASSUME NEW l
        PROVE  (\E m \in 1..N : l = links[sorted[m]].link) <=> \E i \in rows : l = links[i].link
    BY <1>3, <2>2
  <2> QED
    BY <2>1, <2>3
<1>6. ASSUME NEW m \in 1..N, NEW n \in 1..N, sorted[m] = sorted[n] PROVE m = n
  <2>1. <<sorted[m], sorted[n]>> \notin R /\ <<sorted[n], sorted[m]>> \notin R
    BY <1>1, <1>3, <1>6 DEF Orders
  <2>2. ~(m < n) /\ ~(n < m)
    BY <1>3, <2>1
  <2> QED
    BY <1>3, <2>2
<1>7. ASSUME NEW m \in DOMAIN g.links, NEW n \in DOMAIN g.links,
             g.links[m].target = g.links[n].target
      PROVE  m = n
  <2>1. m \in 1..N /\ n \in 1..N /\ sorted[m] \in rows /\ sorted[n] \in rows
    BY <1>3, <1>4
  <2>2. links[sorted[m]].link.target = links[sorted[n]].link.target
    BY <1>4, <1>7, <2>1
  <2> QED
    BY <1>6, <1>7, <2>1, <2>2
<1> QED
  BY <1>4, <1>5, <1>7 DEF Shows, Apart

\* What a listing holds, each link with its group.
ListedIn(groupsListed) ==
    UNION {{[group |-> g.group, link |-> l] : l \in ToSet(g.links)} : g \in ToSet(groupsListed)}

Holds(groupsListed, links, rows) ==
    \A f : f \in ListedIn(groupsListed) <=> \E i \in rows : f = links[i]

\* No group is listed twice, and no link twice in a group.
OnlyOnce(groupsListed) ==
    /\ \A n, m \in DOMAIN groupsListed :
           groupsListed[n].group = groupsListed[m].group => n = m
    /\ \A n \in DOMAIN groupsListed : Apart(groupsListed[n].links)

\* Groups hold the links that are kept, each in the one group it was found in.
LEMMA Grouped ==
    ASSUME NEW links \in Seq(Finds), NEW left \in SUBSET (DOMAIN links)
    PROVE  /\ Holds(groups(links, left), links, kept(links, left))
           /\ OnlyOnce(groups(links, left))
<1> DEFINE rows == kept(links, left)
           used == {links[i].group : i \in rows}
           R == {gh \in used \X used : groupBefore(gh[1], gh[2])}
           titles == inOrder(used, R)
           in(t) == {i \in rows : links[i].group = t}
           G == groups(links, left)
           N == Cardinality(used)
<1>1. rows \in SUBSET left /\ rows \in SUBSET (DOMAIN links)
  BY Positions
<1>2. IsFiniteSet(rows)
  BY <1>1, Positions
<1> HIDE DEF rows
<1>3. IsFiniteSet(used)
  <2> DEFINE f == [i \in rows |-> links[i].group]
  <2>1. f \in Surjection(rows, used)
    BY DEF Surjection
  <2> HIDE DEF f, used
  <2> QED
    BY <1>2, <2>1, FS_Surjection
<1>4. used \in SUBSET Group
  BY <1>1, Positions
<1>5. G = [n \in DOMAIN titles |-> groupOf(links, titles[n], in(titles[n]))]
  BY DEF groups, rows
<1> HIDE DEF used
<1>6. Orders(R, used)
  BY <1>4, GroupsOrdered
<1> HIDE DEF R
<1>7. /\ N \in Nat /\ titles \in [1..N -> used]
      /\ \A t \in used : \E n \in 1..N : titles[n] = t
      /\ \A m, n \in 1..N : m < n => <<titles[m], titles[n]>> \in R
  BY <1>3, <1>6, InOrder
<1> HIDE DEF titles, N, G
<1>8. ASSUME NEW m \in 1..N, NEW n \in 1..N, titles[m] = titles[n] PROVE m = n
  <2>1. <<titles[m], titles[n]>> \notin R /\ <<titles[n], titles[m]>> \notin R
    BY <1>6, <1>7, <1>8 DEF Orders
  <2>2. ~(m < n) /\ ~(n < m)
    BY <1>7, <2>1
  <2> QED
    BY <1>7, <2>2
<1>9. DOMAIN G = 1..N /\ \A n \in 1..N : G[n] = groupOf(links, titles[n], in(titles[n]))
  BY <1>5, <1>7
<1>10. ASSUME NEW n \in 1..N
       PROVE  /\ G[n].group = titles[n]
              /\ Shows(G[n].links, links, in(titles[n]))
              /\ Apart(G[n].links)
  <2> DEFINE mine == in(titles[n])
  <2>1. mine \in SUBSET (DOMAIN links)
    BY <1>1
  <2>2. \A i, j \in mine : links[i].link.target = links[j].link.target => i = j
    BY Kept DEF rows
  <2>3. G[n] = groupOf(links, titles[n], mine)
    BY <1>9
  <2> HIDE DEF mine
  <2>4. /\ G[n].group = titles[n]
        /\ Shows(G[n].links, links, mine)
        /\ Apart(G[n].links)
    <3> DEFINE g == G[n]
               title == titles[n]
    <3>1. g = groupOf(links, title, mine)
      BY <2>3
    <3> HIDE DEF g, title
    <3>2. /\ g.group = title
          /\ Shows(g.links, links, mine)
          /\ Apart(g.links)
      BY <2>1, <2>2, <3>1, GroupOf
    <3> QED
      BY <3>2 DEF g, title
  <2> QED
    BY <2>4 DEF mine
<1>11. ASSUME NEW f PROVE f \in ListedIn(G) <=> \E i \in rows : f = links[i]
  <2>1. f \in ListedIn(G) <=>
            \E n \in 1..N : \E l \in ToSet(G[n].links) : f = [group |-> G[n].group, link |-> l]
    BY <1>9 DEF ListedIn, ToSet
  <2>2. ASSUME NEW n \in 1..N, NEW l
        PROVE  l \in ToSet(G[n].links) <=> \E i \in rows : /\ links[i].group = titles[n]
                                                          /\ l = links[i].link
    <3>1. l \in ToSet(G[n].links) <=> \E i \in in(titles[n]) : l = links[i].link
      <4>1. Shows(G[n].links, links, in(titles[n]))
        BY <1>10
      <4> QED
        BY <4>1 DEF Shows
    <3> QED
      BY <3>1
  <2>3. ASSUME NEW i \in rows
        PROVE  /\ links[i] = [group |-> links[i].group, link |-> links[i].link]
               /\ \E n \in 1..N : titles[n] = links[i].group
    <3>1. links[i].group \in used
      BY DEF used
    <3> QED
      BY <1>1, <1>7, <3>1, Positions
  <2>4. ASSUME NEW i \in rows, f = links[i] PROVE f \in ListedIn(G)
    <3>1. PICK n \in 1..N : titles[n] = links[i].group
      BY <2>3
    <3>2. G[n].group = links[i].group /\ links[i].link \in ToSet(G[n].links)
      BY <1>10, <2>2, <3>1
    <3> QED
      BY <2>1, <2>3, <2>4, <3>2
  <2>5. ASSUME f \in ListedIn(G) PROVE \E i \in rows : f = links[i]
    <3>1. PICK n \in 1..N : \E l \in ToSet(G[n].links) : f = [group |-> G[n].group, link |-> l]
      BY <2>1, <2>5
    <3>2. PICK l \in ToSet(G[n].links) : f = [group |-> G[n].group, link |-> l]
      BY <3>1
    <3>3. PICK i \in rows : links[i].group = titles[n] /\ l = links[i].link
      BY <2>2, <3>2
    <3>4. G[n].group = titles[n]
      BY <1>10
    <3> QED
      BY <2>3, <3>2, <3>3, <3>4
  <2> QED
    BY <2>4, <2>5
<1>12. \A n, m \in DOMAIN G : G[n].group = G[m].group => n = m
  <2>1. \A n \in 1..N : G[n].group = titles[n]
    BY <1>10
  <2>2. \A n, m \in 1..N : titles[n] = titles[m] => n = m
    BY <1>8
  <2> QED
    BY <1>9, <2>1, <2>2
<1>13. \A n \in DOMAIN G : Apart(G[n].links)
  BY <1>9, <1>10
<1>14. Holds(G, links, rows) /\ OnlyOnce(G)
  BY <1>11, <1>12, <1>13 DEF Holds, OnlyOnce
<1> QED
  BY <1>14 DEF G, rows

-----------------------------------------------------------------------------
(* What a document offers is what it has listed.                           *)

\* What a document advertises is what its places say.
LEMMA AdvertisedType ==
    ASSUME NEW body \in Json, NEW a \in Advertised(body)
    PROVE  /\ a.at \in Path /\ a.text \in Target
           /\ a.kind \in {"resource", "action", "uri"}
           /\ a.kind = "uri" => IsResourcePath(a.text)
<1> DEFINE values == Values[body][<<>>]
<1>1. <<>> \in Path
  BY DEF Path
<1>2. values \in SUBSET Place
  BY <1>1, ValuesDefined
<1>3. \/ \E v \in values : IsResource(v) /\ a = mention(v, "resource", first(v.value.members, "@odata.id"))
      \/ \E v \in values : IsAction(v) /\ a = mention(v, "action", last(v.value.members, "target"))
      \/ \E v \in values : IsURI(v) /\ a = mention(v, "uri", v.value.text)
  BY DEF Advertised
<1> HIDE DEF values
<1>4. ASSUME NEW v \in values, IsResource(v),
             a = mention(v, "resource", first(v.value.members, "@odata.id"))
      PROVE  /\ a.at \in Path /\ a.text \in Target
             /\ a.kind = "resource"
  <2>1. v.at \in Path /\ v.value \in Json /\ v.value.type = "object"
    BY <1>2, <1>4 DEF Place, IsResource
  <2>2. first(v.value.members, "@odata.id") \in Target
    BY <2>1, FirstLast
  <2> QED
    BY <1>4, <2>1, <2>2 DEF mention
<1>5. ASSUME NEW v \in values, IsAction(v),
             a = mention(v, "action", last(v.value.members, "target"))
      PROVE  /\ a.at \in Path /\ a.text \in Target
             /\ a.kind = "action"
  <2>1. v.at \in Path /\ v.value \in Json /\ v.value.type = "object"
    BY <1>2, <1>5 DEF Place, IsAction
  <2>2. last(v.value.members, "target") \in Target
    BY <2>1, FirstLast
  <2> QED
    BY <1>5, <2>1, <2>2 DEF mention
<1>6. ASSUME NEW v \in values, IsURI(v), a = mention(v, "uri", v.value.text)
      PROVE  /\ a.at \in Path /\ a.text \in Target
             /\ a.kind = "uri" /\ IsResourcePath(a.text)
  <2>1. v.at \in Path /\ v.value \in Json /\ v.value.type = "string"
    BY <1>2, <1>6 DEF Place, IsURI
  <2>2. v.value.text \in Target
    BY <2>1, JsonAssumption DEF Target
  <2> QED
    BY <1>6, <2>1, <2>2 DEF mention, IsURI
<1> QED
  BY <1>3, <1>4, <1>5, <1>6

\* The links that a document calls for, as far as it matters what is listed where.
called(body) == {filed(f) : f \in said(body, <<>>)}

\* The two say the same, as far as it matters what is listed where.
LEMMA AdvertisedSaid ==
    ASSUME NEW body \in Json, NEW e
    PROVE  e \in called(body) <=> \E a \in Advertised(body) : e = entry(a.at, a.kind, a.text)
<1> DEFINE values == Values[body][<<>>]
<1>1. ASSUME NEW v
      PROVE  (\E f \in says(v) : e = filed(f)) <=>
                 \/ IsResource(v) /\ e = entry(v.at, "resource",
                                                first(v.value.members, "@odata.id"))
                 \/ IsAction(v) /\ e = entry(v.at, "action", last(v.value.members, "target"))
                 \/ IsURI(v) /\ e = entry(v.at, "uri", v.value.text)
  <2>1. IsURI(v) => filed(uriLink(v.value, v.at)) = entry(v.at, "uri", v.value.text)
    <3>1. IsURI(v) => resourceTarget(v.value.text) = v.value.text
      BY DEF IsURI, IsResourcePath, isPath, isURL, resourceTarget
    <3> QED
      BY <3>1 DEF entry, filed, uriLink, found, link
  <2>2. (\E f \in says(v) : e = filed(f)) <=>
            \/ IsResource(v) /\ e = filed(resourceLink(v.value, v.at))
            \/ IsAction(v) /\ e = filed(actionLink(v.value, v.at))
            \/ IsURI(v) /\ e = filed(uriLink(v.value, v.at))
    BY DEF says
  <2> QED
    BY <2>1, <2>2, FiledAs
<1>2. ASSUME NEW v \in values, NEW f \in says(v), e = filed(f)
      PROVE  \E a \in Advertised(body) : e = entry(a.at, a.kind, a.text)
  <2>1. CASE IsResource(v) /\ e = entry(v.at, "resource", first(v.value.members, "@odata.id"))
    <3> DEFINE a == mention(v, "resource", first(v.value.members, "@odata.id"))
    <3>1. a \in Advertised(body)
      BY <2>1 DEF Advertised
    <3>2. e = entry(a.at, a.kind, a.text)
      BY <2>1 DEF mention
    <3> QED
      BY <3>1, <3>2
  <2>2. CASE IsAction(v) /\ e = entry(v.at, "action", last(v.value.members, "target"))
    <3> DEFINE a == mention(v, "action", last(v.value.members, "target"))
    <3>1. a \in Advertised(body)
      BY <2>2 DEF Advertised
    <3>2. e = entry(a.at, a.kind, a.text)
      BY <2>2 DEF mention
    <3> QED
      BY <3>1, <3>2
  <2>3. CASE IsURI(v) /\ e = entry(v.at, "uri", v.value.text)
    <3> DEFINE a == mention(v, "uri", v.value.text)
    <3>1. a \in Advertised(body)
      BY <2>3 DEF Advertised
    <3>2. e = entry(a.at, a.kind, a.text)
      BY <2>3 DEF mention
    <3> QED
      BY <3>1, <3>2
  <2> QED
    BY <1>1, <1>2, <2>1, <2>2, <2>3
<1>3. ASSUME NEW a \in Advertised(body), e = entry(a.at, a.kind, a.text)
      PROVE  \E v \in values : \E f \in says(v) : e = filed(f)
  <2>1. \/ \E v \in values : IsResource(v)
                            /\ a = mention(v, "resource", first(v.value.members, "@odata.id"))
        \/ \E v \in values : IsAction(v)
                            /\ a = mention(v, "action", last(v.value.members, "target"))
        \/ \E v \in values : IsURI(v) /\ a = mention(v, "uri", v.value.text)
    BY DEF Advertised
  <2> HIDE DEF values
  <2>2. ASSUME NEW v \in values, IsResource(v),
               a = mention(v, "resource", first(v.value.members, "@odata.id"))
        PROVE  \E f \in says(v) : e = filed(f)
    BY <1>1, <1>3, <2>2 DEF mention
  <2>3. ASSUME NEW v \in values, IsAction(v),
               a = mention(v, "action", last(v.value.members, "target"))
        PROVE  \E f \in says(v) : e = filed(f)
    BY <1>1, <1>3, <2>3 DEF mention
  <2>4. ASSUME NEW v \in values, IsURI(v), a = mention(v, "uri", v.value.text)
        PROVE  \E f \in says(v) : e = filed(f)
    BY <1>1, <1>3, <2>4 DEF mention
  <2> QED
    BY <2>1, <2>2, <2>3, <2>4
<1>4. e \in called(body) <=> \E v \in values : \E f \in says(v) : e = filed(f)
  BY DEF called, said
<1> HIDE DEF values
<1> QED
  BY <1>2, <1>3, <1>4

\* A path-like string repeats what the walk finds where it is dropped.
LEMMA RepeatsDropped ==
    ASSUME NEW body \in Json, NEW links \in Seq(Finds), NEW a \in Advertised(body),
           \A e : e \in called(body) <=>
                      \E i \in DOMAIN links : links[i].group[1] # "Headers" /\ e = filed(links[i]),
           \A i \in DOMAIN links :
               links[i].group[1] = "Headers" <=> links[i].link.kind = "header"
    PROVE  Repeats(a, body) <=>
               a.kind = "uri" /\ resourceTarget(a.text) \in shadows(body, links)
<1> SUFFICES ASSUME a.kind = "uri"
             PROVE  Repeats(a, body) <=> a.text \in shadows(body, links)
  <2>1. a.kind = "uri" => resourceTarget(a.text) = a.text
    BY AdvertisedType, ResourcePathLeads
  <2> QED
    BY <2>1 DEF Repeats
<1>1. a.text # NoText
  BY AdvertisedType, ResourcePathLeads
<1>2. a.text \in shadows(body, links) <=>
          \/ a.text = self(body)
          \/ \E i \in DOMAIN links : /\ links[i].link.kind = "resource"
                                    /\ links[i].link.target = a.text
  BY <1>1 DEF shadows
<1>3. ASSUME NEW i \in DOMAIN links, links[i].link.kind = "resource",
             links[i].link.target = a.text
      PROVE  \E b \in Advertised(body) : b.kind = "resource" /\ resourceTarget(b.text) = a.text
  <2>1. links[i].group[1] # "Headers"
    BY <1>3
  <2>2. filed(links[i]) \in called(body)
    BY <2>1
  <2>3. PICK b \in Advertised(body) : filed(links[i]) = entry(b.at, b.kind, b.text)
    BY <2>2, AdvertisedSaid
  <2> QED
    BY <1>3, <2>3 DEF filed, entry
<1>4. ASSUME NEW b \in Advertised(body), b.kind = "resource", resourceTarget(b.text) = a.text
      PROVE  \E i \in DOMAIN links : /\ links[i].link.kind = "resource"
                                    /\ links[i].link.target = a.text
  <2>1. entry(b.at, b.kind, b.text) \in called(body)
    BY AdvertisedSaid
  <2>2. PICK i \in DOMAIN links : entry(b.at, b.kind, b.text) = filed(links[i])
    BY <2>1
  <2> QED
    BY <1>4, <2>2 DEF filed, entry
<1> QED
  BY <1>2, <1>3, <1>4 DEF Repeats

\* All links of a response that has a body, before they are grouped.
allLinks(r) == walk[r.body][<<>>] \o headerLinks(r.headers)

\* Before they are grouped, the links of a response are those of its body and those
\* of its headers, which are told apart by their group and their kind.
LEMMA AllLinks ==
    ASSUME NEW r \in Responses
    PROVE  /\ allLinks(r) \in Seq(Finds)
           /\ \A e : e \in called(r.body) <=>
                  \E i \in DOMAIN allLinks(r) :
                      /\ allLinks(r)[i].group[1] # "Headers"
                      /\ e = filed(allLinks(r)[i])
           /\ \A i \in DOMAIN allLinks(r) :
                  allLinks(r)[i].group[1] = "Headers" <=> allLinks(r)[i].link.kind = "header"
<1> DEFINE w == walk[r.body][<<>>]
           h == headerLinks(r.headers)
<1>1. r.body \in Json /\ r.headers \in Seq([name : Names, text : Target])
  BY ResponsesAssumption DEF Target
<1>2. <<>> \in Path /\ ~Aside(<<>>)
  BY DEF Path, Aside, crosses
<1>3. w \in Seq(InBody) /\ h \in Seq(InHeaders)
  BY <1>1, <1>2, WalkDefined, HeaderLinks
<1>4. ToSet(w) = said(r.body, <<>>)
  BY <1>1, <1>2, WalkSays
<1> HIDE DEF w, h
<1>5. w \in Seq(Finds) /\ h \in Seq(Finds)
  <2>1. InBody \subseteq Finds /\ InHeaders \subseteq Finds
    BY DEF InBody, InHeaders
  <2> QED
    BY <1>3, <2>1
<1>6. /\ w \o h \in Seq(Finds) /\ ToSet(w \o h) = ToSet(w) \cup ToSet(h)
  BY <1>5, RangeOfConcat
<1>7. /\ \A f \in ToSet(w) : f.group[1] # "Headers" /\ f.link.kind # "header"
      /\ \A f \in ToSet(h) : f.group[1] = "Headers" /\ f.link.kind = "header"
  <2>1. \A f \in InBody : f.group[1] # "Headers" /\ f.link.kind # "header"
    BY DEF InBody
  <2>2. \A f \in InHeaders : f.group[1] = "Headers" /\ f.link.kind = "header"
    <3>1. <<"Headers", "">>[1] = "Headers"
      OBVIOUS
    <3> QED
      BY <3>1 DEF InHeaders
  <2>3. ToSet(w) \subseteq InBody /\ ToSet(h) \subseteq InHeaders
    BY <1>3, Elements DEF ToSet
  <2> QED
    BY <2>1, <2>2, <2>3
<1>8. \A f : f \in ToSet(w \o h) <=> \E i \in DOMAIN (w \o h) : f = (w \o h)[i]
  BY DEF ToSet
<1>9. ASSUME NEW e
      PROVE  e \in called(r.body) <=>
                 \E i \in DOMAIN (w \o h) :
                     (w \o h)[i].group[1] # "Headers" /\ e = filed((w \o h)[i])
  <2>1. e \in called(r.body) <=> \E f \in ToSet(w) : e = filed(f)
    BY <1>4 DEF called
  <2> DEFINE s == w \o h
  <2> HIDE DEF s
  <2>2. (\E f \in ToSet(w) : e = filed(f)) <=>
            \E f \in ToSet(s) : f.group[1] # "Headers" /\ e = filed(f)
    BY <1>6, <1>7 DEF s
  <2>3. (\E f \in ToSet(s) : f.group[1] # "Headers" /\ e = filed(f)) <=>
            \E i \in DOMAIN s : s[i].group[1] # "Headers" /\ e = filed(s[i])
    BY <1>8 DEF s
  <2> QED
    BY <2>1, <2>2, <2>3 DEF s
<1>10. \A i \in DOMAIN (w \o h) :
           (w \o h)[i].group[1] = "Headers" <=> (w \o h)[i].link.kind = "header"
  BY <1>6, <1>7, <1>8
<1>11. allLinks(r) = w \o h
  BY DEF allLinks, w, h
<1> QED
  BY <1>6, <1>9, <1>10, <1>11

\* What is listed of a response, if its body is JSON.
LEMMA Extracted ==
    ASSUME NEW r \in Responses, r.body.type # "broken"
    PROVE  LET left == dropShadowedURIs(r.body, allLinks(r))
           IN  /\ left \in SUBSET (DOMAIN allLinks(r))
               /\ Holds(ExtractLinks(r), allLinks(r), kept(allLinks(r), left))
               /\ OnlyOnce(ExtractLinks(r))
<1> DEFINE left == dropShadowedURIs(r.body, allLinks(r))
<1>1. ExtractLinks(r) = groups(allLinks(r), left)
  BY DEF ExtractLinks, allLinks
<1>2. left \in SUBSET (DOMAIN allLinks(r))
  BY DEF dropShadowedURIs
<1>3. allLinks(r) \in Seq(Finds)
  BY AllLinks
<1> HIDE DEF left
<1>4. Holds(groups(allLinks(r), left), allLinks(r), kept(allLinks(r), left))
  BY <1>2, <1>3, Grouped
<1>5. OnlyOnce(groups(allLinks(r), left))
  BY <1>2, <1>3, Grouped
<1> QED
  BY <1>1, <1>2, <1>4, <1>5 DEF left

\* The body of a response is offered to whoever reads what is listed of it.
Rows(r) == ListedIn(ExtractLinks(r))

\* Whatever is listed leads somewhere, and is listed once.
LEMMA Typed ==
    ASSUME NEW r \in Responses
    PROVE  Rows(r) \subseteq Finds /\ OnlyOnce(ExtractLinks(r))
<1> DEFINE links == allLinks(r)
           left == dropShadowedURIs(r.body, links)
<1>1. CASE r.body.type = "broken"
  <2>1. ExtractLinks(r) = <<>>
    BY <1>1 DEF ExtractLinks
  <2> QED
    BY <2>1 DEF Rows, ListedIn, OnlyOnce, ToSet
<1>2. CASE r.body.type # "broken"
  <2>1. /\ left \in SUBSET (DOMAIN links)
        /\ Holds(ExtractLinks(r), links, kept(links, left))
        /\ OnlyOnce(ExtractLinks(r))
    BY <1>2, Extracted
  <2>2. links \in Seq(Finds)
    BY AllLinks
  <2> HIDE DEF links, left
  <2>3. \A i \in kept(links, left) : links[i] \in Finds
    BY <2>1, <2>2, Positions
  <2>4. \A f : f \in Rows(r) <=> \E i \in kept(links, left) : f = links[i]
    BY <2>1 DEF Holds, Rows
  <2> QED
    BY <2>1, <2>3, <2>4
<1> QED
  BY <1>1, <1>2

\* Of what is found in the body, everything that is left is listed, and nothing else.
LEMMA RowsOffered ==
    ASSUME NEW r \in Responses, NEW g, NEW t
    PROVE  (\E f \in Rows(r) : f.group[1] # "Headers" /\ f.group = g /\ f.link.target = t) <=>
           (\E a \in Offered(r.body) : groupFor(a.at) = g /\ resourceTarget(a.text) = t)
<1> DEFINE links == allLinks(r)
           left == dropShadowedURIs(r.body, links)
           isFrom(f) == f.group[1] # "Headers" /\ f.group = g /\ f.link.target = t
           isOf(a) == groupFor(a.at) = g /\ resourceTarget(a.text) = t
<1>0. r.body \in Json
  BY ResponsesAssumption
<1>1. CASE r.body.type = "broken"
  <2>1. ExtractLinks(r) = <<>>
    BY <1>1 DEF ExtractLinks
  <2> QED
    BY <1>1, <2>1 DEF Rows, ListedIn, Offered, ToSet
<1>2. CASE r.body.type # "broken"
  <2>1. /\ left \in SUBSET (DOMAIN links)
        /\ Holds(ExtractLinks(r), links, kept(links, left))
    BY <1>2, Extracted
  <2>2. /\ links \in Seq(Finds)
        /\ \A e : e \in called(r.body) <=>
               \E i \in DOMAIN links : links[i].group[1] # "Headers" /\ e = filed(links[i])
        /\ \A i \in DOMAIN links :
               links[i].group[1] = "Headers" <=> links[i].link.kind = "header"
    BY AllLinks
  <2>3. \A i \in DOMAIN links : i \in left <=>
            ~(links[i].link.kind = "uri" /\ links[i].link.target \in shadows(r.body, links))
    BY DEF dropShadowedURIs
  <2> HIDE DEF links, left
  <2>4. \A f : f \in Rows(r) <=> \E i \in kept(links, left) : f = links[i]
    BY <2>1 DEF Holds, Rows
  <2>5. kept(links, left) \in SUBSET left
    BY <2>1, <2>2, Positions
  <2>6. \A i \in left : \E j \in kept(links, left) :
            /\ links[j].group = links[i].group
            /\ links[j].link.target = links[i].link.target
    BY <2>1, <2>2, Kept
  <2>7. \A a \in Advertised(r.body) :
            a \in Offered(r.body) <=>
                ~(a.kind = "uri" /\ resourceTarget(a.text) \in shadows(r.body, links))
    BY <1>0, <1>2, <2>2, RepeatsDropped DEF Offered
  <2>8. Offered(r.body) \subseteq Advertised(r.body)
    BY DEF Offered
  <2>9. ASSUME NEW f \in Rows(r), isFrom(f) PROVE \E a \in Offered(r.body) : isOf(a)
    <3>1. PICK i \in kept(links, left) : f = links[i]
      BY <2>4
    <3>2. i \in left /\ i \in DOMAIN links
      BY <2>1, <2>5
    <3>3. filed(links[i]) \in called(r.body)
      BY <2>2, <2>9, <3>1, <3>2
    <3>4. PICK a \in Advertised(r.body) : filed(links[i]) = entry(a.at, a.kind, a.text)
      BY <1>0, <3>3, AdvertisedSaid
    <3>5. /\ links[i].group = groupFor(a.at) /\ links[i].link.kind = a.kind
          /\ links[i].link.target = resourceTarget(a.text)
      BY <3>4 DEF filed, entry
    <3>6. a \in Offered(r.body)
      BY <2>3, <2>7, <3>2, <3>5
    <3> QED
      BY <2>9, <3>1, <3>5, <3>6
  <2>10. ASSUME NEW a \in Offered(r.body), isOf(a) PROVE \E f \in Rows(r) : isFrom(f)
    <3>1. a \in Advertised(r.body)
      BY <2>8
    <3>2. entry(a.at, a.kind, a.text) \in called(r.body)
      BY <1>0, <3>1, AdvertisedSaid
    <3>3. PICK i \in DOMAIN links :
              links[i].group[1] # "Headers" /\ entry(a.at, a.kind, a.text) = filed(links[i])
      BY <2>2, <3>2
    <3>4. /\ links[i].group = groupFor(a.at) /\ links[i].link.kind = a.kind
          /\ links[i].link.target = resourceTarget(a.text)
      BY <3>3 DEF filed, entry
    <3>5. i \in left
      BY <2>3, <2>7, <3>1, <3>3, <3>4
    <3>6. PICK j \in kept(links, left) : /\ links[j].group = links[i].group
                                        /\ links[j].link.target = links[i].link.target
      BY <2>6, <3>5
    <3>7. links[j] \in Rows(r) /\ isFrom(links[j])
      BY <2>4, <2>10, <3>3, <3>4, <3>6
    <3> QED
      BY <3>7
  <2> HIDE DEF isFrom, isOf
  <2>11. (\E f \in Rows(r) : isFrom(f)) <=> (\E a \in Offered(r.body) : isOf(a))
    BY <2>9, <2>10
  <2> QED
    BY <2>11 DEF isFrom, isOf
<1> QED
  BY <1>1, <1>2

\* A string that repeats the self link or a link is not listed.
LEMMA NoneShadowed ==
    ASSUME NEW r \in Responses, NEW f \in Rows(r), f.link.kind = "uri"
    PROVE  /\ f.link.target # self(r.body)
           /\ \A k \in Rows(r) : k.link.target = f.link.target => k.link.kind # "resource"
<1> DEFINE links == allLinks(r)
           left == dropShadowedURIs(r.body, links)
<1>1. r.body.type # "broken"
  <2> SUFFICES ASSUME r.body.type = "broken" PROVE FALSE
    OBVIOUS
  <2>1. ExtractLinks(r) = <<>>
    BY DEF ExtractLinks
  <2> QED
    BY <2>1 DEF Rows, ListedIn, ToSet
<1>2. /\ left \in SUBSET (DOMAIN links)
      /\ Holds(ExtractLinks(r), links, kept(links, left))
  BY <1>1, Extracted
<1>3. links \in Seq(Finds)
  BY AllLinks
<1>4. \A i \in left : 
          ~(links[i].link.kind = "uri" /\ links[i].link.target \in shadows(r.body, links))
  BY DEF dropShadowedURIs
<1>5. f.link.target # NoText
  BY Typed DEF Finds, Leads
<1> HIDE DEF links, left
<1>6. \A k \in Rows(r) : \E i \in left : i \in DOMAIN links /\ k = links[i]
  <2>1. kept(links, left) \in SUBSET left
    BY <1>2, <1>3, Positions
  <2> QED
    BY <1>2, <2>1 DEF Holds, Rows
<1>7. f.link.target \notin shadows(r.body, links)
  BY <1>4, <1>6
<1>8. ASSUME NEW k \in Rows(r), k.link.target = f.link.target, k.link.kind = "resource"
      PROVE  FALSE
  <2>1. PICK i \in left : i \in DOMAIN links /\ k = links[i]
    BY <1>6
  <2> QED
    BY <1>7, <1>8, <2>1 DEF shadows
<1>9. f.link.target # self(r.body)
  BY <1>5, <1>7 DEF shadows
<1> QED
  BY <1>8, <1>9

\* What is listed is what ExtractLinks makes of the response at hand.
Inv ==
    /\ resp \in Responses
    /\ listed \in BOOLEAN
    /\ listing = IF listed THEN ExtractLinks(resp) ELSE <<>>

\* It holds from the start, and extraction keeps it.
LEMMA InvHolds == Spec => []Inv
<1>1. Init => Inv
  BY DEF Init, Inv
<1>2. Inv /\ [Extract]_vars => Inv'
  <2> SUFFICES ASSUME Inv, [Extract]_vars PROVE Inv'
    OBVIOUS
  <2>1. CASE Extract
    <3>1. resp' = resp /\ listed' = TRUE /\ listing' = ExtractLinks(resp)
      BY <2>1 DEF Extract
    <3>2. ExtractLinks(resp)' = ExtractLinks(resp)
      BY <3>1 DEF ExtractLinks
    <3> QED
      BY <3>1, <3>2 DEF Inv
  <2>2. CASE UNCHANGED vars
    <3>1. ExtractLinks(resp)' = ExtractLinks(resp)
      BY <2>2 DEF vars, ExtractLinks
    <3> QED
      BY <2>2, <3>1 DEF Inv, vars
  <2> QED
    BY <2>1, <2>2
<1> QED
  BY <1>1, <1>2, PTL DEF Spec

\* What the properties call listed is what ExtractLinks gives.
LEMMA ListedRows ==
    ASSUME Inv
    PROVE  /\ listed => Listed = Rows(resp)
           /\ ~listed => Listed = {}
           /\ Listed \subseteq Finds
           /\ OnlyOnce(listing)
<1>1. Listed = ListedIn(listing)
  BY DEF Listed, ListedIn
<1>2. CASE listed
  BY <1>1, <1>2, Typed DEF Inv, Rows
<1>3. CASE ~listed
  <2>1. listing = <<>>
    BY <1>3 DEF Inv
  <2>2. ListedIn(<<>>) = {} /\ OnlyOnce(<<>>)
    BY DEF ListedIn, OnlyOnce, ToSet
  <2> QED
    BY <1>1, <1>3, <2>1, <2>2
<1> QED
  BY <1>2, <1>3

\* A row of a response at hand stands for something its body offers, and the other
\* way round.
LEMMA RowFromBody ==
    ASSUME Inv, listed, NEW g, NEW t
    PROVE  (\E l \in fromBody : l.group = g /\ l.link.target = t) <=>
           (\E a \in Offered(resp.body) : groupFor(a.at) = g /\ resourceTarget(a.text) = t)
<1>1. \A l : l \in fromBody <=> l \in Rows(resp) /\ l.group[1] # "Headers"
  BY ListedRows DEF fromBody
<1>2. (\E f \in Rows(resp) : f.group[1] # "Headers" /\ f.group = g /\ f.link.target = t) <=>
      (\E a \in Offered(resp.body) : groupFor(a.at) = g /\ resourceTarget(a.text) = t)
  BY RowsOffered DEF Inv
<1> QED
  BY <1>1, <1>2

\* What is offered has a path and a text.
LEMMA OfferedType ==
    ASSUME Inv, NEW a \in Offered(resp.body)
    PROVE  a.at \in Path /\ a.text \in Target
<1>1. resp.body \in Json /\ a \in Advertised(resp.body)
  BY ResponsesAssumption DEF Inv, Offered
<1> QED
  BY <1>1, AdvertisedType

\* The link pane lists what the body offers to follow, each in the group it belongs
\* to, and nothing else, for documents of any depth (links.go:205-313).
THEOREM AllListed == Spec => []ListsWhatIsOffered
<1>1. Inv => ListsWhatIsOffered
  <2> SUFFICES ASSUME Inv, listed
               PROVE  {<<l.group, l.link.target>> : l \in fromBody} =
                      {<<groupFor(a.at), resourceTarget(a.text)>> : a \in Offered(resp.body)}
    BY DEF ListsWhatIsOffered
  <2>1. ASSUME NEW l \in fromBody
        PROVE  \E a \in Offered(resp.body) :
                   <<l.group, l.link.target>> = <<groupFor(a.at), resourceTarget(a.text)>>
    <3>1. \E a \in Offered(resp.body) :
              groupFor(a.at) = l.group /\ resourceTarget(a.text) = l.link.target
      BY RowFromBody
    <3> QED
      BY <3>1
  <2>2. ASSUME NEW a \in Offered(resp.body)
        PROVE  \E l \in fromBody :
                   <<l.group, l.link.target>> = <<groupFor(a.at), resourceTarget(a.text)>>
    <3>1. \E l \in fromBody : l.group = groupFor(a.at) /\ l.link.target = resourceTarget(a.text)
      BY RowFromBody
    <3> QED
      BY <3>1
  <2> QED
    BY <2>1, <2>2
<1> QED
  BY <1>1, InvHolds, PTL

\* Following a listed link asks for the resource the service wrote down, or is refused
\* as that would be, however the link was written; but for a blank behind a URL
\* (links.go:165-186, client.go:242).
THEOREM MeaningKept == Spec => []LinksKeepTheirMeaning
<1>1. Inv => LinksKeepTheirMeaning
  <2> SUFFICES ASSUME Inv, listed, NEW a \in Offered(resp.body), ~BlankJoinsName(a.text)
               PROVE  \E l \in fromBody : /\ l.group = groupFor(a.at)
                                          /\ resolve(l.link.target) = resolve(a.text)
    BY DEF LinksKeepTheirMeaning
  <2>1. PICK l \in fromBody :
            l.group = groupFor(a.at) /\ l.link.target = resourceTarget(a.text)
    BY RowFromBody
  <2>2. resolve(resourceTarget(a.text)) = resolve(a.text)
    BY OfferedType, PathMeansTheSame DEF Target, BlankJoinsName
  <2> QED
    BY <2>1, <2>2
<1> QED
  BY <1>1, InvHolds, PTL

\* No group is listed twice, no resource twice in a group, and no string that only
\* repeats a link, whatever the document repeats (links.go:402-440).
THEOREM ListedOnce == Spec => []NothingTwice
<1>1. Inv => NothingTwice
  <2> SUFFICES ASSUME Inv PROVE NothingTwice
    OBVIOUS
  <2>1. /\ \A n, m \in DOMAIN listing : listing[n].group = listing[m].group => n = m
        /\ \A n \in DOMAIN listing : Apart(listing[n].links)
    BY ListedRows DEF OnlyOnce
  <2>2. ASSUME NEW l \in Listed, l.link.kind = "uri"
        PROVE  /\ l.link.target # self(resp.body)
               /\ \A k \in Listed : k.link.target = l.link.target => k.link.kind # "resource"
    <3>1. listed
      BY ListedRows
    <3> QED
      BY <2>2, <3>1, ListedRows, NoneShadowed DEF Inv
  <2> QED
    BY <2>1, <2>2 DEF NothingTwice, Apart
<1> QED
  BY <1>1, InvHolds, PTL

\* What is below an Oem key is in the group of its vendor, and nothing else is, at any
\* depth (links.go:485-534).
THEOREM OEMApart == Spec => []OEMStaysApart
<1>1. Inv => OEMStaysApart
  <2> SUFFICES ASSUME Inv, listed PROVE OEMStaysApart
    BY DEF OEMStaysApart
  <2>1. ASSUME NEW a \in Offered(resp.body), crosses(a.at, {"Oem"})
        PROVE  \E l \in Listed : l.group = oemGroup(a.at)
                                 /\ l.link.target = resourceTarget(a.text)
    <3>1. PICK l \in fromBody :
              l.group = groupFor(a.at) /\ l.link.target = resourceTarget(a.text)
      BY RowFromBody
    <3>2. groupFor(a.at) = oemGroup(a.at)
      BY <2>1, OfferedType, GroupType
    <3> QED
      BY <3>1, <3>2 DEF fromBody
  <2>2. ASSUME NEW l \in fromBody
        PROVE  \E a \in Offered(resp.body) :
                   /\ l.link.target = resourceTarget(a.text)
                   /\ crosses(a.at, {"Oem"}) <=> l.group[1] = "Oem"
    <3>1. PICK a \in Offered(resp.body) :
              groupFor(a.at) = l.group /\ resourceTarget(a.text) = l.link.target
      BY RowFromBody
    <3>2. crosses(a.at, {"Oem"}) <=> l.group[1] = "Oem"
      BY <3>1, OfferedType, GroupType
    <3> QED
      BY <3>1, <3>2
  <2> QED
    BY <2>1, <2>2 DEF OEMStaysApart
<1> QED
  BY <1>1, InvHolds, PTL

\* Every row and every ActionInfo names something to ask for, and the fetch and the
\* curl command agree on what, exactly if there are no blanks around it
\* (links.go:171-186, client.go:242, curl.go:50).
THEOREM RowsLead == Spec => []RowsLeadSomewhere
<1>1. Inv => RowsLeadSomewhere
  <2> SUFFICES ASSUME Inv, NEW l \in Listed
               PROVE  /\ l.link.target # NoText
                      /\ \A t \in {l.link.target, l.link.info} \ {NoText} :
                             resolve(t) # refusal =>
                                 (renderCurl(t) = resolve(t) <=> ~padded(t))
    BY DEF RowsLeadSomewhere
  <2>1. Leads(l.link)
    BY ListedRows DEF Finds
  <2> QED
    BY <2>1 DEF Leads, LeadsThere
<1> QED
  BY <1>1, InvHolds, PTL

\* OEMTypes finds every vendor schema of a document of any depth, and none of the
\* standard's (oem.go:8-45).
THEOREM TypesFound == Spec => []VendorTypesAreFound
<1>1. Inv => VendorTypesAreFound
  <2> SUFFICES ASSUME Inv
               PROVE  OEMTypes(resp.body) =
                          {v.value.text : v \in {w \in Strings(resp.body) :
                                                     NamesVendorType(w.at)}} \ {NoText}
    BY DEF VendorTypesAreFound
  <2> DEFINE body == resp.body
  <2>1. body \in Json
    BY ResponsesAssumption DEF Inv
  <2>2. <<>> \in Path /\ Follows(<<>>, FALSE) /\ ~NamesVendorType(<<>>)
    BY DEF Path, Follows, Outside, crosses, NamesVendorType
  <2> HIDE DEF body
  <2>3. OEMTypes(body) = namedBelow(body, <<>>)
    BY <2>1, <2>2, TypesNamed DEF OEMTypes
  <2>4. named(place(body, <<>>)) = {}
    BY <2>2 DEF named, place
  <2>5. namedIn(body, <<>>) = namedBelow(body, <<>>)
    <3>1. namedIn(body, <<>>) = named(place(body, <<>>)) \cup namedBelow(body, <<>>)
      BY <2>1, <2>2, NamedSplits
    <3> QED
      BY <2>4, <3>1
  <2>6. namedIn(body, <<>>) =
            {v.value.text : v \in {w \in Strings(body) : NamesVendorType(w.at)}} \ {NoText}
    BY DEF namedIn, named, Strings
  <2> QED
    BY <2>3, <2>5, <2>6 DEF body
<1> QED
  BY <1>1, InvHolds, PTL

\* A body of any depth is coloured as the rule over its places says: the vendor's part
\* is where an Oem key encloses it, whatever branches the scanner has left by then
\* (jsonfmt.go:44-67).
THEOREM BodyShown == Spec => []BodyShowsOEM
<1>1. Inv => BodyShowsOEM
  <2> SUFFICES ASSUME Inv, resp.body.type \notin {"none", "broken"}
               PROVE  {<<d.token, d.style>> : d \in ToSet(Colorize(resp.body))} =
                      {<<Token("string", "", v.value.text, v.at),
                         CASE IsResourcePath(v.value.text) -> "link"
                           [] ~IsResourcePath(v.value.text) /\ crosses(enclosing(v.at), {"Oem"}) -> "oem"
                           [] OTHER -> "string">> : v \in Strings(resp.body)}
                      \cup {<<Token("string", Last(v.at), NoText, v.at),
                              IF crosses(v.at, {"Oem"}) THEN "oem" ELSE "key">> :
                                v \in {w \in Values[resp.body][<<>>] :
                                           w.at # <<>> /\ ~isIndex(Last(w.at))}}
    BY Zenon DEF BodyShowsOEM
  <2> DEFINE body == resp.body
             valueToken(v) == Token("string", "", v.value.text, v.at)
             inStyle(v) == CASE IsResourcePath(v.value.text) -> "link"
                             [] ~IsResourcePath(v.value.text)
                                  /\ crosses(enclosing(v.at), {"Oem"}) -> "oem"
                             [] OTHER -> "string"
             nameToken(v) == Token("string", Last(v.at), NoText, v.at)
             asKey(v) == IF crosses(v.at, {"Oem"}) THEN "oem" ELSE "key"
             All == Values[body][<<>>]
             Named == {w \in All : w.at # <<>> /\ ~isIndex(Last(w.at))}
  <2>1. body \in Json
    BY ResponsesAssumption DEF Inv
  <2>2. <<>> \in Path
    BY DEF Path
  <2>3. ToSet(Colorize(body)) = shownIn(body, <<>>)
    <3>1. ToSet(Colorize(body)) = drawnIn(body, <<>>)
      BY <2>1, BodyDrawn
    <3>2. keyShown(place(body, <<>>)) = {}
      BY DEF keyShown, place
    <3> HIDE DEF body
    <3>3. shownIn(body, <<>>) = keyShown(place(body, <<>>)) \cup drawnIn(body, <<>>)
      BY <2>1, <2>2, ShownSplits
    <3> QED
      BY <3>1, <3>2, <3>3
  <2>4. \A v : stringShown(v) = {d \in {[token |-> valueToken(v), style |-> inStyle(v)]} :
                                     v.value.type = "string"}
    BY DEF stringShown
  <2>5. \A v : keyShown(v) = {d \in {[token |-> nameToken(v), style |-> asKey(v)]} :
                                  v.at # <<>> /\ ~isIndex(Last(v.at))}
    BY DEF keyShown
  <2>6. Strings(body) = {v \in All : v.value.type = "string"}
    BY DEF Strings
  <2> HIDE DEF body, valueToken, inStyle, nameToken, asKey, All
  <2>7. ToSet(Colorize(body)) =
            {[token |-> valueToken(v), style |-> inStyle(v)] : v \in Strings(body)}
            \cup {[token |-> nameToken(v), style |-> asKey(v)] : v \in Named}
    BY <2>3, <2>4, <2>5, <2>6 DEF shownIn, All
  <2>8. {<<d.token, d.style>> : d \in ToSet(Colorize(body))} =
            {<<valueToken(v), inStyle(v)>> : v \in Strings(body)}
            \cup {<<nameToken(v), asKey(v)>> : v \in Named}
    <3> DEFINE S1 == Strings(body)
               pair(d) == <<d.token, d.style>>
    <3>1. \A a, b : pair([token |-> a, style |-> b]) = <<a, b>>
      OBVIOUS
    <3> HIDE DEF Named, S1, pair
    <3>2. {pair(d) : d \in ToSet(Colorize(body))} =
              {pair([token |-> valueToken(v), style |-> inStyle(v)]) : v \in S1}
              \cup {pair([token |-> nameToken(v), style |-> asKey(v)]) : v \in Named}
      BY <2>7 DEF S1
    <3> QED
      BY <3>1, <3>2 DEF S1, pair
  <2> QED
    BY <2>8, Zenon DEF body, valueToken, inStyle, nameToken, asKey, All
<1> QED
  BY <1>1, InvHolds, PTL

-----------------------------------------------------------------------------
(* The rows do not depend on the order of the document.                    *)

\* Links in the order of their group.
Ascending(ls) == \A m, n \in DOMAIN ls : m < n => compareLinks(ls[m], ls[n])

\* Two targets are not spelled alike.
LEMMA SpelledOnce ==
    ASSUME NEW t \in Target, NEW u \in Target, spelled(t) = spelled(u)
    PROVE  t = u
<1>1. /\ t.path \in Seq(Names) /\ u.path \in Seq(Names)
      /\ t = [host |-> t.host, path |-> t.path, blank |-> t.blank]
      /\ u = [host |-> u.host, path |-> u.path, blank |-> u.blank]
  BY TextParts DEF Target
<1> DEFINE p == t.path
           q == u.path
           a == <<start(t), t.host>> \o p \o <<end(t)>>
           b == <<start(u), u.host>> \o q \o <<end(u)>>
<1>2. Len(p) \in Nat /\ DOMAIN p = 1..Len(p) /\ Len(q) \in Nat /\ DOMAIN q = 1..Len(q)
  BY <1>1
<1>3. /\ Len(a) = Len(p) + 3 /\ a[1] = start(t) /\ a[2] = t.host
      /\ a[Len(p) + 3] = end(t) /\ \A i \in 1..Len(p) : a[i + 2] = p[i]
  BY <1>1, <1>2
<1>4. /\ Len(b) = Len(q) + 3 /\ b[1] = start(u) /\ b[2] = u.host
      /\ b[Len(q) + 3] = end(u) /\ \A i \in 1..Len(q) : b[i + 2] = q[i]
  BY <1>1, <1>2
<1>5. a = b
  BY SpelledFrame
<1> HIDE DEF a, b
<1>6. /\ start(t) = start(u) /\ t.host = u.host /\ end(t) = end(u)
      /\ Len(p) = Len(q) /\ \A i \in 1..Len(p) : p[i] = q[i]
  BY <1>2, <1>3, <1>4, <1>5
<1>7. p = q
  BY <1>1, <1>2, <1>6
<1>8. t.blank = u.blank
  <2>1. /\ t.blank \in {"none", "before", "behind", "escaped"}
        /\ u.blank \in {"none", "before", "behind", "escaped"}
        /\ t.host \in {"/", "own", "other", "none"}
    BY TextParts DEF Target
  <2> QED
    BY <1>6, <2>1 DEF start, end
<1> QED
  BY <1>1, <1>6, <1>7, <1>8

\* There is one way to put links in order.
LEMMA AscendingOnce ==
    ASSUME NEW s \in Seq(Link), NEW t \in Seq(Link), Ascending(s), Ascending(t),
           \A l : l \in ToSet(s) <=> l \in ToSet(t)
    PROVE  s = t
<1> DEFINE M == Len(s)
           N == Len(t)
           Same(k) == k <= M /\ k <= N /\ s[k] = t[k]
           Wrong == {k \in Nat : k # 0 /\ (k <= M \/ k <= N) /\ ~Same(k)}
<1>1. /\ M \in Nat /\ N \in Nat /\ DOMAIN s = 1..M /\ DOMAIN t = 1..N
      /\ \A i \in 1..M : s[i] \in Link
      /\ \A i \in 1..N : t[i] \in Link
  BY Elements
<1>2. /\ \A i \in 1..M : \E j \in 1..N : t[j] = s[i]
      /\ \A i \in 1..N : \E j \in 1..M : s[j] = t[i]
  <2>1. /\ \A i \in 1..M : s[i] \in ToSet(s)
        /\ \A i \in 1..N : t[i] \in ToSet(t)
    BY <1>1 DEF ToSet
  <2>2. /\ \A i \in 1..M : s[i] \in ToSet(t)
        /\ \A i \in 1..N : t[i] \in ToSet(s)
    BY <2>1
  <2> QED
    BY <1>1, <2>2 DEF ToSet
<1>3. /\ \A i, j \in 1..M : i < j => compareLinks(s[i], s[j])
      /\ \A i, j \in 1..N : i < j => compareLinks(t[i], t[j])
  BY <1>1 DEF Ascending
<1>4. /\ \A i, j \in 1..M : s[i] = s[j] => i = j
      /\ \A i, j \in 1..N : t[i] = t[j] => i = j
  BY <1>1, <1>3, CompareLinks
<1> HIDE DEF M, N
<1>5. Wrong = {}
  <2> SUFFICES ASSUME Wrong # {} PROVE FALSE
    OBVIOUS
  <2>1. Wrong \in SUBSET Nat
    OBVIOUS
  <2>2. PICK k \in Wrong : \A j \in Wrong : k <= j
    <3> HIDE DEF Wrong
    <3> QED
      BY <2>1, LeastElement
  <2>3. /\ k \in Nat /\ k # 0 /\ (k <= M \/ k <= N) /\ ~Same(k)
        /\ \A j \in Nat : j # 0 /\ j < k => Same(j)
    BY <1>1, <2>2
  <2> HIDE DEF Wrong
  <2>4. ASSUME k <= M PROVE \E j \in 1..N : j >= k /\ t[j] = s[k]
    <3>1. k \in 1..M
      BY <1>1, <2>3, <2>4
    <3>2. PICK j \in 1..N : t[j] = s[k]
      BY <1>2, <3>1
    <3>3. ~(j < k)
      <4> SUFFICES ASSUME j < k PROVE FALSE
        OBVIOUS
      <4>1. j \in 1..M /\ s[j] = t[j]
        BY <1>1, <2>3, <3>1
      <4> QED
        BY <1>1, <1>4, <3>1, <3>2, <4>1
    <3> QED
      BY <2>3, <3>2, <3>3
  <2>5. ASSUME k <= N PROVE \E j \in 1..M : j >= k /\ s[j] = t[k]
    <3>1. k \in 1..N
      BY <1>1, <2>3, <2>5
    <3>2. PICK j \in 1..M : s[j] = t[k]
      BY <1>2, <3>1
    <3>3. ~(j < k)
      <4> SUFFICES ASSUME j < k PROVE FALSE
        OBVIOUS
      <4>1. j \in 1..N /\ s[j] = t[j]
        BY <1>1, <2>3, <3>1
      <4>2. t[j] = t[k]
        BY <3>2, <4>1
      <4>3. j = k
        BY <1>4, <3>1, <4>1, <4>2
      <4> QED
        BY <1>1, <3>1, <4>3
    <3> QED
      BY <2>3, <3>2, <3>3
  <2>6. k \in 1..M /\ k \in 1..N
    BY <1>1, <2>3, <2>4, <2>5
  <2>7. PICK i \in 1..M : i >= k /\ s[i] = t[k]
    BY <2>5, <2>6
  <2>8. PICK j \in 1..N : j >= k /\ t[j] = s[k]
    BY <2>4, <2>6
  <2>9. i # k /\ j # k
    BY <1>1, <2>3, <2>6, <2>7, <2>8
  <2>10. k < i /\ k < j
    BY <1>1, <2>6, <2>7, <2>8, <2>9
  <2>11. compareLinks(s[k], s[i]) /\ compareLinks(t[k], t[j])
    BY <1>3, <2>6, <2>10
  <2>12. s[k] \in Link /\ t[k] \in Link
    BY <1>1, <2>6
  <2> QED
    BY <2>7, <2>8, <2>11, <2>12, CompareLinks
<1>6. \A k \in Nat : k # 0 /\ (k <= M \/ k <= N) => Same(k)
  BY <1>5
<1>7. M = N
  <2>1. M # 0 => Same(M)
    BY <1>1, <1>6
  <2>2. N # 0 => Same(N)
    BY <1>1, <1>6
  <2> QED
    BY <1>1, <2>1, <2>2
<1>8. \A k \in 1..M : s[k] = t[k]
  BY <1>1, <1>6
<1> QED
  BY <1>1, <1>7, <1>8

\* A group is its title and its links in order.
LEMMA GroupAscends ==
    ASSUME NEW links \in Seq(Finds), NEW rows \in SUBSET (DOMAIN links), NEW title,
           \A i, j \in rows : links[i].link.target = links[j].link.target => i = j,
           NEW g, g = groupOf(links, title, rows)
    PROVE  /\ g = [group |-> title, links |-> g.links]
           /\ g.links \in Seq(Link)
           /\ Ascending(g.links)
<1> DEFINE R == {ij \in rows \X rows : sortsBefore(links, ij[1], ij[2])}
           sorted == inOrder(rows, R)
           N == Cardinality(rows)
<1>1. IsFiniteSet(rows) /\ Orders(R, rows)
  BY Positions, SortsBefore
<1>2. g = [group |-> title, links |-> [m \in DOMAIN sorted |-> links[sorted[m]].link]]
  BY DEF groupOf
<1>3. \A i, j \in rows : <<i, j>> \in R <=> sortsBefore(links, i, j)
  OBVIOUS
<1> HIDE DEF R
<1>4. /\ N \in Nat /\ sorted \in [1..N -> rows]
      /\ \A m, n \in 1..N : m < n => <<sorted[m], sorted[n]>> \in R
  BY <1>1, InOrder
<1> HIDE DEF sorted, N
<1>5. g.links = [m \in 1..N |-> links[sorted[m]].link]
  BY <1>2, <1>4
<1>6. \A i \in rows : i \in Nat /\ links[i].link \in Link /\ links[i].link.target \in Target
  <2>1. \A i \in rows : i \in Nat /\ links[i].link \in Link
    BY DEF Finds, Found
  <2> QED
    BY <2>1 DEF Link
<1>7. \A m \in 1..N : sorted[m] \in rows
  BY <1>4
<1>8. g.links \in Seq(Link)
  BY <1>4, <1>5, <1>6, <1>7
<1>9. ASSUME NEW m \in 1..N, NEW n \in 1..N, m < n
      PROVE  compareLinks(links[sorted[m]].link, links[sorted[n]].link)
  <2> DEFINE i == sorted[m]
             j == sorted[n]
             l == links[i].link
             k == links[j].link
  <2>1. i \in rows /\ j \in rows /\ sortsBefore(links, i, j)
    BY <1>3, <1>4, <1>7, <1>9
  <2>2. compareLinks(l, k) \/ (~compareLinks(k, l) /\ i < j)
    BY <2>1, Zenon DEF sortsBefore, l, k
  <2>3. l \in Link /\ k \in Link /\ l.target \in Target /\ k.target \in Target
    BY <1>6, <2>1
  <2>4. l.target = k.target => i = j
    BY <2>1
  <2>5. i \in Nat /\ j \in Nat
    BY <1>6, <2>1
  <2> HIDE DEF l, k, i, j
  <2>6. ASSUME ~compareLinks(l, k), ~compareLinks(k, l) PROVE i = j
    BY <2>3, <2>4, <2>6, CompareLinks, SpelledOnce
  <2>7. compareLinks(l, k)
    BY <2>2, <2>5, <2>6
  <2> QED
    BY <2>7 DEF l, k, i, j
<1>10. Ascending(g.links)
  BY <1>4, <1>5, <1>9 DEF Ascending
<1> QED
  BY <1>2, <1>8, <1>10

\* What is listed depends on the links that are kept, and not on their positions.
LEMMA GroupsAlike ==
    ASSUME NEW links \in Seq(Finds), NEW left \in SUBSET (DOMAIN links),
           NEW links2 \in Seq(Finds), NEW left2 \in SUBSET (DOMAIN links2),
           \A f : (\E i \in kept(links, left) : f = links[i]) <=>
                  (\E i \in kept(links2, left2) : f = links2[i])
    PROVE  groups(links, left) = groups(links2, left2)
<1> DEFINE rows == kept(links, left)
           rows2 == kept(links2, left2)
           used == {links[i].group : i \in rows}
           used2 == {links2[i].group : i \in rows2}
           R(us) == {gh \in us \X us : groupBefore(gh[1], gh[2])}
           titles(us) == inOrder(us, R(us))
           in(t) == {i \in rows : links[i].group = t}
           in2(t) == {i \in rows2 : links2[i].group = t}
<1>1. /\ rows \in SUBSET (DOMAIN links) /\ rows2 \in SUBSET (DOMAIN links2)
  BY Positions
<1>2. /\ groups(links, left) =
             [n \in DOMAIN titles(used) |-> groupOf(links, titles(used)[n], in(titles(used)[n]))]
      /\ groups(links2, left2) =
             [n \in DOMAIN titles(used2) |->
                 groupOf(links2, titles(used2)[n], in2(titles(used2)[n]))]
  BY DEF groups
<1>3. /\ \A i, j \in rows : links[i].group = links[j].group
                            /\ links[i].link.target = links[j].link.target => i = j
      /\ \A i, j \in rows2 : links2[i].group = links2[j].group
                            /\ links2[i].link.target = links2[j].link.target => i = j
  BY Kept
<1>4. \A f : (\E i \in rows : f = links[i]) <=> (\E i \in rows2 : f = links2[i])
  OBVIOUS
<1> HIDE DEF rows, rows2
<1>5. used = used2
  <2>1. \A i \in rows : \E j \in rows2 : links[i] = links2[j]
    BY <1>4
  <2>2. \A j \in rows2 : \E i \in rows : links2[j] = links[i]
    BY <1>4
  <2> QED
    BY <2>1, <2>2
<1>6. ASSUME NEW t PROVE groupOf(links, t, in(t)) = groupOf(links2, t, in2(t))
  <2> DEFINE g == groupOf(links, t, in(t))
             h == groupOf(links2, t, in2(t))
             mine == in(t)
             mine2 == in2(t)
  <2>1. /\ mine \in SUBSET (DOMAIN links) /\ mine2 \in SUBSET (DOMAIN links2)
        /\ \A i, j \in mine : links[i].link.target = links[j].link.target => i = j
        /\ \A i, j \in mine2 : links2[i].link.target = links2[j].link.target => i = j
    BY <1>1, <1>3
  <2>2. /\ \A i \in mine : \E j \in mine2 : links[i] = links2[j]
        /\ \A j \in mine2 : \E i \in mine : links2[j] = links[i]
    <3>1. \A i \in rows : \E j \in rows2 : links[i] = links2[j]
      BY <1>4
    <3>2. \A j \in rows2 : \E i \in rows : links2[j] = links[i]
      BY <1>4
    <3> QED
      BY <3>1, <3>2
  <2>3. g = groupOf(links, t, mine) /\ h = groupOf(links2, t, mine2)
    OBVIOUS
  <2> HIDE DEF g, h, mine, mine2
  <2>4. /\ g = [group |-> t, links |-> g.links] /\ g.links \in Seq(Link) /\ Ascending(g.links)
        /\ Shows(g.links, links, mine)
    BY <2>1, <2>3, GroupAscends, GroupOf
  <2>5. /\ h = [group |-> t, links |-> h.links] /\ h.links \in Seq(Link) /\ Ascending(h.links)
        /\ Shows(h.links, links2, mine2)
    BY <2>1, <2>3, GroupAscends, GroupOf
  <2>6. \A l : l \in ToSet(g.links) <=> l \in ToSet(h.links)
    BY <2>2, <2>4, <2>5 DEF Shows
  <2>7. g.links = h.links
    BY <2>4, <2>5, <2>6, AscendingOnce
  <2> QED
    BY <2>4, <2>5, <2>7 DEF g, h
<1> HIDE DEF used, used2, titles, in, in2
<1> QED
  BY <1>2, <1>5, <1>6

\* What the walk found is not dropped.
Stays(body, S, f) ==
    ~(/\ f.link.kind = "uri"
      /\ \/ f.link.target = self(body) /\ f.link.target # NoText
         \/ \E x \in S : x.link.kind = "resource" /\ x.link.target = f.link.target)

\* Of several links to a target in the headers, the first.
FirstIn(h, k) == ~\E l \in DOMAIN h : l < k /\ h[l].link.target = h[k].link.target

\* No two links of the walk that are not dropped lead to the same in a group.
Alone(body, S) ==
    \A f, g \in S : Stays(body, S, f) /\ Stays(body, S, g)
                    /\ f.group = g.group /\ f.link.target = g.link.target => f = g

\* What is left of the links of the walk and of those of the headers.
Lasts(body, S, h, f) == \/ f \in S /\ Stays(body, S, f)
                        \/ \E k \in DOMAIN h : FirstIn(h, k) /\ f = h[k]

\* The links that are kept of those found.
Remain(links, left) == {links[i] : i \in kept(links, left)}

\* The links that are kept, if those of the body that lead to the same are the same:
\* they do not depend on the order in which the walk has found them.
LEMMA KeptOf ==
    ASSUME NEW body, NEW w \in Seq(InBody), NEW h \in Seq(InHeaders),
           Alone(body, ToSet(w)), NEW f
    PROVE  f \in Remain(w \o h, dropShadowedURIs(body, w \o h)) <=> Lasts(body, ToSet(w), h, f)
<1> DEFINE links == w \o h
           left == dropShadowedURIs(body, links)
           M == Len(w)
           N == Len(h)
<1>1. /\ M \in Nat /\ N \in Nat /\ DOMAIN w = 1..M /\ DOMAIN h = 1..N
      /\ \A i \in 1..M : w[i] \in InBody
      /\ \A k \in 1..N : h[k] \in InHeaders
  BY Elements
<1>2. w \in Seq(Finds) /\ h \in Seq(Finds)
  <2>1. InBody \subseteq Finds /\ InHeaders \subseteq Finds
    BY DEF InBody, InHeaders
  <2> QED
    BY <2>1
<1>3. /\ links \in Seq(Finds) /\ DOMAIN links = 1..(M + N)
      /\ \A i \in 1..M : links[i] = w[i]
      /\ \A k \in 1..N : links[M + k] = h[k]
      /\ \A i \in 1..(M + N) : i \in 1..M \/ (i - M \in 1..N /\ i = M + (i - M))
  BY <1>1, <1>2
<1>0. left = dropShadowedURIs(body, links)
  OBVIOUS
<1> HIDE DEF M, N, links, left
<1>4. \A i \in 1..M : /\ links[i].group[1] # "Headers" /\ links[i].link.kind # "header"
                      /\ links[i] \in ToSet(w)
  <2>1. \A i \in 1..M : w[i] \in ToSet(w)
    BY <1>1 DEF ToSet
  <2> QED
    BY <1>1, <1>3, <2>1 DEF InBody
<1>5. \A k \in 1..N : /\ links[M + k].group = <<"Headers", "">>
                      /\ links[M + k].group[1] = "Headers"
                      /\ links[M + k].link.kind = "header"
  <2>1. \A x \in InHeaders : /\ x.group = <<"Headers", "">> /\ x.group[1] = "Headers"
                            /\ x.link.kind = "header"
    <3>1. <<"Headers", "">>[1] = "Headers"
      OBVIOUS
    <3> QED
      BY <3>1 DEF InHeaders
  <2>2. \A k \in 1..N : h[k] \in InHeaders /\ links[M + k] = h[k]
    BY <1>1, <1>3
  <2> QED
    BY <2>1, <2>2
<1>6. \A t : t \in shadows(body, links) <=>
          \/ t = self(body) /\ t # NoText
          \/ \E x \in ToSet(w) : x.link.kind = "resource" /\ x.link.target = t
  <2> SUFFICES ASSUME NEW t
               PROVE  (\E i \in DOMAIN links : links[i].link.kind = "resource"
                                              /\ links[i].link.target = t) <=>
                      \E x \in ToSet(w) : x.link.kind = "resource" /\ x.link.target = t
    BY DEF shadows
  <2>1. ASSUME NEW i \in DOMAIN links, links[i].link.kind = "resource", links[i].link.target = t
        PROVE  \E x \in ToSet(w) : x.link.kind = "resource" /\ x.link.target = t
    <3>1. i \in 1..M
      <4>1. i \in 1..(M + N)
        BY <1>3
      <4>2. i \in 1..M \/ (i - M \in 1..N /\ i = M + (i - M))
        BY <1>3, <4>1
      <4>3. i - M \in 1..N /\ i = M + (i - M) => links[i].link.kind = "header"
        BY <1>5
      <4> QED
        BY <2>1, <4>2, <4>3
    <3> QED
      BY <1>4, <2>1, <3>1
  <2>2. ASSUME NEW x \in ToSet(w), x.link.kind = "resource", x.link.target = t
        PROVE  \E i \in DOMAIN links : links[i].link.kind = "resource" /\ links[i].link.target = t
    <3>1. PICK i \in 1..M : x = w[i]
      BY <1>1 DEF ToSet
    <3>2. i \in DOMAIN links /\ links[i] = x
      BY <1>1, <1>3, <3>1
    <3> QED
      BY <2>2, <3>2
  <2> QED
    BY <2>1, <2>2
<1>7. \A i \in DOMAIN links : i \in left <=>
          ~(links[i].link.kind = "uri" /\ links[i].link.target \in shadows(body, links))
  BY <1>0 DEF dropShadowedURIs
<1>8. left \in SUBSET (DOMAIN links)
  BY <1>0 DEF dropShadowedURIs
<1>9. \A i \in 1..M : i \in left <=> Stays(body, ToSet(w), links[i])
  <2>1. \A i \in 1..M : i \in DOMAIN links
    BY <1>1, <1>3
  <2> QED
    BY <1>6, <1>7, <2>1 DEF Stays
<1>10. \A k \in 1..N : M + k \in left
  <2>1. \A k \in 1..N : M + k \in DOMAIN links
    BY <1>1, <1>3
  <2> QED
    BY <1>5, <1>7, <2>1
<1>11. /\ kept(links, left) \in SUBSET left
       /\ \A i \in left : \E j \in kept(links, left) :
              /\ links[j].group = links[i].group
              /\ links[j].link.target = links[i].link.target
  <2>1. kept(links, left) \in SUBSET left
    BY DEF kept
  <2>2. links \in Seq(Finds)
    BY <1>3
  <2>3. \A ls \in Seq(Finds) : \A l \in SUBSET (DOMAIN ls) :
            \A i \in l : \E j \in kept(ls, l) : /\ ls[j].group = ls[i].group
                                               /\ ls[j].link.target = ls[i].link.target
    BY Kept
  <2>4. \A i \in left : \E j \in kept(links, left) :
            /\ links[j].group = links[i].group
            /\ links[j].link.target = links[i].link.target
    BY <1>8, <2>2, <2>3
  <2> QED
    BY <2>1, <2>4
<1>12. ASSUME NEW i \in kept(links, left), f = links[i]
       PROVE  \/ f \in ToSet(w) /\ Stays(body, ToSet(w), f)
              \/ \E k \in DOMAIN h : FirstIn(h, k) /\ f = h[k]
  <2>1. i \in left /\ i \in 1..(M + N)
    BY <1>3, <1>8, <1>11
  <2>2. CASE i \in 1..M
    BY <1>4, <1>9, <1>12, <2>1, <2>2
  <2>3. CASE i - M \in 1..N /\ i = M + (i - M)
    <3> DEFINE k == i - M
    <3>1. k \in 1..N /\ i = M + k
      BY <2>3
    <3> HIDE DEF k
    <3>2. ASSUME NEW l \in 1..N, l < k, h[l].link.target = h[k].link.target PROVE FALSE
      <4>1. M + l \in left
        BY <1>10, <3>2
      <4>2. M + l < i
        BY <1>1, <3>1, <3>2
      <4>3. links[M + l].group = links[i].group /\ links[M + l].link.target = links[i].link.target
        BY <1>3, <1>5, <3>1, <3>2
      <4> QED
        BY <4>1, <4>2, <4>3 DEF kept
    <3>3. FirstIn(h, k)
      BY <1>1, <3>2 DEF FirstIn
    <3> QED
      BY <1>1, <1>3, <1>12, <3>1, <3>3
  <2> QED
    BY <1>3, <2>1, <2>2, <2>3
<1>13. ASSUME f \in ToSet(w), Stays(body, ToSet(w), f)
       PROVE  \E i \in kept(links, left) : f = links[i]
  <2>1. PICK n \in 1..M : f = links[n]
    BY <1>1, <1>3, <1>13 DEF ToSet
  <2>2. n \in left
    BY <1>9, <1>13, <2>1
  <2>3. PICK i \in kept(links, left) : /\ links[i].group = f.group
                                      /\ links[i].link.target = f.link.target
    BY <1>11, <2>1, <2>2
  <2>4. i \in left /\ i \in 1..(M + N)
    BY <1>3, <1>8, <1>11
  <2>5. i \in 1..M
    <3>1. i - M \in 1..N /\ i = M + (i - M) => links[i].group[1] = "Headers"
      BY <1>5
    <3>2. f.group[1] # "Headers"
      BY <1>4, <2>1
    <3> QED
      BY <1>3, <2>3, <2>4, <3>1, <3>2
  <2>6. links[i] \in ToSet(w) /\ Stays(body, ToSet(w), links[i])
    BY <1>4, <1>9, <2>4, <2>5
  <2>7. links[i] = f
    BY <1>13, <2>3, <2>6 DEF Alone
  <2> QED
    BY <2>7
<1>14. ASSUME NEW k \in DOMAIN h, FirstIn(h, k), f = h[k]
       PROVE  \E i \in kept(links, left) : f = links[i]
  <2>1. k \in 1..N /\ M + k \in left /\ f = links[M + k]
    BY <1>1, <1>3, <1>10, <1>14
  <2>2. ASSUME NEW j \in left, j < M + k, links[j].group = links[M + k].group,
               links[j].link.target = links[M + k].link.target
        PROVE  FALSE
    <3>1. j \in 1..(M + N)
      BY <1>3, <1>8
    <3>2. links[j].group[1] = "Headers"
      BY <1>5, <2>1, <2>2
    <3>3. j - M \in 1..N /\ j = M + (j - M)
      BY <1>3, <1>4, <3>1, <3>2
    <3> DEFINE l == j - M
    <3>4. l \in 1..N /\ j = M + l /\ l < k
      BY <1>1, <2>1, <2>2, <3>3
    <3> HIDE DEF l
    <3>5. h[l].link.target = h[k].link.target
      BY <1>3, <2>1, <2>2, <3>4
    <3> QED
      BY <1>1, <1>14, <3>4, <3>5 DEF FirstIn
  <2>3. M + k \in kept(links, left)
    BY <2>1, <2>2 DEF kept
  <2> QED
    BY <2>1, <2>3
<1>15. (\E i \in kept(links, left) : f = links[i]) <=> Lasts(body, ToSet(w), h, f)
  BY <1>12, <1>13, <1>14 DEF Lasts
<1> QED
  BY <1>15 DEF Remain, links, left

\* A link that a place calls for is mentioned there, and nothing but the place and
\* the kind of the mention makes it what it is.
LEMMA Mentioned ==
    ASSUME NEW body, NEW v \in Values[body][<<>>], NEW f \in says(v)
    PROVE  \E a \in Advertised(body) :
               /\ a.at = v.at
               /\ filed(f) = entry(a.at, a.kind, a.text)
               /\ f = CASE a.kind = "resource" -> resourceLink(v.value, v.at)
                        [] a.kind = "action" -> actionLink(v.value, v.at)
                        [] OTHER -> uriLink(v.value, v.at)
               /\ a.kind = "uri" => a.text = f.link.target
<1>1. CASE IsResource(v) /\ f = resourceLink(v.value, v.at)
  <2> DEFINE a == mention(v, "resource", first(v.value.members, "@odata.id"))
  <2>1. a \in Advertised(body)
    BY <1>1 DEF Advertised
  <2>2. /\ a.at = v.at /\ a.kind = "resource"
        /\ a.text = first(v.value.members, "@odata.id")
    BY DEF mention
  <2> HIDE DEF a
  <2> QED
    BY <1>1, <2>1, <2>2, FiledAs
<1>2. CASE IsAction(v) /\ f = actionLink(v.value, v.at)
  <2> DEFINE a == mention(v, "action", last(v.value.members, "target"))
  <2>1. a \in Advertised(body)
    BY <1>2 DEF Advertised
  <2>2. /\ a.at = v.at /\ a.kind = "action"
        /\ a.text = last(v.value.members, "target")
    BY DEF mention
  <2> HIDE DEF a
  <2> QED
    BY <1>2, <2>1, <2>2, FiledAs
<1>3. CASE IsURI(v) /\ f = uriLink(v.value, v.at)
  <2> DEFINE a == mention(v, "uri", v.value.text)
  <2>1. a \in Advertised(body)
    BY <1>3 DEF Advertised
  <2>2. /\ a.at = v.at /\ a.kind = "uri" /\ a.text = v.value.text
    BY DEF mention
  <2> HIDE DEF a
  <2>3. resourceTarget(v.value.text) = v.value.text
    BY <1>3 DEF IsURI, IsResourcePath, isPath, isURL, resourceTarget
  <2>4. filed(f) = entry(a.at, a.kind, a.text) /\ a.text = f.link.target
    BY <1>3, <2>2, <2>3 DEF entry, filed, uriLink, found, link
  <2> QED
    BY <1>3, <2>1, <2>2, <2>4
<1>4. \/ IsResource(v) /\ f = resourceLink(v.value, v.at)
      \/ IsAction(v) /\ f = actionLink(v.value, v.at)
      \/ IsURI(v) /\ f = uriLink(v.value, v.at)
  BY DEF says
<1> QED
  BY <1>1, <1>2, <1>3, <1>4

\* A document that mentions a resource once in each group calls for one link to it
\* there.
LEMMA SaidOnce ==
    ASSUME NEW body \in Json, body.type # "broken", WrittenOnce(body), SaysItOnce(body),
           NEW f \in said(body, <<>>), NEW g \in said(body, <<>>),
           Stays(body, said(body, <<>>), f), Stays(body, said(body, <<>>), g),
           f.group = g.group, f.link.target = g.link.target
    PROVE  f = g
<1> DEFINE values == Values[body][<<>>]
           Calls(v, a, x) == /\ a.at = v.at
                             /\ filed(x) = entry(a.at, a.kind, a.text)
                             /\ x = CASE a.kind = "resource" -> resourceLink(v.value, v.at)
                                      [] a.kind = "action" -> actionLink(v.value, v.at)
                                      [] OTHER -> uriLink(v.value, v.at)
                             /\ a.kind = "uri" => a.text = x.link.target
<1>1. \A x \in said(body, <<>>) : \E v \in values : x \in says(v)
  BY DEF said
<1>2. \A v \in values : \A x \in says(v) : \E a \in Advertised(body) : Calls(v, a, x)
  BY Mentioned
<1>3. ASSUME NEW v \in values, NEW a \in Advertised(body), NEW x, Calls(v, a, x),
             Stays(body, said(body, <<>>), x)
      PROVE  a \in Offered(body)
  <2>1. x.link.kind = a.kind
    BY <1>3 DEF filed, entry
  <2>2. ASSUME a.kind = "uri", a.text = self(body) PROVE FALSE
    <3>1. a.text # NoText
      BY <2>2, AdvertisedType, ResourcePathLeads
    <3> QED
      BY <1>3, <2>1, <2>2, <3>1 DEF Stays
  <2>3. ASSUME a.kind = "uri", NEW b \in Advertised(body), b.kind = "resource",
               resourceTarget(b.text) = a.text
        PROVE  FALSE
    <3>1. entry(b.at, b.kind, b.text) \in called(body)
      BY AdvertisedSaid
    <3>2. PICK y \in said(body, <<>>) : filed(y) = entry(b.at, b.kind, b.text)
      BY <3>1 DEF called
    <3>3. y.link.kind = "resource" /\ y.link.target = a.text
      BY <2>3, <3>2 DEF filed, entry
    <3> QED
      BY <1>3, <2>1, <2>3, <3>3 DEF Stays
  <2> QED
    BY <2>2, <2>3 DEF Offered, Repeats
<1>4. PICK v \in values : f \in says(v)
  BY <1>1
<1>5. PICK w \in values : g \in says(w)
  BY <1>1
<1> HIDE DEF values
<1>6. PICK a \in Advertised(body) : Calls(v, a, f)
  BY <1>2, <1>4
<1>7. PICK b \in Advertised(body) : Calls(w, b, g)
  BY <1>2, <1>5
<1>8. a \in Offered(body) /\ b \in Offered(body)
  BY <1>3, <1>4, <1>5, <1>6, <1>7
<1>9. groupFor(a.at) = groupFor(b.at) /\ resourceTarget(a.text) = resourceTarget(b.text)
  <2>1. f.group = groupFor(a.at) /\ f.link.target = resourceTarget(a.text)
    BY <1>6 DEF filed, entry
  <2>2. g.group = groupFor(b.at) /\ g.link.target = resourceTarget(b.text)
    BY <1>7 DEF filed, entry
  <2> QED
    BY <2>1, <2>2
<1>10. a = b
  BY <1>8, <1>9 DEF SaysItOnce
<1>11. v = w
  <2>1. v.at = w.at
    BY <1>6, <1>7, <1>10
  <2>2. <<>> \in Path /\ \A u \in values : KeysDiffer(u.value)
    BY DEF Path, WrittenOnce, values
  <2> QED
    BY <1>4, <1>5, <2>1, <2>2, PlacesApart DEF values
<1> QED
  BY <1>6, <1>7, <1>10, <1>11

\* Turning a document around changes nothing of what is listed.
LEMMA ListedAlike ==
    ASSUME NEW body \in Json, body.type # "broken", WrittenOnce(body), SaysItOnce(body),
           NEW h \in Seq(InHeaders)
    PROVE  LET links == walk[body][<<>>] \o h
               links2 == walk[turned[body]][<<>>] \o h
           IN  groups(links, dropShadowedURIs(body, links)) =
                   groups(links2, dropShadowedURIs(turned[body], links2))
<1> DEFINE body2 == turned[body]
           S == said(body, <<>>)
           w == walk[body][<<>>]
           w2 == walk[body2][<<>>]
           links == w \o h
           links2 == w2 \o h
           left == dropShadowedURIs(body, links)
           left2 == dropShadowedURIs(body2, links2)
<1>1. <<>> \in Path /\ ~Aside(<<>>)
  BY DEF Path, Aside, crosses
<1>2. body2 \in Json /\ body2.type = body.type
  BY Turned
<1>3. said(body2, <<>>) = S
  BY <1>1, TurnedSaid DEF WrittenOnce
<1>4. self(body2) = self(body)
  <2>1. KeysDiffer(body)
    <3>1. place(body, <<>>) \in Values[body][<<>>]
      BY <1>1, ValuesSplit
    <3>2. KeysDiffer(place(body, <<>>).value)
      BY <3>1 DEF WrittenOnce
    <3> QED
      BY <3>2 DEF place
  <2> QED
    BY <1>2, <2>1, TurnedMember DEF self
<1>5. /\ w \in Seq(InBody) /\ ToSet(w) = S
      /\ w2 \in Seq(InBody) /\ ToSet(w2) = S
  BY <1>1, <1>2, <1>3, WalkDefined, WalkSays
<1>6. \A f : Stays(body2, S, f) <=> Stays(body, S, f)
  BY <1>4 DEF Stays
<1>7. Alone(body, S) /\ Alone(body2, S)
  <2>1. Alone(body, S)
    BY SaidOnce DEF Alone
  <2> QED
    BY <1>6, <2>1 DEF Alone
<1> HIDE DEF S, w, w2, body2
<1>8. links = w \o h /\ left = dropShadowedURIs(body, links)
  OBVIOUS
<1>9. links2 = w2 \o h /\ left2 = dropShadowedURIs(body2, links2)
  OBVIOUS
<1> HIDE DEF links, links2, left, left2
<1>10. \A f : f \in Remain(links, left) <=> Lasts(body, S, h, f)
  <2>1. Alone(body, ToSet(w))
    BY <1>5, <1>7
  <2>2. \A f : f \in Remain(w \o h, dropShadowedURIs(body, w \o h)) <=> Lasts(body, ToSet(w), h, f)
    BY <1>5, <2>1, KeptOf
  <2> QED
    BY <1>5, <1>8, <2>2
<1>11. \A f : f \in Remain(links2, left2) <=> Lasts(body2, S, h, f)
  <2>1. Alone(body2, ToSet(w2))
    BY <1>5, <1>7
  <2>2. \A f : f \in Remain(w2 \o h, dropShadowedURIs(body2, w2 \o h)) <=> Lasts(body2, ToSet(w2), h, f)
    BY <1>5, <2>1, KeptOf
  <2> QED
    BY <1>5, <1>9, <2>2
<1>12. links \in Seq(Finds) /\ links2 \in Seq(Finds)
  <2>1. InBody \subseteq Finds /\ InHeaders \subseteq Finds
    BY DEF InBody, InHeaders
  <2>2. w \in Seq(Finds) /\ w2 \in Seq(Finds) /\ h \in Seq(Finds)
    BY <1>5, <2>1
  <2> QED
    BY <1>8, <1>9, <2>2
<1>13. left \in SUBSET (DOMAIN links) /\ left2 \in SUBSET (DOMAIN links2)
  BY <1>8, <1>9 DEF dropShadowedURIs
<1>14. groups(links, left) = groups(links2, left2)
  <2>1. \A f : (\E i \in kept(links, left) : f = links[i]) <=>
                (\E i \in kept(links2, left2) : f = links2[i])
    <3>1. \A f : f \in Remain(links, left) <=> f \in Remain(links2, left2)
      BY <1>6, <1>10, <1>11 DEF Lasts
    <3> QED
      BY <3>1 DEF Remain
  <2> QED
    BY <1>12, <1>13, <2>1, GroupsAlike
<1> QED
  BY <1>14 DEF links, links2, left, left2, w, w2, body2

\* A row is the same whichever way round the service writes its document, wherever a
\* resource is mentioned once in a group and no object has a key twice: back and
\* reload, which come back to a row by its number, come back to the same link
\* (links.go:462-483, model.go:582-597).
THEOREM RowsStay == Spec => []RowsKeepTheirPlace
<1>1. Inv => RowsKeepTheirPlace
  <2> SUFFICES ASSUME Inv, listed, WrittenOnce(resp.body), SaysItOnce(resp.body)
               PROVE  ExtractLinks([resp EXCEPT !.body = turned[@]]) = listing
    BY DEF RowsKeepTheirPlace
  <2> DEFINE r == [resp EXCEPT !.body = turned[@]]
             body == resp.body
             h == headerLinks(resp.headers)
  <2>1. resp \in Responses /\ listing = ExtractLinks(resp)
    BY DEF Inv
  <2>2. /\ body \in Json /\ resp.headers \in Seq([name : Names, text : Target])
    BY <2>1, ResponsesAssumption DEF Target
  <2>3. h \in Seq(InHeaders)
    BY <2>2, HeaderLinks
  <2>4. r.headers = resp.headers /\ r.body = turned[body]
    OBVIOUS
  <2>5. turned[body].type = body.type
    BY <2>2, Turned
  <2> HIDE DEF r, body
  <2>6. ASSUME body.type = "broken" PROVE ExtractLinks(r) = listing
    <3>1. ExtractLinks(resp) = <<>>
      BY <2>6 DEF ExtractLinks, body
    <3>2. ExtractLinks(r) = <<>>
      BY <2>4, <2>5, <2>6 DEF ExtractLinks
    <3> QED
      BY <2>1, <3>1, <3>2
  <2>7. ASSUME body.type # "broken" PROVE ExtractLinks(r) = listing
    <3>1. ExtractLinks(resp) =
              groups(walk[body][<<>>] \o h, dropShadowedURIs(body, walk[body][<<>>] \o h))
      BY <2>7 DEF ExtractLinks, body
    <3>2. ExtractLinks(r) =
              groups(walk[turned[body]][<<>>] \o h,
                     dropShadowedURIs(turned[body], walk[turned[body]][<<>>] \o h))
      BY <2>4, <2>5, <2>7 DEF ExtractLinks
    <3>3. WrittenOnce(body) /\ SaysItOnce(body)
      BY DEF body
    <3> HIDE DEF h
    <3>4. ExtractLinks(resp) = ExtractLinks(r)
      BY <2>2, <2>3, <2>7, <3>1, <3>2, <3>3, ListedAlike
    <3> QED
      BY <2>1, <3>4
  <2>8. ExtractLinks(r) = listing
    BY <2>6, <2>7
  <2> QED
    BY <2>8 DEF r
<1> QED
  BY <1>1, InvHolds, PTL
=============================================================================
