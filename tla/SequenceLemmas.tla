---------------------------- MODULE SequenceLemmas ----------------------------
(***************************************************************************)
(* What the lists' operations return, place by place: searching an element,*)
(* inserting one at the head, removing one and walking on from one.        *)
(***************************************************************************)
EXTENDS Naturals, Sequences, SequencesExt, Fifo, SequenceTheorems, WellFoundedInduction, TLAPS

\* A set of naturals has a least element.
LEMMA NatHasLeast ==
  ASSUME NEW T \in SUBSET Nat, T # {}
  PROVE  \E x \in T : \A y \in T : x <= y
<1> DEFINE R == OpToRel(<, Nat)
<1>1. PICK x \in T : \A y \in T : ~ (<<y, x>> \in R)
  <2>1. IsWellFoundedOn(R, Nat)
    BY NatLessThanWellFounded
  <2>. HIDE DEF R
  <2>. QED
    BY <2>1, WFMin
<1>2. \A y \in T : ~ (y < x)
  BY <1>1 DEF OpToRel
<1>. QED
  BY <1>2

\* The greatest index of a sequence with some property exists.
LEMMA MaxIsElement ==
  ASSUME NEW n \in Nat, NEW I \in SUBSET (1 .. n), I # {}
  PROVE  Max(I) \in I
<1> DEFINE T == {n - i : i \in I}
<1>1. PICK x \in T : \A y \in T : x <= y
  <2>1. T \in SUBSET Nat /\ T # {}
    <3>1. T \in SUBSET Nat
      OBVIOUS
    <3>2. T # {}
      OBVIOUS
    <3>. QED
      BY <3>1, <3>2
  <2>. HIDE DEF T
  <2>. QED
    BY <2>1, NatHasLeast
<1>2. PICK i \in I : x = n - i
  BY <1>1
<1>3. \A j \in I : n - i <= n - j
  BY <1>1, <1>2
<1>4. \A j \in I : i >= j
  BY <1>3
<1>. QED
  BY <1>2, <1>4 DEF Max

\* A place of e in the sequence s, the first one.
IndexOf(s, e) == SelectInSeq(s, LAMBDA x : x = e)

\* An element of the sequence is found.
LEMMA IndexIsPlace ==
  ASSUME NEW S, NEW s \in Seq(S), NEW e \in ToSet(s)
  PROVE  /\ IndexOf(s, e) \in DOMAIN s
         /\ s[IndexOf(s, e)] = e
<1> DEFINE I == {i \in 1 .. Len(s) : s[i] = e}
<1>1. Len(s) \in Nat /\ DOMAIN s = 1 .. Len(s)
  BY LenProperties
<1>2. I \in SUBSET Nat /\ I # {}
  <2>1. I \in SUBSET Nat
    BY <1>1
  <2>2. I # {}
    BY <1>1 DEF ToSet
  <2>. QED
    BY <2>1, <2>2
<1>3. IndexOf(s, e) = Min(I)
  BY <1>2 DEF IndexOf, SelectInSeq
<1>4. Min(I) \in I
  <2>. HIDE DEF I
  <2>1. PICK x \in I : \A y \in I : x <= y
    BY <1>2, NatHasLeast
  <2>. QED
    BY <2>1 DEF Min
<1>. QED
  BY <1>1, <1>3, <1>4

\* The sequence without the element at place m.
LEMMA RemoveAtPlace ==
  ASSUME NEW S, NEW s \in Seq(S), NEW m \in DOMAIN s
  PROVE  /\ RemoveAt(s, m) \in Seq(S)
         /\ Len(s) \in Nat /\ DOMAIN s = 1 .. Len(s)
         /\ DOMAIN RemoveAt(s, m) = 1 .. Len(s) - 1
         /\ Len(RemoveAt(s, m)) = Len(s) - 1
         /\ \A j \in 1 .. Len(s) - 1 : RemoveAt(s, m)[j] = IF j < m THEN s[j] ELSE s[j + 1]
<1> DEFINE a == SubSeq(s, 1, m - 1)
           b == SubSeq(s, m + 1, Len(s))
<1>1. Len(s) \in Nat /\ DOMAIN s = 1 .. Len(s) /\ m \in 1 .. Len(s)
      /\ \A i \in 1 .. Len(s) : s[i] \in S
  BY LenProperties, ElementOfSeq
<1>2. a \in Seq(S) /\ Len(a) = m - 1 /\ \A j \in 1 .. m - 1 : a[j] = s[j]
  <2>1. 1 \in Int /\ m - 1 \in Int /\ \A i \in 1 .. m - 1 : s[i] \in S
    BY <1>1
  <2>2. /\ a \in Seq(S)
        /\ Len(a) = IF 1 <= m - 1 THEN (m - 1) - 1 + 1 ELSE 0
        /\ \A j \in 1 .. (m - 1) - 1 + 1 : a[j] = s[1 + j - 1]
    BY <2>1, SubSeqProperties
  <2>. HIDE DEF a
  <2>. QED
    BY <1>1, <2>2
<1>3. b \in Seq(S) /\ Len(b) = Len(s) - m /\ \A j \in 1 .. Len(s) - m : b[j] = s[m + j]
  <2>1. m + 1 \in Int /\ Len(s) \in Int /\ \A i \in m + 1 .. Len(s) : s[i] \in S
    BY <1>1
  <2>2. /\ b \in Seq(S)
        /\ Len(b) = IF m + 1 <= Len(s) THEN Len(s) - (m + 1) + 1 ELSE 0
        /\ \A j \in 1 .. Len(s) - (m + 1) + 1 : b[j] = s[(m + 1) + j - 1]
    BY <2>1, SubSeqProperties
  <2>. HIDE DEF b
  <2>3. Len(s) - (m + 1) + 1 = Len(s) - m
    BY <1>1
  <2>4. Len(b) = Len(s) - m
    BY <1>1, <2>2
  <2>5. \A j \in 1 .. Len(s) - m : b[j] = s[m + j]
    <3>. SUFFICES ASSUME NEW j \in 1 .. Len(s) - m PROVE b[j] = s[m + j]
      OBVIOUS
    <3>1. b[j] = s[(m + 1) + j - 1]
      BY <2>2, <2>3
    <3>2. (m + 1) + j - 1 = m + j
      BY <1>1
    <3>. QED
      BY <3>1, <3>2
  <2>. QED
    BY <2>2, <2>4, <2>5
<1>. HIDE DEF a, b
<1>4. a \o b \in Seq(S) /\ Len(a \o b) = Len(s) - 1
  <2>1. /\ a \o b \in Seq(S)
        /\ Len(a \o b) = Len(a) + Len(b)
    BY <1>2, <1>3, ConcatProperties
  <2>. QED
    BY <1>1, <1>2, <1>3, <2>1
<1>5. \A j \in 1 .. Len(s) - 1 : (a \o b)[j] = IF j < m THEN s[j] ELSE s[j + 1]
  <2>. SUFFICES ASSUME NEW j \in 1 .. Len(s) - 1
                PROVE  (a \o b)[j] = IF j < m THEN s[j] ELSE s[j + 1]
    OBVIOUS
  <2>1. j \in 1 .. Len(a) + Len(b)
    BY <1>1, <1>2, <1>3
  <2>2. (a \o b)[j] = IF j <= m - 1 THEN a[j] ELSE b[j - (m - 1)]
    <3>1. (a \o b)[j] = IF j <= Len(a) THEN a[j] ELSE b[j - Len(a)]
      BY <1>2, <1>3, <2>1, ConcatProperties
    <3>2. Len(a) = m - 1
      BY <1>2
    <3>. QED
      BY <3>1, <3>2
  <2>3. CASE j < m
    BY <1>1, <1>2, <2>2, <2>3
  <2>4. CASE ~ (j < m)
    <3>1. j - (m - 1) \in 1 .. Len(s) - m /\ m + (j - (m - 1)) = j + 1 /\ ~ (j <= m - 1)
      BY <1>1, <2>4
    <3>2. b[j - (m - 1)] = s[m + (j - (m - 1))]
      BY <1>3, <3>1
    <3>. QED
      BY <2>2, <2>4, <3>1, <3>2
  <2>. QED
    BY <2>3, <2>4
<1>6. DOMAIN (a \o b) = 1 .. Len(s) - 1
  BY <1>4, LenProperties
<1>. QED
  BY <1>1, <1>4, <1>5, <1>6 DEF RemoveAt, a, b

\* The list with a new head.
LEMMA ConsAtPlace ==
  ASSUME NEW S, NEW s \in Seq(S), NEW e \in S
  PROVE  /\ <<e>> \o s \in Seq(S)
         /\ Len(s) \in Nat /\ DOMAIN s = 1 .. Len(s)
         /\ Len(<<e>> \o s) = Len(s) + 1
         /\ DOMAIN (<<e>> \o s) = 1 .. Len(s) + 1
         /\ (<<e>> \o s)[1] = e
         /\ \A j \in 1 .. Len(s) : (<<e>> \o s)[j + 1] = s[j]
         /\ ToSet(<<e>> \o s) = {e} \cup ToSet(s)
<1> DEFINE t == <<e>> \o s
<1>1. <<e>> \in Seq(S) /\ Len(<<e>>) = 1 /\ <<e>>[1] = e
  OBVIOUS
<1>2. Len(s) \in Nat /\ DOMAIN s = 1 .. Len(s)
  BY LenProperties
<1>3. /\ t \in Seq(S)
      /\ Len(t) = 1 + Len(s)
      /\ \A i \in 1 .. 1 + Len(s) : t[i] = IF i <= 1 THEN <<e>>[i] ELSE s[i - 1]
  <2>1. /\ t \in Seq(S)
        /\ Len(t) = Len(<<e>>) + Len(s)
        /\ \A i \in 1 .. Len(<<e>>) + Len(s) :
             t[i] = IF i <= Len(<<e>>) THEN <<e>>[i] ELSE s[i - Len(<<e>>)]
    BY <1>1, ConcatProperties
  <2>. HIDE DEF t
  <2>. QED
    BY <1>1, <2>1
<1>4. DOMAIN t = 1 .. Len(t)
  BY <1>3, LenProperties
<1>. HIDE DEF t
<1>5. t[1] = e
  BY <1>1, <1>2, <1>3
<1>6. ASSUME NEW j \in 1 .. Len(s) PROVE t[j + 1] = s[j]
  <2>1. j + 1 \in 1 .. 1 + Len(s) /\ ~ (j + 1 <= 1) /\ (j + 1) - 1 = j
    BY <1>2
  <2>. QED
    BY <1>3, <2>1
<1>7. Len(t) = Len(s) + 1 /\ DOMAIN t = 1 .. Len(s) + 1
  BY <1>2, <1>3, <1>4
<1>8. ToSet(t) = {e} \cup ToSet(s)
  <2>1. ASSUME NEW x \in ToSet(t) PROVE x \in {e} \cup ToSet(s)
    <3>1. PICK i \in 1 .. Len(s) + 1 : x = t[i]
      BY <1>7 DEF ToSet
    <3>2. CASE i = 1
      BY <1>5, <3>1, <3>2
    <3>3. CASE i # 1
      <4>1. i - 1 \in 1 .. Len(s) /\ (i - 1) + 1 = i
        BY <1>2, <3>3
      <4>2. x = s[i - 1]
        BY <1>6, <3>1, <4>1
      <4>. QED
        BY <1>2, <4>1, <4>2 DEF ToSet
    <3>. QED
      BY <3>2, <3>3
  <2>2. e \in ToSet(t)
    <3>1. 1 \in DOMAIN t
      BY <1>2, <1>7
    <3>. QED
      BY <1>5, <3>1 DEF ToSet
  <2>3. ASSUME NEW x \in ToSet(s) PROVE x \in ToSet(t)
    <3>1. PICK i \in 1 .. Len(s) : x = s[i]
      BY <1>2 DEF ToSet
    <3>2. i + 1 \in DOMAIN t
      BY <1>2, <1>7
    <3>. QED
      BY <1>6, <3>1, <3>2 DEF ToSet
  <2>. QED
    BY <2>1, <2>2, <2>3
<1>. QED
  BY <1>2, <1>3, <1>5, <1>6, <1>7, <1>8 DEF t

\* The list without one of its elements, which is in it once.
LEMMA RemoveFirstAtPlace ==
  ASSUME NEW S, NEW s \in Seq(S), IsInjective(s), NEW e \in ToSet(s)
  PROVE  /\ IndexOf(s, e) \in DOMAIN s /\ s[IndexOf(s, e)] = e
         /\ RemoveFirst(s, e) = RemoveAt(s, IndexOf(s, e))
         /\ IsInjective(RemoveFirst(s, e))
         /\ ToSet(RemoveFirst(s, e)) = ToSet(s) \ {e}
<1> DEFINE m == IndexOf(s, e)
           t == RemoveAt(s, m)
<1>1. m \in DOMAIN s /\ s[m] = e
  BY IndexIsPlace
<1>2. Len(s) \in Nat /\ DOMAIN s = 1 .. Len(s)
  BY LenProperties
<1>3. RemoveFirst(s, e) = t
  BY <1>1, <1>2 DEF RemoveFirst, IndexOf
<1>. HIDE DEF m
<1>4. /\ DOMAIN t = 1 .. Len(s) - 1
      /\ \A j \in 1 .. Len(s) - 1 : t[j] = IF j < m THEN s[j] ELSE s[j + 1]
  BY <1>1, RemoveAtPlace
<1>. HIDE DEF t
<1>5. IsInjective(t)
  <2>. SUFFICES ASSUME NEW j \in 1 .. Len(s) - 1, NEW k \in 1 .. Len(s) - 1, t[j] = t[k]
                PROVE  j = k
    BY <1>4 DEF IsInjective
  <2> DEFINE old(i) == IF i < m THEN i ELSE i + 1
  <2>1. old(j) \in 1 .. Len(s) /\ old(k) \in 1 .. Len(s)
    BY <1>1, <1>2
  <2>2. t[j] = s[old(j)] /\ t[k] = s[old(k)]
    BY <1>4
  <2>3. old(j) = old(k)
    <3>. HIDE DEF old
    <3>. QED
      BY <1>2, <2>1, <2>2 DEF IsInjective
  <2>. QED
    BY <1>1, <1>2, <2>3
<1>6. ToSet(t) = ToSet(s) \ {e}
  <2>1. ASSUME NEW x \in ToSet(t) PROVE x \in ToSet(s) \ {e}
    <3>1. PICK j \in 1 .. Len(s) - 1 : x = t[j]
      BY <1>4 DEF ToSet
    <3> DEFINE i == IF j < m THEN j ELSE j + 1
    <3>2. i \in 1 .. Len(s) /\ i # m
      BY <1>1, <1>2
    <3>3. x = s[i]
      BY <1>4, <3>1
    <3>. HIDE DEF i
    <3>4. x # e
      BY <1>1, <1>2, <3>2, <3>3 DEF IsInjective
    <3>. QED
      BY <1>2, <3>2, <3>3, <3>4 DEF ToSet
  <2>2. ASSUME NEW x \in ToSet(s), x # e PROVE x \in ToSet(t)
    <3>1. PICK i \in 1 .. Len(s) : x = s[i]
      BY <1>2 DEF ToSet
    <3>2. i # m
      BY <1>1, <2>2, <3>1
    <3> DEFINE j == IF i < m THEN i ELSE i - 1
    <3>3. j \in 1 .. Len(s) - 1 /\ i = IF j < m THEN j ELSE j + 1
      BY <1>1, <1>2, <3>2
    <3>4. t[j] = s[i]
      <4>. HIDE DEF j
      <4>1. t[j] = IF j < m THEN s[j] ELSE s[j + 1]
        BY <1>4, <3>3
      <4>. QED
        BY <3>3, <4>1
    <3>. HIDE DEF j
    <3>. QED
      BY <1>4, <3>1, <3>3, <3>4 DEF ToSet
  <2>. QED
    BY <2>1, <2>2
<1>. QED
  BY <1>1, <1>3, <1>5, <1>6 DEF m, t

\* The list from the element at place m on.
LEMMA SuffixAtPlace ==
  ASSUME NEW S, NEW s \in Seq(S), NEW m \in DOMAIN s
  PROVE  LET t == SubSeq(s, m, Len(s))
         IN  /\ Len(t) = Len(s) - m + 1
             /\ \A j \in 1 .. Len(s) - m + 1 : t[j] = s[m + j - 1]
             /\ ToSet(t) = {s[j] : j \in m .. Len(s)}
<1> DEFINE t == SubSeq(s, m, Len(s))
<1>1. Len(s) \in Nat /\ m \in 1 .. Len(s) /\ \A j \in m .. Len(s) : s[j] \in S
  BY LenProperties, ElementOfSeq
<1>2. /\ t \in Seq(S)
      /\ Len(t) = IF m <= Len(s) THEN Len(s) - m + 1 ELSE 0
      /\ \A j \in 1 .. Len(s) - m + 1 : t[j] = s[m + j - 1]
  BY <1>1, SubSeqProperties
<1>3. DOMAIN t = 1 .. Len(t)
  BY <1>2, LenProperties
<1>. HIDE DEF t
<1>4. Len(t) = Len(s) - m + 1
  BY <1>1, <1>2
<1>5. ToSet(t) = {s[j] : j \in m .. Len(s)}
  <2>1. ASSUME NEW x \in ToSet(t) PROVE x \in {s[j] : j \in m .. Len(s)}
    <3>1. PICK j \in 1 .. Len(s) - m + 1 : x = t[j]
      BY <1>3, <1>4 DEF ToSet
    <3>2. m + j - 1 \in m .. Len(s)
      BY <1>1
    <3>. QED
      BY <1>2, <3>1, <3>2
  <2>2. ASSUME NEW j \in m .. Len(s) PROVE s[j] \in ToSet(t)
    <3>1. j - m + 1 \in 1 .. Len(s) - m + 1 /\ m + (j - m + 1) - 1 = j
      BY <1>1
    <3>2. t[j - m + 1] = s[m + (j - m + 1) - 1]
      BY <1>2, <3>1
    <3>. QED
      BY <1>3, <1>4, <3>1, <3>2 DEF ToSet
  <2>. QED
    BY <2>1, <2>2
<1>. QED
  BY <1>2, <1>4, <1>5 DEF t

\* The queue without its head.
LEMMA TailOfInjective ==
  ASSUME NEW S, NEW s \in Seq(S), IsInjective(s), s # <<>>
  PROVE  /\ Head(s) \in ToSet(s)
         /\ Tail(s) \in Seq(S)
         /\ IsInjective(Tail(s))
         /\ ToSet(Tail(s)) = ToSet(s) \ {Head(s)}
<1> DEFINE t == Tail(s)
           n == Len(s)
<1>1. n \in Nat \ {0} /\ DOMAIN s = 1 .. n /\ Head(s) = s[1]
  BY LenProperties, EmptySeq
<1>2. t \in Seq(S) /\ Len(t) = n - 1 /\ \A j \in 1 .. Len(t) : t[j] = s[j + 1]
  BY HeadTailProperties
<1>3. DOMAIN t = 1 .. n - 1
  BY <1>2, LenProperties
<1>. HIDE DEF t, n
<1>4. IsInjective(t)
  <2>. SUFFICES ASSUME NEW j \in 1 .. n - 1, NEW k \in 1 .. n - 1, t[j] = t[k]
                PROVE  j = k
    BY <1>3 DEF IsInjective
  <2>1. j + 1 \in DOMAIN s /\ k + 1 \in DOMAIN s /\ s[j + 1] = s[k + 1]
    BY <1>1, <1>2
  <2>2. j + 1 = k + 1
    BY <2>1 DEF IsInjective
  <2>. QED
    BY <1>1, <2>2
<1>5. ASSUME NEW x \in ToSet(t) PROVE x \in ToSet(s) \ {Head(s)}
  <2>1. PICK j \in 1 .. n - 1 : x = t[j]
    BY <1>3 DEF ToSet
  <2>2. j + 1 \in DOMAIN s /\ 1 \in DOMAIN s /\ j + 1 # 1 /\ x = s[j + 1]
    BY <1>1, <1>2, <2>1
  <2>3. x # s[1]
    BY <2>2 DEF IsInjective
  <2>. QED
    BY <1>1, <2>2, <2>3 DEF ToSet
<1>6. ASSUME NEW x \in ToSet(s), x # Head(s) PROVE x \in ToSet(t)
  <2>1. PICK j \in 1 .. n : x = s[j]
    BY <1>1 DEF ToSet
  <2>2. j # 1
    BY <1>1, <1>6, <2>1
  <2>3. j - 1 \in 1 .. n - 1 /\ (j - 1) + 1 = j
    BY <1>1, <2>2
  <2>4. t[j - 1] = s[(j - 1) + 1]
    BY <1>2, <2>3
  <2>. QED
    BY <1>3, <2>1, <2>3, <2>4 DEF ToSet
<1>7. Head(s) \in ToSet(s)
  <2>1. 1 \in DOMAIN s
    BY <1>1
  <2>. QED
    BY <1>1, <2>1 DEF ToSet
<1>8. ToSet(t) = ToSet(s) \ {Head(s)}
  BY <1>5, <1>6
<1>. QED
  BY <1>2, <1>4, <1>7, <1>8 DEF t

\* And with a new last element.
LEMMA AppendOfInjective ==
  ASSUME NEW S, NEW s \in Seq(S), IsInjective(s), NEW e \in S, e \notin ToSet(s)
  PROVE  /\ Append(s, e) \in Seq(S)
         /\ IsInjective(Append(s, e))
         /\ ToSet(Append(s, e)) = ToSet(s) \cup {e}
<1> DEFINE t == Append(s, e)
           n == Len(s)
<1>1. n \in Nat /\ DOMAIN s = 1 .. n
  BY LenProperties
<1>2. /\ t \in Seq(S) /\ Len(t) = n + 1
      /\ \A j \in 1 .. n : t[j] = s[j]
      /\ t[n + 1] = e
  BY AppendProperties
<1>3. DOMAIN t = 1 .. n + 1
  BY <1>2, LenProperties
<1>. HIDE DEF t, n
<1>4. \A j \in 1 .. n + 1 : (j \in 1 .. n /\ t[j] = s[j]) \/ (j = n + 1 /\ t[j] = e)
  BY <1>1, <1>2
<1>5. \A j \in 1 .. n : s[j] \in ToSet(s)
  BY <1>1 DEF ToSet
<1>6. IsInjective(t)
  <2>. SUFFICES ASSUME NEW j \in 1 .. n + 1, NEW k \in 1 .. n + 1, t[j] = t[k]
                PROVE  j = k
    BY <1>3 DEF IsInjective
  <2>1. \A a, b \in 1 .. n : s[a] = s[b] => a = b
    BY <1>1 DEF IsInjective
  <2>. QED
    BY <1>4, <1>5, <2>1
<1>7. ToSet(t) = ToSet(s) \cup {e}
  <2>1. ASSUME NEW x \in ToSet(t) PROVE x \in ToSet(s) \cup {e}
    BY <1>3, <1>4, <1>5 DEF ToSet
  <2>2. ASSUME NEW x \in ToSet(s) PROVE x \in ToSet(t)
    <3>1. PICK j \in 1 .. n : x = s[j]
      BY <1>1 DEF ToSet
    <3>2. j \in 1 .. n + 1
      BY <1>1
    <3>. QED
      BY <1>2, <1>3, <3>1, <3>2 DEF ToSet
  <2>3. e \in ToSet(t)
    <3>1. n + 1 \in 1 .. n + 1
      BY <1>1
    <3>. QED
      BY <1>2, <1>3, <3>1 DEF ToSet
  <2>. QED
    BY <2>1, <2>2, <2>3
<1>. QED
  BY <1>2, <1>6, <1>7 DEF t

\* The list from the element e on.
SuffixFrom(s, e) ==
  IF e \in ToSet(s) THEN SubSeq(s, IndexOf(s, e), Len(s)) ELSE <<>>

\* It starts at the place of the element.
LEMMA SuffixFromPlace ==
  ASSUME NEW S, NEW s \in Seq(S), IsInjective(s), NEW m \in DOMAIN s
  PROVE  /\ s[m] \in ToSet(s)
         /\ SuffixFrom(s, s[m]) = SubSeq(s, m, Len(s))
         /\ ToSet(SuffixFrom(s, s[m])) = {s[j] : j \in m .. Len(s)}
<1>1. s[m] \in ToSet(s)
  BY DEF ToSet
<1>2. IndexOf(s, s[m]) = m
  <2>1. IndexOf(s, s[m]) \in DOMAIN s /\ s[IndexOf(s, s[m])] = s[m]
    BY <1>1, IndexIsPlace
  <2>. QED
    BY <2>1 DEF IsInjective
<1>3. SuffixFrom(s, s[m]) = SubSeq(s, m, Len(s))
  BY <1>1, <1>2 DEF SuffixFrom
<1>. QED
  BY <1>1, <1>3, SuffixAtPlace

\* A new head does not change what comes after.
LEMMA SuffixOfCons ==
  ASSUME NEW S, NEW s \in Seq(S), NEW r \in S, NEW e,
         IsInjective(s), IsInjective(<<r>> \o s), e # r
  PROVE  ToSet(SuffixFrom(<<r>> \o s, e)) = ToSet(SuffixFrom(s, e))
<1> DEFINE t == <<r>> \o s
           n == Len(s)
<1>1. /\ t \in Seq(S)
      /\ n \in Nat /\ DOMAIN s = 1 .. n
      /\ Len(t) = n + 1 /\ DOMAIN t = 1 .. n + 1
      /\ \A j \in 1 .. n : t[j + 1] = s[j]
      /\ ToSet(t) = {r} \cup ToSet(s)
  BY ConsAtPlace
<1>2. CASE e \notin ToSet(s)
  BY <1>1, <1>2 DEF SuffixFrom
<1>3. CASE e \in ToSet(s)
  <2>1. PICK m \in 1 .. n : e = s[m]
    BY <1>1, <1>3 DEF ToSet
  <2>2. ToSet(SuffixFrom(s, e)) = {s[j] : j \in m .. n}
    BY <1>1, <2>1, SuffixFromPlace
  <2>3. m + 1 \in DOMAIN t /\ t[m + 1] = e
    BY <1>1, <2>1
  <2>4. ToSet(SuffixFrom(t, e)) = {t[j] : j \in m + 1 .. n + 1}
    <3>. HIDE DEF t
    <3>1. ToSet(SuffixFrom(t, t[m + 1])) = {t[j] : j \in m + 1 .. Len(t)}
      BY <1>1, <2>3, SuffixFromPlace DEF t
    <3>. QED
      BY <1>1, <2>3, <3>1
  <2>. HIDE DEF t, n
  <2>5. ASSUME NEW j \in m .. n PROVE s[j] \in {t[k] : k \in m + 1 .. n + 1}
    <3>1. j \in 1 .. n /\ j + 1 \in m + 1 .. n + 1
      BY <1>1
    <3>. QED
      BY <1>1, <3>1
  <2>6. ASSUME NEW k \in m + 1 .. n + 1 PROVE t[k] \in {s[j] : j \in m .. n}
    <3>1. k - 1 \in 1 .. n /\ k - 1 \in m .. n /\ (k - 1) + 1 = k
      BY <1>1
    <3>2. t[(k - 1) + 1] = s[k - 1]
      BY <1>1, <3>1
    <3>. QED
      BY <3>1, <3>2
  <2>7. {s[j] : j \in m .. n} = {t[k] : k \in m + 1 .. n + 1}
    BY <2>5, <2>6
  <2>. QED
    BY <2>2, <2>4, <2>7 DEF t
<1>. QED
  BY <1>2, <1>3

\* What every list is: a function from the places 1 .. Len(s).
LEMMA ListPlaces ==
  ASSUME NEW S, NEW s \in Seq(S)
  PROVE  /\ Len(s) \in Nat /\ DOMAIN s = 1 .. Len(s)
         /\ \A j \in 1 .. Len(s) : s[j] \in S /\ s[j] \in ToSet(s)
         /\ \A x \in ToSet(s) : \E j \in 1 .. Len(s) : x = s[j]
         /\ ToSet(s) \subseteq S
         /\ (s = <<>>) <=> (Len(s) = 0)
         /\ (s = <<>>) <=> (ToSet(s) = {})
<1>1. Len(s) \in Nat /\ DOMAIN s = 1 .. Len(s)
  BY LenProperties
<1>2. \A j \in 1 .. Len(s) : s[j] \in S /\ s[j] \in ToSet(s)
  BY <1>1, ElementOfSeq DEF ToSet
<1>3. \A x \in ToSet(s) : \E j \in 1 .. Len(s) : x = s[j]
  BY <1>1 DEF ToSet
<1>4. (s = <<>>) <=> (Len(s) = 0)
  BY EmptySeq
<1>5. Len(s) # 0 => ToSet(s) # {}
  <2>1. Len(s) # 0 => 1 \in 1 .. Len(s)
    BY <1>1
  <2>. QED
    BY <1>2, <2>1
<1>6. Len(s) = 0 => ToSet(s) = {}
  BY <1>1, <1>3
<1>. QED
  BY <1>1, <1>2, <1>3, <1>4, <1>5, <1>6

\* A new head leaves the list without repetition.
LEMMA ConsOfInjective ==
  ASSUME NEW S, NEW s \in Seq(S), IsInjective(s), NEW e \in S, e \notin ToSet(s)
  PROVE  IsInjective(<<e>> \o s)
<1> DEFINE t == <<e>> \o s
           n == Len(s)
<1>1. /\ n \in Nat /\ DOMAIN s = 1 .. n /\ DOMAIN t = 1 .. n + 1
      /\ t[1] = e /\ \A j \in 1 .. n : t[j + 1] = s[j]
  BY ConsAtPlace
<1>2. \A j \in 1 .. n : s[j] # e
  BY ListPlaces
<1>. HIDE DEF t, n
<1>3. \A i \in 1 .. n + 1 : i = 1 \/ (i - 1 \in 1 .. n /\ t[i] = s[i - 1])
  <2>. SUFFICES ASSUME NEW i \in 1 .. n + 1, i # 1
                PROVE  i - 1 \in 1 .. n /\ t[i] = s[i - 1]
    OBVIOUS
  <2>1. i - 1 \in 1 .. n /\ (i - 1) + 1 = i
    BY <1>1
  <2>. QED
    BY <1>1, <2>1
<1>4. ASSUME NEW i \in 1 .. n + 1, NEW j \in 1 .. n + 1, t[i] = t[j] PROVE i = j
  <2>1. i = 1 <=> j = 1
    BY <1>1, <1>2, <1>3, <1>4
  <2>2. \A a, b \in 1 .. n : s[a] = s[b] => a = b
    BY <1>1 DEF IsInjective
  <2>3. i # 1 /\ j # 1 => i - 1 = j - 1
    BY <1>3, <1>4, <2>2
  <2>. QED
    BY <1>1, <2>1, <2>3
<1>. QED
  BY <1>1, <1>4 DEF IsInjective, t

\* Two elements are in this order in the list.
Before(s, x, y) ==
  \E i, j \in DOMAIN s : i < j /\ s[i] = x /\ s[j] = y

\* The new head comes before the others and leaves their order.
LEMMA BeforeOfCons ==
  ASSUME NEW S, NEW s \in Seq(S), NEW e \in S, NEW x, NEW y, Before(<<e>> \o s, x, y)
  PROVE  (x = e /\ y \in ToSet(s)) \/ Before(s, x, y)
<1> DEFINE t == <<e>> \o s
           n == Len(s)
<1>1. /\ n \in Nat /\ DOMAIN s = 1 .. n /\ DOMAIN t = 1 .. n + 1
      /\ t[1] = e /\ \A j \in 1 .. n : t[j + 1] = s[j]
  BY ConsAtPlace
<1>. HIDE DEF t, n
<1>2. PICK i \in 1 .. n + 1, j \in 1 .. n + 1 : i < j /\ t[i] = x /\ t[j] = y
  BY <1>1 DEF Before, t
<1>3. j - 1 \in 1 .. n /\ (j - 1) + 1 = j /\ y = s[j - 1]
  <2>1. j - 1 \in 1 .. n /\ (j - 1) + 1 = j
    BY <1>1, <1>2
  <2>2. t[(j - 1) + 1] = s[j - 1]
    BY <1>1, <2>1
  <2>. QED
    BY <1>2, <2>1, <2>2
<1>4. CASE i = 1
  BY <1>1, <1>2, <1>3, <1>4 DEF ToSet
<1>5. CASE i # 1
  <2>1. i - 1 \in 1 .. n /\ (i - 1) + 1 = i /\ i - 1 < j - 1
    BY <1>1, <1>2, <1>5
  <2>2. t[(i - 1) + 1] = s[i - 1]
    BY <1>1, <2>1
  <2>3. x = s[i - 1]
    BY <1>2, <2>1, <2>2
  <2>. QED
    BY <1>1, <1>3, <2>1, <2>3 DEF Before
<1>. QED
  BY <1>4, <1>5

\* Taking one element out leaves the order of the others.
LEMMA BeforeOfRemove ==
  ASSUME NEW S, NEW s \in Seq(S), IsInjective(s), NEW e \in ToSet(s), NEW x, NEW y,
         Before(RemoveFirst(s, e), x, y)
  PROVE  Before(s, x, y)
<1> DEFINE m == IndexOf(s, e)
           t == RemoveFirst(s, e)
           n == Len(s)
           old(i) == IF i < m THEN i ELSE i + 1
<1>1. m \in DOMAIN s /\ t = RemoveAt(s, m)
  BY RemoveFirstAtPlace
<1>. HIDE DEF m, t
<1>2. /\ n \in Nat /\ DOMAIN s = 1 .. n /\ DOMAIN t = 1 .. n - 1
      /\ \A j \in 1 .. n - 1 : t[j] = IF j < m THEN s[j] ELSE s[j + 1]
  BY <1>1, RemoveAtPlace
<1>. HIDE DEF n
<1>3. PICK i \in 1 .. n - 1, j \in 1 .. n - 1 : i < j /\ t[i] = x /\ t[j] = y
  BY <1>2 DEF Before, t
<1>4. old(i) \in 1 .. n /\ old(j) \in 1 .. n /\ old(i) < old(j)
  BY <1>1, <1>2, <1>3
<1>5. x = s[old(i)] /\ y = s[old(j)]
  BY <1>2, <1>3
<1>. HIDE DEF old
<1>. QED
  BY <1>2, <1>4, <1>5 DEF Before

\* The first place of an element of T, 0 if there is none.
FirstOf(s, T) == SelectInSeq(s, LAMBDA x : x \in T)

\* What a search from the head finds comes before whatever else would do.
LEMMA FirstOfIsFirst ==
  ASSUME NEW S, NEW s \in Seq(S), NEW T
  PROVE  \/ FirstOf(s, T) = 0 /\ ToSet(s) \cap T = {}
         \/ /\ FirstOf(s, T) \in 1 .. Len(s)
            /\ s[FirstOf(s, T)] \in ToSet(s) \cap T
            /\ \A y \in ToSet(s) \cap T :
                 y = s[FirstOf(s, T)] \/ Before(s, s[FirstOf(s, T)], y)
<1> DEFINE I == {i \in 1 .. Len(s) : s[i] \in T}
<1>0. /\ Len(s) \in Nat /\ DOMAIN s = 1 .. Len(s)
      /\ \A x \in ToSet(s) : \E j \in 1 .. Len(s) : x = s[j]
      /\ \A j \in 1 .. Len(s) : s[j] \in ToSet(s)
  BY ListPlaces
<1>1. FirstOf(s, T) = IF I # {} THEN Min(I) ELSE 0
  BY DEF FirstOf, SelectInSeq
<1>2. CASE I = {}
  <2>1. \A x \in ToSet(s) : x \notin T
    BY <1>0, <1>2
  <2>. QED
    BY <1>1, <1>2, <2>1
<1>3. CASE I # {}
  <2>1. I \in SUBSET Nat
    BY <1>0
  <2>. HIDE DEF I
  <2>2. PICK x \in I : \A y \in I : x <= y
    BY <1>3, <2>1, NatHasLeast
  <2>3. Min(I) \in I /\ \A y \in I : Min(I) <= y
    BY <2>2 DEF Min
  <2> DEFINE k == FirstOf(s, T)
  <2>4. k \in 1 .. Len(s) /\ s[k] \in T /\ \A i \in 1 .. Len(s) : s[i] \in T => k <= i
    BY <1>1, <1>3, <2>3 DEF I
  <2>. HIDE DEF k
  <2>5. ASSUME NEW y \in ToSet(s) \cap T, y # s[k] PROVE Before(s, s[k], y)
    <3>1. PICK j \in 1 .. Len(s) : y = s[j]
      BY <1>0
    <3>2. k < j
      BY <1>0, <2>4, <2>5, <3>1
    <3>. QED
      BY <1>0, <2>4, <3>1, <3>2 DEF Before
  <2>. QED
    BY <1>0, <2>4, <2>5 DEF k
<1>. QED
  BY <1>2, <1>3

\* A walk from the head: it starts with the whole list ahead of it, and a step
\* leaves one element behind.
AheadOf(s, e) == ToSet(SuffixFrom(s, e))
NextIn(s, e, null) ==
  IF Len(SuffixFrom(s, e)) > 1 THEN SuffixFrom(s, e)[2] ELSE null

LEMMA WalkStarts ==
  ASSUME NEW S, NEW s \in Seq(S), IsInjective(s), s # <<>>
  PROVE  Head(s) \in ToSet(s) /\ AheadOf(s, Head(s)) = ToSet(s)
<1>1. Len(s) \in Nat /\ Len(s) # 0 /\ DOMAIN s = 1 .. Len(s)
  BY ListPlaces
<1>2. 1 \in DOMAIN s /\ s[1] = Head(s)
  BY <1>1
<1>3. Head(s) \in ToSet(s) /\ AheadOf(s, Head(s)) = {s[j] : j \in 1 .. Len(s)}
  BY <1>2, SuffixFromPlace DEF AheadOf
<1>. QED
  BY <1>1, <1>3 DEF ToSet

LEMMA WalkSteps ==
  ASSUME NEW S, NEW s \in Seq(S), IsInjective(s), NEW e \in ToSet(s), NEW null, null \notin S
  PROVE  LET n == NextIn(s, e, null)
         IN  /\ e \in AheadOf(s, e) /\ AheadOf(s, e) \subseteq ToSet(s)
             /\ n = null => AheadOf(s, e) = {e}
             /\ n # null => n \in ToSet(s) /\ AheadOf(s, n) = AheadOf(s, e) \ {e}
<1> DEFINE t == SuffixFrom(s, e)
           len == Len(s)
           n == NextIn(s, e, null)
<1>1. /\ len \in Nat /\ DOMAIN s = 1 .. len
      /\ \A j \in 1 .. len : s[j] \in S /\ s[j] \in ToSet(s)
  BY ListPlaces
<1>2. PICK m \in 1 .. len : e = s[m]
  BY ListPlaces
<1>3. /\ t = SubSeq(s, m, len)
      /\ AheadOf(s, e) = {s[j] : j \in m .. len}
  BY <1>1, <1>2, SuffixFromPlace DEF AheadOf
<1>4. /\ Len(t) = len - m + 1
      /\ \A j \in 1 .. len - m + 1 : t[j] = s[m + j - 1]
  BY <1>1, <1>3, SuffixAtPlace
<1>. HIDE DEF t, len
<1>5. m \in m .. len /\ m .. len \subseteq 1 .. len
  BY <1>1, <1>2
<1>6. e \in AheadOf(s, e) /\ AheadOf(s, e) \subseteq ToSet(s)
  BY <1>1, <1>2, <1>3, <1>5
<1>7. CASE m = len
  <2>1. n = null
    BY <1>1, <1>4, <1>7 DEF NextIn, t
  <2>2. m .. len = {m}
    BY <1>1, <1>7
  <2>. QED
    BY <1>2, <1>3, <1>6, <2>1, <2>2
<1>8. CASE m # len
  <2>1. m + 1 \in 1 .. len /\ Len(t) > 1 /\ 2 \in 1 .. len - m + 1 /\ m + 2 - 1 = m + 1
    BY <1>1, <1>2, <1>4, <1>8
  <2>2. n = s[m + 1]
    <3>1. n = t[2]
      BY <2>1 DEF NextIn, t
    <3>. QED
      BY <1>4, <2>1, <3>1
  <2>3. n \in ToSet(s) /\ n # null
    BY <1>1, <2>1, <2>2
  <2>4. AheadOf(s, n) = {s[j] : j \in m + 1 .. len}
    BY <1>1, <2>1, <2>2, SuffixFromPlace DEF AheadOf, len
  <2>5. \A j \in m .. len : j = m \/ j \in m + 1 .. len
    BY <1>1
  <2>6. \A j \in m + 1 .. len : j \in m .. len /\ j # m /\ j \in 1 .. len
    BY <1>1, <1>2
  <2>7. \A j \in m + 1 .. len : s[j] # e
    BY <1>1, <1>2, <2>6 DEF IsInjective
  <2>8. {s[j] : j \in m + 1 .. len} = {s[j] : j \in m .. len} \ {e}
    BY <1>2, <2>5, <2>6, <2>7
  <2>. QED
    BY <1>3, <1>6, <2>3, <2>4, <2>8
<1>. QED
  BY <1>7, <1>8

\* What is ahead of an element comes after it.
LEMMA AheadIsAfter ==
  ASSUME NEW S, NEW s \in Seq(S), IsInjective(s), NEW e \in ToSet(s), NEW x \in AheadOf(s, e),
         x # e
  PROVE  Before(s, e, x)
<1>1. Len(s) \in Nat /\ DOMAIN s = 1 .. Len(s)
  BY ListPlaces
<1>2. PICK m \in 1 .. Len(s) : e = s[m]
  BY ListPlaces
<1>3. AheadOf(s, e) = {s[j] : j \in m .. Len(s)}
  BY <1>1, <1>2, SuffixFromPlace DEF AheadOf
<1>4. PICK j \in m .. Len(s) : x = s[j]
  BY <1>3
<1>5. j \in 1 .. Len(s) /\ m < j
  BY <1>1, <1>2, <1>4
<1>. QED
  BY <1>1, <1>2, <1>4, <1>5 DEF Before

\* What comes after an element is ahead of it.
LEMMA AfterIsAhead ==
  ASSUME NEW S, NEW s \in Seq(S), IsInjective(s), NEW e \in ToSet(s), NEW x, Before(s, e, x)
  PROVE  x \in AheadOf(s, e)
<1>1. Len(s) \in Nat /\ DOMAIN s = 1 .. Len(s)
  BY ListPlaces
<1>2. PICK m \in 1 .. Len(s), j \in 1 .. Len(s) : m < j /\ s[m] = e /\ s[j] = x
  BY <1>1 DEF Before
<1>3. AheadOf(s, e) = {s[k] : k \in m .. Len(s)}
  BY <1>1, <1>2, SuffixFromPlace DEF AheadOf
<1>4. j \in m .. Len(s)
  BY <1>1, <1>2
<1>. QED
  BY <1>2, <1>3, <1>4

\* The elements of a list without repetition are in one order.
LEMMA OrderIsStrict ==
  ASSUME NEW S, NEW s \in Seq(S), IsInjective(s), NEW x, NEW y, Before(s, x, y)
  PROVE  /\ x # y /\ x \in ToSet(s) /\ y \in ToSet(s)
         /\ ~ Before(s, y, x)
<1>1. Len(s) \in Nat /\ DOMAIN s = 1 .. Len(s)
  BY ListPlaces
<1>2. PICK i \in 1 .. Len(s), j \in 1 .. Len(s) : i < j /\ s[i] = x /\ s[j] = y
  BY <1>1 DEF Before
<1>3. \A a, b \in 1 .. Len(s) : s[a] = s[b] => a = b
  BY <1>1 DEF IsInjective
<1>4. x # y
  BY <1>1, <1>2, <1>3
<1>5. x \in ToSet(s) /\ y \in ToSet(s)
  BY <1>1, <1>2 DEF ToSet
<1>6. ASSUME Before(s, y, x) PROVE FALSE
  <2>1. PICK k \in 1 .. Len(s), m \in 1 .. Len(s) : k < m /\ s[k] = y /\ s[m] = x
    BY <1>1, <1>6 DEF Before
  <2>2. k = j /\ m = i
    BY <1>2, <1>3, <2>1
  <2>. QED
    BY <1>1, <1>2, <2>1, <2>2
<1>. QED
  BY <1>4, <1>5, <1>6

LEMMA OrderIsTotal ==
  ASSUME NEW S, NEW s \in Seq(S), NEW x \in ToSet(s), NEW y \in ToSet(s), x # y
  PROVE  Before(s, x, y) \/ Before(s, y, x)
<1>1. Len(s) \in Nat /\ DOMAIN s = 1 .. Len(s)
  BY ListPlaces
<1>2. PICK i \in 1 .. Len(s) : x = s[i]
  BY ListPlaces
<1>3. PICK j \in 1 .. Len(s) : y = s[j]
  BY ListPlaces
<1>4. i < j \/ j < i
  BY <1>1, <1>2, <1>3
<1>. QED
  BY <1>1, <1>2, <1>3, <1>4 DEF Before

\* Taking an element out takes it from what is ahead of another.
LEMMA AheadAfterRemove ==
  ASSUME NEW S, NEW s \in Seq(S), IsInjective(s), NEW d \in ToSet(s), NEW e \in ToSet(s), e # d
  PROVE  AheadOf(s, e) \ {d} \subseteq AheadOf(RemoveFirst(s, d), e)
<1> DEFINE k == IndexOf(s, d)
           t == RemoveFirst(s, d)
           n == Len(s)
           new(i) == IF i < k THEN i ELSE i - 1
<1>1. k \in DOMAIN s /\ s[k] = d /\ t = RemoveAt(s, k) /\ IsInjective(t)
  BY RemoveFirstAtPlace
<1>. HIDE DEF k, t
<1>2. /\ n \in Nat /\ DOMAIN s = 1 .. n /\ DOMAIN t = 1 .. n - 1 /\ t \in Seq(S)
      /\ \A j \in 1 .. n - 1 : t[j] = IF j < k THEN s[j] ELSE s[j + 1]
  BY <1>1, RemoveAtPlace
<1>3. PICK m \in 1 .. n : e = s[m]
  BY ListPlaces
<1>4. AheadOf(s, e) = {s[j] : j \in m .. n}
  BY <1>2, <1>3, SuffixFromPlace DEF AheadOf
<1>. HIDE DEF n
<1>5. \A j \in 1 .. n : j # k => new(j) \in 1 .. n - 1 /\ t[new(j)] = s[j]
  <2>. SUFFICES ASSUME NEW j \in 1 .. n, j # k
                PROVE  new(j) \in 1 .. n - 1 /\ t[new(j)] = s[j]
    OBVIOUS
  <2>1. k \in 1 .. n
    BY <1>1, <1>2
  <2>2. new(j) \in 1 .. n - 1
    BY <1>2, <2>1
  <2>3. CASE j < k
    BY <1>2, <2>2, <2>3
  <2>4. CASE j > k
    <3>1. new(j) = j - 1 /\ ~ (j - 1 < k) /\ (j - 1) + 1 = j
      BY <1>2, <2>1, <2>4
    <3>. QED
      BY <1>2, <2>2, <3>1
  <2>. QED
    BY <1>2, <2>1, <2>2, <2>3, <2>4
<1>6. m # k /\ new(m) \in 1 .. n - 1 /\ t[new(m)] = e
  BY <1>1, <1>3, <1>5
<1>7. AheadOf(t, e) = {t[j] : j \in new(m) .. Len(t)}
  <2> DEFINE p == new(m)
  <2>1. t \in Seq(S) /\ IsInjective(t)
    BY <1>1, <1>2
  <2>2. p \in DOMAIN t /\ t[p] = e
    BY <1>2, <1>6
  <2>. HIDE DEF p
  <2>3. ToSet(SuffixFrom(t, t[p])) = {t[j] : j \in p .. Len(t)}
    BY <2>1, <2>2, SuffixFromPlace
  <2>. QED
    BY <2>2, <2>3 DEF AheadOf, p
<1>8. Len(t) = n - 1
  BY <1>1, <1>2, RemoveAtPlace DEF n
<1>9. ASSUME NEW j \in m .. n, s[j] # d PROVE s[j] \in AheadOf(t, e)
  <2>1. j \in 1 .. n /\ j # k /\ new(m) \in Nat
    BY <1>1, <1>2, <1>6, <1>9
  <2>2. new(j) \in new(m) .. n - 1
    <3>1. new(j) \in 1 .. n - 1
      BY <1>5, <2>1
    <3>2. new(m) <= new(j)
      BY <1>1, <1>2, <1>6, <2>1
    <3>. QED
      BY <1>6, <3>1, <3>2
  <2>3. t[new(j)] = s[j]
    BY <1>5, <2>1
  <2>. HIDE DEF new
  <2>. QED
    BY <1>7, <1>8, <2>2, <2>3
<1>. QED
  BY <1>4, <1>9 DEF t

\* A queue holds each element once, whatever is enqueued, and nothing else.
LEMMA EnqueueOfInjective ==
  ASSUME NEW S, NEW s \in Seq(S), IsInjective(s), NEW e \in S
  PROVE  /\ enqueue(s, e) \in Seq(S)
         /\ IsInjective(enqueue(s, e))
         /\ e \in ToSet(enqueue(s, e))
         /\ ToSet(enqueue(s, e)) \subseteq ToSet(s) \cup {e}
         /\ e \notin ToSet(s) => ToSet(enqueue(s, e)) = ToSet(s) \cup {e}
<1>1. CASE e \notin ToSet(s)
  BY <1>1, AppendOfInjective DEF enqueue
<1>2. CASE e \in ToSet(s)
  <2> DEFINE m == IndexOf(s, e)
             t == SubSeq(s, 1, m)
  <2>1. m \in DOMAIN s /\ s[m] = e
    BY <1>2, IndexIsPlace
  <2>2. enqueue(s, e) = t
    BY <1>2 DEF enqueue, IndexOf
  <2>3. /\ Len(s) \in Nat /\ DOMAIN s = 1 .. Len(s)
        /\ \A j \in 1 .. Len(s) : s[j] \in S /\ s[j] \in ToSet(s)
    BY ListPlaces
  <2>. HIDE DEF m
  <2>4. m \in 1 .. Len(s) /\ m \in Nat
    BY <2>1, <2>3
  <2>5. /\ t \in Seq(S) /\ Len(t) = m /\ DOMAIN t = 1 .. m
        /\ \A j \in 1 .. m : t[j] = s[j]
    <3>1. \A j \in 1 .. m : s[j] \in S
      BY <2>3, <2>4
    <3>2. t = [j \in 1 .. m |-> s[j]]
      BY <2>3, <2>4
    <3>. QED
      BY <2>4, <3>1, <3>2
  <2>. HIDE DEF t
  <2>6. \A j \in 1 .. m : j \in 1 .. Len(s)
    BY <2>3, <2>4
  <2>7. IsInjective(t)
    BY <2>3, <2>5, <2>6 DEF IsInjective
  <2>8. ToSet(t) \subseteq ToSet(s)
    BY <2>3, <2>5, <2>6 DEF ToSet
  <2>9. e \in ToSet(t)
    <3>1. m \in 1 .. m
      BY <2>4
    <3>. QED
      BY <2>1, <2>5, <3>1 DEF ToSet
  <2>. QED
    BY <1>2, <2>2, <2>5, <2>7, <2>8, <2>9
<1>. QED
  BY <1>1, <1>2
=============================================================================
