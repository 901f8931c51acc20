---------------------------- MODULE NamingProofs ----------------------------
(***************************************************************************)
(* Proofs about the names: what slugify makes of any word.                 *)
(***************************************************************************)
EXTENDS Naming, SequenceTheorems, FiniteSetTheorems, WellFoundedInduction, TLAPS

(* Induction.  The library's theorem takes an operator for the statement; here it is *)
(* a set, the numbers of which the statement is true.                                *)
Below == OpToRel(<, Nat)

LEMMA LeastElement ==
  ASSUME NEW S \in SUBSET Nat, S # {}
  PROVE  \E m \in S : \A n \in S : m <= n
  <1>1. IsWellFoundedOn(Below, Nat)
    BY NatLessThanWellFounded DEF Below
  <1>2. \A x, y \in Nat : x < y => <<x, y>> \in Below
    BY DEF OpToRel, Below
  <1>3. PICK m \in S : \A n \in S : <<n, m>> \notin Below
    BY <1>1, WFMin
  <1>4. ASSUME NEW n \in S PROVE m <= n
    <2>1. m \in Nat /\ n \in Nat
      OBVIOUS
    <2>2. ~(n < m)
      BY <1>2, <1>3, <2>1
    <2> QED
      BY <2>1, <2>2
  <1> QED
    BY <1>4

LEMMA Induction ==
  ASSUME NEW T, 0 \in T, \A n \in Nat : n \in T => n + 1 \in T
  PROVE  \A n \in Nat : n \in T
  <1> DEFINE S == Nat \ T
  <1> SUFFICES ASSUME S # {} PROVE FALSE
    OBVIOUS
  <1>1. PICK m \in S : \A n \in S : m <= n
    BY LeastElement
  <1>2. m - 1 \in Nat /\ m - 1 \in T
    BY <1>1
  <1> QED
    BY <1>1, <1>2

-----------------------------------------------------------------------------
(* Squeezed *)

SlugCharacters == Alphanumeric \cup {"-"}

\* The n-th value of the recursion in Squeezed, f being the values before it.
Squeeze(w, f, n) ==
    IF n = 0 THEN <<>>
    ELSE IF w[n] = "-" /\ n > 1 /\ w[n - 1] = "-" THEN f[n - 1]
    ELSE Append(f[n - 1], w[n])

Squeezing(w, f, n) == f = [i \in 0..n |-> Squeeze(w, f, i)]

\* The recursion has a solution, whose last value Squeezed is.
LEMMA SqueezingExists ==
  ASSUME NEW S, NEW w \in Seq(S)
  PROVE  \E f : Squeezing(w, f, Len(w)) /\ Squeezed(w) = f[Len(w)]
  <1> DEFINE T == {n \in Nat : \E f : Squeezing(w, f, n)}
  <1>1. 0 \in T
    <2> DEFINE f == [i \in 0..0 |-> <<>>]
    <2>1. Squeezing(w, f, 0)
      BY DEF Squeezing, Squeeze
    <2> QED
      BY <2>1
  <1>2. ASSUME NEW n \in Nat, n \in T PROVE n + 1 \in T
    <2>1. PICK f : Squeezing(w, f, n)
      BY <1>2
    <2> DEFINE g == [i \in 0..(n + 1) |-> IF i = n + 1 THEN Squeeze(w, f, i) ELSE f[i]]
    <2>2. ASSUME NEW i \in 0..(n + 1) PROVE g[i] = Squeeze(w, g, i)
      <3>1. i = 0 \/ (i - 1 \in 0..n /\ g[i - 1] = f[i - 1])
        OBVIOUS
      <3>2. Squeeze(w, g, i) = Squeeze(w, f, i)
        BY <3>1 DEF Squeeze
      <3>3. i = n + 1 \/ (i \in 0..n /\ f[i] = Squeeze(w, f, i))
        BY <2>1 DEF Squeezing
      <3> QED
        BY <3>2, <3>3
    <2>3. Squeezing(w, g, n + 1)
      BY <2>2 DEF Squeezing
    <2> QED
      BY <2>3
  <1>3. Len(w) \in T
    <2>1. \A n \in Nat : n \in T
      <3> HIDE DEF T
      <3> QED
        BY <1>1, <1>2, Induction
    <2> QED
      BY <2>1, LenProperties
  <1>4. PICK f : Squeezing(w, f, Len(w))
    BY <1>3
  <1> QED
    BY <1>4 DEF Squeezed, Squeezing, Squeeze

-----------------------------------------------------------------------------
(* Words made of some places of another word *)

\* s consists of the characters that d has at the places K, in order.
Picks(s, K, d) ==
    Len(s) = Cardinality(K) /\ \A i \in K : s[Place(K, i)] = d[i]

LEMMA PlaceType ==
  ASSUME NEW n \in Nat, NEW K \in SUBSET (1..n)
  PROVE  /\ IsFiniteSet(K) /\ Cardinality(K) \in Nat
         /\ \A i \in Nat : IsFiniteSet({k \in K : k <= i}) /\ Place(K, i) \in 0..Cardinality(K)
         /\ \A i \in K : Place(K, i) \in 1..Cardinality(K)
  <1>1. IsFiniteSet(K) /\ Cardinality(K) \in Nat
    <2>1. IsFiniteSet(1..n)
      BY FS_Interval
    <2> QED
      BY <2>1, FS_Subset, FS_CardinalityType
  <1>2. ASSUME NEW i \in Nat
        PROVE  IsFiniteSet({k \in K : k <= i}) /\ Place(K, i) \in 0..Cardinality(K)
    <2>1. {k \in K : k <= i} \in SUBSET K
      OBVIOUS
    <2>2. IsFiniteSet({k \in K : k <= i}) /\ Cardinality({k \in K : k <= i}) <= Cardinality(K)
      BY <1>1, <2>1, FS_Subset
    <2>3. Cardinality({k \in K : k <= i}) \in Nat
      BY <2>2, FS_CardinalityType
    <2> QED
      BY <1>1, <2>2, <2>3 DEF Place
  <1>3. ASSUME NEW i \in K PROVE Place(K, i) \in 1..Cardinality(K)
    <2>1. i \in Nat /\ {k \in K : k <= i} # {}
      OBVIOUS
    <2>2. Cardinality({k \in K : k <= i}) # 0
      BY <1>2, <2>1, FS_EmptySet
    <2> QED
      BY <1>1, <1>2, <2>1, <2>2 DEF Place
  <1> QED
    BY <1>1, <1>2, <1>3

LEMMA LargestElement ==
  ASSUME NEW n \in Nat, NEW K \in SUBSET (1..n), K # {}
  PROVE  \E m \in K : \A k \in K : k <= m
  <1> DEFINE U == {u \in Nat : \A k \in K : k <= u}
  <1>1. n \in U
    OBVIOUS
  <1>2. PICK m \in U : \A u \in U : m <= u
    BY <1>1, LeastElement
  <1>3. m \in K
    <2>1. SUFFICES ASSUME m \notin K PROVE FALSE
      OBVIOUS
    <2>2. m # 0
      <3>1. PICK k : k \in K
        OBVIOUS
      <3>2. k <= m /\ k \in 1..n
        BY <1>2, <3>1
      <3> QED
        BY <3>2
    <2>3. m - 1 \in U
      BY <2>1, <2>2
    <2> QED
      BY <1>2, <2>3
  <1> QED
    BY <1>2, <1>3

LEMMA FrontOf ==
  ASSUME NEW S, NEW s \in Seq(S), s # <<>>
  PROVE  /\ Front(s) \in Seq(S) /\ Len(Front(s)) = Len(s) - 1
         /\ \A i \in 1..Len(Front(s)) : Front(s)[i] = s[i]
  <1> DEFINE n == Len(s) - 1
  <1>1. n \in Nat /\ \A i \in 1..n : s[i] \in S
    BY EmptySeq, ElementOfSeq
  <1>2. Front(s) = SubSeq(s, 1, n)
    BY DEF Front
  <1> HIDE DEF n
  <1>3. /\ SubSeq(s, 1, n) \in Seq(S)
        /\ Len(SubSeq(s, 1, n)) = IF 1 <= n THEN n - 1 + 1 ELSE 0
        /\ \A i \in 1..(n - 1 + 1) : SubSeq(s, 1, n)[i] = s[1 + i - 1]
    BY <1>1, SubSeqProperties
  <1>4. n - 1 + 1 = n /\ \A i \in 1..n : 1 + i - 1 = i
    BY <1>1
  <1>5. Len(SubSeq(s, 1, n)) = n
    BY <1>1, <1>3, <1>4
  <1>6. \A i \in 1..n : SubSeq(s, 1, n)[i] = s[i]
    BY <1>3, <1>4
  <1> QED
    BY <1>2, <1>3, <1>5, <1>6 DEF n

LEMMA PicksAppend ==
  ASSUME NEW S, NEW s \in Seq(S), NEW n \in Nat, NEW K \in SUBSET (1..n), NEW d,
         Picks(s, K, d), d[n + 1] \in S
  PROVE  Picks(Append(s, d[n + 1]), K \cup {n + 1}, d)
  <1> DEFINE L == K \cup {n + 1}
             r == Append(s, d[n + 1])
  <1>1. IsFiniteSet(K) /\ Cardinality(K) \in Nat
    BY PlaceType
  <1>2. Cardinality(L) = Cardinality(K) + 1
    <2>1. n + 1 \notin K
      OBVIOUS
    <2> QED
      BY <1>1, <2>1, FS_AddElement
  <1>3. Len(s) = Cardinality(K)
    BY DEF Picks
  <1>4. /\ Len(r) = Len(s) + 1 /\ r[Len(s) + 1] = d[n + 1]
        /\ \A i \in 1..Len(s) : r[i] = s[i]
    BY AppendProperties
  <1>5. ASSUME NEW i \in K PROVE r[Place(L, i)] = d[i]
    <2>1. {k \in L : k <= i} = {k \in K : k <= i}
      OBVIOUS
    <2>2. Place(L, i) = Place(K, i)
      BY <2>1 DEF Place
    <2>3. Place(K, i) \in 1..Len(s)
      BY <1>3, PlaceType
    <2>4. s[Place(K, i)] = d[i]
      BY DEF Picks
    <2> HIDE DEF r, L
    <2> QED
      BY <1>4, <2>2, <2>3, <2>4
  <1>6. r[Place(L, n + 1)] = d[n + 1]
    <2>1. {k \in L : k <= n + 1} = L
      <3>1. \A k \in L : k <= n + 1
        OBVIOUS
      <3> QED
        BY <3>1
    <2>2. Place(L, n + 1) = Len(s) + 1
      BY <1>2, <1>3, <2>1 DEF Place
    <2> HIDE DEF r, L
    <2> QED
      BY <1>4, <2>2
  <1>7. Len(r) = Cardinality(L)
    BY <1>2, <1>3, <1>4
  <1>8. \A i \in L : r[Place(L, i)] = d[i]
    <2> HIDE DEF r
    <2> QED
      BY <1>5, <1>6
  <1> QED
    BY <1>7, <1>8 DEF Picks

LEMMA PicksTail ==
  ASSUME NEW S, NEW s \in Seq(S), NEW n \in Nat, NEW K \in SUBSET (1..n), NEW d,
         Picks(s, K, d), NEW m \in K, \A k \in K : m <= k
  PROVE  s # <<>> /\ Head(s) = d[m] /\ Picks(Tail(s), K \ {m}, d)
  <1> DEFINE L == K \ {m}
             t == Tail(s)
  <1>1. IsFiniteSet(K) /\ Cardinality(K) \in Nat
    BY PlaceType
  <1>2. Cardinality(L) = Cardinality(K) - 1
    BY <1>1, FS_RemoveElement
  <1>3. Len(s) = Cardinality(K) /\ s # <<>>
    <2>1. Len(s) = Cardinality(K) /\ Cardinality(K) # 0
      BY <1>1, FS_EmptySet DEF Picks
    <2> QED
      BY <2>1, EmptySeq
  <1>4. Len(t) = Len(s) - 1 /\ (\A i \in 1..Len(t) : t[i] = s[i + 1]) /\ Head(s) = s[1]
    BY <1>3, HeadTailProperties
  <1>5. Head(s) = d[m]
    <2>1. {k \in K : k <= m} = {m}
      <3>1. \A k \in K : k <= m <=> k = m
        OBVIOUS
      <3> QED
        BY <3>1
    <2>2. Place(K, m) = 1
      BY <2>1, FS_Singleton DEF Place
    <2> QED
      BY <1>4, <2>2 DEF Picks
  <1>6. ASSUME NEW i \in L PROVE t[Place(L, i)] = d[i]
    <2>1. {k \in L : k <= i} = {k \in K : k <= i} \ {m} /\ m \in {k \in K : k <= i}
      OBVIOUS
    <2>2. IsFiniteSet({k \in K : k <= i})
      BY PlaceType
    <2>3. Place(L, i) = Place(K, i) - 1
      BY <2>1, <2>2, FS_RemoveElement DEF Place
    <2>4. Place(L, i) \in 1..Cardinality(L) /\ Place(K, i) \in 1..Cardinality(K)
      BY PlaceType
    <2>5. s[Place(K, i)] = d[i]
      BY DEF Picks
    <2> HIDE DEF t, L
    <2>6. Place(L, i) \in 1..Len(t) /\ Place(L, i) + 1 = Place(K, i)
      BY <1>2, <1>3, <1>4, <2>3, <2>4
    <2> QED
      BY <1>4, <2>5, <2>6
  <1>7. Len(t) = Cardinality(L)
    BY <1>2, <1>3, <1>4
  <1> QED
    BY <1>3, <1>5, <1>6, <1>7 DEF Picks

LEMMA PicksFront ==
  ASSUME NEW S, NEW s \in Seq(S), NEW n \in Nat, NEW K \in SUBSET (1..n), NEW d,
         Picks(s, K, d), NEW m \in K, \A k \in K : k <= m
  PROVE  s # <<>> /\ Last(s) = d[m] /\ Picks(Front(s), K \ {m}, d)
  <1> DEFINE L == K \ {m}
             t == Front(s)
  <1>1. IsFiniteSet(K) /\ Cardinality(K) \in Nat
    BY PlaceType
  <1>2. Cardinality(L) = Cardinality(K) - 1
    BY <1>1, FS_RemoveElement
  <1>3. Len(s) = Cardinality(K) /\ s # <<>> /\ Len(s) \in Nat \ {0}
    <2>1. Len(s) = Cardinality(K) /\ Cardinality(K) # 0
      BY <1>1, FS_EmptySet DEF Picks
    <2> QED
      BY <1>1, <2>1, EmptySeq
  <1>4. Len(t) = Len(s) - 1 /\ (\A i \in 1..Len(t) : t[i] = s[i])
    BY <1>3, FrontOf
  <1>5. Last(s) = d[m]
    <2>1. {k \in K : k <= m} = K
      OBVIOUS
    <2>2. Place(K, m) = Len(s)
      BY <1>3, <2>1 DEF Place
    <2> QED
      BY <2>2 DEF Picks, Last
  <1>6. ASSUME NEW i \in L PROVE t[Place(L, i)] = d[i]
    <2>1. {k \in L : k <= i} = {k \in K : k <= i}
      OBVIOUS
    <2>2. Place(L, i) = Place(K, i)
      BY <2>1 DEF Place
    <2>3. Place(L, i) \in 1..Cardinality(L)
      BY PlaceType
    <2>4. s[Place(K, i)] = d[i]
      BY DEF Picks
    <2> HIDE DEF t, L
    <2> QED
      BY <1>2, <1>3, <1>4, <2>2, <2>3, <2>4
  <1>7. Len(t) = Cardinality(L)
    BY <1>2, <1>3, <1>4
  <1> QED
    BY <1>3, <1>5, <1>6, <1>7 DEF Picks

\* The places determine the word.
LEMMA PlaceOnto ==
  ASSUME NEW n \in Nat, NEW K \in SUBSET (1..n), NEW p \in 1..Cardinality(K)
  PROVE  \E i \in K : Place(K, i) = p
  <1> DEFINE Upto(m) == {k \in K : k <= m}
             T == {m \in Nat : \A q \in 1..Cardinality(Upto(m)) : \E i \in K : Place(K, i) = q}
  <1>1. 0 \in T
    <2>1. Upto(0) = {}
      <3>1. \A k \in K : ~(k <= 0)
        OBVIOUS
      <3> QED
        BY <3>1
    <2> QED
      BY <2>1, FS_EmptySet
  <1>2. ASSUME NEW m \in Nat, m \in T PROVE m + 1 \in T
    <2>1. CASE m + 1 \in K
      <3>1. Upto(m + 1) = Upto(m) \cup {m + 1} /\ m + 1 \notin Upto(m)
        <4>1. \A k \in K : k <= m + 1 <=> k <= m \/ k = m + 1
          OBVIOUS
        <4>2. ~(m + 1 <= m)
          OBVIOUS
        <4> QED
          BY <2>1, <4>1, <4>2
      <3>2. IsFiniteSet(Upto(m)) /\ Cardinality(Upto(m)) \in Nat
        BY PlaceType, FS_CardinalityType
      <3>3. Cardinality(Upto(m + 1)) = Cardinality(Upto(m)) + 1
        BY <3>1, <3>2, FS_AddElement
      <3>4. Place(K, m + 1) = Cardinality(Upto(m + 1))
        BY DEF Place
      <3> HIDE DEF Upto
      <3> QED
        BY <1>2, <2>1, <3>2, <3>3, <3>4
    <2>2. CASE m + 1 \notin K
      <3>1. Upto(m + 1) = Upto(m)
        <4>1. \A k \in K : k <= m + 1 <=> k <= m \/ k = m + 1
          OBVIOUS
        <4> QED
          BY <2>2, <4>1
      <3> HIDE DEF Upto
      <3> QED
        BY <1>2, <3>1
    <2> QED
      BY <2>1, <2>2
  <1>3. n \in T
    <2> HIDE DEF T
    <2> QED
      BY <1>1, <1>2, Induction
  <1>4. Upto(n) = K
    <2>1. \A k \in K : k <= n
      OBVIOUS
    <2> QED
      BY <2>1
  <1> QED
    BY <1>3, <1>4

LEMMA PicksUnique ==
  ASSUME NEW S, NEW s \in Seq(S), NEW t \in Seq(S), NEW n \in Nat, NEW K \in SUBSET (1..n),
         NEW d, Picks(s, K, d), Picks(t, K, d)
  PROVE  s = t
  <1>1. Len(s) = Cardinality(K) /\ Len(t) = Cardinality(K)
    BY DEF Picks
  <1>2. ASSUME NEW p \in 1..Len(s) PROVE s[p] = t[p]
    <2>1. PICK i \in K : Place(K, i) = p
      BY <1>1, PlaceOnto
    <2> QED
      BY <2>1 DEF Picks
  <1> QED
    BY <1>1, <1>2, SeqEqual

-----------------------------------------------------------------------------
(* Squeezed and trimmed words *)

NoDoubles(s) == \A i \in 1..Len(s) : i + 1 <= Len(s) /\ s[i] = "-" => s[i + 1] # "-"

\* The places whose characters Squeezed keeps.
Single(w) == {i \in 1..Len(w) : w[i] # "-" \/ i = 1 \/ w[i - 1] # "-"}

LEMMA SqueezedPicks ==
  ASSUME NEW w \in Seq(SlugCharacters), NEW s, s = Squeezed(w)
  PROVE  /\ s \in Seq(SlugCharacters) /\ NoDoubles(s) /\ Picks(s, Single(w), w)
         /\ w = <<>> => s = <<>>
         /\ w # <<>> => s # <<>> /\ Last(s) = w[Len(w)]
  <1>1. PICK f : Squeezing(w, f, Len(w)) /\ Squeezed(w) = f[Len(w)]
    BY SqueezingExists
  <1>2. Len(w) \in Nat /\ \A i \in 1..Len(w) : w[i] \in SlugCharacters
    BY LenProperties, ElementOfSeq
  <1> DEFINE K(n) == {i \in 1..n : w[i] # "-" \/ i = 1 \/ w[i - 1] # "-"}
             Good(r, n) == /\ r \in Seq(SlugCharacters) /\ NoDoubles(r) /\ Picks(r, K(n), w)
                           /\ n = 0 => r = <<>>
                           /\ n > 0 => r # <<>> /\ Last(r) = w[n]
             T == {n \in Nat : n <= Len(w) => Good(f[n], n)}
  <1>3. 0 \in T
    <2>1. f[0] = <<>>
      BY <1>1, <1>2 DEF Squeezing, Squeeze
    <2>2. K(0) = {} /\ Cardinality({}) = 0
      BY FS_EmptySet
    <2>3. Picks(<<>>, K(0), w)
      BY <2>2, EmptySeq DEF Picks
    <2>4. <<>> \in Seq(SlugCharacters) /\ NoDoubles(<<>>)
      BY EmptySeq DEF NoDoubles
    <2> HIDE DEF K
    <2>5. Good(<<>>, 0)
      BY <2>3, <2>4
    <2> HIDE DEF Good
    <2> QED
      BY <2>1, <2>5
  <1>4. ASSUME NEW n \in Nat, n \in T PROVE n + 1 \in T
    <2> SUFFICES ASSUME n + 1 <= Len(w) PROVE Good(f[n + 1], n + 1)
      OBVIOUS
    <2>1. Good(f[n], n)
      BY <1>2, <1>4
    <2>2. f[n + 1] = IF w[n + 1] = "-" /\ n > 0 /\ w[n] = "-" THEN f[n]
                     ELSE Append(f[n], w[n + 1])
      <3>1. n + 1 \in 0..Len(w) /\ n + 1 # 0 /\ (n + 1) - 1 = n /\ (n + 1 > 1 <=> n > 0)
        BY <1>2
      <3>2. f[n + 1] = Squeeze(w, f, n + 1)
        BY <1>1, <3>1 DEF Squeezing
      <3> QED
        BY <3>1, <3>2 DEF Squeeze
    <2>3. w[n + 1] \in SlugCharacters
      BY <1>2
    <2>4. CASE w[n + 1] = "-" /\ n > 0 /\ w[n] = "-"
      <3>1. K(n + 1) = K(n)
        <4>1. \A i \in 1..(n + 1) : i \in 1..n \/ i = n + 1
          OBVIOUS
        <4>2. n + 1 \notin K(n + 1)
          BY <2>4
        <4> QED
          BY <4>1, <4>2
      <3> HIDE DEF K
      <3> QED
        BY <2>1, <2>2, <2>4, <3>1
    <2>5. CASE ~(w[n + 1] = "-" /\ n > 0 /\ w[n] = "-")
      <3>1. K(n + 1) = K(n) \cup {n + 1}
        <4>1. \A i \in 1..(n + 1) : i \in 1..n \/ i = n + 1
          OBVIOUS
        <4>2. n + 1 \in K(n + 1)
          BY <2>5
        <4> QED
          BY <4>1, <4>2
      <3>2. K(n) \in SUBSET (1..n)
        OBVIOUS
      <3> HIDE DEF K
      <3> DEFINE r == f[n]
                 t == Append(r, w[n + 1])
      <3>3. Picks(t, K(n + 1), w)
        <4>1. r \in Seq(SlugCharacters) /\ Picks(r, K(n), w)
          BY <2>1
        <4> HIDE DEF r
        <4>2. Picks(t, K(n) \cup {n + 1}, w)
          BY <2>3, <3>2, <4>1, PicksAppend
        <4> QED
          BY <3>1, <4>2
      <3>4. /\ t \in Seq(SlugCharacters) /\ t # <<>> /\ Len(t) = Len(r) + 1 /\ Len(r) \in Nat
            /\ t[Len(r) + 1] = w[n + 1] /\ \A i \in 1..Len(r) : t[i] = r[i]
        BY <2>1, <2>3, AppendProperties, LenProperties
      <3>5. Len(r) > 0 => n > 0 /\ r[Len(r)] = w[n]
        BY <2>1, EmptySeq DEF Last
      <3>6. NoDoubles(r)
        BY <2>1
      <3>7. f[n + 1] = t
        BY <2>2, <2>5
      <3> HIDE DEF r, t
      <3>8. NoDoubles(t)
        BY <2>5, <3>4, <3>5, <3>6 DEF NoDoubles
      <3>9. Last(t) = w[n + 1]
        BY <3>4 DEF Last
      <3> QED
        BY <3>3, <3>4, <3>7, <3>8, <3>9
    <2> HIDE DEF Good
    <2> QED
      BY <2>4, <2>5
  <1>5. Len(w) \in T
    <2> HIDE DEF T
    <2> QED
      BY <1>2, <1>3, <1>4, Induction
  <1>6. Good(s, Len(w)) /\ K(Len(w)) = Single(w)
    BY <1>1, <1>5 DEF Single
  <1> HIDE DEF K
  <1>7. w = <<>> <=> Len(w) = 0
    BY EmptySeq
  <1> QED
    BY <1>2, <1>6, <1>7

\* The first of the two steps of Trimmed.
LeftTrimmed(s) == IF s # <<>> /\ Head(s) = "-" THEN Tail(s) ELSE s

LEMMA TrimmedWord ==
  ASSUME NEW s \in Seq(SlugCharacters), NoDoubles(s)
  PROVE  /\ Trimmed(s) \in Seq(SlugCharacters) /\ NoDoubles(Trimmed(s))
         /\ LeftTrimmed(s) \in Seq(SlugCharacters)
         /\ Trimmed(s) # <<>> => Head(Trimmed(s)) # "-" /\ Last(Trimmed(s)) # "-"
  <1> DEFINE l == LeftTrimmed(s)
             t == Trimmed(s)
  <1>1. t = IF l # <<>> /\ Last(l) = "-" THEN Front(l) ELSE l
    BY DEF Trimmed, LeftTrimmed
  <1>2. l \in Seq(SlugCharacters) /\ NoDoubles(l) /\ (Len(l) > 0 => l[1] # "-")
    <2>1. CASE s # <<>> /\ Head(s) = "-"
      <3>1. /\ l = Tail(s) /\ l \in Seq(SlugCharacters) /\ Len(l) = Len(s) - 1
            /\ \A i \in 1..Len(l) : l[i] = s[i + 1]
        BY <2>1, HeadTailProperties DEF LeftTrimmed
      <3>2. Len(s) \in Nat \ {0} /\ s[1] = "-"
        BY <2>1, EmptySeq
      <3> HIDE DEF l
      <3>3. NoDoubles(l)
        BY <3>1, <3>2 DEF NoDoubles
      <3>4. Len(l) > 0 => l[1] # "-"
        BY <3>1, <3>2 DEF NoDoubles
      <3> QED
        BY <3>1, <3>3, <3>4
    <2>2. CASE ~(s # <<>> /\ Head(s) = "-")
      <3>1. l = s
        BY <2>2 DEF LeftTrimmed
      <3>2. Len(s) > 0 => s # <<>> /\ Head(s) = s[1]
        BY EmptySeq
      <3> QED
        BY <2>2, <3>1, <3>2
    <2> QED
      BY <2>1, <2>2
  <1> HIDE DEF l, t
  <1>3. t \in Seq(SlugCharacters) /\ NoDoubles(t) /\ (Len(t) > 0 => t[1] # "-" /\ t[Len(t)] # "-")
    <2>1. CASE l # <<>> /\ Last(l) = "-"
      <3>1. /\ t = Front(l) /\ t \in Seq(SlugCharacters) /\ Len(t) = Len(l) - 1
            /\ \A i \in 1..Len(t) : t[i] = l[i]
        BY <1>1, <1>2, <2>1, FrontOf
      <3>2. Len(l) \in Nat \ {0} /\ l[Len(l)] = "-"
        BY <1>2, <2>1, EmptySeq DEF Last
      <3>3. NoDoubles(t)
        <4>1. \A i \in 1..Len(t) : i + 1 <= Len(t) =>
                /\ t[i] = l[i] /\ t[i + 1] = l[i + 1]
                /\ i \in 1..Len(l) /\ i + 1 <= Len(l)
          BY <3>1, <3>2
        <4> QED
          BY <1>2, <4>1 DEF NoDoubles
      <3>4. Len(t) > 0 => t[1] # "-" /\ t[Len(t)] # "-"
        BY <1>2, <3>1, <3>2 DEF NoDoubles
      <3> QED
        BY <3>1, <3>3, <3>4
    <2>2. CASE ~(l # <<>> /\ Last(l) = "-")
      <3>1. t = l
        BY <1>1, <2>2
      <3>2. Len(l) > 0 => l # <<>>
        BY <1>2, EmptySeq
      <3> QED
        BY <1>2, <2>2, <3>1, <3>2 DEF Last
    <2> QED
      BY <2>1, <2>2
  <1>4. t # <<>> => Len(t) \in Nat \ {0} /\ Head(t) = t[1]
    BY <1>3, EmptySeq
  <1> QED
    BY <1>2, <1>3, <1>4 DEF l, t, Last

LEMMA DashedWord ==
  ASSUME NEW w \in Seq(Characters), NEW d, d = Dashed(w)
  PROVE  /\ d \in Seq(SlugCharacters) /\ Len(d) = Len(w) /\ Len(w) \in Nat
         /\ Letters(w) = {i \in 1..Len(w) : d[i] # "-"}
         /\ \A i \in 1..Len(w) : d[i] = IF i \in Letters(w) THEN ToLower(w[i]) ELSE "-"
  <1>1. Len(w) \in Nat /\ DOMAIN w = 1..Len(w)
    BY LenProperties
  <1>2. d = [i \in 1..Len(w) |-> IF ToLower(w[i]) \in Alphanumeric THEN ToLower(w[i]) ELSE "-"]
    BY <1>1 DEF Dashed
  <1>3. \A i \in 1..Len(w) : d[i] \in SlugCharacters
    BY <1>2 DEF SlugCharacters
  <1>4. d \in Seq(SlugCharacters) /\ Len(d) = Len(w)
    BY <1>1, <1>2, <1>3
  <1>5. "-" \notin Alphanumeric
    BY DEF Alphanumeric
  <1> QED
    BY <1>1, <1>2, <1>4, <1>5 DEF Letters

\* What Clean leaves of a word are the letters and digits in order, and a dash between two
\* that were not neighbours: its places are those of the reference.
LEMMA CleanPicks ==
  ASSUME NEW w \in Seq(Characters)
  PROVE  /\ Clean(w) \in Seq(SlugCharacters) /\ NoDoubles(Clean(w))
         /\ Clean(w) # <<>> => Head(Clean(w)) # "-" /\ Last(Clean(w)) # "-"
         /\ Picks(Clean(w), Kept(w), Dashed(w)) /\ Kept(w) \in SUBSET (1..Len(w))
  <1> DEFINE d == Dashed(w)
             s == Squeezed(d)
             l == LeftTrimmed(s)
             t == Trimmed(s)
             N == Len(w)
             K == Single(d)
  <1>1. /\ d \in Seq(SlugCharacters) /\ Len(d) = N /\ N \in Nat
        /\ Letters(w) = {i \in 1..N : d[i] # "-"}
    BY DashedWord
  <1>2. /\ s \in Seq(SlugCharacters) /\ NoDoubles(s) /\ Picks(s, K, d)
        /\ d = <<>> => s = <<>>
    BY <1>1, SqueezedPicks
  <1>3. /\ t \in Seq(SlugCharacters) /\ NoDoubles(t) /\ l \in Seq(SlugCharacters)
        /\ t # <<>> => Head(t) # "-" /\ Last(t) # "-"
    BY <1>2, TrimmedWord
  <1>4. Clean(w) = t
    BY DEF Clean
  <1>5. l = (IF s # <<>> /\ Head(s) = "-" THEN Tail(s) ELSE s)
        /\ t = (IF l # <<>> /\ Last(l) = "-" THEN Front(l) ELSE l)
    BY DEF Trimmed, LeftTrimmed
  <1>6. K = {i \in 1..N : d[i] # "-" \/ i = 1 \/ d[i - 1] # "-"}
    BY <1>1 DEF Single
  <1>7. Kept(w) = {i \in 1..N : \/ d[i] # "-"
                                \/ /\ i > 1 /\ d[i - 1] # "-"
                                   /\ \E j \in 1..N : i < j /\ d[j] # "-"}
    <2>1. DOMAIN w = 1..N
      BY LenProperties
    <2>2. \A i \in 1..N : i - 1 \in 1..N <=> i > 1
      BY <1>1
    <2> HIDE DEF d, N
    <2> QED
      BY <1>1, <2>1, <2>2 DEF Kept
  <1> HIDE DEF d, s, l, t, N, K
  <1>8. Picks(t, Kept(w), d)
    <2> DEFINE L == IF d[1] = "-" THEN K \ {1} ELSE K
    <2>1. CASE N = 0
      <3>1. K = {} /\ Kept(w) = {} /\ d = <<>>
        BY <1>1, <1>6, <1>7, <2>1, EmptySeq
      <3>2. t = s
        BY <1>2, <1>5, <3>1
      <3> QED
        BY <1>2, <3>1, <3>2
    <2>2. CASE N > 0
      <3>1. 1 \in K /\ (\A k \in K : 1 <= k) /\ K \in SUBSET (1..N)
        BY <1>1, <1>6, <2>2
      <3>2. s # <<>> /\ Head(s) = d[1] /\ Picks(Tail(s), K \ {1}, d)
        BY <1>1, <1>2, <3>1, PicksTail
      <3>3. Picks(l, L, d) /\ L \in SUBSET (1..N)
        BY <1>2, <1>5, <3>1, <3>2
      <3>4. L = {i \in 1..N : d[i] # "-" \/ (i > 1 /\ d[i - 1] # "-")}
        BY <1>1, <1>6
      <3> HIDE DEF L
      <3>5. CASE L = {}
        <4>1. l = <<>>
          BY <1>3, <3>3, <3>5, FS_EmptySet, EmptySeq DEF Picks
        <4>2. Kept(w) = {}
          BY <1>7, <3>4, <3>5
        <4> QED
          BY <1>5, <3>3, <3>5, <4>1, <4>2
      <3>6. CASE L # {}
        <4>1. PICK m \in L : \A k \in L : k <= m
          BY <1>1, <3>3, <3>6, LargestElement
        <4>2. l # <<>> /\ Last(l) = d[m] /\ Picks(Front(l), L \ {m}, d)
          BY <1>1, <1>3, <3>3, <4>1, PicksFront
        <4>3. Picks(t, IF d[m] = "-" THEN L \ {m} ELSE L, d)
          BY <1>5, <3>3, <4>2
        <4>4. Kept(w) = IF d[m] = "-" THEN L \ {m} ELSE L
          <5>1. \A i \in Kept(w) : i \in L /\ (d[m] = "-" => i # m)
            BY <1>1, <1>7, <3>4, <4>1
          <5>2. ASSUME NEW i \in L, d[m] = "-" => i # m PROVE i \in Kept(w)
            <6>1. CASE d[i] # "-"
              BY <1>7, <3>4, <6>1
            <6>2. CASE d[i] = "-"
              <7>1. i > 1 /\ d[i - 1] # "-" /\ i < m /\ m \in 1..N
                BY <1>1, <3>4, <4>1, <5>2, <6>2
              <7>2. CASE d[m] # "-"
                BY <1>7, <3>4, <7>1, <7>2
              <7>3. CASE d[m] = "-"
                <8>1. d[m - 1] # "-" /\ m - 1 \in 1..N
                  BY <1>1, <3>4, <4>1, <7>1, <7>3
                <8>2. i < m - 1
                  BY <1>1, <6>2, <7>1, <8>1
                <8> QED
                  BY <1>7, <3>4, <7>1, <8>1, <8>2
              <7> QED
                BY <7>2, <7>3
            <6> QED
              BY <6>1, <6>2
          <5> QED
            BY <5>1, <5>2
        <4> QED
          BY <4>3, <4>4
      <3> QED
        BY <3>5, <3>6
    <2> QED
      BY <1>1, <2>1, <2>2
  <1> QED
    BY <1>3, <1>4, <1>7, <1>8 DEF d, N

\* app.go:258: the slug that slugify cuts is that of the reference, for a word of any
\* length and any characters.
LEMMA CleanIsSlug ==
  ASSUME NEW w \in Seq(Characters)
  PROVE  IsSlugOf(Clean(w), w)
  <1>1. Picks(Clean(w), Kept(w), Dashed(w)) /\ Kept(w) \in SUBSET (1..Len(w))
    BY CleanPicks
  <1>2. \A i \in 1..Len(w) : Dashed(w)[i] = IF i \in Letters(w) THEN ToLower(w[i]) ELSE "-"
    BY DashedWord
  <1> QED
    BY <1>1, <1>2 DEF Picks, IsSlugOf

LEMMA SlugCharactersAreCharacters == SlugCharacters \subseteq Characters
  BY NamingAssumption DEF SlugCharacters

\* What Slugify adds to Clean: a prefix of it, the whole unless it is too long.
LEMMA SlugifyCuts ==
  ASSUME NEW w \in Seq(Characters)
  PROVE  /\ Slugify(w) \in Seq(SlugCharacters) /\ Slugify(w) \in Seq(Characters)
         /\ NoDoubles(Slugify(w)) /\ Len(Slugify(w)) <= MaxName
         /\ Slugify(w) # <<>> => Head(Slugify(w)) # "-"
         /\ IsPrefix(Slugify(w), Clean(w))
         /\ Len(Clean(w)) <= MaxName => Slugify(w) = Clean(w)
  <1> DEFINE c == Clean(w)
             s == Slugify(w)
             n == IF Len(c) > MaxName THEN MaxName ELSE Len(c)
  <1>1. /\ c \in Seq(SlugCharacters) /\ NoDoubles(c)
        /\ c # <<>> => Head(c) # "-"
    BY CleanPicks
  <1>2. s = SubSeq(c, 1, n)
    BY DEF Slugify
  <1> HIDE DEF c, s
  <1>3. /\ Len(c) \in Nat /\ n \in 0..Len(c) /\ n <= MaxName
        /\ \A i \in 1..Len(c) : c[i] \in SlugCharacters
    BY <1>1, LenProperties, ElementOfSeq, NamingAssumption
  <1>4. Len(c) <= MaxName => n = Len(c)
    BY <1>3, NamingAssumption
  <1> HIDE DEF n
  <1>5. s \in Seq(SlugCharacters) /\ Len(s) = n /\ \A i \in 1..n : s[i] = c[i]
    <2>1. /\ s \in Seq(SlugCharacters)
          /\ Len(s) = IF 1 <= n THEN n - 1 + 1 ELSE 0
          /\ \A i \in 1..(n - 1 + 1) : s[i] = c[1 + i - 1]
      <3>1. 1 \in Int /\ n \in Int /\ \A i \in 1..n : c[i] \in SlugCharacters
        BY <1>3
      <3> QED
        BY <1>2, <3>1, SubSeqProperties
    <2>2. n - 1 + 1 = n /\ \A i \in 1..n : 1 + i - 1 = i
      BY <1>3
    <2> QED
      BY <1>3, <2>1, <2>2
  <1>6. s \in Seq(Characters)
    BY <1>5, SeqMonotonic, SlugCharactersAreCharacters
  <1>7. NoDoubles(s)
    <2>1. \A i \in 1..n : i + 1 <= n => /\ s[i] = c[i] /\ s[i + 1] = c[i + 1]
                                       /\ i \in 1..Len(c) /\ i + 1 <= Len(c)
      BY <1>3, <1>5
    <2> QED
      BY <1>1, <1>5, <2>1 DEF NoDoubles
  <1>8. s # <<>> => Head(s) # "-"
    <2>1. s # <<>> => n > 0 /\ Head(s) = s[1]
      BY <1>5, EmptySeq
    <2>2. n > 0 => c # <<>> /\ Head(c) = c[1]
      BY <1>1, <1>3, EmptySeq
    <2> QED
      BY <1>1, <1>3, <1>5, <2>1, <2>2
  <1>9. IsPrefix(s, c)
    <2>1. SubSeq(s, 1, Len(s)) = s
      BY <1>5, SubSeqFull
    <2> QED
      BY <1>2, <1>3, <1>5, <2>1 DEF IsPrefix
  <1>10. Len(c) <= MaxName => s = c
    BY <1>1, <1>2, <1>4, SubSeqFull
  <1> QED
    BY <1>3, <1>5, <1>6, <1>7, <1>8, <1>9, <1>10 DEF c, s

\* A name that is not cut is one that Kubernetes accepts.
LEMMA SlugIsValid ==
  ASSUME NEW w \in Seq(Characters), Len(Clean(w)) <= MaxName, Clean(w) # <<>>
  PROVE  ValidName(Slugify(w))
  BY SlugifyCuts, CleanPicks DEF ValidName

\* A dash at the end does not change the slug.
LEMMA DashDropped ==
  ASSUME NEW w \in Seq(Characters)
  PROVE  /\ w \o <<"-">> \in Seq(Characters)
         /\ Clean(w \o <<"-">>) = Clean(w) /\ Slugify(w \o <<"-">>) = Slugify(w)
  <1> DEFINE v == w \o <<"-">>
             N == Len(w)
             d == Dashed(w)
             e == Dashed(v)
  <1>1. "-" \in Characters
    BY NamingAssumption
  <1>2. v = Append(w, "-")
    BY <1>1, AppendIsConcat
  <1>3. /\ v \in Seq(Characters) /\ N \in Nat /\ Len(v) = N + 1
        /\ v[N + 1] = "-" /\ \A i \in 1..N : v[i] = w[i]
    BY <1>1, <1>2, AppendProperties, LenProperties
  <1> HIDE DEF v
  <1>4. DOMAIN v = 1..(N + 1) /\ DOMAIN w = 1..N
    BY <1>3, LenProperties
  <1> HIDE DEF N
  <1>5. Letters(v) = Letters(w)
    <2>1. ToLower("-") \notin Alphanumeric
      BY DEF ToLower, LowerCase, Alphanumeric
    <2>2. \A i \in 1..(N + 1) : i \in 1..N \/ i = N + 1
      BY <1>3
    <2>3. \A i \in 1..N : i \in 1..(N + 1)
      BY <1>3
    <2> QED
      BY <1>3, <1>4, <2>1, <2>2, <2>3 DEF Letters
  <1>6. Kept(v) = Kept(w)
    <2>1. Letters(w) \subseteq 1..N
      BY <1>4 DEF Letters
    <2>2. \A i \in 1..(N + 1) : i \in 1..N \/ (i \notin Letters(w) /\ ~\E j \in Letters(w) : i < j)
      BY <1>3, <2>1
    <2>3. \A i \in 1..N : i \in 1..(N + 1)
      BY <1>3
    <2> QED
      BY <1>4, <1>5, <2>2, <2>3 DEF Kept
  <1>7. /\ Picks(Clean(v), Kept(w), e) /\ Clean(v) \in Seq(SlugCharacters)
        /\ Picks(Clean(w), Kept(w), d) /\ Clean(w) \in Seq(SlugCharacters)
        /\ Kept(w) \in SUBSET (1..N)
    BY <1>3, <1>6, CleanPicks DEF N
  <1>8. \A i \in 1..N : d[i] = e[i]
    <2>1. \A i \in 1..N : i \in 1..(N + 1)
      BY <1>3
    <2> QED
      BY <1>3, <1>4, <2>1 DEF Dashed
  <1> HIDE DEF d, e
  <1>9. Clean(v) = Clean(w)
    <2>1. \A i \in Kept(w) : e[i] = d[i]
      BY <1>7, <1>8
    <2>2. Picks(Clean(v), Kept(w), d)
      BY <1>7, <2>1 DEF Picks
    <2> QED
      BY <1>3, <1>7, <2>2, PicksUnique
  <1> QED
    BY <1>3, <1>9 DEF v, Slugify

\* Slugify leaves a slug alone, unless it was cut behind a dash: then it drops the dash.
LEMMA SlugOfSlug ==
  ASSUME NEW s \in Seq(SlugCharacters), NoDoubles(s), Len(s) <= MaxName,
         s # <<>> => Head(s) # "-"
  PROVE  s = Slugify(s) \/ s = Slugify(s) \o <<"-">>
  <1> DEFINE N == Len(s)
             t == Trimmed(s)
  <1>1. N \in Nat /\ DOMAIN s = 1..N /\ \A i \in 1..N : s[i] \in SlugCharacters
    BY LenProperties, ElementOfSeq
  <1>2. Dashed(s) = s
    <2>1. \A c \in SlugCharacters : c = IF ToLower(c) \in Alphanumeric THEN ToLower(c) ELSE "-"
      BY DEF SlugCharacters, Alphanumeric, ToLower, LowerCase
    <2>2. Dashed(s) = [i \in 1..N |-> s[i]]
      BY <1>1, <2>1 DEF Dashed
    <2>3. s = [i \in 1..N |-> s[i]]
      BY LenProperties
    <2> QED
      BY <2>2, <2>3
  <1>3. Squeezed(s) = s
    <2> DEFINE r == Squeezed(s)
    <2>1. r \in Seq(SlugCharacters) /\ Picks(r, Single(s), s)
      BY SqueezedPicks
    <2>2. Single(s) = 1..N
      <3>1. ASSUME NEW i \in 1..N, i # 1, s[i] = "-" PROVE s[i - 1] # "-"
        <4>1. i - 1 \in 1..N /\ (i - 1) + 1 = i
          BY <1>1, <3>1
        <4> QED
          BY <3>1, <4>1 DEF NoDoubles
      <3> QED
        BY <3>1 DEF Single
    <2>3. Picks(s, 1..N, s)
      <3>1. ASSUME NEW i \in 1..N PROVE Place(1..N, i) = i
        <4>1. {k \in 1..N : k <= i} = 1..i
          BY <1>1
        <4>2. Cardinality(1..i) = i
          BY <1>1, FS_Interval
        <4> QED
          BY <4>1, <4>2 DEF Place
      <3>2. Cardinality(1..N) = N
        BY <1>1, FS_Interval
      <3> QED
        BY <3>1, <3>2 DEF Picks
    <2> HIDE DEF r
    <2> QED
      BY <1>1, <2>1, <2>2, <2>3, PicksUnique DEF r
  <1>4. Clean(s) = t
    BY <1>2, <1>3 DEF Clean
  <1>5. t = IF s # <<>> /\ Last(s) = "-" THEN Front(s) ELSE s
    BY DEF Trimmed
  <1>6. CASE s # <<>> /\ Last(s) = "-"
    <2>1. /\ Front(s) \in Seq(SlugCharacters) /\ Len(Front(s)) = N - 1
          /\ \A i \in 1..Len(Front(s)) : Front(s)[i] = s[i]
      BY <1>6, FrontOf
    <2>2. N \in Nat \ {0} /\ s[N] = "-"
      BY <1>6, EmptySeq DEF Last
    <2>3. Slugify(s) = Front(s)
      <3>1. ~(Len(Clean(s)) > MaxName)
        BY <1>4, <1>5, <1>6, <2>1, <2>2, NamingAssumption
      <3>2. Slugify(s) = SubSeq(Front(s), 1, Len(Front(s)))
        BY <1>4, <1>5, <1>6, <3>1 DEF Slugify
      <3> QED
        BY <2>1, <3>2, SubSeqFull
    <2>4. Append(Front(s), "-") = s
      <3> DEFINE a == Append(Front(s), "-")
      <3>1. "-" \in SlugCharacters
        BY DEF SlugCharacters
      <3>2. /\ a \in Seq(SlugCharacters) /\ Len(a) = Len(Front(s)) + 1
            /\ a[Len(Front(s)) + 1] = "-"
            /\ \A i \in 1..Len(Front(s)) : a[i] = Front(s)[i]
        BY <2>1, <3>1, AppendProperties
      <3> HIDE DEF a
      <3>3. Len(a) = N /\ \A i \in 1..N : a[i] = s[i]
        BY <2>1, <2>2, <3>2
      <3>4. a = s
        BY <3>2, <3>3, SeqEqual
      <3> QED
        BY <3>4 DEF a
    <2> QED
      BY <2>1, <2>3, <2>4, AppendIsConcat DEF SlugCharacters
  <1>7. CASE ~(s # <<>> /\ Last(s) = "-")
    <2>1. Clean(s) = s
      BY <1>4, <1>5, <1>7
    <2>2. ~(Len(s) > MaxName)
      BY <1>1, NamingAssumption
    <2>3. Slugify(s) = SubSeq(s, 1, Len(s))
      BY <2>1, <2>2 DEF Slugify
    <2> QED
      BY <2>3, SubSeqFull
  <1> QED
    BY <1>6, <1>7

-----------------------------------------------------------------------------
(* AppName *)

LEMMA LowerIsCharacter ==
  ASSUME NEW c \in Characters
  PROVE  ToLower(c) \in Characters
  BY NamingAssumption DEF ToLower, LowerCase, Alphanumeric

LEMMA RepoNameIsWord ==
  ASSUME NEW url \in Seq(Characters)
  PROVE  RepoName(url) \in Seq(Characters)
  <1> DEFINE slashes == {i \in DOMAIN url : url[i] = "/"}
             start == IF slashes = {} THEN 1 ELSE Max(slashes) + 1
             segment == SubSeq(url, start, Len(url))
  <1>1. /\ Len(url) \in Nat /\ DOMAIN url = 1..Len(url)
        /\ \A i \in 1..Len(url) : url[i] \in Characters
    BY LenProperties, ElementOfSeq
  <1>2. start \in 1..(Len(url) + 1)
    <2>1. CASE slashes = {}
      BY <1>1, <2>1
    <2>2. CASE slashes # {}
      <3>1. slashes \in SUBSET (1..Len(url))
        BY <1>1
      <3>2. \E m \in slashes : \A k \in slashes : k <= m
        BY <1>1, <2>2, <3>1, LargestElement
      <3>3. Max(slashes) \in slashes
        BY <3>2 DEF Max
      <3> QED
        BY <1>1, <2>2, <3>1, <3>3
    <2> QED
      BY <2>1, <2>2
  <1> HIDE DEF start
  <1>3. segment \in Seq(Characters)
    <2>1. start \in Int /\ Len(url) \in Int /\ \A i \in start..Len(url) : url[i] \in Characters
      BY <1>1, <1>2
    <2> QED
      BY <2>1, SubSeqProperties
  <1> HIDE DEF segment
  <1>4. Len(segment) \in Nat /\ DOMAIN segment = 1..Len(segment)
    BY <1>3, LenProperties
  <1>5. \A i \in 1..Len(segment) : ToLower(segment[i]) \in Characters
    BY <1>3, ElementOfSeq, LowerIsCharacter
  <1>6. [i \in DOMAIN segment |-> ToLower(segment[i])] \in Seq(Characters)
    BY <1>4, <1>5
  <1> QED
    BY <1>6 DEF RepoName, segment, start

\* A branch and its slug have one name, though AppName slugifies twice and may cut twice.
LEMMA BranchAndSlug ==
  ASSUME NEW template \in Templates, NEW url \in Seq(Characters),
         NEW number \in DOMAIN Digits, NEW w \in Seq(Characters)
  PROVE  AppName(template, url, number, Slugify(w)) = AppName(template, url, number, w)
  <1> DEFINE repo == RepoName(url)
             s == Slugify(w)
             t == Slugify(s)
             Name(slug) == Slugify(Render(template, repo, number, slug))
  <1>1. repo \in Seq(Characters) /\ Digits[number] \in Seq(Characters)
    BY RepoNameIsWord, NamingAssumption
  <1>2. s \in Seq(SlugCharacters) /\ s \in Seq(Characters) /\ (s = t \/ s = t \o <<"-">>)
    BY SlugifyCuts, SlugOfSlug
  <1>3. t \in Seq(Characters)
    BY <1>2, SlugifyCuts
  <1>4. <<"-">> \in Seq(Characters)
    BY NamingAssumption
  <1> HIDE DEF repo, s, t
  <1>5. ASSUME s = t \o <<"-">> PROVE Name(t) = Name(s)
    <2>1. CASE template = "number"
      BY <2>1 DEF Render
    <2>2. CASE template = "branch"
      BY <1>3, <1>5, <2>2, DashDropped DEF Render
    <2>3. CASE template = "repo-branch"
      <3>1. repo \o <<"-">> \in Seq(Characters)
        BY <1>1, <1>4, ConcatProperties
      <3>2. (repo \o <<"-">>) \o t \in Seq(Characters)
        BY <1>3, <3>1, ConcatProperties
      <3>3. (repo \o <<"-">>) \o s = ((repo \o <<"-">>) \o t) \o <<"-">>
        BY <1>3, <1>4, <1>5, <3>1, ConcatAssociative
      <3>4. Slugify((repo \o <<"-">>) \o s) = Slugify((repo \o <<"-">>) \o t)
        BY <3>2, <3>3, DashDropped
      <3> QED
        BY <2>3, <3>4 DEF Render
    <2> QED
      BY <2>1, <2>2, <2>3 DEF Templates
  <1>6. Name(t) = Name(s)
    BY <1>2, <1>5
  <1> QED
    BY <1>6 DEF AppName, repo, s, t
=============================================================================
