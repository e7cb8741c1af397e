--------------------------- MODULE UniverseProofs ---------------------------
(***************************************************************************)
(* Proofs about the selection of markets: what a stable sort and a filter  *)
(* make of a list, and with it, for any listing of any length, what        *)
(* select() keeps and what it leaves out.                                  *)
(***************************************************************************)
EXTENDS Universe, SequenceTheorems, FiniteSetTheorems, TLAPS

\* What Python asks of a sort key: "before" is a strict weak order.
WeakOrder(kept, before) ==
  \A i, j, k \in kept :
    /\ <<i, j>> \in before => <<j, i>> \notin before
    /\ <<i, k>> \in before => <<i, j>> \in before \/ <<j, k>> \in before

Before(kept, before, i) == {j \in kept : Precedes(before, j, i)}

\* A stable sort of what is kept: nothing is lost, nothing is there twice, and of
\* two elements the one that is to come first does.
Arrangement(S, s, kept, before, result) ==
  LET places == 1 .. Cardinality(kept)
  IN  /\ Cardinality(kept) \in Nat /\ Cardinality(kept) =< Len(s)
      /\ result \in Seq(S) /\ Len(result) = Cardinality(kept) /\ DOMAIN result = places
      /\ \A i \in kept : \E k \in places : result[k] = s[i]
      /\ \A k \in places : \E i \in kept : result[k] = s[i]
      /\ \A k, l \in places : k < l =>
           \E i, j \in kept : /\ result[k] = s[i] /\ result[l] = s[j]
                              /\ i # j /\ <<j, i>> \notin before

LEMMA IntervalSize ==
  ASSUME NEW n \in Nat
  PROVE  /\ IsFiniteSet(1 .. n) /\ Cardinality(1 .. n) = n
         /\ IsFiniteSet(0 .. n - 1) /\ Cardinality(0 .. n - 1) = n
<1>1. 1 \in Int /\ n \in Int /\ 0 \in Int /\ n - 1 \in Int
  OBVIOUS
<1>2. /\ IsFiniteSet(1 .. n) /\ Cardinality(1 .. n) = IF 1 > n THEN 0 ELSE n - 1 + 1
      /\ IsFiniteSet(0 .. n - 1)
      /\ Cardinality(0 .. n - 1) = IF 0 > n - 1 THEN 0 ELSE (n - 1) - 0 + 1
  BY <1>1, FS_Interval, Zenon
<1> QED BY <1>2
-----------------------------------------------------------------------------
(***************************************************************************)
(* The rank of a position is its place in the result.                      *)
(***************************************************************************)
LEMMA PrecedesOrder ==
  ASSUME NEW kept \in SUBSET Nat, NEW before, WeakOrder(kept, before),
         NEW i \in kept, NEW j \in kept, NEW k \in kept
  PROVE  /\ ~ Precedes(before, i, i)
         /\ Precedes(before, i, j) => ~ Precedes(before, j, i)
         /\ i # j => Precedes(before, i, j) \/ Precedes(before, j, i)
         /\ Precedes(before, i, j) /\ Precedes(before, j, k) => Precedes(before, i, k)
<1>1. i \in Nat /\ j \in Nat /\ k \in Nat
  OBVIOUS
<1>2. /\ <<i, i>> \notin before
      /\ <<i, j>> \in before => <<j, i>> \notin before
      /\ <<i, j>> \in before => <<i, k>> \in before \/ <<k, j>> \in before
      /\ <<j, k>> \in before => <<k, j>> \notin before
      /\ <<j, k>> \in before => <<j, i>> \in before \/ <<i, k>> \in before
      /\ <<k, i>> \in before => <<k, j>> \in before \/ <<j, i>> \in before
  BY DEF WeakOrder
<1> QED BY <1>1, <1>2 DEF Precedes

LEMMA RankType ==
  ASSUME NEW kept \in SUBSET Nat, IsFiniteSet(kept), NEW before, WeakOrder(kept, before),
         NEW i \in kept
  PROVE  /\ IsFiniteSet(Before(kept, before, i))
         /\ Cardinality(kept) \in Nat \ {0}
         /\ Rank(kept, before, i) \in 0 .. Cardinality(kept) - 1
<1>1. Before(kept, before, i) \subseteq kept \ {i}
  BY PrecedesOrder DEF Before
<1>2. /\ IsFiniteSet(kept \ {i}) /\ Cardinality(kept \ {i}) = Cardinality(kept) - 1
      /\ Cardinality(kept) \in Nat /\ Cardinality(kept \ {i}) \in Nat
  BY FS_RemoveElement, FS_CardinalityType
<1>3. /\ IsFiniteSet(Before(kept, before, i))
      /\ Cardinality(Before(kept, before, i)) =< Cardinality(kept \ {i})
      /\ Cardinality(Before(kept, before, i)) \in Nat
  BY <1>1, <1>2, FS_Subset, FS_CardinalityType
<1> QED BY <1>2, <1>3 DEF Rank, Before

LEMMA RankLess ==
  ASSUME NEW kept \in SUBSET Nat, IsFiniteSet(kept), NEW before, WeakOrder(kept, before),
         NEW i \in kept, NEW j \in kept, Precedes(before, i, j)
  PROVE  Rank(kept, before, i) < Rank(kept, before, j)
<1> DEFINE I == Before(kept, before, i)
           J == Before(kept, before, j)
<1>1. I \subseteq J \ {i} /\ i \in J
  <2>1. ASSUME NEW x \in kept, Precedes(before, x, i) PROVE Precedes(before, x, j) /\ x # i
    BY <2>1, PrecedesOrder
  <2> QED BY <2>1 DEF Before
<1>2. IsFiniteSet(I) /\ IsFiniteSet(J)
  BY RankType
<1> HIDE DEF I, J
<1>3. IsFiniteSet(J \ {i}) /\ Cardinality(J \ {i}) = Cardinality(J) - 1
  BY <1>1, <1>2, FS_RemoveElement
<1>4. Cardinality(I) =< Cardinality(J \ {i}) /\ Cardinality(I) \in Nat /\ Cardinality(J) \in Nat
  BY <1>1, <1>2, <1>3, FS_Subset, FS_CardinalityType
<1>5. Cardinality(I) < Cardinality(J)
  BY <1>3, <1>4
<1> QED BY <1>5 DEF I, J, Rank, Before

\* Each place is taken by exactly one position.
LEMMA RankOnto ==
  ASSUME NEW kept \in SUBSET Nat, IsFiniteSet(kept), NEW before, WeakOrder(kept, before),
         NEW r \in 0 .. Cardinality(kept) - 1
  PROVE  \E i \in kept : Rank(kept, before, i) = r
<1> DEFINE c == Cardinality(kept)
           f == [i \in kept |-> Rank(kept, before, i)]
<1>1. c \in Nat /\ IsFiniteSet(0 .. c - 1) /\ Cardinality(0 .. c - 1) = c
  BY FS_CardinalityType, IntervalSize
<1>2. f \in [kept -> 0 .. c - 1]
  BY RankType
<1>3. ASSUME NEW i \in kept, NEW j \in kept, f[i] = f[j] PROVE i = j
  <2> SUFFICES ASSUME i # j PROVE FALSE
    OBVIOUS
  <2>1. Precedes(before, i, j) \/ Precedes(before, j, i)
    BY PrecedesOrder
  <2>2. Rank(kept, before, i) < Rank(kept, before, j) \/ Rank(kept, before, j) < Rank(kept, before, i)
    BY <2>1, RankLess
  <2>3. Rank(kept, before, i) \in Nat /\ Rank(kept, before, i) = Rank(kept, before, j)
    BY <1>2, <1>3
  <2> QED BY <2>2, <2>3
<1>4. f \in Injection(kept, 0 .. c - 1)
  BY <1>2, <1>3 DEF Injection, IsInjective
<1>5. f \in Surjection(kept, 0 .. c - 1)
  BY <1>1, <1>4, FS_Injection
<1> QED BY <1>5 DEF Surjection

LEMMA Arranged ==
  ASSUME NEW S, NEW s \in Seq(S), NEW kept \in SUBSET DOMAIN s,
         NEW before, WeakOrder(kept, before)
  PROVE  Arrangement(S, s, kept, before, Arrange(s, kept, before))
<1> DEFINE c == Cardinality(kept)
           At(k) == CHOOSE i \in kept : Rank(kept, before, i) = k - 1
           result == Arrange(s, kept, before)
<1>1. Len(s) \in Nat /\ DOMAIN s = 1 .. Len(s) /\ \A i \in DOMAIN s : s[i] \in S
  BY LenProperties, ElementOfSeq
<1>2. IsFiniteSet(1 .. Len(s)) /\ Cardinality(1 .. Len(s)) = Len(s)
  BY <1>1, IntervalSize
<1>3. IsFiniteSet(kept) /\ c \in Nat /\ c =< Len(s) /\ kept \in SUBSET Nat
  BY <1>1, <1>2, FS_Subset, FS_CardinalityType
<1>4. ASSUME NEW k \in 1 .. c PROVE At(k) \in kept /\ Rank(kept, before, At(k)) = k - 1
  <2>1. k - 1 \in 0 .. c - 1
    BY <1>3
  <2>2. \E i \in kept : Rank(kept, before, i) = k - 1
    BY <1>3, <2>1, RankOnto
  <2> QED BY <2>2
<1>5. result = [k \in 1 .. c |-> s[At(k)]]
  BY DEF Arrange
<1> HIDE DEF At, result, c
<1>6. result \in [1 .. c -> S]
  BY <1>1, <1>4, <1>5
<1>7. result \in Seq(S) /\ Len(result) = c /\ DOMAIN result = 1 .. c
  BY <1>3, <1>6
<1>8. ASSUME NEW i \in kept PROVE \E k \in 1 .. c : result[k] = s[i]
  <2> DEFINE k == Rank(kept, before, i) + 1
  <2>1. k \in 1 .. c /\ Rank(kept, before, i) = k - 1
    BY <1>3, RankType DEF c
  <2>2. At(k) = i
    <3> SUFFICES ASSUME At(k) # i PROVE FALSE
      OBVIOUS
    <3>1. At(k) \in kept /\ Rank(kept, before, At(k)) = Rank(kept, before, i)
      BY <1>4, <2>1
    <3>2. Precedes(before, At(k), i) \/ Precedes(before, i, At(k))
      BY <1>3, <3>1, PrecedesOrder
    <3>3. Rank(kept, before, i) \in Nat
      BY <1>3, RankType
    <3> QED BY <1>3, <3>1, <3>2, <3>3, RankLess
  <2> QED BY <1>5, <2>1, <2>2
<1>9. ASSUME NEW k \in 1 .. c, NEW l \in 1 .. c, k < l
      PROVE  \E i, j \in kept : /\ result[k] = s[i] /\ result[l] = s[j]
                                /\ i # j /\ <<j, i>> \notin before
  <2>1. /\ At(k) \in kept /\ Rank(kept, before, At(k)) = k - 1
        /\ At(l) \in kept /\ Rank(kept, before, At(l)) = l - 1
    BY <1>4
  <2>2. Rank(kept, before, At(k)) < Rank(kept, before, At(l))
    BY <1>3, <1>9, <2>1
  <2>3. At(k) # At(l)
    BY <1>3, <1>9, <2>1
  <2>4. ~ Precedes(before, At(l), At(k))
    <3> SUFFICES ASSUME Precedes(before, At(l), At(k)) PROVE FALSE
      OBVIOUS
    <3>1. Rank(kept, before, At(l)) < Rank(kept, before, At(k))
      BY <1>3, <2>1, RankLess
    <3> QED BY <1>3, <2>1, <2>2, <3>1
  <2>5. <<At(l), At(k)>> \notin before
    BY <2>4 DEF Precedes
  <2> QED BY <1>5, <2>1, <2>3, <2>5
<1>10. \A k \in 1 .. c : \E i \in kept : result[k] = s[i]
  BY <1>4, <1>5
<1>11. Arrangement(S, s, kept, before, result)
  BY <1>3, <1>7, <1>8, <1>9, <1>10 DEF Arrangement, c
<1> QED BY <1>11 DEF result

\* A filter keeps the order and, of a list without duplicates, makes no duplicates.
LEMMA Filtered ==
  ASSUME NEW S, NEW s \in Seq(S), NEW kept \in SUBSET DOMAIN s
  PROVE  /\ Those(s, kept) \in Seq(S) /\ Len(Those(s, kept)) =< Len(s)
         /\ Len(Those(s, kept)) \in Nat
         /\ \A x \in ToSet(Those(s, kept)) : \E i \in kept : x = s[i]
         /\ \A i \in kept : s[i] \in ToSet(Those(s, kept))
         /\ IsInjective(s) => IsInjective(Those(s, kept))
<1> DEFINE result == Those(s, kept)
           c == Cardinality(kept)
<1>1. Arrangement(S, s, kept, {}, result)
  BY Arranged DEF WeakOrder, Those
<1> HIDE DEF result
<1>2. /\ result \in Seq(S) /\ Len(result) = c /\ DOMAIN result = 1 .. c
      /\ c \in Nat /\ c =< Len(s)
      /\ \A i \in kept : \E k \in 1 .. c : result[k] = s[i]
      /\ \A k \in 1 .. c : \E i \in kept : result[k] = s[i]
      /\ \A k, l \in 1 .. c : k < l =>
           \E i, j \in kept : result[k] = s[i] /\ result[l] = s[j] /\ i # j
  BY <1>1 DEF Arrangement
<1> HIDE DEF c
<1>3. IsInjective(s) => IsInjective(result)
  <2> SUFFICES ASSUME IsInjective(s) PROVE IsInjective(result)
    OBVIOUS
  <2>1. ASSUME NEW k \in 1 .. c, NEW l \in 1 .. c, k < l PROVE result[k] # result[l]
    <3>1. PICK i, j \in kept : result[k] = s[i] /\ result[l] = s[j] /\ i # j
      BY <1>2, <2>1
    <3> QED BY <3>1 DEF IsInjective
  <2>2. ASSUME NEW k \in 1 .. c, NEW l \in 1 .. c, result[k] = result[l] PROVE k = l
    BY <1>2, <2>1, <2>2
  <2> QED BY <1>2, <2>2 DEF IsInjective
<1>4. \A x \in ToSet(result) : \E i \in kept : x = s[i]
  BY <1>2 DEF ToSet
<1>5. ASSUME NEW i \in kept PROVE s[i] \in ToSet(result)
  <2>1. PICK k \in DOMAIN result : result[k] = s[i]
    BY <1>2
  <2> QED BY <2>1 DEF ToSet
<1> QED BY <1>2, <1>3, <1>4, <1>5 DEF result

\* The first elements of a list, as many as there are places.
LEMMA Kept ==
  ASSUME NEW S, NEW s \in Seq(S)
  PROVE  /\ Keep(s) \in Seq(S) /\ DOMAIN Keep(s) = 1 .. Len(Keep(s))
         /\ Len(Keep(s)) = IF Len(s) < TargetSize THEN Len(s) ELSE TargetSize
         /\ Len(Keep(s)) \in Nat /\ Len(Keep(s)) =< TargetSize /\ Len(Keep(s)) =< Len(s)
         /\ \A i \in 1 .. Len(Keep(s)) : i \in DOMAIN s /\ Keep(s)[i] = s[i]
<1> DEFINE n == IF Len(s) < TargetSize THEN Len(s) ELSE TargetSize
<1>1. /\ Len(s) \in Nat /\ DOMAIN s = 1 .. Len(s) /\ \A i \in 1 .. Len(s) : s[i] \in S
      /\ TargetSize \in Nat
  BY LenProperties, UniverseAssumption
<1>2. n \in Nat /\ n =< Len(s) /\ n =< TargetSize /\ 1 \in Int /\ n \in Int
  BY <1>1
<1>3. Keep(s) = SubSeq(s, 1, n)
  BY DEF Keep
<1> HIDE DEF n
<1>4. /\ SubSeq(s, 1, n) \in Seq(S)
      /\ Len(SubSeq(s, 1, n)) = IF 1 =< n THEN n - 1 + 1 ELSE 0
      /\ \A i \in 1 .. n - 1 + 1 : SubSeq(s, 1, n)[i] = s[1 + i - 1]
  <2>1. \A i \in 1 .. n : s[i] \in S
    BY <1>1, <1>2
  <2> QED BY <1>2, <2>1, SubSeqProperties
<1>5. Len(Keep(s)) = n
  BY <1>2, <1>3, <1>4
<1>6. \A i \in 1 .. n : Keep(s)[i] = s[i]
  BY <1>2, <1>3, <1>4
<1>7. DOMAIN Keep(s) = 1 .. n
  BY <1>3, <1>4, <1>5, LenProperties
<1>8. Keep(s) \in Seq(S) /\ n = IF Len(s) < TargetSize THEN Len(s) ELSE TargetSize
  BY <1>3, <1>4 DEF n
<1>9. \A i \in 1 .. n : i \in DOMAIN s
  BY <1>1, <1>2
<1>10. /\ DOMAIN Keep(s) = 1 .. Len(Keep(s))
       /\ \A i \in 1 .. Len(Keep(s)) : i \in DOMAIN s /\ Keep(s)[i] = s[i]
  BY <1>5, <1>6, <1>7, <1>9
<1> QED BY <1>2, <1>5, <1>8, <1>10
-----------------------------------------------------------------------------
(***************************************************************************)
(* From the listing to the candidates.                                     *)
(***************************************************************************)

\* A market of the listing that select() may choose.
Eligible(listed, m) ==
  /\ m \in ToSet(listed) /\ ParseTokenIds(m) # <<>>
  /\ Horizon > 0 => OutsideHorizon(m)

LEMMA ListingType ==
  ASSUME NEW listed \in Listings
  PROVE  listed \in Seq(Markets) /\ IsInjective(listed)
<1>1. PICK m \in 0 .. CandidateLimit : listed \in [1 .. m -> Markets]
  BY DEF Listings, SeqOf
<1>2. m \in Nat
  BY UniverseAssumption
<1> QED BY <1>1, <1>2 DEF Listings

LEMMA CandidatesType ==
  ASSUME NEW listed \in Listings
  PROVE  /\ Candidates(listed) \in Seq(Markets) /\ IsInjective(Candidates(listed))
         /\ \A m \in ToSet(Candidates(listed)) : Eligible(listed, m)
<1> DEFINE some == {i \in DOMAIN listed : ParseTokenIds(listed[i]) # <<>>}
           top  == TopMarkets(listed)
           kept == {i \in DOMAIN top : Horizon > 0 => OutsideHorizon(top[i])}
<1>1. /\ top \in Seq(Markets) /\ IsInjective(top)
      /\ \A m \in ToSet(top) : m \in ToSet(listed) /\ ParseTokenIds(m) # <<>>
  <2>1. some \in SUBSET DOMAIN listed /\ top = Those(listed, some)
    BY DEF TopMarkets
  <2>2. \A i \in some : listed[i] \in ToSet(listed) /\ ParseTokenIds(listed[i]) # <<>>
    BY DEF ToSet
  <2> HIDE DEF some, top
  <2> QED BY <2>1, <2>2, ListingType, Filtered
<1>2. kept \in SUBSET DOMAIN top /\ Candidates(listed) = Those(top, kept)
  BY DEF Candidates
<1>3. \A i \in kept : top[i] \in ToSet(top) /\ (Horizon > 0 => OutsideHorizon(top[i]))
  BY DEF ToSet
<1> HIDE DEF kept, top
<1>4. /\ Those(top, kept) \in Seq(Markets) /\ IsInjective(Those(top, kept))
      /\ \A m \in ToSet(Those(top, kept)) : \E i \in kept : m = top[i]
  BY <1>1, <1>2, Filtered
<1> QED BY <1>1, <1>2, <1>3, <1>4 DEF Eligible
-----------------------------------------------------------------------------
(***************************************************************************)
(* The books: the best bid and the best ask, and the score.                *)
(***************************************************************************)
Quote == (0 .. MaxPrice) \X Nat

\* What _levels leaves of a side.
LEMMA LevelsType ==
  ASSUME NEW side \in Seq(Level)
  PROVE  /\ Levels(side) \in Seq(Quote)
         /\ ToSet(Levels(side)) = ToSet(side) \ {Malformed}
<1> DEFINE good == {i \in DOMAIN side : side[i] # Malformed}
           left == Levels(side)
<1>1. good \in SUBSET DOMAIN side /\ left = Those(side, good)
  BY DEF Levels
<1>2. \A i \in DOMAIN side : side[i] \in Level
  BY LenProperties
<1>3. \A i \in good : side[i] \in Quote /\ side[i] # Malformed /\ side[i] \in ToSet(side)
  BY <1>2 DEF Level, Quote, ToSet
<1>4. \A x \in ToSet(side) \ {Malformed} : \E i \in good : x = side[i]
  BY DEF ToSet
<1> HIDE DEF good, left
<1>5. /\ left \in Seq(Level)
      /\ \A x \in ToSet(left) : \E i \in good : x = side[i]
      /\ \A i \in good : side[i] \in ToSet(left)
  BY <1>1, Filtered
<1>6. Len(left) \in Nat /\ DOMAIN left = 1 .. Len(left) /\ left \in [1 .. Len(left) -> Level]
  BY <1>5, LenProperties
<1>7. \A i \in DOMAIN left : left[i] \in Quote
  <2> SUFFICES ASSUME NEW i \in DOMAIN left PROVE left[i] \in Quote
    OBVIOUS
  <2>1. left[i] \in ToSet(left)
    BY DEF ToSet
  <2> QED BY <1>3, <1>5, <2>1
<1>8. left \in [1 .. Len(left) -> Quote]
  BY <1>6, <1>7
<1>9. left \in Seq(Quote)
  BY <1>6, <1>8
<1>10. ToSet(left) = ToSet(side) \ {Malformed}
  BY <1>3, <1>4, <1>5
<1> QED BY <1>9, <1>10 DEF left

LEMMA InPairs ==
  ASSUME NEW s, NEW i, NEW j
  PROVE  <<i, j>> \in Pairs(s) <=> i \in DOMAIN s /\ j \in DOMAIN s
BY DEF Pairs

LEMMA PriceOrders ==
  ASSUME NEW q \in Seq(Quote)
  PROVE  /\ WeakOrder(DOMAIN q, Dearer(q)) /\ WeakOrder(DOMAIN q, Cheaper(q))
         /\ \A i, j \in DOMAIN q : /\ <<i, j>> \in Dearer(q)  <=> q[i][1] > q[j][1]
                                   /\ <<i, j>> \in Cheaper(q) <=> q[i][1] < q[j][1]
<1>1. \A i, j \in DOMAIN q : /\ <<i, j>> \in Dearer(q)  <=> q[i][1] > q[j][1]
                             /\ <<i, j>> \in Cheaper(q) <=> q[i][1] < q[j][1]
  BY InPairs DEF Dearer, Cheaper
<1>2. \A i \in DOMAIN q : q[i][1] \in Int
  <2>1. \A i \in DOMAIN q : q[i] \in Quote
    BY LenProperties
  <2>2. \A x \in Quote : x[1] \in Int
    BY UniverseAssumption DEF Quote
  <2> QED BY <2>1, <2>2
<1>3. WeakOrder(DOMAIN q, Dearer(q))
  <2> SUFFICES ASSUME NEW i \in DOMAIN q, NEW j \in DOMAIN q, NEW k \in DOMAIN q
               PROVE  /\ <<i, j>> \in Dearer(q) => <<j, i>> \notin Dearer(q)
                      /\ <<i, k>> \in Dearer(q) => <<i, j>> \in Dearer(q) \/ <<j, k>> \in Dearer(q)
    BY DEF WeakOrder
  <2>1. q[i][1] \in Int /\ q[j][1] \in Int /\ q[k][1] \in Int
    BY <1>2
  <2> QED BY <1>1, <2>1
<1>4. WeakOrder(DOMAIN q, Cheaper(q))
  <2> SUFFICES ASSUME NEW i \in DOMAIN q, NEW j \in DOMAIN q, NEW k \in DOMAIN q
               PROVE  /\ <<i, j>> \in Cheaper(q) => <<j, i>> \notin Cheaper(q)
                      /\ <<i, k>> \in Cheaper(q) => <<i, j>> \in Cheaper(q) \/ <<j, k>> \in Cheaper(q)
    BY DEF WeakOrder
  <2>1. q[i][1] \in Int /\ q[j][1] \in Int /\ q[k][1] \in Int
    BY <1>2
  <2> QED BY <1>1, <2>1
<1> QED BY <1>1, <1>3, <1>4

\* Nothing that is to come before the first element of the result is there.
LEMMA FirstOfAll ==
  ASSUME NEW S, NEW s \in Seq(S), s # <<>>, NEW before, WeakOrder(DOMAIN s, before)
  PROVE  \E i \in DOMAIN s : /\ Sorted(s, before)[1] = s[i]
                             /\ \A j \in DOMAIN s :
                                  \/ s[j] = s[i]
                                  \/ \E k, l \in DOMAIN s : /\ s[k] = s[i] /\ s[l] = s[j]
                                                            /\ <<l, k>> \notin before
<1> DEFINE result == Sorted(s, before)
           c == Cardinality(DOMAIN s)
<1>1. Arrangement(S, s, DOMAIN s, before, result)
  BY Arranged DEF Sorted
<1> HIDE DEF result
<1>2. /\ \A i \in DOMAIN s : \E k \in 1 .. c : result[k] = s[i]
      /\ \A k \in 1 .. c : \E i \in DOMAIN s : result[k] = s[i]
      /\ \A k, l \in 1 .. c : k < l =>
           \E i, j \in DOMAIN s : result[k] = s[i] /\ result[l] = s[j] /\ <<j, i>> \notin before
  BY <1>1 DEF Arrangement
<1>3. 1 \in 1 .. c
  <2>1. Len(s) \in Nat \ {0} /\ DOMAIN s = 1 .. Len(s)
    BY EmptySeq, LenProperties
  <2> QED BY <2>1, IntervalSize
<1> HIDE DEF c
<1>4. PICK i \in DOMAIN s : result[1] = s[i]
  BY <1>2, <1>3
<1>5. ASSUME NEW j \in DOMAIN s
      PROVE  \/ s[j] = s[i]
             \/ \E k, l \in DOMAIN s : s[k] = s[i] /\ s[l] = s[j] /\ <<l, k>> \notin before
  <2>1. PICK m \in 1 .. c : result[m] = s[j]
    BY <1>2
  <2>2. m = 1 \/ 1 < m
    OBVIOUS
  <2>3. CASE 1 < m
    <3>1. PICK k, l \in DOMAIN s : result[1] = s[k] /\ result[m] = s[l] /\ <<l, k>> \notin before
      BY <1>2, <1>3, <2>3
    <3> QED BY <1>4, <2>1, <3>1
  <2> QED BY <1>4, <2>1, <2>2, <2>3
<1> QED BY <1>4, <1>5 DEF result

\* The first bid is the dearest, the first ask the cheapest.
LEMMA BestQuote ==
  ASSUME NEW q \in Seq(Quote), q # <<>>
  PROVE  /\ Sorted(q, Dearer(q))[1] \in ToSet(q)
         /\ \A x \in ToSet(q) : x[1] =< Sorted(q, Dearer(q))[1][1]
         /\ Sorted(q, Cheaper(q))[1] \in ToSet(q)
         /\ \A x \in ToSet(q) : x[1] >= Sorted(q, Cheaper(q))[1][1]
<1>1. \A x \in ToSet(q) : x \in Quote /\ \E j \in DOMAIN q : x = q[j]
  BY LenProperties DEF ToSet
<1>2. \A x \in Quote : x[1] \in Int
  BY UniverseAssumption DEF Quote
<1>3. ASSUME NEW before, WeakOrder(DOMAIN q, before)
      PROVE  /\ Sorted(q, before)[1] \in ToSet(q)
             /\ \A x \in ToSet(q) :
                  \/ x = Sorted(q, before)[1]
                  \/ \E k, l \in DOMAIN q : /\ q[k] = Sorted(q, before)[1] /\ q[l] = x
                                            /\ <<l, k>> \notin before
  <2>1. PICK i \in DOMAIN q :
          /\ Sorted(q, before)[1] = q[i]
          /\ \A j \in DOMAIN q :
               \/ q[j] = q[i]
               \/ \E k, l \in DOMAIN q : q[k] = q[i] /\ q[l] = q[j] /\ <<l, k>> \notin before
    BY <1>3, FirstOfAll
  <2>2. q[i] \in ToSet(q)
    BY DEF ToSet
  <2>3. ASSUME NEW x \in ToSet(q)
        PROVE  \/ x = q[i]
               \/ \E k, l \in DOMAIN q : q[k] = q[i] /\ q[l] = x /\ <<l, k>> \notin before
    <3>1. PICK j \in DOMAIN q : x = q[j]
      BY <1>1
    <3> QED BY <2>1, <3>1
  <2> QED BY <2>1, <2>2, <2>3
<1>4. /\ Sorted(q, Dearer(q))[1] \in ToSet(q)
      /\ \A x \in ToSet(q) : x[1] =< Sorted(q, Dearer(q))[1][1]
  <2> DEFINE first == Sorted(q, Dearer(q))[1]
  <2>1. WeakOrder(DOMAIN q, Dearer(q))
    BY PriceOrders
  <2>2. /\ first \in ToSet(q)
        /\ \A x \in ToSet(q) :
             \/ x = first
             \/ \E k, l \in DOMAIN q : q[k] = first /\ q[l] = x /\ <<l, k>> \notin Dearer(q)
    BY <1>3, <2>1
  <2> HIDE DEF first
  <2>3. ASSUME NEW x \in ToSet(q) PROVE x[1] =< first[1]
    <3>1. x[1] \in Int /\ first[1] \in Int
      BY <1>1, <1>2, <2>2
    <3>2. ASSUME NEW k \in DOMAIN q, NEW l \in DOMAIN q,
                 q[k] = first, q[l] = x, <<l, k>> \notin Dearer(q)
          PROVE  x[1] =< first[1]
      BY <3>1, <3>2, PriceOrders
    <3>3. CASE x = first
      BY <3>1, <3>3
    <3>4. CASE x # first
      <4>1. PICK k, l \in DOMAIN q : q[k] = first /\ q[l] = x /\ <<l, k>> \notin Dearer(q)
        BY <2>2, <3>4
      <4> QED BY <3>2, <4>1
    <3> QED BY <3>3, <3>4
  <2> QED BY <2>2, <2>3 DEF first
<1>5. /\ Sorted(q, Cheaper(q))[1] \in ToSet(q)
      /\ \A x \in ToSet(q) : x[1] >= Sorted(q, Cheaper(q))[1][1]
  <2> DEFINE first == Sorted(q, Cheaper(q))[1]
  <2>1. WeakOrder(DOMAIN q, Cheaper(q))
    BY PriceOrders
  <2>2. /\ first \in ToSet(q)
        /\ \A x \in ToSet(q) :
             \/ x = first
             \/ \E k, l \in DOMAIN q : q[k] = first /\ q[l] = x /\ <<l, k>> \notin Cheaper(q)
    BY <1>3, <2>1
  <2> HIDE DEF first
  <2>3. ASSUME NEW x \in ToSet(q) PROVE x[1] >= first[1]
    <3>1. x[1] \in Int /\ first[1] \in Int
      BY <1>1, <1>2, <2>2
    <3>2. ASSUME NEW k \in DOMAIN q, NEW l \in DOMAIN q,
                 q[k] = first, q[l] = x, <<l, k>> \notin Cheaper(q)
          PROVE  x[1] >= first[1]
      BY <3>1, <3>2, PriceOrders
    <3>3. CASE x = first
      BY <3>1, <3>3
    <3>4. CASE x # first
      <4>1. PICK k, l \in DOMAIN q : q[k] = first /\ q[l] = x /\ <<l, k>> \notin Cheaper(q)
        BY <2>2, <3>4
      <4> QED BY <3>2, <4>1
    <3> QED BY <3>3, <3>4
  <2> QED BY <2>2, <2>3 DEF first
<1> QED BY <1>4, <1>5

\* A book of which the code takes the spread.
LEMMA BookType ==
  ASSUME NEW book \in Books, TwoSided(book)
  PROVE  /\ Spread(book) = TightSpread(book) /\ Spread(book) \in Int
         /\ Spread(book) =< MaxPrice /\ TopDepth(book) \in Nat
<1> DEFINE bids == Levels(book.bids)
           asks == Levels(book.asks)
           bid  == Bids(book)[1]
           ask  == Asks(book)[1]
           bidPrices == {x[1] : x \in ToSet(book.bids) \ {Malformed}}
           askPrices == {x[1] : x \in ToSet(book.asks) \ {Malformed}}
<1>1. /\ bids \in Seq(Quote) /\ bids # <<>> /\ ToSet(bids) = ToSet(book.bids) \ {Malformed}
      /\ asks \in Seq(Quote) /\ asks # <<>> /\ ToSet(asks) = ToSet(book.asks) \ {Malformed}
  <2>1. book.bids \in Seq(Level) /\ book.asks \in Seq(Level)
    BY DEF Books
  <2> QED BY <2>1, LevelsType DEF TwoSided
<1>2. bid = Sorted(bids, Dearer(bids))[1] /\ ask = Sorted(asks, Cheaper(asks))[1]
  BY DEF Bids, Asks
<1> HIDE DEF bids, asks, bid, ask
<1>3. /\ bid \in ToSet(bids) /\ \A x \in ToSet(bids) : x[1] =< bid[1]
      /\ ask \in ToSet(asks) /\ \A x \in ToSet(asks) : x[1] >= ask[1]
  BY <1>1, <1>2, BestQuote
<1>4. /\ \A x \in ToSet(bids) : x \in Quote
      /\ \A x \in ToSet(asks) : x \in Quote
  BY <1>1, LenProperties DEF ToSet
<1>5. \A x \in Quote : x[1] \in 0 .. MaxPrice /\ x[2] \in Nat
  BY DEF Quote
<1>6. MaxPrice \in Nat
  BY UniverseAssumption
<1>7. /\ bid[1] \in bidPrices /\ \A y \in bidPrices : bid[1] >= y
      /\ ask[1] \in askPrices /\ \A y \in askPrices : ask[1] =< y
      /\ bidPrices \subseteq Int /\ askPrices \subseteq Int
  BY <1>1, <1>3, <1>4, <1>5, <1>6
<1>8. bid[1] = CHOOSE x \in bidPrices : \A y \in bidPrices : x >= y
  <2> HIDE DEF bidPrices
  <2>1. ASSUME NEW x \in bidPrices, \A y \in bidPrices : x >= y PROVE x = bid[1]
    <3>1. x \in Int /\ bid[1] \in Int
      BY <1>7
    <3> QED BY <1>7, <2>1, <3>1
  <2> QED BY <1>7, <2>1
<1>9. ask[1] = CHOOSE x \in askPrices : \A y \in askPrices : x =< y
  <2> HIDE DEF askPrices
  <2>1. ASSUME NEW x \in askPrices, \A y \in askPrices : x =< y PROVE x = ask[1]
    <3>1. x \in Int /\ ask[1] \in Int
      BY <1>7
    <3> QED BY <1>7, <2>1, <3>1
  <2> QED BY <1>7, <2>1
<1>10. Spread(book) = ask[1] - bid[1] /\ TopDepth(book) = bid[2] + ask[2]
  BY DEF Spread, TopDepth, bid, ask
<1>11. Spread(book) = TightSpread(book)
  BY <1>8, <1>9, <1>10 DEF TightSpread
<1>12. /\ bid[1] \in 0 .. MaxPrice /\ ask[1] \in 0 .. MaxPrice
       /\ bid[2] \in Nat /\ ask[2] \in Nat
  BY <1>3, <1>4, <1>5
<1> QED BY <1>6, <1>10, <1>11, <1>12
-----------------------------------------------------------------------------
(***************************************************************************)
(* The score: a fraction of which the denominator is not zero.             *)
(***************************************************************************)
Fraction == Nat \X (Nat \ {0})

LEMMA SquareType ==
  /\ \A x \in Nat : Square(x) \in Nat
  /\ \A x \in Nat \ {0} : Square(x) \in Nat \ {0}
  /\ \A x, y \in Nat : x =< y => Square(x) =< Square(y)
  /\ \A x, y \in Nat : x < y => Square(x) < Square(y)
<1>1. \A x \in Nat : x * x \in Nat
  OBVIOUS
<1>2. ASSUME NEW x \in Nat \ {0} PROVE x * x \in Nat \ {0}
  OBVIOUS
<1>3. ASSUME NEW x \in Nat, NEW y \in Nat, x =< y PROVE x * x =< y * y
  <2>1. x * x =< x * y /\ x * y =< y * y /\ x * y \in Nat /\ y * y \in Nat /\ x * x \in Nat
    BY <1>3
  <2> QED BY <2>1
<1>4. ASSUME NEW x \in Nat, NEW y \in Nat, x < y PROVE x * x < y * y
  <2>1. x * x =< x * y /\ x * y < y * y /\ x * y \in Nat /\ y * y \in Nat /\ x * x \in Nat
    BY <1>4
  <2> QED BY <2>1
<1> QED BY <1>1, <1>2, <1>3, <1>4 DEF Square

LEMMA Cancel ==
  ASSUME NEW a \in Int, NEW b \in Int, NEW c \in Nat \ {0}
  PROVE  a * c =< b * c <=> a =< b
OBVIOUS

\* The quotients are compared by what they are, so any three of them are ordered.
LEMMA AboveOrder ==
  ASSUME NEW x \in Fraction, NEW y \in Fraction, NEW z \in Fraction
  PROVE  /\ Above(x, y) => ~ Above(y, x)
         /\ Above(x, z) => Above(x, y) \/ Above(y, z)
<1> DEFINE a == x[1]
           b == x[2]
           c == y[1]
           d == y[2]
           e == z[1]
           f == z[2]
<1>1. a \in Nat /\ b \in Nat \ {0} /\ c \in Nat /\ d \in Nat \ {0} /\ e \in Nat /\ f \in Nat \ {0}
  BY DEF Fraction
<1>2. /\ Above(x, y) <=> a * d > c * b
      /\ Above(y, x) <=> c * b > a * d
      /\ Above(x, z) <=> a * f > e * b
      /\ Above(y, z) <=> c * f > e * d
  BY DEF Above
<1> HIDE DEF a, b, c, d, e, f
<1>3. a * d \in Int /\ c * b \in Int /\ a * f \in Int /\ e * b \in Int /\ c * f \in Int /\ e * d \in Int
  BY <1>1
<1>4. ASSUME a * d =< c * b, c * f =< e * d PROVE a * f =< e * b
  <2>1. (a * d) * f =< (c * b) * f
    BY <1>1, <1>3, <1>4, Cancel
  <2>2. (c * f) * b =< (e * d) * b
    BY <1>1, <1>3, <1>4, Cancel
  <2>3. /\ (a * d) * f = (a * f) * d /\ (c * b) * f = (c * f) * b /\ (e * d) * b = (e * b) * d
        /\ (a * f) * d \in Int /\ (c * f) * b \in Int /\ (e * b) * d \in Int
    BY <1>1
  <2>4. (a * f) * d =< (e * b) * d
    BY <2>1, <2>2, <2>3
  <2> QED BY <1>1, <1>3, <2>4, Cancel
<1>5. /\ ~ (a * d > c * b /\ c * b > a * d)
      /\ a * d > c * b \/ a * d =< c * b
      /\ c * f > e * d \/ c * f =< e * d
      /\ ~ (a * f > e * b /\ a * f =< e * b)
  BY <1>3
<1> QED BY <1>2, <1>4, <1>5, Zenon

LEMMA ScoreType ==
  ASSUME NEW m \in Markets, m.book # NoJson
  PROVE  /\ Score(m) \in Fraction
         /\ TwoSided(m.book) => m.book \in Books
<1>1. m.volume \in Nat /\ Unbooked \in Nat \ {0} /\ Square(m.volume) \in Nat
  BY UniverseAssumption, SquareType
<1>2. ASSUME TwoSided(m.book)
      PROVE  /\ m.book \in Books
             /\ AtLeastOne(TopDepth(m.book)) \in Nat /\ AtLeastOne(Spread(m.book)) \in Nat \ {0}
  <2>1. m.book \in Books
    BY <1>2, UniverseAssumption DEF TwoSided
  <2>2. TopDepth(m.book) \in Nat /\ Spread(m.book) \in Int
    BY <1>2, <2>1, BookType
  <2> QED BY <2>1, <2>2 DEF AtLeastOne
<1>3. CASE TwoSided(m.book)
  <2> DEFINE d == AtLeastOne(TopDepth(m.book))
             s == AtLeastOne(Spread(m.book))
  <2>1. d \in Nat /\ s \in Nat \ {0}
    BY <1>2, <1>3
  <2>2. Score(m) = <<Square(m.volume) * d, Square(Square(s))>>
    BY <1>3 DEF Score
  <2> HIDE DEF d, s
  <2>3. Square(m.volume) * d \in Nat /\ Square(Square(s)) \in Nat \ {0}
    BY <1>1, <2>1, SquareType
  <2> QED BY <1>2, <1>3, <2>2, <2>3 DEF Fraction
<1>4. CASE ~ TwoSided(m.book)
  BY <1>1, <1>4 DEF Score, Fraction
<1> QED BY <1>3, <1>4
-----------------------------------------------------------------------------
(***************************************************************************)
(* What select() keeps and what it leaves out.                             *)
(***************************************************************************)
LEMMA ScoreOrder ==
  ASSUME NEW ms \in Seq(Markets), \A i \in DOMAIN ms : ms[i].book # NoJson
  PROVE  /\ WeakOrder(DOMAIN ms, Better(ms))
         /\ \A i, j \in DOMAIN ms :
              <<i, j>> \in Better(ms) <=> Above(Score(ms[i]), Score(ms[j]))
<1>1. \A i, j \in DOMAIN ms : <<i, j>> \in Better(ms) <=> Above(Score(ms[i]), Score(ms[j]))
  BY InPairs DEF Better
<1>2. \A i \in DOMAIN ms : Score(ms[i]) \in Fraction
  BY LenProperties, ScoreType
<1>3. ASSUME NEW i \in DOMAIN ms, NEW j \in DOMAIN ms, NEW k \in DOMAIN ms
      PROVE  /\ <<i, j>> \in Better(ms) => <<j, i>> \notin Better(ms)
             /\ <<i, k>> \in Better(ms) => <<i, j>> \in Better(ms) \/ <<j, k>> \in Better(ms)
  BY <1>1, <1>2, AboveOrder, Zenon
<1> QED BY <1>1, <1>3 DEF WeakOrder

\* _refine keeps the markets with the highest scores.
LEMMA RefineKeepsBest ==
  ASSUME NEW ms \in Seq(Markets), IsInjective(ms), \A i \in DOMAIN ms : ms[i].book # NoJson
  PROVE  /\ Refine(ms) \in Seq(Markets) /\ Len(Refine(ms)) =< TargetSize
         /\ IsInjective(Refine(ms))
         /\ ToSet(Refine(ms)) \subseteq ToSet(ms)
         /\ \A m \in ToSet(ms) \ ToSet(Refine(ms)), n \in ToSet(Refine(ms)) :
              ~ Above(Score(m), Score(n))
<1> DEFINE result == Sorted(ms, Better(ms))
           c      == Cardinality(DOMAIN ms)
           some   == Keep(result)
<1>1. Arrangement(Markets, ms, DOMAIN ms, Better(ms), result)
  BY ScoreOrder, Arranged DEF Sorted
<1>2. Refine(ms) = some
  BY DEF Refine
<1> HIDE DEF result
<1>3. /\ result \in Seq(Markets) /\ DOMAIN result = 1 .. c /\ c \in Nat
      /\ \A i \in DOMAIN ms : \E k \in 1 .. c : result[k] = ms[i]
      /\ \A k \in 1 .. c : \E i \in DOMAIN ms : result[k] = ms[i]
      /\ \A k, l \in 1 .. c : k < l =>
           \E i, j \in DOMAIN ms : /\ result[k] = ms[i] /\ result[l] = ms[j]
                                   /\ i # j /\ <<j, i>> \notin Better(ms)
  BY <1>1 DEF Arrangement
<1>4. /\ some \in Seq(Markets) /\ DOMAIN some = 1 .. Len(some)
      /\ Len(some) \in Nat /\ Len(some) =< TargetSize
      /\ \A i \in 1 .. Len(some) : i \in DOMAIN result /\ some[i] = result[i]
  BY <1>3, Kept
<1> HIDE DEF c, some
<1>5. ASSUME NEW k \in 1 .. c, NEW l \in 1 .. c, k < l
      PROVE  result[k] # result[l] /\ ~ Above(Score(result[l]), Score(result[k]))
  <2>1. PICK i, j \in DOMAIN ms : /\ result[k] = ms[i] /\ result[l] = ms[j]
                                  /\ i # j /\ <<j, i>> \notin Better(ms)
    BY <1>3, <1>5
  <2> QED BY <2>1, ScoreOrder DEF IsInjective
<1>6. ASSUME NEW k \in DOMAIN some, NEW l \in DOMAIN some, some[k] = some[l] PROVE k = l
  <2>1. /\ k \in 1 .. c /\ l \in 1 .. c /\ result[k] = result[l]
    BY <1>3, <1>4, <1>6
  <2>2. ~ (k < l) /\ ~ (l < k)
    BY <1>5, <2>1
  <2> QED BY <2>1, <2>2
<1>7. ToSet(some) \subseteq ToSet(ms)
  <2> SUFFICES ASSUME NEW k \in DOMAIN some PROVE some[k] \in ToSet(ms)
    BY DEF ToSet
  <2>1. PICK i \in DOMAIN ms : some[k] = ms[i]
    BY <1>3, <1>4
  <2> QED BY <2>1 DEF ToSet
<1>8. ASSUME NEW m \in ToSet(ms) \ ToSet(some), NEW n \in ToSet(some)
      PROVE  ~ Above(Score(m), Score(n))
  <2>1. PICK i \in DOMAIN ms : ms[i] = m
    BY DEF ToSet
  <2>2. PICK l \in 1 .. c : result[l] = m
    BY <1>3, <2>1
  <2>3. PICK k \in 1 .. Len(some) : some[k] = n
    BY <1>4 DEF ToSet
  <2>4. k \in 1 .. c /\ result[k] = n
    BY <1>3, <1>4, <2>3
  <2>5. ~ (l =< Len(some))
    <3> SUFFICES ASSUME l =< Len(some) PROVE m \in ToSet(some)
      OBVIOUS
    <3>1. l \in DOMAIN some /\ some[l] = m
      BY <1>4, <2>2
    <3> QED BY <3>1 DEF ToSet
  <2>6. k < l
    BY <1>4, <2>4, <2>5
  <2> QED BY <1>5, <2>2, <2>4, <2>6
<1> QED BY <1>2, <1>4, <1>6, <1>7, <1>8 DEF IsInjective

LEMMA SelectKeepsBest ==
  ASSUME NEW listed \in Listings, ~ SelectRaises(listed)
  PROVE  /\ Select(listed) \in Seq(Markets) /\ Len(Select(listed)) =< TargetSize
         /\ IsInjective(Select(listed))
         /\ \A m \in ToSet(Select(listed)) : Eligible(listed, m)
         /\ \A m \in ToSet(Candidates(listed)) \ ToSet(Select(listed)),
               n \in ToSet(Select(listed)) :
              RefineByDepth => /\ m \in Markets /\ n \in Markets
                               /\ m.book # NoJson /\ n.book # NoJson
                               /\ ~ Above(Score(m), Score(n))
<1> DEFINE ms == Candidates(listed)
           some == Select(listed)
<1>1. /\ ms \in Seq(Markets) /\ IsInjective(ms) /\ \A m \in ToSet(ms) : Eligible(listed, m)
      /\ Len(ms) \in Nat /\ DOMAIN ms = 1 .. Len(ms) /\ \A m \in ToSet(ms) : m \in Markets
  <2>1. ms \in Seq(Markets) /\ IsInjective(ms) /\ \A m \in ToSet(ms) : Eligible(listed, m)
    BY CandidatesType
  <2> HIDE DEF ms
  <2> QED BY <2>1, LenProperties DEF ToSet
<1>2. TargetSize \in Nat
  BY UniverseAssumption
<1>3. CASE Refines(listed)
  <2>1. some = Refine(ms)
    BY <1>3 DEF Select
  <2>2. \A m \in ToSet(ms) : m.book # NoJson
    BY <1>3 DEF SelectRaises
  <2> HIDE DEF ms, some
  <2>3. \A i \in DOMAIN ms : ms[i].book # NoJson
    BY <2>2 DEF ToSet
  <2>4. /\ some \in Seq(Markets) /\ Len(some) =< TargetSize /\ IsInjective(some)
        /\ ToSet(some) \subseteq ToSet(ms)
        /\ \A m \in ToSet(ms) \ ToSet(some), n \in ToSet(some) : ~ Above(Score(m), Score(n))
    BY <1>1, <2>1, <2>3, RefineKeepsBest
  <2> QED BY <1>1, <2>2, <2>4 DEF ms, some
<1>4. CASE ~ Refines(listed)
  <2>1. some = Keep(ms)
    BY <1>4 DEF Select
  <2>2. RefineByDepth => Len(ms) =< TargetSize
    BY <1>1, <1>2, <1>4 DEF Refines
  <2> HIDE DEF ms, some
  <2>3. /\ some \in Seq(Markets) /\ DOMAIN some = 1 .. Len(some) /\ Len(some) \in Nat
        /\ Len(some) = IF Len(ms) < TargetSize THEN Len(ms) ELSE TargetSize
        /\ Len(some) =< TargetSize
        /\ \A i \in 1 .. Len(some) : i \in DOMAIN ms /\ some[i] = ms[i]
    BY <1>1, <2>1, Kept
  <2>4. IsInjective(some)
    BY <1>1, <2>3 DEF IsInjective
  <2>5. ToSet(some) \subseteq ToSet(ms)
    BY <2>3 DEF ToSet
  <2>6. RefineByDepth => ToSet(ms) \subseteq ToSet(some)
    <3> SUFFICES ASSUME RefineByDepth, NEW i \in DOMAIN ms PROVE ms[i] \in ToSet(some)
      BY DEF ToSet
    <3>1. i \in DOMAIN some /\ some[i] = ms[i]
      BY <1>1, <1>2, <2>2, <2>3
    <3> QED BY <3>1 DEF ToSet
  <2> QED BY <1>1, <2>3, <2>4, <2>5, <2>6 DEF ms, some
<1> QED BY <1>3, <1>4
-----------------------------------------------------------------------------
\* What was chosen is what select() makes of the last listing that it took.
UInv ==
  /\ listing \in Listings /\ ~ SelectRaises(listing)
  /\ chosen = Select(listing)

LEMMA NothingListed ==
  /\ <<>> \in Listings /\ ~ SelectRaises(<<>>) /\ Select(<<>>) = <<>>
<1> DEFINE none == <<>>
<1>1. none \in Seq(Markets) /\ DOMAIN none = {} /\ Len(none) = 0
  BY EmptySeq
<1>2. none \in Listings
  <2>1. none \in [1 .. 0 -> Markets] /\ 0 \in 0 .. CandidateLimit
    BY UniverseAssumption
  <2>2. none \in SeqOf(Markets, CandidateLimit)
    BY <2>1 DEF SeqOf
  <2> QED BY <1>1, <2>2 DEF Listings, IsInjective
<1> HIDE DEF none
<1>3. ASSUME NEW kept \in SUBSET DOMAIN none
      PROVE  ToSet(Those(none, kept)) = {} /\ Those(none, kept) \in Seq(Markets)
             /\ Len(Those(none, kept)) = 0
  <2>1. /\ Those(none, kept) \in Seq(Markets) /\ Len(Those(none, kept)) =< Len(none)
        /\ Len(Those(none, kept)) \in Nat
    BY <1>1, Filtered
  <2>2. Len(Those(none, kept)) = 0
    BY <1>1, <2>1
  <2>3. DOMAIN Those(none, kept) = {}
    BY <2>1, <2>2, LenProperties
  <2> QED BY <2>1, <2>2, <2>3 DEF ToSet
<1>4. ASSUME NEW s \in Seq(Markets), Len(s) = 0 PROVE s = none
  BY <1>4, EmptySeq DEF none
<1>5. TopMarkets(none) = none /\ ToSet(none) = {}
  <2>1. {i \in DOMAIN none : ParseTokenIds(none[i]) # <<>>} \in SUBSET DOMAIN none
    OBVIOUS
  <2> QED BY <1>1, <1>3, <1>4, <2>1 DEF TopMarkets, ToSet
<1>6. Candidates(none) = none
  <2>1. {i \in DOMAIN none : Horizon > 0 => OutsideHorizon(none[i])} \in SUBSET DOMAIN none
    OBVIOUS
  <2> QED BY <1>3, <1>4, <1>5, <2>1 DEF Candidates
<1>7. ~ Refines(none)
  BY <1>1, <1>6, UniverseAssumption DEF Refines
<1>8. Select(none) = none
  <2>1. Keep(none) \in Seq(Markets) /\ Len(Keep(none)) \in Nat /\ Len(Keep(none)) =< Len(none)
    BY <1>1, Kept
  <2>2. Len(Keep(none)) = 0
    BY <1>1, <2>1
  <2> QED BY <1>4, <1>6, <1>7, <2>1, <2>2 DEF Select
<1>9. ~ SelectRaises(none)
  BY <1>5, <1>7 DEF SelectRaises
<1> QED BY <1>2, <1>8, <1>9 DEF none

LEMMA UInvHolds == USpec => []UInv
<1>1. UInit => UInv
  BY NothingListed DEF UInit, UInv
<1>2. UInv /\ [Refresh]_uvars => UInv'
  <2> SUFFICES ASSUME UInv, [Refresh]_uvars PROVE UInv'
    OBVIOUS
  <2>1. ASSUME Refresh PROVE UInv'
    BY <2>1 DEF Refresh, UInv
  <2>2. ASSUME UNCHANGED uvars PROVE UInv'
    BY <2>2 DEF UInv, uvars
  <2> QED BY <2>1, <2>2
<1> QED BY <1>1, <1>2, PTL DEF USpec

\* Whatever Gamma lists, select() returns at most target_size of its markets, each
\* once, with token ids and outside the horizon.
THEOREM SelectionType == USpec => []UTypeOK
<1>1. UInv => UTypeOK
  <2> SUFFICES ASSUME UInv PROVE UTypeOK
    OBVIOUS
  <2>1. /\ chosen \in Seq(Markets) /\ Len(chosen) =< TargetSize /\ IsInjective(chosen)
        /\ \A m \in ToSet(chosen) : Eligible(listing, m)
    BY SelectKeepsBest DEF UInv
  <2>2. chosen \in SeqOf(Markets, TargetSize)
    <3>1. chosen \in [1 .. Len(chosen) -> Markets] /\ Len(chosen) \in 0 .. TargetSize
      BY <2>1, LenProperties, UniverseAssumption
    <3> QED BY <3>1 DEF SeqOf
  <2> QED BY <2>1, <2>2 DEF UTypeOK, UInv, Eligible
<1> QED BY UInvHolds, <1>1, PTL

\* The score prefers the tighter of two books that differ in nothing else, however
\* the CLOB orders their levels and however many candidates there are.
THEOREM TighterPreferred == USpec => []TighterFirst
<1>1. UInv => TighterFirst
  <2> SUFFICES ASSUME UInv, RefineByDepth,
                      NEW m \in ToSet(Candidates(listing)) \ ToSet(chosen),
                      NEW n \in ToSet(chosen),
                      TwoSided(m.book), TwoSided(n.book), m.volume = n.volume, m.volume > 0,
                      TopDepth(m.book) = TopDepth(n.book)
               PROVE  AtLeastOne(TightSpread(m.book)) >= AtLeastOne(TightSpread(n.book))
    BY DEF TighterFirst
  <2>1. /\ m \in Markets /\ n \in Markets /\ m.book # NoJson /\ n.book # NoJson
        /\ ~ Above(Score(m), Score(n))
    BY SelectKeepsBest DEF UInv
  <2>2. m.book \in Books /\ n.book \in Books
    BY <2>1, ScoreType
  <2>3. /\ TightSpread(m.book) = Spread(m.book) /\ Spread(m.book) \in Int
        /\ TightSpread(n.book) = Spread(n.book) /\ Spread(n.book) \in Int
        /\ TopDepth(m.book) \in Nat
    BY <2>2, BookType
  <2> DEFINE v == Square(m.volume) * AtLeastOne(TopDepth(m.book))
             a == AtLeastOne(Spread(m.book))
             b == AtLeastOne(Spread(n.book))
  <2>4. v \in Nat \ {0}
    <3>1. m.volume \in Nat \ {0}
      BY <2>1, UniverseAssumption
    <3>2. Square(m.volume) \in Nat \ {0} /\ AtLeastOne(TopDepth(m.book)) \in Nat \ {0}
      BY <2>3, <3>1, SquareType DEF AtLeastOne
    <3> QED BY <3>2
  <2>5. a \in Nat \ {0} /\ b \in Nat \ {0}
    BY <2>3 DEF AtLeastOne
  <2>6. Score(m) = <<v, Square(Square(a))>> /\ Score(n) = <<v, Square(Square(b))>>
    BY DEF Score
  <2> HIDE DEF v, a, b
  <2>7. Square(Square(b)) \in Nat /\ Square(Square(a)) \in Nat
    BY <2>5, SquareType
  <2>8. Square(Square(b)) =< Square(Square(a))
    <3>1. ~ (v * Square(Square(b)) > v * Square(Square(a)))
      BY <2>1, <2>6 DEF Above
    <3>2. v * Square(Square(b)) \in Int /\ v * Square(Square(a)) \in Int
      BY <2>4, <2>7
    <3>3. Square(Square(b)) * v =< Square(Square(a)) * v
      BY <2>4, <2>7, <3>1, <3>2
    <3> QED BY <2>4, <2>7, <3>3, Cancel
  <2>9. ~ (a < b)
    <3> SUFFICES ASSUME a < b PROVE FALSE
      OBVIOUS
    <3>1. Square(a) < Square(b) /\ Square(a) \in Nat /\ Square(b) \in Nat
      BY <2>5, SquareType
    <3>2. Square(Square(a)) < Square(Square(b))
      BY <3>1, SquareType
    <3> QED BY <2>7, <2>8, <3>2
  <2> QED BY <2>3, <2>5, <2>9 DEF a, b
<1> QED BY UInvHolds, <1>1, PTL

\* As long as prices and volumes keep the fallback score below any other one, a
\* market that nobody can trade does not take the place of one that can be traded.
THEOREM UntradeableLeftOut == USpec => []UntradeableLast
<1>1. UInv => UntradeableLast
  <2> SUFFICES ASSUME UInv, RefineByDepth,
                      NEW m \in ToSet(Candidates(listing)) \ ToSet(chosen),
                      NEW n \in ToSet(chosen),
                      TwoSided(m.book), m.volume > 0, ~ TwoSided(n.book)
               PROVE  FALSE
    BY DEF UntradeableLast
  <2>1. /\ m \in Markets /\ n \in Markets /\ m.book # NoJson
        /\ ~ Above(Score(m), Score(n))
    BY SelectKeepsBest DEF UInv
  <2>2. m.book \in Books
    BY <2>1, ScoreType
  <2>3. Spread(m.book) \in Int /\ Spread(m.book) =< MaxPrice /\ TopDepth(m.book) \in Nat
    BY <2>2, BookType
  <2> DEFINE v == Square(m.volume) * AtLeastOne(TopDepth(m.book))
             a == AtLeastOne(Spread(m.book))
             w == Square(n.volume)
             p == Square(Square(MaxPrice))
             q == Square(Square(a))
             u == Square(MaxVolume)
  <2>4. v \in Nat \ {0}
    <3>1. m.volume \in Nat \ {0}
      BY <2>1, UniverseAssumption
    <3>2. Square(m.volume) \in Nat \ {0} /\ AtLeastOne(TopDepth(m.book)) \in Nat \ {0}
      BY <2>3, <3>1, SquareType DEF AtLeastOne
    <3> QED BY <3>2
  <2>5. a \in Nat /\ a =< MaxPrice /\ MaxPrice \in Nat
    BY <2>3, UniverseAssumption DEF AtLeastOne
  <2>6. q \in Nat /\ p \in Nat /\ q =< p
    <3>1. Square(a) \in Nat /\ Square(MaxPrice) \in Nat /\ Square(a) =< Square(MaxPrice)
      BY <2>5, SquareType
    <3> QED BY <3>1, SquareType
  <2>7. w \in Nat /\ u \in Nat /\ w =< u
    <3>1. n.volume \in Nat /\ MaxVolume \in Nat /\ n.volume =< MaxVolume
      BY <2>1, UniverseAssumption
    <3> QED BY <3>1, SquareType
  <2>8. Unbooked \in Nat /\ u * p < Unbooked
    BY UnbookedIsFar, UniverseAssumption
  <2>9. Score(m) = <<v, q>> /\ Score(n) = <<w, Unbooked>>
    BY DEF Score
  <2> HIDE DEF v, a, w, p, q, u
  <2>10. ~ (v * Unbooked > w * q)
    BY <2>1, <2>9 DEF Above
  <2>11. w * q =< u * p
    <3>1. w * q =< u * q /\ u * q =< u * p
      BY <2>6, <2>7
    <3>2. w * q \in Nat /\ u * q \in Nat /\ u * p \in Nat
      BY <2>6, <2>7
    <3> QED BY <3>1, <3>2
  <2>12. Unbooked =< v * Unbooked
    BY <2>4, <2>8
  <2>13. w * q \in Nat /\ u * p \in Nat /\ v * Unbooked \in Nat
    BY <2>4, <2>6, <2>7, <2>8
  <2> QED BY <2>8, <2>10, <2>11, <2>12, <2>13
<1> QED BY UInvHolds, <1>1, PTL
=============================================================================
