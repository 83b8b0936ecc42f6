-------------------------- MODULE TaskHistoryProofs --------------------------
(***************************************************************************)
(* TLAPS proofs about TaskHistory, for any number of sessions and entries  *)
(* and any size of a page: what a history answer holds, in which order,    *)
(* what the page makes of it, and what a deletion leaves behind.           *)
(***************************************************************************)
EXTENDS TaskHistory, FiniteSetTheorems, SequenceTheorems, TLAPS

-----------------------------------------------------------------------------
(* Counting along a strict total order: the argument of sort.Strings, in   *)
(* which a key's place is the number of the keys before it.                *)

Below(S, R, e) == {d \in S : <<d, e>> \in R}

IsStrictTotal(S, R) ==
    /\ \A a \in S : <<a, a>> \notin R
    /\ \A a, b, c \in S : <<a, b>> \in R /\ <<b, c>> \in R => <<a, c>> \in R
    /\ \A a, b \in S : a = b \/ <<a, b>> \in R \/ <<b, a>> \in R

\* Counting is defined, and what comes later has more before it.
LEMMA CountIsMonotone ==
    ASSUME NEW S, IsFiniteSet(S), NEW R, IsStrictTotal(S, R)
    PROVE  /\ \A e \in S : Cardinality(Below(S, R, e)) \in 0..(Cardinality(S) - 1)
           /\ \A d, e \in S : <<d, e>> \in R =>
                Cardinality(Below(S, R, d)) < Cardinality(Below(S, R, e))
<1>1. \A e \in S : IsFiniteSet(Below(S, R, e)) /\ Cardinality(Below(S, R, e)) \in Nat
  <2>1. \A e \in S : Below(S, R, e) \in SUBSET S
    BY DEF Below
  <2>. QED BY <2>1, FS_Subset, FS_CardinalityType
<1>2. Cardinality(S) \in Nat
  BY FS_CardinalityType
<1>3. ASSUME NEW e \in S
      PROVE  Cardinality(Below(S, R, e)) < Cardinality(S)
  <2>1. Below(S, R, e) \in SUBSET S /\ Below(S, R, e) # S
    BY DEF Below, IsStrictTotal
  <2>. QED BY <1>1, <1>2, <2>1, FS_Subset
<1>4. ASSUME NEW d \in S, NEW e \in S, <<d, e>> \in R
      PROVE  Cardinality(Below(S, R, d)) < Cardinality(Below(S, R, e))
  <2>1. Below(S, R, d) \in SUBSET Below(S, R, e) /\ d \in Below(S, R, e)
    BY <1>4 DEF Below, IsStrictTotal
  <2>2. d \notin Below(S, R, d)
    BY DEF Below, IsStrictTotal
  <2>. QED BY <1>1, <2>1, <2>2, FS_Subset
<1>. QED BY <1>1, <1>2, <1>3, <1>4

\* Every place is taken, by exactly one.
LEMMA CountIsBijective ==
    ASSUME NEW S, IsFiniteSet(S), NEW R, IsStrictTotal(S, R),
           NEW n \in 0..(Cardinality(S) - 1)
    PROVE  \E e \in S : /\ Cardinality(Below(S, R, e)) = n
                        /\ \A d \in S : Cardinality(Below(S, R, d)) = n => d = e
<1>. DEFINE count == [e \in S |-> Cardinality(Below(S, R, e))]
            T == 0..(Cardinality(S) - 1)
<1>1. Cardinality(S) \in Nat
  BY FS_CardinalityType
<1>2. count \in [S -> T]
  BY CountIsMonotone
<1>3. ASSUME NEW d \in S, NEW e \in S, count[d] = count[e]
      PROVE  d = e
  <2>1. count[d] \in Int /\ count[e] \in Int
    BY <1>1, <1>2
  <2>2. ~(<<d, e>> \in R) /\ ~(<<e, d>> \in R)
    BY <1>3, <2>1, CountIsMonotone
  <2>. QED BY <2>2, Zenon DEF IsStrictTotal
<1>4. IsFiniteSet(T) /\ Cardinality(T) = Cardinality(S)
  BY <1>1, FS_Interval
<1>5. count \in Injection(S, T)
  BY <1>2, <1>3 DEF Injection, IsInjective
<1>6. count \in Surjection(S, T)
  <2>. HIDE DEF count, T
  <2>. QED BY <1>4, <1>5, FS_Injection
<1>7. PICK e \in S : count[e] = n
  <2>1. n \in T
    OBVIOUS
  <2>. HIDE DEF count, T
  <2>. QED BY <1>6, <2>1, Zenon DEF Surjection
<1>. QED BY <1>3, <1>7

\* The first place among them is taken when there is anything at all.
LEMMA FirstIsTaken ==
    ASSUME NEW S, IsFiniteSet(S), S # {}, NEW R, IsStrictTotal(S, R)
    PROVE  \E e \in S : Cardinality(Below(S, R, e)) = 0
<1>. DEFINE n == 0
<1>1. Cardinality(S) \in Nat /\ Cardinality(S) # 0
  BY FS_CardinalityType, FS_EmptySet
<1>2. n \in 0..(Cardinality(S) - 1)
  BY <1>1
<1>3. n = 0
  OBVIOUS
<1>. HIDE DEF n
<1>4. \E e \in S : /\ Cardinality(Below(S, R, e)) = n
                   /\ \A d \in S : Cardinality(Below(S, R, d)) = n => d = e
  BY <1>2, CountIsBijective
<1>. QED BY <1>3, <1>4

-----------------------------------------------------------------------------
(* The order of the keys                                                   *)

SortsOn(S) == {p \in S \X S : Sorts(p[1], p[2])}

LEMMA EntryFields ==
    ASSUME entries \in Seq(Entry), NEW e \in Ids
    PROVE  /\ entries[e] \in Entry /\ e \in Nat
           /\ entries[e].kind \in Kinds /\ entries[e].parent \in Nat
           /\ entries[e].session \in Sessions /\ entries[e].session \in Nat
           /\ entries[e].agent \in Sessions
<1>1. entries[e] \in Entry /\ e \in Nat
  BY ElementOfSeq DEF Ids
<1>2. /\ entries[e].kind \in Kinds /\ entries[e].parent \in Nat
      /\ entries[e].session \in Sessions /\ entries[e].agent \in Sessions
  BY <1>1 DEF Entry
<1>. QED BY <1>1, <1>2, HistoryAssumption

\* Session and number order any entries totally.
LEMMA SortsIsStrictTotal ==
    ASSUME TypeOK, NEW S \in SUBSET Ids
    PROVE  IsFiniteSet(S) /\ IsStrictTotal(S, SortsOn(S))
<1>1. Len(entries) \in Nat /\ IsFiniteSet(Ids)
  BY FS_Interval DEF TypeOK, Ids
<1>2. IsFiniteSet(S)
  BY <1>1, FS_Subset
<1>3. \A e \in S : e \in Int /\ entries[e].session \in Int
  BY <1>1, EntryFields DEF Ids, TypeOK
<1>4. \A d, e \in S : <<d, e>> \in SortsOn(S) <=> Sorts(d, e)
  BY DEF SortsOn
<1>5. \A a \in S : ~Sorts(a, a)
  BY <1>3 DEF Sorts
<1>6. \A a, b, c \in S : Sorts(a, b) /\ Sorts(b, c) => Sorts(a, c)
  BY <1>3 DEF Sorts
<1>7. \A a, b \in S : a = b \/ Sorts(a, b) \/ Sorts(b, a)
  BY <1>3 DEF Sorts
<1>8. IsStrictTotal(S, SortsOn(S))
  <2>. HIDE DEF SortsOn
  <2>. QED BY <1>4, <1>5, <1>6, <1>7, Zenon DEF IsStrictTotal
<1>. QED BY <1>2, <1>8

LEMMA RankIsCount ==
    ASSUME NEW S, NEW e \in S
    PROVE  Rank(S, e) = Cardinality(Below(S, SortsOn(S), e))
<1>1. \A d \in S : <<d, e>> \in SortsOn(S) <=> Sorts(d, e)
  BY DEF SortsOn
<1>2. {d \in S : Sorts(d, e)} = Below(S, SortsOn(S), e)
  BY <1>1, Zenon DEF Below
<1>. QED BY <1>2 DEF Rank

\* A key's rank is a number, and grows along the order of the keys.
LEMMA RankIsMonotone ==
    ASSUME TypeOK, NEW S \in SUBSET Ids
    PROVE  /\ \A e \in S : Rank(S, e) \in Nat
           /\ \A d, e \in S : Sorts(d, e) => Rank(S, d) < Rank(S, e)
<1>1. IsFiniteSet(S) /\ IsStrictTotal(S, SortsOn(S)) /\ Cardinality(S) \in Nat
  BY SortsIsStrictTotal, FS_CardinalityType
<1>2. \A e \in S : Cardinality(Below(S, SortsOn(S), e)) \in 0..(Cardinality(S) - 1)
  BY <1>1, CountIsMonotone
<1>3. \A d, e \in S : <<d, e>> \in SortsOn(S) =>
        Cardinality(Below(S, SortsOn(S), d)) < Cardinality(Below(S, SortsOn(S), e))
  BY <1>1, CountIsMonotone
<1>4. \A d, e \in S : Sorts(d, e) => <<d, e>> \in SortsOn(S)
  BY DEF SortsOn
<1>5. \A e \in S : Rank(S, e) = Cardinality(Below(S, SortsOn(S), e))
  BY RankIsCount
<1>6. \A e \in S : Rank(S, e) \in Nat
  BY <1>1, <1>2, <1>5
<1>7. ASSUME NEW d \in S, NEW e \in S, Sorts(d, e)
      PROVE  Rank(S, d) < Rank(S, e)
  BY <1>3, <1>4, <1>5, <1>7
<1>. QED BY <1>6, <1>7

\* sort.Strings gives every key once, in order.
LEMMA SortedProperties ==
    ASSUME TypeOK, NEW S \in SUBSET Ids
    PROVE  /\ Sorted(S) \in [1..Cardinality(S) -> S]
           /\ Range(Sorted(S)) = S
           /\ \A i, j \in 1..Cardinality(S) : i < j => Sorts(Sorted(S)[i], Sorted(S)[j])
<1>. DEFINE N == Cardinality(S)
<1>1. IsFiniteSet(S) /\ IsStrictTotal(S, SortsOn(S)) /\ N \in Nat
  BY SortsIsStrictTotal, FS_CardinalityType
<1>2. \A e \in S : Rank(S, e) \in 0..(N - 1)
  BY <1>1, CountIsMonotone, RankIsCount
<1>3. ASSUME NEW i \in 1..N
      PROVE  /\ Sorted(S)[i] \in S /\ Rank(S, Sorted(S)[i]) = i - 1
             /\ \A d \in S : Rank(S, d) = i - 1 => d = Sorted(S)[i]
  <2>1. i - 1 \in 0..(N - 1)
    BY <1>1
  <2>2. \E e \in S : /\ Cardinality(Below(S, SortsOn(S), e)) = i - 1
                     /\ \A d \in S : Cardinality(Below(S, SortsOn(S), d)) = i - 1 => d = e
    BY <1>1, <2>1, CountIsBijective
  <2>3. \E e \in S : Rank(S, e) = i - 1 /\ \A d \in S : Rank(S, d) = i - 1 => d = e
    BY <2>2, RankIsCount
  <2>4. Sorted(S)[i] = CHOOSE e \in S : Rank(S, e) = i - 1
    BY DEF Sorted
  <2>. QED BY <2>3, <2>4
<1>4. Sorted(S) \in [1..N -> S]
  BY <1>3 DEF Sorted
<1>5. Range(Sorted(S)) = S
  <2>1. ASSUME NEW e \in S
        PROVE  \E i \in 1..N : Sorted(S)[i] = e
    <3>1. Rank(S, e) + 1 \in 1..N /\ (Rank(S, e) + 1) - 1 = Rank(S, e)
      BY <1>1, <1>2
    <3>. QED BY <1>3, <3>1
  <2>. QED BY <1>4, <2>1 DEF Range
<1>6. ASSUME NEW i \in 1..N, NEW j \in 1..N, i < j
      PROVE  Sorts(Sorted(S)[i], Sorted(S)[j])
  <2>. DEFINE d == Sorted(S)[i]  e == Sorted(S)[j]
  <2>1. d \in S /\ e \in S /\ Rank(S, d) < Rank(S, e)
    BY <1>1, <1>3, <1>6
  <2>2. Rank(S, d) \in Nat /\ Rank(S, e) \in Nat
    BY <2>1, RankIsMonotone
  <2>3. d # e /\ ~Sorts(e, d)
    BY <2>1, <2>2, RankIsMonotone
  <2>4. d = e \/ Sorts(d, e) \/ Sorts(e, d)
    BY <1>1, <2>1 DEF IsStrictTotal, SortsOn
  <2>. QED BY <2>3, <2>4
<1>. QED BY <1>4, <1>5, <1>6

-----------------------------------------------------------------------------
(* Choosing from a sequence without changing its order                     *)

LessOn(S) == {p \in S \X S : p[1] < p[2]}

\* s grows from each place to the next.
Ascends(s) == \A i, j \in DOMAIN s : i < j => s[i] < s[j]

LEMMA LessIsStrictTotal ==
    ASSUME NEW N \in Nat, NEW S \in SUBSET (0..N)
    PROVE  /\ IsFiniteSet(S) /\ Cardinality(S) \in Nat /\ IsStrictTotal(S, LessOn(S))
           /\ \A e \in S : {d \in S : d < e} = Below(S, LessOn(S), e)
<1>1. IsFiniteSet(S) /\ Cardinality(S) \in Nat
  <2>1. IsFiniteSet(0..N)
    BY FS_Interval
  <2>. QED BY <2>1, FS_Subset, FS_CardinalityType
<1>2. \A d, e \in S : <<d, e>> \in LessOn(S) <=> d < e
  BY DEF LessOn
<1>3. /\ \A a \in S : ~(a < a)
      /\ \A a, b, c \in S : a < b /\ b < c => a < c
      /\ \A a, b \in S : a = b \/ a < b \/ b < a
  OBVIOUS
<1>4. IsStrictTotal(S, LessOn(S))
  BY <1>2, <1>3, Zenon DEF IsStrictTotal
<1>5. \A e \in S : {d \in S : d < e} = Below(S, LessOn(S), e)
  BY <1>2, Zenon DEF Below
<1>. QED BY <1>1, <1>4, <1>5

\* Where the members of S stand in s.
PlacesOf(s, S) == {i \in DOMAIN s : s[i] \in S}

\* Kept reads s at those places, in ascending order.
LEMMA KeptPlaces ==
    ASSUME NEW A, NEW s \in Seq(A), NEW S
    PROVE  /\ Cardinality(PlacesOf(s, S)) \in Nat /\ PlacesOf(s, S) \subseteq 1..Len(s)
           /\ \E p \in [1..Cardinality(PlacesOf(s, S)) -> PlacesOf(s, S)] :
                /\ Ascends(p) /\ Range(p) = PlacesOf(s, S)
                /\ Kept(s, S) = [n \in 1..Cardinality(PlacesOf(s, S)) |-> s[p[n]]]
<1>. DEFINE at == PlacesOf(s, S)
            N == Cardinality(at)
            Place(n) == CHOOSE i \in at : Cardinality({j \in at : j < i}) = n - 1
            p == [n \in 1..N |-> Place(n)]
            Count(i) == Cardinality({j \in at : j < i})
<1>1. /\ at \in SUBSET (1..Len(s)) /\ at \in SUBSET (0..Len(s))
      /\ Len(s) \in Nat /\ \A i \in at : i \in Int
  BY DEF PlacesOf
<1>2. /\ IsFiniteSet(at) /\ N \in Nat /\ IsStrictTotal(at, LessOn(at))
      /\ \A i \in at : {j \in at : j < i} = Below(at, LessOn(at), i)
  BY <1>1, LessIsStrictTotal
<1>3. \A i \in at : Count(i) = Cardinality(Below(at, LessOn(at), i))
  BY <1>2
<1>4. Kept(s, S) = [n \in 1..N |-> s[p[n]]]
  BY DEF Kept, PlacesOf
<1>. HIDE DEF at, Count
<1>5. \A i \in at : Count(i) \in 0..(N - 1)
  BY <1>2, <1>3, CountIsMonotone
<1>6. ASSUME NEW i \in at, NEW j \in at, i < j
      PROVE  Count(i) < Count(j)
  <2>1. <<i, j>> \in LessOn(at)
    BY <1>6 DEF LessOn
  <2>2. Cardinality(Below(at, LessOn(at), i)) < Cardinality(Below(at, LessOn(at), j))
    BY <1>2, <2>1, CountIsMonotone
  <2>. QED BY <1>3, <2>2
<1>7. ASSUME NEW n \in 1..N
      PROVE  /\ p[n] \in at /\ Count(p[n]) = n - 1
             /\ \A i \in at : Count(i) = n - 1 => i = p[n]
  <2>1. n - 1 \in 0..(N - 1)
    BY <1>2
  <2>2. \E i \in at : /\ Cardinality(Below(at, LessOn(at), i)) = n - 1
                      /\ \A j \in at : Cardinality(Below(at, LessOn(at), j)) = n - 1 => j = i
    BY <1>2, <2>1, CountIsBijective
  <2>3. \E i \in at : Count(i) = n - 1 /\ \A j \in at : Count(j) = n - 1 => j = i
    BY <1>3, <2>2
  <2>4. p[n] = CHOOSE i \in at : Count(i) = n - 1
    BY DEF Count
  <2>. QED BY <2>3, <2>4
<1>8. p \in [1..N -> at]
  BY <1>7
<1>. HIDE DEF p
<1>9. Range(p) = at
  <2>1. ASSUME NEW i \in at
        PROVE  \E n \in 1..N : p[n] = i
    <3>1. Count(i) + 1 \in 1..N /\ (Count(i) + 1) - 1 = Count(i)
      BY <1>2, <1>5
    <3>. QED BY <1>7, <3>1
  <2>. QED BY <1>8, <2>1 DEF Range
<1>10. ASSUME NEW m \in 1..N, NEW n \in 1..N, m < n
       PROVE  p[m] < p[n]
  <2>1. p[m] \in at /\ p[n] \in at /\ Count(p[m]) < Count(p[n])
    BY <1>2, <1>7, <1>10
  <2>2. p[m] \in Int /\ p[n] \in Int
    BY <1>1, <2>1
  <2>3. Count(p[m]) \in 0..(N - 1) /\ Count(p[n]) \in 0..(N - 1)
    BY <1>5, <2>1
  <2>4. p[m] # p[n] /\ ~(p[n] < p[m])
    BY <1>2, <1>6, <2>1, <2>3
  <2>. QED BY <2>2, <2>4
<1>11. Ascends(p)
  BY <1>8, <1>10 DEF Ascends
<1>. QED BY <1>1, <1>2, <1>4, <1>8, <1>9, <1>11 DEF at

\* Kept drops what is not in S, keeps the rest, and what comes earlier in it
\* came earlier in s.
LEMMA KeptProperties ==
    ASSUME NEW A, NEW s \in Seq(A), NEW S
    PROVE  /\ Kept(s, S) \in Seq(A)
           /\ Range(Kept(s, S)) = Range(s) \cap S
           /\ \A i, j \in DOMAIN Kept(s, S) : i < j =>
                \E k, l \in DOMAIN s : k < l /\ Kept(s, S)[i] = s[k] /\ Kept(s, S)[j] = s[l]
<1>. DEFINE at == PlacesOf(s, S)
            N == Cardinality(at)
            t == Kept(s, S)
<1>1. PICK p \in [1..N -> at] :
        Ascends(p) /\ Range(p) = at /\ t = [n \in 1..N |-> s[p[n]]]
  BY KeptPlaces
<1>2. DOMAIN t = 1..N /\ N \in Nat /\ at \subseteq 1..Len(s)
  BY <1>1, KeptPlaces
<1>. HIDE DEF t, N
<1>3. \A n \in 1..N : /\ p[n] \in 1..Len(s) /\ p[n] \in DOMAIN s
                      /\ s[p[n]] \in S /\ t[n] = s[p[n]]
  BY <1>1, <1>2 DEF PlacesOf
<1>4. \A k \in 1..Len(s) : s[k] \in A
  OBVIOUS
<1>5. t \in Seq(A)
  <2>1. t \in [1..N -> A]
    BY <1>1, <1>3, <1>4
  <2>. QED BY <1>2, <2>1, IsASeq
<1>6. Range(t) = Range(s) \cap S
  <2>1. \A n \in 1..N : t[n] \in Range(s) \cap S
    BY <1>3 DEF Range
  <2>2. ASSUME NEW x \in Range(s) \cap S
        PROVE  \E n \in 1..N : t[n] = x
    <3>1. PICK k \in DOMAIN s : s[k] = x
      BY DEF Range
    <3>2. k \in Range(p)
      BY <1>1, <3>1 DEF PlacesOf
    <3>3. PICK n \in 1..N : p[n] = k
      BY <1>1, <3>2 DEF Range
    <3>. QED BY <1>3, <3>1, <3>3
  <2>. QED BY <1>2, <2>1, <2>2 DEF Range
<1>7. ASSUME NEW i \in DOMAIN t, NEW j \in DOMAIN t, i < j
      PROVE  \E k, l \in DOMAIN s : k < l /\ t[i] = s[k] /\ t[j] = s[l]
  <2>1. i \in 1..N /\ j \in 1..N
    BY <1>2
  <2>2. p[i] < p[j]
    <3>1. DOMAIN p = 1..N
      BY <1>1
    <3>. QED BY <1>1, <1>7, <2>1, <3>1 DEF Ascends
  <2>. QED BY <1>3, <2>1, <2>2
<1>. QED BY <1>5, <1>6, <1>7 DEF t

-----------------------------------------------------------------------------
(* Pages                                                                   *)

\* A page is the first part of what is left: what it leaves sorts behind it.
LEMMA PageIsFirst ==
    ASSUME TypeOK, NEW K, NEW e \in Page(K), NEW d \in Rest(K) \ Page(K)
    PROVE  Sorts(e, d)
<1>1. Rest(K) \in SUBSET Ids /\ e \in Rest(K) /\ d \in Rest(K)
  BY DEF Rest, Page, TypeOK
<1>2. Rank(Rest(K), e) < PageSize /\ ~(Rank(Rest(K), d) < PageSize)
  BY <1>1 DEF Page
<1>3. Rank(Rest(K), e) \in Nat /\ Rank(Rest(K), d) \in Nat
  BY <1>1, RankIsMonotone
<1>4. PageSize \in Nat
  BY HistoryAssumption
<1>5. Sorts(d, e) => Rank(Rest(K), d) < Rank(Rest(K), e)
  BY <1>1, RankIsMonotone
<1>6. d # e /\ ~Sorts(d, e)
  BY <1>2, <1>3, <1>4, <1>5
<1>. QED
  BY <1>1, <1>6, SortsIsStrictTotal DEF IsStrictTotal, SortsOn

\* A listing never skips a key: what sorts before a page it has given already.
LEMMA ListingIsComplete ==
    ASSUME TypeOK, NEW K \in SUBSET Ids, NEW d \in K \cup Rest(K)
    PROVE  d \in K \cup Page(K) \/ d \in Rest(K \cup Page(K))
<1>1. SUFFICES ASSUME d \in Rest(K) \ Page(K)
               PROVE  d \in Rest(K \cup Page(K))
  BY DEF Page
<1>2. d \in stored /\ \A k \in K : Sorts(k, d)
  BY <1>1 DEF Rest
<1>3. \A k \in Page(K) : Sorts(k, d)
  BY <1>1, PageIsFirst
<1>. QED BY <1>2, <1>3 DEF Rest

-----------------------------------------------------------------------------
(* The inductive invariant                                                 *)

\* Transcripts: an entry is its agent's own or a conversation's, and follows one of
\* its session.
EntriesInv ==
    \A e \in Ids :
      /\ entries[e].session \in Mains <=> entries[e].kind \notin SideKinds
      /\ entries[e].kind \in SideKinds => entries[e].agent = entries[e].session
      /\ entries[e].parent # 0 => entries[entries[e].parent].session = entries[e].session

\* Nothing is removed before the row is; what was stored when the deletion began is
\* listed, or lies ahead of the listing, or is gone.
DeleteInv ==
    /\ row <=> dpc = "no"
    /\ row => stored = Ids
    /\ dpc \in {"no", "sandbox"} => dkeys = {}
    /\ dpc = "list" => dbefore \subseteq dkeys \cup Rest(dkeys)
    /\ dpc = "delete" => dbefore \cap stored \subseteq dkeys
    /\ DeletedIsGone

\* While the row is there: what was stored at the start is a beginning of all that
\* was written, the listed keys are one of each session, and of what was stored at
\* the start all is listed or lies ahead.
ListingInv ==
    /\ \A e \in before, d \in Ids : d < e => d \in before
    /\ \A e \in keys, d \in Ids :
         d < e /\ entries[d].session = entries[e].session => d \in keys
    /\ pc = "list" => before \subseteq keys \cup Rest(keys)
    /\ pc # "list" => before \subseteq keys

ReadInv ==
    /\ pc = "list" => got = <<>>
    /\ pc = "done" => Range(got) = keys
    /\ row /\ pc \in {"list", "fetch", "done"} => ListingInv

HistoryInv == TypeOK /\ EntriesInv /\ DeleteInv /\ ReadInv

\* A set of entries has an oldest member.
LEMMA HasMin ==
    ASSUME NEW N \in Nat, NEW S \in SUBSET (0..N), S # {}
    PROVE  \E e \in S : \A y \in S : e <= y
<1>1. IsFiniteSet(S) /\ Cardinality(S) \in Nat /\ IsStrictTotal(S, LessOn(S))
  BY LessIsStrictTotal
<1>2. PICK e \in S : Cardinality(Below(S, LessOn(S), e)) = 0
  BY <1>1, FirstIsTaken
<1>. DEFINE Count(y) == Cardinality(Below(S, LessOn(S), y))
<1>3. ASSUME NEW y \in S
      PROVE  e <= y
  <2>1. y \in Int /\ e \in Int
    OBVIOUS
  <2>2. SUFFICES ASSUME y < e PROVE FALSE
    BY <2>1
  <2>3. <<y, e>> \in LessOn(S)
    BY <2>2 DEF LessOn
  <2>4. Count(y) < Count(e) /\ Count(y) \in 0..(Cardinality(S) - 1)
    BY <1>1, <2>3, CountIsMonotone
  <2>. QED BY <1>1, <1>2, <2>4
<1>. QED BY <1>3

-----------------------------------------------------------------------------
(* The agent server writes                                                 *)

\* An entry that may be written next.
IsNext(x) ==
    /\ x \in Entry /\ x.parent \in Parents(x.session)
    /\ x.session \in Mains <=> x.kind \notin SideKinds
    /\ x.kind \in SideKinds => x.agent = x.session

\* What a write changes, and that it changes nothing that was there.
LEMMA WriteAppends ==
    ASSUME entries \in Seq(Entry), NEW x \in Entry, Write(x)
    PROVE  /\ Len(entries) \in Nat /\ entries' \in Seq(Entry)
           /\ Len(entries') = Len(entries) + 1
           /\ Ids' = Ids \cup {Len(entries) + 1}
           /\ \A d \in Ids : entries'[d] = entries[d] /\ d < Len(entries) + 1 /\ d \in Nat
           /\ entries'[Len(entries) + 1] = x
           /\ stored' = stored \cup {Len(entries) + 1}
           /\ \A d, e \in Ids : Sorts(d, e)' <=> Sorts(d, e)
<1>1. entries' = Append(entries, x) /\ Len(entries) \in Nat
  BY DEF Write
<1>2. /\ entries' \in Seq(Entry) /\ Len(entries') = Len(entries) + 1
      /\ entries'[Len(entries) + 1] = x
      /\ \A d \in 1..Len(entries) : entries'[d] = entries[d]
  BY <1>1, AppendProperties
<1>3. Ids' = Ids \cup {Len(entries) + 1}
  BY <1>1, <1>2 DEF Ids
<1>4. \A d \in Ids : entries'[d] = entries[d] /\ d < Len(entries) + 1 /\ d \in Nat
  BY <1>1, <1>2 DEF Ids
<1>5. stored' = stored \cup {Len(entries) + 1}
  BY <1>2 DEF Write
<1>6. \A d, e \in Ids : Sorts(d, e)' <=> Sorts(d, e)
  BY <1>4 DEF Sorts
<1>. QED BY <1>1, <1>2, <1>3, <1>4, <1>5, <1>6

LEMMA WriteType ==
    ASSUME TypeOK, NEW x, IsNext(x), Write(x)
    PROVE  TypeOK'
<1>1. x \in Entry /\ x.parent \in Nat /\ x.parent < Len(entries) + 1
  <2>1. Len(entries) \in Nat /\ x.parent \in {0} \cup (1..Len(entries))
    BY DEF IsNext, TypeOK, Parents, SessionIds, Ids
  <2>. QED BY <2>1 DEF IsNext
<1>2. /\ entries' \in Seq(Entry) /\ Ids' = Ids \cup {Len(entries) + 1}
      /\ stored' = stored \cup {Len(entries) + 1}
      /\ \A d \in Ids : entries'[d] = entries[d]
      /\ entries'[Len(entries) + 1] = x
  BY <1>1, WriteAppends DEF TypeOK
<1>3. \A e \in Ids' : entries'[e].parent < e
  BY <1>1, <1>2 DEF TypeOK
<1>4. UNCHANGED <<row, alive, pc, keys, got, before, dpc, dkeys, dbefore>>
  BY DEF Write, readVars, deleteVars
<1>. QED BY <1>2, <1>3, <1>4 DEF TypeOK

LEMMA WriteEntries ==
    ASSUME TypeOK, EntriesInv, NEW x, IsNext(x), Write(x)
    PROVE  EntriesInv'
<1>. DEFINE n == Len(entries) + 1
<1>1. x \in Entry
  BY DEF IsNext
<1>2. /\ Ids' = Ids \cup {n} /\ entries'[n] = x /\ n \notin Ids
      /\ \A d \in Ids : entries'[d] = entries[d] /\ d < n
  BY <1>1, WriteAppends DEF TypeOK, Ids
<1>3. \A d \in Ids : entries[d].parent # 0 => entries[d].parent \in Ids
  <2>1. \A d \in Ids : entries[d].parent \in Nat /\ entries[d].parent < d /\ d \in 1..Len(entries)
    BY EntryFields DEF TypeOK, Ids
  <2>2. Len(entries) \in Nat
    BY DEF TypeOK
  <2>. QED BY <2>1, <2>2 DEF Ids
<1>4. x.parent # 0 => x.parent \in Ids /\ entries[x.parent].session = x.session
  BY DEF IsNext, Parents, SessionIds
<1>. HIDE DEF n
<1>5. ASSUME NEW e \in Ids
      PROVE  /\ entries'[e].session \in Mains <=> entries'[e].kind \notin SideKinds
             /\ entries'[e].kind \in SideKinds => entries'[e].agent = entries'[e].session
             /\ entries'[e].parent # 0 =>
                  entries'[entries'[e].parent].session = entries'[e].session
  BY <1>2, <1>3 DEF EntriesInv
<1>6. /\ x.session \in Mains <=> x.kind \notin SideKinds
      /\ x.kind \in SideKinds => x.agent = x.session
      /\ x.parent # 0 => entries'[x.parent].session = x.session
  BY <1>2, <1>4 DEF IsNext
<1>. QED BY <1>2, <1>5, <1>6 DEF EntriesInv

\* A listing that is under way will come to the new entry, or has its session's
\* older ones.
LEMMA WriteReads ==
    ASSUME TypeOK, ReadInv, NEW x, IsNext(x), Write(x)
    PROVE  ReadInv'
<1>. DEFINE n == Len(entries) + 1
<1>1. x \in Entry
  BY DEF IsNext
<1>2. /\ Ids' = Ids \cup {n} /\ stored' = stored \cup {n}
      /\ \A d \in Ids : entries'[d] = entries[d] /\ d < n /\ d \in Nat
      /\ \A d, e \in Ids : Sorts(d, e)' <=> Sorts(d, e)
  BY <1>1, WriteAppends DEF TypeOK
<1>3. UNCHANGED <<row, pc, keys, got, before>> /\ n \in Nat
  BY <1>1, WriteAppends DEF Write, readVars, deleteVars, TypeOK
<1>. HIDE DEF n
<1>4. Rest(keys) \subseteq Rest(keys)'
  BY <1>2, <1>3 DEF Rest, TypeOK
<1>5. ASSUME ListingInv PROVE ListingInv'
  <2>1. \A e \in before, d \in Ids' : d < e => d \in before
    <3>1. \A e \in before : e \in Ids
      BY DEF TypeOK
    <3>. QED BY <1>2, <1>3, <1>5, <3>1 DEF ListingInv
  <2>2. \A e \in keys, d \in Ids' :
          d < e /\ entries'[d].session = entries'[e].session => d \in keys
    <3>1. \A e \in keys : e \in Ids
      BY DEF TypeOK
    <3>. QED BY <1>2, <1>3, <1>5, <3>1 DEF ListingInv
  <2>3. /\ pc = "list" => before \subseteq keys \cup Rest(keys)'
        /\ pc # "list" => before \subseteq keys
    BY <1>4, <1>5 DEF ListingInv
  <2>. QED BY <1>3, <2>1, <2>2, <2>3 DEF ListingInv
<1>. QED BY <1>3, <1>5 DEF ReadInv, Range

LEMMA WriteKeepsInv ==
    ASSUME HistoryInv, NEW x, IsNext(x), Write(x)
    PROVE  HistoryInv'
<1>1. TypeOK' /\ EntriesInv' /\ ReadInv'
  BY WriteType, WriteEntries, WriteReads DEF HistoryInv
<1>2. DeleteInv'
  <2>1. Ids' = Ids \cup {Len(entries) + 1} /\ stored' = stored \cup {Len(entries) + 1}
    BY WriteAppends DEF IsNext, HistoryInv, TypeOK
  <2>2. UNCHANGED <<row, dpc, dkeys, dbefore>>
    BY DEF Write, deleteVars
  <2>3. Len(entries) + 1 \notin dbefore
    <3>1. Len(entries) \in Nat /\ dbefore \subseteq 1..Len(entries)
      BY DEF HistoryInv, TypeOK, Ids
    <3>. QED BY <3>1
  <2>4. Rest(dkeys) \subseteq Rest(dkeys)'
    <3>1. \A d, e \in Ids : Sorts(d, e)' <=> Sorts(d, e)
      BY WriteAppends DEF IsNext, HistoryInv, TypeOK
    <3>. QED BY <2>1, <2>2, <3>1 DEF Rest, HistoryInv, TypeOK
  <2>. QED BY <2>1, <2>2, <2>3, <2>4 DEF HistoryInv, DeleteInv, DeletedIsGone
<1>. QED BY <1>1, <1>2 DEF HistoryInv

LEMMA AgentKeepsInv ==
    ASSUME HistoryInv, NEW s \in Sessions, NEW kind \in Kinds,
           \/ \E parent \in 0..MaxEntries : WriteMain(s, kind, parent)
           \/ WriteSide(s, kind)
           \/ \E a \in Sessions, parent \in 0..MaxEntries : WriteResult(s, a, kind, parent)
    PROVE  HistoryInv'
<1>. USE HistoryAssumption DEF HistoryInv, SideKinds
<1>1. SessionIds(s) \subseteq Nat
  BY DEF SessionIds, Ids
<1>2. ASSUME NEW parent \in 0..MaxEntries, WriteMain(s, kind, parent)
      PROVE  HistoryInv'
  <2>. DEFINE x == [kind |-> kind, session |-> s, parent |-> parent, agent |-> s]
  <2>1. IsNext(x)
    BY <1>2 DEF IsNext, Entry, WriteMain
  <2>2. Write(x)
    BY <1>2 DEF WriteMain
  <2>. HIDE DEF x
  <2>. QED BY <2>1, <2>2, WriteKeepsInv
<1>3. CASE WriteSide(s, kind)
  <2>. DEFINE x == [kind |-> kind, session |-> s, parent |-> 0, agent |-> s]
  <2>1. IsNext(x)
    BY <1>3 DEF IsNext, Entry, WriteSide, Parents
  <2>2. Write(x)
    BY <1>3 DEF WriteSide
  <2>. HIDE DEF x
  <2>. QED BY <2>1, <2>2, WriteKeepsInv
<1>4. ASSUME NEW a \in Sessions, NEW parent \in 0..MaxEntries, WriteResult(s, a, kind, parent)
      PROVE  HistoryInv'
  <2>. DEFINE x == [kind |-> kind, session |-> s, parent |-> parent, agent |-> a]
  <2>1. IsNext(x)
    BY <1>1, <1>4 DEF IsNext, Entry, WriteResult, Parents
  <2>2. Write(x)
    BY <1>4 DEF WriteResult
  <2>. HIDE DEF x
  <2>. QED BY <2>1, <2>2, WriteKeepsInv
<1>. QED BY <1>2, <1>3, <1>4

\* A sandbox that dies or starts changes nothing that is stored or looked at.
LEMMA SandboxKeepsInv ==
    ASSUME HistoryInv, SandboxChanges
    PROVE  HistoryInv'
<1>1. /\ UNCHANGED <<entries, stored, pc, keys, got, before, row, dpc, dkeys, dbefore>>
      /\ alive' \in BOOLEAN
  BY DEF SandboxChanges, readVars, HistoryInv, TypeOK
<1>2. Ids' = Ids /\ Rest(keys)' = Rest(keys) /\ Rest(dkeys)' = Rest(dkeys)
  BY <1>1 DEF Ids, Rest, Sorts
<1>. QED
  BY <1>1, <1>2 DEF HistoryInv, TypeOK, EntriesInv, DeleteInv, DeletedIsGone, ReadInv,
    ListingInv, Range, IsInjective

-----------------------------------------------------------------------------
(* GetAllHistory                                                           *)

\* Where nothing is written or removed and the deletion stands still, its part of
\* the invariant stays, and so do the listings' views of the store.
LEMMA StoreUnchanged ==
    ASSUME UNCHANGED <<entries, stored>>
    PROVE  /\ Ids' = Ids /\ (EntriesInv => EntriesInv')
           /\ Rest(keys)' = Rest(keys') /\ Rest(dkeys)' = Rest(dkeys')
  BY DEF Ids, EntriesInv, Rest, Sorts

LEMMA DeletionUnchanged ==
    ASSUME DeleteInv, UNCHANGED <<entries, stored, deleteVars>>
    PROVE  DeleteInv'
<1>1. UNCHANGED <<entries, stored, row, alive, dpc, dkeys, dbefore>>
  BY DEF deleteVars
<1>2. Ids' = Ids /\ Rest(dkeys)' = Rest(dkeys)
  BY <1>1, StoreUnchanged
<1>. QED BY <1>1, <1>2 DEF DeleteInv, DeletedIsGone

LEMMA GetKeepsInv ==
    ASSUME HistoryInv, GetTaskHistory
    PROVE  HistoryInv'
<1>. USE DEF HistoryInv
<1>1. UNCHANGED <<entries, stored, row, alive, dpc, dkeys, dbefore>>
  BY DEF GetTaskHistory, deleteVars
<1>2. row /\ pc' = "list" /\ keys' = {} /\ got' = <<>> /\ before' = stored
  BY DEF GetTaskHistory
<1>3. Ids' = Ids /\ EntriesInv' /\ DeleteInv'
  BY <1>1, StoreUnchanged, DeletionUnchanged DEF deleteVars
<1>4. TypeOK'
  <2>1. got' \in Seq(keys') /\ IsInjective(got')
    BY <1>2 DEF IsInjective
  <2>. QED BY <1>1, <1>2, <1>3, <2>1 DEF TypeOK
<1>5. Rest(keys') = stored
  BY <1>2 DEF Rest
<1>6. ListingInv'
  <2>1. stored = Ids
    BY <1>2 DEF DeleteInv
  <2>2. Rest(keys)' = stored
    BY <1>1, <1>5, StoreUnchanged
  <2>. QED BY <1>2, <1>3, <2>1, <2>2 DEF ListingInv
<1>7. ReadInv'
  BY <1>2, <1>6 DEF ReadInv
<1>. QED BY <1>3, <1>4, <1>7

\* A page adds the keys that come next: none of what was stored is skipped, and
\* no session loses an older entry to a newer one.
LEMMA PageKeepsListing ==
    ASSUME TypeOK, ListingInv, pc = "list", stored = Ids
    PROVE  /\ \A e \in keys \cup Page(keys), d \in Ids :
                d < e /\ entries[d].session = entries[e].session => d \in keys \cup Page(keys)
           /\ before \subseteq (keys \cup Page(keys)) \cup Rest(keys \cup Page(keys))
           /\ ~HasMorePages(keys) => before \subseteq keys \cup Page(keys)
<1>1. /\ Page(keys) \subseteq Rest(keys) /\ Rest(keys) \subseteq Ids /\ keys \subseteq Ids
      /\ before \subseteq keys \cup Rest(keys)
  BY DEF Page, Rest, TypeOK, ListingInv
<1>2. ASSUME NEW e \in Page(keys), NEW d \in Ids,
             d < e, entries[d].session = entries[e].session
      PROVE  d \in keys \cup Page(keys)
  <2>1. Sorts(d, e) /\ ~Sorts(e, d) /\ d # e
    <3>1. d \in Nat /\ e \in Nat /\ entries[e].session \in Nat
      BY <1>1, EntryFields DEF TypeOK
    <3>. QED BY <1>2, <3>1 DEF Sorts
  <2>2. CASE d \in Rest(keys)
    BY <2>1, <2>2, PageIsFirst
  <2>3. CASE d \notin Rest(keys)
    <3>1. PICK k \in keys : ~Sorts(k, d)
      BY <2>3 DEF Rest
    <3>2. Sorts(k, e)
      BY <1>1 DEF Rest
    <3>3. /\ k \in Nat /\ d \in Nat /\ k \in Ids
          /\ entries[k].session \in Nat /\ entries[d].session \in Nat
      BY <1>1, EntryFields DEF TypeOK
    <3>4. entries[k].session = entries[d].session /\ ~(k < d)
      BY <1>2, <3>1, <3>2, <3>3 DEF Sorts
    <3>5. k = d \/ d < k
      BY <3>3, <3>4
    <3>. QED BY <3>4, <3>5 DEF ListingInv
  <2>. QED BY <2>2, <2>3
<1>3. ASSUME NEW d \in before
      PROVE  d \in (keys \cup Page(keys)) \cup Rest(keys \cup Page(keys))
  BY <1>1, ListingIsComplete
<1>4. ~HasMorePages(keys) => before \subseteq keys \cup Page(keys)
  BY <1>1 DEF HasMorePages
<1>. QED BY <1>2, <1>3, <1>4 DEF ListingInv

LEMMA ListKeysKeepsInv ==
    ASSUME HistoryInv, ListKeys
    PROVE  HistoryInv'
<1>. USE DEF HistoryInv
<1>1. UNCHANGED <<entries, stored, row, alive, dpc, dkeys, dbefore, got, before>>
  BY DEF ListKeys, deleteVars
<1>2. /\ pc = "list" /\ keys' = keys \cup Page(keys)
      /\ pc' = IF HasMorePages(keys) THEN "list" ELSE IF keys' = {} THEN "done" ELSE "fetch"
  BY DEF ListKeys
<1>3. Ids' = Ids /\ EntriesInv' /\ DeleteInv'
  BY <1>1, StoreUnchanged, DeletionUnchanged DEF deleteVars
<1>4. got = <<>> /\ got' = <<>>
  BY <1>1, <1>2 DEF ReadInv
<1>5. TypeOK'
  <2>1. got' \in Seq(keys') /\ IsInjective(got')
    BY <1>4 DEF IsInjective
  <2>2. keys' \subseteq Ids
    BY <1>2 DEF TypeOK, Page, Rest
  <2>. QED BY <1>1, <1>2, <1>3, <2>1, <2>2 DEF TypeOK
<1>6. ASSUME row PROVE ListingInv'
  <2>1. ListingInv /\ stored = Ids
    BY <1>2, <1>6 DEF ReadInv, DeleteInv
  <2>2. /\ \A e \in keys', d \in Ids :
             d < e /\ entries[d].session = entries[e].session => d \in keys'
        /\ before \subseteq keys' \cup Rest(keys')
        /\ ~HasMorePages(keys) => before \subseteq keys'
    BY <1>2, <2>1, PageKeepsListing
  <2>3. Rest(keys)' = Rest(keys')
    BY <1>1, StoreUnchanged
  <2>4. pc' # "list" => ~HasMorePages(keys)
    BY <1>2
  <2>. QED BY <1>1, <1>3, <2>1, <2>2, <2>3, <2>4 DEF ListingInv
<1>7. pc' = "done" => Range(got') = keys'
  BY <1>2, <1>4 DEF Range
<1>8. ReadInv'
  BY <1>1, <1>4, <1>6, <1>7 DEF ReadInv
<1>. QED BY <1>3, <1>5, <1>8

LEMMA ReadPartKeepsInv ==
    ASSUME HistoryInv, NEW e \in Ids, ReadPart(e)
    PROVE  HistoryInv'
<1>. USE DEF HistoryInv
<1>1. UNCHANGED <<entries, stored, row, alive, dpc, dkeys, dbefore, keys, before>>
  BY DEF ReadPart, deleteVars
<1>2. /\ pc = "fetch" /\ e \in keys /\ e \notin Range(got) /\ got' = Append(got, e)
      /\ pc' = IF Range(got') = keys THEN "done" ELSE "fetch"
  BY DEF ReadPart, KeysLeft
<1>3. Ids' = Ids /\ EntriesInv' /\ DeleteInv'
  BY <1>1, StoreUnchanged, DeletionUnchanged DEF deleteVars
<1>4. got' \in Seq(keys) /\ IsInjective(got')
  <2>1. /\ Len(got) \in Nat /\ Len(got') = Len(got) + 1
        /\ DOMAIN got = 1..Len(got) /\ DOMAIN got' = 1..(Len(got) + 1)
        /\ got' \in Seq(keys) /\ got'[Len(got) + 1] = e
        /\ \A i \in 1..Len(got) : got'[i] = got[i]
    BY <1>2, AppendProperties DEF TypeOK
  <2>2. \A i \in 1..Len(got) : got[i] # e
    BY <1>2, <2>1 DEF Range
  <2>3. ASSUME NEW i \in 1..(Len(got) + 1), NEW j \in 1..(Len(got) + 1), got'[i] = got'[j]
        PROVE  i = j
    <3>1. CASE i \in 1..Len(got) /\ j \in 1..Len(got)
      BY <2>1, <2>3, <3>1 DEF TypeOK, IsInjective
    <3>2. CASE i = Len(got) + 1 \/ j = Len(got) + 1
      BY <2>1, <2>2, <2>3, <3>2
    <3>. QED BY <2>1, <3>1, <3>2
  <2>. QED BY <2>1, <2>3 DEF IsInjective
<1>5. TypeOK'
  BY <1>1, <1>2, <1>3, <1>4 DEF TypeOK
<1>6. ASSUME row PROVE ListingInv'
  BY <1>1, <1>2, <1>3, <1>6 DEF ReadInv, ListingInv
<1>7. ReadInv'
  BY <1>1, <1>2, <1>6 DEF ReadInv
<1>. QED BY <1>3, <1>5, <1>7

LEMMA ReadFailsKeepsInv ==
    ASSUME HistoryInv, ReadFails
    PROVE  HistoryInv'
<1>. USE DEF HistoryInv
<1>1. UNCHANGED <<entries, stored, row, alive, dpc, dkeys, dbefore>>
  BY DEF ReadFails, deleteVars
<1>2. pc' = "failed" /\ keys' = {} /\ got' = <<>> /\ before' = {}
  BY DEF ReadFails
<1>3. Ids' = Ids /\ EntriesInv' /\ DeleteInv'
  BY <1>1, StoreUnchanged, DeletionUnchanged DEF deleteVars
<1>4. got' \in Seq(keys') /\ IsInjective(got')
  BY <1>2 DEF IsInjective
<1>5. TypeOK'
  BY <1>1, <1>2, <1>3, <1>4 DEF TypeOK
<1>. QED BY <1>2, <1>3, <1>5 DEF ReadInv

-----------------------------------------------------------------------------
(* DeleteTask and DeleteHistory                                            *)

\* Without the row the reader's answer is not looked at any more.
LEMMA ReaderWithoutRow ==
    ASSUME ReadInv, ~row', UNCHANGED readVars
    PROVE  ReadInv'
<1>1. UNCHANGED <<pc, keys, got>>
  BY DEF readVars
<1>. QED BY <1>1 DEF ReadInv, Range

LEMMA DeleteBeginsKeepsInv ==
    ASSUME HistoryInv, DeleteTask \/ DeleteSandbox
    PROVE  HistoryInv'
<1>. USE DEF HistoryInv
<1>1. /\ UNCHANGED <<entries, stored, pc, keys, got, before, dkeys>>
      /\ ~row' /\ dkeys = {}
  <2>1. CASE DeleteTask
    BY <2>1 DEF DeleteTask, readVars, DeleteInv
  <2>2. CASE DeleteSandbox
    BY <2>2 DEF DeleteSandbox, readVars, DeleteInv
  <2>. QED BY <2>1, <2>2
<1>2. Ids' = Ids /\ EntriesInv' /\ ReadInv'
  BY <1>1, StoreUnchanged, ReaderWithoutRow DEF readVars
<1>3. \/ /\ dpc = "no" /\ dpc' = "sandbox" /\ row' = FALSE
         /\ UNCHANGED <<alive, dbefore>>
      \/ /\ dpc = "sandbox" /\ dpc' = "list" /\ row' = row
         /\ alive' \in {alive, FALSE} /\ dbefore' = stored
  BY DEF DeleteTask, DeleteSandbox
<1>4. TypeOK'
  BY <1>1, <1>2, <1>3 DEF TypeOK
<1>5. Rest(dkeys)' = stored
  BY <1>1 DEF Rest
<1>6. DeleteInv'
  BY <1>1, <1>3, <1>5 DEF DeleteInv, DeletedIsGone
<1>. QED BY <1>2, <1>4, <1>6

\* A page of the deletion's listing leaves nothing stored behind it.
LEMMA ListDeletedKeepsInv ==
    ASSUME HistoryInv, ListDeleted
    PROVE  HistoryInv'
<1>. USE DEF HistoryInv
<1>1. /\ UNCHANGED <<entries, stored, pc, keys, got, before, row, alive, dbefore>>
      /\ dpc = "list" /\ dkeys' = dkeys \cup Page(dkeys)
      /\ dpc' = IF HasMorePages(dkeys) THEN "list" ELSE "delete"
      /\ ~row /\ ~row'
  BY DEF ListDeleted, readVars, DeleteInv
<1>2. Ids' = Ids /\ EntriesInv' /\ ReadInv' /\ Rest(dkeys)' = Rest(dkeys')
  BY <1>1, StoreUnchanged, ReaderWithoutRow DEF readVars
<1>3. TypeOK'
  <2>1. dkeys' \subseteq Ids
    BY <1>1 DEF TypeOK, Page, Rest
  <2>. QED BY <1>1, <1>2, <2>1 DEF TypeOK
<1>4. /\ dbefore \subseteq dkeys' \cup Rest(dkeys')
      /\ ~HasMorePages(dkeys) => dbefore \subseteq dkeys'
  <2>1. dbefore \subseteq dkeys \cup Rest(dkeys) /\ dkeys \subseteq Ids
    BY <1>1 DEF DeleteInv, TypeOK
  <2>2. \A d \in dbefore : d \in dkeys \cup Page(dkeys) \/ d \in Rest(dkeys \cup Page(dkeys))
    BY <2>1, ListingIsComplete
  <2>. QED BY <1>1, <2>1, <2>2 DEF HasMorePages
<1>5. DeleteInv'
  BY <1>1, <1>2, <1>4 DEF DeleteInv, DeletedIsGone
<1>. QED BY <1>2, <1>3, <1>5

LEMMA DeleteEndsKeepsInv ==
    ASSUME HistoryInv, DeleteObject \/ DeleteEnds
    PROVE  HistoryInv'
<1>. USE DEF HistoryInv
<1>1. /\ UNCHANGED <<entries, pc, keys, got, before, row, alive, dbefore>>
      /\ ~row /\ ~row'
  BY DEF DeleteObject, DeleteEnds, readVars, DeleteInv
<1>2. Ids' = Ids /\ EntriesInv' /\ ReadInv'
  BY <1>1, ReaderWithoutRow DEF readVars, Ids, EntriesInv
<1>3. CASE DeleteObject
  <2>1. PICK e \in dkeys : dkeys' = dkeys \ {e} /\ stored' = stored \ {e}
    BY <1>3 DEF DeleteObject
  <2>2. dpc = "delete" /\ dpc' = "delete"
    BY <1>3 DEF DeleteObject
  <2>. QED BY <1>1, <1>2, <2>1, <2>2 DEF TypeOK, DeleteInv, DeletedIsGone
<1>4. CASE DeleteEnds
  BY <1>1, <1>2, <1>4 DEF DeleteEnds, TypeOK, DeleteInv, DeletedIsGone
<1>. QED BY <1>3, <1>4

-----------------------------------------------------------------------------
(* The invariant holds                                                     *)

\* Whatever the agent writes, requests list and download, and a deletion removes,
\* in whatever order, HistoryInv holds.
THEOREM HistoryInvariant == HistorySpec => []HistoryInv
<1>1. Init => HistoryInv
  <2>1. SUFFICES ASSUME Init PROVE HistoryInv
    OBVIOUS
  <2>2. Ids = {} /\ Range(got) = {} /\ got \in Seq(keys) /\ IsInjective(got)
    BY <2>1 DEF Init, Ids, Range, IsInjective
  <2>. QED
    BY <2>1, <2>2 DEF Init, HistoryInv, TypeOK, EntriesInv, DeleteInv, DeletedIsGone, ReadInv
<1>2. HistoryInv /\ [Next]_historyVars => HistoryInv'
  <2>1. SUFFICES ASSUME HistoryInv, [Next]_historyVars
                 PROVE  HistoryInv'
    OBVIOUS
  <2>2. CASE UNCHANGED historyVars
    <3>1. UNCHANGED <<entries, stored, pc, keys, got, before, row, alive, dpc, dkeys, dbefore>>
      BY <2>2 DEF historyVars, readVars, deleteVars
    <3>2. /\ Ids' = Ids /\ EntriesInv' /\ DeleteInv'
          /\ Rest(keys)' = Rest(keys)
      BY <2>1, <3>1, StoreUnchanged, DeletionUnchanged DEF HistoryInv, deleteVars
    <3>3. ReadInv'
      BY <2>1, <3>1, <3>2 DEF HistoryInv, ReadInv, ListingInv, Range
    <3>4. TypeOK'
      BY <2>1, <3>1, <3>2 DEF HistoryInv, TypeOK, IsInjective
    <3>. QED BY <3>2, <3>3, <3>4 DEF HistoryInv
  <2>3. CASE Next
    BY <2>1, <2>3, AgentKeepsInv, SandboxKeepsInv, GetKeepsInv, ListKeysKeepsInv, ReadPartKeepsInv,
       ReadFailsKeepsInv, DeleteBeginsKeepsInv, ListDeletedKeepsInv, DeleteEndsKeepsInv
    DEF Next
  <2>. QED BY <2>1, <2>2, <2>3
<1>. QED BY <1>1, <1>2, PTL DEF HistorySpec

-----------------------------------------------------------------------------
(* The answer                                                              *)

\* Choosing from a sequence of entries in the order of their keys.
LEMMA KeptSorts ==
    ASSUME NEW s \in Seq(Ids), NEW S,
           \A i, j \in DOMAIN s : i < j => Sorts(s[i], s[j])
    PROVE  /\ Kept(s, S) \in Seq(Ids) /\ Range(Kept(s, S)) = Range(s) \cap S
           /\ \A i, j \in DOMAIN Kept(s, S) : i < j => Sorts(Kept(s, S)[i], Kept(s, S)[j])
<1>1. /\ Kept(s, S) \in Seq(Ids) /\ Range(Kept(s, S)) = Range(s) \cap S
      /\ \A i, j \in DOMAIN Kept(s, S) : i < j =>
           \E k, l \in DOMAIN s : k < l /\ Kept(s, S)[i] = s[k] /\ Kept(s, S)[j] = s[l]
  BY KeptProperties
<1>2. ASSUME NEW i \in DOMAIN Kept(s, S), NEW j \in DOMAIN Kept(s, S), i < j
      PROVE  Sorts(Kept(s, S)[i], Kept(s, S)[j])
  <2>1. PICK k \in DOMAIN s, l \in DOMAIN s :
          k < l /\ Kept(s, S)[i] = s[k] /\ Kept(s, S)[j] = s[l]
    BY <1>1, <1>2
  <2>2. Sorts(s[k], s[l])
    BY <2>1
  <2>. QED BY <2>1, <2>2
<1>. QED BY <1>1, <1>2

\* The answer has what was downloaded but the entries with isMeta, by key.
LEMMA AnswerProperties ==
    ASSUME TypeOK
    PROVE  /\ Answer \in Seq(Ids) /\ Range(Answer) = {e \in Range(got) : IsPlain(e)}
           /\ \A i, j \in DOMAIN Answer : i < j => Sorts(Answer[i], Answer[j])
<1>1. Range(got) \in SUBSET Ids
  BY RangeOfSeq DEF TypeOK
<1>2. /\ Merged \in [1..Cardinality(Range(got)) -> Range(got)]
      /\ Range(Merged) = Range(got)
      /\ \A i, j \in 1..Cardinality(Range(got)) : i < j => Sorts(Merged[i], Merged[j])
  BY <1>1, SortedProperties DEF Merged
<1>3. Cardinality(Range(got)) \in Nat
  BY <1>1, SortsIsStrictTotal, FS_CardinalityType
<1>4. Merged \in Seq(Ids) /\ \A i, j \in DOMAIN Merged : i < j => Sorts(Merged[i], Merged[j])
  <2>1. Merged \in Seq(Range(got)) /\ DOMAIN Merged = 1..Cardinality(Range(got))
    BY <1>2, <1>3, IsASeq
  <2>. QED BY <1>1, <1>2, <2>1, SeqMonotonic
<1>5. /\ Answer \in Seq(Ids) /\ Range(Answer) = Range(Merged) \cap {e \in Ids : IsPlain(e)}
      /\ \A i, j \in DOMAIN Answer : i < j => Sorts(Answer[i], Answer[j])
  BY <1>4, KeptSorts DEF Answer
<1>. QED BY <1>1, <1>2, <1>5

LEMMA HistoryInvFaithful ==
    ASSUME HistoryInv
    PROVE  AnswerIsFaithful
<1>. USE DEF HistoryInv
<1>1. SUFFICES ASSUME Answered
               PROVE  /\ {e \in before : IsPlain(e)} \subseteq Range(Answer)
                      /\ \A i, j \in DOMAIN Answer :
                           i < j => \/ Answer[i] < Answer[j]
                                    \/ entries[Answer[i]].session # entries[Answer[j]].session
  BY Zenon DEF AnswerIsFaithful
<1>2. before \subseteq Range(got)
  BY <1>1 DEF Answered, ReadInv, ListingInv
<1>3. {e \in before : IsPlain(e)} \subseteq Range(Answer)
  BY <1>2, AnswerProperties
<1>4. ASSUME NEW i \in DOMAIN Answer, NEW j \in DOMAIN Answer, i < j
      PROVE  \/ Answer[i] < Answer[j]
             \/ entries[Answer[i]].session # entries[Answer[j]].session
  <2>1. Answer[i] \in Ids /\ Answer[j] \in Ids /\ Sorts(Answer[i], Answer[j])
    BY <1>4, AnswerProperties
  <2>2. entries[Answer[i]].session \in Nat /\ entries[Answer[j]].session \in Nat
    BY <2>1, EntryFields DEF TypeOK
  <2>. QED BY <2>1, <2>2 DEF Sorts
<1>. QED BY <1>3, <1>4

\* The user and assistant entries of the answer, in the order of their keys.
LEMMA EligibleProperties ==
    ASSUME TypeOK
    PROVE  /\ Eligible \in Seq(Ids)
           /\ \A i, j \in DOMAIN Eligible : i < j => Sorts(Eligible[i], Eligible[j])
           /\ Range(Eligible) = {e \in Range(got) : IsEligible(e)}
<1>1. /\ Eligible \in Seq(Ids) /\ Range(Eligible) = Range(Answer) \cap {e \in Ids : IsEligible(e)}
      /\ \A i, j \in DOMAIN Eligible : i < j => Sorts(Eligible[i], Eligible[j])
  BY AnswerProperties, KeptSorts DEF Eligible
<1>2. \A e \in Ids : IsEligible(e) => IsPlain(e)
  BY DEF IsEligible, IsPlain
<1>3. Range(got) \in SUBSET Ids
  BY RangeOfSeq DEF TypeOK
<1>4. Range(Eligible) = {e \in Range(got) : IsEligible(e)}
  BY <1>1, <1>2, <1>3, AnswerProperties
<1>. QED BY <1>1, <1>4

\* A sequence of entries in the order of their keys ends with the one that sorts last.
LEMMA LastSortsLast ==
    ASSUME NEW s \in Seq(Ids), s # <<>>,
           \A i, j \in DOMAIN s : i < j => Sorts(s[i], s[j])
    PROVE  Last(s) \in Range(s) /\ \A e \in Range(s) : e = Last(s) \/ Sorts(e, Last(s))
<1>1. DOMAIN s = 1..Len(s) /\ Len(s) \in Nat /\ Len(s) # 0
  BY EmptySeq
<1>2. Len(s) \in DOMAIN s /\ Last(s) = s[Len(s)]
  BY <1>1 DEF Last
<1>3. ASSUME NEW e \in Range(s)
      PROVE  e = Last(s) \/ Sorts(e, Last(s))
  <2>1. PICK i \in DOMAIN s : s[i] = e
    BY DEF Range
  <2>2. i = Len(s) \/ i < Len(s)
    BY <1>1
  <2>. QED BY <1>2, <2>1, <2>2
<1>. QED BY <1>2, <1>3 DEF Range

\* The last leaf is the turn that sorts last: what answers it would be of the same
\* session and newer.
LEMMA LeafSortsLast ==
    ASSUME TypeOK, EntriesInv, Eligible # <<>>
    PROVE  Leaf \in Range(Eligible) /\ \A e \in Range(Eligible) : e = Leaf \/ Sorts(e, Leaf)
<1>. DEFINE E == Range(Eligible)
            S == LeavesOf(E)
            m == Last(Eligible)
<1>1. /\ Eligible \in Seq(Ids) /\ E \in SUBSET Ids
      /\ \A i, j \in DOMAIN Eligible : i < j => Sorts(Eligible[i], Eligible[j])
  BY EligibleProperties, RangeOfSeq
<1>2. m \in E /\ \A e \in E : e = m \/ Sorts(e, m)
  BY <1>1, LastSortsLast
<1>3. Leaves = Kept(Eligible, S)
  BY DEF Leaves
<1>. HIDE DEF E, m
<1>4. m \in S
  <2>1. ASSUME NEW d \in E, entries[d].parent = m
        PROVE  FALSE
    <3>1. /\ d \in Nat /\ m \in Nat /\ m # 0 /\ m < d
          /\ entries[d].session = entries[m].session
          /\ entries[d].session \in Nat
      BY <1>1, <1>2, <2>1, EntryFields DEF TypeOK, EntriesInv, Ids
    <3>2. d = m \/ Sorts(d, m)
      BY <1>2
    <3>. QED BY <3>1, <3>2 DEF Sorts
  <2>. QED BY <1>2, <2>1 DEF LeavesOf
<1>. HIDE DEF S
<1>5. /\ Leaves \in Seq(Ids) /\ Range(Leaves) = E \cap S
      /\ \A i, j \in DOMAIN Leaves : i < j => Sorts(Leaves[i], Leaves[j])
  BY <1>1, <1>3, KeptSorts DEF E
<1>6. m \in Range(Leaves) /\ Leaves # <<>>
  <2>1. m \in Range(Leaves)
    BY <1>2, <1>4, <1>5
  <2>2. Range(<<>>) = {}
    BY DEF Range
  <2>. QED BY <2>1, <2>2
<1>7. Leaf \in E /\ (m = Leaf \/ Sorts(m, Leaf))
  BY <1>5, <1>6, LastSortsLast DEF Leaf
<1>8. Leaf = m
  <2>1. /\ m \in Nat /\ Leaf \in Nat
        /\ entries[m].session \in Nat /\ entries[Leaf].session \in Nat
    BY <1>1, <1>2, <1>7, EntryFields DEF TypeOK
  <2>2. Leaf = m \/ Sorts(Leaf, m)
    BY <1>2, <1>7
  <2>. QED BY <1>7, <2>1, <2>2 DEF Sorts
<1>. QED BY <1>2, <1>8 DEF E

-----------------------------------------------------------------------------
(* The walk back from an entry                                             *)

\* g is the walk, for the entries up to n.
IsWalk(g, E, n) ==
    g = [d \in 0..n |-> IF d \in E THEN Append(g[entries[d].parent], d) ELSE <<>>]

\* A parent is older than its child, so the walk is defined: a first entry at which
\* it is not would have a parent at which it is.
LEMMA WalkExists ==
    ASSUME TypeOK, NEW E \in SUBSET Ids
    PROVE  \E g : IsWalk(g, E, Len(entries))
<1>. DEFINE N == Len(entries)
            Bad == {n \in 0..N : ~\E g : IsWalk(g, E, n)}
<1>1. N \in Nat /\ Bad \in SUBSET (0..N) /\ E \subseteq 1..N
  BY DEF TypeOK, Ids
<1>2. SUFFICES ASSUME Bad # {} PROVE FALSE
  BY <1>1
<1>. HIDE DEF N
<1>3. PICK n \in Bad : \A m \in Bad : n <= m
  <2>. HIDE DEF Bad
  <2>. QED BY <1>1, <1>2, HasMin
<1>4. n # 0
  <2>1. IsWalk([d \in 0..0 |-> <<>>], E, 0)
    BY <1>1 DEF IsWalk
  <2>. QED BY <2>1
<1>5. n \in 1..N /\ n - 1 \in 0..N /\ n - 1 \notin Bad
  <2>1. n \in 1..N /\ n - 1 \in 0..N /\ ~(n <= n - 1)
    BY <1>1, <1>4
  <2>. QED BY <1>3, <2>1
<1>6. PICK g : IsWalk(g, E, n - 1)
  BY <1>5
<1>. DEFINE last == IF n \in E THEN Append(g[entries[n].parent], n) ELSE <<>>
            h == [d \in 0..n |-> IF d = n THEN last ELSE g[d]]
<1>7. \A d \in E : entries[d].parent \in 0..(d - 1)
  BY <1>1, EntryFields DEF TypeOK, N, Ids
<1>. HIDE DEF last
<1>8. \A d \in 0..(n - 1) :
        g[d] = IF d \in E THEN Append(g[entries[d].parent], d) ELSE <<>>
  BY <1>6, Zenon DEF IsWalk
<1>9. /\ n \in Nat /\ h[n] = last
      /\ \A d \in 0..(n - 1) : h[d] = g[d] /\ d # n /\ d \in 0..n
      /\ \A d \in 0..n : d = n \/ d \in 0..(n - 1)
  BY <1>5
<1>. HIDE DEF h
<1>10. ASSUME NEW d \in 0..n
       PROVE  h[d] = IF d \in E THEN Append(h[entries[d].parent], d) ELSE <<>>
  <2>1. d \in E => h[entries[d].parent] = g[entries[d].parent]
    <3>1. d \in E => entries[d].parent \in 0..(n - 1)
      BY <1>5, <1>7
    <3>. QED BY <1>9, <3>1
  <2>2. CASE d = n
    BY <1>9, <2>1, <2>2 DEF last
  <2>3. CASE d \in 0..(n - 1)
    BY <1>8, <1>9, <2>1, <2>3
  <2>. QED BY <1>9, <2>2, <2>3
<1>11. h = [d \in 0..n |-> h[d]]
  BY DEF h
<1>12. IsWalk(h, E, n)
  BY <1>10, <1>11 DEF IsWalk
<1>. QED BY <1>12

\* Path follows the parents, one entry at a time.
LEMMA PathEquation ==
    ASSUME TypeOK, NEW E \in SUBSET Ids, NEW e \in 0..Len(entries)
    PROVE  Path(E, e) = IF e \in E THEN Append(Path(E, entries[e].parent), e) ELSE <<>>
<1>. DEFINE Back == CHOOSE g : IsWalk(g, E, Len(entries))
<1>1. IsWalk(Back, E, Len(entries))
  BY WalkExists
<1>2. \A d : Path(E, d) = Back[d]
  BY DEF Path, IsWalk
<1>. HIDE DEF Back
<1>3. Back[e] = IF e \in E THEN Append(Back[entries[e].parent], e) ELSE <<>>
  BY <1>1, Zenon DEF IsWalk
<1>4. Path(E, e) = Back[e] /\ Path(E, entries[e].parent) = Back[entries[e].parent]
  BY <1>2
<1>. QED BY <1>3, <1>4

\* It is a sequence of members of E and ends with the entry it starts from.
LEMMA PathProperties ==
    ASSUME TypeOK, NEW E \in SUBSET Ids
    PROVE  /\ \A e \in 0..Len(entries) : Path(E, e) \in Seq(E)
           /\ \A e \in E : /\ Last(Path(E, e)) = e /\ e \in Range(Path(E, e))
                           /\ Path(E, e) # <<>>
                           /\ Range(Path(E, entries[e].parent)) \subseteq Range(Path(E, e))
<1>. DEFINE N == Len(entries)
            Bad == {e \in 0..N : Path(E, e) \notin Seq(E)}
<1>1. N \in Nat /\ Bad \in SUBSET (0..N) /\ E \subseteq 1..N
  BY DEF TypeOK, Ids
<1>2. \A e \in E : entries[e].parent \in 0..N /\ entries[e].parent < e /\ e \in 0..N
  BY <1>1, EntryFields DEF TypeOK, Ids
<1>3. \A e \in 0..N :
        Path(E, e) = IF e \in E THEN Append(Path(E, entries[e].parent), e) ELSE <<>>
  BY PathEquation
<1>. HIDE DEF N
<1>4. Bad = {}
  <2>1. SUFFICES ASSUME Bad # {} PROVE FALSE
    OBVIOUS
  <2>2. PICK e \in Bad : \A m \in Bad : e <= m
    <3>. HIDE DEF Bad
    <3>. QED BY <1>1, <2>1, HasMin
  <2>3. CASE e \in E
    <3>1. entries[e].parent \notin Bad
      BY <1>1, <1>2, <2>2, <2>3
    <3>2. Path(E, entries[e].parent) \in Seq(E)
      BY <1>2, <2>3, <3>1
    <3>. QED BY <1>3, <2>2, <2>3, <3>2, AppendProperties
  <2>4. CASE e \notin E
    <3>1. <<>> \in Seq(E)
      OBVIOUS
    <3>2. Path(E, e) = <<>>
      BY <1>3, <2>4
    <3>. QED BY <2>2, <3>1, <3>2
  <2>. QED BY <2>3, <2>4
<1>5. ASSUME NEW e \in E
      PROVE  /\ Last(Path(E, e)) = e /\ e \in Range(Path(E, e)) /\ Path(E, e) # <<>>
             /\ Range(Path(E, entries[e].parent)) \subseteq Range(Path(E, e))
  <2>. DEFINE s == Path(E, entries[e].parent)
              t == Path(E, e)
  <2>1. t = Append(s, e) /\ s \in Seq(E)
    BY <1>2, <1>3, <1>4
  <2>. HIDE DEF s, t
  <2>2. /\ Len(s) \in Nat /\ t \in Seq(E) /\ Len(t) = Len(s) + 1 /\ t[Len(s) + 1] = e
        /\ \A i \in 1..Len(s) : t[i] = s[i] /\ i \in 1..Len(t)
        /\ DOMAIN s = 1..Len(s) /\ DOMAIN t = 1..Len(t)
    BY <2>1, AppendProperties
  <2>3. Last(t) = e
    BY <2>2 DEF Last
  <2>4. e \in Range(t)
    BY <2>2 DEF Range
  <2>5. Range(s) \subseteq Range(t)
    BY <2>2 DEF Range
  <2>6. t # <<>>
    BY <2>2
  <2>. QED BY <2>3, <2>4, <2>5, <2>6 DEF s, t
<1>. QED BY <1>4, <1>5 DEF N

\* Where the answer has all turns of a path, walking through
\* the answer's turns only gives the same path: an older entry of the session is
\* in the answer with the newer one.
LEMMA PathsAgree ==
    ASSUME HistoryInv, Answered, NEW m \in Range(Eligible),
           \A e \in Range(Path(Ids, m)) : IsEligible(e)
    PROVE  Path(Range(Eligible), m) = Path(Ids, m)
<1>. DEFINE E == Range(Eligible)
            N == Len(entries)
            Whole(d) == \A e \in Range(Path(Ids, d)) : IsEligible(e)
            Bad == {d \in 0..N : /\ d \in E \/ d \notin Ids
                                 /\ Whole(d) /\ Path(E, d) # Path(Ids, d)}
<1>. USE DEF HistoryInv
<1>1. /\ N \in Nat /\ Bad \in SUBSET (0..N)
      /\ E \in SUBSET Ids /\ Ids \in SUBSET Ids /\ Ids = 1..N
      /\ E = {e \in keys : IsEligible(e)}
  <2>1. Range(got) = keys
    BY DEF Answered, ReadInv
  <2>. QED BY <2>1, EligibleProperties, RangeOfSeq DEF TypeOK, Ids
<1>2. \A d \in Ids : entries[d].parent \in 0..N /\ entries[d].parent < d
  BY <1>1, EntryFields DEF TypeOK
<1>3. \A d \in 0..N :
        /\ Path(E, d) = IF d \in E THEN Append(Path(E, entries[d].parent), d) ELSE <<>>
        /\ Path(Ids, d) =
             IF d \in Ids THEN Append(Path(Ids, entries[d].parent), d) ELSE <<>>
  BY <1>1, PathEquation
<1>4. \A d \in Ids : /\ d \in Range(Path(Ids, d))
                         /\ Range(Path(Ids, entries[d].parent)) \subseteq
                              Range(Path(Ids, d))
  BY <1>1, PathProperties
<1>. HIDE DEF E, N
<1>5. Bad = {}
  <2>1. SUFFICES ASSUME Bad # {} PROVE FALSE
    OBVIOUS
  <2>2. PICK d \in Bad : \A c \in Bad : d <= c
    <3>. HIDE DEF Bad
    <3>. QED BY <1>1, <2>1, HasMin
  <2>3. d \in 0..N /\ Whole(d) /\ Path(E, d) # Path(Ids, d)
    BY <2>2
  <2>4. d \in E
    BY <1>1, <1>3, <2>2, <2>3
  <2>. DEFINE q == entries[d].parent
  <2>5. q \in 0..N /\ q < d /\ d \in Ids
    BY <1>1, <1>2, <2>4
  <2>6. Whole(q)
    BY <1>4, <2>3, <2>5
  <2>7. q \in E \/ q \notin Ids
    <3>1. SUFFICES ASSUME q \in Ids PROVE q \in E
      OBVIOUS
    <3>2. IsEligible(q)
      BY <1>4, <2>6, <3>1
    <3>3. entries[q].session = entries[d].session /\ q \in Ids /\ d \in keys
      BY <1>1, <2>4, <2>5, <3>1 DEF EntriesInv
    <3>4. q \in keys
      <4>1. ListingInv
        BY DEF Answered, ReadInv
      <4>. QED BY <2>5, <3>3, <4>1 DEF ListingInv
    <3>. QED BY <1>1, <3>2, <3>4
  <2>8. q \notin Bad
    <3>1. d \in Int /\ q \in Int
      BY <1>1, <2>3, <2>5
    <3>. QED BY <2>2, <2>5, <3>1
  <2>9. Path(E, q) = Path(Ids, q)
    BY <2>5, <2>6, <2>7, <2>8
  <2>10. Path(E, d) = Append(Path(E, q), d) /\ Path(Ids, d) = Append(Path(Ids, q), d)
    BY <1>3, <2>3, <2>4, <2>5
  <2>. QED BY <2>3, <2>9, <2>10
<1>6. m \in 0..N /\ m \in E
  BY <1>1 DEF E
<1>. QED BY <1>5, <1>6 DEF E

LEMMA HistoryInvWhole ==
    ASSUME HistoryInv
    PROVE  ConversationIsWhole
<1>. USE DEF HistoryInv
<1>1. SUFFICES ASSUME Answered, MainChain # <<>>
               PROVE  /\ \A e \in before \cup Range(Answer) :
                           IsEligible(e) => e = Last(MainChain) \/ Sorts(e, Last(MainChain))
                      /\ (\A e \in Range(Path(Ids, Last(MainChain))) : IsEligible(e))
                         => MainChain = Path(Ids, Last(MainChain))
  BY Zenon DEF ConversationIsWhole
<1>2. Eligible # <<>> /\ MainChain = Path(Range(Eligible), Leaf)
  BY <1>1 DEF MainChain
<1>3. Leaf \in Range(Eligible) /\ \A e \in Range(Eligible) : e = Leaf \/ Sorts(e, Leaf)
  BY <1>2, LeafSortsLast
<1>4. Last(MainChain) = Leaf
  <2>1. Range(Eligible) \in SUBSET Ids
    BY EligibleProperties, RangeOfSeq
  <2>. QED BY <1>2, <1>3, <2>1, PathProperties
<1>5. \A e \in before \cup Range(Answer) : IsEligible(e) => e \in Range(Eligible)
  <2>1. before \subseteq Range(got)
    BY <1>1 DEF Answered, ReadInv, ListingInv
  <2>2. Range(Answer) \subseteq Range(got)
    BY AnswerProperties
  <2>. QED BY <2>1, <2>2, EligibleProperties
<1>6. (\A e \in Range(Path(Ids, Leaf)) : IsEligible(e))
      => MainChain = Path(Ids, Leaf)
  BY <1>1, <1>2, <1>3, PathsAgree
<1>. QED BY <1>3, <1>4, <1>5, <1>6

\* The answer has the parts of the subagent that were stored, and those of one
\* session are in the order they were written.
LEMMA HistoryInvTrace ==
    ASSUME HistoryInv
    PROVE  TraceIsWhole
<1>. USE DEF HistoryInv
<1>1. ASSUME Answered, NEW a
      PROVE  /\ before \cap SideIds(a) \subseteq Range(Trace(a))
             /\ Range(Trace(a)) \subseteq SideIds(a)
             /\ \A i, j \in DOMAIN Trace(a) : i < j => Trace(a)[i] < Trace(a)[j]
  <2>1. /\ Trace(a) \in Seq(Ids) /\ Range(Trace(a)) = Range(Answer) \cap SideIds(a)
        /\ \A i, j \in DOMAIN Trace(a) : i < j => Sorts(Trace(a)[i], Trace(a)[j])
    BY AnswerProperties, KeptSorts DEF Trace
  <2>2. before \subseteq Range(got)
    BY <1>1 DEF Answered, ReadInv, ListingInv
  <2>3. \A d \in SideIds(a) : IsPlain(d)
    BY DEF SideIds, IsPlain
  <2>4. ASSUME NEW i \in DOMAIN Trace(a), NEW j \in DOMAIN Trace(a), i < j
        PROVE  Trace(a)[i] < Trace(a)[j]
    <3>1. /\ Trace(a)[i] \in SideIds(a) /\ Trace(a)[j] \in SideIds(a)
          /\ Sorts(Trace(a)[i], Trace(a)[j])
      BY <2>1, <2>4 DEF Range
    <3>2. /\ entries[Trace(a)[i]].session = entries[Trace(a)[j]].session
          /\ entries[Trace(a)[i]].session \in Nat
      BY <3>1, EntryFields DEF SideIds, TypeOK, EntriesInv, SideKinds
    <3>. QED BY <3>1, <3>2 DEF Sorts
  <2>. QED BY <2>1, <2>2, <2>3, <2>4, AnswerProperties
<1>. QED BY <1>1, Zenon DEF TraceIsWhole

-----------------------------------------------------------------------------
(* Theorems about every behaviour                                          *)

\* Every variable keeps its type, and no key is downloaded twice.
THEOREM HistoryTypeCorrect == HistorySpec => []TypeOK
<1>1. HistoryInv => TypeOK
  BY DEF HistoryInv
<1>. QED BY <1>1, HistoryInvariant, PTL

\* Once DeleteHistory has gone through, the store holds none of the parts that were
\* there when it began to list, for any size of a page, whatever the agent writes
\* between two pages and whether its sandbox lives, dies or is started again.
THEOREM DeletionIsComplete == HistorySpec => []DeletedIsGone
<1>1. HistoryInv => DeletedIsGone
  BY DEF HistoryInv, DeleteInv
<1>. QED BY <1>1, HistoryInvariant, PTL

\* The answer to a history request holds all that was stored when it came, each
\* session's entries in the order they were written.
THEOREM AnswersAreFaithful == HistorySpec => []AnswerIsFaithful
  BY HistoryInvariant, HistoryInvFaithful, PTL

\* The page's main chain ends with the newest turn of the session that sorts last
\* and goes back to the first, for any number of sessions and any tree of entries.
THEOREM ConversationsAreWhole == HistorySpec => []ConversationIsWhole
  BY HistoryInvariant, HistoryInvWhole, PTL

\* An outcome that names its subagent comes with every step of it that was stored,
\* in order, whichever way the parts of the sessions were written among each other.
THEOREM TracesAreWhole == HistorySpec => []TraceIsWhole
  BY HistoryInvariant, HistoryInvTrace, PTL

=============================================================================
