-------------------------- MODULE SortedSetsProofs --------------------------
(***************************************************************************)
(* What Sorted makes of a finite set of numbers: the ranks of its n        *)
(* elements are exactly 0 .. n - 1, so that every position is the place of *)
(* one element; a number above all others is appended, the least one is    *)
(* the head.  The refinement proofs cite these lemmas.                     *)
(***************************************************************************)
EXTENDS SortedSets, FiniteSetTheorems, SequenceTheorems, TLAPS

\* A position of Sorted(S) is a natural number below the cardinality, and a
\* smaller element has a smaller rank.
LEMMA RankBounds ==
    ASSUME NEW S \in SUBSET Nat, IsFiniteSet(S), NEW n \in S
    PROVE  /\ Rank(S, n) \in 0 .. Cardinality(S) - 1
           /\ \A m \in S : m < n => Rank(S, m) < Rank(S, n)
<1> DEFINE Below(m) == {k \in S : k < m}
<1>1. ASSUME NEW m \in S
      PROVE  IsFiniteSet(Below(m)) /\ Cardinality(Below(m)) \in Nat
  BY FS_Subset, FS_CardinalityType
<1>2. Cardinality(Below(n)) < Cardinality(S)
  <2>1. Below(n) \in SUBSET S /\ n \notin Below(n)
    OBVIOUS
  <2>2. Cardinality(Below(n)) <= Cardinality(S) /\ Cardinality(Below(n)) # Cardinality(S)
    BY <2>1, FS_Subset
  <2> QED
    BY <1>1, <2>2, FS_CardinalityType
<1>3. ASSUME NEW m \in S, m < n
      PROVE  Cardinality(Below(m)) < Cardinality(Below(n))
  <2>1. Below(m) \in SUBSET Below(n) /\ m \in Below(n) /\ m \notin Below(m)
    <3>1. m \in Nat /\ n \in Nat /\ ~ (m < m)
      OBVIOUS
    <3>2. \A k \in S : k < m => k < n
      BY <1>3, <3>1
    <3> QED
      BY <1>3, <3>1, <3>2
  <2>2. /\ Cardinality(Below(m)) <= Cardinality(Below(n))
        /\ Cardinality(Below(m)) # Cardinality(Below(n))
    BY <1>1, <2>1, FS_Subset
  <2> QED
    BY <1>1, <2>2
<1> QED
  BY <1>1, <1>2, <1>3, FS_CardinalityType DEF Rank

\* Two elements never have the same rank.
LEMMA RankUnique ==
    ASSUME NEW S \in SUBSET Nat, IsFiniteSet(S), NEW m \in S, NEW n \in S,
           Rank(S, m) = Rank(S, n)
    PROVE  m = n
<1>1. m < n \/ m = n \/ n < m
  OBVIOUS
<1> QED
  BY <1>1, RankBounds

\* Every position is the rank of an element: n different ranks fill 0 .. n - 1.
LEMMA RankOnto ==
    ASSUME NEW S \in SUBSET Nat, IsFiniteSet(S), NEW k \in 0 .. Cardinality(S) - 1
    PROVE  \E n \in S : Rank(S, n) = k
<1> DEFINE T == 0 .. Cardinality(S) - 1
           f == [n \in S |-> Rank(S, n)]
<1>1. Cardinality(S) \in Nat
  BY FS_CardinalityType
<1>2. IsFiniteSet(T) /\ Cardinality(T) = Cardinality(S)
  BY <1>1, FS_Interval
<1>3. f \in Injection(S, T)
  <2>1. f \in [S -> T]
    BY RankBounds
  <2>2. \A a, b \in S : f[a] = f[b] => a = b
    BY RankUnique
  <2> QED
    BY <2>1, <2>2 DEF Injection, IsInjective
<1>4. f \in Surjection(S, T)
  BY <1>2, <1>3, FS_Injection
<1> QED
  BY <1>4 DEF Surjection

\* Sorted puts every element at the place its rank says, and nothing else.
LEMMA SortedAt ==
    ASSUME NEW S \in SUBSET Nat, IsFiniteSet(S)
    PROVE  /\ Cardinality(S) \in Nat
           /\ DOMAIN Sorted(S) = 1 .. Cardinality(S)
           /\ \A i \in 1 .. Cardinality(S) :
                 Sorted(S)[i] \in S /\ Rank(S, Sorted(S)[i]) = i - 1
           /\ \A n \in S : /\ Rank(S, n) + 1 \in 1 .. Cardinality(S)
                           /\ Sorted(S)[Rank(S, n) + 1] = n
<1>1. Cardinality(S) \in Nat
  BY FS_CardinalityType
<1>2. DOMAIN Sorted(S) = 1 .. Cardinality(S)
  BY DEF Sorted
<1>3. ASSUME NEW i \in 1 .. Cardinality(S)
      PROVE  Sorted(S)[i] \in S /\ Rank(S, Sorted(S)[i]) = i - 1
  <2>1. \E n \in S : Rank(S, n) = i - 1
    BY <1>1, RankOnto
  <2>2. Sorted(S)[i] = CHOOSE n \in S : Rank(S, n) = i - 1
    BY DEF Sorted
  <2> QED
    BY <2>1, <2>2
<1>4. ASSUME NEW n \in S
      PROVE  /\ Rank(S, n) + 1 \in 1 .. Cardinality(S)
             /\ Sorted(S)[Rank(S, n) + 1] = n
  <2>1. Rank(S, n) \in Nat /\ Rank(S, n) + 1 \in 1 .. Cardinality(S)
    BY <1>1, RankBounds
  <2> DEFINE m == Sorted(S)[Rank(S, n) + 1]
  <2>2. m \in S /\ Rank(S, m) = (Rank(S, n) + 1) - 1
    BY <1>3, <2>1
  <2>3. Rank(S, m) = Rank(S, n)
    BY <2>1, <2>2
  <2> HIDE DEF m
  <2>4. m = n
    BY <2>2, <2>3, RankUnique
  <2> QED
    BY <2>1, <2>4 DEF m
<1> QED
  BY <1>1, <1>2, <1>3, <1>4

\* Sorted(S) is a sequence of numbers, empty exactly when S is.
LEMMA SortedSeq ==
    ASSUME NEW S \in SUBSET Nat, IsFiniteSet(S)
    PROVE  /\ Sorted(S) \in Seq(Nat)
           /\ Len(Sorted(S)) = Cardinality(S)
           /\ Sorted(S) = <<>> <=> S = {}
<1>1. /\ Cardinality(S) \in Nat
      /\ \A i \in 1 .. Cardinality(S) : Sorted(S)[i] \in S
      /\ Sorted(S) = [i \in 1 .. Cardinality(S) |-> Sorted(S)[i]]
  BY SortedAt DEF Sorted
<1>2. Sorted(S) \in [1 .. Cardinality(S) -> Nat]
  BY <1>1
<1>3. Sorted(S) \in Seq(Nat) /\ Len(Sorted(S)) = Cardinality(S)
  BY <1>1, <1>2
<1>4. Cardinality(S) = 0 <=> S = {}
  BY FS_EmptySet
<1> QED
  BY <1>3, <1>4

\* A number above all others goes to the end.
LEMMA SortedAppend ==
    ASSUME NEW S \in SUBSET Nat, IsFiniteSet(S), NEW n \in Nat, \A m \in S : m < n
    PROVE  Sorted(S \cup {n}) = Append(Sorted(S), n)
<1> DEFINE T == S \cup {n}
           c == Cardinality(S)
<1>1. T \in SUBSET Nat /\ IsFiniteSet(T) /\ Cardinality(T) = c + 1 /\ c \in Nat
  BY FS_AddElement, FS_CardinalityType
<1>2. ASSUME NEW m \in S PROVE Rank(T, m) = Rank(S, m)
  <2>1. m \in Nat /\ m < n /\ ~ (n < m)
    OBVIOUS
  <2>2. {k \in T : k < m} = {k \in S : k < m}
    BY <2>1
  <2> QED
    BY <2>2 DEF Rank
<1>3. Rank(T, n) = c
  <2>1. ~ (n < n)
    OBVIOUS
  <2>2. \A k \in T : k < n <=> k \in S
    BY <2>1
  <2>3. {k \in T : k < n} = S
    BY <2>2
  <2> QED
    BY <2>3 DEF Rank
<1>4. Sorted(T) \in Seq(Nat) /\ Len(Sorted(T)) = c + 1
  BY <1>1, SortedSeq
<1>5. Sorted(S) \in Seq(Nat) /\ Len(Sorted(S)) = c
  BY SortedSeq
<1>6. Sorted(T)[c + 1] = n
  BY <1>1, <1>3, SortedAt
<1>7. ASSUME NEW i \in 1 .. c PROVE Sorted(T)[i] = Sorted(S)[i]
  <2> DEFINE m == Sorted(S)[i]
  <2>1. m \in S /\ Rank(S, m) = i - 1
    BY SortedAt
  <2> HIDE DEF m
  <2>2. Rank(T, m) + 1 = i
    BY <1>1, <1>2, <2>1
  <2>3. Sorted(T)[Rank(T, m) + 1] = m
    BY <1>1, <2>1, SortedAt
  <2> QED
    BY <2>2, <2>3 DEF m
<1>8. /\ Append(Sorted(S), n) \in Seq(Nat)
      /\ Len(Append(Sorted(S), n)) = c + 1
      /\ \A i \in 1 .. c : Append(Sorted(S), n)[i] = Sorted(S)[i]
      /\ Append(Sorted(S), n)[c + 1] = n
  BY <1>5, AppendProperties
<1>9. \A i \in 1 .. c + 1 : Sorted(T)[i] = Append(Sorted(S), n)[i]
  <2>1. \A i \in 1 .. c + 1 : i \in 1 .. c \/ i = c + 1
    BY <1>1
  <2> QED
    BY <1>6, <1>7, <1>8, <2>1
<1> QED
  BY <1>4, <1>8, <1>9, SeqEqual

\* The least number is at the head, the others follow.
LEMMA SortedTail ==
    ASSUME NEW S \in SUBSET Nat, IsFiniteSet(S), NEW n \in S, \A m \in S \ {n} : n < m
    PROVE  /\ Sorted(S) # <<>>
           /\ Head(Sorted(S)) = n
           /\ Tail(Sorted(S)) = Sorted(S \ {n})
<1> DEFINE T == S \ {n}
           c == Cardinality(T)
<1>1. T \in SUBSET Nat /\ IsFiniteSet(T) /\ Cardinality(S) = c + 1 /\ c \in Nat
  <2>1. IsFiniteSet(T) /\ c = Cardinality(S) - 1
    BY FS_RemoveElement
  <2>2. Cardinality(S) \in Nat /\ c \in Nat
    BY <2>1, FS_CardinalityType
  <2> QED
    BY <2>1, <2>2
<1>2. Rank(S, n) = 0
  <2>1. \A k \in S : k \in Nat /\ (k = n \/ n < k)
    OBVIOUS
  <2>2. \A k \in S : ~ (k < n)
    BY <2>1
  <2>3. {k \in S : k < n} = {}
    BY <2>2
  <2> QED
    BY <2>3, FS_EmptySet DEF Rank
<1>3. ASSUME NEW m \in T PROVE Rank(S, m) = Rank(T, m) + 1 /\ Rank(T, m) \in Nat
  <2> DEFINE B == {k \in T : k < m}
  <2>1. n \in Nat /\ n < m
    OBVIOUS
  <2>2. {k \in S : k < m} = B \cup {n} /\ n \notin B /\ B \in SUBSET T
    BY <2>1
  <2>3. IsFiniteSet(B) /\ Cardinality(B) \in Nat
    BY <1>1, <2>2, FS_Subset, FS_CardinalityType
  <2>4. Cardinality(B \cup {n}) = Cardinality(B) + 1
    BY <2>2, <2>3, FS_AddElement
  <2> QED
    BY <2>2, <2>3, <2>4 DEF Rank
<1>4. Sorted(S) \in Seq(Nat) /\ Len(Sorted(S)) = c + 1 /\ Sorted(S) # <<>>
  BY <1>1, SortedSeq
<1>5. Sorted(T) \in Seq(Nat) /\ Len(Sorted(T)) = c
  BY <1>1, SortedSeq
<1>6. Sorted(S)[1] = n
  <2>1. Sorted(S)[0 + 1] = n
    BY <1>2, SortedAt
  <2> QED
    BY <2>1
<1>7. ASSUME NEW i \in 1 .. c PROVE Sorted(S)[i + 1] = Sorted(T)[i]
  <2> DEFINE m == Sorted(T)[i]
  <2>1. m \in T /\ Rank(T, m) = i - 1
    BY <1>1, SortedAt
  <2> HIDE DEF m
  <2>2. Rank(S, m) = Rank(T, m) + 1
    BY <1>3, <2>1
  <2>3. Rank(S, m) = i
    BY <1>1, <2>1, <2>2
  <2>4. Sorted(S)[Rank(S, m) + 1] = m
    BY <2>1, SortedAt
  <2> QED
    BY <2>3, <2>4 DEF m
<1>8. /\ Tail(Sorted(S)) \in Seq(Nat)
      /\ Len(Tail(Sorted(S))) = c
      /\ \A i \in 1 .. c : Tail(Sorted(S))[i] = Sorted(S)[i + 1]
  <2>1. /\ Tail(Sorted(S)) \in Seq(Nat)
        /\ Len(Tail(Sorted(S))) = Len(Sorted(S)) - 1
        /\ \A i \in 1 .. Len(Tail(Sorted(S))) : Tail(Sorted(S))[i] = Sorted(S)[i + 1]
    BY <1>4, HeadTailProperties
  <2>2. Len(Tail(Sorted(S))) = c
    BY <1>1, <1>4, <2>1
  <2> QED
    BY <2>1, <2>2
<1>9. Tail(Sorted(S)) = Sorted(T)
  <2>1. \A i \in 1 .. c : Tail(Sorted(S))[i] = Sorted(T)[i]
    BY <1>7, <1>8
  <2> QED
    BY <1>5, <1>8, <2>1, SeqEqual
<1>10. Head(Sorted(S)) = n
  BY <1>6 DEF Head
<1> QED
  BY <1>4, <1>9, <1>10
=============================================================================
