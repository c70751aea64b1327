--------------------------- MODULE RawFileProofs ---------------------------
(***************************************************************************)
(* What Min and Nth choose, what the pieces of a file are made of, which   *)
(* lines getline finds in what Save wrote or in the beginning of it, and   *)
(* which fields Split finds in such a line.  That each finite set of       *)
(* numbers has an n-th smallest member rests on the well-foundedness of    *)
(* the order of the natural numbers.                                       *)
(***************************************************************************)
EXTENDS RawFile, FiniteSetTheorems, SequenceTheorems, WellFoundedInduction, TLAPS

(* A set of natural numbers has a least member, and Min is it.             *)
LEMMA MinIs ==
    ASSUME NEW S \in SUBSET Nat, S # {}
    PROVE  Min(S) \in S /\ \A s \in S : Min(S) <= s
<1>1. PICK m \in S : \A s \in S : <<s, m>> \notin OpToRel(<, Nat)
  BY WFMin, NatLessThanWellFounded
<1>2. ASSUME NEW s \in S PROVE m <= s
  <2>1. s \in Nat /\ m \in Nat
    OBVIOUS
  <2>2. ~(s < m)
    BY <1>1, <2>1 DEF OpToRel
  <2> QED
    BY <2>1, <2>2
<1> QED
  BY <1>2 DEF Min

(* A bijection from a finite set keeps its size.                           *)
LEMMA SameSize ==
    ASSUME NEW S, NEW T, IsFiniteSet(S), NEW f \in [S -> T],
           \A a, b \in S : f[a] = f[b] => a = b,
           \A t \in T : \E s \in S : f[s] = t
    PROVE  IsFiniteSet(T) /\ Cardinality(T) = Cardinality(S)
<1>1. f \in Bijection(S, T)
  BY DEF Bijection, Injection, Surjection, IsInjective
<1> QED
  BY <1>1, FS_Bijection DEF ExistsBijection

(* The orders of a finite set are the sequences that name each member once. *)
LEMMA OrderIs ==
    ASSUME NEW S, IsFiniteSet(S), NEW order \in SetToSeqs(S)
    PROVE  /\ order \in Seq(S) /\ DOMAIN order = 1 .. Len(order)
           /\ Len(order) = Cardinality(S) /\ Len(order) \in Nat
           /\ {order[i] : i \in 1 .. Len(order)} = S
           /\ \A i, j \in 1 .. Len(order) : order[i] = order[j] => i = j
<1> DEFINE n == Cardinality(S)
<1>1. /\ order \in [1 .. n -> S]
      /\ \A i, j \in 1 .. n : i # j => order[i] # order[j]
  BY DEF SetToSeqs
<1>2. n \in Nat
  BY FS_CardinalityType
<1> HIDE DEF n
<1>3. order \in Seq(S) /\ Len(order) = n /\ DOMAIN order = 1 .. n
  BY <1>1, <1>2
<1>4. IsFiniteSet(1 .. n) /\ Cardinality(1 .. n) = n
  BY <1>2, FS_Interval
<1>5. order \in Injection(1 .. n, S)
  BY <1>1 DEF Injection, IsInjective
<1>6. order \in Surjection(1 .. n, S)
  <2>1. IsFiniteSet(S) /\ Cardinality(1 .. n) = Cardinality(S)
    BY <1>4 DEF n
  <2> QED
    BY <1>5, <2>1, FS_Injection
<1>7. {order[i] : i \in 1 .. n} = S
  <2>1. \A s \in S : \E i \in 1 .. n : order[i] = s
    BY <1>6 DEF Surjection
  <2> QED
    BY <1>1, <2>1
<1> QED
  BY <1>1, <1>2, <1>3, <1>7 DEF n

(* A sequence that names each member of a set once is one of its orders.   *)
LEMMA IsOrder ==
    ASSUME NEW S, NEW order \in Seq(S),
           \A i, j \in 1 .. Len(order) : order[i] = order[j] => i = j,
           \A m \in S : \E i \in 1 .. Len(order) : order[i] = m
    PROVE  IsFiniteSet(S) /\ order \in SetToSeqs(S)
<1> DEFINE n == Len(order)
           f == [i \in 1 .. n |-> order[i]]
<1>1. n \in Nat /\ \A i \in 1 .. n : order[i] \in S
  OBVIOUS
<1>2. order = f
  OBVIOUS
<1>3. f \in [1 .. n -> S]
  BY <1>1
<1> HIDE DEF f
<1>4. \A a, b \in 1 .. n : f[a] = f[b] => a = b
  BY <1>2
<1>5. \A m \in S : \E i \in 1 .. n : f[i] = m
  BY <1>2
<1> HIDE DEF n
<1>6. IsFiniteSet(1 .. n) /\ Cardinality(1 .. n) = n
  BY <1>1, FS_Interval
<1>7. IsFiniteSet(S) /\ Cardinality(S) = n
  <2>1. IsFiniteSet(S) /\ Cardinality(S) = Cardinality(1 .. n)
    BY <1>3, <1>4, <1>5, <1>6, SameSize
  <2> QED
    BY <1>6, <2>1
<1> QED
  BY <1>2, <1>3, <1>4, <1>7 DEF SetToSeqs

(* The members of S up to s: s is the n-th if there are n.                 *)
UpTo(S, s) == {r \in S : r <= s}

(* Two members of a finite set have different ranks.                       *)
LEMMA RankUnique ==
    ASSUME NEW S \in SUBSET Nat, IsFiniteSet(S), NEW a \in S, NEW b \in S,
           Cardinality(UpTo(S, a)) = Cardinality(UpTo(S, b))
    PROVE  a = b
<1>1. ASSUME NEW x \in S, NEW y \in S, x < y,
             Cardinality(UpTo(S, x)) = Cardinality(UpTo(S, y))
      PROVE  FALSE
  <2>1. UpTo(S, y) \in SUBSET S /\ UpTo(S, x) \in SUBSET UpTo(S, y)
    <3>1. \A r \in S : r <= x => r <= y
      BY <1>1
    <3> QED
      BY <3>1 DEF UpTo
  <2>2. IsFiniteSet(UpTo(S, y))
    BY <2>1, FS_Subset
  <2>3. UpTo(S, x) = UpTo(S, y)
    BY <1>1, <2>1, <2>2, FS_Subset
  <2> QED
    BY <1>1, <2>3 DEF UpTo
<1>2. a < b \/ b < a \/ a = b
  OBVIOUS
<1> QED
  BY <1>1, <1>2

(* Nth finds the member with n members up to it.                           *)
LEMMA NthIs ==
    ASSUME NEW S \in SUBSET Nat, IsFiniteSet(S), NEW a \in S
    PROVE  Nth(S, Cardinality(UpTo(S, a))) = a
<1> DEFINE n == Cardinality(UpTo(S, a))
<1>1. Nth(S, n) = CHOOSE s \in S : Cardinality(UpTo(S, s)) = n
  BY DEF Nth, UpTo
<1>2. \A s \in S : Cardinality(UpTo(S, s)) = n => s = a
  BY RankUnique
<1> QED
  BY <1>1, <1>2

(* There is such a member for each n up to the size of the set.            *)
LEMMA RankExists ==
    ASSUME NEW S \in SUBSET Nat, IsFiniteSet(S), NEW n \in 1 .. Cardinality(S)
    PROVE  \E s \in S : Cardinality(UpTo(S, s)) = n
<1>1. Cardinality(S) \in Nat
  BY FS_CardinalityType
<1> DEFINE Bad == {k \in 1 .. Cardinality(S) : \A s \in S : Cardinality(UpTo(S, s)) # k}
<1>2. SUFFICES ASSUME Bad # {} PROVE FALSE
  OBVIOUS
<1>3. Bad \in SUBSET Nat
  BY <1>1
<1>4. PICK k \in Bad : \A j \in Bad : k <= j
  BY <1>2, <1>3, MinIs
<1>5. \E U \in SUBSET S :
         /\ Cardinality(U) = k - 1
         /\ \A u \in U, s \in S : s <= u => s \in U
  <2>1. CASE k = 1
    <3>1. Cardinality({}) = k - 1
      BY <2>1, FS_EmptySet
    <3> QED
      BY <3>1
  <2>2. CASE k # 1
    <3>1. k - 1 \in 1 .. Cardinality(S) /\ k - 1 \notin Bad
      BY <1>1, <1>3, <1>4, <2>2
    <3>2. PICK s \in S : Cardinality(UpTo(S, s)) = k - 1
      BY <3>1
    <3>3. \A u \in UpTo(S, s), r \in S : r <= u => r \in UpTo(S, s)
      BY DEF UpTo
    <3>4. UpTo(S, s) \in SUBSET S
      BY DEF UpTo
    <3> QED
      BY <3>2, <3>3, <3>4
  <2> QED
    BY <2>1, <2>2
<1>6. PICK U \in SUBSET S :
         /\ Cardinality(U) = k - 1
         /\ \A u \in U, s \in S : s <= u => s \in U
  BY <1>5
<1>7. S \ U # {}
  <2>1. k \in 1 .. Cardinality(S)
    OBVIOUS
  <2>2. Cardinality(U) # Cardinality(S)
    BY <1>1, <1>6, <2>1
  <2>3. S \ U = {} => U = S
    OBVIOUS
  <2> QED
    BY <2>2, <2>3
<1> DEFINE m == Min(S \ U)
<1>8. m \in S /\ m \notin U /\ \A s \in S \ U : m <= s
  <2>1. S \ U \in SUBSET Nat
    OBVIOUS
  <2> QED
    BY <1>7, <2>1, MinIs
<1> HIDE DEF m
<1>9. UpTo(S, m) = U \cup {m}
  <2>1. ASSUME NEW u \in U PROVE u <= m
    <3>1. u <= m \/ m <= u
      BY <1>8
    <3> QED
      BY <1>6, <1>8, <3>1
  <2>2. ASSUME NEW s \in S, s <= m PROVE s \in U \cup {m}
    <3>1. CASE s \in S \ U
      BY <1>8, <2>2, <3>1
    <3> QED
      BY <3>1
  <2> QED
    BY <1>8, <2>1, <2>2 DEF UpTo
<1>10. IsFiniteSet(U)
  BY FS_Subset
<1>11. Cardinality(U \cup {m}) = Cardinality(U) + 1
  BY <1>8, <1>10, FS_AddElement
<1>12. Cardinality(UpTo(S, m)) = k
  BY <1>3, <1>6, <1>9, <1>11
<1> QED
  BY <1>8, <1>12

(* The n-th member is a member.                                            *)
LEMMA NthIn ==
    ASSUME NEW S \in SUBSET Nat, IsFiniteSet(S), NEW n \in 1 .. Cardinality(S)
    PROVE  Nth(S, n) \in S /\ Cardinality(UpTo(S, Nth(S, n))) = n
<1>1. PICK s \in S : Cardinality(UpTo(S, s)) = n
  BY RankExists
<1>2. Nth(S, n) = s
  BY <1>1, NthIs
<1> QED
  BY <1>1, <1>2

(* Every member is the n-th for some n.                                    *)
LEMMA NthRank ==
    ASSUME NEW S \in SUBSET Nat, IsFiniteSet(S), NEW a \in S
    PROVE  /\ Cardinality(UpTo(S, a)) \in 1 .. Cardinality(S)
           /\ Nth(S, Cardinality(UpTo(S, a))) = a
<1> DEFINE n == Cardinality(UpTo(S, a))
<1>1. UpTo(S, a) \in SUBSET S /\ a \in UpTo(S, a)
  <2>1. a \in Nat /\ a <= a
    OBVIOUS
  <2> QED
    BY <2>1 DEF UpTo
<1>2. IsFiniteSet(UpTo(S, a)) /\ n <= Cardinality(S) /\ Cardinality(S) \in Nat
  BY <1>1, FS_Subset, FS_CardinalityType
<1>3. n \in Nat /\ n # 0
  BY <1>1, <1>2, FS_CardinalityType, FS_EmptySet
<1>4. Nth(S, n) = a
  BY NthIs
<1> QED
  BY <1>2, <1>3, <1>4

(* A new greatest member comes last and moves no other.                    *)
LEMMA NthGrows ==
    ASSUME NEW S \in SUBSET Nat, IsFiniteSet(S), NEW m \in Nat, \A s \in S : s < m
    PROVE  /\ Cardinality(S \cup {m}) = Cardinality(S) + 1
           /\ Nth(S \cup {m}, Cardinality(S) + 1) = m
           /\ \A n \in 1 .. Cardinality(S) : Nth(S \cup {m}, n) = Nth(S, n)
<1> DEFINE T == S \cup {m}
<1>1. T \in SUBSET Nat /\ m \in T
  OBVIOUS
<1>2. IsFiniteSet(T) /\ Cardinality(T) = Cardinality(S) + 1
  BY FS_AddElement
<1>3. UpTo(T, m) = T
  <2>1. \A r \in T : r <= m
    BY <1>1
  <2> QED
    BY <2>1 DEF UpTo
<1>4. Nth(T, Cardinality(S) + 1) = m
  BY <1>1, <1>2, <1>3, NthIs
<1>5. ASSUME NEW n \in 1 .. Cardinality(S) PROVE Nth(T, n) = Nth(S, n)
  <2>1. Nth(S, n) \in S /\ Cardinality(UpTo(S, Nth(S, n))) = n
    BY NthIn
  <2>2. UpTo(T, Nth(S, n)) = UpTo(S, Nth(S, n))
    <3>1. \E s \in S : s = Nth(S, n) /\ s < m /\ s \in Nat
      BY <2>1
    <3>2. ~(m <= Nth(S, n))
      BY <3>1
    <3> QED
      BY <3>2 DEF UpTo
  <2>3. Nth(S, n) \in T
    BY <2>1
  <2>4. Nth(T, Cardinality(UpTo(T, Nth(S, n)))) = Nth(S, n)
    BY <1>1, <1>2, <2>3, NthIs
  <2> QED
    BY <2>1, <2>2, <2>4
<1> QED
  BY <1>2, <1>4, <1>5

(* The numbers of one set before those of another: first the ones, then    *)
(* the others.                                                             *)
LEMMA NthConcat ==
    ASSUME NEW A \in SUBSET Nat, IsFiniteSet(A), NEW B \in SUBSET Nat, IsFiniteSet(B),
           \A a \in A, b \in B : a < b
    PROVE  /\ Cardinality(A \cup B) = Cardinality(A) + Cardinality(B)
           /\ \A n \in 1 .. Cardinality(A) : Nth(A \cup B, n) = Nth(A, n)
           /\ \A n \in 1 .. Cardinality(B) : Nth(A \cup B, Cardinality(A) + n) = Nth(B, n)
<1>1. A \cup B \in SUBSET Nat /\ IsFiniteSet(A \cup B)
  BY FS_Union
<1>2. Cardinality(A) \in Nat /\ Cardinality(B) \in Nat /\ Cardinality({}) = 0
  BY FS_CardinalityType, FS_EmptySet
<1>3. ASSUME NEW C \in SUBSET B PROVE A \cap C = {}
  <2>1. \A a \in A : a \in Nat /\ ~(a < a)
    OBVIOUS
  <2> QED
    BY <2>1
<1>4. ASSUME NEW C \in SUBSET B, IsFiniteSet(C)
      PROVE  Cardinality(A \cup C) = Cardinality(A) + Cardinality(C)
  <2>1. Cardinality(A \cup C) = Cardinality(A) + Cardinality(C) - Cardinality(A \cap C)
    BY <1>4, FS_Union
  <2>2. Cardinality(A \cap C) = 0
    BY <1>2, <1>3
  <2>3. Cardinality(C) \in Nat
    BY <1>4, FS_CardinalityType
  <2> QED
    BY <1>2, <2>1, <2>2, <2>3
<1>5. Cardinality(A \cup B) = Cardinality(A) + Cardinality(B)
  BY <1>4
<1>6. ASSUME NEW n \in 1 .. Cardinality(A) PROVE Nth(A \cup B, n) = Nth(A, n)
  <2>1. PICK a \in A : a = Nth(A, n) /\ Cardinality(UpTo(A, a)) = n
    BY NthIn
  <2>2. UpTo(A \cup B, a) = UpTo(A, a)
    <3>1. \A b \in B : ~(b <= a)
      <4>1. ASSUME NEW b \in B PROVE ~(b <= a)
        <5>1. a \in Nat /\ b \in Nat /\ a < b
          BY <4>1
        <5> QED
          BY <5>1
      <4> QED
        BY <4>1
    <3> QED
      BY <3>1 DEF UpTo
  <2> QED
    BY <1>1, <2>1, <2>2, NthIs
<1>7. ASSUME NEW n \in 1 .. Cardinality(B)
      PROVE  Nth(A \cup B, Cardinality(A) + n) = Nth(B, n)
  <2>1. PICK b \in B : b = Nth(B, n) /\ Cardinality(UpTo(B, b)) = n
    BY NthIn
  <2>2. UpTo(A \cup B, b) = A \cup UpTo(B, b)
    <3>1. \A a \in A : a <= b
      <4>1. ASSUME NEW a \in A PROVE a <= b
        <5>1. a \in Nat /\ b \in Nat /\ a < b
          BY <4>1
        <5> QED
          BY <5>1
      <4> QED
        BY <4>1
    <3> QED
      BY <3>1 DEF UpTo
  <2>3. UpTo(B, b) \in SUBSET B
    BY DEF UpTo
  <2>4. IsFiniteSet(UpTo(B, b))
    BY <2>3, FS_Subset
  <2>5. Cardinality(UpTo(A \cup B, b)) = Cardinality(A) + n
    BY <1>4, <2>1, <2>2, <2>3, <2>4
  <2>6. b \in A \cup B
    OBVIOUS
  <2> QED
    BY <1>1, <2>1, <2>5, <2>6, NthIs
<1> QED
  BY <1>5, <1>6, <1>7

(* Numbers in a row are found by counting.                                 *)
LEMMA NthOfInterval ==
    ASSUME NEW a \in Nat, NEW b \in Nat, a <= b + 1
    PROVE  /\ a .. b \in SUBSET Nat /\ IsFiniteSet(a .. b)
           /\ Cardinality(a .. b) = b - a + 1
           /\ \A n \in 1 .. b - a + 1 : Nth(a .. b, n) = a + n - 1
<1>1. a .. b \in SUBSET Nat /\ IsFiniteSet(a .. b) /\ Cardinality(a .. b) = b - a + 1
  <2>1. Cardinality(a .. b) = IF a > b THEN 0 ELSE b - a + 1
    BY FS_Interval
  <2>2. IsFiniteSet(a .. b)
    BY FS_Interval
  <2> QED
    BY <2>1, <2>2
<1>2. ASSUME NEW n \in 1 .. b - a + 1 PROVE Nth(a .. b, n) = a + n - 1
  <2> DEFINE m == a + n - 1
  <2>1. m \in a .. b
    OBVIOUS
  <2>2. UpTo(a .. b, m) = a .. m
    BY <2>1 DEF UpTo
  <2>3. Cardinality(a .. m) = n
    <3>1. Cardinality(a .. m) = IF a > m THEN 0 ELSE m - a + 1
      BY <2>1, FS_Interval
    <3> QED
      BY <3>1
  <2> QED
    BY <1>1, <2>1, <2>2, <2>3, NthIs
<1> QED
  BY <1>1, <1>2

(* A later member is a greater one.                                        *)
LEMMA NthAscends ==
    ASSUME NEW S \in SUBSET Nat, IsFiniteSet(S), NEW i \in 1 .. Cardinality(S),
           NEW j \in 1 .. Cardinality(S), i < j
    PROVE  Nth(S, i) < Nth(S, j)
<1>1. PICK a \in S : a = Nth(S, i) /\ Cardinality(UpTo(S, a)) = i
  BY NthIn
<1>2. PICK b \in S : b = Nth(S, j) /\ Cardinality(UpTo(S, b)) = j
  BY NthIn
<1>3. ASSUME b <= a PROVE FALSE
  <2>1. UpTo(S, b) \in SUBSET UpTo(S, a)
    <3>1. \A r \in S : r <= b => r <= a
      BY <1>3
    <3> QED
      BY <3>1 DEF UpTo
  <2>2. UpTo(S, a) \in SUBSET S
    BY DEF UpTo
  <2>3. IsFiniteSet(UpTo(S, a))
    BY <2>2, FS_Subset
  <2>4. j <= i
    BY <1>1, <1>2, <2>1, <2>3, FS_Subset
  <2>5. i \in Int /\ j \in Int
    BY FS_CardinalityType
  <2> QED
    BY <2>4, <2>5
<1>4. a \in Nat /\ b \in Nat
  OBVIOUS
<1> QED
  BY <1>1, <1>2, <1>3, <1>4

(* No member lies between the n-th and the one after it, none before the   *)
(* first and none after the last.                                          *)
LEMMA NthNext ==
    ASSUME NEW S \in SUBSET Nat, IsFiniteSet(S), NEW n \in 0 .. Cardinality(S), NEW r \in S
    PROVE  \/ n > 0 /\ r <= Nth(S, n)
           \/ n < Cardinality(S) /\ Nth(S, n + 1) <= r
<1> DEFINE k == Cardinality(UpTo(S, r))
<1>1. k \in 1 .. Cardinality(S) /\ Nth(S, k) = r
  BY NthRank
<1>2. Cardinality(S) \in Nat /\ r \in Nat
  BY FS_CardinalityType
<1> HIDE DEF k
<1>3. CASE k <= n
  <2>1. n \in 1 .. Cardinality(S) /\ (k < n \/ k = n)
    BY <1>1, <1>2, <1>3
  <2>2. k < n => r < Nth(S, n)
    BY <1>1, <2>1, NthAscends
  <2>3. Nth(S, n) \in Nat
    BY <2>1, NthIn
  <2> QED
    BY <1>1, <1>2, <2>1, <2>2, <2>3
<1>4. CASE k > n
  <2>1. n + 1 \in 1 .. Cardinality(S) /\ (n + 1 < k \/ n + 1 = k) /\ n < Cardinality(S)
    BY <1>1, <1>2, <1>4
  <2>2. n + 1 < k => Nth(S, n + 1) < r
    BY <1>1, <2>1, NthAscends
  <2>3. Nth(S, n + 1) \in Nat
    BY <2>1, NthIn
  <2> QED
    BY <1>1, <1>2, <2>1, <2>2, <2>3
<1>5. k <= n \/ k > n
  BY <1>1, <1>2
<1> QED
  BY <1>3, <1>4, <1>5

-----------------------------------------------------------------------------
(* What is selected are members of the sequence, as many as positions.     *)
LEMMA SelectedIs ==
    ASSUME NEW B, NEW seq \in Seq(B), NEW places \in SUBSET (1 .. Len(seq))
    PROVE  /\ places \in SUBSET Nat /\ IsFiniteSet(places)
           /\ Cardinality(places) \in Nat
           /\ Selected(seq, places) \in Seq(B)
           /\ Len(Selected(seq, places)) = Cardinality(places)
           /\ \A n \in 1 .. Cardinality(places) :
                /\ Nth(places, n) \in places
                /\ Selected(seq, places)[n] = seq[Nth(places, n)]
<1>1. Len(seq) \in Nat
  OBVIOUS
<1>2. places \in SUBSET Nat /\ IsFiniteSet(places)
  <2>1. IsFiniteSet(1 .. Len(seq))
    BY <1>1, FS_Interval
  <2>2. IsFiniteSet(places)
    BY <2>1, FS_Subset
  <2> QED
    BY <1>1, <2>2
<1>3. Cardinality(places) \in Nat
  BY <1>2, FS_CardinalityType
<1>4. \A n \in 1 .. Cardinality(places) : Nth(places, n) \in places
  BY <1>2, NthIn
<1>5. ASSUME NEW n \in 1 .. Cardinality(places) PROVE seq[Nth(places, n)] \in B
  <2>1. Nth(places, n) \in 1 .. Len(seq)
    BY <1>4
  <2> QED
    BY <2>1
<1> QED
  BY <1>2, <1>3, <1>4, <1>5 DEF Selected

(* Every symbol at one of the positions is selected.                       *)
LEMMA SelectedAll ==
    ASSUME NEW B, NEW seq \in Seq(B), NEW places \in SUBSET (1 .. Len(seq)),
           NEW p \in places
    PROVE  \E n \in 1 .. Cardinality(places) : Selected(seq, places)[n] = seq[p]
<1>1. places \in SUBSET Nat /\ IsFiniteSet(places) /\ Cardinality(places) \in Nat
  BY SelectedIs
<1>2. /\ Cardinality(UpTo(places, p)) \in 1 .. Cardinality(places)
      /\ Nth(places, Cardinality(UpTo(places, p))) = p
  BY <1>1, NthRank
<1> QED
  BY <1>2 DEF Selected

(* A run of positions and then the positions after it.                     *)
LEMMA SelectedConcat ==
    ASSUME NEW B, NEW seq \in Seq(B), NEW first \in SUBSET (1 .. Len(seq)),
           NEW second \in SUBSET (1 .. Len(seq)), \A a \in first, b \in second : a < b
    PROVE  Selected(seq, first \cup second) = Selected(seq, first) \o Selected(seq, second)
<1> DEFINE both == first \cup second
           m == Cardinality(first)
           n == Cardinality(second)
           s == Selected(seq, first)
           t == Selected(seq, second)
<1>1. /\ first \in SUBSET Nat /\ IsFiniteSet(first) /\ m \in Nat
      /\ s \in Seq(B) /\ Len(s) = m
      /\ \A i \in 1 .. m : s[i] = seq[Nth(first, i)]
  BY SelectedIs
<1>2. /\ second \in SUBSET Nat /\ IsFiniteSet(second) /\ n \in Nat
      /\ t \in Seq(B) /\ Len(t) = n
      /\ \A i \in 1 .. n : t[i] = seq[Nth(second, i)]
  BY SelectedIs
<1>3. /\ Cardinality(both) = m + n
      /\ \A i \in 1 .. m : Nth(both, i) = Nth(first, i)
      /\ \A i \in 1 .. n : Nth(both, m + i) = Nth(second, i)
  BY <1>1, <1>2, NthConcat
<1>4. both \in SUBSET (1 .. Len(seq))
  OBVIOUS
<1> HIDE DEF both, m, n, s, t
<1>5. /\ Selected(seq, both) \in Seq(B) /\ Len(Selected(seq, both)) = m + n
      /\ \A i \in 1 .. m + n : Selected(seq, both)[i] = seq[Nth(both, i)]
  BY <1>3, <1>4, SelectedIs
<1>6. s \o t \in Seq(B) /\ Len(s \o t) = m + n
  BY <1>1, <1>2
<1>7. ASSUME NEW i \in 1 .. m + n PROVE Selected(seq, both)[i] = (s \o t)[i]
  <2>1. CASE i \in 1 .. m
    <3>1. (s \o t)[i] = s[i]
      BY <1>1, <1>2, <2>1
    <3>2. Selected(seq, both)[i] = seq[Nth(both, i)]
      BY <1>5
    <3> QED
      BY <1>1, <1>3, <2>1, <3>1, <3>2
  <2>2. CASE i \notin 1 .. m
    <3>1. i - m \in 1 .. n /\ i = m + (i - m) /\ i \in 1 .. m + n
      BY <1>1, <1>2, <2>2
    <3>2. (s \o t)[i] = t[i - m]
      BY <1>1, <1>2, <2>2, <3>1
    <3>3. Nth(both, i) = Nth(second, i - m)
      BY <1>3, <3>1
    <3> QED
      BY <1>2, <1>5, <3>1, <3>2, <3>3
  <2> QED
    BY <2>1, <2>2
<1>8. Selected(seq, both) = s \o t
  BY <1>5, <1>6, <1>7, SeqEqual
<1> QED
  BY <1>8 DEF both, s, t

(* Positions in a row select a piece of the sequence.                      *)
LEMMA SelectedInterval ==
    ASSUME NEW B, NEW seq \in Seq(B), NEW a \in 1 .. Len(seq) + 1, NEW b \in 0 .. Len(seq),
           a <= b + 1
    PROVE  Selected(seq, a .. b) = SubSeq(seq, a, b)
<1>1. /\ Cardinality(a .. b) = b - a + 1
      /\ \A n \in 1 .. b - a + 1 : Nth(a .. b, n) = a + n - 1
  BY NthOfInterval
<1>2. Selected(seq, a .. b) = [n \in 1 .. b - a + 1 |-> seq[a + n - 1]]
  BY <1>1 DEF Selected
<1>3. SubSeq(seq, a, b) = [n \in 1 .. b - a + 1 |-> seq[a + n - 1]]
  OBVIOUS
<1> QED
  BY <1>2, <1>3

-----------------------------------------------------------------------------
(* A piece ends before the mark.                                           *)
LEMMA PieceHasNoMark ==
    ASSUME NEW B, NEW bytes \in Seq(B), NEW start \in 1 .. Len(bytes) + 1, NEW mark
    PROVE  Piece(bytes, start, mark) \in Seq(B \ {mark})
<1> DEFINE marks == {i \in start .. Len(bytes) : bytes[i] = mark}
           e == Min(marks \cup {Len(bytes) + 1})
<1>1. Len(bytes) \in Nat /\ marks \cup {Len(bytes) + 1} \in SUBSET Nat
  OBVIOUS
<1>2. /\ e \in marks \cup {Len(bytes) + 1}
      /\ \A i \in marks \cup {Len(bytes) + 1} : e <= i
  BY <1>1, MinIs
<1> HIDE DEF e
<1>3. e \in start .. Len(bytes) + 1
  BY <1>1, <1>2
<1>4. ASSUME NEW i \in start .. e - 1 PROVE bytes[i] \in B \ {mark}
  <2>1. i \in start .. Len(bytes) /\ i \in 1 .. Len(bytes) /\ ~(e <= i)
    BY <1>1, <1>3
  <2> QED
    BY <1>2, <2>1
<1>5. \A k \in 1 .. (e - 1) - start + 1 : bytes[start + k - 1] \in B \ {mark}
  BY <1>1, <1>3, <1>4
<1>6. SubSeq(bytes, start, e - 1)
        = [k \in 1 .. (e - 1) - start + 1 |-> bytes[start + k - 1]]
  BY <1>1, <1>3
<1> DEFINE n == (e - 1) - start + 1
<1>7. SubSeq(bytes, start, e - 1) \in Seq(B \ {mark})
  <2>1. n \in Nat
    BY <1>1, <1>3
  <2>2. SubSeq(bytes, start, e - 1) \in [1 .. n -> B \ {mark}]
    BY <1>5, <1>6
  <2> HIDE DEF n
  <2>3. SubSeq(bytes, start, e - 1) \in UNION {[1 .. k -> B \ {mark}] : k \in Nat}
    BY <2>1, <2>2
  <2> QED
    BY <2>3, SeqDef, Zenon
<1> QED
  BY <1>7 DEF Piece, e

(* As many pieces as beginnings.                                           *)
LEMMA PiecesHaveNoMark ==
    ASSUME NEW B, NEW bytes \in Seq(B), NEW mark,
           NEW starts \in SUBSET (1 .. Len(bytes) + 1)
    PROVE  Pieces(bytes, starts, mark) \in Seq(Seq(B \ {mark}))
<1>1. IsFiniteSet(1 .. Len(bytes) + 1) /\ starts \in SUBSET Nat
  BY FS_Interval
<1>2. IsFiniteSet(starts) /\ Cardinality(starts) \in Nat
  BY <1>1, FS_Subset, FS_CardinalityType
<1>3. ASSUME NEW n \in 1 .. Cardinality(starts)
      PROVE  Piece(bytes, Nth(starts, n), mark) \in Seq(B \ {mark})
  <2>1. Nth(starts, n) \in starts
    BY <1>1, <1>2, NthIn
  <2> QED
    BY <2>1, PieceHasNoMark
<1> QED
  BY <1>2, <1>3 DEF Pieces

(* getline returns sequences of bytes without a '\n' (index.hpp:89,        *)
(* util.hpp:25).                                                           *)
LEMMA LinesHaveNoNl ==
    ASSUME NEW B, NEW file \in Seq(B)
    PROVE  Lines(file) \in Seq(Seq(B \ {Nl}))
<1>1. ({1} \cup {i + 1 : i \in Marks(file, Nl)}) \ NoLine(file)
        \in SUBSET (1 .. Len(file) + 1)
  BY DEF Marks
<1> QED
  BY <1>1, PiecesHaveNoMark DEF Lines

(* Where the getline loop begins its lines, and where it is before the     *)
(* n-th: after the last line at the end of the file.                       *)
LineStarts(file) == ({1} \cup {i + 1 : i \in Marks(file, Nl)}) \ NoLine(file)

LineBegin(file, n) ==
    IF n <= Cardinality(LineStarts(file)) THEN Nth(LineStarts(file), n) ELSE Len(file) + 1

(* The beginnings of lines are positions of the file.                      *)
LEMMA LineStartsAre ==
    ASSUME NEW B, NEW file \in Seq(B)
    PROVE  /\ LineStarts(file) \in SUBSET (1 .. Len(file))
           /\ LineStarts(file) \in SUBSET Nat /\ IsFiniteSet(LineStarts(file))
           /\ Cardinality(LineStarts(file)) \in Nat
           /\ Len(Lines(file)) = Cardinality(LineStarts(file))
<1>1. Len(file) \in Nat /\ DOMAIN file = 1 .. Len(file)
  OBVIOUS
<1>2. LineStarts(file) \in SUBSET (1 .. Len(file))
  BY <1>1 DEF LineStarts, Marks, NoLine
<1>3. IsFiniteSet(1 .. Len(file))
  BY <1>1, FS_Interval
<1>4. IsFiniteSet(LineStarts(file)) /\ Cardinality(LineStarts(file)) \in Nat
  BY <1>2, <1>3, FS_Subset, FS_CardinalityType
<1>5. Len(Lines(file)) = Cardinality(LineStarts(file))
  BY <1>4 DEF Lines, Pieces, LineStarts
<1> QED
  BY <1>1, <1>2, <1>4, <1>5

(* The first line begins with the file.                                    *)
LEMMA FirstLine ==
    ASSUME NEW B, NEW file \in Seq(B)
    PROVE  LineBegin(file, 1) = 1
<1> DEFINE S == LineStarts(file)
<1>1. /\ S \in SUBSET (1 .. Len(file)) /\ S \in SUBSET Nat /\ IsFiniteSet(S)
      /\ Cardinality(S) \in Nat /\ Len(file) \in Nat
  BY LineStartsAre
<1>2. CASE Len(file) = 0
  <2>1. S = {}
    BY <1>1, <1>2
  <2> QED
    BY <1>2, <2>1, FS_EmptySet DEF LineBegin
<1>3. CASE Len(file) # 0
  <2>1. 1 \in S
    BY <1>1, <1>3 DEF LineStarts, NoLine
  <2>2. 0 < Cardinality(S) /\ Nth(S, 0 + 1) <= 1
    BY <1>1, <2>1, NthNext
  <2>3. 1 \in 1 .. Cardinality(S) /\ Nth(S, 1) <= 1
    BY <1>1, <2>2
  <2>4. Nth(S, 1) \in 1 .. Len(file)
    BY <1>1, <2>3, NthIn
  <2> QED
    BY <2>3, <2>4 DEF LineBegin
<1> QED
  BY <1>2, <1>3

(* The n-th line goes to the end of the file or to the '\n' before the     *)
(* next line.                                                              *)
LEMMA LineIs ==
    ASSUME NEW B, NEW file \in Seq(B), NEW n \in 1 .. Len(Lines(file))
    PROVE  \E e \in LineBegin(file, n) .. Len(file) + 1 :
             /\ LineBegin(file, n) \in 1 .. Len(file)
             /\ Lines(file)[n] = SubSeq(file, LineBegin(file, n), e - 1)
             /\ \A i \in LineBegin(file, n) .. e - 1 : file[i] # Nl
             /\ \/ e = Len(file) + 1 /\ LineBegin(file, n + 1) = e
                \/ e <= Len(file) /\ file[e] = Nl /\ LineBegin(file, n + 1) = e + 1
<1> DEFINE S == LineStarts(file)
           b == LineBegin(file, n)
           marks == {i \in b .. Len(file) : file[i] = Nl}
           e == Min(marks \cup {Len(file) + 1})
<1>1. /\ S \in SUBSET (1 .. Len(file)) /\ S \in SUBSET Nat /\ IsFiniteSet(S)
      /\ Cardinality(S) \in Nat /\ Len(file) \in Nat /\ DOMAIN file = 1 .. Len(file)
      /\ Len(Lines(file)) = Cardinality(S)
  BY LineStartsAre
<1>2. b = Nth(S, n) /\ b \in S /\ b \in 1 .. Len(file)
  <2>1. n \in 1 .. Cardinality(S) /\ n <= Cardinality(S)
    BY <1>1
  <2> QED
    BY <1>1, <2>1, NthIn DEF LineBegin
<1>3. Lines(file)[n] = SubSeq(file, b, e - 1)
  BY <1>1, <1>2 DEF Lines, Pieces, Piece, LineStarts
<1>4. /\ e \in marks \cup {Len(file) + 1}
      /\ \A i \in marks \cup {Len(file) + 1} : e <= i
  <2>1. marks \cup {Len(file) + 1} \in SUBSET Nat
    BY <1>1, <1>2
  <2> QED
    BY <2>1, MinIs
<1> HIDE DEF e
<1>5. e \in b .. Len(file) + 1
  BY <1>1, <1>2, <1>4
<1> HIDE DEF b
<1>6. ASSUME NEW i \in b .. e - 1 PROVE file[i] # Nl
  <2>1. i \in b .. Len(file) /\ ~(e <= i)
    BY <1>1, <1>2, <1>5
  <2> QED
    BY <1>4, <2>1
<1>7. \A r \in S : r <= b \/ e + 1 <= r
  <2>1. ASSUME NEW r \in S, r > b PROVE e + 1 <= r
    <3>1. r # 1 /\ r - 1 \in b .. Len(file)
      BY <1>1, <1>2, <2>1
    <3>2. file[r - 1] = Nl
      BY <1>1, <2>1, <3>1 DEF LineStarts, Marks
    <3>3. e <= r - 1
      BY <1>4, <3>1, <3>2
    <3> QED
      BY <1>1, <1>5, <3>3
  <2>2. \A r \in S : r \in Nat /\ (r <= b \/ r > b)
    BY <1>1, <1>2
  <2> QED
    BY <2>1, <2>2
<1>8. n < Cardinality(S) => LineBegin(file, n + 1) \in S /\ e + 1 <= LineBegin(file, n + 1)
  <2>1. ASSUME n < Cardinality(S)
        PROVE  LineBegin(file, n + 1) \in S /\ e + 1 <= LineBegin(file, n + 1)
    <3>1. n + 1 \in 1 .. Cardinality(S) /\ n \in 1 .. Cardinality(S) /\ n < n + 1
      BY <1>1, <2>1
    <3>2. Nth(S, n + 1) \in S /\ Nth(S, n) < Nth(S, n + 1)
      BY <1>1, <3>1, NthIn, NthAscends
    <3>3. LineBegin(file, n + 1) = Nth(S, n + 1)
      BY <3>1 DEF LineBegin
    <3>4. ~(Nth(S, n + 1) <= b)
      BY <1>1, <1>2, <3>2
    <3> QED
      BY <1>7, <3>2, <3>3, <3>4
  <2> QED
    BY <2>1
<1>9. n >= Cardinality(S) => LineBegin(file, n + 1) = Len(file) + 1 /\ \A r \in S : r <= b
  <2>1. ASSUME n >= Cardinality(S) PROVE \A r \in S : r <= b
    <3>1. n = Cardinality(S) /\ n \in 0 .. Cardinality(S)
      BY <1>1, <2>1
    <3> QED
      BY <1>1, <1>2, <3>1, NthNext
  <2>2. n >= Cardinality(S) => LineBegin(file, n + 1) = Len(file) + 1
    BY <1>1 DEF LineBegin
  <2> QED
    BY <2>1, <2>2
<1>10. CASE e = Len(file) + 1
  <2>1. n >= Cardinality(S)
    BY <1>1, <1>8, <1>10
  <2> QED
    BY <1>2, <1>3, <1>5, <1>6, <1>9, <1>10, <2>1 DEF b
<1>11. CASE e # Len(file) + 1
  <2>1. e \in 1 .. Len(file) /\ e <= Len(file) /\ file[e] = Nl
    BY <1>1, <1>2, <1>4, <1>5, <1>11
  <2>2. LineBegin(file, n + 1) = e + 1
    <3>1. CASE n >= Cardinality(S)
      <4>1. e + 1 \notin S
        BY <1>1, <1>2, <1>5, <1>9, <2>1, <3>1
      <4>2. e + 1 = Len(file) + 1
        BY <1>1, <2>1, <4>1 DEF LineStarts, Marks, NoLine
      <4> QED
        BY <1>9, <3>1, <4>2
    <3>2. CASE n < Cardinality(S)
      <4>1. LineBegin(file, n + 1) = Nth(S, n + 1) /\ LineBegin(file, n + 1) \in 1 .. Len(file)
        BY <1>1, <1>8, <3>2 DEF LineBegin
      <4>2. e + 1 \in S
        BY <1>1, <1>8, <2>1, <3>2, <4>1 DEF LineStarts, Marks, NoLine
      <4>3. Nth(S, n + 1) <= e + 1
        <5>1. n \in 0 .. Cardinality(S) /\ ~(e + 1 <= b)
          BY <1>1, <1>2, <1>5
        <5> QED
          BY <1>1, <1>2, <4>2, <5>1, NthNext
      <4> QED
        BY <1>1, <1>8, <2>1, <3>2, <4>1, <4>3
    <3> QED
      BY <1>1, <3>1, <3>2
  <2> QED
    BY <1>2, <1>3, <1>5, <1>6, <2>1, <2>2 DEF b
<1> QED
  BY <1>10, <1>11

(* The positions before b that hold no '\n'.                               *)
Kept(file, b) == {i \in 1 .. b - 1 : file[i] # Nl}

(* A line more: what stands up to the next line without its line ends.     *)
LEMMA LineJoins ==
    ASSUME NEW B, NEW file \in Seq(B), NEW n \in 1 .. Len(Lines(file))
    PROVE  Selected(file, Kept(file, LineBegin(file, n + 1)))
             = Selected(file, Kept(file, LineBegin(file, n))) \o Lines(file)[n]
<1> DEFINE b == LineBegin(file, n)
<1>1. PICK e \in b .. Len(file) + 1 :
             /\ b \in 1 .. Len(file)
             /\ Lines(file)[n] = SubSeq(file, b, e - 1)
             /\ \A i \in b .. e - 1 : file[i] # Nl
             /\ \/ e = Len(file) + 1 /\ LineBegin(file, n + 1) = e
                \/ e <= Len(file) /\ file[e] = Nl /\ LineBegin(file, n + 1) = e + 1
  BY LineIs
<1> HIDE DEF b
<1>2. Len(file) \in Nat
  OBVIOUS
<1>3. Kept(file, LineBegin(file, n + 1)) = Kept(file, b) \cup (b .. e - 1)
  <2>1. Kept(file, LineBegin(file, n + 1)) = Kept(file, e)
    BY <1>1, <1>2 DEF Kept
  <2>2. \A i : i \in 1 .. e - 1 <=> i \in 1 .. b - 1 \/ i \in b .. e - 1
    BY <1>1, <1>2
  <2> QED
    BY <1>1, <2>1, <2>2 DEF Kept
<1>4. Kept(file, b) \in SUBSET (1 .. Len(file)) /\ (b .. e - 1) \in SUBSET (1 .. Len(file))
  BY <1>1, <1>2 DEF Kept
<1>5. \A i \in Kept(file, b), j \in b .. e - 1 : i < j
  BY <1>1, <1>2 DEF Kept
<1>6. Selected(file, Kept(file, b) \cup (b .. e - 1))
        = Selected(file, Kept(file, b)) \o Selected(file, b .. e - 1)
  BY <1>4, <1>5, SelectedConcat
<1>7. Selected(file, b .. e - 1) = SubSeq(file, b, e - 1)
  <2>1. b \in 1 .. Len(file) + 1 /\ e - 1 \in 0 .. Len(file) /\ b <= (e - 1) + 1
    BY <1>1, <1>2
  <2> QED
    BY <2>1, SelectedInterval
<1> QED
  BY <1>1, <1>3, <1>6, <1>7 DEF b

(* Split returns fields without a '\3' (util.hpp:37-40).                   *)
LEMMA FieldsHaveNoSep ==
    ASSUME NEW B, NEW line \in Seq(B)
    PROVE  Split(line) \in Seq(Seq(B \ {Sep}))
<1>1. {1} \cup {i + 1 : i \in RunEnds(Marks(line, Sep))} \in SUBSET (1 .. Len(line) + 1)
  BY DEF Marks, RunEnds
<1> QED
  BY <1>1, PiecesHaveNoMark DEF Split

-----------------------------------------------------------------------------
(* Any function that joins the sequences one by one tells what FlattenSeq  *)
(* yields.                                                                 *)
LEMMA FlattenIs ==
    ASSUME NEW B, NEW seqs \in Seq(Seq(B)), Len(seqs) # 0,
           NEW f \in [1 .. Len(seqs) -> Seq(B)], f[1] = seqs[1],
           \A i \in 2 .. Len(seqs) : f[i] = f[i - 1] \o seqs[i]
    PROVE  FlattenSeq(seqs) = f[Len(seqs)]
<1> DEFINE D == 1 .. Len(seqs)
           F(g) == [i \in D |-> IF i = 1 THEN seqs[i] ELSE g[i - 1] \o seqs[i]]
           flat == CHOOSE g : g = F(g)
<1>1. Len(seqs) \in Nat /\ Len(seqs) \in D
  OBVIOUS
<1>2. FlattenSeq(seqs) = flat[Len(seqs)]
  BY DEF FlattenSeq
<1>3. f = F(f)
  <2>1. \A i \in D : f[i] = IF i = 1 THEN seqs[i] ELSE f[i - 1] \o seqs[i]
    <3>1. \A i \in D : i = 1 \/ i \in 2 .. Len(seqs)
      BY <1>1
    <3> QED
      BY <3>1
  <2> QED
    BY <2>1
<1>4. flat = F(flat)
  BY <1>3
<1> HIDE DEF flat
<1>5. \A i \in D : flat[i] = IF i = 1 THEN seqs[i] ELSE flat[i - 1] \o seqs[i]
  BY <1>4
<1> DEFINE Bad == {i \in D : flat[i] # f[i]}
<1>6. Bad = {}
  <2>1. SUFFICES ASSUME Bad # {} PROVE FALSE
    OBVIOUS
  <2>2. Bad \in SUBSET Nat
    OBVIOUS
  <2> DEFINE k == Min(Bad)
  <2>3. k \in Bad /\ \A i \in Bad : k <= i
    BY <2>1, <2>2, MinIs
  <2> HIDE DEF k
  <2>4. k \in D /\ flat[k] # f[k]
    BY <2>3
  <2>5. k # 1
    BY <1>5, <2>4
  <2>6. k \in 2 .. Len(seqs) /\ k - 1 \in D /\ ~(k <= k - 1)
    BY <1>1, <2>4, <2>5
  <2>7. flat[k - 1] = f[k - 1]
    BY <2>3, <2>6
  <2> QED
    BY <1>5, <2>4, <2>5, <2>6, <2>7
<1> QED
  BY <1>1, <1>2, <1>6

(* The sequences can be joined one by one.                                 *)
LEMMA FlattenSteps ==
    ASSUME NEW B, NEW seqs \in Seq(Seq(B))
    PROVE  \E f \in [0 .. Len(seqs) -> Seq(B)] :
             /\ f[0] = <<>>
             /\ \A i \in 1 .. Len(seqs) : f[i] = f[i - 1] \o seqs[i]
<1> DEFINE n == Len(seqs)
           Joins(f, k) == /\ f \in [0 .. k -> Seq(B)] /\ f[0] = <<>>
                          /\ \A i \in 1 .. k : f[i] = f[i - 1] \o seqs[i]
           Bad == {k \in 0 .. n : ~ \E f : Joins(f, k)}
<1>1. n \in Nat /\ \A i \in 1 .. n : seqs[i] \in Seq(B)
  OBVIOUS
<1> HIDE DEF n
<1>2. Bad = {}
  <2>1. SUFFICES ASSUME Bad # {} PROVE FALSE
    OBVIOUS
  <2>2. Bad \in SUBSET Nat
    <3> HIDE DEF Joins
    <3>1. Bad \in SUBSET (0 .. n) /\ 0 .. n \in SUBSET Nat
      BY <1>1
    <3> QED
      BY <3>1
  <2> DEFINE k == Min(Bad)
  <2>3. k \in Bad /\ \A i \in Bad : k <= i
    BY <2>1, <2>2, MinIs
  <2> HIDE DEF k
  <2>4. k \in 0 .. n /\ ~ \E f : Joins(f, k)
    BY <2>3
  <2>5. CASE k = 0
    <3>1. Joins([i \in 0 .. 0 |-> <<>>], 0)
      OBVIOUS
    <3> QED
      BY <2>4, <2>5, <3>1
  <2>6. CASE k # 0
    <3>1. k \in 1 .. n /\ k - 1 \in 0 .. n /\ ~(k <= k - 1)
      BY <1>1, <2>4, <2>6
    <3>2. PICK f : Joins(f, k - 1)
      BY <2>3, <3>1
    <3> DEFINE g == [i \in 0 .. k |-> IF i = k THEN f[k - 1] \o seqs[k] ELSE f[i]]
    <3>3. f[k - 1] \in Seq(B) /\ seqs[k] \in Seq(B)
      BY <1>1, <3>1, <3>2
    <3>4. \A i \in 0 .. k : i # k => i \in 0 .. k - 1
      BY <3>1
    <3>5. g \in [0 .. k -> Seq(B)]
      <4>1. f[k - 1] \o seqs[k] \in Seq(B)
        BY <3>3, ConcatProperties
      <4>2. \A i \in 0 .. k - 1 : f[i] \in Seq(B)
        BY <3>2
      <4> QED
        BY <3>4, <4>1, <4>2
    <3>6. g[0] = <<>>
      BY <3>1, <3>2
    <3>7. ASSUME NEW i \in 1 .. k PROVE g[i] = g[i - 1] \o seqs[i]
      <4>1. i - 1 \in 0 .. k /\ i - 1 # k /\ i \in 0 .. k
        BY <3>1
      <4>2. g[i - 1] = f[i - 1]
        BY <4>1
      <4>3. CASE i = k
        BY <4>1, <4>2, <4>3
      <4>4. CASE i # k
        <5>1. i \in 1 .. k - 1 /\ g[i] = f[i]
          BY <3>1, <4>1, <4>4
        <5> QED
          BY <3>2, <4>2, <5>1
      <4> QED
        BY <4>3, <4>4
    <3> HIDE DEF g
    <3>8. Joins(g, k)
      BY <3>5, <3>6, <3>7
    <3> QED
      BY <2>4, <3>8
  <2> QED
    BY <2>5, <2>6
<1>3. n \in 0 .. n
  BY <1>1
<1>4. PICK f : Joins(f, n)
  BY <1>2, <1>3
<1> QED
  BY <1>4 DEF n

(* Documents as the parser writes them, over the bytes B.                  *)
Docs(B) == Seq([title : Seq(B), content : Seq(B), url : Seq(B)])

(* The bytes of the first k records.                                       *)
First(docs, k) == Save(SubSeq(docs, 1, k))

(* Save writes record after record.                                        *)
LEMMA SaveSteps ==
    ASSUME NEW B, {Sep, Nl} \subseteq B, NEW docs \in Docs(B)
    PROVE  /\ First(docs, 0) = <<>> /\ First(docs, Len(docs)) = Save(docs)
           /\ \A k \in 0 .. Len(docs) : First(docs, k) \in Seq(B)
           /\ \A k \in 1 .. Len(docs) :
                First(docs, k) = First(docs, k - 1) \o Record(docs[k])
<1> DEFINE n == Len(docs)
           recs == [i \in 1 .. n |-> Record(docs[i])]
<1>1. /\ n \in Nat /\ DOMAIN docs = 1 .. n
      /\ \A i \in 1 .. n : docs[i] \in [title : Seq(B), content : Seq(B), url : Seq(B)]
  <2> DEFINE Doc == [title : Seq(B), content : Seq(B), url : Seq(B)]
  <2>1. docs \in Seq(Doc)
    BY DEF Docs
  <2> HIDE DEF Doc
  <2>2. Len(docs) \in Nat /\ DOMAIN docs = 1 .. Len(docs)
        /\ \A i \in 1 .. Len(docs) : docs[i] \in Doc
    BY <2>1
  <2> QED
    BY <2>2 DEF Doc
<1>2. \A i \in 1 .. n : Record(docs[i]) \in Seq(B)
  <2>1. <<Sep>> \in Seq(B) /\ <<Nl>> \in Seq(B)
    OBVIOUS
  <2> QED
    BY <1>1, <2>1, ConcatProperties DEF Record
<1>3. recs \in Seq(Seq(B)) /\ Len(recs) = n
  BY <1>1, <1>2
<1>4. PICK f \in [0 .. n -> Seq(B)] :
         f[0] = <<>> /\ \A i \in 1 .. n : f[i] = f[i - 1] \o recs[i]
  <2> HIDE DEF recs, n
  <2> QED
    BY <1>3, FlattenSteps
<1>5. ASSUME NEW k \in 0 .. n PROVE First(docs, k) = f[k]
  <2> DEFINE some == [i \in 1 .. k |-> Record(docs[i])]
  <2>1. /\ DOMAIN SubSeq(docs, 1, k) = 1 .. k
        /\ \A i \in 1 .. k : SubSeq(docs, 1, k)[i] = docs[i] /\ i \in 1 .. n
    <3>1. docs \in Seq([title : Seq(B), content : Seq(B), url : Seq(B)])
      BY DEF Docs
    <3> QED
      BY <1>1, <3>1
  <2>2. First(docs, k) = FlattenSeq(some)
    BY <2>1 DEF First, Save
  <2>3. some \in Seq(Seq(B)) /\ Len(some) = k
    BY <1>1, <1>2, <2>1
  <2>4. CASE k = 0
    <3>1. some = <<>>
      BY <2>4
    <3> QED
      BY <1>4, <2>2, <2>4, <3>1 DEF FlattenSeq
  <2>5. CASE k # 0
    <3> DEFINE g == [i \in 1 .. k |-> f[i]]
    <3>1. g \in [1 .. k -> Seq(B)] /\ k \in 1 .. k
      <4>1. \A i \in 1 .. k : i \in 0 .. n
        BY <1>1
      <4>2. k \in 1 .. k
        BY <1>1, <2>5
      <4> QED
        BY <4>1, <4>2
    <3>2. g[1] = some[1]
      <4>1. 1 \in 1 .. k /\ 1 \in 1 .. n /\ 1 - 1 = 0
        BY <1>1, <2>5
      <4>2. recs[1] = Record(docs[1]) /\ Record(docs[1]) \in Seq(B)
        BY <1>2, <4>1
      <4>3. some[1] = Record(docs[1]) /\ g[1] = f[1]
        BY <4>1
      <4> HIDE DEF recs, some, g
      <4>4. f[1] = <<>> \o recs[1]
        BY <1>4, <4>1
      <4> QED
        BY <4>2, <4>3, <4>4, ConcatEmptySeq
    <3>3. \A i \in 2 .. k : g[i] = g[i - 1] \o some[i]
      <4>1. \A i \in 2 .. k : i \in 1 .. n /\ i - 1 \in 1 .. k /\ i \in 1 .. k
        BY <1>1
      <4>2. \A i \in 1 .. n : recs[i] = Record(docs[i])
        OBVIOUS
      <4> HIDE DEF recs
      <4> QED
        BY <1>4, <4>1, <4>2
    <3>4. FlattenSeq(some) = g[k]
      <4> HIDE DEF g, some
      <4> QED
        BY <2>3, <2>5, <3>1, <3>2, <3>3, FlattenIs
    <3> QED
      BY <2>2, <3>1, <3>4
  <2> QED
    BY <2>4, <2>5
<1>6. First(docs, n) = Save(docs)
  <2>1. docs \in Seq([title : Seq(B), content : Seq(B), url : Seq(B)])
    BY DEF Docs
  <2>2. SubSeq(docs, 1, n) = docs
    BY <2>1, SubSeqFull
  <2> QED
    BY <2>2 DEF First
<1>7. \A k \in 1 .. n : k - 1 \in 0 .. n /\ k \in 0 .. n /\ recs[k] = Record(docs[k])
  BY <1>1
<1> HIDE DEF recs, n
<1>8. \A k \in 0 .. n : First(docs, k) \in Seq(B)
  BY <1>4, <1>5
<1>9. \A k \in 1 .. n : First(docs, k) = First(docs, k - 1) \o Record(docs[k])
  BY <1>4, <1>5, <1>7
<1>10. First(docs, 0) = <<>>
  BY <1>1, <1>4, <1>5
<1> QED
  BY <1>6, <1>8, <1>9, <1>10 DEF n

(* More bytes, more documents.                                             *)
LEMMA DocsMonotonic ==
    ASSUME NEW A, NEW B, A \in SUBSET B, NEW docs \in Docs(A)
    PROVE  docs \in Docs(B)
<1>1. Seq(A) \in SUBSET Seq(B)
  BY SeqMonotonic
<1>2. [title : Seq(A), content : Seq(A), url : Seq(A)]
        \in SUBSET [title : Seq(B), content : Seq(B), url : Seq(B)]
  BY <1>1
<1> QED
  BY <1>2, SeqMonotonic DEF Docs

(* What documents are.                                                     *)
LEMMA DocsAre ==
    ASSUME NEW B, NEW docs \in Docs(B)
    PROVE  /\ Len(docs) \in Nat /\ DOMAIN docs = 1 .. Len(docs)
           /\ \A i \in 1 .. Len(docs) :
                /\ docs[i] \in [title : Seq(B), content : Seq(B), url : Seq(B)]
                /\ docs[i].title \in Seq(B) /\ docs[i].content \in Seq(B)
                /\ docs[i].url \in Seq(B)
<1> DEFINE Doc == [title : Seq(B), content : Seq(B), url : Seq(B)]
<1>1. docs \in Seq(Doc)
  BY DEF Docs
<1>2. \A d \in Doc : d.title \in Seq(B) /\ d.content \in Seq(B) /\ d.url \in Seq(B)
  OBVIOUS
<1> HIDE DEF Doc
<1>3. /\ Len(docs) \in Nat /\ DOMAIN docs = 1 .. Len(docs)
      /\ \A i \in 1 .. Len(docs) : docs[i] \in Doc
  BY <1>1
<1> QED
  BY <1>2, <1>3 DEF Doc

(* The first records are the beginning of all.                             *)
LEMMA FirstIsPrefix ==
    ASSUME NEW B, {Sep, Nl} \subseteq B, NEW docs \in Docs(B), NEW k \in 0 .. Len(docs)
    PROVE  \E rest \in Seq(B) : Save(docs) = First(docs, k) \o rest
<1> DEFINE n == Len(docs)
           Bad == {j \in 0 .. n : ~ \E rest \in Seq(B) : Save(docs) = First(docs, n - j) \o rest}
<1>1. n \in Nat /\ \A i \in 1 .. n : Record(docs[i]) \in Seq(B)
  <2>1. <<Sep>> \in Seq(B) /\ <<Nl>> \in Seq(B)
    OBVIOUS
  <2> QED
    BY <2>1, DocsAre, ConcatProperties DEF Record
<1>2. /\ First(docs, n) = Save(docs)
      /\ \A i \in 0 .. n : First(docs, i) \in Seq(B)
      /\ \A i \in 1 .. n : First(docs, i) = First(docs, i - 1) \o Record(docs[i])
  BY SaveSteps
<1> HIDE DEF n
<1>3. Bad = {}
  <2>1. SUFFICES ASSUME Bad # {} PROVE FALSE
    OBVIOUS
  <2>2. Bad \in SUBSET Nat
    BY <1>1
  <2> DEFINE j == Min(Bad)
  <2>3. j \in Bad /\ \A i \in Bad : j <= i
    BY <2>1, <2>2, MinIs
  <2> HIDE DEF j
  <2>4. j \in 0 .. n /\ ~ \E rest \in Seq(B) : Save(docs) = First(docs, n - j) \o rest
    BY <2>3
  <2>5. CASE j = 0
    <3>1. n - j = n /\ n \in 0 .. n
      BY <1>1, <2>5
    <3>2. Save(docs) = First(docs, n) \o <<>>
      BY <1>2, <3>1, ConcatEmptySeq
    <3>3. <<>> \in Seq(B)
      OBVIOUS
    <3>4. Save(docs) = First(docs, n - j) \o <<>>
      BY <3>1, <3>2, Zenon
    <3> QED
      BY <2>4, <3>3, <3>4, Zenon
  <2>6. CASE j # 0
    <3>1. j - 1 \in 0 .. n /\ ~(j <= j - 1) /\ n - (j - 1) = (n - j) + 1
          /\ n - j \in 0 .. n /\ (n - j) + 1 \in 1 .. n /\ ((n - j) + 1) - 1 = n - j
      BY <1>1, <2>4, <2>6
    <3>2. PICK rest \in Seq(B) : Save(docs) = First(docs, (n - j) + 1) \o rest
      BY <2>3, <3>1
    <3> DEFINE i == n - j
               rec == Record(docs[i + 1])
    <3>3. i \in 0 .. n /\ i + 1 \in 1 .. n /\ (i + 1) - 1 = i
      BY <3>1
    <3>4. ~ \E more \in Seq(B) : Save(docs) = First(docs, i) \o more
      BY <2>4
    <3>5. Save(docs) = First(docs, i + 1) \o rest
      BY <3>2
    <3> HIDE DEF i
    <3>6. rec \in Seq(B) /\ First(docs, i) \in Seq(B)
      BY <1>1, <1>2, <3>3
    <3>7. First(docs, i + 1) = First(docs, i) \o rec
      BY <1>2, <3>3
    <3> HIDE DEF rec
    <3>8. (First(docs, i) \o rec) \o rest = First(docs, i) \o (rec \o rest)
      BY <3>6, ConcatAssociative
    <3>9. Save(docs) = First(docs, i) \o (rec \o rest)
      BY <3>5, <3>7, <3>8, Zenon
    <3>10. rec \o rest \in Seq(B)
      BY <3>6, ConcatProperties
    <3> QED
      BY <3>4, <3>9, <3>10, Zenon
  <2> QED
    BY <2>5, <2>6
<1>4. n - k \in 0 .. n /\ n - (n - k) = k
  BY <1>1 DEF n
<1> QED
  BY <1>3, <1>4

(* The line of a document, without its end.                                *)
LineOf(doc) == doc.title \o <<Sep>> \o doc.content \o <<Sep>> \o doc.url

(* The k-th record follows those before it.                                *)
LEMMA RecordAt ==
    ASSUME NEW B, {Sep, Nl} \subseteq B, NEW docs \in Docs(B), NEW k \in 1 .. Len(docs)
    PROVE  LET p == Len(First(docs, k - 1))
               m == Len(LineOf(docs[k]))
           IN /\ p \in Nat /\ m \in Nat /\ LineOf(docs[k]) \in Seq(B)
              /\ Save(docs) \in Seq(B)
              /\ Len(First(docs, k)) = p + m + 1
              /\ p + m + 1 <= Len(Save(docs))
              /\ \A i \in 1 .. m : Save(docs)[p + i] = LineOf(docs[k])[i]
              /\ Save(docs)[p + m + 1] = Nl
<1> DEFINE a == First(docs, k - 1)
           r == LineOf(docs[k])
           e == <<Nl>>
<1>1. k - 1 \in 0 .. Len(docs) /\ k \in 0 .. Len(docs)
  BY DocsAre
<1>2. a \in Seq(B) /\ First(docs, k) \in Seq(B) /\ First(docs, k) = a \o Record(docs[k])
  BY <1>1, SaveSteps
<1>3. r \in Seq(B) /\ e \in Seq(B)
  <2>1. <<Sep>> \in Seq(B) /\ <<Nl>> \in Seq(B)
    OBVIOUS
  <2> QED
    BY <2>1, DocsAre, ConcatProperties DEF LineOf
<1>4. Record(docs[k]) = r \o e
  BY DEF Record, LineOf
<1>5. PICK rest \in Seq(B) : Save(docs) = First(docs, k) \o rest
  BY <1>1, FirstIsPrefix
<1>6. Save(docs) = (a \o (r \o e)) \o rest /\ First(docs, k) = a \o (r \o e)
  BY <1>2, <1>4, <1>5
<1>7. Len(e) = 1 /\ e[1] = Nl
  OBVIOUS
<1> HIDE DEF a, r, e
<1> DEFINE are == a \o (r \o e)
<1> HIDE DEF are
<1>8. /\ r \o e \in Seq(B) /\ Len(r) \in Nat /\ Len(r \o e) = Len(r) + 1
      /\ \A i \in 1 .. Len(r) : (r \o e)[i] = r[i]
      /\ (r \o e)[Len(r) + 1] = Nl
  <2>1. 1 \in 1 .. Len(e)
    BY <1>7
  <2>2. /\ r \o e \in Seq(B) /\ Len(r) \in Nat /\ Len(r \o e) = Len(r) + Len(e)
        /\ \A i \in 1 .. Len(r) : (r \o e)[i] = r[i]
        /\ \A i \in 1 .. Len(e) : (r \o e)[Len(r) + i] = e[i]
    BY <1>3
  <2> QED
    BY <1>7, <2>1, <2>2, Zenon
<1>9. /\ are \in Seq(B) /\ Len(a) \in Nat /\ Len(are) = Len(a) + Len(r \o e)
      /\ \A i \in 1 .. Len(r \o e) : are[Len(a) + i] = (r \o e)[i]
  <2> DEFINE re == r \o e
  <2>1. a \in Seq(B) /\ re \in Seq(B)
    BY <1>2, <1>8
  <2> HIDE DEF re
  <2>2. /\ a \o re \in Seq(B) /\ Len(a) \in Nat /\ Len(a \o re) = Len(a) + Len(re)
        /\ \A i \in 1 .. Len(re) : (a \o re)[Len(a) + i] = re[i]
    BY <2>1
  <2> QED
    BY <2>2 DEF are, re
<1>10. /\ are \o rest \in Seq(B) /\ Len(rest) \in Nat
       /\ Len(are \o rest) = Len(are) + Len(rest)
       /\ \A i \in 1 .. Len(are) : (are \o rest)[i] = are[i]
  <2>1. rest \in Seq(B) /\ are \in Seq(B)
    BY <1>5, <1>9
  <2> QED
    BY <2>1
<1>11. Save(docs) = are \o rest /\ First(docs, k) = are
  BY <1>6 DEF are
<1> DEFINE p == Len(a)
           m == Len(r)
<1>12. /\ p \in Nat /\ m \in Nat /\ Len(rest) \in Nat
       /\ Len(r \o e) = m + 1 /\ Len(are) = p + (m + 1)
       /\ Len(Save(docs)) = p + (m + 1) + Len(rest)
  BY <1>8, <1>9, <1>10, <1>11
<1> HIDE DEF p, m
<1>13. ASSUME NEW i \in 1 .. m + 1 PROVE Save(docs)[p + i] = (r \o e)[i]
  <2>1. p + i \in 1 .. Len(are) /\ i \in 1 .. Len(r \o e)
    BY <1>12
  <2>2. Save(docs)[p + i] = are[p + i]
    BY <1>10, <1>11, <2>1
  <2>3. are[p + i] = (r \o e)[i]
    BY <1>9, <2>1 DEF p
  <2> QED
    BY <2>2, <2>3
<1>14. \A i \in 1 .. m : Save(docs)[p + i] = r[i]
  <2>1. ASSUME NEW i \in 1 .. m PROVE Save(docs)[p + i] = r[i]
    <3>1. i \in 1 .. m + 1
      BY <1>12
    <3>2. (r \o e)[i] = r[i]
      BY <1>8 DEF m
    <3> QED
      BY <1>13, <3>1, <3>2
  <2> QED
    BY <2>1
<1>15. Save(docs)[p + m + 1] = Nl
  <2>1. m + 1 \in 1 .. m + 1 /\ p + (m + 1) = p + m + 1
    BY <1>12
  <2>2. (r \o e)[m + 1] = Nl
    BY <1>8 DEF m
  <2>3. Save(docs)[p + (m + 1)] = (r \o e)[m + 1]
    BY <1>13, <2>1, Zenon
  <2> QED
    BY <2>1, <2>2, <2>3, Zenon
<1>16. Len(First(docs, k)) = p + m + 1 /\ p + m + 1 <= Len(Save(docs))
  BY <1>11, <1>12
<1> QED
  BY <1>3, <1>10, <1>11, <1>12, <1>14, <1>15, <1>16 DEF p, m, a, r

(* The line of a document without '\n' in its fields has none either.      *)
LEMMA LineOfHasNoNl ==
    ASSUME NEW B, {Sep, Nl} \subseteq B, NEW docs \in Docs(B \ {Nl}),
           NEW k \in 1 .. Len(docs)
    PROVE  LineOf(docs[k]) \in Seq(B \ {Nl})
<1>1. <<Sep>> \in Seq(B \ {Nl})
  BY MarkAssumption
<1> QED
  BY <1>1, DocsAre, ConcatProperties DEF LineOf

(* A file that is the beginning of what Save writes: its n-th line begins  *)
(* where the n-th record does, and it is that record if it ends in the     *)
(* file.                                                                   *)
LEMMA LineOfPrefix ==
    ASSUME NEW B, {Sep, Nl} \subseteq B, NEW docs \in Docs(B \ {Nl}),
           NEW a \in Seq(B), NEW rest \in Seq(B), Save(docs) = a \o rest,
           NEW n \in 1 .. Len(Lines(a)), n - 1 \in 0 .. Len(docs),
           LineBegin(a, n) = Len(First(docs, n - 1)) + 1
    PROVE  /\ n \in 1 .. Len(docs)
           /\ Len(First(docs, n)) <= Len(a) =>
                /\ Lines(a)[n] = LineOf(docs[n])
                /\ LineBegin(a, n + 1) = Len(First(docs, n)) + 1
           /\ n < Len(Lines(a)) => Len(First(docs, n)) <= Len(a)
<1> DEFINE b == LineBegin(a, n)
           c == Save(docs)
<1>1. PICK e \in b .. Len(a) + 1 :
         /\ b \in 1 .. Len(a)
         /\ Lines(a)[n] = SubSeq(a, b, e - 1)
         /\ \A i \in b .. e - 1 : a[i] # Nl
         /\ \/ e = Len(a) + 1 /\ LineBegin(a, n + 1) = e
            \/ e <= Len(a) /\ a[e] = Nl /\ LineBegin(a, n + 1) = e + 1
  BY LineIs
<1>2. docs \in Docs(B)
  BY DocsMonotonic
<1>3. /\ Len(docs) \in Nat /\ First(docs, Len(docs)) = Save(docs)
      /\ First(docs, n - 1) \in Seq(B) /\ Len(First(docs, n - 1)) \in Nat
  BY <1>2, DocsAre, SaveSteps
<1>4. /\ Len(a) \in Nat /\ Len(c) = Len(a) + Len(rest) /\ Len(rest) \in Nat
      /\ \A i \in 1 .. Len(a) : c[i] = a[i]
  <2>1. Len(a \o rest) = Len(a) + Len(rest) /\ \A i \in 1 .. Len(a) : (a \o rest)[i] = a[i]
    OBVIOUS
  <2> QED
    BY <2>1
<1>5. Len(Lines(a)) \in Nat
  BY LineStartsAre
<1> HIDE DEF b, c
<1>6. n \in 1 .. Len(docs)
  <2>1. n - 1 # Len(docs)
    <3>1. SUFFICES ASSUME n - 1 = Len(docs) PROVE FALSE
      OBVIOUS
    <3>2. First(docs, n - 1) = c
      BY <1>3, <3>1 DEF c
    <3>3. b = Len(c) + 1 /\ b \in 1 .. Len(a)
      BY <1>1, <3>2 DEF b
    <3> QED
      BY <1>4, <3>3
  <2> QED
    BY <1>3, <1>5, <2>1
<1> DEFINE m == Len(LineOf(docs[n]))
           p == Len(First(docs, n - 1))
<1>7. /\ p \in Nat /\ m \in Nat /\ Len(First(docs, n)) = p + m + 1
      /\ p + m + 1 <= Len(c)
      /\ \A i \in 1 .. m : c[p + i] = LineOf(docs[n])[i]
      /\ c[p + m + 1] = Nl
  BY <1>2, <1>6, RecordAt DEF c
<1>8. LineOf(docs[n]) \in Seq(B \ {Nl})
  BY <1>6, LineOfHasNoNl
<1>9. b = p + 1
  BY DEF b
<1> HIDE DEF m, p
<1>10. \A i \in 1 .. m : c[p + i] # Nl
  <2> DEFINE l == LineOf(docs[n])
  <2>1. l \in Seq(B \ {Nl}) /\ m = Len(l)
    BY <1>8 DEF m
  <2>2. \A i \in 1 .. m : c[p + i] = l[i]
    BY <1>7
  <2> HIDE DEF l
  <2>3. \A i \in 1 .. m : l[i] # Nl
    BY <2>1
  <2> QED
    BY <2>2, <2>3
<1>11. ASSUME p + m + 1 <= Len(a)
       PROVE  e = p + m + 1 /\ e <= Len(a)
  <2>1. a[p + m + 1] = Nl
    BY <1>4, <1>7, <1>11
  <2>2. ~(p + m + 1 \in b .. e - 1)
    BY <1>1, <2>1
  <2>3. p \in Nat /\ m \in Nat /\ b = p + 1 /\ e \in p + 1 .. Len(a) + 1 /\ Len(a) \in Nat
    BY <1>1, <1>4, <1>7, <1>9
  <2>4. e <= p + m + 1
    BY <2>2, <2>3
  <2>5. e = p + m + 1 \/ e - p \in 1 .. m
    BY <2>3, <2>4
  <2>6. e \in 1 .. Len(a) /\ e # Len(a) + 1
    BY <1>11, <2>3, <2>4
  <2>7. c[e] = Nl
    BY <1>1, <1>4, <2>6
  <2>8. e - p \notin 1 .. m
    <3>1. p + (e - p) = e
      BY <2>3
    <3> QED
      BY <1>10, <2>7, <3>1
  <2> QED
    BY <2>5, <2>6, <2>8
<1>12. ASSUME p + m + 1 <= Len(a) PROVE Lines(a)[n] = LineOf(docs[n])
  <2>1. Lines(a)[n] = SubSeq(a, p + 1, p + m)
    <3>1. e - 1 = p + m
      BY <1>7, <1>11, <1>12
    <3> QED
      BY <1>1, <1>9, <3>1
  <2>2. p + 1 \in 1 .. Len(a) + 1 /\ p + m \in 0 .. Len(a) /\ p + m - (p + 1) + 1 = m
    BY <1>4, <1>7, <1>12
  <2>3. SubSeq(a, p + 1, p + m) = [i \in 1 .. m |-> a[p + i]]
    <3>1. p \in Nat /\ m \in Nat /\ p + 1 \in 1 .. Len(a) + 1 /\ p + m \in 0 .. Len(a)
      BY <1>7, <2>2
    <3> QED
      BY <3>1
  <2>4. \A i \in 1 .. m : a[p + i] = LineOf(docs[n])[i]
    <3>1. \A i \in 1 .. m : p + i \in 1 .. Len(a)
      BY <1>4, <1>7, <1>12
    <3> QED
      BY <1>4, <1>7, <3>1
  <2>5. LineOf(docs[n]) = [i \in 1 .. m |-> LineOf(docs[n])[i]]
    <3> DEFINE l == LineOf(docs[n])
    <3>1. l \in Seq(B \ {Nl}) /\ m = Len(l)
      BY <1>8 DEF m
    <3> HIDE DEF l
    <3>2. l = [i \in 1 .. m |-> l[i]]
      BY <3>1
    <3> QED
      BY <3>2 DEF l
  <2>6. SubSeq(a, p + 1, p + m) = LineOf(docs[n])
    BY <2>3, <2>4, <2>5
  <2> QED
    BY <2>1, <2>6
<1>13. p + m + 1 <= Len(a) => LineBegin(a, n + 1) = p + m + 1 + 1
  BY <1>1, <1>4, <1>7, <1>11
<1>14. ASSUME n < Len(Lines(a)) PROVE p + m + 1 <= Len(a)
  <2>1. n + 1 \in 1 .. Len(Lines(a))
    BY <1>5, <1>14
  <2>2. LineBegin(a, n + 1) \in 1 .. Len(a)
    BY <2>1, LineIs
  <2>3. e \in 1 .. Len(a) /\ a[e] = Nl
    <3>1. e # Len(a) + 1
      BY <1>1, <1>4, <2>2
    <3>2. e <= Len(a) /\ a[e] = Nl
      BY <1>1, <3>1
    <3> QED
      BY <1>1, <1>4, <3>2
  <2>4. c[e] = Nl /\ p + (e - p) = e
    BY <1>4, <1>7, <2>3
  <2>5. e - p \notin 1 .. m
    BY <1>10, <2>4
  <2>6. e >= p + 1
    BY <1>1, <1>4, <1>7, <1>9
  <2>7. e - p > m
    <3>1. e \in Int /\ p \in Int /\ m \in Int
      BY <1>7, <2>3
    <3>2. e - p \in Int /\ e - p >= 1
      BY <2>6, <3>1
    <3> QED
      BY <2>5, <3>1, <3>2
  <2> QED
    BY <1>4, <1>7, <2>3, <2>7
<1> QED
  BY <1>6, <1>7, <1>12, <1>13, <1>14

(* The same for all lines.                                                 *)
LEMMA LinesOfPrefix ==
    ASSUME NEW B, {Sep, Nl} \subseteq B, NEW docs \in Docs(B \ {Nl}),
           NEW a \in Seq(B), NEW rest \in Seq(B), Save(docs) = a \o rest,
           NEW n \in 1 .. Len(Lines(a))
    PROVE  /\ n \in 1 .. Len(docs)
           /\ Len(First(docs, n)) <= Len(a) =>
                /\ Lines(a)[n] = LineOf(docs[n])
                /\ LineBegin(a, n + 1) = Len(First(docs, n)) + 1
           /\ n < Len(Lines(a)) => Len(First(docs, n)) <= Len(a)
<1> DEFINE Bad == {k \in 1 .. Len(Lines(a)) :
                     ~ (/\ k - 1 \in 0 .. Len(docs)
                        /\ LineBegin(a, k) = Len(First(docs, k - 1)) + 1)}
<1>1. Len(Lines(a)) \in Nat
  BY LineStartsAre
<1>2. docs \in Docs(B)
  BY DocsMonotonic
<1>3. Len(docs) \in Nat /\ First(docs, 0) = <<>> /\ Len(<<>>) = 0
  BY <1>2, DocsAre, SaveSteps
<1>4. Bad = {}
  <2>1. SUFFICES ASSUME Bad # {} PROVE FALSE
    OBVIOUS
  <2>2. Bad \in SUBSET Nat
    BY <1>1
  <2> DEFINE k == Min(Bad)
  <2>3. k \in Bad /\ \A i \in Bad : k <= i
    BY <2>1, <2>2, MinIs
  <2> HIDE DEF k
  <2>4. /\ k \in 1 .. Len(Lines(a))
        /\ ~ (k - 1 \in 0 .. Len(docs) /\ LineBegin(a, k) = Len(First(docs, k - 1)) + 1)
    BY <2>3
  <2>5. CASE k = 1
    <3>1. LineBegin(a, k) = 1
      BY <2>5, FirstLine
    <3>2. k - 1 = 0 /\ 0 \in 0 .. Len(docs) /\ 1 = 0 + 1
      BY <1>3, <2>5
    <3> QED
      BY <1>3, <2>4, <3>1, <3>2
  <2>6. CASE k # 1
    <3> DEFINE j == k - 1
    <3>1. /\ j \in 1 .. Len(Lines(a)) /\ ~(k <= j) /\ j < Len(Lines(a))
          /\ k = j + 1
      BY <1>1, <2>4, <2>6
    <3>2. ~(j + 1 - 1 \in 0 .. Len(docs) /\ LineBegin(a, j + 1) = Len(First(docs, j + 1 - 1)) + 1)
      BY <2>4, <3>1
    <3>3. j + 1 - 1 = j
      BY <3>1
    <3> HIDE DEF j
    <3>4. j - 1 \in 0 .. Len(docs) /\ LineBegin(a, j) = Len(First(docs, j - 1)) + 1
      BY <2>3, <3>1
    <3>5. /\ j \in 1 .. Len(docs)
          /\ Len(First(docs, j)) <= Len(a) =>
                /\ Lines(a)[j] = LineOf(docs[j])
                /\ LineBegin(a, j + 1) = Len(First(docs, j)) + 1
          /\ j < Len(Lines(a)) => Len(First(docs, j)) <= Len(a)
      BY <3>1, <3>4, LineOfPrefix
    <3>6. j \in 0 .. Len(docs)
      BY <1>3, <3>5
    <3> QED
      BY <3>1, <3>2, <3>3, <3>5, <3>6
  <2> QED
    BY <2>5, <2>6
<1>5. n - 1 \in 0 .. Len(docs) /\ LineBegin(a, n) = Len(First(docs, n - 1)) + 1
  BY <1>4
<1> QED
  BY <1>5, LineOfPrefix

(* getline takes a file apart that Save wrote.                             *)
THEOREM LinesOfSave ==
    ASSUME NEW B, {Sep, Nl} \subseteq B, NEW docs \in Docs(B \ {Nl})
    PROVE  Lines(Save(docs)) = [i \in 1 .. Len(docs) |-> LineOf(docs[i])]
<1> DEFINE c == Save(docs)
           n == Len(docs)
           m == Len(Lines(c))
<1>1. docs \in Docs(B)
  BY DocsMonotonic
<1>2. /\ n \in Nat /\ First(docs, 0) = <<>> /\ First(docs, n) = c
      /\ \A k \in 0 .. n : First(docs, k) \in Seq(B) /\ Len(First(docs, k)) \in Nat
  BY <1>1, DocsAre, SaveSteps
<1>3. c \in Seq(B) /\ Len(c) \in Nat /\ c = c \o <<>> /\ <<>> \in Seq(B)
  <2>1. c \in Seq(B)
    BY <1>2
  <2> HIDE DEF c
  <2> QED
    BY <2>1
<1>4. /\ m \in Nat /\ m = Cardinality(LineStarts(c))
      /\ Lines(c) \in Seq(Seq(B \ {Nl}))
  BY <1>3, LineStartsAre, LinesHaveNoNl
<1>5. \A k \in 1 .. n : /\ Len(First(docs, k)) <= Len(c)
                        /\ Len(First(docs, k - 1)) < Len(First(docs, k))
  <2>1. ASSUME NEW k \in 1 .. n
        PROVE  /\ Len(First(docs, k)) <= Len(c)
               /\ Len(First(docs, k - 1)) < Len(First(docs, k))
    <3> DEFINE p == Len(First(docs, k - 1))
               l == Len(LineOf(docs[k]))
    <3>1. p \in Nat /\ l \in Nat /\ Len(First(docs, k)) = p + l + 1 /\ p + l + 1 <= Len(c)
      BY <1>1, RecordAt
    <3> HIDE DEF p, l
    <3>2. p < Len(First(docs, k)) /\ Len(First(docs, k)) <= Len(c)
      BY <3>1
    <3> QED
      BY <3>2 DEF p
  <2> QED
    BY <2>1
<1>6. ASSUME NEW k \in 1 .. m
      PROVE  /\ k \in 1 .. n /\ Lines(c)[k] = LineOf(docs[k])
             /\ LineBegin(c, k + 1) = Len(First(docs, k)) + 1
  <2> HIDE DEF c
  <2>1. /\ k \in 1 .. n
        /\ Len(First(docs, k)) <= Len(c) =>
                /\ Lines(c)[k] = LineOf(docs[k])
                /\ LineBegin(c, k + 1) = Len(First(docs, k)) + 1
    <3>1. Save(docs) = c \o <<>>
      BY <1>3 DEF c
    <3> QED
      BY <1>3, <3>1, LinesOfPrefix
  <2> QED
    BY <1>5, <2>1
<1> HIDE DEF c, n
<1>7. m <= n
  <2>1. CASE m = 0
    BY <1>2, <2>1
  <2>2. CASE m # 0
    <3>1. m \in 1 .. m
      BY <1>4, <2>2
    <3> QED
      BY <1>2, <1>6, <3>1
  <2> QED
    BY <2>1, <2>2
<1>8. LineBegin(c, m + 1) = Len(First(docs, m)) + 1
  <2>1. CASE m = 0
    <3>1. LineBegin(c, 1) = 1 /\ Len(<<>>) = 0
      BY <1>3, FirstLine
    <3> QED
      BY <1>2, <2>1, <3>1
  <2>2. CASE m # 0
    <3>1. m \in 1 .. m
      BY <1>4, <2>2
    <3> QED
      BY <1>6, <3>1
  <2> QED
    BY <2>1, <2>2
<1>9. m = n
  <2>1. SUFFICES ASSUME m < n PROVE FALSE
    BY <1>2, <1>4, <1>7
  <2>2. LineBegin(c, m + 1) = Len(c) + 1
    <3>1. ~(m + 1 <= Cardinality(LineStarts(c)))
      BY <1>4
    <3> QED
      BY <3>1 DEF LineBegin
  <2>3. m \in 0 .. n /\ m + 1 \in 1 .. n /\ m + 1 \in 0 .. n /\ (m + 1) - 1 = m
    BY <1>2, <1>4, <2>1
  <2>4. Len(First(docs, m + 1)) <= Len(c) /\ Len(First(docs, m)) < Len(First(docs, m + 1))
    BY <1>5, <2>3
  <2>5. Len(First(docs, m)) \in Nat /\ Len(First(docs, m + 1)) \in Nat
    BY <1>2, <2>3
  <2>6. Len(First(docs, m)) + 1 = Len(c) + 1
    BY <1>8, <2>2
  <2> QED
    BY <1>3, <2>4, <2>5, <2>6
<1>10. Lines(c) = [i \in 1 .. n |-> LineOf(docs[i])]
  <2>1. Lines(c) = [i \in 1 .. m |-> Lines(c)[i]]
    BY <1>4
  <2> QED
    BY <1>6, <1>9, <2>1
<1> QED
  BY <1>10 DEF c, n

(* The members of a set at some ranks are found by counting the ranks.     *)
LEMMA NthOfNth ==
    ASSUME NEW A \in SUBSET Nat, IsFiniteSet(A), NEW K \in SUBSET (1 .. Cardinality(A))
    PROVE  LET S == {Nth(A, i) : i \in K}
           IN /\ Cardinality(S) = Cardinality(K)
              /\ \A n \in 1 .. Cardinality(K) : Nth(S, n) = Nth(A, Nth(K, n))
<1> DEFINE S == {Nth(A, i) : i \in K}
<1>1. Cardinality(A) \in Nat
  BY FS_CardinalityType
<1>2. ASSUME NEW i \in K
      PROVE  i \in 1 .. Cardinality(A) /\ i \in Nat /\ Nth(A, i) \in A /\ Nth(A, i) \in Nat
  <2>1. i \in 1 .. Cardinality(A) /\ i \in Nat
    BY <1>1
  <2> QED
    BY <2>1, NthIn
<1>3. K \in SUBSET Nat /\ IsFiniteSet(K)
  <2>1. IsFiniteSet(1 .. Cardinality(A))
    BY <1>1, FS_Interval
  <2> QED
    BY <1>2, <2>1, FS_Subset
<1>4. \A i, j \in K : i < j => Nth(A, i) < Nth(A, j)
  BY <1>2, NthAscends
<1>5. \A i, j \in K : Nth(A, i) = Nth(A, j) => i = j
  <2>1. \A i, j \in K : i < j \/ j < i \/ i = j
    BY <1>2
  <2>2. \A i, j \in K : i < j => Nth(A, i) # Nth(A, j)
    BY <1>2, <1>4
  <2> QED
    BY <2>1, <2>2
<1>6. ASSUME NEW J \in SUBSET K
      PROVE  /\ IsFiniteSet({Nth(A, i) : i \in J})
             /\ Cardinality({Nth(A, i) : i \in J}) = Cardinality(J)
  <2> DEFINE T == {Nth(A, i) : i \in J}
             f == [i \in J |-> Nth(A, i)]
  <2>1. IsFiniteSet(J)
    BY <1>3, FS_Subset
  <2>2. f \in [J -> T] /\ (\A a, b \in J : f[a] = f[b] => a = b)
    BY <1>5
  <2>3. \A t \in T : \E a \in J : f[a] = t
    OBVIOUS
  <2> HIDE DEF f, T
  <2>4. IsFiniteSet(T) /\ Cardinality(T) = Cardinality(J)
    BY <2>1, <2>2, <2>3, SameSize
  <2> QED
    BY <2>4 DEF T
<1>7. S \in SUBSET Nat /\ IsFiniteSet(S) /\ Cardinality(S) = Cardinality(K)
  BY <1>2, <1>6
<1>8. ASSUME NEW n \in 1 .. Cardinality(K) PROVE Nth(S, n) = Nth(A, Nth(K, n))
  <2> DEFINE k == Nth(K, n)
  <2>1. k \in K /\ Cardinality(UpTo(K, k)) = n
    BY <1>3, NthIn
  <2> HIDE DEF k
  <2>2. UpTo(S, Nth(A, k)) = {Nth(A, i) : i \in UpTo(K, k)}
    <3>1. \A i \in K : Nth(A, i) <= Nth(A, k) <=> i <= k
      <4>1. ASSUME NEW i \in K PROVE Nth(A, i) <= Nth(A, k) <=> i <= k
        <5>1. i \in Nat /\ k \in Nat /\ Nth(A, i) \in Nat /\ Nth(A, k) \in Nat
          BY <1>2, <2>1
        <5>2. /\ i < k => Nth(A, i) < Nth(A, k)
              /\ k < i => Nth(A, k) < Nth(A, i)
          BY <1>4, <2>1
        <5> QED
          BY <5>1, <5>2
      <4> QED
        BY <4>1
    <3> QED
      BY <3>1 DEF UpTo
  <2>3. Cardinality(UpTo(S, Nth(A, k))) = n
    <3>1. UpTo(K, k) \in SUBSET K
      BY DEF UpTo
    <3> QED
      BY <1>6, <2>1, <2>2, <3>1
  <2>4. Nth(A, k) \in S
    BY <2>1
  <2> HIDE DEF S
  <2>5. Nth(S, Cardinality(UpTo(S, Nth(A, k)))) = Nth(A, k)
    BY <1>7, <2>4, NthIs
  <2> QED
    BY <2>3, <2>5 DEF k
<1> QED
  BY <1>7, <1>8

(* A piece goes to the first mark.                                         *)
LEMMA PieceIs ==
    ASSUME NEW B, NEW bytes \in Seq(B), NEW start \in 1 .. Len(bytes) + 1, NEW mark,
           NEW e \in start .. Len(bytes) + 1,
           \A i \in start .. e - 1 : bytes[i] # mark,
           e = Len(bytes) + 1 \/ bytes[e] = mark
    PROVE  Piece(bytes, start, mark) = SubSeq(bytes, start, e - 1)
<1> DEFINE ends == {i \in start .. Len(bytes) : bytes[i] = mark} \cup {Len(bytes) + 1}
           m == Min(ends)
<1>1. Len(bytes) \in Nat /\ ends \in SUBSET Nat /\ ends # {}
  OBVIOUS
<1>2. m \in ends /\ \A i \in ends : m <= i
  BY <1>1, MinIs
<1> HIDE DEF m
<1>3. e \in ends
  BY <1>1
<1>4. m <= e /\ m \in start .. Len(bytes) + 1
  BY <1>1, <1>2, <1>3
<1>5. ~(m \in start .. e - 1)
  BY <1>1, <1>2
<1>6. m = e
  BY <1>1, <1>4, <1>5
<1> QED
  BY <1>6 DEF m, Piece

(* A piece is empty exactly if a mark or the end follows at once.          *)
LEMMA PieceIsEmpty ==
    ASSUME NEW B, NEW bytes \in Seq(B), NEW start \in 1 .. Len(bytes) + 1, NEW mark
    PROVE  Piece(bytes, start, mark) = <<>>
             <=> start = Len(bytes) + 1 \/ bytes[start] = mark
<1> DEFINE ends == {i \in start .. Len(bytes) : bytes[i] = mark} \cup {Len(bytes) + 1}
           m == Min(ends)
<1>1. Len(bytes) \in Nat /\ ends \in SUBSET Nat /\ ends # {}
  OBVIOUS
<1>2. m \in ends /\ \A i \in ends : m <= i
  BY <1>1, MinIs
<1> HIDE DEF m
<1>3. m \in start .. Len(bytes) + 1
  BY <1>1, <1>2
<1>4. Piece(bytes, start, mark) = SubSeq(bytes, start, m - 1)
  BY DEF m, Piece
<1>5. SubSeq(bytes, start, m - 1) = <<>> <=> m = start
  <2>1. Len(SubSeq(bytes, start, m - 1)) = m - start
    BY <1>1, <1>3
  <2>2. m = start => SubSeq(bytes, start, m - 1) = <<>>
    BY <1>1, <1>3
  <2>3. SubSeq(bytes, start, m - 1) = <<>> => m - start = 0
    BY <2>1
  <2> QED
    BY <1>1, <1>3, <2>2, <2>3
<1>6. start = Len(bytes) + 1 \/ bytes[start] = mark => start \in ends
  BY <1>1
<1>7. start \in ends => m = start
  BY <1>1, <1>2, <1>3
<1>8. m = start => start = Len(bytes) + 1 \/ bytes[start] = mark
  BY <1>1, <1>2
<1> QED
  BY <1>4, <1>5, <1>6, <1>7, <1>8

(* Split yields the fields of a line but for the empty ones inside.        *)
LEMMA SplitIs ==
    ASSUME NEW B, NEW bytes \in Seq(B)
    PROVE  Split(bytes) = Selected(AllFields(bytes), Outer(AllFields(bytes)))
<1> DEFINE M == Marks(bytes, Sep)
           A == {1} \cup {i + 1 : i \in M}
           S == {1} \cup {i + 1 : i \in RunEnds(M)}
           all == AllFields(bytes)
           K == Outer(all)
           n == Cardinality(A)
           l == Len(bytes)
<1>1. /\ l \in Nat /\ M \in SUBSET (1 .. l) /\ \A i \in 1 .. l : i \in M <=> bytes[i] = Sep
  BY DEF Marks
<1> HIDE DEF M, l
<1>2. A \in SUBSET (1 .. l + 1) /\ A \in SUBSET Nat
  BY <1>1
<1>3. IsFiniteSet(A) /\ n \in Nat
  <2>1. IsFiniteSet(1 .. l + 1)
    BY <1>1, FS_Interval
  <2> HIDE DEF A
  <2> QED
    BY <1>2, <2>1, FS_Subset, FS_CardinalityType
<1>4. /\ DOMAIN all = 1 .. n /\ Len(all) = n
      /\ \A i \in 1 .. n : all[i] = Piece(bytes, Nth(A, i), Sep)
  <2>1. all = [i \in 1 .. n |-> Piece(bytes, Nth(A, i), Sep)]
    BY DEF AllFields, Pieces, M
  <2> HIDE DEF A, n, all
  <2> QED
    BY <1>3, <2>1
<1> HIDE DEF all
<1>5. /\ \A i \in 1 .. n : Nth(A, i) \in A
      /\ \A a \in A : \E i \in 1 .. n : Nth(A, i) = a
      /\ \A i, j \in 1 .. n : i < j => Nth(A, i) < Nth(A, j)
  <2> HIDE DEF A
  <2> QED
    BY <1>2, <1>3, NthIn, NthRank, NthAscends
<1>6. S = {a \in A : a = 1 \/ a \notin M}
  <2>1. \A i \in M : (i + 1) - 1 = i
    BY <1>1
  <2> QED
    BY <1>1, <2>1 DEF RunEnds
<1>7. \A i \in 1 .. n : i \in K <=> i \in {1, n} \/ Piece(bytes, Nth(A, i), Sep) # <<>>
  BY <1>4 DEF Outer
<1>8. K \in SUBSET (1 .. n)
  BY <1>4 DEF Outer
<1>9. \A i \in 1 .. n : Piece(bytes, Nth(A, i), Sep) = <<>>
                          <=> Nth(A, i) = l + 1 \/ Nth(A, i) \in M
  <2>1. ASSUME NEW i \in 1 .. n
        PROVE  Piece(bytes, Nth(A, i), Sep) = <<>> <=> Nth(A, i) = l + 1 \/ Nth(A, i) \in M
    <3> DEFINE a == Nth(A, i)
    <3>1. a \in 1 .. l + 1
      BY <1>2, <1>5
    <3> HIDE DEF a
    <3>2. Piece(bytes, a, Sep) = <<>> <=> a = l + 1 \/ bytes[a] = Sep
      BY <3>1, PieceIsEmpty DEF l
    <3>3. a = l + 1 \/ a \in 1 .. l
      BY <1>1, <3>1
    <3> QED
      BY <1>1, <3>2, <3>3 DEF a
  <2> QED
    BY <2>1
<1> HIDE DEF K, n, S
<1>10. ASSUME NEW i \in 1 .. n PROVE (Nth(A, i) = 1) <=> (i = 1)
  <2>1. 1 \in 1 .. n
    BY <1>3
  <2>2. PICK j \in 1 .. n : Nth(A, j) = 1
    BY <1>5
  <2>3. ~(Nth(A, 1) < 1)
    <3>1. Nth(A, 1) \in 1 .. l + 1
      BY <1>2, <1>5, <2>1, Zenon
    <3> QED
      BY <1>1, <3>1
  <2>4. j = 1
    <3>1. j = 1 \/ 1 < j
      BY <1>3
    <3> QED
      BY <1>5, <2>1, <2>2, <2>3, <3>1
  <2>5. i = 1 \/ 1 < i
    BY <1>3
  <2>6. 1 < i => 1 < Nth(A, i)
    BY <1>5, <2>1, <2>2, <2>4
  <2> QED
    BY <2>2, <2>4, <2>5, <2>6
<1>11. \A i \in 1 .. n : Nth(A, i) = l + 1 => i = n
  <2>1. ASSUME NEW i \in 1 .. n, Nth(A, i) = l + 1, i # n PROVE FALSE
    <3>1. i < n /\ n \in 1 .. n
      BY <1>3, <2>1
    <3>2. l + 1 < Nth(A, n) /\ Nth(A, n) \in 1 .. l + 1
      BY <1>2, <1>5, <2>1, <3>1
    <3> QED
      BY <1>1, <3>2
  <2> QED
    BY <2>1
<1>12. n \in 1 .. n => Nth(A, n) \notin M
  <2>1. SUFFICES ASSUME n \in 1 .. n, Nth(A, n) \in M PROVE FALSE
    OBVIOUS
  <2>2. Nth(A, n) + 1 \in A
    BY <2>1
  <2>3. PICK j \in 1 .. n : Nth(A, j) = Nth(A, n) + 1
    BY <1>5, <2>2
  <2>4. Nth(A, n) \in Nat
    BY <1>2, <1>5, <2>1
  <2>5. j < n \/ j = n
    BY <1>3
  <2>6. j < n => Nth(A, j) < Nth(A, n)
    BY <1>5, <2>1
  <2> QED
    BY <2>3, <2>4, <2>5, <2>6
<1>13. S = {Nth(A, i) : i \in K}
  <2>1. ASSUME NEW i \in 1 .. n PROVE i \in K <=> Nth(A, i) \in S
    <3>1. Nth(A, i) \in S <=> Nth(A, i) = 1 \/ Nth(A, i) \notin M
      BY <1>5, <1>6
    <3>2. l + 1 \notin M
      BY <1>1
    <3>3. i = n => Nth(A, i) \notin M
      BY <1>12
    <3> QED
      BY <1>7, <1>9, <1>10, <1>11, <3>1, <3>2, <3>3
  <2>2. S \in SUBSET A
    BY <1>6
  <2> HIDE DEF A
  <2> QED
    BY <1>5, <1>8, <2>1, <2>2
<1> HIDE DEF A
<1>14. /\ Cardinality(S) = Cardinality(K)
       /\ \A i \in 1 .. Cardinality(K) : Nth(S, i) = Nth(A, Nth(K, i)) /\ Nth(K, i) \in 1 .. n
  <2>1. /\ Cardinality(S) = Cardinality(K)
        /\ \A i \in 1 .. Cardinality(K) : Nth(S, i) = Nth(A, Nth(K, i))
    BY <1>2, <1>3, <1>8, <1>13, NthOfNth DEF n
  <2>2. IsFiniteSet(K) /\ K \in SUBSET Nat
    <3>1. IsFiniteSet(1 .. n)
      BY <1>3, FS_Interval
    <3>2. 1 .. n \in SUBSET Nat
      BY <1>3
    <3> QED
      BY <1>8, <3>1, <3>2, FS_Subset
  <2>3. \A i \in 1 .. Cardinality(K) : Nth(K, i) \in K
    BY <2>2, NthIn
  <2> QED
    BY <1>8, <2>1, <2>3
<1>15. Split(bytes) = [i \in 1 .. Cardinality(S) |-> Piece(bytes, Nth(S, i), Sep)]
  BY DEF Split, Pieces, S, M
<1>16. Selected(all, K) = [i \in 1 .. Cardinality(K) |-> all[Nth(K, i)]]
  BY DEF Selected
<1>17. Split(bytes) = Selected(all, K)
  BY <1>4, <1>14, <1>15, <1>16
<1> QED
  BY <1>17 DEF K, all

(* Where the fields of a document and the separators are in its line.      *)
LEMMA FieldsAt ==
    ASSUME NEW B, Sep \in B, NEW x \in Seq(B), NEW y \in Seq(B), NEW z \in Seq(B), NEW all,
           all = x \o <<Sep>> \o y \o <<Sep>> \o z
    PROVE  /\ all \in Seq(B) /\ Len(x) \in Nat /\ Len(y) \in Nat /\ Len(z) \in Nat
           /\ Len(all) = Len(x) + Len(y) + Len(z) + 2
           /\ \A i \in 1 .. Len(x) : all[i] = x[i]
           /\ all[Len(x) + 1] = Sep
           /\ \A i \in 1 .. Len(y) : all[Len(x) + 1 + i] = y[i]
           /\ all[Len(x) + Len(y) + 2] = Sep
           /\ \A i \in 1 .. Len(z) : all[Len(x) + Len(y) + 2 + i] = z[i]
<1> DEFINE sep == <<Sep>>
<1>1. sep \in Seq(B) /\ Len(sep) = 1 /\ sep[1] = Sep
  OBVIOUS
<1>2. all = ((((x \o sep) \o y) \o sep) \o z)
  OBVIOUS
<1> HIDE DEF sep
<1>3. ASSUME NEW a \in Seq(B), NEW b \in Seq(B)
      PROVE  /\ a \o b \in Seq(B) /\ Len(a \o b) = Len(a) + Len(b)
             /\ Len(a) \in Nat /\ Len(b) \in Nat
             /\ \A i \in 1 .. Len(a) : (a \o b)[i] = a[i]
             /\ \A i \in 1 .. Len(b) : (a \o b)[Len(a) + i] = b[i]
  BY <1>3
<1> DEFINE xs == x \o sep
           xsy == xs \o y
           xsys == xsy \o sep
<1>4. /\ xs \in Seq(B) /\ Len(xs) = Len(x) + Len(sep) /\ Len(x) \in Nat
      /\ \A i \in 1 .. Len(x) : xs[i] = x[i]
      /\ \A i \in 1 .. Len(sep) : xs[Len(x) + i] = sep[i]
  BY <1>1, <1>3, Zenon
<1> HIDE DEF xs
<1>5. /\ xsy \in Seq(B) /\ Len(xsy) = Len(xs) + Len(y) /\ Len(y) \in Nat
      /\ \A i \in 1 .. Len(xs) : xsy[i] = xs[i]
      /\ \A i \in 1 .. Len(y) : xsy[Len(xs) + i] = y[i]
  BY <1>3, <1>4, Zenon
<1> HIDE DEF xsy
<1>6. /\ xsys \in Seq(B) /\ Len(xsys) = Len(xsy) + Len(sep)
      /\ \A i \in 1 .. Len(xsy) : xsys[i] = xsy[i]
      /\ \A i \in 1 .. Len(sep) : xsys[Len(xsy) + i] = sep[i]
  BY <1>1, <1>3, <1>5, Zenon
<1> HIDE DEF xsys
<1>7. all = xsys \o z
  BY <1>2 DEF xs, xsy, xsys
<1>8. /\ all \in Seq(B) /\ Len(all) = Len(xsys) + Len(z) /\ Len(z) \in Nat
      /\ \A i \in 1 .. Len(xsys) : all[i] = xsys[i]
      /\ \A i \in 1 .. Len(z) : all[Len(xsys) + i] = z[i]
  <2>1. /\ xsys \o z \in Seq(B) /\ Len(xsys \o z) = Len(xsys) + Len(z) /\ Len(z) \in Nat
        /\ \A i \in 1 .. Len(xsys) : (xsys \o z)[i] = xsys[i]
        /\ \A i \in 1 .. Len(z) : (xsys \o z)[Len(xsys) + i] = z[i]
    BY <1>3, <1>6, Zenon
  <2> QED
    BY <1>7, <2>1, Zenon
<1> DEFINE p == Len(x)
           q == Len(y)
           r == Len(z)
<1>9. p \in Nat /\ q \in Nat /\ r \in Nat
  BY <1>4, <1>5, <1>8
<1>10. Len(xs) = p + 1 /\ Len(xsy) = p + 1 + q /\ Len(xsys) = p + q + 2 /\ Len(all) = p + q + r + 2
  BY <1>1, <1>4, <1>5, <1>6, <1>8, <1>9
<1> HIDE DEF p, q, r
<1>11. \A i \in 1 .. p : all[i] = x[i]
  <2>1. ASSUME NEW i \in 1 .. p PROVE all[i] = x[i]
    <3>1. i \in 1 .. Len(xs) /\ i \in 1 .. Len(xsy) /\ i \in 1 .. Len(xsys)
      BY <1>9, <1>10
    <3> QED
      BY <1>4, <1>5, <1>6, <1>8, <3>1, Zenon DEF p
  <2> QED
    BY <2>1
<1>12. all[p + 1] = Sep
  <2>1. p + 1 \in 1 .. Len(xs) /\ p + 1 \in 1 .. Len(xsy) /\ p + 1 \in 1 .. Len(xsys)
        /\ 1 \in 1 .. Len(sep)
    BY <1>1, <1>9, <1>10
  <2>2. xs[p + 1] = sep[1]
    BY <1>4, <2>1, Zenon DEF p
  <2> QED
    BY <1>1, <1>5, <1>6, <1>8, <2>1, <2>2, Zenon
<1>13. \A i \in 1 .. q : all[p + 1 + i] = y[i]
  <2>1. ASSUME NEW i \in 1 .. q PROVE all[p + 1 + i] = y[i]
    <3>1. /\ p + 1 + i \in 1 .. Len(xsy) /\ p + 1 + i \in 1 .. Len(xsys)
          /\ Len(xs) + i = p + 1 + i
      BY <1>9, <1>10
    <3>2. xsy[p + 1 + i] = y[i]
      <4>1. xsy[Len(xs) + i] = y[i]
        BY <1>5, Zenon DEF q
      <4> QED
        BY <3>1, <4>1, Zenon
    <3> QED
      BY <1>6, <1>8, <3>1, <3>2, Zenon
  <2> QED
    BY <2>1
<1>14. all[p + q + 2] = Sep
  <2>1. p + q + 2 \in 1 .. Len(xsys) /\ Len(xsy) + 1 = p + q + 2 /\ 1 \in 1 .. Len(sep)
    BY <1>1, <1>9, <1>10
  <2>2. xsys[Len(xsy) + 1] = sep[1]
    BY <1>6, <2>1, Zenon
  <2>3. xsys[p + q + 2] = Sep
    BY <1>1, <2>1, <2>2, Zenon
  <2> QED
    BY <1>8, <2>1, <2>3, Zenon
<1>15. \A i \in 1 .. r : all[p + q + 2 + i] = z[i]
  BY <1>8, <1>10 DEF r
<1> QED
  BY <1>8, <1>9, <1>10, <1>11, <1>12, <1>13, <1>14, <1>15 DEF p, q, r

(* A set of two numbers.                                                   *)
LEMMA TwoNumbers ==
    ASSUME NEW a \in Nat, NEW b \in Nat, a < b
    PROVE  /\ IsFiniteSet({a, b}) /\ Cardinality({a, b}) = 2
           /\ Nth({a, b}, 1) = a /\ Nth({a, b}, 2) = b
<1>1. IsFiniteSet({}) /\ Cardinality({}) = 0 /\ {} \in SUBSET Nat
  BY FS_EmptySet
<1>2. Cardinality({} \cup {a}) = 0 + 1 /\ Nth({} \cup {a}, 0 + 1) = a
  BY <1>1, NthGrows
<1>3. {} \cup {a} = {a}
  OBVIOUS
<1>4. Cardinality({a}) = 1 /\ Nth({a}, 1) = a
  BY <1>2, <1>3
<1>5. IsFiniteSet({a}) /\ {a} \in SUBSET Nat /\ \A c \in {a} : c < b
  BY FS_Singleton
<1>6. /\ Cardinality({a} \cup {b}) = Cardinality({a}) + 1
      /\ Nth({a} \cup {b}, Cardinality({a}) + 1) = b
      /\ \A n \in 1 .. Cardinality({a}) : Nth({a} \cup {b}, n) = Nth({a}, n)
  BY <1>5, NthGrows
<1>7. {a} \cup {b} = {a, b}
  OBVIOUS
<1>8. IsFiniteSet({a, b})
  BY <1>5, <1>7, FS_AddElement
<1> QED
  BY <1>4, <1>6, <1>7, <1>8

(* A set of three numbers.                                                 *)
LEMMA ThreeNumbers ==
    ASSUME NEW a \in Nat, NEW b \in Nat, NEW c \in Nat, a < b, b < c,
           NEW S, S = {a, b, c}
    PROVE  /\ Cardinality(S) = 3
           /\ Nth(S, 1) = a /\ Nth(S, 2) = b /\ Nth(S, 3) = c
<1>1. /\ IsFiniteSet({a, b}) /\ Cardinality({a, b}) = 2
      /\ Nth({a, b}, 1) = a /\ Nth({a, b}, 2) = b
  BY TwoNumbers
<1>2. {a, b} \in SUBSET Nat /\ \A m \in {a, b} : m < c
  OBVIOUS
<1>3. /\ Cardinality({a, b} \cup {c}) = Cardinality({a, b}) + 1
      /\ Nth({a, b} \cup {c}, Cardinality({a, b}) + 1) = c
      /\ \A n \in 1 .. Cardinality({a, b}) : Nth({a, b} \cup {c}, n) = Nth({a, b}, n)
  BY <1>1, <1>2, NthGrows
<1>4. {a, b} \cup {c} = {a, b, c}
  OBVIOUS
<1> QED
  BY <1>1, <1>3, <1>4

(* Split (util.hpp:37-40) takes the line that SaveHtml writes for a        *)
(* document apart again, if no field holds a separator: into its three     *)
(* fields.  But for a document without content, whose separators stand     *)
(* side by side (parser.cc:192-196), there are two, and results[1] is the  *)
(* url (index.hpp:118).                                                    *)
THEOREM SplitLine ==
    ASSUME NEW B, Sep \in B,
           NEW doc \in [title : Seq(B \ {Sep}), content : Seq(B \ {Sep}), url : Seq(B \ {Sep})]
    PROVE  /\ doc.content # <<>> => Split(LineOf(doc)) = <<doc.title, doc.content, doc.url>>
           /\ doc.content = <<>> => Split(LineOf(doc)) = <<doc.title, doc.url>>
<1> DEFINE x == doc.title
           y == doc.content
           z == doc.url
           all == LineOf(doc)
           C == B \ {Sep}
<1>1. x \in Seq(C) /\ y \in Seq(C) /\ z \in Seq(C)
  OBVIOUS
<1>2. all = x \o <<Sep>> \o y \o <<Sep>> \o z
  BY DEF LineOf
<1> HIDE DEF x, y, z, all
<1>3. x \in Seq(B) /\ y \in Seq(B) /\ z \in Seq(B)
  <2>1. C \in SUBSET B
    OBVIOUS
  <2> QED
    BY <1>1, <2>1, SeqMonotonic
<1> DEFINE p == Len(x)
           q == Len(y)
           r == Len(z)
<1>4. /\ all \in Seq(B) /\ p \in Nat /\ q \in Nat /\ r \in Nat
      /\ Len(all) = p + q + r + 2
      /\ \A i \in 1 .. p : all[i] = x[i]
      /\ all[p + 1] = Sep
      /\ \A i \in 1 .. q : all[p + 1 + i] = y[i]
      /\ all[p + q + 2] = Sep
      /\ \A i \in 1 .. r : all[p + q + 2 + i] = z[i]
  <2> HIDE DEF C
  <2>1. Sep \in B
    OBVIOUS
  <2> QED
    BY <1>2, <1>3, <2>1, FieldsAt, SMTT(30)
<1>5. /\ \A i \in 1 .. p : x[i] # Sep
      /\ \A i \in 1 .. q : y[i] # Sep
      /\ \A i \in 1 .. r : z[i] # Sep
  BY <1>1
<1>6. /\ x = [i \in 1 .. p |-> x[i]] /\ y = [i \in 1 .. q |-> y[i]]
      /\ z = [i \in 1 .. r |-> z[i]]
  BY <1>1
<1>7. y = <<>> <=> q = 0
  BY <1>1
<1> HIDE DEF p, q, r, C
<1>8. \A i \in 1 .. p + q + r + 2 : all[i] = Sep <=> i = p + 1 \/ i = p + q + 2
  <2>1. ASSUME NEW i \in 1 .. p + q + r + 2, i # p + 1, i # p + q + 2
        PROVE  all[i] # Sep
    <3>1. \/ i \in 1 .. p
          \/ i - (p + 1) \in 1 .. q /\ i = p + 1 + (i - (p + 1))
          \/ i - (p + q + 2) \in 1 .. r /\ i = p + q + 2 + (i - (p + q + 2))
      BY <1>4, <2>1
    <3>2. i \in 1 .. p => all[i] # Sep
      BY <1>4, <1>5, Zenon
    <3>3. ASSUME NEW j \in 1 .. q PROVE all[p + 1 + j] # Sep
      BY <1>4, <1>5, Zenon
    <3>4. ASSUME NEW j \in 1 .. r PROVE all[p + q + 2 + j] # Sep
      BY <1>4, <1>5, Zenon
    <3> QED
      BY <3>1, <3>2, <3>3, <3>4
  <2> QED
    BY <1>4, <2>1
<1>9. Marks(all, Sep) = {p + 1, p + q + 2}
  <2>1. DOMAIN all = 1 .. p + q + r + 2
    BY <1>4
  <2>2. p + 1 \in 1 .. p + q + r + 2 /\ p + q + 2 \in 1 .. p + q + r + 2
    BY <1>4
  <2> QED
    BY <1>8, <2>1, <2>2 DEF Marks
<1> DEFINE ends == RunEnds(Marks(all, Sep))
           starts == {1} \cup {i + 1 : i \in ends}
<1>10. Split(all) = [n \in 1 .. Cardinality(starts) |-> Piece(all, Nth(starts, n), Sep)]
  BY DEF Split, Pieces
<1> HIDE DEF ends
<1>11. CASE q = 0
  <2>1. ends = {p + 2}
    <3>1. /\ p + 1 \in Nat /\ p + q + 2 = p + 2 /\ (p + 1) + 1 = p + 2
          /\ (p + 2) + 1 # p + 1 /\ (p + 2) + 1 # p + 2 /\ p + 1 # p + 2
      BY <1>4, <1>11
    <3> QED
      BY <1>9, <3>1 DEF RunEnds, ends
  <2>2. starts = {1, p + 3} /\ 1 < p + 3 /\ p + 3 \in Nat
    BY <1>4, <2>1
  <2> HIDE DEF starts
  <2>3. Cardinality(starts) = 2 /\ Nth(starts, 1) = 1 /\ Nth(starts, 2) = p + 3
    BY <2>2, TwoNumbers
  <2>4. Piece(all, 1, Sep) = x
    <3>1. /\ 1 \in 1 .. Len(all) + 1 /\ p + 1 \in 1 .. Len(all) + 1
          /\ \A i \in 1 .. (p + 1) - 1 : all[i] # Sep
      BY <1>4, <1>8
    <3>2. Piece(all, 1, Sep) = SubSeq(all, 1, (p + 1) - 1)
      BY <1>4, <3>1, PieceIs
    <3>3. SubSeq(all, 1, (p + 1) - 1) = [i \in 1 .. p |-> all[i]]
      BY <1>4
    <3> QED
      BY <1>4, <1>6, <3>2, <3>3
  <2>5. Piece(all, p + 3, Sep) = z
    <3>1. /\ p + 3 \in 1 .. Len(all) + 1 /\ Len(all) + 1 \in p + 3 .. Len(all) + 1
          /\ \A i \in p + 3 .. (Len(all) + 1) - 1 : all[i] # Sep
      BY <1>4, <1>8, <1>11
    <3>2. Piece(all, p + 3, Sep) = SubSeq(all, p + 3, (Len(all) + 1) - 1)
      BY <1>4, <3>1, PieceIs
    <3>3. SubSeq(all, p + 3, (Len(all) + 1) - 1) = [i \in 1 .. r |-> all[p + q + 2 + i]]
      BY <1>4, <1>11
    <3> QED
      BY <1>4, <1>6, <3>2, <3>3
  <2>6. Split(all) = [n \in 1 .. 2 |-> <<x, z>>[n]]
    <3>1. \A n \in 1 .. 2 : Piece(all, Nth(starts, n), Sep) = <<x, z>>[n]
      <4>1. \A n \in 1 .. 2 : n = 1 \/ n = 2
        OBVIOUS
      <4> QED
        BY <2>3, <2>4, <2>5, <4>1
    <3> QED
      BY <1>10, <2>3, <3>1
  <2>7. Split(all) = <<x, z>>
    BY <2>6
  <2> QED
    BY <1>7, <1>11, <2>7 DEF x, y, z, all
<1>12. CASE q # 0
  <2>1. ends = {p + 1, p + q + 2}
    <3>1. /\ (p + 1) + 1 # p + q + 2 /\ (p + 1) + 1 # p + 1
          /\ (p + q + 2) + 1 # p + 1 /\ (p + q + 2) + 1 # p + q + 2
      BY <1>4, <1>12
    <3> QED
      BY <1>9, <3>1 DEF RunEnds, ends
  <2>2. /\ starts = {1, p + 2, p + q + 3} /\ 1 < p + 2 /\ p + 2 < p + q + 3
        /\ p + 2 \in Nat /\ p + q + 3 \in Nat
    BY <1>4, <1>12, <2>1
  <2> HIDE DEF starts
  <2>3. /\ Cardinality(starts) = 3
        /\ Nth(starts, 1) = 1 /\ Nth(starts, 2) = p + 2 /\ Nth(starts, 3) = p + q + 3
    BY <2>2, ThreeNumbers
  <2>4. Piece(all, 1, Sep) = x
    <3>1. /\ 1 \in 1 .. Len(all) + 1 /\ p + 1 \in 1 .. Len(all) + 1
          /\ \A i \in 1 .. (p + 1) - 1 : all[i] # Sep
      BY <1>4, <1>8
    <3>2. Piece(all, 1, Sep) = SubSeq(all, 1, (p + 1) - 1)
      BY <1>4, <3>1, PieceIs
    <3>3. SubSeq(all, 1, (p + 1) - 1) = [i \in 1 .. p |-> all[i]]
      BY <1>4
    <3> QED
      BY <1>4, <1>6, <3>2, <3>3
  <2>5. Piece(all, p + 2, Sep) = y
    <3>1. /\ p + 2 \in 1 .. Len(all) + 1 /\ p + q + 2 \in p + 2 .. Len(all) + 1
          /\ \A i \in p + 2 .. (p + q + 2) - 1 : all[i] # Sep
      BY <1>4, <1>8
    <3>2. Piece(all, p + 2, Sep) = SubSeq(all, p + 2, (p + q + 2) - 1)
      BY <1>4, <3>1, PieceIs
    <3>3. SubSeq(all, p + 2, (p + q + 2) - 1) = [i \in 1 .. q |-> all[p + 1 + i]]
      BY <1>4
    <3> QED
      BY <1>4, <1>6, <3>2, <3>3
  <2>6. Piece(all, p + q + 3, Sep) = z
    <3>1. /\ p + q + 3 \in 1 .. Len(all) + 1 /\ Len(all) + 1 \in p + q + 3 .. Len(all) + 1
          /\ \A i \in p + q + 3 .. (Len(all) + 1) - 1 : all[i] # Sep
      BY <1>4, <1>8
    <3>2. Piece(all, p + q + 3, Sep) = SubSeq(all, p + q + 3, (Len(all) + 1) - 1)
      BY <1>4, <3>1, PieceIs
    <3>3. SubSeq(all, p + q + 3, (Len(all) + 1) - 1) = [i \in 1 .. r |-> all[p + q + 2 + i]]
      BY <1>4
    <3> QED
      BY <1>4, <1>6, <3>2, <3>3
  <2>7. Split(all) = [n \in 1 .. 3 |-> <<x, y, z>>[n]]
    <3>1. \A n \in 1 .. 3 : Piece(all, Nth(starts, n), Sep) = <<x, y, z>>[n]
      <4>1. \A n \in 1 .. 3 : n = 1 \/ n = 2 \/ n = 3
        OBVIOUS
      <4> QED
        BY <2>3, <2>4, <2>5, <2>6, <4>1
    <3> QED
      BY <1>10, <2>3, <3>1
  <2>8. Split(all) = <<x, y, z>>
    BY <2>7
  <2> QED
    BY <1>7, <1>12, <2>8 DEF x, y, z, all
<1> QED
  BY <1>11, <1>12
=============================================================================
