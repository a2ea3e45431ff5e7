------------------------------ MODULE SumsProofs ------------------------------
(***************************************************************************)
(* Sums over finite sets, for the proofs about the modules that add up     *)
(* orders, lines or shipments with MapThenSumSet.  The fold behind it is a *)
(* recursive function over the subsets of the set; that such a function    *)
(* exists is shown here by induction on the size of the subsets, and what  *)
(* a sum is by looking at a smallest subset that would be an exception.    *)
(* Induction is stated with sets of numbers and sets of sets, as the       *)
(* provers have no variables for predicates.                               *)
(***************************************************************************)
EXTENDS Integers, FiniteSets, FiniteSetsExt, FiniteSetTheorems,
        WellFoundedInduction, TLAPS

\* The sum of f[x] over the x of S.
SumOf(f, S) == MapThenSumSet(LAMBDA x : f[x], S)

-----------------------------------------------------------------------------
(* Induction.                                                               *)

\* A set of numbers with 0 and the successor of each of its members.
LEMMA Counting ==
  ASSUME NEW G, 0 \in G, \A n \in Nat : n \in G => n + 1 \in G
  PROVE  Nat \subseteq G
<1> SUFFICES ASSUME Nat \ G # {}
             PROVE  FALSE
  OBVIOUS
<1>1. PICK n \in Nat \ G : \A m \in Nat \ G : <<m, n>> \notin OpToRel(<, Nat)
  BY NatLessThanWellFounded, WFMin
<1>2. n # 0
  OBVIOUS
<1>3. n - 1 \in Nat /\ n - 1 < n
  BY <1>2
<1>4. n - 1 \in Nat \ G
  BY <1>3
<1>5. <<n - 1, n>> \in OpToRel(<, Nat)
  BY <1>3 DEF OpToRel
<1> QED
  BY <1>1, <1>4, <1>5

\* Among some subsets of a finite set one contains none of the others.
LEMMA SmallestSubset ==
  ASSUME NEW S, IsFiniteSet(S), NEW D \in SUBSET (SUBSET S), D # {}
  PROVE  \E m \in D : \A u \in D : u \subseteq m => u = m
<1>1. D \subseteq FiniteSubsetsOf(S)
  BY FS_FiniteSubsetsOfFinite
<1>2. IsWellFoundedOn(StrictSubsetOrdering(S), FiniteSubsetsOf(S))
  BY FS_StrictSubsetOrderingWellFounded
<1>3. PICK m \in D : \A u \in D : <<u, m>> \notin StrictSubsetOrdering(S)
  BY <1>1, <1>2, WFMin
<1> QED
  BY <1>3 DEF StrictSubsetOrdering

-----------------------------------------------------------------------------
(* The function behind the fold.                                            *)

Chosen(s) == CHOOSE x \in s : TRUE

\* it gives every subset of S its sum.
Sums(f, S, it) ==
  it = [s \in SUBSET S |-> IF s = {} THEN 0 ELSE f[Chosen(s)] + it[s \ {Chosen(s)}]]

LEMMA Unfold ==
  ASSUME NEW f, NEW S
  PROVE  SumOf(f, S) = (CHOOSE it : Sums(f, S, it))[S]
BY DEF SumOf, MapThenSumSet, MapThenFoldSet, Sums, Chosen

\* The subsets of at most n elements, and what a sum of them has to satisfy.
Upto(S, n) == {s \in SUBSET S : Cardinality(s) <= n}

SumsUpto(f, S, n, it) ==
  it = [s \in Upto(S, n) |-> IF s = {} THEN 0 ELSE f[Chosen(s)] + it[s \ {Chosen(s)}]]

LEMMA ChosenIsElement ==
  ASSUME NEW s, s # {}
  PROVE  Chosen(s) \in s
BY DEF Chosen

LEMMA OneLess ==
  ASSUME NEW S, IsFiniteSet(S), NEW n \in Nat, NEW s \in Upto(S, n + 1), s # {}
  PROVE  s \ {Chosen(s)} \in Upto(S, n)
<1>1. IsFiniteSet(s) /\ Chosen(s) \in s /\ s \in SUBSET S
  BY FS_Subset, ChosenIsElement DEF Upto
<1>2. /\ Cardinality(s \ {Chosen(s)}) = Cardinality(s) - 1
      /\ Cardinality(s) \in Nat
  BY <1>1, FS_RemoveElement, FS_CardinalityType
<1> QED
  BY <1>1, <1>2 DEF Upto

LEMMA SumsOneMore ==
  ASSUME NEW f, NEW S, IsFiniteSet(S), NEW n \in Nat, NEW it, SumsUpto(f, S, n, it)
  PROVE  \E next : SumsUpto(f, S, n + 1, next)
<1> DEFINE Step(a) == [s \in Upto(S, n + 1) |->
                         IF s = {} THEN 0 ELSE f[Chosen(s)] + a[s \ {Chosen(s)}]]
           next == Step(it)
<1>1. ASSUME NEW s \in Upto(S, n)
      PROVE  next[s] = it[s]
  <2>1. s \in Upto(S, n + 1)
    BY FS_Subset, FS_CardinalityType DEF Upto
  <2> QED
    BY <2>1 DEF SumsUpto
<1>2. \A s \in Upto(S, n + 1) : s # {} => next[s \ {Chosen(s)}] = it[s \ {Chosen(s)}]
  BY <1>1, OneLess
<1>3. next = Step(next)
  <2>1. \A s \in Upto(S, n + 1) : next[s] = Step(next)[s]
    BY <1>2
  <2>2. \A a : Step(a) = [s \in Upto(S, n + 1) |-> Step(a)[s]]
    OBVIOUS
  <2> QED
    BY <2>1, <2>2
<1> QED
  BY <1>3 DEF SumsUpto

\* Every finite set has its sums.
LEMMA SumsExist ==
  ASSUME NEW f, NEW S, IsFiniteSet(S)
  PROVE  \E it : Sums(f, S, it)
<1> DEFINE G == {n \in Nat : \E it : SumsUpto(f, S, n, it)}
<1>1. 0 \in G
  <2> DEFINE it == [s \in Upto(S, 0) |-> 0]
  <2>1. \A s \in Upto(S, 0) : s = {}
    BY FS_Subset, FS_EmptySet, FS_CardinalityType DEF Upto
  <2>2. SumsUpto(f, S, 0, it)
    BY <2>1 DEF SumsUpto
  <2> QED
    BY <2>2
<1>2. \A n \in Nat : n \in G => n + 1 \in G
  BY SumsOneMore
<1>3. Cardinality(S) \in Nat
  BY FS_CardinalityType
<1>4. Cardinality(S) \in G
  <2> HIDE DEF G
  <2> QED
    BY <1>1, <1>2, <1>3, Counting
<1>5. SUBSET S = Upto(S, Cardinality(S))
  BY FS_Subset DEF Upto
<1> QED
  BY <1>4, <1>5 DEF SumsUpto, Sums

\* Two functions that sum up sets agree where both do.
LEMMA SumsAgree ==
  ASSUME NEW f, NEW S, IsFiniteSet(S), NEW a, Sums(f, S, a),
         NEW T \in SUBSET S, NEW b, Sums(f, T, b)
  PROVE  \A s : s \subseteq T => a[s] = b[s]
<1> DEFINE D == {s \in SUBSET T : a[s] # b[s]}
<1> SUFFICES ASSUME D # {}
             PROVE  FALSE
  OBVIOUS
<1>1. IsFiniteSet(T)
  BY FS_Subset
<1>2. PICK m \in D : \A u \in D : u \subseteq m => u = m
  <2>1. D \in SUBSET (SUBSET T)
    OBVIOUS
  <2> HIDE DEF D
  <2> QED
    BY <1>1, <2>1, SmallestSubset
<1>3. /\ a[m] = IF m = {} THEN 0 ELSE f[Chosen(m)] + a[m \ {Chosen(m)}]
      /\ b[m] = IF m = {} THEN 0 ELSE f[Chosen(m)] + b[m \ {Chosen(m)}]
  BY DEF Sums
<1>4. m # {}
  BY <1>3
<1>5. Chosen(m) \in m
  BY <1>4, ChosenIsElement
<1>6. m \ {Chosen(m)} \notin D
  BY <1>2, <1>5
<1>7. a[m \ {Chosen(m)}] = b[m \ {Chosen(m)}]
  BY <1>6
<1> QED
  BY <1>3, <1>7

\* Whatever function sums up a set, that is its sum.
LEMMA SumIs ==
  ASSUME NEW f, NEW S, IsFiniteSet(S), NEW it, Sums(f, S, it)
  PROVE  SumOf(f, S) = it[S]
<1> DEFINE c == CHOOSE a : Sums(f, S, a)
<1>1. Sums(f, S, c)
  BY SumsExist
<1>2. SumOf(f, S) = c[S]
  BY Unfold
<1> HIDE DEF c
<1> QED
  BY <1>1, <1>2, SumsAgree

-----------------------------------------------------------------------------
(* What a sum is.                                                           *)

LEMMA SumOfNone ==
  ASSUME NEW f
  PROVE  SumOf(f, {}) = 0
<1>1. PICK it : Sums(f, {}, it)
  BY SumsExist, FS_EmptySet
<1>2. SumOf(f, {}) = it[{}]
  BY <1>1, SumIs, FS_EmptySet
<1> QED
  BY <1>1, <1>2 DEF Sums

LEMMA SumOfChosen ==
  ASSUME NEW f, NEW S, IsFiniteSet(S), S # {}
  PROVE  SumOf(f, S) = f[Chosen(S)] + SumOf(f, S \ {Chosen(S)})
<1> DEFINE R == S \ {Chosen(S)}
<1>1. IsFiniteSet(R) /\ R \in SUBSET S
  BY FS_Subset
<1>2. PICK a : Sums(f, S, a)
  BY SumsExist
<1>3. PICK b : Sums(f, R, b)
  BY <1>1, SumsExist
<1>4. SumOf(f, S) = a[S] /\ SumOf(f, R) = b[R]
  BY <1>1, <1>2, <1>3, SumIs
<1>5. a[R] = b[R]
  <2> HIDE DEF R
  <2>1. R \in SUBSET S /\ Sums(f, S, a) /\ Sums(f, R, b)
    BY <1>1, <1>2, <1>3
  <2> QED
    BY <2>1, SumsAgree
<1>6. a[S] = f[Chosen(S)] + a[R]
  BY <1>2 DEF Sums
<1> QED
  BY <1>4, <1>5, <1>6

\* A sum of integers is an integer, and one of natural numbers is a natural number.
LEMMA SumOfInts ==
  ASSUME NEW f, NEW S, IsFiniteSet(S), \A x \in S : f[x] \in Int
  PROVE  SumOf(f, S) \in Int
<1> DEFINE D == {s \in SUBSET S : SumOf(f, s) \notin Int}
<1> SUFFICES ASSUME D # {}
             PROVE  FALSE
  OBVIOUS
<1>1. PICK m \in D : \A u \in D : u \subseteq m => u = m
  <2>1. D \in SUBSET (SUBSET S)
    OBVIOUS
  <2> HIDE DEF D
  <2> QED
    BY <2>1, SmallestSubset
<1>2. m # {}
  BY SumOfNone
<1>3. Chosen(m) \in m /\ IsFiniteSet(m)
  BY <1>2, ChosenIsElement, FS_Subset
<1>4. SumOf(f, m \ {Chosen(m)}) \in Int
  BY <1>1, <1>3
<1>5. SumOf(f, m) = f[Chosen(m)] + SumOf(f, m \ {Chosen(m)})
  BY <1>2, <1>3, SumOfChosen
<1> QED
  BY <1>3, <1>4, <1>5

LEMMA SumOfNats ==
  ASSUME NEW f, NEW S, IsFiniteSet(S), \A x \in S : f[x] \in Nat
  PROVE  SumOf(f, S) \in Nat
<1> DEFINE D == {s \in SUBSET S : SumOf(f, s) \notin Nat}
<1> SUFFICES ASSUME D # {}
             PROVE  FALSE
  OBVIOUS
<1>1. PICK m \in D : \A u \in D : u \subseteq m => u = m
  <2>1. D \in SUBSET (SUBSET S)
    OBVIOUS
  <2> HIDE DEF D
  <2> QED
    BY <2>1, SmallestSubset
<1>2. m # {}
  BY SumOfNone
<1>3. Chosen(m) \in m /\ IsFiniteSet(m)
  BY <1>2, ChosenIsElement, FS_Subset
<1>4. SumOf(f, m \ {Chosen(m)}) \in Nat
  BY <1>1, <1>3
<1>5. SumOf(f, m) = f[Chosen(m)] + SumOf(f, m \ {Chosen(m)})
  BY <1>2, <1>3, SumOfChosen
<1> QED
  BY <1>3, <1>4, <1>5

\* Any element can be taken out first.
LEMMA SumWithout ==
  ASSUME NEW f, NEW S, IsFiniteSet(S), \A x \in S : f[x] \in Int, NEW e \in S
  PROVE  SumOf(f, S) = f[e] + SumOf(f, S \ {e})
<1> DEFINE D == {s \in SUBSET S : \E x \in s : SumOf(f, s) # f[x] + SumOf(f, s \ {x})}
<1> SUFFICES ASSUME D # {}
             PROVE  FALSE
  OBVIOUS
<1>1. PICK m \in D : \A u \in D : u \subseteq m => u = m
  <2>1. D \in SUBSET (SUBSET S)
    OBVIOUS
  <2> HIDE DEF D
  <2> QED
    BY <2>1, SmallestSubset
<1>2. PICK x \in m : SumOf(f, m) # f[x] + SumOf(f, m \ {x})
  OBVIOUS
<1> DEFINE c == Chosen(m)
           R == (m \ {c}) \ {x}
<1>3. c \in m /\ m \subseteq S /\ IsFiniteSet(m)
  BY ChosenIsElement, FS_Subset
<1>4. SumOf(f, m) = f[c] + SumOf(f, m \ {c})
  BY <1>3, SumOfChosen
<1>5. c # x
  BY <1>2, <1>4
<1>6. m \ {c} \notin D /\ m \ {x} \notin D
  BY <1>1, <1>2, <1>3
<1>7. SumOf(f, m \ {c}) = f[x] + SumOf(f, R)
  BY <1>3, <1>5, <1>6
<1>8. SumOf(f, m \ {x}) = f[c] + SumOf(f, R)
  <2>1. R = (m \ {x}) \ {c}
    OBVIOUS
  <2> HIDE DEF R, c
  <2> QED
    BY <1>3, <1>5, <1>6, <2>1
<1>9. f[c] \in Int /\ f[x] \in Int
  BY <1>3
<1>10. SumOf(f, R) \in Int
  <2>1. IsFiniteSet(R) /\ R \subseteq S
    BY <1>3, FS_Subset
  <2> HIDE DEF R
  <2> QED
    BY <2>1, SumOfInts
<1> HIDE DEF c, R
<1> QED
  BY <1>2, <1>4, <1>7, <1>8, <1>9, <1>10

\* An element more.
LEMMA SumWith ==
  ASSUME NEW f, NEW S, IsFiniteSet(S), NEW e, e \notin S,
         \A x \in S \cup {e} : f[x] \in Int
  PROVE  SumOf(f, S \cup {e}) = SumOf(f, S) + f[e]
<1>1. IsFiniteSet(S \cup {e}) /\ (S \cup {e}) \ {e} = S
  BY FS_AddElement
<1>2. SumOf(f, S \cup {e}) = f[e] + SumOf(f, S)
  BY <1>1, SumWithout
<1>3. SumOf(f, S) \in Int
  BY SumOfInts
<1> QED
  BY <1>2, <1>3

\* Only the values at the elements count.
LEMMA SumOfSame ==
  ASSUME NEW f, NEW g, NEW S, IsFiniteSet(S), \A x \in S : f[x] = g[x]
  PROVE  SumOf(f, S) = SumOf(g, S)
<1>1. PICK it : Sums(f, S, it)
  BY SumsExist
<1>2. Sums(g, S, it)
  <2>1. \A s \in SUBSET S : s # {} => f[Chosen(s)] = g[Chosen(s)]
    BY ChosenIsElement
  <2> QED
    BY <1>1, <2>1 DEF Sums
<1> QED
  BY <1>1, <1>2, SumIs

\* The sum of two sets that have nothing in common.
LEMMA SumOfBoth ==
  ASSUME NEW f, NEW A, NEW B, IsFiniteSet(A), IsFiniteSet(B), A \cap B = {},
         \A x \in A \cup B : f[x] \in Int
  PROVE  SumOf(f, A \cup B) = SumOf(f, A) + SumOf(f, B)
<1> DEFINE D == {s \in SUBSET B : SumOf(f, A \cup s) # SumOf(f, A) + SumOf(f, s)}
<1> SUFFICES ASSUME D # {}
             PROVE  FALSE
  OBVIOUS
<1>1. PICK m \in D : \A u \in D : u \subseteq m => u = m
  <2>1. D \in SUBSET (SUBSET B)
    OBVIOUS
  <2> HIDE DEF D
  <2> QED
    BY <2>1, SmallestSubset
<1>2. SumOf(f, A) \in Int
  BY SumOfInts
<1>3. m # {}
  <2>1. A \cup {} = A
    OBVIOUS
  <2> QED
    BY <1>2, <2>1, SumOfNone
<1>4. PICK x : x \in m
  BY <1>3
<1> DEFINE R == m \ {x}
<1>5. /\ SumOf(f, A \cup R) = SumOf(f, A) + SumOf(f, R)
      /\ x \notin R /\ x \notin A \cup R /\ R \subseteq B /\ R \cup {x} = m
      /\ (A \cup R) \cup {x} = A \cup m /\ x \in B
  BY <1>1, <1>4
<1>6. IsFiniteSet(R) /\ IsFiniteSet(A \cup R)
  BY <1>5, FS_Subset, FS_Union
<1> HIDE DEF R
<1>7. SumOf(f, m) = SumOf(f, R) + f[x]
  BY <1>5, <1>6, SumWith
<1>8. SumOf(f, A \cup m) = SumOf(f, A \cup R) + f[x]
  BY <1>5, <1>6, SumWith
<1>9. SumOf(f, R) \in Int /\ f[x] \in Int
  BY <1>5, <1>6, SumOfInts
<1> QED
  BY <1>2, <1>5, <1>7, <1>8, <1>9

\* With nothing negative to add, a part is at most the whole.
LEMMA SumOfPart ==
  ASSUME NEW f, NEW S, IsFiniteSet(S), \A x \in S : f[x] \in Nat, NEW T \in SUBSET S
  PROVE  SumOf(f, T) <= SumOf(f, S)
<1> DEFINE R == S \ T
<1>1. /\ IsFiniteSet(T) /\ IsFiniteSet(R) /\ T \cap R = {} /\ S = T \cup R
      /\ \A x \in T \cup R : f[x] \in Nat
  BY FS_Subset
<1> HIDE DEF R
<1>2. SumOf(f, S) = SumOf(f, T) + SumOf(f, R)
  BY <1>1, SumOfBoth
<1>3. SumOf(f, T) \in Nat /\ SumOf(f, R) \in Nat
  BY <1>1, SumOfNats
<1> QED
  BY <1>2, <1>3

\* Adding up two functions together or one after the other.
LEMMA SumOfSums ==
  ASSUME NEW f, NEW g, NEW h, NEW S, IsFiniteSet(S),
         \A x \in S : f[x] \in Int /\ g[x] \in Int /\ h[x] = f[x] + g[x]
  PROVE  SumOf(h, S) = SumOf(f, S) + SumOf(g, S)
<1> DEFINE D == {s \in SUBSET S : SumOf(h, s) # SumOf(f, s) + SumOf(g, s)}
<1> SUFFICES ASSUME D # {}
             PROVE  FALSE
  OBVIOUS
<1>1. PICK m \in D : \A u \in D : u \subseteq m => u = m
  <2>1. D \in SUBSET (SUBSET S)
    OBVIOUS
  <2> HIDE DEF D
  <2> QED
    BY <2>1, SmallestSubset
<1>2. m # {}
  <2>1. SumOf(h, {}) = 0 /\ SumOf(f, {}) = 0 /\ SumOf(g, {}) = 0
    BY SumOfNone
  <2>2. {} \notin D
    BY <2>1
  <2> HIDE DEF D
  <2> QED
    BY <2>2
<1> DEFINE c == Chosen(m)
           R == m \ {c}
<1>3. c \in m /\ IsFiniteSet(m) /\ IsFiniteSet(R) /\ R \subseteq S /\ R # m
  BY <1>2, ChosenIsElement, FS_Subset
<1>4. SumOf(h, R) = SumOf(f, R) + SumOf(g, R)
  BY <1>1, <1>3
<1>5. /\ SumOf(h, m) = h[c] + SumOf(h, R)
      /\ SumOf(f, m) = f[c] + SumOf(f, R)
      /\ SumOf(g, m) = g[c] + SumOf(g, R)
  BY <1>2, <1>3, SumOfChosen
<1>6. /\ f[c] \in Int /\ g[c] \in Int /\ h[c] = f[c] + g[c]
      /\ SumOf(h, m) # SumOf(f, m) + SumOf(g, m)
  BY <1>3
<1>7. SumOf(f, R) \in Int /\ SumOf(g, R) \in Int
  <2> HIDE DEF R
  <2> QED
    BY <1>3, SumOfInts
<1> HIDE DEF c, R
<1> QED
  BY <1>4, <1>5, <1>6, <1>7

\* Elements that add nothing may be left out.
LEMMA SumOfZeros ==
  ASSUME NEW f, NEW S, IsFiniteSet(S), \A x \in S : f[x] = 0
  PROVE  SumOf(f, S) = 0
<1> DEFINE D == {s \in SUBSET S : SumOf(f, s) # 0}
<1> SUFFICES ASSUME D # {}
             PROVE  FALSE
  OBVIOUS
<1>1. PICK m \in D : \A u \in D : u \subseteq m => u = m
  <2>1. D \in SUBSET (SUBSET S)
    OBVIOUS
  <2> HIDE DEF D
  <2> QED
    BY <2>1, SmallestSubset
<1>2. m # {}
  BY SumOfNone
<1>3. Chosen(m) \in m /\ IsFiniteSet(m)
  BY <1>2, ChosenIsElement, FS_Subset
<1>4. SumOf(f, m \ {Chosen(m)}) = 0
  BY <1>1, <1>3
<1>5. SumOf(f, m) = f[Chosen(m)] + SumOf(f, m \ {Chosen(m)})
  BY <1>2, <1>3, SumOfChosen
<1> QED
  BY <1>3, <1>4, <1>5

LEMMA SumOfOthersZero ==
  ASSUME NEW f, NEW S, IsFiniteSet(S), NEW T \in SUBSET S,
         \A x \in T : f[x] \in Int, \A x \in S \ T : f[x] = 0
  PROVE  SumOf(f, S) = SumOf(f, T)
<1> DEFINE R == S \ T
<1>1. /\ IsFiniteSet(T) /\ IsFiniteSet(R) /\ T \cap R = {} /\ S = T \cup R
      /\ \A x \in T \cup R : f[x] \in Int
  BY FS_Subset
<1>2. SumOf(f, R) = 0
  <2>1. \A x \in R : f[x] = 0
    OBVIOUS
  <2> HIDE DEF R
  <2> QED
    BY <1>1, <2>1, SumOfZeros
<1> HIDE DEF R
<1>3. SumOf(f, S) = SumOf(f, T) + SumOf(f, R)
  BY <1>1, SumOfBoth
<1>4. SumOf(f, T) \in Int
  BY <1>1, SumOfInts
<1> QED
  BY <1>2, <1>3, <1>4

=============================================================================
