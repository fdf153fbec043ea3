------------------------------ MODULE Tallies ------------------------------
(***************************************************************************)
(* What the proofs need to know of the two tallies the code keeps beside   *)
(* its documents: the counters on a listing, which are numbers of          *)
(* <<user, listing>> pairs, and the balances of wallets, which are sums    *)
(* over the entries of a ledger.                                           *)
(*                                                                         *)
(* A sum over a set is a fold, and a fold is a recursive function on the   *)
(* subsets of the set.  What it computes is shown by taking a smallest     *)
(* subset on which the claim fails: there is one because the strict subset *)
(* order on a finite set is well-founded.                                  *)
(***************************************************************************)
EXTENDS Integers, FiniteSetsExt, FiniteSetTheorems, TLAPS

(***************************************************************************)
(* Counts of pairs.                                                        *)
(***************************************************************************)

\* The pairs in S of listing l.
Of(S, l) == {k \in S : k[2] = l}

\* One document more counts for its own listing only.
LEMMA OneMore ==
    ASSUME NEW S, IsFiniteSet(S), NEW u, NEW l, <<u, l>> \notin S
    PROVE  /\ IsFiniteSet(S \cup {<<u, l>>})
           /\ Cardinality(Of(S \cup {<<u, l>>}, l)) = Cardinality(Of(S, l)) + 1
           /\ \A m : m # l => Of(S \cup {<<u, l>>}, m) = Of(S, m)
  <1>1. IsFiniteSet(Of(S, l))
    BY FS_Subset DEF Of
  <1>2. Of(S \cup {<<u, l>>}, l) = Of(S, l) \cup {<<u, l>>} /\ <<u, l>> \notin Of(S, l)
    BY DEF Of
  <1>3. Cardinality(Of(S, l) \cup {<<u, l>>}) = Cardinality(Of(S, l)) + 1
    BY <1>1, <1>2, FS_AddElement
  <1>4. IsFiniteSet(S \cup {<<u, l>>})
    BY FS_AddElement
  <1>5. \A m : m # l => Of(S \cup {<<u, l>>}, m) = Of(S, m)
    BY DEF Of
  <1>. QED
    BY <1>2, <1>3, <1>4, <1>5

\* And so does one less; there was one to count.
LEMMA OneLess ==
    ASSUME NEW S, IsFiniteSet(S), NEW u, NEW l, <<u, l>> \in S
    PROVE  /\ IsFiniteSet(S \ {<<u, l>>})
           /\ Cardinality(Of(S, l)) \in Nat \ {0}
           /\ Cardinality(Of(S \ {<<u, l>>}, l)) = Cardinality(Of(S, l)) - 1
           /\ \A m : m # l => Of(S \ {<<u, l>>}, m) = Of(S, m)
  <1>1. IsFiniteSet(Of(S, l)) /\ IsFiniteSet(S \ {<<u, l>>})
    BY FS_Subset, FS_RemoveElement DEF Of
  <1>2. Of(S \ {<<u, l>>}, l) = Of(S, l) \ {<<u, l>>} /\ <<u, l>> \in Of(S, l)
    BY DEF Of
  <1>3. Cardinality(Of(S, l) \ {<<u, l>>}) = Cardinality(Of(S, l)) - 1
    BY <1>1, <1>2, FS_RemoveElement
  <1>4. Cardinality(Of(S, l)) \in Nat \ {0}
    BY <1>1, <1>2, FS_CardinalityType, FS_EmptySet
  <1>5. \A m : m # l => Of(S \ {<<u, l>>}, m) = Of(S, m)
    BY DEF Of
  <1>. QED
    BY <1>1, <1>2, <1>3, <1>4, <1>5

----------------------------------------------------------------------------
(***************************************************************************)
(* Sums.                                                                   *)
(***************************************************************************)

\* The sum of f over K.
SumOf(f, K) == MapThenSumSet(LAMBDA k : f[k], K)

\* A family of subsets of a finite set has a member that contains no other.
LEMMA SmallestSet ==
    ASSUME NEW S, IsFiniteSet(S), NEW T, T \subseteq SUBSET S, T # {}
    PROVE  \E m \in T : \A t \in T : t \subseteq m => t = m
  <1>1. IsWellFoundedOn(StrictSubsetOrdering(S), SUBSET S)
    BY FS_StrictSubsetOrderingWellFounded, FS_FiniteSubsetsOfFinite
  <1>2. \E m \in T : \A t \in T : ~ (<<t, m>> \in StrictSubsetOrdering(S))
    BY <1>1, WFMin
  <1>. QED
    BY <1>2 DEF StrictSubsetOrdering

----------------------------------------------------------------------------
(***************************************************************************)
(* The fold, unrolled.                                                     *)
(***************************************************************************)

\* The element the fold takes next.
Chosen(s) == CHOOSE x \in s : TRUE

\* One step of the fold, and the recursive function it defines on the subsets of K.
SumStep(f, iter, s) == IF s = {} THEN 0 ELSE f[Chosen(s)] + iter[s \ {Chosen(s)}]

IsSumOf(f, K, iter) == iter = [s \in SUBSET K |-> SumStep(f, iter, s)]

\* A sum is the value of its recursive function.
LEMMA SumUnfolds ==
    ASSUME NEW f, NEW K
    PROVE  SumOf(f, K) = (CHOOSE iter : IsSumOf(f, K, iter))[K]
  BY DEF SumOf, MapThenSumSet, MapThenFoldSet, IsSumOf, SumStep, Chosen

\* The element taken is one of the set.
LEMMA ChosenIn == \A s : s # {} => Chosen(s) \in s
  BY DEF Chosen

\* Two such functions agree where both are defined and their summands are the same.
LEMMA SumsAgree ==
    ASSUME NEW K, IsFiniteSet(K), NEW L \in SUBSET K, NEW f, NEW g, NEW i, NEW j,
           IsSumOf(f, K, i), IsSumOf(g, L, j), \A x \in L : f[x] = g[x]
    PROVE  \A s \in SUBSET L : i[s] = j[s]
  <1>. DEFINE Bad == {s \in SUBSET L : i[s] # j[s]}
  <1>. SUFFICES ASSUME Bad # {} PROVE FALSE
    OBVIOUS
  <1>1. PICK m \in Bad : \A t \in Bad : t \subseteq m => t = m
    <2>1. Bad \subseteq SUBSET K
      OBVIOUS
    <2>. HIDE DEF Bad
    <2>. QED
      BY <2>1, SmallestSet
  <1>2. m \in SUBSET L /\ m \in SUBSET K /\ i[m] # j[m]
    OBVIOUS
  <1>3. i[m] = SumStep(f, i, m) /\ j[m] = SumStep(g, j, m)
    BY <1>2 DEF IsSumOf
  <1>4. CASE m = {}
    BY <1>2, <1>3, <1>4 DEF SumStep
  <1>5. CASE m # {}
    <2>1. Chosen(m) \in m /\ m \ {Chosen(m)} \in SUBSET L /\ m \ {Chosen(m)} # m
      BY <1>2, <1>5, ChosenIn
    <2>2. i[m \ {Chosen(m)}] = j[m \ {Chosen(m)}]
      BY <1>1, <2>1
    <2>3. f[Chosen(m)] = g[Chosen(m)]
      BY <1>2, <2>1
    <2>. QED
      BY <1>2, <1>3, <1>5, <2>2, <2>3 DEF SumStep
  <1>. QED
    BY <1>4, <1>5

\* There is such a function: on a smallest subset without one, the functions of the
\* strictly smaller subsets make one.
LEMMA SumExists ==
    ASSUME NEW K, IsFiniteSet(K), NEW f
    PROVE  IsSumOf(f, K, CHOOSE iter : IsSumOf(f, K, iter))
  <1>. DEFINE Bad == {s \in SUBSET K : ~ \E g : IsSumOf(f, s, g)}
  <1>1. SUFFICES Bad = {}
    <2>1. \E g : IsSumOf(f, K, g)
      BY <1>1
    <2>. QED
      BY <2>1
  <1>. SUFFICES ASSUME Bad # {} PROVE FALSE
    OBVIOUS
  <1>2. PICK m \in Bad : \A t \in Bad : t \subseteq m => t = m
    <2>1. Bad \subseteq SUBSET K
      OBVIOUS
    <2>. HIDE DEF Bad
    <2>. QED
      BY <2>1, SmallestSet
  <1>. DEFINE part(s) == CHOOSE g : IsSumOf(f, s, g)
              whole == [s \in SUBSET m |-> IF s = {} THEN 0 ELSE f[Chosen(s)] + part(s \ {Chosen(s)})[s \ {Chosen(s)}]]
  <1>3. m \in SUBSET K
    OBVIOUS
  <1>4. \A s \in SUBSET m : s # m => IsSumOf(f, s, part(s))
    <2>1. \A s \in SUBSET m : s # m => \E g : IsSumOf(f, s, g)
      BY <1>2, <1>3
    <2>. QED
      BY <2>1
  <1>5. \A s \in SUBSET m : s # {} => /\ Chosen(s) \in s /\ s \ {Chosen(s)} \in SUBSET m
                                      /\ s \ {Chosen(s)} # m /\ s \ {Chosen(s)} \in SUBSET s
                                      /\ s \ {Chosen(s)} # s
    BY ChosenIn
  <1>. HIDE DEF part, Bad
  <1>6. \A s \in SUBSET m : s # m => whole[s] = part(s)[s]
    <2>. SUFFICES ASSUME NEW s \in SUBSET m, s # m
                  PROVE  whole[s] = part(s)[s]
      OBVIOUS
    <2>1. IsSumOf(f, s, part(s))
      BY <1>4
    <2>2. part(s)[s] = SumStep(f, part(s), s)
      BY <2>1 DEF IsSumOf
    <2>3. CASE s = {}
      BY <2>2, <2>3 DEF SumStep
    <2>4. CASE s # {}
      <3>. DEFINE r == s \ {Chosen(s)}
      <3>1. r \in SUBSET s /\ r \in SUBSET m /\ r # m
        BY <2>4, <1>5
      <3>2. IsSumOf(f, r, part(r))
        BY <3>1, <1>4
      <3>3. IsFiniteSet(s)
        BY <1>3, FS_Subset
      <3>4. part(s)[r] = part(r)[r]
        <4>. HIDE DEF r
        <4>1. \A t \in SUBSET r : part(s)[t] = part(r)[t]
          BY <2>1, <3>1, <3>2, <3>3, SumsAgree
        <4>. QED
          BY <4>1
      <3>. QED
        BY <2>2, <2>4, <3>4 DEF SumStep
    <2>. QED
      BY <2>3, <2>4
  <1>7. IsSumOf(f, m, whole)
    <2>1. \A s \in SUBSET m : whole[s] = SumStep(f, whole, s)
      <3>. SUFFICES ASSUME NEW s \in SUBSET m
                    PROVE  whole[s] = SumStep(f, whole, s)
        OBVIOUS
      <3>1. CASE s = {}
        BY <3>1 DEF SumStep
      <3>2. CASE s # {}
        BY <3>2, <1>5, <1>6 DEF SumStep
      <3>. QED
        BY <3>1, <3>2
    <2>2. whole = [s \in SUBSET m |-> whole[s]]
      OBVIOUS
    <2>. HIDE DEF whole
    <2>. QED
      BY <2>1, <2>2 DEF IsSumOf
  <1>. QED
    BY <1>7 DEF Bad

----------------------------------------------------------------------------
(***************************************************************************)
(* What the proofs about ledgers cite.                                     *)
(***************************************************************************)

\* Nothing adds up to nothing.
LEMMA SumEmpty == ASSUME NEW f PROVE SumOf(f, {}) = 0
  <1>1. IsSumOf(f, {}, CHOOSE iter : IsSumOf(f, {}, iter))
    BY FS_EmptySet, SumExists
  <1>2. (CHOOSE iter : IsSumOf(f, {}, iter))[{}] = 0
    <2>. DEFINE it == CHOOSE iter : IsSumOf(f, {}, iter)
    <2>1. IsSumOf(f, {}, it)
      BY <1>1
    <2>. HIDE DEF it
    <2>2. it[{}] = 0
      BY <2>1 DEF IsSumOf, SumStep
    <2>. QED
      BY <2>2 DEF it
  <1>. QED
    BY <1>2, SumUnfolds

\* The sum of a set takes nothing but the values on the set.
LEMMA SumSame ==
    ASSUME NEW K, IsFiniteSet(K), NEW f, NEW g, \A x \in K : f[x] = g[x]
    PROVE  SumOf(f, K) = SumOf(g, K)
  <1>. DEFINE i == CHOOSE iter : IsSumOf(f, K, iter)
              j == CHOOSE iter : IsSumOf(g, K, iter)
  <1>1. IsSumOf(f, K, i) /\ IsSumOf(g, K, j)
    BY SumExists
  <1>2. SumOf(f, K) = i[K] /\ SumOf(g, K) = j[K]
    BY SumUnfolds
  <1>. HIDE DEF i, j
  <1>3. \A s \in SUBSET K : i[s] = j[s]
    BY <1>1, SumsAgree
  <1>. QED
    BY <1>2, <1>3

\* The sum takes its chosen element first.
LEMMA SumOfChosen ==
    ASSUME NEW K, IsFiniteSet(K), K # {}, NEW f
    PROVE  SumOf(f, K) = f[Chosen(K)] + SumOf(f, K \ {Chosen(K)})
  <1>. DEFINE L == K \ {Chosen(K)}
              i == CHOOSE iter : IsSumOf(f, K, iter)
              j == CHOOSE iter : IsSumOf(f, L, iter)
  <1>1. L \in SUBSET K /\ IsFiniteSet(L)
    BY FS_Subset
  <1>2. IsSumOf(f, K, i) /\ IsSumOf(f, L, j)
    BY <1>1, SumExists
  <1>3. SumOf(f, K) = i[K] /\ SumOf(f, L) = j[L]
    BY SumUnfolds
  <1>. HIDE DEF i, j
  <1>4. i[K] = f[Chosen(K)] + i[L]
    BY <1>2 DEF IsSumOf, SumStep
  <1>. HIDE DEF L
  <1>5. \A s \in SUBSET L : i[s] = j[s]
    BY <1>1, <1>2, SumsAgree
  <1>6. SumOf(f, K) = f[Chosen(K)] + SumOf(f, L)
    BY <1>3, <1>4, <1>5
  <1>. QED
    BY <1>6 DEF L

\* Integers add up to an integer.
LEMMA SumType ==
    ASSUME NEW K, IsFiniteSet(K), NEW f, \A x \in K : f[x] \in Int
    PROVE  SumOf(f, K) \in Int
  <1>. DEFINE Bad == {s \in SUBSET K : SumOf(f, s) \notin Int}
  <1>. SUFFICES ASSUME Bad # {} PROVE FALSE
    OBVIOUS
  <1>1. PICK m \in Bad : \A t \in Bad : t \subseteq m => t = m
    <2>1. Bad \subseteq SUBSET K
      OBVIOUS
    <2>. HIDE DEF Bad
    <2>. QED
      BY <2>1, SmallestSet
  <1>2. m \in SUBSET K /\ SumOf(f, m) \notin Int /\ IsFiniteSet(m)
    BY FS_Subset
  <1>3. m # {}
    BY <1>2, SumEmpty
  <1>4. Chosen(m) \in m /\ m \ {Chosen(m)} \in SUBSET K /\ m \ {Chosen(m)} # m
    BY <1>2, <1>3, ChosenIn
  <1>5. SumOf(f, m \ {Chosen(m)}) \in Int
    BY <1>1, <1>4
  <1>6. SumOf(f, m) = f[Chosen(m)] + SumOf(f, m \ {Chosen(m)})
    BY <1>2, <1>3, SumOfChosen
  <1>7. f[Chosen(m)] \in Int
    BY <1>2, <1>4
  <1>. HIDE DEF Bad
  <1>. QED
    BY <1>2, <1>5, <1>6, <1>7

\* Chosen element may be taken first.
LEMMA SumWithout ==
    ASSUME NEW K, IsFiniteSet(K), NEW f, \A x \in K : f[x] \in Int, NEW k \in K
    PROVE  SumOf(f, K) = f[k] + SumOf(f, K \ {k})
  <1>. DEFINE Bad == {s \in SUBSET K : \E x \in s : SumOf(f, s) # f[x] + SumOf(f, s \ {x})}
  <1>. SUFFICES ASSUME Bad # {} PROVE FALSE
    OBVIOUS
  <1>1. PICK m \in Bad : \A t \in Bad : t \subseteq m => t = m
    <2>1. Bad \subseteq SUBSET K
      OBVIOUS
    <2>. HIDE DEF Bad
    <2>. QED
      BY <2>1, SmallestSet
  <1>2. PICK x \in m : SumOf(f, m) # f[x] + SumOf(f, m \ {x})
    OBVIOUS
  <1>3. m \in SUBSET K /\ m # {} /\ IsFiniteSet(m)
    BY FS_Subset
  <1>. DEFINE y == Chosen(m)
              both == (m \ {x}) \ {y}
  <1>4. SumOf(f, m) = f[y] + SumOf(f, m \ {y})
    BY <1>3, SumOfChosen
  <1>5. x # y /\ y \in m
    BY <1>2, <1>3, <1>4, ChosenIn
  <1>. HIDE DEF y
  <1>6. \A s \in SUBSET m : s # m => \A z \in s : SumOf(f, s) = f[z] + SumOf(f, s \ {z})
    BY <1>1, <1>3
  <1>. HIDE DEF Bad
  <1>7. SumOf(f, m \ {x}) = f[y] + SumOf(f, both)
    BY <1>5, <1>6
  <1>8. SumOf(f, m \ {y}) = f[x] + SumOf(f, both)
    <2>1. SumOf(f, m \ {y}) = f[x] + SumOf(f, (m \ {y}) \ {x})
      BY <1>5, <1>6
    <2>2. (m \ {y}) \ {x} = both
      OBVIOUS
    <2>. QED
      BY <2>1, <2>2
  <1>9. f[x] \in Int /\ f[y] \in Int /\ SumOf(f, both) \in Int
    <2>1. both \in SUBSET K /\ IsFiniteSet(both)
      BY <1>3, FS_Subset
    <2>2. SumOf(f, both) \in Int
      <3>. HIDE DEF both
      <3>1. \A z \in both : f[z] \in Int
        BY <2>1
      <3>. QED
        BY <2>1, <3>1, SumType
    <2>. QED
      BY <1>3, <1>5, <2>2
  <1>. HIDE DEF both
  <1>. QED
    BY <1>2, <1>4, <1>7, <1>8, <1>9

\* A new element adds its value; the values on the rest may be read from either function.
LEMMA SumMore ==
    ASSUME NEW K, IsFiniteSet(K), NEW f, \A x \in K : f[x] \in Int,
           NEW k, k \notin K, NEW g, g[k] \in Int, \A x \in K : g[x] = f[x]
    PROVE  SumOf(g, K \cup {k}) = SumOf(f, K) + g[k]
  <1>1. IsFiniteSet(K \cup {k}) /\ k \in K \cup {k} /\ (K \cup {k}) \ {k} = K
    BY FS_AddElement
  <1>2. \A x \in K \cup {k} : g[x] \in Int
    OBVIOUS
  <1>. DEFINE M == K \cup {k}
  <1>3. k \in M /\ IsFiniteSet(M) /\ M \ {k} = K /\ \A x \in M : g[x] \in Int
    BY <1>1, <1>2
  <1>. HIDE DEF M
  <1>4. SumOf(g, M) = g[k] + SumOf(g, M \ {k})
    BY <1>3, SumWithout
  <1>5. SumOf(g, K) = SumOf(f, K) /\ SumOf(f, K) \in Int
    BY SumSame, SumType
  <1>6. SumOf(g, M) = g[k] + SumOf(g, K)
    BY <1>3, <1>4, Zenon
  <1>7. SumOf(g, M) = SumOf(f, K) + g[k]
    BY <1>5, <1>6
  <1>. QED
    BY <1>7 DEF M

\* A collection with one entry more.
Added(c, k, d) == [x \in DOMAIN c \cup {k} |-> IF x = k THEN d ELSE c[x]]

\* A collection whose sums make sense.
Summable(c) == IsFiniteSet(DOMAIN c) /\ \A k \in DOMAIN c : c[k] \in Int

\* What a new entry adds to the sum of a set of old ones.
LEMMA SumOfAdded ==
    ASSUME NEW c, Summable(c), NEW k, k \notin DOMAIN c, NEW d \in Int
    PROVE  /\ Summable(Added(c, k, d))
           /\ \A K \in SUBSET DOMAIN c :
                /\ SumOf(c, K) \in Int
                /\ SumOf(Added(c, k, d), K) = SumOf(c, K)
                /\ SumOf(Added(c, k, d), K \cup {k}) = SumOf(c, K) + d
  <1>. DEFINE n == Added(c, k, d)
  <1>1. /\ DOMAIN n = DOMAIN c \cup {k}
        /\ n[k] = d
        /\ \A x \in DOMAIN c : n[x] = c[x]
    BY DEF Added
  <1>2. IsFiniteSet(DOMAIN c \cup {k}) /\ \A x \in DOMAIN c : c[x] \in Int
    BY FS_AddElement DEF Summable
  <1>. HIDE DEF n
  <1>3. Summable(n)
    BY <1>1, <1>2 DEF Summable
  <1>4. ASSUME NEW K \in SUBSET DOMAIN c
        PROVE  /\ SumOf(c, K) \in Int
               /\ SumOf(n, K) = SumOf(c, K)
               /\ SumOf(n, K \cup {k}) = SumOf(c, K) + d
    <2>1. /\ IsFiniteSet(K) /\ k \notin K
          /\ \A x \in K : c[x] \in Int /\ n[x] = c[x]
          /\ n[k] \in Int
      BY <1>1, FS_Subset DEF Summable
    <2>2. SumOf(c, K) \in Int
      BY <2>1, SumType
    <2>3. SumOf(n, K) = SumOf(c, K)
      BY <2>1, SumSame
    <2>4. SumOf(n, K \cup {k}) = SumOf(c, K) + n[k]
      BY <2>1, SumMore
    <2>. QED
      BY <1>1, <2>2, <2>3, <2>4
  <1>. QED
    BY <1>3, <1>4 DEF n

=============================================================================
