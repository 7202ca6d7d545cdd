------------------------------- MODULE SumProofs -------------------------------
(* What the sum of a function over a finite set does when the function        *)
(* changes.  The sum is a fold, and what a fold computes is shown by          *)
(* induction; the two forms of it that are needed are stated about sets       *)
(* instead of predicates and follow from the least element of a set of        *)
(* numbers.                                                                   *)
EXTENDS Integers, FiniteSets, Functions, WellFoundedInduction, FiniteSetTheorems, TLAPS

Below == {pair \in Nat \X Nat : pair[1] < pair[2]}

(* A set of natural numbers that is not empty has a least element.            *)
LEMMA LeastNumber ==
    ASSUME NEW T, T \subseteq Nat, T # {}
    PROVE  \E n \in T : \A m \in T : n <= m
<1>1. IsWellFoundedOn(Below, Nat)
      BY NatLessThanWellFounded DEF OpToRel, Below
<1>2. PICK n \in T : \A m \in T : <<m, n>> \notin Below
      BY <1>1, WFMin
<1>3. \A m, k \in Nat : <<m, k>> \in Below <=> m < k
      BY DEF Below
<1>4. n \in Nat /\ \A m \in T : m \in Nat /\ ~ m < n
      BY <1>2, <1>3
<1>5. \A m \in T : n <= m
      BY <1>4
<1>q. QED
      BY <1>5

(* Induction over the natural numbers, about the set of those it holds for.   *)
LEMMA NumberInduction ==
    ASSUME NEW T, 0 \in T, \A n \in Nat : n \in T => n + 1 \in T
    PROVE  \A n \in Nat : n \in T
<1>1. SUFFICES ASSUME Nat \ T # {}
               PROVE  FALSE
      OBVIOUS
<1>2. PICK n \in Nat \ T : \A m \in Nat \ T : n <= m
      BY <1>1, LeastNumber
<1>3. n - 1 \in Nat /\ n - 1 \in T
      BY <1>2
<1>4. n \in T
      BY <1>2, <1>3
<1>q. QED
      BY <1>2, <1>4

(* Induction over the subsets of a finite set, likewise: from those with one  *)
(* element less.                                                              *)
LEMMA SubsetInduction ==
    ASSUME NEW S, IsFiniteSet(S), NEW T, {} \in T,
           \A s \in SUBSET S : s # {} /\ (\A x \in s : s \ {x} \in T) => s \in T
    PROVE  \A s \in SUBSET S : s \in T
<1> DEFINE Sizes == {n \in Nat : \A s \in SUBSET S : Cardinality(s) = n => s \in T}
<1>1. \A s \in SUBSET S : IsFiniteSet(s) /\ Cardinality(s) \in Nat
      BY FS_Subset, FS_CardinalityType
<1>2. 0 \in Sizes
      BY <1>1, FS_EmptySet
<1>3. ASSUME NEW n \in Nat, n \in Sizes
      PROVE  n + 1 \in Sizes
  <2>1. ASSUME NEW s \in SUBSET S, Cardinality(s) = n + 1
        PROVE  s \in T
    <3>1. s # {}
      <4>1. n + 1 # 0
            OBVIOUS
      <4>q. QED
            BY <2>1, <4>1, FS_EmptySet
    <3>2. ASSUME NEW x \in s
          PROVE  s \ {x} \in T
      <4>1. Cardinality(s \ {x}) = Cardinality(s) - 1
            BY <1>1, FS_RemoveElement
      <4>2. Cardinality(s \ {x}) = n
            BY <2>1, <4>1
      <4>q. QED
            BY <1>3, <4>2
    <3>q. QED
          BY <3>1, <3>2
  <2>q. QED
        BY <2>1
<1> HIDE DEF Sizes
<1>4. \A n \in Nat : n \in Sizes
      BY <1>2, <1>3, NumberInduction
<1>q. QED
      BY <1>1, <1>4 DEF Sizes

-----------------------------------------------------------------------------
(* How a sum is computed: one element after the other.                        *)
Picked(s) == CHOOSE x \in s : TRUE

Adds(g, f, D) ==
    \A s \in D : g[s] = IF s = {} THEN 0 ELSE f[Picked(s)] + g[s \ {Picked(s)}]

(* There is a function that computes sums: for the subsets of up to n         *)
(* elements, whatever n.                                                      *)
LEMMA SumsExist ==
    ASSUME NEW S, IsFiniteSet(S), NEW f \in [S -> Int]
    PROVE  \E g \in [SUBSET S -> Int] : Adds(g, f, SUBSET S)
<1> DEFINE Layer(n) == {s \in SUBSET S : Cardinality(s) <= n}
           Sizes == {n \in Nat : \E g \in [Layer(n) -> Int] : Adds(g, f, Layer(n))}
<1>1. \A s \in SUBSET S : IsFiniteSet(s) /\ Cardinality(s) \in Nat
                             /\ Cardinality(s) <= Cardinality(S)
      BY FS_Subset, FS_CardinalityType
<1>2. 0 \in Sizes
  <2>1. \A s \in Layer(0) : s = {}
        BY <1>1, FS_EmptySet
  <2>2. Adds([s \in Layer(0) |-> 0], f, Layer(0))
        BY <2>1 DEF Adds
  <2>q. QED
        BY <2>2
<1>3. ASSUME NEW n \in Nat, n \in Sizes
      PROVE  n + 1 \in Sizes
  <2>1. PICK g \in [Layer(n) -> Int] : Adds(g, f, Layer(n))
        BY <1>3
  <2> DEFINE h == [s \in Layer(n + 1) |->
                      IF s = {} THEN 0 ELSE f[Picked(s)] + g[s \ {Picked(s)}]]
  <2>2. ASSUME NEW s \in Layer(n + 1), s # {}
        PROVE  Picked(s) \in S /\ s \ {Picked(s)} \in Layer(n)
    <3>1. Picked(s) \in s
          BY <2>2 DEF Picked
    <3>2. Cardinality(s \ {Picked(s)}) = Cardinality(s) - 1
          BY <1>1, <3>1, FS_RemoveElement
    <3>q. QED
          BY <1>1, <3>1, <3>2
  <2>3. \A s \in Layer(n) : s \in Layer(n + 1) /\ h[s] = g[s]
    <3>1. \A s \in Layer(n) : s \in Layer(n + 1)
          BY <1>1
    <3>q. QED
          BY <2>1, <3>1 DEF Adds
  <2>4. h \in [Layer(n + 1) -> Int]
        BY <2>1, <2>2
  <2>5. Adds(h, f, Layer(n + 1))
    <3>1. SUFFICES ASSUME NEW s \in Layer(n + 1)
                   PROVE  h[s] = IF s = {} THEN 0 ELSE f[Picked(s)] + h[s \ {Picked(s)}]
          BY DEF Adds
    <3>2. CASE s = {}
          BY <3>2
    <3>3. CASE s # {}
      <4>1. h[s \ {Picked(s)}] = g[s \ {Picked(s)}]
            BY <2>2, <2>3, <3>3
      <4>2. h[s] = f[Picked(s)] + g[s \ {Picked(s)}]
            BY <3>3
      <4>q. QED
            BY <3>3, <4>1, <4>2
    <3>q. QED
          BY <3>2, <3>3
  <2> HIDE DEF h
  <2>6. \E k \in [Layer(n + 1) -> Int] : Adds(k, f, Layer(n + 1))
        BY <2>4, <2>5
  <2> HIDE DEF Layer
  <2>q. QED
        BY <2>6
<1> HIDE DEF Sizes
<1>4. Cardinality(S) \in Sizes
      BY <1>1, <1>2, <1>3, NumberInduction
<1>5. Layer(Cardinality(S)) = SUBSET S
      BY <1>1
<1>q. QED
      BY <1>4, <1>5 DEF Sizes

(* The sums SumFunctionOnSet computes on the way to the one over S.           *)
Sums(f, S) ==
    LET iter[s \in SUBSET S] == IF s = {} THEN 0
                                ELSE f[Picked(s)] + iter[s \ {Picked(s)}]
    IN iter

LEMMA SumOfAll ==
    ASSUME NEW S, NEW f
    PROVE  SumFunctionOnSet(f, S) = Sums(f, S)[S]
BY DEF Sums, Picked, SumFunctionOnSet, FoldFunctionOnSet, MapThenFoldSet

(* They are what the definition says, each with the element that is picked.   *)
LEMMA SumsAdd ==
    ASSUME NEW S, IsFiniteSet(S), NEW f \in [S -> Int]
    PROVE  Sums(f, S) \in [SUBSET S -> Int] /\ Adds(Sums(f, S), f, SUBSET S)
<1> DEFINE Body(g) == [s \in SUBSET S |-> IF s = {} THEN 0
                                         ELSE f[Picked(s)] + g[s \ {Picked(s)}]]
           iter == CHOOSE g : g = Body(g)
<1>1. Sums(f, S) = iter
      BY DEF Sums
<1>2. PICK g \in [SUBSET S -> Int] : Adds(g, f, SUBSET S)
      BY SumsExist
<1>3. g = Body(g)
      BY <1>2 DEF Adds
<1>4. iter = Body(iter)
      BY <1>3
<1> HIDE DEF iter
<1>5. Adds(iter, f, SUBSET S)
      BY <1>4 DEF Adds
<1> DEFINE Typed == {s \in SUBSET S : iter[s] \in Int}
<1>6. {} \in Typed
  <2>1. iter[{}] = 0
        BY <1>5 DEF Adds
  <2>q. QED
        BY <2>1
<1>7. ASSUME NEW s \in SUBSET S, s # {}, \A x \in s : s \ {x} \in Typed
      PROVE  s \in Typed
  <2>1. Picked(s) \in s
        BY <1>7 DEF Picked
  <2>2. iter[s] = f[Picked(s)] + iter[s \ {Picked(s)}]
        BY <1>5, <1>7 DEF Adds
  <2>3. iter[s \ {Picked(s)}] \in Int
        BY <1>7, <2>1
  <2>q. QED
        BY <2>1, <2>2, <2>3
<1> HIDE DEF Typed
<1>8. \A s \in SUBSET S : s \in Typed
      BY <1>6, <1>7, SubsetInduction
<1>9. \A s \in SUBSET S : iter[s] \in Int
      BY <1>8 DEF Typed
<1>10. iter = [s \in SUBSET S |-> iter[s]]
      BY <1>4
<1>11. iter \in [SUBSET S -> Int]
      BY <1>9, <1>10
<1>q. QED
      BY <1>1, <1>5, <1>11

(* In the order of a sum any element can come first.                          *)
LEMMA SumsCommute ==
    ASSUME NEW S, IsFiniteSet(S), NEW f \in [S -> Int]
    PROVE  \A s \in SUBSET S : \A x \in s :
                Sums(f, S)[s] = f[x] + Sums(f, S)[s \ {x}]
<1> DEFINE sums == Sums(f, S)
           Free == {s \in SUBSET S : \A x \in s : sums[s] = f[x] + sums[s \ {x}]}
<1>1. sums \in [SUBSET S -> Int] /\ Adds(sums, f, SUBSET S)
      BY SumsAdd
<1> HIDE DEF sums
<1>2. \A s \in SUBSET S : sums[s] \in Int
      BY <1>1
<1>3. {} \in Free
      OBVIOUS
<1>4. ASSUME NEW s \in SUBSET S, s # {}, \A x \in s : s \ {x} \in Free
      PROVE  s \in Free
  <2> DEFINE y == Picked(s)
  <2>1. y \in s
        BY <1>4 DEF Picked
  <2>2. sums[s] = f[y] + sums[s \ {y}]
        BY <1>1, <1>4 DEF Adds
  <2> HIDE DEF y
  <2>3. ASSUME NEW x \in s, x # y
        PROVE  sums[s] = f[x] + sums[s \ {x}]
    <3> DEFINE rest == s \ {x, y}
    <3>1. (s \ {y}) \ {x} = rest /\ (s \ {x}) \ {y} = rest
          OBVIOUS
    <3>2. sums[s \ {y}] = f[x] + sums[rest]
          BY <1>4, <2>1, <2>3, <3>1
    <3>3. sums[s \ {x}] = f[y] + sums[rest]
          BY <1>4, <2>1, <2>3, <3>1
    <3>4. sums[rest] \in Int /\ f[x] \in Int /\ f[y] \in Int
          BY <1>2, <2>1
    <3> HIDE DEF rest
    <3>q. QED
          BY <2>2, <3>2, <3>3, <3>4
  <2>q. QED
        BY <2>1, <2>2, <2>3
<1> HIDE DEF Free
<1>5. \A s \in SUBSET S : s \in Free
      BY <1>3, <1>4, SubsetInduction
<1>q. QED
      BY <1>5 DEF Free, sums

(* F gives the sum of f over every part of S, and the whole sum is its last.  *)
IsPartialSums(F, f, S) ==
    /\ F \in [SUBSET S -> Int]
    /\ SumFunction(f) = F[S]
    /\ F[{}] = 0
    /\ \A s \in SUBSET S : \A x \in s : F[s] = f[x] + F[s \ {x}]

LEMMA PartialSums ==
    ASSUME NEW S, IsFiniteSet(S), NEW f \in [S -> Int]
    PROVE  \E F : IsPartialSums(F, f, S)
<1>1. SumFunction(f) = Sums(f, S)[S]
      BY SumOfAll DEF SumFunction
<1>2. Sums(f, S) \in [SUBSET S -> Int] /\ Adds(Sums(f, S), f, SUBSET S)
      BY SumsAdd
<1>3. \A s \in SUBSET S : \A x \in s : Sums(f, S)[s] = f[x] + Sums(f, S)[s \ {x}]
      BY SumsCommute
<1>4. Sums(f, S)[{}] = 0
      BY <1>2 DEF Adds
<1>5. IsPartialSums(Sums(f, S), f, S)
      BY <1>1, <1>2, <1>3, <1>4 DEF IsPartialSums
<1>q. QED
      BY <1>5

-----------------------------------------------------------------------------
(* A sum of integers is one.                                                  *)
LEMMA SumType ==
    ASSUME NEW S, IsFiniteSet(S), NEW f \in [S -> Int]
    PROVE  SumFunction(f) \in Int
<1>1. PICK F : IsPartialSums(F, f, S)
      BY PartialSums
<1>q. QED
      BY <1>1 DEF IsPartialSums

(* A function that is nowhere larger has no larger sum.                       *)
LEMMA SumMonotone ==
    ASSUME NEW S, IsFiniteSet(S), NEW f \in [S -> Int], NEW g \in [S -> Int],
           \A x \in S : f[x] <= g[x]
    PROVE  SumFunction(f) <= SumFunction(g)
<1>1. PICK F : IsPartialSums(F, f, S)
      BY PartialSums
<1>2. PICK G : IsPartialSums(G, g, S)
      BY PartialSums
<1> DEFINE Smaller == {s \in SUBSET S : F[s] <= G[s]}
<1> USE DEF IsPartialSums
<1>4. {} \in Smaller
      BY <1>1, <1>2
<1>5. ASSUME NEW s \in SUBSET S, s # {}, \A x \in s : s \ {x} \in Smaller
      PROVE  s \in Smaller
  <2>1. PICK x \in s : TRUE
        BY <1>5
  <2>2. F[s] = f[x] + F[s \ {x}] /\ G[s] = g[x] + G[s \ {x}]
        BY <1>1, <1>2
  <2>3. F[s \ {x}] <= G[s \ {x}]
        BY <1>5
  <2>4. /\ F[s \ {x}] \in Int /\ G[s \ {x}] \in Int
        /\ f[x] \in Int /\ g[x] \in Int /\ f[x] <= g[x]
        BY <1>1, <1>2
  <2>q. QED
        BY <2>2, <2>3, <2>4
<1> HIDE DEF Smaller
<1>6. S \in Smaller
      BY <1>4, <1>5, SubsetInduction
<1>q. QED
      BY <1>1, <1>2, <1>6 DEF Smaller

(* A sum changes by what the function changes by at one place.                *)
LEMMA SumChange ==
    ASSUME NEW S, IsFiniteSet(S), NEW f \in [S -> Int], NEW g \in [S -> Int],
           NEW e \in S, \A x \in S \ {e} : f[x] = g[x]
    PROVE  SumFunction(g) = SumFunction(f) + g[e] - f[e]
<1>1. PICK F : IsPartialSums(F, f, S)
      BY PartialSums
<1>2. PICK G : IsPartialSums(G, g, S)
      BY PartialSums
<1> DEFINE Same == {s \in SUBSET S : e \notin s => F[s] = G[s]}
<1> USE DEF IsPartialSums
<1>4. {} \in Same
      BY <1>1, <1>2
<1>5. ASSUME NEW s \in SUBSET S, s # {}, \A x \in s : s \ {x} \in Same
      PROVE  s \in Same
  <2>1. ASSUME e \notin s
        PROVE  F[s] = G[s]
    <3>1. PICK x \in s : TRUE
          BY <1>5
    <3>2. F[s] = f[x] + F[s \ {x}] /\ G[s] = g[x] + G[s \ {x}]
          BY <1>1, <1>2
    <3>3. F[s \ {x}] = G[s \ {x}]
          BY <1>5, <2>1
    <3>4. f[x] = g[x]
          BY <2>1
    <3>q. QED
          BY <3>2, <3>3, <3>4
  <2>q. QED
        BY <2>1
<1> HIDE DEF Same
<1>6. \A s \in SUBSET S : s \in Same
      BY <1>4, <1>5, SubsetInduction
<1>7. F[S \ {e}] = G[S \ {e}]
      BY <1>6 DEF Same
<1>8. F[S] = f[e] + F[S \ {e}] /\ G[S] = g[e] + G[S \ {e}]
      BY <1>1, <1>2
<1>9. F[S \ {e}] \in Int /\ f[e] \in Int /\ g[e] \in Int
      BY <1>1
<1>q. QED
      BY <1>1, <1>2, <1>7, <1>8, <1>9

(* The sum of a function that is the same amount on a part and 0 elsewhere.   *)
LEMMA SumConstant ==
    ASSUME NEW S, IsFiniteSet(S), NEW R \in SUBSET S, NEW c \in Int
    PROVE  SumFunction([x \in S |-> IF x \in R THEN c ELSE 0]) = Cardinality(R) * c
<1> DEFINE f == [x \in S |-> IF x \in R THEN c ELSE 0]
<1>1. f \in [S -> Int]
      OBVIOUS
<1>2. PICK F : IsPartialSums(F, f, S)
      BY <1>1, PartialSums
<1> DEFINE Counted == {s \in SUBSET S : F[s] = Cardinality(s \cap R) * c}
<1> USE DEF IsPartialSums
<1>4. {} \in Counted
  <2>1. {} \cap R = {} /\ Cardinality({}) = 0
        BY FS_EmptySet
  <2>q. QED
        BY <1>2, <2>1
<1>5. ASSUME NEW s \in SUBSET S, s # {}, \A x \in s : s \ {x} \in Counted
      PROVE  s \in Counted
  <2>1. PICK x \in s : TRUE
        BY <1>5
  <2>2. IsFiniteSet(s \cap R) /\ Cardinality(s \cap R) \in Nat
        BY FS_Subset, FS_CardinalityType
  <2>3. F[s \ {x}] = Cardinality((s \ {x}) \cap R) * c
        BY <1>5
  <2>4. F[s] = f[x] + F[s \ {x}]
        BY <1>2
  <2>5. CASE x \in R
    <3>1. (s \ {x}) \cap R = (s \cap R) \ {x}
          OBVIOUS
    <3>2. Cardinality((s \ {x}) \cap R) = Cardinality(s \cap R) - 1
      <4> DEFINE part == s \cap R
      <4>1. x \in part
            BY <2>5
      <4>2. Cardinality(part \ {x}) = Cardinality(part) - 1
        <5> HIDE DEF part
        <5>q. QED
              BY <2>2, <4>1, FS_RemoveElement DEF part
      <4>q. QED
            BY <3>1, <4>2
    <3>3. f[x] = c
          BY <2>5
    <3>4. F[s] = c + (Cardinality(s \cap R) - 1) * c
          BY <2>3, <2>4, <3>2, <3>3
    <3>5. F[s] = Cardinality(s \cap R) * c
          BY <2>2, <3>4
    <3>q. QED
          BY <3>5
  <2>6. CASE x \notin R
    <3>1. (s \ {x}) \cap R = s \cap R
          BY <2>6
    <3>2. f[x] = 0
          BY <2>6
    <3>3. F[s \ {x}] = Cardinality(s \cap R) * c
          BY <2>3, <3>1
    <3>4. F[s \ {x}] \in Int
          BY <1>2
    <3>5. F[s] = Cardinality(s \cap R) * c
          BY <2>4, <3>2, <3>3, <3>4
    <3>q. QED
          BY <3>5
  <2>q. QED
        BY <2>5, <2>6
<1> HIDE DEF Counted
<1>6. S \in Counted
      BY <1>4, <1>5, SubsetInduction
<1>7. S \cap R = R
      OBVIOUS
<1>q. QED
      BY <1>2, <1>6, <1>7 DEF Counted

(* A sum of natural numbers is one, and no smaller than any of them.          *)
LEMMA SumOfNaturals ==
    ASSUME NEW S, IsFiniteSet(S), NEW f \in [S -> Nat]
    PROVE  SumFunction(f) \in Nat /\ \A e \in S : f[e] <= SumFunction(f)
<1>1. f \in [S -> Int] /\ SumFunction(f) \in Int
      BY SumType
<1>2. SumFunction([x \in S |-> IF x \in {} THEN 0 ELSE 0]) = 0
  <2>1. Cardinality({}) * 0 = 0
        BY FS_EmptySet
  <2>q. QED
        BY <2>1, SumConstant
<1>3. SumFunction(f) >= 0
  <2> DEFINE zero == [x \in S |-> IF x \in {} THEN 0 ELSE 0]
  <2>1. zero \in [S -> Int] /\ \A x \in S : zero[x] <= f[x]
        OBVIOUS
  <2> HIDE DEF zero
  <2>2. SumFunction(zero) <= SumFunction(f)
        BY <1>1, <2>1, SumMonotone
  <2>q. QED
        BY <1>2, <2>2 DEF zero
<1>4. ASSUME NEW e \in S
      PROVE  f[e] <= SumFunction(f)
  <2> DEFINE g == [x \in S |-> IF x \in {e} THEN f[e] ELSE 0]
  <2>1. g \in [S -> Int] /\ \A x \in S : g[x] <= f[x]
        OBVIOUS
  <2>2. SumFunction(g) = Cardinality({e}) * f[e]
        BY SumConstant
  <2>3. Cardinality({e}) * f[e] = f[e]
    <3>1. Cardinality({e}) = 1
          BY FS_Singleton
    <3>2. f[e] \in Int
          OBVIOUS
    <3>q. QED
          BY <3>1, <3>2
  <2> HIDE DEF g
  <2>4. SumFunction(g) <= SumFunction(f)
        BY <1>1, <2>1, SumMonotone
  <2>q. QED
        BY <2>2, <2>3, <2>4
<1>q. QED
      BY <1>1, <1>3, <1>4
=============================================================================
