---------------------------- MODULE SumTheorems ----------------------------
(***************************************************************************)
(* Facts about sums over finite sets, for the proofs that compare a        *)
(* program's running totals with the accounts they stand for.              *)
(*                                                                         *)
(* SumOver(f, S) is the sum of f[x] for the x in S, written with the       *)
(* fold of the community modules, which visits S in the order of a         *)
(* CHOOSE.  Such a fold is a function defined by recursion, that is, the   *)
(* function CHOSEN to satisfy its equation; so the proofs first show that  *)
(* there is such a function and that any two agree, and then that the      *)
(* order does not matter.  Inductions are over a set of the sets, or of    *)
(* the numbers, with the property in question.  The last fact is about     *)
(* rounded shares of a sum.                                                *)
(***************************************************************************)
EXTENDS FiniteSetsExt, FiniteSetTheorems, TLAPS

SumOver(f, S) == MapThenSumSet(LAMBDA x : f[x], S)

(***************************************************************************)
(* Induction.                                                              *)
(***************************************************************************)
NatLess == {ss \in Nat \X Nat : ss[1] < ss[2]}

\* The natural numbers are well founded.
LEMMA NatLessWF == IsWellFoundedOn(NatLess, Nat)
BY NatLessThanWellFounded DEF OpToRel, NatLess

\* A set with zero and the successor of each of its numbers has all of them.
LEMMA NatSetInduction ==
    ASSUME NEW P, 0 \in P, \A n \in Nat : n \in P => n + 1 \in P
    PROVE  Nat \subseteq P
<1> SUFFICES ASSUME Nat \ P # {}
             PROVE  FALSE
    OBVIOUS
<1> DEFINE B == Nat \ P
<1>0. B \subseteq Nat /\ B # {}
    OBVIOUS
<1> HIDE DEF B
<1>1. PICK n \in B : \A m \in B : ~ (<<m, n>> \in NatLess)
    BY <1>0, NatLessWF, WFMin
<1> USE DEF B
<1>2. \A m \in Nat : m < n => m \in P
    BY <1>1 DEF NatLess
<1>3. n # 0 /\ n - 1 \in Nat /\ n - 1 < n
    BY SMT
<1>. QED
    BY <1>2, <1>3, SMT

\* A set P that has each subset of S whose own proper subsets it has, has S.
LEMMA FiniteSetInduction ==
    ASSUME NEW S, IsFiniteSet(S), NEW P,
           \A T \in SUBSET S : (\A U \in SUBSET T : U # T => U \in P) => T \in P
    PROVE  S \in P
<1> SUFFICES ASSUME S \notin P
             PROVE  FALSE
    OBVIOUS
<1> DEFINE B == {T \in SUBSET S : T \notin P}
<1>1. B \subseteq SUBSET S /\ B # {}
    OBVIOUS
<1>2. IsWellFoundedOn(StrictSubsetOrdering(S), SUBSET S)
  <2>1. FiniteSubsetsOf(S) = SUBSET S
      BY FS_FiniteSubsetsOfFinite
  <2>2. IsWellFoundedOn(StrictSubsetOrdering(S), FiniteSubsetsOf(S))
      BY FS_StrictSubsetOrderingWellFounded
  <2>. QED
      BY <2>1, <2>2, Zenon
<1> HIDE DEF B
<1>3. PICK T \in B : \A U \in B : ~ (<<U, T>> \in StrictSubsetOrdering(S))
    BY <1>1, <1>2, WFMin
<1> USE DEF B
<1>4. \A U \in SUBSET T : U # T => U \in P
    BY <1>3 DEF StrictSubsetOrdering
<1>. QED
    BY <1>4

(***************************************************************************)
(* The function by which the fold is defined.                              *)
(***************************************************************************)
Chosen(s) == CHOOSE x \in s : TRUE

SumStep(f, g, s) == IF s = {} THEN 0 ELSE f[Chosen(s)] + g[s \ {Chosen(s)}]

IsSumOn(f, S, g) == g = [s \in SUBSET S |-> SumStep(f, g, s)]

\* The element the fold visits is one of the set.
LEMMA ChosenIn == \A s : s # {} => Chosen(s) \in s
BY DEF Chosen

\* The sum is the value at S of the function chosen for the subsets of S.
LEMMA SumIsChosen ==
    ASSUME NEW f, NEW S
    PROVE  SumOver(f, S) = (CHOOSE g : IsSumOn(f, S, g))[S]
BY DEF SumOver, MapThenSumSet, MapThenFoldSet, IsSumOn, SumStep, Chosen

\* There is such a function: it is extended one cardinality at a time.
LEMMA SumExists ==
    ASSUME NEW f, NEW S, IsFiniteSet(S)
    PROVE  \E g : IsSumOn(f, S, g)
<1> DEFINE Upto(n) == {s \in SUBSET S : Cardinality(s) <= n}
           Q == {n \in Nat : \E g : \A s \in Upto(n) : g[s] = SumStep(f, g, s)}
<1>0. \A s \in SUBSET S : s # {} => /\ s \ {Chosen(s)} \in SUBSET S
                                    /\ Cardinality(s) \in Nat \ {0}
                                    /\ Cardinality(s \ {Chosen(s)}) = Cardinality(s) - 1
    BY ChosenIn, FS_Subset, FS_RemoveElement, FS_EmptySet, FS_CardinalityType
<1>1. 0 \in Q
  <2>1. \A s \in Upto(0) : s = {}
      BY FS_EmptySet, FS_Subset, FS_CardinalityType
  <2>2. \A s \in Upto(0) : [s1 \in {{}} |-> 0][s] = SumStep(f, [s1 \in {{}} |-> 0], s)
      BY <2>1 DEF SumStep
  <2>. QED
      BY <2>2
<1>2. ASSUME NEW n \in Nat, n \in Q
      PROVE  n + 1 \in Q
  <2>1. PICK g : \A s \in Upto(n) : g[s] = SumStep(f, g, s)
      BY <1>2
  <2> DEFINE h == [s \in Upto(n + 1) |-> SumStep(f, g, s)]
  <2>2. ASSUME NEW s \in Upto(n + 1)
        PROVE  h[s] = SumStep(f, h, s)
    <3>1. CASE s = {}
        BY <3>1 DEF SumStep
    <3>2. CASE s # {}
      <4>1. s \ {Chosen(s)} \in Upto(n)
          BY <1>0, <3>2
      <4>2. s \ {Chosen(s)} \in Upto(n + 1)
          BY <1>0, <3>2
      <4>3. h[s \ {Chosen(s)}] = g[s \ {Chosen(s)}]
          BY <4>1, <4>2, <2>1
      <4>. QED
          BY <4>3, <3>2 DEF SumStep
    <3>. QED
        BY <3>1, <3>2
  <2> HIDE DEF h
  <2>. QED
      BY <2>2
<1>3. Nat \subseteq Q
  <2> HIDE DEF Q
  <2>. QED
      BY <1>1, <1>2, NatSetInduction
<1>4. PICK g : \A s \in Upto(Cardinality(S)) : g[s] = SumStep(f, g, s)
    BY <1>3, FS_CardinalityType
<1>5. Upto(Cardinality(S)) = SUBSET S
    BY FS_Subset
<1> DEFINE h == [s \in SUBSET S |-> g[s]]
<1>6. ASSUME NEW s \in SUBSET S
      PROVE  h[s] = SumStep(f, h, s)
    BY <1>0, <1>4, <1>5 DEF SumStep
<1>7. h = [s \in SUBSET S |-> SumStep(f, h, s)]
  <2>1. h = [s \in SUBSET S |-> h[s]]
      OBVIOUS
  <2> HIDE DEF h
  <2>. QED
      BY <1>6, <2>1
<1>. QED
    BY <1>7 DEF IsSumOn

\* And there is only one, whichever superset of T it was defined for.
LEMMA SumUnique ==
    ASSUME NEW f, NEW S, IsFiniteSet(S), NEW T \in SUBSET S,
           NEW g, IsSumOn(f, S, g), NEW h, IsSumOn(f, T, h)
    PROVE  g[T] = h[T]
<1> DEFINE Q == {s \in SUBSET T : g[s] = h[s]}
<1>0. IsFiniteSet(T)
    BY FS_Subset
<1>1. ASSUME NEW s \in SUBSET T, \A u \in SUBSET s : u # s => u \in Q
      PROVE  s \in Q
  <2>1. g[s] = SumStep(f, g, s) /\ h[s] = SumStep(f, h, s)
      BY DEF IsSumOn
  <2>2. s # {} => s \ {Chosen(s)} \in Q
      BY <1>1, ChosenIn
  <2>. QED
      BY <2>1, <2>2 DEF SumStep
<1>2. T \in Q
  <2> HIDE DEF Q
  <2>. QED
      BY <1>0, <1>1, FiniteSetInduction
<1>. QED
    BY <1>2

\* So the sum satisfies the equation of the fold.
LEMMA SumUnfolds ==
    ASSUME NEW f, NEW S, IsFiniteSet(S)
    PROVE  /\ SumOver(f, {}) = 0
           /\ S # {} => SumOver(f, S) = f[Chosen(S)] + SumOver(f, S \ {Chosen(S)})
<1>1. ASSUME NEW T, IsFiniteSet(T)
      PROVE  \E g : IsSumOn(f, T, g) /\ SumOver(f, T) = g[T]
    BY <1>1, SumExists, SumIsChosen
<1>2. SumOver(f, {}) = 0
  <2>1. PICK g : IsSumOn(f, {}, g) /\ SumOver(f, {}) = g[{}]
      BY <1>1, FS_EmptySet
  <2>. QED
      BY <2>1 DEF IsSumOn, SumStep
<1>3. ASSUME S # {}
      PROVE  SumOver(f, S) = f[Chosen(S)] + SumOver(f, S \ {Chosen(S)})
  <2> DEFINE T == S \ {Chosen(S)}
  <2>1. T \in SUBSET S /\ IsFiniteSet(T)
      BY FS_Subset
  <2> HIDE DEF T
  <2>2. PICK g : IsSumOn(f, S, g) /\ SumOver(f, S) = g[S]
      BY <1>1
  <2>3. PICK h : IsSumOn(f, T, h) /\ SumOver(f, T) = h[T]
      BY <1>1, <2>1
  <2>4. g[T] = h[T]
      BY <2>1, <2>2, <2>3, SumUnique
  <2>5. g[S] = f[Chosen(S)] + g[T]
      BY <1>3, <2>2 DEF IsSumOn, SumStep, T
  <2>. QED
      BY <2>2, <2>3, <2>4, <2>5 DEF T
<1>. QED
    BY <1>2, <1>3

(***************************************************************************)
(* What the other proofs cite.                                             *)
(***************************************************************************)

\* A sum of integers is an integer.
LEMMA SumIsInt ==
    ASSUME NEW f, NEW S, IsFiniteSet(S), \A x \in S : f[x] \in Int
    PROVE  SumOver(f, S) \in Int
<1> DEFINE Q == {T \in SUBSET S : SumOver(f, T) \in Int}
<1>1. ASSUME NEW T \in SUBSET S, \A U \in SUBSET T : U # T => U \in Q
      PROVE  T \in Q
  <2>1. IsFiniteSet(T)
      BY FS_Subset
  <2>2. T # {} => Chosen(T) \in S /\ SumOver(f, T \ {Chosen(T)}) \in Int
      BY <1>1, ChosenIn
  <2>3. CASE T = {}
    <3>1. SumOver(f, {}) = 0
        BY FS_EmptySet, SumUnfolds
    <3>. QED
        BY <2>3, <3>1
  <2>4. CASE T # {}
    <3>1. SumOver(f, T) = f[Chosen(T)] + SumOver(f, T \ {Chosen(T)})
        BY <2>1, <2>4, SumUnfolds
    <3>. QED
        BY <2>2, <2>4, <3>1
  <2>. QED
      BY <2>3, <2>4
<1>2. S \in Q
  <2> HIDE DEF Q
  <2>. QED
      BY <1>1, FiniteSetInduction
<1>. QED
    BY <1>2

\* The order does not matter: any element may be taken out of the sum.
THEOREM SumRemove ==
    ASSUME NEW f, NEW S, IsFiniteSet(S), \A x \in S : f[x] \in Int, NEW y \in S
    PROVE  SumOver(f, S) = f[y] + SumOver(f, S \ {y})
<1> DEFINE Q == {T \in SUBSET S : \A z \in T : SumOver(f, T) = f[z] + SumOver(f, T \ {z})}
<1>0. \A T \in SUBSET S : IsFiniteSet(T) /\ SumOver(f, T) \in Int
    BY FS_Subset, SumIsInt
<1>1. ASSUME NEW T \in SUBSET S, \A U \in SUBSET T : U # T => U \in Q
      PROVE  T \in Q
  <2> SUFFICES ASSUME NEW z \in T
               PROVE  SumOver(f, T) = f[z] + SumOver(f, T \ {z})
      OBVIOUS
  <2> DEFINE c == Chosen(T)
  <2>0. c \in T
      BY ChosenIn
  <2>1. SumOver(f, T) = f[c] + SumOver(f, T \ {c})
      BY <1>0, SumUnfolds
  <2> HIDE DEF c
  <2>2. CASE c = z
      BY <2>1, <2>2
  <2>3. CASE c # z
    <3>1. SumOver(f, T \ {c}) = f[z] + SumOver(f, (T \ {c}) \ {z})
        BY <1>1, <2>0, <2>3
    <3>2. SumOver(f, T \ {z}) = f[c] + SumOver(f, (T \ {z}) \ {c})
        BY <1>1, <2>0, <2>3
    <3> DEFINE rest == SumOver(f, (T \ {z}) \ {c})
    <3>3. rest = SumOver(f, (T \ {c}) \ {z})
      <4>1. (T \ {c}) \ {z} = (T \ {z}) \ {c}
          OBVIOUS
      <4>. QED
          BY <4>1, Zenon
    <3>4. f[c] \in Int /\ f[z] \in Int /\ rest \in Int
        BY <1>0, <2>0
    <3>5. SumOver(f, T) = f[c] + (f[z] + rest)
        BY <2>1, <3>1, <3>3, Zenon
    <3>6. SumOver(f, T \ {z}) = f[c] + rest
        BY <3>2, Zenon
    <3> HIDE DEF rest
    <3>7. f[c] + (f[z] + rest) = f[z] + (f[c] + rest)
        BY <3>4
    <3>. QED
        BY <3>5, <3>6, <3>7, Zenon
  <2>. QED
      BY <2>2, <2>3
<1>2. S \in Q
  <2> HIDE DEF Q
  <2>. QED
      BY <1>1, FiniteSetInduction
<1>. QED
    BY <1>2

\* Functions that agree on S have the same sum over S.
LEMMA SumSame ==
    ASSUME NEW S, IsFiniteSet(S), NEW f, NEW g,
           \A x \in S : f[x] \in Int /\ g[x] = f[x]
    PROVE  SumOver(g, S) = SumOver(f, S)
<1> DEFINE Q == {T \in SUBSET S : SumOver(g, T) = SumOver(f, T)}
<1>1. ASSUME NEW T \in SUBSET S, \A U \in SUBSET T : U # T => U \in Q
      PROVE  T \in Q
  <2>1. IsFiniteSet(T)
      BY FS_Subset
  <2>2. CASE T = {}
    <3>1. SumOver(f, {}) = 0 /\ SumOver(g, {}) = 0
        BY FS_EmptySet, SumUnfolds
    <3>. QED
        BY <2>2, <3>1
  <2>3. CASE T # {}
    <3>1. SumOver(f, T) = f[Chosen(T)] + SumOver(f, T \ {Chosen(T)})
        BY <2>1, <2>3, SumUnfolds
    <3>2. SumOver(g, T) = g[Chosen(T)] + SumOver(g, T \ {Chosen(T)})
        BY <2>1, <2>3, SumUnfolds
    <3>3. SumOver(g, T \ {Chosen(T)}) = SumOver(f, T \ {Chosen(T)}) /\ Chosen(T) \in S
        BY <1>1, <2>3, ChosenIn
    <3>. QED
        BY <3>1, <3>2, <3>3
  <2>. QED
      BY <2>2, <2>3
<1>2. S \in Q
  <2> HIDE DEF Q
  <2>. QED
      BY <1>1, FiniteSetInduction
<1>. QED
    BY <1>2

\* A sum changes by what one of its terms changes by.
THEOREM SumChange ==
    ASSUME NEW S, IsFiniteSet(S), NEW f, NEW g, NEW y \in S,
           \A x \in S : f[x] \in Int /\ g[x] \in Int,
           \A x \in S : x # y => g[x] = f[x]
    PROVE  SumOver(g, S) = SumOver(f, S) + (g[y] - f[y])
<1>1. IsFiniteSet(S \ {y})
    BY FS_Subset
<1>2. SumOver(g, S \ {y}) = SumOver(f, S \ {y})
    BY <1>1, SumSame
<1>3. SumOver(f, S \ {y}) \in Int
    BY <1>1, SumIsInt
<1>4. SumOver(f, S) = f[y] + SumOver(f, S \ {y})
    BY SumRemove
<1>5. SumOver(g, S) = g[y] + SumOver(g, S \ {y})
    BY SumRemove
<1>. QED
    BY <1>2, <1>3, <1>4, <1>5

\* A sum of natural numbers is one, and no less than each of its terms.
THEOREM SumBoundsTerms ==
    ASSUME NEW S, IsFiniteSet(S), NEW f, \A x \in S : f[x] \in Nat
    PROVE  SumOver(f, S) \in Nat /\ \A y \in S : f[y] <= SumOver(f, S)
<1> DEFINE Q == {T \in SUBSET S : SumOver(f, T) \in Nat}
<1>1. ASSUME NEW T \in SUBSET S, \A U \in SUBSET T : U # T => U \in Q
      PROVE  T \in Q
  <2>1. IsFiniteSet(T)
      BY FS_Subset
  <2>2. CASE T = {}
    <3>1. SumOver(f, {}) = 0
        BY FS_EmptySet, SumUnfolds
    <3>. QED
        BY <2>2, <3>1
  <2>3. CASE T # {}
    <3>1. SumOver(f, T) = f[Chosen(T)] + SumOver(f, T \ {Chosen(T)})
        BY <2>1, <2>3, SumUnfolds
    <3>2. SumOver(f, T \ {Chosen(T)}) \in Nat /\ f[Chosen(T)] \in Nat
        BY <1>1, <2>3, ChosenIn
    <3>. QED
        BY <3>1, <3>2
  <2>. QED
      BY <2>2, <2>3
<1>2. \A T \in SUBSET S : T \in Q
  <2> SUFFICES ASSUME NEW T \in SUBSET S
               PROVE  T \in Q
      OBVIOUS
  <2>1. IsFiniteSet(T)
      BY FS_Subset
  <2> HIDE DEF Q
  <2>2. \A R \in SUBSET T : (\A U \in SUBSET R : U # R => U \in Q) => R \in Q
      BY <1>1
  <2>. QED
      BY <2>1, <2>2, FiniteSetInduction
<1>3. ASSUME NEW y \in S
      PROVE  f[y] <= SumOver(f, S)
  <2>1. SumOver(f, S) = f[y] + SumOver(f, S \ {y})
      BY SumRemove
  <2>2. SumOver(f, S \ {y}) \in Nat
      BY <1>2
  <2>. QED
      BY <2>1, <2>2
<1>. QED
    BY <1>2, <1>3

\* A sum over a subset is one over the whole set with zeros.
THEOREM SumOverPart ==
    ASSUME NEW S, IsFiniteSet(S), NEW T \in SUBSET S, NEW f, NEW g,
           \A x \in T : f[x] \in Int /\ g[x] = f[x],
           \A x \in S \ T : g[x] = 0
    PROVE  SumOver(f, T) = SumOver(g, S)
<1> DEFINE Q == {U \in SUBSET S : SumOver(f, U \cap T) = SumOver(g, U)}
<1>0. \A x \in S : g[x] \in Int
    OBVIOUS
<1>1. ASSUME NEW U \in SUBSET S, \A V \in SUBSET U : V # U => V \in Q
      PROVE  U \in Q
  <2>1. IsFiniteSet(U) /\ IsFiniteSet(U \cap T)
      BY FS_Subset
  <2>2. CASE U = {}
    <3>1. SumOver(f, {}) = 0 /\ SumOver(g, {}) = 0
        BY FS_EmptySet, SumUnfolds
    <3>2. U \cap T = {}
        BY <2>2
    <3>. QED
        BY <2>2, <3>1, <3>2
  <2>3. CASE U # {}
    <3> DEFINE y == Chosen(U)
    <3>0. y \in U
        BY <2>3, ChosenIn
    <3> HIDE DEF y
    <3>1. SumOver(g, U) = g[y] + SumOver(g, U \ {y})
        BY <1>0, <2>1, <3>0, SumRemove
    <3>2. SumOver(f, (U \ {y}) \cap T) = SumOver(g, U \ {y})
        BY <1>1, <3>0
    <3>3. SumOver(g, U \ {y}) \in Int
        BY <1>0, <2>1, FS_Subset, SumIsInt
    <3>4. CASE y \in T
      <4>1. SumOver(f, U \cap T) = f[y] + SumOver(f, (U \cap T) \ {y})
          BY <2>1, <3>0, <3>4, SumRemove
      <4>2. (U \cap T) \ {y} = (U \ {y}) \cap T
          OBVIOUS
      <4>3. SumOver(f, U \cap T) = f[y] + SumOver(g, U \ {y})
          BY <3>2, <4>1, <4>2, Zenon
      <4>. QED
          BY <3>1, <3>4, <4>3
    <3>5. CASE y \notin T
      <4>1. (U \ {y}) \cap T = U \cap T
          BY <3>5
      <4>2. SumOver(f, U \cap T) = SumOver(g, U \ {y})
          BY <3>2, <4>1, Zenon
      <4>3. SumOver(g, U) = SumOver(g, U \ {y})
          BY <3>0, <3>1, <3>3, <3>5
      <4>. QED
          BY <4>2, <4>3
    <3>. QED
        BY <3>4, <3>5
  <2>. QED
      BY <2>2, <2>3
<1>2. S \in Q
  <2> HIDE DEF Q
  <2>. QED
      BY <1>1, FiniteSetInduction
<1>3. S \cap T = T
    OBVIOUS
<1>4. SumOver(f, S \cap T) = SumOver(g, S)
    BY <1>2
<1>. QED
    BY <1>3, <1>4, Zenon

\* A sum of zeros is zero.
LEMMA SumOfZeros ==
    ASSUME NEW S, IsFiniteSet(S), NEW g, \A x \in S : g[x] = 0
    PROVE  SumOver(g, S) = 0
<1>1. SumOver(g, {}) = 0
    BY FS_EmptySet, SumUnfolds
<1>2. SumOver(g, {}) = SumOver(g, S)
    BY SumOverPart
<1>. QED
    BY <1>1, <1>2

\* The sum of the sums of two functions.
THEOREM SumOfPlus ==
    ASSUME NEW S, IsFiniteSet(S), NEW f, NEW g, NEW h,
           \A x \in S : f[x] \in Int /\ g[x] \in Int /\ h[x] = f[x] + g[x]
    PROVE  SumOver(h, S) = SumOver(f, S) + SumOver(g, S)
<1> DEFINE Q == {T \in SUBSET S : SumOver(h, T) = SumOver(f, T) + SumOver(g, T)}
<1>1. ASSUME NEW T \in SUBSET S, \A U \in SUBSET T : U # T => U \in Q
      PROVE  T \in Q
  <2>1. IsFiniteSet(T)
      BY FS_Subset
  <2>2. CASE T = {}
    <3>1. SumOver(f, {}) = 0 /\ SumOver(g, {}) = 0 /\ SumOver(h, {}) = 0
        BY FS_EmptySet, SumUnfolds
    <3>. QED
        BY <2>2, <3>1
  <2>3. CASE T # {}
    <3> DEFINE y == Chosen(T)
               R == T \ {y}
    <3>0. y \in T
        BY <2>3, ChosenIn
    <3>1. /\ SumOver(f, T) = f[y] + SumOver(f, R)
          /\ SumOver(g, T) = g[y] + SumOver(g, R)
          /\ SumOver(h, T) = h[y] + SumOver(h, R)
        BY <2>1, <2>3, SumUnfolds
    <3>2. SumOver(h, R) = SumOver(f, R) + SumOver(g, R)
        BY <1>1, <3>0
    <3>3. IsFiniteSet(R)
        BY <2>1, FS_Subset
    <3>4. SumOver(f, R) \in Int /\ SumOver(g, R) \in Int
        BY <3>3, SumIsInt
    <3> HIDE DEF y, R
    <3>5. h[y] = f[y] + g[y] /\ f[y] \in Int /\ g[y] \in Int
        BY <3>0
    <3>. QED
        BY <3>1, <3>2, <3>4, <3>5
  <2>. QED
      BY <2>2, <2>3
<1>2. S \in Q
  <2> HIDE DEF Q
  <2>. QED
      BY <1>1, FiniteSetInduction
<1>. QED
    BY <1>2

\* The sum over a set is the sum over a part of it and over the rest.
LEMMA SumOfParts ==
    ASSUME NEW S, IsFiniteSet(S), NEW f, \A x \in S : f[x] \in Int,
           NEW A \in SUBSET S
    PROVE  SumOver(f, S) = SumOver(f, A) + SumOver(f, S \ A)
<1> DEFINE g == [x \in S |-> IF x \in A THEN f[x] ELSE 0]
           h == [x \in S |-> IF x \in A THEN 0 ELSE f[x]]
<1>1. \A x \in S : /\ g[x] = IF x \in A THEN f[x] ELSE 0
                   /\ h[x] = IF x \in A THEN 0 ELSE f[x]
    OBVIOUS
<1> HIDE DEF g, h
<1>2. SumOver(f, A) = SumOver(g, S)
  <2>1. \A x \in A : f[x] \in Int /\ g[x] = f[x]
    BY <1>1
  <2>2. \A x \in S \ A : g[x] = 0
    BY <1>1
  <2> QED  BY <2>1, <2>2, SumOverPart
<1>3. SumOver(f, S \ A) = SumOver(h, S)
  <2>1. \A x \in S \ A : f[x] \in Int /\ h[x] = f[x]
    BY <1>1
  <2>2. \A x \in S \ (S \ A) : h[x] = 0
    BY <1>1
  <2> QED  BY <2>1, <2>2, SumOverPart
<1>4. \A x \in S : g[x] \in Int /\ h[x] \in Int /\ f[x] = g[x] + h[x]
    BY <1>1
<1>5. SumOver(f, S) = SumOver(g, S) + SumOver(h, S)
    BY <1>4, SumOfPlus
<1> QED
    BY <1>2, <1>3, <1>5

\* Numbers that are not negative: two sets that cover a third have at least its sum.
LEMMA SumOfCover ==
    ASSUME NEW D, IsFiniteSet(D), NEW f, \A x \in D : f[x] \in Nat,
           NEW A \in SUBSET D, NEW B \in SUBSET D, NEW S \in SUBSET (A \cup B)
    PROVE  SumOver(f, S) <= SumOver(f, A) + SumOver(f, B)
<1>1. ASSUME NEW T \in SUBSET D, NEW U \in SUBSET T
      PROVE  /\ SumOver(f, T) = SumOver(f, U) + SumOver(f, T \ U)
             /\ SumOver(f, T) \in Nat /\ SumOver(f, U) \in Nat
             /\ SumOver(f, T \ U) \in Nat
  <2>1. IsFiniteSet(T) /\ IsFiniteSet(U) /\ IsFiniteSet(T \ U)
    BY FS_Subset
  <2>2. SumOver(f, T) \in Nat /\ SumOver(f, U) \in Nat /\ SumOver(f, T \ U) \in Nat
    BY <2>1, SumBoundsTerms
  <2>3. SumOver(f, T) = SumOver(f, U) + SumOver(f, T \ U)
    BY <2>1, SumOfParts
  <2> QED  BY <2>2, <2>3
<1>2. /\ S \in SUBSET D /\ S \cap A \in SUBSET S /\ S \cap A \in SUBSET A
      /\ S \ (S \cap A) \in SUBSET B
    OBVIOUS
<1>3. SumOver(f, S) = SumOver(f, S \cap A) + SumOver(f, S \ (S \cap A))
    BY <1>1, <1>2
<1>4. /\ SumOver(f, A) = SumOver(f, S \cap A) + SumOver(f, A \ (S \cap A))
      /\ SumOver(f, A) \in Nat /\ SumOver(f, S \cap A) \in Nat
      /\ SumOver(f, A \ (S \cap A)) \in Nat
    BY <1>1, <1>2
<1>5. /\ SumOver(f, B) = SumOver(f, S \ (S \cap A)) + SumOver(f, B \ (S \ (S \cap A)))
      /\ SumOver(f, B) \in Nat /\ SumOver(f, S \ (S \cap A)) \in Nat
      /\ SumOver(f, B \ (S \ (S \cap A))) \in Nat
    BY <1>1, <1>2
<1> QED
    BY <1>3, <1>4, <1>5

\* The sum over the image of S under a one-to-one renaming.
THEOREM SumOfImage ==
    ASSUME NEW S, IsFiniteSet(S), NEW e, NEW f, NEW g,
           \A x, y \in S : e[x] = e[y] => x = y,
           \A x \in S : f[x] \in Int /\ g[e[x]] = f[x]
    PROVE  SumOver(g, {e[x] : x \in S}) = SumOver(f, S)
<1> DEFINE Image(T) == {e[x] : x \in T}
           Q == {T \in SUBSET S : SumOver(g, Image(T)) = SumOver(f, T)}
<1>1. ASSUME NEW T \in SUBSET S, \A U \in SUBSET T : U # T => U \in Q
      PROVE  T \in Q
  <2>1. IsFiniteSet(T) /\ IsFiniteSet(Image(T))
    <3>1. IsFiniteSet(T)
        BY FS_Subset
    <3>2. [x \in T |-> e[x]] \in Surjection(T, Image(T))
        BY DEF Surjection
    <3>. QED
        BY <3>1, <3>2, FS_Surjection
  <2>2. CASE T = {}
    <3>1. SumOver(f, {}) = 0 /\ SumOver(g, {}) = 0
        BY FS_EmptySet, SumUnfolds
    <3>2. Image(T) = {}
        BY <2>2
    <3>. QED
        BY <2>2, <3>1, <3>2
  <2>3. CASE T # {}
    <3> DEFINE y == Chosen(T)
    <3>0. y \in T
        BY <2>3, ChosenIn
    <3>1. SumOver(f, T) = f[y] + SumOver(f, T \ {y})
        BY <2>1, <2>3, SumUnfolds
    <3> HIDE DEF y
    <3>2. SumOver(g, Image(T \ {y})) = SumOver(f, T \ {y})
        BY <1>1, <3>0
    <3>3. Image(T \ {y}) = Image(T) \ {e[y]}
        BY <3>0
    <3>4. SumOver(g, Image(T)) = g[e[y]] + SumOver(g, Image(T) \ {e[y]})
      <4>1. e[y] \in Image(T) /\ \A z \in Image(T) : g[z] \in Int
          BY <3>0
      <4> HIDE DEF Image
      <4>. QED
          BY <2>1, <4>1, SumRemove
    <3>5. SumOver(g, Image(T)) = g[e[y]] + SumOver(f, T \ {y})
      <4> HIDE DEF Image
      <4>. QED
          BY <3>2, <3>3, <3>4, Zenon
    <3> HIDE DEF Image
    <3>. QED
        BY <3>0, <3>1, <3>5
  <2>. QED
      BY <2>2, <2>3
<1>2. S \in Q
  <2> HIDE DEF Q
  <2>. QED
      BY <1>1, FiniteSetInduction
<1>. QED
    BY <1>2

(***************************************************************************)
(* Shares of a pool.                                                       *)
(***************************************************************************)

\* A share of the accepted stakes, rounded down, is paid from what is left.
LEMMA FloorShare ==
    ASSUME NEW paid \in Nat, NEW accepted \in Nat, NEW winning \in Nat \ {0},
           NEW claimed \in Nat, NEW shares \in Nat,
           claimed + shares <= winning,
           paid * winning <= claimed * accepted
    PROVE  /\ (shares * accepted) \div winning \in Nat
           /\ (paid + ((shares * accepted) \div winning)) * winning
                 <= (claimed + shares) * accepted
           /\ paid + ((shares * accepted) \div winning) <= accepted
<1> DEFINE share == (shares * accepted) \div winning
<1>1. shares * accepted \in Nat
    OBVIOUS
<1>2. share \in Nat /\ share * winning <= shares * accepted
    BY <1>1
<1> HIDE DEF share
<1>3. (paid + share) * winning <= (claimed + shares) * accepted
    BY <1>2
<1>4. (claimed + shares) * accepted <= winning * accepted
    BY SMT
<1>5. (paid + share) * winning <= accepted * winning
    BY <1>2, <1>3, <1>4
<1>6. paid + share <= accepted
    BY <1>2, <1>5
<1> QED  BY <1>2, <1>3, <1>6 DEF share
=============================================================================
