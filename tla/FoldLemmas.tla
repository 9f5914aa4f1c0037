------------------------------ MODULE FoldLemmas ------------------------------
(* Induction over the natural numbers and over finite sets, stated with sets  *)
(* in place of predicates, and what follows for sums over finite sets.        *)
EXTENDS Integers, FiniteSets, SequencesExt, WellFoundedInduction, FiniteSetTheorems, TLAPS

-------------------------------------------------------------------------------
(* Induction.                                                                 *)

LEMMA NatInductive ==
    ASSUME NEW P, 0 \in P, \A n \in Nat : n \in P => n + 1 \in P
    PROVE  Nat \subseteq P
<1> SUFFICES ASSUME Nat \ P # {} PROVE FALSE
  OBVIOUS
<1> DEFINE R == {p \in Nat \X Nat : p[1] < p[2]}
           Rest == Nat \ P
<1>1. IsWellFoundedOn(R, Nat)
  BY NatLessThanWellFounded DEF OpToRel
<1>2. PICK n \in Rest : \A m \in Rest : <<m, n>> \notin R
  <2>1. Rest \subseteq Nat /\ Rest # {}
    OBVIOUS
  <2> HIDE DEF R, Rest
  <2> QED
    BY <1>1, <2>1, WFMin
<1>3. n # 0 /\ n - 1 \in Nat
  BY <1>2
<1>4. <<n - 1, n>> \in R
  BY <1>2, <1>3
<1>5. n - 1 \in P
  BY <1>2, <1>3, <1>4
<1>6. (n - 1) + 1 \in P
  BY <1>3, <1>5
<1> QED
  BY <1>2, <1>3, <1>6

LEMMA StrictSubsetInductive ==
    ASSUME NEW S, IsFiniteSet(S), NEW P,
           \A T \in SUBSET S : (\A U \in SUBSET T : U # T => U \in P) => T \in P
    PROVE  SUBSET S \subseteq P
<1> SUFFICES ASSUME (SUBSET S) \ P # {} PROVE FALSE
  OBVIOUS
<1> DEFINE R == StrictSubsetOrdering(S)
           Rest == (SUBSET S) \ P
<1>1. PICK T \in Rest : \A U \in Rest : <<U, T>> \notin R
  <2>1. IsWellFoundedOn(R, FiniteSubsetsOf(S))
    BY FS_StrictSubsetOrderingWellFounded
  <2>2. Rest \subseteq FiniteSubsetsOf(S) /\ Rest # {}
    BY FS_Subset DEF FiniteSubsetsOf
  <2> HIDE DEF R, Rest
  <2> QED
    BY <2>1, <2>2, WFMin
<1>2. T \in SUBSET S /\ T \notin P
  BY <1>1
<1>3. ASSUME NEW U \in SUBSET T, U # T PROVE U \in P
  <2>1. U \in SUBSET S
    BY <1>2
  <2>2. <<U, T>> \in R
    BY <1>2, <1>3, <2>1 DEF StrictSubsetOrdering
  <2> HIDE DEF R
  <2> QED
    BY <1>1, <2>1, <2>2
<1> QED
  BY <1>2, <1>3

LEMMA SubsetInductive ==
    ASSUME NEW S, IsFiniteSet(S), NEW P, {} \in P,
           \A T \in SUBSET S, x \in S : x \notin T /\ T \in P => T \cup {x} \in P
    PROVE  SUBSET S \subseteq P
<1>1. ASSUME NEW T \in SUBSET S, \A U \in SUBSET T : U # T => U \in P
      PROVE  T \in P
  <2>1. CASE T = {}
    BY <2>1
  <2>2. CASE T # {}
    <3>1. PICK x : x \in T
      BY <2>2
    <3> DEFINE U == T \ {x}
    <3>2. U \in SUBSET S /\ x \in S /\ x \notin U /\ U \cup {x} = T
      BY <3>1
    <3>3. U \in P
      BY <1>1, <3>1
    <3> HIDE DEF U
    <3> QED
      BY <3>2, <3>3
  <2> QED
    BY <2>1, <2>2
<1> QED
  BY <1>1, StrictSubsetInductive

-------------------------------------------------------------------------------
(* Sums.  SumFunctionOnSet is a recursive function over the subsets of a set: *)
(* it exists, and it does not depend on the order in which elements are taken. *)

Some(s) == CHOOSE x \in s : TRUE

SumStep(f, g, s) == IF s = {} THEN 0 ELSE f[Some(s)] + g[s \ {Some(s)}]

\* g sums f over each of the sets in D.
Sums(f, g, D) == g = [s \in D |-> SumStep(f, g, s)]

LEMMA SumExists ==
    ASSUME NEW f, NEW S, IsFiniteSet(S)
    PROVE  \E g : Sums(f, g, SUBSET S)
<1> DEFINE Level(n) == {s \in SUBSET S : Cardinality(s) <= n}
           Q == {n \in Nat : \E g : Sums(f, g, Level(n))}
<1>1. \A T \in SUBSET S : IsFiniteSet(T) /\ Cardinality(T) \in Nat
  BY FS_Subset, FS_CardinalityType
<1>2. 0 \in Q
  <2>1. \A s \in Level(0) : s = {}
    BY <1>1, FS_EmptySet
  <2>2. Sums(f, [s \in Level(0) |-> 0], Level(0))
    BY <2>1 DEF Sums, SumStep
  <2> QED
    BY <2>2
<1>3. ASSUME NEW n \in Nat, NEW g, Sums(f, g, Level(n))
      PROVE  \E h : Sums(f, h, Level(n + 1))
  <2> DEFINE h == [s \in Level(n + 1) |-> SumStep(f, g, s)]
  <2>1. ASSUME NEW s \in Level(n + 1) PROVE SumStep(f, g, s) = SumStep(f, h, s)
    <3>1. CASE s = {}
      BY <3>1 DEF SumStep
    <3>2. CASE s # {}
      <4> DEFINE rest == s \ {Some(s)}
      <4>1. Some(s) \in s
        BY <3>2 DEF Some
      <4>2. rest \in Level(n) /\ rest \in Level(n + 1)
        BY <1>1, <4>1, FS_RemoveElement
      <4>3. h[rest] = SumStep(f, g, rest)
        BY <4>2
      <4>4. g[rest] = SumStep(f, g, rest)
        <5> HIDE DEF rest, Level
        <5> QED
          BY <1>3, <4>2 DEF Sums
      <4> HIDE DEF h
      <4> QED
        BY <3>2, <4>3, <4>4 DEF SumStep
    <3> QED
      BY <3>1, <3>2
  <2>2. h = [s \in Level(n + 1) |-> SumStep(f, h, s)]
    <3> HIDE DEF Level
    <3> QED
      BY Zenon, <2>1
  <2> QED
    BY <2>2 DEF Sums
<1>4. Nat \subseteq Q
  <2> HIDE DEF Level
  <2>1. \A n \in Nat : n \in Q => n + 1 \in Q
    BY <1>3
  <2> HIDE DEF Q
  <2> QED
    BY <1>2, <2>1, NatInductive
<1>5. Level(Cardinality(S)) = SUBSET S
  BY <1>1, FS_Subset
<1> QED
  BY <1>1, <1>4, <1>5

LEMMA SumUnique ==
    ASSUME NEW f, NEW S, IsFiniteSet(S), NEW T \in SUBSET S, NEW g, NEW h,
           Sums(f, g, SUBSET S), Sums(f, h, SUBSET T)
    PROVE  g[T] = h[T]
<1> DEFINE Q == {U \in SUBSET T : g[U] = h[U]}
<1>1. \A s \in SUBSET T : g[s] = SumStep(f, g, s) /\ h[s] = SumStep(f, h, s)
  BY DEF Sums
<1>2. ASSUME NEW s \in SUBSET T, \A r \in SUBSET s : r # s => r \in Q
      PROVE  s \in Q
  <2>1. s # {} => g[s \ {Some(s)}] = h[s \ {Some(s)}]
    BY <1>2 DEF Some
  <2>2. SumStep(f, g, s) = SumStep(f, h, s)
    BY <2>1 DEF SumStep
  <2>3. g[s] = h[s]
    BY <1>1, <2>2
  <2> QED
    BY <2>3
<1>3. SUBSET T \subseteq Q
  <2>1. IsFiniteSet(T)
    BY FS_Subset
  <2> HIDE DEF Q
  <2> QED
    BY <1>2, <2>1, StrictSubsetInductive
<1> QED
  BY <1>3

LEMMA SumIs ==
    ASSUME NEW f, NEW S, IsFiniteSet(S), NEW g, Sums(f, g, SUBSET S), NEW T \in SUBSET S
    PROVE  SumFunctionOnSet(f, T) = g[T]
<1>1. IsFiniteSet(T)
  BY FS_Subset
<1> DEFINE h == CHOOSE h : Sums(f, h, SUBSET T)
<1>2. Sums(f, h, SUBSET T)
  BY <1>1, SumExists
<1>3. SumFunctionOnSet(f, T) = h[T]
  BY DEF SumFunctionOnSet, FoldFunctionOnSet, MapThenFoldSet, Sums, SumStep, Some
<1> QED
  BY <1>2, <1>3, SumUnique
\* What the recursion says of each set.
LEMMA SumRecursion ==
    ASSUME NEW f, NEW S, IsFiniteSet(S)
    PROVE  SumFunctionOnSet(f, S) =
               IF S = {} THEN 0 ELSE f[Some(S)] + SumFunctionOnSet(f, S \ {Some(S)})
<1>1. PICK g : Sums(f, g, SUBSET S)
  BY SumExists
<1>2. \A T \in SUBSET S : SumFunctionOnSet(f, T) = g[T]
  BY <1>1, SumIs
<1>3. g[S] = SumStep(f, g, S)
  BY <1>1 DEF Sums
<1> QED
  BY <1>2, <1>3 DEF SumStep

LEMMA SumEmpty == \A f : SumFunctionOnSet(f, {}) = 0
  BY SumRecursion, FS_EmptySet

LEMMA SumType ==
    ASSUME NEW f, NEW S, IsFiniteSet(S), \A x \in S : f[x] \in Int
    PROVE  SumFunctionOnSet(f, S) \in Int
<1> DEFINE Q == {T \in SUBSET S : SumFunctionOnSet(f, T) \in Int}
<1>1. ASSUME NEW T \in SUBSET S, \A U \in SUBSET T : U # T => U \in Q
      PROVE  T \in Q
  <2>1. IsFiniteSet(T)
    BY FS_Subset
  <2>2. CASE T = {}
    <3>1. SumFunctionOnSet(f, T) = 0
      BY <2>1, <2>2, SumRecursion
    <3> QED
      BY <3>1
  <2>3. CASE T # {}
    <3>1. Some(T) \in T
      BY <2>3 DEF Some
    <3>2. f[Some(T)] \in Int /\ SumFunctionOnSet(f, T \ {Some(T)}) \in Int
      BY <1>1, <3>1
    <3>3. SumFunctionOnSet(f, T) = f[Some(T)] + SumFunctionOnSet(f, T \ {Some(T)})
      BY <2>1, <2>3, SumRecursion
    <3> QED
      BY <3>2, <3>3
  <2> QED
    BY <2>2, <2>3
<1>2. SUBSET S \subseteq Q
  <2> HIDE DEF Q
  <2> QED
    BY <1>1, StrictSubsetInductive
<1> QED
  BY <1>2

\* The order does not matter: any element can be taken first.
LEMMA SumSplit ==
    ASSUME NEW f, NEW S, IsFiniteSet(S), \A x \in S : f[x] \in Int, NEW x \in S
    PROVE  SumFunctionOnSet(f, S) = f[x] + SumFunctionOnSet(f, S \ {x})
<1> DEFINE Sum(T) == SumFunctionOnSet(f, T)
           Q == {T \in SUBSET S : \A y \in T : Sum(T) = f[y] + Sum(T \ {y})}
<1>1. \A T \in SUBSET S : IsFiniteSet(T) /\ Sum(T) \in Int
  BY FS_Subset, SumType
<1>2. \A T \in SUBSET S : T # {} => Some(T) \in T /\ Sum(T) = f[Some(T)] + Sum(T \ {Some(T)})
  BY <1>1, SumRecursion DEF Some
<1>3. ASSUME NEW T \in SUBSET S, \A U \in SUBSET T : U # T => U \in Q
      PROVE  T \in Q
  <2> SUFFICES ASSUME NEW y \in T PROVE Sum(T) = f[y] + Sum(T \ {y})
    OBVIOUS
  <2> DEFINE z == Some(T)
             U == T \ {y, z}
  <2>1. z \in T /\ Sum(T) = f[z] + Sum(T \ {z})
    BY <1>2
  <2>2. CASE y # z
    <3>1. (T \ {z}) \ {y} = U /\ (T \ {y}) \ {z} = U
      OBVIOUS
    <3>2. Sum(T \ {z}) = f[y] + Sum(U)
      BY <1>3, <2>1, <2>2, <3>1
    <3>3. Sum(T \ {y}) = f[z] + Sum(U)
      BY <1>3, <2>1, <2>2, <3>1
    <3>4. f[y] \in Int /\ f[z] \in Int /\ Sum(U) \in Int
      BY <1>1, <2>1
    <3> HIDE DEF z, U, Sum
    <3>5. Sum(T) = f[z] + (f[y] + Sum(U))
      BY <2>1, <3>2
    <3> QED
      BY <3>3, <3>4, <3>5
  <2> QED
    BY <2>1, <2>2
<1>4. SUBSET S \subseteq Q
  <2> HIDE DEF Q
  <2> QED
    BY <1>3, StrictSubsetInductive
<1> QED
  BY <1>4

LEMMA SumInsert ==
    ASSUME NEW f, NEW S, IsFiniteSet(S), \A x \in S : f[x] \in Int,
           NEW T \in SUBSET S, NEW x \in S, x \notin T
    PROVE  SumFunctionOnSet(f, T \cup {x}) = f[x] + SumFunctionOnSet(f, T)
<1> DEFINE U == T \cup {x}
<1>1. IsFiniteSet(U) /\ \A y \in U : f[y] \in Int
  BY FS_Subset
<1>2. x \in U /\ U \ {x} = T
  OBVIOUS
<1> HIDE DEF U
<1>3. SumFunctionOnSet(f, U) = f[x] + SumFunctionOnSet(f, U \ {x})
  BY <1>1, <1>2, SumSplit
<1> QED
  BY <1>2, <1>3 DEF U

LEMMA SumScaledLeq ==
    ASSUME NEW f, NEW g, NEW S, IsFiniteSet(S), NEW a \in Int, NEW b \in Int,
           \A x \in S : f[x] \in Int /\ g[x] \in Int /\ a * f[x] <= b * g[x]
    PROVE  a * SumFunctionOnSet(f, S) <= b * SumFunctionOnSet(g, S)
<1> DEFINE F(T) == SumFunctionOnSet(f, T)
           G(T) == SumFunctionOnSet(g, T)
           Q == {T \in SUBSET S : a * F(T) <= b * G(T)}
<1>1. {} \in Q
  BY SumEmpty
<1>2. ASSUME NEW T \in SUBSET S, NEW x \in S, x \notin T, T \in Q
      PROVE  T \cup {x} \in Q
  <2>1. F(T \cup {x}) = f[x] + F(T) /\ G(T \cup {x}) = g[x] + G(T)
    BY <1>2, SumInsert
  <2>2. F(T) \in Int /\ G(T) \in Int /\ f[x] \in Int /\ g[x] \in Int
    BY FS_Subset, SumType
  <2>3. a * F(T) <= b * G(T) /\ a * f[x] <= b * g[x]
    BY <1>2
  <2>4. ASSUME NEW p \in Int, NEW q \in Int, NEW r \in Int, NEW t \in Int,
               a * p <= b * q, a * r <= b * t
        PROVE  a * (p + r) <= b * (q + t)
    BY <2>4
  <2>5. a * (f[x] + F(T)) <= b * (g[x] + G(T))
    <3> HIDE DEF F, G
    <3> QED
      BY <2>2, <2>3, <2>4
  <2> QED
    BY <2>1, <2>5
<1>3. SUBSET S \subseteq Q
  <2> HIDE DEF Q
  <2> QED
    BY <1>1, <1>2, SubsetInductive
<1> QED
  BY <1>3

LEMMA SumLeq ==
    ASSUME NEW f, NEW g, NEW S, IsFiniteSet(S),
           \A x \in S : f[x] \in Int /\ g[x] \in Int /\ f[x] <= g[x]
    PROVE  SumFunctionOnSet(f, S) <= SumFunctionOnSet(g, S)
<1>1. 1 * SumFunctionOnSet(f, S) <= 1 * SumFunctionOnSet(g, S)
  BY SumScaledLeq
<1> QED
  BY <1>1, SumType

LEMMA SumSame ==
    ASSUME NEW f, NEW g, NEW S, IsFiniteSet(S),
           \A x \in S : f[x] \in Int /\ f[x] = g[x]
    PROVE  SumFunctionOnSet(f, S) = SumFunctionOnSet(g, S)
<1>1. SumFunctionOnSet(f, S) <= SumFunctionOnSet(g, S)
  BY SumLeq
<1>2. SumFunctionOnSet(g, S) <= SumFunctionOnSet(f, S)
  BY SumLeq
<1> QED
  BY <1>1, <1>2, SumType

LEMMA SumOfNaturals ==
    ASSUME NEW f, NEW S, IsFiniteSet(S), \A x \in S : f[x] \in Nat
    PROVE  /\ SumFunctionOnSet(f, S) \in Nat
           /\ \A x \in S : f[x] <= SumFunctionOnSet(f, S)
<1>1. ASSUME NEW T \in SUBSET S
      PROVE  SumFunctionOnSet(f, T) \in Nat
  <2> DEFINE zero == [x \in T |-> 0]
  <2>1. IsFiniteSet(T)
    BY FS_Subset
  <2>2. 0 * SumFunctionOnSet(f, T) <= 1 * SumFunctionOnSet(f, T)
    BY <2>1, SumScaledLeq
  <2> QED
    BY <2>1, <2>2, SumType
<1>2. ASSUME NEW x \in S PROVE f[x] <= SumFunctionOnSet(f, S)
  <2>1. SumFunctionOnSet(f, S) = f[x] + SumFunctionOnSet(f, S \ {x})
    BY SumSplit
  <2>2. SumFunctionOnSet(f, S \ {x}) \in Nat
    BY <1>1
  <2> QED
    BY <2>1, <2>2
<1> QED
  BY <1>1, <1>2

\* Each summand is raised by c.
LEMMA SumRaised ==
    ASSUME NEW f, NEW g, NEW S, IsFiniteSet(S), NEW c \in Int,
           \A x \in S : f[x] \in Int /\ g[x] = f[x] + c
    PROVE  SumFunctionOnSet(g, S) = SumFunctionOnSet(f, S) + Cardinality(S) * c
<1> DEFINE Q == {T \in SUBSET S :
                    SumFunctionOnSet(g, T) = SumFunctionOnSet(f, T) + Cardinality(T) * c}
<1>1. {} \in Q
  BY SumEmpty, FS_EmptySet
<1>2. ASSUME NEW T \in SUBSET S, NEW x \in S, x \notin T, T \in Q
      PROVE  T \cup {x} \in Q
  <2>1. /\ SumFunctionOnSet(f, T \cup {x}) = f[x] + SumFunctionOnSet(f, T)
        /\ SumFunctionOnSet(g, T \cup {x}) = g[x] + SumFunctionOnSet(g, T)
    BY <1>2, SumInsert
  <2>2. IsFiniteSet(T)
    BY FS_Subset
  <2>3. Cardinality(T) \in Nat /\ Cardinality(T \cup {x}) = Cardinality(T) + 1
    BY <1>2, <2>2, FS_AddElement, FS_CardinalityType
  <2>4. SumFunctionOnSet(f, T) \in Int
    BY <2>2, SumType
  <2>5. (Cardinality(T) + 1) * c = Cardinality(T) * c + c
    BY <2>3
  <2> QED
    BY <1>2, <2>1, <2>3, <2>4, <2>5
<1>3. SUBSET S \subseteq Q
  <2> HIDE DEF Q
  <2> QED
    BY <1>1, <1>2, SubsetInductive
<1> QED
  BY <1>3

\* Sums of sums.
LEMMA SumAdded ==
    ASSUME NEW f, NEW g, NEW h, NEW S, IsFiniteSet(S),
           \A x \in S : f[x] \in Int /\ g[x] \in Int /\ h[x] = f[x] + g[x]
    PROVE  SumFunctionOnSet(h, S) = SumFunctionOnSet(f, S) + SumFunctionOnSet(g, S)
<1> DEFINE Q == {T \in SUBSET S :
                    SumFunctionOnSet(h, T) = SumFunctionOnSet(f, T) + SumFunctionOnSet(g, T)}
<1>1. {} \in Q
  BY SumEmpty
<1>2. ASSUME NEW T \in SUBSET S, NEW x \in S, x \notin T, T \in Q
      PROVE  T \cup {x} \in Q
  <2>1. /\ SumFunctionOnSet(f, T \cup {x}) = f[x] + SumFunctionOnSet(f, T)
        /\ SumFunctionOnSet(g, T \cup {x}) = g[x] + SumFunctionOnSet(g, T)
        /\ SumFunctionOnSet(h, T \cup {x}) = h[x] + SumFunctionOnSet(h, T)
    BY <1>2, SumInsert
  <2>2. SumFunctionOnSet(f, T) \in Int /\ SumFunctionOnSet(g, T) \in Int
    BY FS_Subset, SumType
  <2> QED
    BY <1>2, <2>1, <2>2
<1>3. SUBSET S \subseteq Q
  <2> HIDE DEF Q
  <2> QED
    BY <1>1, <1>2, SubsetInductive
<1> QED
  BY <1>3

LEMMA SumParts ==
    ASSUME NEW f, NEW S, IsFiniteSet(S), \A x \in S : f[x] \in Int, NEW T \in SUBSET S
    PROVE  SumFunctionOnSet(f, S) = SumFunctionOnSet(f, T) + SumFunctionOnSet(f, S \ T)
<1> DEFINE Rest == S \ T
           Q == {U \in SUBSET Rest :
                    SumFunctionOnSet(f, T \cup U)
                        = SumFunctionOnSet(f, T) + SumFunctionOnSet(f, U)}
<1>1. IsFiniteSet(T) /\ IsFiniteSet(Rest)
  BY FS_Subset
<1>2. {} \in Q
  <2>1. T \cup {} = T
    OBVIOUS
  <2> QED
    BY <1>1, <2>1, SumEmpty, SumType
<1>3. ASSUME NEW U \in SUBSET Rest, NEW x \in Rest, x \notin U, U \in Q
      PROVE  U \cup {x} \in Q
  <2>1. SumFunctionOnSet(f, U \cup {x}) = f[x] + SumFunctionOnSet(f, U)
    BY <1>3, SumInsert
  <2>2. SumFunctionOnSet(f, (T \cup U) \cup {x}) = f[x] + SumFunctionOnSet(f, T \cup U)
    BY <1>3, SumInsert
  <2>3. T \cup (U \cup {x}) = (T \cup U) \cup {x}
    OBVIOUS
  <2>4. SumFunctionOnSet(f, T) \in Int /\ SumFunctionOnSet(f, U) \in Int /\ f[x] \in Int
    BY FS_Subset, SumType
  <2>5. SumFunctionOnSet(f, T \cup (U \cup {x}))
          = SumFunctionOnSet(f, T) + SumFunctionOnSet(f, U \cup {x})
    <3>1. SumFunctionOnSet(f, T \cup U) = SumFunctionOnSet(f, T) + SumFunctionOnSet(f, U)
      BY <1>3
    <3>2. SumFunctionOnSet(f, T \cup (U \cup {x})) = f[x] + SumFunctionOnSet(f, T \cup U)
      BY ONLY <2>2, <2>3, Zenon
    <3> QED
      BY <2>1, <2>4, <3>1, <3>2
  <2> QED
    BY <2>5
<1>4. SUBSET Rest \subseteq Q
  <2> HIDE DEF Q, Rest
  <2> QED
    BY <1>1, <1>2, <1>3, SubsetInductive
<1>5. T \cup Rest = S
  OBVIOUS
<1> QED
  BY <1>4, <1>5
===============================================================================
