------------------------ MODULE RateAllocation_proofs ------------------------
(* What the operators of RateAllocation compute, for any number of jobs, any  *)
(* demands and any usage: lemmas for the proofs about the modules that use    *)
(* them.                                                                      *)
EXTENDS RateAllocation, FoldLemmas, SequenceTheorems

-------------------------------------------------------------------------------
(* Division.                                                                  *)

LEMMA DivBounds ==
    ASSUME NEW a \in Int, NEW b \in Nat, b > 0
    PROVE  /\ a \div b \in Int
           /\ b * (a \div b) <= a
           /\ a < b * (a \div b) + b
  OBVIOUS

LEMMA DivOfNatural ==
    ASSUME NEW a \in Nat, NEW b \in Nat, b > 0
    PROVE  /\ TruncDiv(a, b) = a \div b
           /\ a \div b \in Nat
           /\ a \div b <= a
  BY DivBounds DEF TruncDiv

\* An equal part of what is left, once one part of at most that size is taken,
\* is not smaller.
LEMMA PartsGrow ==
    ASSUME NEW left \in Nat, NEW jobs \in Nat, jobs > 1,
           NEW rate \in Int, rate <= left \div jobs
    PROVE  left \div jobs <= (left - rate) \div (jobs - 1)
<1> DEFINE share == left \div jobs
           next == (left - rate) \div (jobs - 1)
<1>1. share \in Int /\ jobs * share <= left
  BY DivBounds
<1>2. next \in Int /\ left - rate < (jobs - 1) * next + (jobs - 1)
  <2>1. left - rate \in Int /\ jobs - 1 \in Nat /\ jobs - 1 > 0
    OBVIOUS
  <2> QED
    BY <2>1, DivBounds
<1> HIDE DEF share, next
<1>3. (jobs - 1) * share <= left - rate
  <2>1. jobs * share = (jobs - 1) * share + share
    BY <1>1
  <2> QED
    BY <1>1, <2>1 DEF share
<1>4. (jobs - 1) * share < (jobs - 1) * (next + 1)
  <2>1. (jobs - 1) * (next + 1) = (jobs - 1) * next + (jobs - 1)
    BY <1>2
  <2>2. (jobs - 1) * share \in Int /\ (jobs - 1) * next \in Int
    BY <1>1, <1>2
  <2> QED
    BY <1>2, <1>3, <2>1, <2>2
<1>5. share < next + 1
  <2> SUFFICES ASSUME share >= next + 1 PROVE FALSE
    BY <1>1, <1>2
  <2>1. (jobs - 1) * share >= (jobs - 1) * (next + 1)
    BY <1>1, <1>2
  <2> QED
    BY <1>1, <1>2, <1>4, <2>1
<1> QED
  BY <1>1, <1>2, <1>5 DEF share, next

\* A part that is taken leaves at least one IOPS for each job that follows.
LEMMA PartLeavesEnough ==
    ASSUME NEW left \in Nat, NEW jobs \in Nat, jobs > 0, left >= jobs,
           NEW rate \in Int, rate <= left \div jobs
    PROVE  left - rate >= jobs - 1
<1> DEFINE share == left \div jobs
<1>1. share \in Int /\ jobs * share <= left /\ left < jobs * share + jobs
  BY DivBounds
<1> HIDE DEF share
<1>2. share >= 1
  <2> SUFFICES ASSUME share <= 0 PROVE FALSE
    BY <1>1
  <2>1. jobs * share <= 0
    BY <1>1
  <2> QED
    BY <1>1, <2>1
<1>3. (jobs - 1) * share >= jobs - 1
  BY <1>1, <1>2
<1>4. (jobs - 1) * share = jobs * share - share
  BY <1>1
<1>5. jobs * share \in Int
  BY <1>1
<1> QED
  BY <1>1, <1>3, <1>4, <1>5 DEF share

-------------------------------------------------------------------------------
(* The folds over the sequence of jobs.  FoldLeft is a recursive function over *)
(* the sets of positions, which takes the last position first.                *)

LEMMA LastPosition ==
    ASSUME NEW n \in Nat, NEW s \in SUBSET (1..n), s # {}
    PROVE  Max(s) \in s /\ \A i \in s : i <= Max(s)
<1> DEFINE P == 1..n
           Q == {T \in SUBSET P : T # {} => \E i \in T : \A k \in T : i >= k}
<1>1. {} \in Q
  OBVIOUS
<1>2. ASSUME NEW T \in SUBSET P, NEW i \in P, i \notin T, T \in Q
      PROVE  T \cup {i} \in Q
  <2>1. CASE T = {}
    BY <2>1
  <2>2. CASE T # {}
    <3>1. PICK k \in T : \A j \in T : k >= j
      BY <1>2, <2>2
    <3>2. CASE k >= i
      BY <3>1, <3>2
    <3>3. CASE ~(k >= i)
      <4>1. \A j \in T \cup {i} : i >= j
        BY <3>1, <3>3
      <4> QED
        BY <4>1
    <3> QED
      BY <3>2, <3>3
  <2> QED
    BY <2>1, <2>2
<1>3. SUBSET P \subseteq Q
  <2>1. IsFiniteSet(P)
    BY FS_Interval
  <2> HIDE DEF P, Q
  <2> QED
    BY <1>1, <1>2, <2>1, SubsetInductive
<1>4. \E i \in s : \A k \in s : i >= k
  BY <1>3
<1> QED
  BY <1>4 DEF Max

\* Both strategies at once: the step of the first phase.
PhaseStep(leftover, phase, job) ==
    IF leftover THEN LeftoverAssign(phase, job) ELSE Assign(phase, job)

FoldStep(leftover, start, order, g, s) ==
    IF s = {} THEN start ELSE PhaseStep(leftover, g[s \ {Max(s)}], order[Max(s)])

Folds(leftover, start, order, g, D) ==
    g = [s \in D |-> FoldStep(leftover, start, order, g, s)]

LEMMA FoldExists ==
    ASSUME NEW leftover, NEW start, NEW S, NEW order \in Seq(S)
    PROVE  \E g : Folds(leftover, start, order, g, SUBSET (DOMAIN order))
<1> DEFINE P == DOMAIN order
           Step(g, s) == FoldStep(leftover, start, order, g, s)
           Level(n) == {s \in SUBSET P : Cardinality(s) <= n}
           Q == {n \in Nat : \E g : Folds(leftover, start, order, g, Level(n))}
<1>1. P = 1..Len(order) /\ Len(order) \in Nat /\ IsFiniteSet(P)
  BY FS_Interval
<1>2. \A s \in SUBSET P : IsFiniteSet(s) /\ Cardinality(s) \in Nat
  BY <1>1, FS_Subset, FS_CardinalityType
<1>3. 0 \in Q
  <2>1. \A s \in Level(0) : s = {}
    BY <1>2, FS_EmptySet
  <2>2. Folds(leftover, start, order, [s \in Level(0) |-> start], Level(0))
    BY <2>1 DEF Folds, FoldStep
  <2> QED
    BY <2>2
<1>4. ASSUME NEW n \in Nat, NEW g, Folds(leftover, start, order, g, Level(n))
      PROVE  \E h : Folds(leftover, start, order, h, Level(n + 1))
  <2> DEFINE h == [s \in Level(n + 1) |-> Step(g, s)]
  <2>1. ASSUME NEW s \in Level(n + 1) PROVE Step(g, s) = Step(h, s)
    <3>1. CASE s = {}
      BY <3>1 DEF FoldStep
    <3>2. CASE s # {}
      <4> DEFINE rest == s \ {Max(s)}
      <4>1. Max(s) \in s
        BY <1>1, <3>2, LastPosition
      <4>2. rest \in Level(n) /\ rest \in Level(n + 1)
        BY <1>2, <4>1, FS_RemoveElement
      <4>3. h[rest] = Step(g, rest)
        BY <4>2
      <4>4. g[rest] = Step(g, rest)
        <5> HIDE DEF rest, Level
        <5> QED
          BY <1>4, <4>2 DEF Folds
      <4> HIDE DEF h
      <4> QED
        BY <3>2, <4>3, <4>4 DEF FoldStep
    <3> QED
      BY <3>1, <3>2
  <2>2. h = [s \in Level(n + 1) |-> Step(h, s)]
    <3> HIDE DEF Level, Step
    <3> QED
      BY Zenon, <2>1
  <2> QED
    BY <2>2 DEF Folds
<1>5. Nat \subseteq Q
  <2> HIDE DEF Level
  <2>1. \A n \in Nat : n \in Q => n + 1 \in Q
    BY <1>4
  <2> HIDE DEF Q
  <2> QED
    BY <1>3, <2>1, NatInductive
<1>6. Level(Cardinality(P)) = SUBSET P
  BY <1>1, <1>2, FS_Subset
<1> QED
  BY <1>1, <1>2, <1>5, <1>6

\* The state of the first phase before each job and after the last.
IsPhases(leftover, start, order, p) ==
    /\ p[0] = start
    /\ \A k \in 1..Len(order) : p[k] = PhaseStep(leftover, p[k - 1], order[k])

LEMMA FoldPhases ==
    ASSUME NEW leftover, NEW start, NEW S, NEW order \in Seq(S),
           NEW g, Folds(leftover, start, order, g, SUBSET (DOMAIN order))
    PROVE  \E p : /\ IsPhases(leftover, start, order, p)
                  /\ p[Len(order)] = g[DOMAIN order]
<1> DEFINE n == Len(order)
           p == [k \in 0..n |-> g[1..k]]
<1>1. n \in Nat /\ DOMAIN order = 1..n
  OBVIOUS
<1>2. \A s \in SUBSET (1..n) : g[s] = FoldStep(leftover, start, order, g, s)
  BY <1>1 DEF Folds
<1>3. p[0] = start
  <2>1. p[0] = g[1..0] /\ 1..0 = {}
    BY <1>1
  <2>2. g[{}] = start
    BY <1>2 DEF FoldStep
  <2> QED
    BY <2>1, <2>2
<1>4. ASSUME NEW k \in 1..n
      PROVE  p[k] = PhaseStep(leftover, p[k - 1], order[k])
  <2>1. 1..k \in SUBSET (1..n) /\ 1..k # {} /\ k \in 1..k
    <3>1. k \in Nat /\ 1 <= k /\ k <= n
      BY <1>1
    <3>2. \A i \in 1..k : i \in 1..n
      BY <1>1, <3>1
    <3>3. k \in 1..k
      BY <3>1
    <3> QED
      BY <3>2, <3>3
  <2>2. Max(1..k) = k
    <3>1. Max(1..k) \in 1..k /\ k <= Max(1..k)
      BY <1>1, <2>1, LastPosition
    <3> QED
      BY <3>1
  <2>3. (1..k) \ {k} = 1..(k - 1)
    BY <1>1
  <2>4. g[1..k] = PhaseStep(leftover, g[1..(k - 1)], order[k])
    BY <1>2, <2>1, <2>2, <2>3 DEF FoldStep
  <2>5. p[k] = g[1..k] /\ p[k - 1] = g[1..(k - 1)]
    BY <1>1
  <2> QED
    BY <2>4, <2>5
<1>5. p[n] = g[DOMAIN order]
  BY <1>1
<1> HIDE DEF p
<1> QED
  BY <1>3, <1>4, <1>5 DEF IsPhases

VanillaStart(order, demands, limit) ==
    [left |-> limit, jobs |-> Len(order), rates |-> <<>>, demands |-> demands]

LeftoverStart(order, demands, usage, limit) ==
    [left |-> limit, jobs |-> Len(order), rates |-> <<>>, demands |-> demands, usage |-> usage]

LEMMA FirstPhaseSteps ==
    ASSUME NEW S, NEW order \in Seq(S), NEW demands, NEW limit
    PROVE  \E p : /\ IsPhases(FALSE, VanillaStart(order, demands, limit), order, p)
                  /\ p[Len(order)] = FirstPhase(order, demands, limit)
<1> DEFINE start == VanillaStart(order, demands, limit)
           g == CHOOSE h : Folds(FALSE, start, order, h, SUBSET (DOMAIN order))
<1>1. Folds(FALSE, start, order, g, SUBSET (DOMAIN order))
  BY FoldExists
<1>2. FirstPhase(order, demands, limit) = g[DOMAIN order]
  BY DEF FirstPhase, FoldLeft, MapThenFoldSet, Folds, FoldStep, PhaseStep, VanillaStart
<1>3. \E p : IsPhases(FALSE, start, order, p) /\ p[Len(order)] = g[DOMAIN order]
  <2> HIDE DEF g, start
  <2> QED
    BY <1>1, FoldPhases
<1> QED
  BY <1>2, <1>3

LEMMA LeftoverPhaseSteps ==
    ASSUME NEW S, NEW order \in Seq(S), NEW demands, NEW usage, NEW limit
    PROVE  \E p :
              /\ IsPhases(TRUE, LeftoverStart(order, demands, usage, limit), order, p)
              /\ p[Len(order)] =
                    FoldLeft(LeftoverAssign, LeftoverStart(order, demands, usage, limit), order)
<1> DEFINE start == LeftoverStart(order, demands, usage, limit)
           g == CHOOSE h : Folds(TRUE, start, order, h, SUBSET (DOMAIN order))
<1>1. Folds(TRUE, start, order, g, SUBSET (DOMAIN order))
  BY FoldExists
<1>2. FoldLeft(LeftoverAssign, start, order) = g[DOMAIN order]
  BY DEF FoldLeft, MapThenFoldSet, Folds, FoldStep, PhaseStep, LeftoverStart
<1>3. \E p : IsPhases(TRUE, start, order, p) /\ p[Len(order)] = g[DOMAIN order]
  <2> HIDE DEF g, start
  <2> QED
    BY <1>1, FoldPhases
<1> QED
  BY <1>2, <1>3

-------------------------------------------------------------------------------
(* What both first phases have in common.                                     *)

LEMMA DivAtLeastOne ==
    ASSUME NEW left \in Nat, NEW jobs \in Nat, jobs > 0, left >= jobs
    PROVE  left \div jobs >= 1
<1> DEFINE share == left \div jobs
<1>1. share \in Int /\ left < jobs * share + jobs
  BY DivBounds
<1> HIDE DEF share
<1> SUFFICES ASSUME share <= 0 PROVE FALSE
  BY <1>1 DEF share
<1>2. jobs * share <= 0
  BY <1>1
<1> QED
  BY <1>1, <1>2

Distinct(order) == \A i, k \in DOMAIN order : order[i] = order[k] => i = k

\* The first k jobs.
First(order, k) == {order[i] : i \in 1..k}

LEMMA FirstJobs ==
    ASSUME NEW S, NEW order \in Seq(S), Distinct(order),
           NEW k \in Nat, k < Len(order)
    PROVE  /\ First(order, k + 1) = First(order, k) \cup {order[k + 1]}
           /\ order[k + 1] \notin First(order, k)
           /\ order[k + 1] \in S
           /\ \A i \in (k + 2)..Len(order) : order[i] # order[k + 1]
<1>1. 1..(k + 1) = (1..k) \cup {k + 1}
  OBVIOUS
<1>2. \A i \in 1..k : i \in DOMAIN order /\ i # k + 1
  OBVIOUS
<1>3. k + 1 \in DOMAIN order /\ \A i \in (k + 2)..Len(order) : i \in DOMAIN order /\ i # k + 1
  OBVIOUS
<1> QED
  BY <1>1, <1>2, <1>3 DEF First, Distinct

LEMMA FirstJobsFinite ==
    ASSUME NEW order, NEW k \in Nat
    PROVE  IsFiniteSet(First(order, k))
<1> DEFINE Q == {n \in Nat : IsFiniteSet(First(order, n))}
<1>1. 0 \in Q
  <2>1. First(order, 0) = {}
    BY DEF First
  <2> QED
    BY <2>1, FS_EmptySet
<1>2. ASSUME NEW n \in Nat, n \in Q PROVE n + 1 \in Q
  <2>1. 1..(n + 1) = (1..n) \cup {n + 1}
    OBVIOUS
  <2>2. First(order, n + 1) = First(order, n) \cup {order[n + 1]}
    BY <2>1 DEF First
  <2> QED
    BY <1>2, <2>2, FS_AddElement
<1>3. Nat \subseteq Q
  <2> HIDE DEF Q
  <2> QED
    BY <1>1, <1>2, NatInductive
<1> QED
  BY <1>3

LEMMA JobsCounted ==
    ASSUME NEW S, NEW order \in Seq(S), Distinct(order), NEW k \in Nat, k <= Len(order)
    PROVE  Cardinality(First(order, k)) = k
<1> DEFINE Q == {n \in Nat : n <= Len(order) => Cardinality(First(order, n)) = n}
<1>1. 0 \in Q
  <2>1. First(order, 0) = {}
    BY DEF First
  <2> QED
    BY <2>1, FS_EmptySet
<1>2. ASSUME NEW n \in Nat, n \in Q PROVE n + 1 \in Q
  <2> SUFFICES ASSUME n + 1 <= Len(order) PROVE Cardinality(First(order, n + 1)) = n + 1
    OBVIOUS
  <2>1. /\ First(order, n + 1) = First(order, n) \cup {order[n + 1]}
        /\ order[n + 1] \notin First(order, n)
    BY FirstJobs
  <2>2. IsFiniteSet(First(order, n)) /\ Cardinality(First(order, n)) = n
    BY <1>2, FirstJobsFinite
  <2> QED
    BY <2>1, <2>2, FS_AddElement
<1>3. Nat \subseteq Q
  <2> HIDE DEF Q
  <2> QED
    BY <1>1, <1>2, NatInductive
<1> QED
  BY <1>3

LEMMA SumExtended ==
    ASSUME NEW f, IsFiniteSet(DOMAIN f), \A y \in DOMAIN f : f[y] \in Int,
           NEW x, x \notin DOMAIN f, NEW v \in Int
    PROVE  LET g == Put(f, x, v) IN
           SumFunctionOnSet(g, DOMAIN g) = v + SumFunctionOnSet(f, DOMAIN f)
<1> DEFINE g == Put(f, x, v)
           T == DOMAIN f
           S == DOMAIN g
<1>1. S = T \cup {x} /\ g[x] = v /\ \A y \in T : g[y] = f[y]
  <2>1. S = {x} \cup T /\ g[x] = v /\ \A y \in T : y # x => g[y] = f[y]
    BY DEF Put
  <2> HIDE DEF g
  <2> QED
    BY <2>1
<1>2. IsFiniteSet(S) /\ \A y \in S : g[y] \in Int
  BY <1>1, FS_AddElement
<1> HIDE DEF g, S
<1>3. SumFunctionOnSet(g, T \cup {x}) = g[x] + SumFunctionOnSet(g, T)
  BY <1>1, <1>2, SumInsert
<1>4. SumFunctionOnSet(g, T) = SumFunctionOnSet(f, T)
  BY <1>1, SumSame
<1> QED
  BY <1>1, <1>3, <1>4 DEF S, g

\* The share of the k-th job when its turn comes.
Share(p, k) == p[k - 1].left \div p[k - 1].jobs

\* If each job takes at most its share, no job's share is smaller than that of a
\* job before it.
LEMMA SharesGrow ==
    ASSUME NEW n \in Nat, NEW p,
           \A m \in 0..n : p[m].left \in Nat /\ p[m].jobs = n - m,
           \A m \in 1..n : \E rate \in Int :
              rate <= Share(p, m) /\ p[m].left = p[m - 1].left - rate,
           NEW i \in 1..n, NEW k \in i..n
    PROVE  Share(p, i) <= Share(p, k)
<1> DEFINE Q == {j \in Nat : i + j <= n => Share(p, i) <= Share(p, i + j)}
<1>1. n \in Nat /\ i \in Nat /\ i >= 1
  OBVIOUS
<1>2. ASSUME NEW m \in 1..n
      PROVE  Share(p, m) \in Int
  <2>1. m - 1 \in 0..n /\ m <= n
    BY <1>1
  <2>2. p[m - 1].left \in Nat /\ p[m - 1].jobs = n - (m - 1)
    BY <2>1
  <2> QED
    BY <2>1, <2>2, DivBounds DEF Share
<1>3. ASSUME NEW m \in 1..n, m + 1 <= n
      PROVE  Share(p, m) <= Share(p, m + 1)
  <2> DEFINE left == p[m - 1].left
             jobs == p[m - 1].jobs
  <2>1. m - 1 \in 0..n /\ m \in 0..n /\ m \in Nat /\ (m + 1) - 1 = m
    BY <1>1
  <2>2. left \in Nat /\ jobs = n - (m - 1) /\ p[m].jobs = n - m
    BY <2>1
  <2>3. jobs \in Nat /\ jobs > 1 /\ p[m].jobs = jobs - 1
    <3>1. n - (m - 1) \in Nat /\ n - (m - 1) > 1 /\ n - m = (n - (m - 1)) - 1
      BY <1>1, <1>3, <2>1
    <3> QED
      BY <2>2, <3>1
  <2>4. PICK rate \in Int : rate <= left \div jobs /\ p[m].left = left - rate
    BY DEF Share
  <2>5. left \div jobs <= (left - rate) \div (jobs - 1)
    <3> HIDE DEF left, jobs
    <3> QED
      BY <2>2, <2>3, <2>4, PartsGrow
  <2> QED
    BY <2>1, <2>3, <2>4, <2>5 DEF Share
<1>4. 0 \in Q
  BY <1>1, <1>2
<1>5. ASSUME NEW j \in Nat, j \in Q PROVE j + 1 \in Q
  <2> SUFFICES ASSUME i + (j + 1) <= n PROVE Share(p, i) <= Share(p, i + (j + 1))
    OBVIOUS
  <2> DEFINE m == i + j
  <2>1. m \in 1..n /\ m + 1 \in 1..n /\ m + 1 <= n /\ m + 1 = i + (j + 1)
    BY <1>1
  <2>2. Share(p, i) <= Share(p, m)
    BY <1>5, <2>1
  <2>3. Share(p, m) <= Share(p, m + 1)
    BY <1>3, <2>1
  <2>4. Share(p, i) \in Int /\ Share(p, m) \in Int /\ Share(p, m + 1) \in Int
    BY <1>2, <2>1
  <2> HIDE DEF m
  <2> QED
    BY <2>1, <2>2, <2>3, <2>4
<1>6. Nat \subseteq Q
  <2> HIDE DEF Q
  <2> QED
    BY <1>4, <1>5, NatInductive
<1>7. k - i \in Nat /\ i + (k - i) = k /\ k <= n
  BY <1>1
<1> QED
  BY <1>6, <1>7

-------------------------------------------------------------------------------
(* The first phase of DYNAMIC_VANILLA.                                        *)

\* The rate of the k-th job.
Granted(p, order, demands, k) ==
    IF demands[order[k]] <= Share(p, k) THEN Asked(demands[order[k]]) ELSE Share(p, k)

\* After k jobs.
VanillaAt(p, order, demands, limit, D, k) ==
    /\ p[k].left \in Nat /\ p[k].jobs = Len(order) - k /\ p[k].left >= Len(order) - k
    /\ DOMAIN p[k].rates = First(order, k)
    /\ \A i \in 1..k : /\ p[k].rates[order[i]] = Granted(p, order, demands, i)
                       /\ Granted(p, order, demands, i) \in Nat
                       /\ Granted(p, order, demands, i) <= Share(p, i)
    /\ p[k].left + SumFunctionOnSet(p[k].rates, First(order, k)) = limit
    /\ p[k].demands \in [D -> Nat \cup {-1}]
    /\ \A i \in (k + 1)..Len(order) : p[k].demands[order[i]] = demands[order[i]]

LEMMA VanillaStep ==
    ASSUME NEW D, NEW order \in Seq(D), Distinct(order),
           NEW demands \in [D -> Nat \cup {-1}], NEW limit \in Nat,
           NEW p, NEW k \in Nat, k < Len(order),
           p[k + 1] = Assign(p[k], order[k + 1]),
           VanillaAt(p, order, demands, limit, D, k)
    PROVE  VanillaAt(p, order, demands, limit, D, k + 1)
<1> DEFINE job   == order[k + 1]
           left  == p[k].left
           jobs  == p[k].jobs
           share == left \div jobs
           rate  == Granted(p, order, demands, k + 1)
           n == Len(order)
<1>1. n \in Nat /\ left \in Nat /\ jobs = n - k /\ jobs \in Nat /\ jobs > 0 /\ left >= jobs
  BY DEF VanillaAt
<1>2. /\ First(order, k + 1) = First(order, k) \cup {job}
      /\ job \notin First(order, k) /\ job \in D
      /\ \A i \in (k + 2)..n : order[i] # job
  BY FirstJobs
<1>3. TruncDiv(left, jobs) = share /\ share \in Nat /\ share >= 1
  BY <1>1, DivOfNatural, DivAtLeastOne
<1>4. p[k].demands[job] = demands[job] /\ demands[job] \in Nat \cup {-1}
  <2>1. k + 1 \in (k + 1)..n
    BY <1>1
  <2> QED
    BY <1>2, <2>1 DEF VanillaAt
<1>5. Share(p, k + 1) = share
  BY DEF Share
<1>6. rate \in Nat /\ rate <= share
  BY <1>3, <1>4, <1>5 DEF Granted, Asked
<1>7. /\ p[k + 1].left = left - rate
      /\ p[k + 1].jobs = jobs - 1
      /\ p[k + 1].rates = Put(p[k].rates, job, rate)
      /\ p[k + 1].demands = IF demands[job] <= share THEN [p[k].demands EXCEPT ![job] = rate]
                            ELSE p[k].demands
  BY <1>3, <1>4, <1>5 DEF Assign, Granted
<1>8. /\ left - rate \in Nat /\ left - rate >= n - (k + 1)
      /\ jobs - 1 = n - (k + 1)
  <2>1. left - rate >= jobs - 1
    <3>1. rate \in Int /\ rate <= left \div jobs
      BY <1>6
    <3> HIDE DEF left, jobs, rate
    <3> QED
      BY <1>1, <3>1, PartLeavesEnough
  <2>2. rate \in Nat
    BY <1>6
  <2> HIDE DEF left, jobs, rate, n
  <2> QED
    BY <1>1, <2>1, <2>2
<1>9. /\ DOMAIN p[k + 1].rates = First(order, k + 1)
      /\ p[k + 1].rates[job] = rate
      /\ \A y \in First(order, k) : p[k + 1].rates[y] = p[k].rates[y]
  <2> DEFINE f == p[k].rates
  <2>1. DOMAIN f = First(order, k)
    BY DEF VanillaAt
  <2>2. /\ DOMAIN p[k + 1].rates = {job} \cup DOMAIN f
        /\ p[k + 1].rates[job] = rate
        /\ \A y \in DOMAIN f : y # job => p[k + 1].rates[y] = f[y]
    <3> HIDE DEF f, job, rate
    <3> QED
      <4>1. p[k + 1].rates = Put(f, job, rate)
        BY <1>7 DEF f
      <4> QED
        BY <4>1 DEF Put
  <2> HIDE DEF f, job, rate
  <2> QED
    BY <1>2, <2>1, <2>2 DEF f
<1>10. ASSUME NEW i \in 1..(k + 1)
       PROVE  /\ p[k + 1].rates[order[i]] = Granted(p, order, demands, i)
              /\ Granted(p, order, demands, i) \in Nat
              /\ Granted(p, order, demands, i) <= Share(p, i)
  <2>1. CASE i = k + 1
    BY <1>5, <1>6, <1>9, <2>1
  <2>2. CASE i # k + 1
    <3>1. i \in 1..k /\ order[i] \in First(order, k)
      BY <2>2 DEF First
    <3> QED
      BY <1>9, <3>1 DEF VanillaAt
  <2> QED
    BY <2>1, <2>2
<1>11. left - rate + SumFunctionOnSet(p[k + 1].rates, First(order, k + 1)) = limit
  <2> DEFINE f == p[k].rates
  <2>1. DOMAIN f = First(order, k) /\ left + SumFunctionOnSet(f, First(order, k)) = limit
    BY DEF VanillaAt
  <2>2. \A y \in DOMAIN f : f[y] \in Int
    BY <2>1 DEF VanillaAt, First
  <2>3. IsFiniteSet(DOMAIN f)
    BY <2>1, FirstJobsFinite
  <2>4. SumFunctionOnSet(f, First(order, k)) \in Int
    BY <2>1, <2>2, <2>3, SumType
  <2>5. SumFunctionOnSet(p[k + 1].rates, First(order, k + 1))
          = rate + SumFunctionOnSet(f, First(order, k))
    <3> DEFINE g == Put(f, job, rate)
    <3>1. p[k + 1].rates = g /\ DOMAIN g = First(order, k + 1)
      BY <1>7, <1>9
    <3>2. job \notin DOMAIN f /\ rate \in Int
      BY <1>2, <1>6, <2>1
    <3> HIDE DEF f, job, rate
    <3>3. SumFunctionOnSet(g, DOMAIN g) = rate + SumFunctionOnSet(f, DOMAIN f)
      BY <2>2, <2>3, <3>2, SumExtended
    <3> HIDE DEF g
    <3> QED
      BY <2>1, <3>1, <3>3
  <2> HIDE DEF f, left, rate
  <2> QED
    BY <1>1, <1>6, <2>1, <2>4, <2>5
<1>12. p[k + 1].demands \in [D -> Nat \cup {-1}]
  BY <1>2, <1>6, <1>7 DEF VanillaAt
<1>13. ASSUME NEW i \in (k + 2)..n
       PROVE  p[k + 1].demands[order[i]] = demands[order[i]]
  <2>1. i \in (k + 1)..n /\ i \in 1..n
    BY <1>1
  <2>2. order[i] \in D /\ order[i] # job /\ p[k].demands[order[i]] = demands[order[i]]
    BY <1>2, <2>1 DEF VanillaAt
  <2> QED
    BY <1>7, <2>2 DEF VanillaAt
<1>14. (k + 1) + 1 = k + 2
  OBVIOUS
<1> HIDE DEF job, left, jobs, share, rate
<1> QED
  BY <1>7, <1>8, <1>9, <1>10, <1>11, <1>12, <1>13, <1>14 DEF VanillaAt

LEMMA VanillaPhases ==
    ASSUME NEW D, NEW order \in Seq(D), Distinct(order),
           NEW demands \in [D -> Nat \cup {-1}], NEW limit \in Nat, limit >= Len(order),
           NEW p, IsPhases(FALSE, VanillaStart(order, demands, limit), order, p)
    PROVE  \A k \in 0..Len(order) : VanillaAt(p, order, demands, limit, D, k)
<1> DEFINE Q == {k \in Nat : k <= Len(order) => VanillaAt(p, order, demands, limit, D, k)}
<1>1. 0 \in Q
  <2>1. p[0] = VanillaStart(order, demands, limit)
    BY DEF IsPhases
  <2>2. First(order, 0) = {} /\ 1..0 = {} /\ DOMAIN <<>> = {}
    BY DEF First
  <2>3. SumFunctionOnSet(<<>>, {}) = 0
    BY SumEmpty
  <2>4. p[0].left = limit /\ p[0].jobs = Len(order) /\ p[0].rates = <<>> /\ p[0].demands = demands
    BY <2>1 DEF VanillaStart
  <2>5. SumFunctionOnSet(p[0].rates, First(order, 0)) = 0
    BY <2>2, <2>3, <2>4, Zenon
  <2>6. /\ p[0].left \in Nat /\ p[0].jobs = Len(order) - 0 /\ p[0].left >= Len(order) - 0
        /\ DOMAIN p[0].rates = First(order, 0)
        /\ p[0].left + SumFunctionOnSet(p[0].rates, First(order, 0)) = limit
    BY <2>2, <2>4, <2>5
  <2>7. VanillaAt(p, order, demands, limit, D, 0)
    BY <2>2, <2>4, <2>6 DEF VanillaAt
  <2> QED
    BY <2>7
<1>2. ASSUME NEW k \in Nat, k \in Q PROVE k + 1 \in Q
  <2> SUFFICES ASSUME k + 1 <= Len(order)
               PROVE  VanillaAt(p, order, demands, limit, D, k + 1)
    OBVIOUS
  <2>1. k + 1 \in 1..Len(order) /\ (k + 1) - 1 = k
    OBVIOUS
  <2>2. p[k + 1] = Assign(p[k], order[k + 1])
    BY <2>1 DEF IsPhases, PhaseStep
  <2> QED
    BY <1>2, <2>2, VanillaStep
<1>3. Nat \subseteq Q
  <2> HIDE DEF Q
  <2> QED
    BY <1>1, <1>2, NatInductive
<1> QED
  BY <1>3

LEMMA VanillaSharesGrow ==
    ASSUME NEW D, NEW order \in Seq(D),
           NEW demands \in [D -> Nat \cup {-1}], NEW limit \in Nat,
           NEW p, IsPhases(FALSE, VanillaStart(order, demands, limit), order, p),
           \A k \in 0..Len(order) : VanillaAt(p, order, demands, limit, D, k),
           NEW i \in 1..Len(order), NEW k \in i..Len(order)
    PROVE  Share(p, i) <= Share(p, k)
<1> DEFINE n == Len(order)
<1>1. n \in Nat
  OBVIOUS
<1>2. \A m \in 0..n : p[m].left \in Nat /\ p[m].jobs = n - m
  BY DEF VanillaAt
<1>3. ASSUME NEW m \in 1..n
      PROVE  \E rate \in Int : rate <= Share(p, m) /\ p[m].left = p[m - 1].left - rate
  <2> DEFINE left == p[m - 1].left
             jobs == p[m - 1].jobs
             rate == Granted(p, order, demands, m)
  <2>1. m - 1 \in 0..n /\ m \in 0..n /\ m \in 1..m
    BY <1>1
  <2>2. left \in Nat /\ jobs \in Nat /\ jobs > 0
    <3>1. left \in Nat /\ jobs = n - (m - 1)
      BY <1>2, <2>1
    <3>2. n - (m - 1) \in Nat /\ n - (m - 1) > 0
      BY <1>1
    <3> QED
      BY <3>1, <3>2
  <2>3. rate \in Int /\ rate <= Share(p, m)
    BY <2>1 DEF VanillaAt
  <2>4. p[m].left = left - rate
    <3>1. p[m] = Assign(p[m - 1], order[m])
      BY DEF IsPhases, PhaseStep
    <3>2. m \in ((m - 1) + 1)..n
      BY <2>1
    <3>3. p[m - 1].demands[order[m]] = demands[order[m]]
      BY <2>1, <3>2 DEF VanillaAt
    <3>4. TruncDiv(left, jobs) = left \div jobs
      <4> HIDE DEF left, jobs
      <4> QED
        BY <2>2, DivOfNatural
    <3> QED
      BY <3>1, <3>3, <3>4 DEF Assign, Granted, Share
  <2> HIDE DEF rate, left
  <2> QED
    BY <2>3, <2>4 DEF left
<1> QED
  BY <1>1, <1>2, <1>3, SharesGrow

\* What DYNAMIC_VANILLA gives the jobs, when p is its first phase: to each the
\* rate of the first phase and the same part of what is left.
IsVanilla(result, p, order, demands, limit, D) ==
    /\ IsPhases(FALSE, VanillaStart(order, demands, limit), order, p)
    /\ \A k \in 0..Len(order) : VanillaAt(p, order, demands, limit, D, k)
    /\ DOMAIN result.rates = First(order, Len(order))
    /\ \A i \in 1..Len(order) :
          result.rates[order[i]]
              = Granted(p, order, demands, i) + p[Len(order)].left \div Len(order)
    /\ result.demands = p[Len(order)].demands

LEMMA VanillaResult ==
    ASSUME NEW D, NEW order \in Seq(D), order # <<>>, Distinct(order),
           NEW demands \in [D -> Nat \cup {-1}], NEW limit \in Nat, limit >= Len(order)
    PROVE  \E p : IsVanilla(VanillaAllocation(order, demands, limit), p,
                            order, demands, limit, D)
<1> DEFINE n == Len(order)
           result == VanillaAllocation(order, demands, limit)
<1>1. PICK p : /\ IsPhases(FALSE, VanillaStart(order, demands, limit), order, p)
              /\ p[n] = FirstPhase(order, demands, limit)
  BY FirstPhaseSteps
<1>2. \A k \in 0..n : VanillaAt(p, order, demands, limit, D, k)
  BY <1>1, VanillaPhases
<1>3. n \in Nat /\ n > 0 /\ n \in 0..n
  BY EmptySeq
<1>4. VanillaAt(p, order, demands, limit, D, n)
  BY <1>2, <1>3
<1>5. TruncDiv(p[n].left, n) = p[n].left \div n
  BY <1>3, <1>4, DivOfNatural DEF VanillaAt
<1>6. /\ result.rates = [job \in DOMAIN p[n].rates |-> p[n].rates[job] + p[n].left \div n]
      /\ result.demands = p[n].demands
  BY <1>1, <1>5 DEF VanillaAllocation
<1>7. DOMAIN p[n].rates = First(order, n)
  BY <1>4 DEF VanillaAt
<1>8. \A i \in 1..n :
         /\ order[i] \in First(order, n)
         /\ p[n].rates[order[i]] = Granted(p, order, demands, i)
  BY <1>4 DEF VanillaAt, First
<1> HIDE DEF result
<1>9. DOMAIN result.rates = First(order, n)
  BY <1>6, <1>7
<1>10. \A i \in 1..n :
          result.rates[order[i]] = Granted(p, order, demands, i) + p[n].left \div n
  BY <1>6, <1>7, <1>8
<1> QED
  BY <1>1, <1>2, <1>6, <1>9, <1>10 DEF IsVanilla, result

LEMMA TotalIsSum == \A rates : Total(rates) = SumFunctionOnSet(rates, DOMAIN rates)
  BY DEF Total, FoldFunction, SumFunctionOnSet

\* DYNAMIC_VANILLA hands out the limit but for the remainder of one division.
LEMMA VanillaTotal ==
    ASSUME NEW D, NEW order \in Seq(D), order # <<>>, Distinct(order),
           NEW demands \in [D -> Nat \cup {-1}], NEW limit \in Nat, limit >= Len(order)
    PROVE  LET result == VanillaAllocation(order, demands, limit) IN
           /\ result.rates \in [First(order, Len(order)) -> Nat]
           /\ result.demands \in [D -> Nat \cup {-1}]
           /\ Total(result.rates) <= limit
           /\ Total(result.rates) > limit - Len(order)
<1> DEFINE n == Len(order)
           result == VanillaAllocation(order, demands, limit)
           jobs == First(order, n)
<1>1. PICK p : IsVanilla(result, p, order, demands, limit, D)
  BY VanillaResult
<1> HIDE DEF result
<1>2. n \in Nat /\ n > 0 /\ VanillaAt(p, order, demands, limit, D, n)
  <2>1. n \in Nat /\ n > 0
    BY EmptySeq
  <2>2. n \in 0..n
    BY <2>1
  <2> QED
    BY <1>1, <2>1, <2>2 DEF IsVanilla
<1> DEFINE left  == p[n].left
           extra == left \div n
           f     == p[n].rates
<1>3. left \in Nat /\ extra \in Nat /\ n * extra <= left /\ left < n * extra + n
  <2>1. left \in Nat
    BY <1>2 DEF VanillaAt
  <2>2. n \in Nat /\ n > 0
    BY <1>2
  <2> HIDE DEF left, n
  <2>3. extra \in Nat
    BY <2>1, <2>2, DivOfNatural
  <2>4. n * extra <= left /\ left < n * extra + n
    BY <2>1, <2>2, DivBounds
  <2> HIDE DEF extra
  <2> QED
    BY <2>1, <2>3, <2>4
<1>4. \A job \in jobs : f[job] \in Nat /\ result.rates[job] = f[job] + extra
  <2> SUFFICES ASSUME NEW i \in 1..n
               PROVE  f[order[i]] \in Nat /\ result.rates[order[i]] = f[order[i]] + extra
    BY DEF First
  <2> QED
    BY <1>1, <1>2 DEF VanillaAt, IsVanilla
<1>5. result.rates = [job \in jobs |-> result.rates[job]]
  <2> DEFINE first == FirstPhase(order, demands, limit).rates
             more == TruncDiv(FirstPhase(order, demands, limit).left, Len(order))
  <2>1. result.rates = [job \in DOMAIN first |-> first[job] + more]
    BY DEF VanillaAllocation, result
  <2>2. DOMAIN result.rates = jobs
    BY <1>1 DEF IsVanilla
  <2> HIDE DEF first, more, jobs
  <2> QED
    BY <2>1, <2>2
<1>6. IsFiniteSet(jobs) /\ Cardinality(jobs) = n
  BY <1>2, FirstJobsFinite, JobsCounted
<1>7. left + SumFunctionOnSet(f, jobs) = limit
  BY <1>2 DEF VanillaAt
<1>8. result.demands \in [D -> Nat \cup {-1}]
  BY <1>1, <1>2 DEF VanillaAt, IsVanilla
<1> HIDE DEF left, extra, f, jobs, n
<1>9. SumFunctionOnSet(f, jobs) \in Int
  BY <1>4, <1>6, SumType
<1>10. SumFunctionOnSet(result.rates, jobs) = SumFunctionOnSet(f, jobs) + Cardinality(jobs) * extra
  BY <1>3, <1>4, <1>6, SumRaised
<1>11. Total(result.rates) = SumFunctionOnSet(f, jobs) + n * extra
  <2>1. DOMAIN result.rates = jobs
    BY <1>1 DEF IsVanilla, jobs, n
  <2> QED
    BY <1>6, <1>10, <2>1, TotalIsSum
<1>12. n * extra \in Int
  BY <1>2, <1>3
<1>13. Total(result.rates) <= limit /\ Total(result.rates) > limit - n
  BY <1>2, <1>3, <1>7, <1>9, <1>11, <1>12
<1>14. result.rates \in [jobs -> Nat]
  BY <1>3, <1>4, <1>5
<1> QED
  BY <1>8, <1>13, <1>14 DEF result, jobs, n

-------------------------------------------------------------------------------
(* DYNAMIC_LEFTOVER.                                                          *)

\* No job gets more than its share, and each at least what it uses, its demand
\* or its share, whichever is least.
LEMMA LeftoverRateBounds ==
    ASSUME NEW demand \in Nat \cup {-1}, NEW use \in Nat, NEW share \in Nat
    PROVE  LET rate == LeftoverRate(demand, use, share) IN
           /\ rate \in Int /\ rate <= share
           /\ rate >= use \/ rate >= demand \/ rate >= share
           /\ demand >= 0 => rate >= 0
           /\ demand >= 4 /\ share >= 1 => rate >= 1
<1> DEFINE rate == LeftoverRate(demand, use, share)
           part == (demand - use) \div 4
<1>1. demand - use \in Int /\ part \in Int /\ 4 * part <= demand - use /\ demand - use < 4 * part + 4
  BY DivBounds
<1> HIDE DEF part
<1>2. CASE 100 * use <= 95 * demand
  <2>1. demand >= use
    BY <1>2
  <2>2. rate = IF 4 * use + (demand - use) < 4 * share THEN use + part ELSE share
    BY <1>2 DEF LeftoverRate, part
  <2> HIDE DEF rate
  <2>3. CASE 4 * use + (demand - use) < 4 * share
    <3>1. rate = use + part
      BY <2>2, <2>3
    <3>2. part >= 0
      BY <1>1, <2>1
    <3>3. rate <= share
      BY <1>1, <2>3, <3>1
    <3>4. demand >= 4 => use + part >= 1
      BY <1>1, <2>1, <3>2
    <3> QED
      BY <1>1, <3>1, <3>2, <3>3, <3>4 DEF rate
  <2>4. CASE ~(4 * use + (demand - use) < 4 * share)
    <3>1. rate = share
      BY <2>2, <2>4
    <3> QED
      BY <3>1 DEF rate
  <2> QED
    BY <2>3, <2>4
<1>3. CASE ~(100 * use <= 95 * demand)
  <2>1. rate = IF demand < share THEN demand ELSE share
    BY <1>3 DEF LeftoverRate
  <2> HIDE DEF rate
  <2> QED
    BY <2>1 DEF rate
<1> QED
  BY <1>2, <1>3

\* The rate of the k-th job.
Offered(p, order, demands, usage, k) ==
    LeftoverRate(demands[order[k]], usage[order[k]], Share(p, k))

\* After k jobs.
LeftoverAt(p, order, demands, usage, limit, k) ==
    /\ DOMAIN p[k] = {"left", "jobs", "rates", "demands", "usage"}
    /\ p[k].left \in Nat /\ p[k].jobs = Len(order) - k /\ p[k].left >= Len(order) - k
    /\ p[k].demands = demands /\ p[k].usage = usage
    /\ DOMAIN p[k].rates = First(order, k)
    /\ \A i \in 1..k : /\ p[k].rates[order[i]] = Offered(p, order, demands, usage, i)
                       /\ Share(p, i) \in Nat /\ Share(p, i) >= 1
    /\ \A i \in 1..k : p[i].left = p[i - 1].left - Offered(p, order, demands, usage, i)
    /\ p[k].left + SumFunctionOnSet(p[k].rates, First(order, k)) = limit

LEMMA LeftoverStep ==
    ASSUME NEW D, NEW order \in Seq(D), Distinct(order),
           NEW demands \in [D -> Nat \cup {-1}], NEW usage \in [D -> Nat], NEW limit \in Nat,
           NEW p, NEW k \in Nat, k < Len(order),
           p[k + 1] = LeftoverAssign(p[k], order[k + 1]),
           LeftoverAt(p, order, demands, usage, limit, k)
    PROVE  LeftoverAt(p, order, demands, usage, limit, k + 1)
<1> DEFINE job   == order[k + 1]
           left  == p[k].left
           jobs  == p[k].jobs
           share == left \div jobs
           rate  == Offered(p, order, demands, usage, k + 1)
           n == Len(order)
<1>1. n \in Nat /\ left \in Nat /\ jobs = n - k /\ jobs \in Nat /\ jobs > 0 /\ left >= jobs
  BY DEF LeftoverAt
<1>2. /\ First(order, k + 1) = First(order, k) \cup {job}
      /\ job \notin First(order, k) /\ job \in D
  BY FirstJobs
<1>3. share \in Nat /\ share >= 1
  <2>1. left \in Nat /\ jobs \in Nat /\ jobs > 0 /\ left >= jobs
    BY <1>1
  <2> HIDE DEF left, jobs
  <2> QED
    BY <2>1, DivOfNatural, DivAtLeastOne
<1>4. Share(p, k + 1) = share
  BY DEF Share
<1>5. rate = LeftoverRate(demands[job], usage[job], share)
  BY <1>4 DEF Offered
<1>6. rate \in Int /\ rate <= share
  <2>1. demands[job] \in Nat \cup {-1} /\ usage[job] \in Nat
    BY <1>2
  <2> HIDE DEF rate, share, job
  <2> QED
    BY <1>3, <1>5, <2>1, LeftoverRateBounds
<1>7. /\ DOMAIN p[k + 1] = {"left", "jobs", "rates", "demands", "usage"}
      /\ p[k + 1].left = left - rate
      /\ p[k + 1].jobs = jobs - 1
      /\ p[k + 1].rates = Put(p[k].rates, job, rate)
      /\ p[k + 1].demands = demands /\ p[k + 1].usage = usage
  <2> DEFINE phase == p[k]
  <2>1. DOMAIN phase = {"left", "jobs", "rates", "demands", "usage"}
    BY DEF LeftoverAt
  <2>2. phase.demands = demands /\ phase.usage = usage
    BY DEF LeftoverAt
  <2>3. LeftoverRate(phase.demands[job], phase.usage[job], phase.left \div phase.jobs) = rate
    BY <1>5, <2>2
  <2>4. p[k + 1] = [phase EXCEPT !.left = @ - rate, !.jobs = @ - 1, !.rates = Put(@, job, rate)]
    BY <2>3 DEF LeftoverAssign
  <2>5. phase.left = left /\ phase.jobs = jobs /\ phase.rates = p[k].rates
    OBVIOUS
  <2> HIDE DEF phase, rate, job, left, jobs
  <2> QED
    BY <2>1, <2>2, <2>4, <2>5
<1>8. /\ left - rate \in Nat /\ left - rate >= n - (k + 1)
      /\ jobs - 1 = n - (k + 1)
  <2>1. left - rate >= jobs - 1
    <3>1. rate \in Int /\ rate <= left \div jobs
      BY <1>6
    <3> HIDE DEF left, jobs, rate
    <3> QED
      BY <1>1, <3>1, PartLeavesEnough
  <2>2. rate \in Int
    BY <1>6
  <2> HIDE DEF left, jobs, rate, n
  <2> QED
    BY <1>1, <2>1, <2>2
<1>9. /\ DOMAIN p[k + 1].rates = First(order, k + 1)
      /\ p[k + 1].rates[job] = rate
      /\ \A y \in First(order, k) : p[k + 1].rates[y] = p[k].rates[y]
  <2> DEFINE f == p[k].rates
  <2>1. DOMAIN f = First(order, k)
    BY DEF LeftoverAt
  <2>2. /\ DOMAIN p[k + 1].rates = {job} \cup DOMAIN f
        /\ p[k + 1].rates[job] = rate
        /\ \A y \in DOMAIN f : y # job => p[k + 1].rates[y] = f[y]
    <3> HIDE DEF f, job, rate
    <3> QED
      <4>1. p[k + 1].rates = Put(f, job, rate)
        BY <1>7 DEF f
      <4> QED
        BY <4>1 DEF Put
  <2> HIDE DEF f, job, rate
  <2> QED
    BY <1>2, <2>1, <2>2 DEF f
<1>10. ASSUME NEW i \in 1..(k + 1)
       PROVE  /\ p[k + 1].rates[order[i]] = Offered(p, order, demands, usage, i)
              /\ Share(p, i) \in Nat /\ Share(p, i) >= 1
              /\ p[i].left = p[i - 1].left - Offered(p, order, demands, usage, i)
  <2>1. CASE i = k + 1
    <3>1. p[k + 1].rates[order[i]] = rate /\ p[i].left = p[i - 1].left - rate
      BY <1>7, <1>9, <2>1
    <3> HIDE DEF share
    <3> QED
      BY <1>3, <1>4, <2>1, <3>1
  <2>2. CASE i # k + 1
    <3>1. i \in 1..k /\ order[i] \in First(order, k)
      BY <2>2 DEF First
    <3> QED
      BY <1>9, <3>1 DEF LeftoverAt
  <2> QED
    BY <2>1, <2>2
<1>11. left - rate + SumFunctionOnSet(p[k + 1].rates, First(order, k + 1)) = limit
  <2> DEFINE f == p[k].rates
  <2>1. DOMAIN f = First(order, k) /\ left + SumFunctionOnSet(f, First(order, k)) = limit
    BY DEF LeftoverAt
  <2>2. \A y \in DOMAIN f : f[y] \in Int
    <3> SUFFICES ASSUME NEW i \in 1..k PROVE f[order[i]] \in Int
      BY <2>1 DEF First
    <3>1. f[order[i]] = Offered(p, order, demands, usage, i) /\ Share(p, i) \in Nat
      BY DEF LeftoverAt
    <3>2. order[i] \in D
      BY <1>1
    <3>3. demands[order[i]] \in Nat \cup {-1} /\ usage[order[i]] \in Nat
      BY <3>2
    <3> HIDE DEF f
    <3> QED
      BY <3>1, <3>3, LeftoverRateBounds DEF Offered
  <2>3. IsFiniteSet(DOMAIN f)
    BY <2>1, FirstJobsFinite
  <2>4. SumFunctionOnSet(f, First(order, k)) \in Int
    BY <2>1, <2>2, <2>3, SumType
  <2>5. SumFunctionOnSet(p[k + 1].rates, First(order, k + 1))
          = rate + SumFunctionOnSet(f, First(order, k))
    <3> DEFINE g == Put(f, job, rate)
    <3>1. p[k + 1].rates = g /\ DOMAIN g = First(order, k + 1)
      BY <1>7, <1>9
    <3>2. job \notin DOMAIN f /\ rate \in Int
      BY <1>2, <1>6, <2>1
    <3> HIDE DEF f, job, rate
    <3>3. SumFunctionOnSet(g, DOMAIN g) = rate + SumFunctionOnSet(f, DOMAIN f)
      BY <2>2, <2>3, <3>2, SumExtended
    <3> HIDE DEF g
    <3> QED
      BY <2>1, <3>1, <3>3
  <2> HIDE DEF f, left, rate
  <2> QED
    BY <1>1, <1>6, <2>1, <2>4, <2>5
<1> HIDE DEF job, left, jobs, share, rate
<1> QED
  BY <1>7, <1>8, <1>9, <1>10, <1>11 DEF LeftoverAt

LEMMA LeftoverPhases ==
    ASSUME NEW D, NEW order \in Seq(D), Distinct(order),
           NEW demands \in [D -> Nat \cup {-1}], NEW usage \in [D -> Nat],
           NEW limit \in Nat, limit >= Len(order),
           NEW p, IsPhases(TRUE, LeftoverStart(order, demands, usage, limit), order, p)
    PROVE  \A k \in 0..Len(order) : LeftoverAt(p, order, demands, usage, limit, k)
<1> DEFINE Q == {k \in Nat : k <= Len(order) => LeftoverAt(p, order, demands, usage, limit, k)}
<1>1. 0 \in Q
  <2>1. p[0] = LeftoverStart(order, demands, usage, limit)
    BY DEF IsPhases
  <2>2. First(order, 0) = {} /\ 1..0 = {} /\ DOMAIN <<>> = {}
    BY DEF First
  <2>3. SumFunctionOnSet(<<>>, {}) = 0
    BY SumEmpty
  <2>4. /\ p[0].left = limit /\ p[0].jobs = Len(order) /\ p[0].rates = <<>>
        /\ p[0].demands = demands /\ p[0].usage = usage
        /\ DOMAIN p[0] = {"left", "jobs", "rates", "demands", "usage"}
    BY <2>1 DEF LeftoverStart
  <2>5. SumFunctionOnSet(p[0].rates, First(order, 0)) = 0
    BY <2>2, <2>3, <2>4, Zenon
  <2>6. /\ p[0].left \in Nat /\ p[0].jobs = Len(order) - 0 /\ p[0].left >= Len(order) - 0
        /\ DOMAIN p[0].rates = First(order, 0)
        /\ p[0].left + SumFunctionOnSet(p[0].rates, First(order, 0)) = limit
    BY <2>2, <2>4, <2>5
  <2>7. LeftoverAt(p, order, demands, usage, limit, 0)
    BY <2>2, <2>4, <2>6 DEF LeftoverAt
  <2> QED
    BY <2>7
<1>2. ASSUME NEW k \in Nat, k \in Q PROVE k + 1 \in Q
  <2> SUFFICES ASSUME k + 1 <= Len(order)
               PROVE  LeftoverAt(p, order, demands, usage, limit, k + 1)
    OBVIOUS
  <2>1. k + 1 \in 1..Len(order) /\ (k + 1) - 1 = k
    OBVIOUS
  <2>2. p[k + 1] = LeftoverAssign(p[k], order[k + 1])
    BY <2>1 DEF IsPhases, PhaseStep
  <2>3. k < Len(order) /\ LeftoverAt(p, order, demands, usage, limit, k)
    BY <1>2
  <2> HIDE DEF Q
  <2> QED
    BY <2>2, <2>3, LeftoverStep
<1>3. Nat \subseteq Q
  <2> HIDE DEF Q
  <2> QED
    BY <1>1, <1>2, NatInductive
<1> QED
  BY <1>3

\* The part of the second phase: no more than there is.
LEMMA PartsByUsage ==
    ASSUME NEW D, IsFiniteSet(D), NEW usage \in [D -> Nat], NEW left \in Nat,
           NEW more, \A job \in D : more[job] = IF Total(usage) = 0 THEN 0
                                                ELSE (usage[job] * left) \div Total(usage)
    PROVE  /\ \A job \in D : more[job] \in Nat
           /\ SumFunctionOnSet(more, D) \in Int
           /\ SumFunctionOnSet(more, D) <= left
<1> DEFINE total == Total(usage)
<1>1. total = SumFunctionOnSet(usage, D) /\ total \in Nat
  <2>1. total = SumFunctionOnSet(usage, D)
    BY TotalIsSum
  <2>2. \A job \in D : usage[job] \in Nat
    OBVIOUS
  <2> QED
    BY <2>1, <2>2, SumOfNaturals
<1>2. ASSUME NEW job \in D
      PROVE  more[job] \in Nat /\ total * more[job] <= left * usage[job]
  <2>1. usage[job] \in Nat
    OBVIOUS
  <2> HIDE DEF total
  <2>2. CASE total = 0
    <3>1. more[job] = 0
      BY <2>2 DEF total
    <3>2. 0 <= left * usage[job]
      BY <2>1
    <3> QED
      BY <2>2, <3>1, <3>2
  <2>3. CASE total # 0
    <3> DEFINE a == usage[job] * left
    <3>1. a \in Nat /\ a = left * usage[job]
      BY <2>1
    <3>2. more[job] = a \div total /\ total > 0
      BY <1>1, <2>3 DEF total
    <3> HIDE DEF a
    <3>3. more[job] \in Nat /\ total * more[job] <= a
      <4>1. total \in Nat
        BY <1>1
      <4>2. a \div total \in Nat
        BY <3>1, <3>2, <4>1, DivOfNatural
      <4>3. total * (a \div total) <= a
        BY <3>1, <3>2, <4>1, DivBounds
      <4> QED
        BY <3>2, <4>2, <4>3
    <3> QED
      BY <3>1, <3>3
  <2> QED
    BY <2>2, <2>3
<1> HIDE DEF total
<1>3. SumFunctionOnSet(more, D) \in Nat
  BY <1>2, SumOfNaturals
<1>4. total * SumFunctionOnSet(more, D) <= left * total
  <2>1. \A job \in D : /\ more[job] \in Int /\ usage[job] \in Int
                       /\ total * more[job] <= left * usage[job]
    BY <1>2
  <2>2. total \in Int /\ left \in Int
    BY <1>1
  <2>3. total * SumFunctionOnSet(more, D) <= left * SumFunctionOnSet(usage, D)
    BY <2>1, <2>2, SumScaledLeq
  <2> QED
    BY <1>1, <2>3
<1>5. SumFunctionOnSet(more, D) <= left
  <2> DEFINE s == SumFunctionOnSet(more, D)
  <2>1. CASE total = 0
    <3>1. \A job \in D : /\ more[job] \in Int /\ usage[job] \in Int
                         /\ 1 * more[job] <= 0 * usage[job]
      BY <2>1, <1>2 DEF total
    <3>2. 1 * s <= 0 * SumFunctionOnSet(usage, D)
      <4>1. 0 \in Int /\ 1 \in Int
        OBVIOUS
      <4> QED
        BY <3>1, <4>1, SumScaledLeq
    <3>3. SumFunctionOnSet(usage, D) \in Int
      BY <1>1
    <3> HIDE DEF s
    <3> QED
      BY <3>2, <3>3, <1>3 DEF s
  <2>2. CASE total # 0
    <3>1. total > 0 /\ total * s <= total * left /\ s \in Nat
      BY <1>1, <1>3, <1>4, <2>2
    <3> HIDE DEF s
    <3>2. ASSUME s >= left + 1 PROVE FALSE
      <4>1. total * s >= total * (left + 1)
        BY <1>1, <3>1, <3>2
      <4>2. total * (left + 1) = total * left + total /\ total * left \in Int /\ total * s \in Int
        BY <1>1, <3>1
      <4> QED
        BY <1>1, <3>1, <4>1, <4>2
    <3> QED
      BY <3>1, <3>2 DEF s
  <2> QED
    BY <2>1, <2>2
<1> QED
  BY <1>2, <1>3, <1>5

\* What DYNAMIC_LEFTOVER computes for the jobs D, n of them: no more than the
\* limit, and no job less than it uses, its demand or a fair share.
IsLeftover(computed, demands, usage, limit, D, n) ==
    /\ computed.rates \in [D -> Int]
    /\ Total(computed.rates) <= limit
    /\ \A job \in D :
          /\ demands[job] >= 0 => computed.rates[job] >= 0
          /\ demands[job] >= 4 => computed.rates[job] >= 1
          /\ \/ computed.rates[job] >= usage[job]
             \/ computed.rates[job] >= demands[job]
             \/ computed.rates[job] >= limit \div n
    /\ Total(usage) # 0 => computed.defined

LEMMA LeftoverResult ==
    ASSUME NEW D, NEW order \in Seq(D), order # <<>>, Distinct(order),
           D = First(order, Len(order)),
           NEW demands \in [D -> Nat \cup {-1}], NEW usage \in [D -> Nat],
           NEW limit \in Nat, limit >= Len(order)
    PROVE  IsLeftover(LeftoverAllocation(order, demands, usage, limit),
                      demands, usage, limit, D, Len(order))
<1> DEFINE n == Len(order)
           start == LeftoverStart(order, demands, usage, limit)
           computed == LeftoverAllocation(order, demands, usage, limit)
<1>1. PICK p : /\ IsPhases(TRUE, start, order, p)
               /\ p[n] = FoldLeft(LeftoverAssign, start, order)
  BY LeftoverPhaseSteps
<1>2. \A k \in 0..n : LeftoverAt(p, order, demands, usage, limit, k)
  BY <1>1, LeftoverPhases
<1>3. n \in Nat /\ n > 0 /\ n \in 0..n /\ 1 \in 1..n
  BY EmptySeq
<1> DEFINE f     == p[n].rates
           left  == p[n].left
           more  == [job \in D |-> IF Total(usage) = 0 THEN 0
                                   ELSE (usage[job] * left) \div Total(usage)]
<1>4. /\ DOMAIN f = D /\ left \in Nat
      /\ left + SumFunctionOnSet(f, D) = limit
  BY <1>2, <1>3 DEF LeftoverAt
<1>5. /\ computed.rates = [job \in D |-> f[job] + more[job]]
      /\ computed.defined = (left = 0 \/ Total(usage) # 0)
  <2>1. p[n] = FoldLeft(LeftoverAssign,
                        [left |-> limit, jobs |-> Len(order), rates |-> <<>>,
                         demands |-> demands, usage |-> usage],
                        order)
    BY <1>1 DEF LeftoverStart
  <2>2. computed = [defined |-> p[n].left = 0 \/ Total(usage) # 0,
                    rates   |-> [job \in DOMAIN p[n].rates |->
                         p[n].rates[job]
                         + (IF Total(usage) = 0 THEN 0
                            ELSE (usage[job] * p[n].left) \div Total(usage))]]
    BY <2>1 DEF LeftoverAllocation
  <2> HIDE DEF computed
  <2>3. computed.defined = (left = 0 \/ Total(usage) # 0)
    BY <2>2
  <2>4. computed.rates = [job \in D |-> f[job] + (IF Total(usage) = 0 THEN 0
                            ELSE (usage[job] * left) \div Total(usage))]
    BY <1>4, <2>2
  <2> HIDE DEF left
  <2>5. computed.rates = [job \in D |-> f[job] + more[job]]
    BY <2>4
  <2> QED
    BY <2>3, <2>5
<1>6. IsFiniteSet(D)
  BY <1>3, FirstJobsFinite
<1>7. /\ \A job \in D : more[job] \in Nat
      /\ SumFunctionOnSet(more, D) \in Int /\ SumFunctionOnSet(more, D) <= left
  <2>1. \A job \in D : more[job] = IF Total(usage) = 0 THEN 0
                                   ELSE (usage[job] * left) \div Total(usage)
    OBVIOUS
  <2> HIDE DEF more, left
  <2> QED
    BY <1>4, <1>6, <2>1, PartsByUsage
<1>8. ASSUME NEW i \in 1..n
      PROVE  /\ f[order[i]] = Offered(p, order, demands, usage, i)
             /\ Share(p, i) \in Nat /\ Share(p, i) >= 1
             /\ p[i].left = p[i - 1].left - Offered(p, order, demands, usage, i)
             /\ order[i] \in D
             /\ demands[order[i]] \in Nat \cup {-1} /\ usage[order[i]] \in Nat
  <2>1. LeftoverAt(p, order, demands, usage, limit, n)
    BY <1>2, <1>3
  <2>2. order[i] \in D
    BY <1>3
  <2> QED
    BY <2>1, <2>2 DEF LeftoverAt
<1>9. ASSUME NEW i \in 1..n
      PROVE  LET rate == Offered(p, order, demands, usage, i) IN
             /\ rate \in Int /\ rate <= Share(p, i)
             /\ rate >= usage[order[i]] \/ rate >= demands[order[i]] \/ rate >= Share(p, i)
             /\ demands[order[i]] >= 0 => rate >= 0
             /\ demands[order[i]] >= 4 => rate >= 1
  BY <1>8, LeftoverRateBounds DEF Offered
<1>10. ASSUME NEW i \in 1..n
       PROVE  Share(p, i) >= limit \div n
  <2>1. \A m \in 0..n : p[m].left \in Nat /\ p[m].jobs = n - m
    BY <1>2 DEF LeftoverAt
  <2>2. \A m \in 1..n : \E rate \in Int :
           rate <= Share(p, m) /\ p[m].left = p[m - 1].left - rate
    BY <1>8, <1>9
  <2>3. i \in 1..n
    OBVIOUS
  <2>4. Share(p, 1) <= Share(p, i)
    BY <1>3, <2>1, <2>2, <2>3, SharesGrow
  <2>5. p[0] = start
    BY <1>1 DEF IsPhases
  <2>6. Share(p, 1) = limit \div n
    BY <2>5 DEF Share, LeftoverStart
  <2>7. Share(p, 1) \in Int /\ Share(p, i) \in Int
    BY <1>3, <1>8
  <2> QED
    BY <2>4, <2>6, <2>7
<1>11. \A job \in D : f[job] \in Int
  BY <1>8, <1>9 DEF First
<1>12. SumFunctionOnSet(f, D) \in Int
  BY <1>6, <1>11, SumType
<1> HIDE DEF computed, f, more, left
<1>13. computed.rates \in [D -> Int]
  BY <1>5, <1>7, <1>11
<1>14. Total(computed.rates) <= limit
  <2>1. \A job \in D : /\ f[job] \in Int /\ more[job] \in Int
                       /\ computed.rates[job] = f[job] + more[job]
    BY <1>5, <1>7, <1>11
  <2>2. SumFunctionOnSet(computed.rates, D)
          = SumFunctionOnSet(f, D) + SumFunctionOnSet(more, D)
    BY <1>6, <2>1, SumAdded
  <2>3. Total(computed.rates) = SumFunctionOnSet(computed.rates, D)
    BY <1>13, TotalIsSum
  <2> QED
    BY <1>4, <1>7, <1>12, <2>2, <2>3
<1>15. ASSUME NEW job \in D
       PROVE  /\ demands[job] >= 0 => computed.rates[job] >= 0
              /\ demands[job] >= 4 => computed.rates[job] >= 1
              /\ \/ computed.rates[job] >= usage[job]
                 \/ computed.rates[job] >= demands[job]
                 \/ computed.rates[job] >= limit \div n
  <2>1. PICK i \in 1..n : order[i] = job
    BY DEF First
  <2> DEFINE rate == Offered(p, order, demands, usage, i)
             share == Share(p, i)
             fair == limit \div n
  <2>2. /\ rate \in Int /\ rate <= share
        /\ rate >= usage[job] \/ rate >= demands[job] \/ rate >= share
        /\ demands[job] >= 0 => rate >= 0
        /\ demands[job] >= 4 => rate >= 1
    BY <1>9, <2>1
  <2>3. share \in Nat /\ share >= fair
    BY <1>8, <1>10
  <2>4. computed.rates[job] = rate + more[job] /\ more[job] \in Nat
    BY <1>5, <1>7, <1>8, <2>1
  <2>5. fair \in Int /\ usage[job] \in Nat /\ demands[job] \in Int
    BY <1>3, DivBounds
  <2> HIDE DEF rate, share, fair
  <2>6. /\ demands[job] >= 0 => computed.rates[job] >= 0
        /\ demands[job] >= 4 => computed.rates[job] >= 1
        /\ \/ computed.rates[job] >= usage[job]
           \/ computed.rates[job] >= demands[job]
           \/ computed.rates[job] >= fair
    BY <2>2, <2>3, <2>4, <2>5
  <2> QED
    BY <2>6 DEF fair
<1> QED
  BY <1>5, <1>13, <1>14, <1>15 DEF IsLeftover, computed

LEMMA FactorCancels ==
    ASSUME NEW u \in Nat, u > 0, NEW a \in Int, NEW b \in Int, u * a <= b * u
    PROVE  a <= b
<1> SUFFICES ASSUME a >= b + 1 PROVE FALSE
  OBVIOUS
<1>1. u * a >= u * (b + 1)
  OBVIOUS
<1>2. u * (b + 1) = b * u + u /\ b * u \in Int /\ u * a \in Int
  OBVIOUS
<1> QED
  BY <1>1, <1>2

\* The parts of LeftoverEnforced: the jobs that keep their rates and those that
\* do not, what they have and whether that is too much.
Slack(usage, limit) == 100 * Total(usage) < 95 * limit

Keeping(rates, usage, limit, change, previous) ==
    {job \in DOMAIN rates :
        Maintained(change, Slack(usage, limit), rates[job], previous[job])}

Sum(f, S) == SumFunctionOnSet(f, S)

\* e is what is enforced when rates are computed, keep the jobs that keep theirs.
IsEnforced(e, rates, keep, idle, limit, previous, D, computed_defined) ==
    LET sent   == D \ keep
        kept   == Sum(previous, keep)
        updated == Sum(rates, sent)
        reduce == idle /\ kept + updated > limit
    IN  /\ e.defined = (/\ computed_defined
                        /\ \A job \in sent : rates[job] >= 0
                        /\ sent # {} /\ reduce => updated # 0)
        /\ e.rates = [job \in D |-> e.rates[job]]
        /\ \A job \in keep : e.rates[job] = previous[job]
        /\ \A job \in sent :
              e.rates[job] = IF reduce /\ updated # 0
                             THEN (rates[job] * (limit - kept)) \div updated
                             ELSE rates[job]

LEMMA EnforcedParts ==
    ASSUME NEW D, IsFiniteSet(D), NEW order, NEW demands, NEW usage, NEW limit, NEW change,
           NEW previous \in [D -> Int],
           LeftoverAllocation(order, demands, usage, limit).rates \in [D -> Int]
    PROVE  LET computed == LeftoverAllocation(order, demands, usage, limit) IN
           IsEnforced(LeftoverEnforced(order, demands, usage, limit, change, previous),
                      computed.rates, Keeping(computed.rates, usage, limit, change, previous),
                      Slack(usage, limit), limit, previous, D, computed.defined)
<1> DEFINE computed == LeftoverAllocation(order, demands, usage, limit)
           rates == computed.rates
           idle == 100 * Total(usage) < 95 * limit
           keep == {job \in DOMAIN rates : Maintained(change, idle, rates[job], previous[job])}
           sent == DOMAIN rates \ keep
           kept == Total([job \in keep |-> previous[job]])
           updated == Total([job \in sent |-> rates[job]])
           reduce == idle /\ kept + updated > limit
           e == LeftoverEnforced(order, demands, usage, limit, change, previous)
<1>1. /\ e.defined = (/\ computed.defined
                      /\ \A job \in sent : rates[job] >= 0
                      /\ sent # {} /\ reduce => updated # 0)
      /\ e.rates = [job \in DOMAIN rates |->
                       CASE job \in keep                 -> previous[job]
                         [] job \in sent /\ reduce /\ updated # 0
                              -> (rates[job] * (limit - kept)) \div updated
                         [] OTHER                        -> rates[job]]
  <2>1. e = [defined |-> /\ computed.defined
                         /\ \A job \in sent : rates[job] >= 0
                         /\ sent # {} /\ reduce => updated # 0,
             rates |-> [job \in DOMAIN rates |->
                       CASE job \in keep                 -> previous[job]
                         [] job \in sent /\ reduce /\ updated # 0
                              -> (rates[job] * (limit - kept)) \div updated
                         [] OTHER                        -> rates[job]]]
    BY DEF LeftoverEnforced
  <2> HIDE DEF e, computed, rates, keep, sent, kept, updated, reduce
  <2> QED
    BY <2>1
<1>2. /\ DOMAIN rates = D /\ keep \subseteq D /\ sent = D \ keep
      /\ \A job \in D : rates[job] \in Int /\ previous[job] \in Int
  OBVIOUS
<1>3. keep = Keeping(rates, usage, limit, change, previous)
  BY DEF Keeping, Slack
<1>4. idle = Slack(usage, limit)
  BY DEF Slack
<1> HIDE DEF e, computed, rates, keep, sent, idle
<1>5. IsFiniteSet(keep) /\ IsFiniteSet(sent)
  BY <1>2, FS_Subset
<1>6. kept = Sum(previous, keep)
  <2>1. \A job \in keep : /\ [k \in keep |-> previous[k]][job] \in Int
                          /\ [k \in keep |-> previous[k]][job] = previous[job]
    BY <1>2
  <2>2. SumFunctionOnSet([k \in keep |-> previous[k]], keep) = SumFunctionOnSet(previous, keep)
    BY <1>5, <2>1, SumSame
  <2> QED
    BY <2>2, TotalIsSum DEF Sum
<1>7. updated = Sum(rates, sent)
  <2>1. \A job \in sent : /\ [k \in sent |-> rates[k]][job] \in Int
                          /\ [k \in sent |-> rates[k]][job] = rates[job]
    BY <1>2
  <2>2. SumFunctionOnSet([k \in sent |-> rates[k]], sent) = SumFunctionOnSet(rates, sent)
    BY <1>5, <2>1, SumSame
  <2> QED
    BY <2>2, TotalIsSum DEF Sum
<1> HIDE DEF kept, updated
<1>8. e.rates = [job \in D |-> e.rates[job]]
  BY <1>1, <1>2
<1>9. ASSUME NEW job \in keep PROVE e.rates[job] = previous[job]
  BY <1>1, <1>2
<1>10. ASSUME NEW job \in sent
       PROVE  e.rates[job] = IF reduce /\ updated # 0
                             THEN (rates[job] * (limit - kept)) \div updated
                             ELSE rates[job]
  BY <1>1, <1>2
<1> DEFINE kp == Keeping(rates, usage, limit, change, previous)
<1>11. IsEnforced(e, rates, kp, Slack(usage, limit), limit, previous, D, computed.defined)
  <2> HIDE DEF kp
  <2>1. keep = kp
    BY <1>3 DEF kp
  <2> QED
    BY <1>1, <1>2, <1>4, <1>6, <1>7, <1>8, <1>9, <1>10, <2>1 DEF IsEnforced
<1> QED
  BY <1>11 DEF e, rates, computed

\* When every job has a demand of at least 4 IOPS and some job uses something, a
\* round does nothing undefined.
LEMMA RoundDefined ==
    ASSUME NEW D, IsFiniteSet(D), NEW rates \in [D -> Int], \A job \in D : rates[job] >= 1,
           NEW e, NEW keep, NEW idle, NEW limit, NEW previous,
           IsEnforced(e, rates, keep, idle, limit, previous, D, TRUE)
    PROVE  e.defined
<1> DEFINE sent == D \ keep
<1>1. IsFiniteSet(sent)
  BY FS_Subset
<1>2. \A job \in sent : rates[job] >= 0
  OBVIOUS
<1>3. ASSUME sent # {} PROVE Sum(rates, sent) # 0
  <2>1. PICK job \in sent : TRUE
    BY <1>3
  <2>2. \A j \in sent : rates[j] \in Nat
    OBVIOUS
  <2>3. rates[job] <= SumFunctionOnSet(rates, sent) /\ SumFunctionOnSet(rates, sent) \in Nat
    BY <1>1, <2>1, <2>2, SumOfNaturals
  <2>4. rates[job] \in Int /\ rates[job] >= 1
    BY <2>1
  <2> QED
    BY <2>3, <2>4 DEF Sum
<1> QED
  BY <1>2, <1>3 DEF IsEnforced

\* The rates in force after a round exceed the limit by at most 1 %, if they did
\* before and what is computed is within the limit.
LEMMA RoundWithinMargin ==
    ASSUME NEW D, IsFiniteSet(D), NEW rates \in [D -> Int], NEW previous \in [D -> Int],
           NEW limit \in Nat, NEW usage, NEW change,
           Total(rates) <= limit, 100 * Total(previous) <= 101 * limit,
           NEW e, NEW computed_defined,
           IsEnforced(e, rates, Keeping(rates, usage, limit, change, previous),
                      Slack(usage, limit), limit, previous, D, computed_defined),
           e.defined
    PROVE  e.rates \in [D -> Int] /\ 100 * Total(e.rates) <= 101 * limit
<1> DEFINE keep    == Keeping(rates, usage, limit, change, previous)
           idle    == Slack(usage, limit)
           sent    == D \ keep
           kept    == Sum(previous, keep)
           updated == Sum(rates, sent)
           reduce  == idle /\ kept + updated > limit
           r       == e.rates
<1>1. /\ \A job \in sent : rates[job] >= 0
      /\ sent # {} /\ reduce => updated # 0
      /\ r = [job \in D |-> r[job]]
      /\ \A job \in keep : r[job] = previous[job]
      /\ \A job \in sent : r[job] = IF reduce /\ updated # 0
                                    THEN (rates[job] * (limit - kept)) \div updated
                                    ELSE rates[job]
  BY DEF IsEnforced
<1>2. /\ keep \subseteq D
      /\ \A job \in keep : Maintained(change, idle, rates[job], previous[job])
      /\ \A job \in D : rates[job] \in Int /\ previous[job] \in Int
  BY DEF Keeping
<1> HIDE DEF keep, idle, r
<1>3. IsFiniteSet(keep) /\ IsFiniteSet(sent)
  BY <1>2, FS_Subset
<1>4. kept \in Int /\ updated \in Nat
  <2>1. \A job \in keep : previous[job] \in Int
    BY <1>2
  <2>2. \A job \in sent : rates[job] \in Nat
    BY <1>1, <1>2
  <2> QED
    BY <1>3, <2>1, <2>2, SumType, SumOfNaturals DEF Sum
<1> HIDE DEF kept, updated
<1>5. \A job \in D : r[job] \in Int
  <2> SUFFICES ASSUME NEW job \in D PROVE r[job] \in Int
    OBVIOUS
  <2>1. CASE job \in keep
    BY <1>1, <1>2, <2>1
  <2>2. CASE job \in sent /\ ~(reduce /\ updated # 0)
    BY <1>1, <1>2, <2>2
  <2>3. CASE job \in sent /\ reduce /\ updated # 0
    <3>1. r[job] = (rates[job] * (limit - kept)) \div updated
      BY <1>1, <2>3
    <3>2. rates[job] * (limit - kept) \in Int /\ updated \in Nat /\ updated > 0
      BY <1>2, <1>4, <2>3
    <3> QED
      BY <3>1, <3>2, DivBounds
  <2> QED
    BY <2>1, <2>2, <2>3
<1>6. r \in [D -> Int]
  BY <1>1, <1>5
<1>7. Total(r) = Sum(r, D) /\ Total(rates) = Sum(rates, D) /\ Total(previous) = Sum(previous, D)
  BY <1>6, TotalIsSum DEF Sum
<1>8. Sum(r, D) \in Int /\ Sum(rates, D) \in Int /\ Sum(r, sent) \in Int
  BY <1>2, <1>3, <1>5, SumType DEF Sum
<1>9. Sum(r, D) = kept + Sum(r, sent)
  <2>1. Sum(r, D) = Sum(r, keep) + Sum(r, sent)
    BY <1>2, <1>5, SumParts DEF Sum
  <2>2. \A job \in keep : r[job] \in Int /\ r[job] = previous[job]
    BY <1>1, <1>2
  <2>3. Sum(r, keep) = kept
    BY <1>3, <2>2, SumSame DEF Sum, kept
  <2> QED
    BY <2>1, <2>3
<1>10. CASE ~idle
  <2>1. ASSUME NEW job \in D PROVE 100 * r[job] <= 101 * rates[job]
    <3>1. CASE job \in keep
      <4>1. r[job] = previous[job] /\ 100 * Abs(rates[job] - previous[job]) < rates[job]
        BY <1>1, <1>2, <1>10, <3>1 DEF Maintained
      <4> QED
        BY <1>2, <4>1 DEF Abs
    <3>2. CASE job \in sent
      <4>1. r[job] = rates[job] /\ rates[job] >= 0
        BY <1>1, <1>10, <3>2
      <4> QED
        BY <1>2, <4>1
    <3> QED
      BY <3>1, <3>2
  <2>2. 100 \in Int /\ 101 \in Int /\ \A job \in D : /\ r[job] \in Int /\ rates[job] \in Int
                                                     /\ 100 * r[job] <= 101 * rates[job]
    BY <1>2, <1>5, <2>1
  <2>3. 100 * SumFunctionOnSet(r, D) <= 101 * SumFunctionOnSet(rates, D)
    BY <2>2, SumScaledLeq
  <2> QED
    BY <1>6, <1>7, <1>8, <2>3 DEF Sum, r
<1>11. CASE idle /\ ~reduce
  <2>1. \A job \in sent : r[job] \in Int /\ r[job] = rates[job]
    BY <1>1, <1>5, <1>11
  <2>2. Sum(r, sent) = updated
    BY <1>3, <2>1, SumSame DEF Sum, updated
  <2>3. kept + updated <= limit
    BY <1>4, <1>11
  <2>4. 100 * Sum(r, D) <= 101 * limit
    BY <1>8, <1>9, <2>2, <2>3
  <2> QED
    BY <1>6, <1>7, <2>4 DEF r
<1>12. CASE sent = {}
  <2>1. \A job \in D : r[job] \in Int /\ r[job] = previous[job]
    BY <1>1, <1>5, <1>12
  <2>2. Sum(r, D) = Sum(previous, D)
    BY <2>1, SumSame DEF Sum
  <2> QED
    BY <1>6, <1>7, <2>2 DEF r
<1>13. CASE reduce /\ sent # {}
  <2>1. updated > 0
    BY <1>1, <1>4, <1>13
  <2> DEFINE allowed == limit - kept
  <2>2. allowed \in Int
    BY <1>4
  <2>3. ASSUME NEW job \in sent
        PROVE  /\ r[job] \in Int /\ rates[job] \in Int
               /\ updated * r[job] <= allowed * rates[job]
    <3>1. r[job] = (rates[job] * allowed) \div updated
      BY <1>1, <1>13, <2>1
    <3> DEFINE a == rates[job] * allowed
    <3>2. a \in Int /\ a = allowed * rates[job]
      BY <1>2, <2>2
    <3>3. r[job] = a \div updated
      BY <3>1
    <3> HIDE DEF a, allowed
    <3>4. updated * (a \div updated) <= a
      BY <1>4, <2>1, <3>2, DivBounds
    <3> QED
      BY <1>2, <1>5, <3>2, <3>3, <3>4
  <2> HIDE DEF allowed
  <2>4. updated * Sum(r, sent) <= allowed * updated
    <3>1. updated \in Int
      BY <1>4
    <3>2. updated * SumFunctionOnSet(r, sent) <= allowed * SumFunctionOnSet(rates, sent)
      BY <1>3, <2>2, <2>3, <3>1, SumScaledLeq
    <3> QED
      BY <3>2 DEF Sum, updated
  <2>5. Sum(r, sent) <= allowed
    BY <1>4, <1>8, <2>1, <2>2, <2>4, FactorCancels
  <2>6. 100 * Sum(r, D) <= 101 * limit
    BY <1>4, <1>8, <1>9, <2>5 DEF allowed
  <2> QED
    BY <1>6, <1>7, <2>6 DEF r
<1> QED
  BY <1>10, <1>11, <1>12, <1>13

===============================================================================
