----------------------- MODULE AgentBenchmark_proofs -----------------------
(***************************************************************************)
(* What agent-benchmark.py computes from its measurements: lemmas about    *)
(* sums and sorted lists, of any length, and what they say of the times of *)
(* a turn and of the summary.  The runs of the script beside the other     *)
(* benchmark are in LlmBenchmarks_proofs.                                  *)
(***************************************************************************)
EXTENDS AgentBenchmark, FiniteSetTheorems, SequenceTheorems, TLAPS

----------------------------------------------------------------------------
(* The least and the greatest of some numbers.                             *)

\* A nonempty set of naturals has a least element, which stands for induction:
\* the least counterexample of a claim is none.
LEMMA LeastOf ==
    ASSUME NEW S \in SUBSET Nat, S # {}
    PROVE  \E m \in S : \A y \in S : m <= y
<1> DEFINE Less == {ss \in Nat \X Nat : ss[1] < ss[2]}
<1>1. IsWellFoundedOn(Less, Nat)
  <2>1. OpToRel(<, Nat) = Less
    BY DEF OpToRel
  <2> HIDE DEF Less
  <2>2. QED
    BY <2>1, NatLessThanWellFounded
<1>2. PICK m \in S : \A y \in S : ~(<<y, m>> \in Less)
  <2> HIDE DEF Less
  <2> QED
    BY <1>1, WFMin
<1>3. \A y \in S : m <= y
  <2> SUFFICES ASSUME NEW y \in S PROVE m <= y
    OBVIOUS
  <2>1. y \in Nat /\ m \in Nat
    OBVIOUS
  <2>2. ~(y < m)
    BY <1>2, <2>1
  <2>3. QED
    BY <2>1, <2>2
<1>4. QED
  BY <1>3

\* A nonempty set of naturals up to n has a maximum.
LEMMA MaxOf ==
    ASSUME NEW n \in Nat, NEW S \in SUBSET (0..n), S # {}
    PROVE  Max(S) \in S /\ \A y \in S : Max(S) >= y
<1> DEFINE T == {n - x : x \in S}
<1>1. T \in SUBSET Nat /\ T # {}
  <2>1. T \in SUBSET Nat
    OBVIOUS
  <2>2. QED
    BY <2>1, Zenon
<1>2. PICK m \in T : \A y \in T : m <= y
  <2> HIDE DEF T
  <2> QED
    BY <1>1, LeastOf
<1>3. PICK x \in S : m = n - x
  BY <1>2
<1>4. \A y \in S : x >= y
  BY <1>2, <1>3
<1>5. QED
  BY <1>4 DEF Max

\* It is the bound, if that is a member.
LEMMA MaxIs ==
    ASSUME NEW k \in Nat, NEW t \in SUBSET (0..k), k \in t
    PROVE  Max(t) = k
<1>1. Max(t) \in t /\ \A y \in t : Max(t) >= y
  BY MaxOf
<1>2. Max(t) \in 0..k
  BY <1>1
<1>3. Max(t) >= k
  BY <1>1
<1>4. QED
  BY <1>2, <1>3

----------------------------------------------------------------------------
(* The sum of a list, which FoldLeft takes from the last element down.     *)

\* f is the function by which FoldLeft(+, 0, s) is defined on the indices up to n.
Folds(f, s, n) ==
    f = [t \in SUBSET (1..n) |-> IF t = {} THEN 0 ELSE f[t \ {Max(t)}] + s[Max(t)]]

\* There is one, by induction on n: what the recursion asks of a set that
\* reaches n is known of the set without n.
LEMMA FoldExists ==
    ASSUME NEW s \in Seq(Int), NEW n \in 0..Len(s)
    PROVE  \E f : Folds(f, s, n)
<1> DEFINE Bad == {k \in 0..Len(s) : ~\E f : Folds(f, s, k)}
<1> SUFFICES ASSUME Bad # {} PROVE FALSE
  OBVIOUS
<1>1. PICK k \in Bad : \A j \in Bad : k <= j
  <2>1. Bad \in SUBSET Nat
    OBVIOUS
  <2> HIDE DEF Bad
  <2>2. QED
    BY <2>1, LeastOf
<1>2. k # 0
  <2>1. SUBSET (1..0) = {{}}
    OBVIOUS
  <2> DEFINE f == [t \in SUBSET (1..0) |-> 0]
  <2>2. Folds(f, s, 0)
    BY <2>1 DEF Folds
  <2>3. QED
    BY <2>2
<1>3. PICK g : Folds(g, s, k - 1)
  BY <1>1, <1>2
<1> DEFINE f == [t \in SUBSET (1..k) |-> IF t \in SUBSET (1..(k - 1)) THEN g[t] ELSE g[t \ {k}] + s[k]]
<1>4. Folds(f, s, k)
  <2> SUFFICES ASSUME NEW t \in SUBSET (1..k)
               PROVE  f[t] = IF t = {} THEN 0 ELSE f[t \ {Max(t)}] + s[Max(t)]
    BY DEF Folds
  <2>1. CASE t = {}
    <3>1. f[t] = g[{}] /\ {} \in SUBSET (1..(k - 1))
      BY <2>1
    <3>2. QED
      BY <1>3, <2>1, <3>1 DEF Folds
  <2>2. ASSUME t # {}, t \in SUBSET (1..(k - 1)) PROVE f[t] = f[t \ {Max(t)}] + s[Max(t)]
    <3>1. t \ {Max(t)} \in SUBSET (1..(k - 1)) /\ t \ {Max(t)} \in SUBSET (1..k)
      BY <2>2
    <3>2. f[t] = g[t] /\ f[t \ {Max(t)}] = g[t \ {Max(t)}]
      BY <2>2, <3>1
    <3>3. QED
      BY <1>3, <2>2, <3>2 DEF Folds
  <2>3. ASSUME t # {}, t \notin SUBSET (1..(k - 1)) PROVE f[t] = f[t \ {Max(t)}] + s[Max(t)]
    <3>1. k \in Nat /\ k \in t /\ t \in SUBSET (0..k)
      BY <2>3
    <3>3. Max(t) = k
      BY <3>1, MaxIs, Zenon
    <3>4. t \ {k} \in SUBSET (1..(k - 1)) /\ t \ {k} \in SUBSET (1..k)
      BY <3>1
    <3>5. f[t] = g[t \ {k}] + s[k] /\ f[t \ {k}] = g[t \ {k}]
      BY <2>3, <3>4
    <3>6. QED
      BY <3>3, <3>5
  <2>4. QED
    BY <2>1, <2>2, <2>3
<1>5. QED
  <2> HIDE DEF f
  <2> QED
    BY <1>1, <1>4

\* The sum that TurnTimesFit speaks of.
Total(s) == FoldLeft(+, 0, s)

\* The sums of the first k elements, for each k, and the last of them is the fold.
PartialSums(p, s) ==
    /\ p \in [0..Len(s) -> Int]
    /\ p[0] = 0
    /\ \A k \in 1..Len(s) : p[k] = p[k - 1] + s[k]

\* The fold is the last of the partial sums, as it takes 1..k to 1..(k - 1).
LEMMA FoldSums ==
    ASSUME NEW s \in Seq(Int)
    PROVE  \E p : PartialSums(p, s) /\ Total(s) = p[Len(s)]
<1> DEFINE f == CHOOSE h : h = [t \in SUBSET DOMAIN s |->
                                  IF t = {} THEN 0 ELSE h[t \ {Max(t)}] + s[Max(t)]]
<1>1. Total(s) = f[DOMAIN s]
  BY DEF Total, FoldLeft, MapThenFoldSet
<1>2. Folds(f, s, Len(s))
  <2>1. DOMAIN s = 1..Len(s)
    OBVIOUS
  <2>2. \E h : Folds(h, s, Len(s))
    BY FoldExists
  <2>3. \E h : h = [t \in SUBSET DOMAIN s |-> IF t = {} THEN 0 ELSE h[t \ {Max(t)}] + s[Max(t)]]
    BY <2>1, <2>2, Zenon DEF Folds
  <2>4. f = [t \in SUBSET DOMAIN s |-> IF t = {} THEN 0 ELSE f[t \ {Max(t)}] + s[Max(t)]]
    BY <2>3, Zenon
  <2> HIDE DEF f
  <2>5. QED
    BY <2>1, <2>4 DEF Folds
<1> HIDE DEF f
<1> DEFINE q == [k \in 0..Len(s) |-> f[1..k]]
<1>3. q[0] = 0
  BY <1>2 DEF Folds
<1>4. ASSUME NEW k \in 1..Len(s) PROVE q[k] = q[k - 1] + s[k]
  <2> HIDE DEF q
  <2>1. k \in Nat /\ k <= Len(s)
    OBVIOUS
  <2>2. 1..k \in SUBSET (1..Len(s)) /\ 1..k \in SUBSET (0..k) /\ k \in 1..k
    BY <2>1
  <2>3. Max(1..k) = k /\ (1..k) \ {k} = 1..(k - 1) /\ 1..k # {}
    <3>1. Max(1..k) = k
      BY <2>1, <2>2, MaxIs, Zenon
    <3>2. (1..k) \ {k} = 1..(k - 1)
      BY <2>1
    <3>3. QED
      BY <2>2, <3>1, <3>2
  <2>4. f[1..k] = f[(1..k) \ {Max(1..k)}] + s[Max(1..k)]
    BY <1>2, <2>2, <2>3 DEF Folds
  <2>5. q[k] = f[1..k] /\ q[k - 1] = f[1..(k - 1)]
    BY <2>1 DEF q
  <2>6. QED
    BY <2>3, <2>4, <2>5
<1> HIDE DEF q
<1>5. \A k \in 0..Len(s) : q[k] \in Int
  <2> DEFINE Bad == {k \in 0..Len(s) : q[k] \notin Int}
  <2> SUFFICES ASSUME Bad # {} PROVE FALSE
    OBVIOUS
  <2>1. PICK k \in Bad : \A j \in Bad : k <= j
    <3>1. Bad \in SUBSET Nat
      OBVIOUS
    <3> HIDE DEF Bad
    <3>2. QED
      BY <3>1, LeastOf
  <2>2. k \in 1..Len(s)
    BY <1>3, <2>1
  <2>3. k - 1 \in 0..Len(s) /\ q[k - 1] \in Int
    BY <2>1, <2>2
  <2>4. s[k] \in Int
    BY <2>2
  <2>5. q[k] \in Int
    BY <1>4, <2>2, <2>3, <2>4
  <2>6. QED
    BY <2>1, <2>5
<1>6. PartialSums(q, s)
  BY <1>3, <1>4, <1>5 DEF PartialSums, q
<1>7. Total(s) = q[Len(s)]
  <2>1. DOMAIN s = 1..Len(s) /\ Len(s) \in 0..Len(s)
    OBVIOUS
  <2>2. QED
    BY <1>1, <2>1 DEF q
<1>8. QED
  BY <1>6, <1>7, Zenon

\* The empty list has no sum, and an appended element is added to it.
LEMMA SumOfNone == Total(<<>>) = 0
<1>1. <<>> \in Seq(Int) /\ Len(<<>>) = 0
  OBVIOUS
<1>2. PICK p : PartialSums(p, <<>>) /\ Total(<<>>) = p[Len(<<>>)]
  BY <1>1, FoldSums
<1>3. QED
  BY <1>1, <1>2 DEF PartialSums

LEMMA SumOfAppend ==
    ASSUME NEW s \in Seq(Int), NEW x \in Int
    PROVE  Total(Append(s, x)) = Total(s) + x
<1> DEFINE u == Append(s, x)
<1>1. u \in Seq(Int) /\ Len(u) = Len(s) + 1 /\ u[Len(s) + 1] = x /\ \A k \in 1..Len(s) : u[k] = s[k]
  OBVIOUS
<1> HIDE DEF u
<1>2. PICK p : PartialSums(p, s) /\ Total(s) = p[Len(s)]
  BY FoldSums
<1>3. PICK q : PartialSums(q, u) /\ Total(u) = q[Len(u)]
  BY <1>1, FoldSums
<1> DEFINE Bad == {k \in 0..Len(s) : p[k] # q[k]}
<1>4. Bad = {}
  <2> SUFFICES ASSUME Bad # {} PROVE FALSE
    OBVIOUS
  <2>1. PICK k \in Bad : \A j \in Bad : k <= j
    <3>1. Bad \in SUBSET Nat
      OBVIOUS
    <3> HIDE DEF Bad
    <3>2. QED
      BY <3>1, LeastOf
  <2>2. k \in 1..Len(s)
    <3>1. p[0] = q[0]
      BY <1>2, <1>3 DEF PartialSums
    <3>2. QED
      BY <2>1, <3>1
  <2>3. k - 1 \in 0..Len(s) /\ p[k - 1] = q[k - 1]
    BY <2>1, <2>2
  <2>4. p[k] = p[k - 1] + s[k]
    BY <1>2, <2>2 DEF PartialSums
  <2>5. q[k] = q[k - 1] + u[k] /\ u[k] = s[k]
    <3>1. k \in 1..Len(u)
      BY <1>1, <2>2
    <3>2. QED
      BY <1>1, <1>3, <2>2, <3>1 DEF PartialSums
  <2>6. p[k] = q[k]
    BY <2>3, <2>4, <2>5
  <2>7. QED
    BY <2>1, <2>6
<1>5. q[Len(s)] = p[Len(s)]
  BY <1>4
<1>6. q[Len(u)] = q[Len(s)] + x
  <2>1. Len(u) \in 1..Len(u) /\ Len(u) - 1 = Len(s) /\ u[Len(u)] = x
    BY <1>1
  <2>2. q[Len(u)] = q[Len(u) - 1] + u[Len(u)]
    BY <1>3, <2>1 DEF PartialSums
  <2>3. QED
    BY <2>1, <2>2
<1>7. Total(u) = Total(s) + x
  BY <1>2, <1>3, <1>5, <1>6
<1>8. QED
  BY <1>7 DEF u

----------------------------------------------------------------------------
(* The types of the measurements.                                          *)

\* The locals of measure_turn_*.
Locals == [rejected : BOOLEAN, clock : 0..MaxLines, first : 0..MaxLines, last : 0..MaxLines,
           latencies : Seq(Int)]

\* TurnResult.
Turns == [ttft : Nat, error : BOOLEAN, rejected : BOOLEAN]

----------------------------------------------------------------------------
(* sorted(), and the figures read from it.                                 *)

\* The places of a list are finitely many, and so are some of them.
LEMMA SegmentSize == \A n \in Nat : IsFiniteSet(1..n) /\ Cardinality(1..n) = n
<1> SUFFICES ASSUME NEW n \in Nat PROVE IsFiniteSet(1..n) /\ Cardinality(1..n) = n
  OBVIOUS
<1>1. IsFiniteSet(1..n) /\ Cardinality(1..n) = IF 1 > n THEN 0 ELSE n - 1 + 1
  BY FS_Interval
<1>2. QED
  BY <1>1

LEMMA SomeFinite ==
    ASSUME NEW vals \in Seq(Nat), NEW I \in SUBSET DOMAIN vals
    PROVE  IsFiniteSet(I) /\ Cardinality(I) \in Nat /\ Cardinality(I) <= Len(vals)
<1>1. Len(vals) \in Nat /\ DOMAIN vals = 1..Len(vals)
  OBVIOUS
<1>2. IsFiniteSet(DOMAIN vals) /\ Cardinality(DOMAIN vals) = Len(vals)
  BY <1>1, SegmentSize
<1>3. IsFiniteSet(I) /\ Cardinality(I) <= Cardinality(DOMAIN vals)
  BY <1>2, FS_Subset
<1>4. Cardinality(I) \in Nat
  BY <1>3, FS_CardinalityType
<1>5. QED
  BY <1>2, <1>3, <1>4

\* Both counts are at most the length of the list.
LEMMA Counts ==
    ASSUME NEW vals \in Seq(Nat), NEW v \in Nat
    PROVE  /\ UpTo(vals, v) \in Nat /\ UpTo(vals, v) <= Len(vals)
           /\ Below(vals, v) \in Nat /\ Below(vals, v) <= Len(vals)
<1> DEFINE U == {i \in DOMAIN vals : vals[i] <= v}
           B == {i \in DOMAIN vals : vals[i] < v}
<1>1. U \in SUBSET DOMAIN vals /\ B \in SUBSET DOMAIN vals
  OBVIOUS
<1>2. UpTo(vals, v) = Cardinality(U) /\ Below(vals, v) = Cardinality(B)
  BY DEF UpTo, Below
<1> HIDE DEF U, B
<1>3. QED
  BY <1>1, <1>2, SomeFinite

\* Counting up to a lower value finds fewer elements.
LEMMA CountsRise ==
    ASSUME NEW vals \in Seq(Nat), NEW v \in Nat, NEW w \in Nat, v < w
    PROVE  /\ UpTo(vals, v) <= Below(vals, w)
           /\ w \in ToSet(vals) => UpTo(vals, v) < UpTo(vals, w)
<1> DEFINE U == {i \in DOMAIN vals : vals[i] <= v}
           B == {i \in DOMAIN vals : vals[i] < w}
           V == {i \in DOMAIN vals : vals[i] <= w}
<1>1. IsFiniteSet(V)
  BY SomeFinite
<1>2. U \subseteq B /\ B \subseteq V
  OBVIOUS
<1>3. w \in ToSet(vals) => \E i \in V : i \notin B
  BY DEF ToSet
<1> HIDE DEF U, B, V
<1>4. IsFiniteSet(B) /\ Cardinality(U) <= Cardinality(B)
  BY <1>1, <1>2, FS_Subset
<1>5. IsFiniteSet(U) /\ Cardinality(U) \in Nat /\ Cardinality(B) \in Nat /\ Cardinality(V) \in Nat
  BY <1>1, <1>2, <1>4, FS_Subset, FS_CardinalityType
<1>6. ASSUME w \in ToSet(vals) PROVE Cardinality(B) < Cardinality(V)
  BY <1>1, <1>2, <1>3, <1>5, <1>6, FS_Subset
<1>7. QED
  BY <1>4, <1>5, <1>6 DEF UpTo, Below, U, B, V

\* What is below a value is up to it.
LEMMA BelowUpTo ==
    ASSUME NEW vals \in Seq(Nat), NEW v \in Nat PROVE Below(vals, v) <= UpTo(vals, v)
<1>1. {i \in DOMAIN vals : vals[i] < v} \subseteq {i \in DOMAIN vals : vals[i] <= v}
  OBVIOUS
<1>2. QED
  BY <1>1, SomeFinite, FS_Subset DEF Below, UpTo

\* Of some elements of a list one is the highest.
LEMMA Highest ==
    ASSUME NEW vals \in Seq(Nat), NEW I \in SUBSET DOMAIN vals, I # {}
    PROVE  \E i \in I : \A j \in I : vals[j] <= vals[i]
<1> DEFINE C == {UpTo(vals, vals[i]) : i \in I}
<1>1. C \in SUBSET (0..Len(vals)) /\ C # {}
  <2>1. ASSUME NEW i \in I PROVE UpTo(vals, vals[i]) \in 0..Len(vals)
    <3>1. vals[i] \in Nat
      OBVIOUS
    <3>2. UpTo(vals, vals[i]) \in Nat /\ UpTo(vals, vals[i]) <= Len(vals)
      BY <3>1, Counts
    <3>3. QED
      BY <3>2
  <2>2. QED
    BY <2>1
<1>2. Max(C) \in C /\ \A y \in C : Max(C) >= y
  <2>1. Len(vals) \in Nat
    OBVIOUS
  <2> HIDE DEF C
  <2>2. QED
    BY <1>1, <2>1, MaxOf
<1>3. PICK i \in I : \A j \in I : UpTo(vals, vals[i]) >= UpTo(vals, vals[j])
  BY <1>2
<1>4. ASSUME NEW j \in I PROVE vals[j] <= vals[i]
  <2>1. vals[i] \in Nat /\ vals[j] \in Nat /\ vals[j] \in ToSet(vals)
    BY DEF ToSet
  <2>2. UpTo(vals, vals[i]) \in Nat /\ UpTo(vals, vals[j]) \in Nat
    BY <2>1, Counts
  <2>3. ~(UpTo(vals, vals[i]) < UpTo(vals, vals[j]))
    BY <1>3, <2>2
  <2>4. ~(vals[i] < vals[j])
    BY <2>1, <2>3, CountsRise
  <2>5. QED
    BY <2>1, <2>4
<1>5. QED
  BY <1>4

\* There is a value for every place of the sorted list.
LEMMA PlaceTaken ==
    ASSUME NEW vals \in Seq(Nat), NEW k \in DOMAIN vals
    PROVE  \E v \in ToSet(vals) : Below(vals, v) < k /\ k <= UpTo(vals, v)
<1> DEFINE S == {v \in ToSet(vals) : k <= UpTo(vals, v)}
<1>1. k \in Nat /\ k >= 1 /\ k <= Len(vals) /\ ToSet(vals) \subseteq Nat
  BY DEF ToSet
<1>2. S # {}
  <2>1. PICK i \in DOMAIN vals : \A j \in DOMAIN vals : vals[j] <= vals[i]
    BY Highest
  <2>2. {j \in DOMAIN vals : vals[j] <= vals[i]} = 1..Len(vals)
    BY <2>1
  <2>3. UpTo(vals, vals[i]) = Len(vals)
    <3>1. UpTo(vals, vals[i]) = Cardinality(1..Len(vals))
      BY <2>2 DEF UpTo
    <3>2. Len(vals) \in Nat
      OBVIOUS
    <3>3. QED
      BY <3>1, <3>2, SegmentSize
  <2>4. vals[i] \in ToSet(vals)
    BY DEF ToSet
  <2>5. QED
    BY <1>1, <2>3, <2>4
<1>3. PICK v \in S : \A w \in S : v <= w
  <2>1. S \in SUBSET Nat
    BY <1>1
  <2> HIDE DEF S
  <2>2. QED
    BY <1>2, <2>1, LeastOf
<1>4. v \in Nat /\ Below(vals, v) \in Nat
  BY <1>1, Counts
<1>5. Below(vals, v) < k
  <2> SUFFICES ASSUME k <= Below(vals, v) PROVE FALSE
    BY <1>1, <1>4
  <2> DEFINE I == {i \in DOMAIN vals : vals[i] < v}
  <2>1. I # {}
    <3>1. Cardinality({}) = 0
      BY FS_EmptySet
    <3>2. Below(vals, v) = Cardinality(I)
      BY DEF Below
    <3>3. Below(vals, v) # 0
      BY <1>1, <1>4
    <3> HIDE DEF I
    <3>4. QED
      BY <3>1, <3>2, <3>3
  <2>2. PICK i \in I : \A j \in I : vals[j] <= vals[i]
    BY <2>1, Highest
  <2>3. {j \in DOMAIN vals : vals[j] <= vals[i]} = I
    BY <1>4, <2>2
  <2>4. UpTo(vals, vals[i]) = Below(vals, v)
    BY <2>3 DEF UpTo, Below
  <2>5. vals[i] \in S /\ vals[i] < v /\ vals[i] \in Nat
    BY <2>2, <2>4 DEF ToSet
  <2>6. QED
    BY <1>3, <1>4, <2>5
<1>6. QED
  BY <1>3, <1>5

\* Sorted is the sorted list: its elements are those of the list, it rises, and
\* as many of its elements are up to any value as of the list (summary 101-102).
THEOREM SortedSorts ==
    ASSUME NEW vals \in Seq(Nat)
    PROVE  /\ Sorted(vals) \in [DOMAIN vals -> ToSet(vals)]
           /\ \A j, k \in DOMAIN vals : j <= k => Sorted(vals)[j] <= Sorted(vals)[k]
           /\ \A v \in Nat, k \in DOMAIN vals :
                 Sorted(vals)[k] <= v <=> k <= UpTo(vals, v)
<1> DEFINE s == Sorted(vals)
<1>1. ASSUME NEW k \in DOMAIN vals
      PROVE  s[k] \in ToSet(vals) /\ Below(vals, s[k]) < k /\ k <= UpTo(vals, s[k])
  <2>1. s[k] = CHOOSE v \in ToSet(vals) : Below(vals, v) < k /\ k <= UpTo(vals, v)
    BY DEF Sorted
  <2> HIDE DEF s
  <2>2. QED
    BY <2>1, PlaceTaken, Zenon
<1>2. s = [k \in DOMAIN vals |-> s[k]] /\ DOMAIN s = DOMAIN vals
  BY DEF Sorted
<1> HIDE DEF s
<1>3. s \in [DOMAIN vals -> ToSet(vals)]
  BY <1>1, <1>2
<1>4. ASSUME NEW k \in DOMAIN vals, NEW v \in Nat PROVE s[k] <= v <=> k <= UpTo(vals, v)
  <2>1. s[k] \in Nat /\ k \in Nat
    BY <1>1 DEF ToSet
  <2>2. /\ UpTo(vals, v) \in Nat /\ Below(vals, v) \in Nat
        /\ UpTo(vals, s[k]) \in Nat /\ Below(vals, s[k]) \in Nat
    BY <2>1, Counts
  <2>3. CASE s[k] = v
    BY <1>1, <2>1, <2>3
  <2>4. CASE s[k] < v
    <3>1. UpTo(vals, s[k]) <= Below(vals, v) /\ Below(vals, v) <= UpTo(vals, v)
      <4>1. UpTo(vals, s[k]) <= Below(vals, v)
        BY <2>1, <2>4, CountsRise
      <4>2. Below(vals, v) <= UpTo(vals, v)
        BY BelowUpTo
      <4>3. QED
        BY <4>1, <4>2
    <3>2. k <= UpTo(vals, v)
      BY <1>1, <2>1, <2>2, <3>1
    <3>3. QED
      BY <2>1, <2>4, <3>2
  <2>5. CASE v < s[k]
    <3>1. UpTo(vals, v) <= Below(vals, s[k])
      BY <2>1, <2>5, CountsRise
    <3>2. UpTo(vals, v) < k
      BY <1>1, <2>1, <2>2, <3>1
    <3>3. QED
      BY <2>1, <2>2, <2>5, <3>2
  <2>6. QED
    BY <2>1, <2>3, <2>4, <2>5
<1>5. ASSUME NEW j \in DOMAIN vals, NEW k \in DOMAIN vals, j <= k PROVE s[j] <= s[k]
  <2>1. s[k] \in Nat /\ UpTo(vals, s[k]) \in Nat
    <3>1. s[k] \in Nat
      BY <1>1 DEF ToSet
    <3>2. QED
      BY <3>1, Counts
  <2>2. j <= UpTo(vals, s[k])
    BY <1>1, <1>5, <2>1
  <2>3. QED
    BY <1>4, <2>1, <2>2
<1>6. QED
  BY <1>3, <1>4, <1>5 DEF s

\* The places that the median and the p95 are read from.
LEMMA Places ==
    ASSUME NEW n \in Nat \ {0}
    PROVE  /\ (n + 1) \div 2 \in 1..n /\ n \div 2 + 1 \in 1..n
           /\ (n * 95) \div 100 + 1 \in 1..n
           /\ (n + 1) \div 2 <= (n * 95) \div 100 + 1
           /\ n \div 2 + 1 <= (n * 95) \div 100 + 1
           /\ 100 * ((n * 95) \div 100 + 1) >= 95 * n
OBVIOUS

\* Whatever the results are, PercentilesBracket is true of their summary.
LEMMA Brackets ==
    ASSUME results \in Seq(Turns)
    PROVE  PercentilesBracket
<1> SUFFICES ASSUME results # <<>>
             PROVE  /\ Summary.p95 \in ToSet(AllTtft)
                    /\ 2 * Summary.p95 >= Summary.p50x2
                    /\ 100 * UpTo(AllTtft, Summary.p95) >= 95 * Len(AllTtft)
  BY Zenon DEF PercentilesBracket
<1> DEFINE n == Len(results)
           vals == AllTtft
           s == Sorted(vals)
           k == (n * 95) \div 100 + 1
<1>1. vals \in Seq(Nat) /\ Len(vals) = n /\ DOMAIN vals = 1..n /\ n \in Nat \ {0}
  <2>1. n \in Nat \ {0} /\ DOMAIN results = 1..n
    OBVIOUS
  <2>2. ASSUME NEW i \in 1..n PROVE results[i].ttft \in Nat
    <3>1. \A r \in Turns : r.ttft \in Nat
      BY DEF Turns
    <3>2. results[i] \in Turns
      OBVIOUS
    <3>3. QED
      BY <3>1, <3>2
  <2>3. vals = [i \in 1..n |-> results[i].ttft]
    BY <2>1 DEF AllTtft
  <2> HIDE DEF vals, n
  <2>4. QED
    BY <2>1, <2>2, <2>3
<1>2. Summary.p95 = s[k] /\ Summary.p50x2 = s[(n + 1) \div 2] + s[n \div 2 + 1]
  BY <1>1 DEF Summary, Percentile, TwiceMedian
<1> HIDE DEF vals, n
<1>3. /\ s \in [1..n -> ToSet(vals)]
      /\ \A i, j \in 1..n : i <= j => s[i] <= s[j]
      /\ \A v \in Nat, i \in 1..n : s[i] <= v <=> i <= UpTo(vals, v)
  BY <1>1, SortedSorts
<1> HIDE DEF s
<1>4. ToSet(vals) \subseteq Nat
  BY <1>1 DEF ToSet
<1>5. k \in 1..n /\ 100 * k >= 95 * n
  BY <1>1, Places
<1>6. (n + 1) \div 2 \in 1..n /\ n \div 2 + 1 \in 1..n /\ (n + 1) \div 2 <= k /\ n \div 2 + 1 <= k
  BY <1>1, Places
<1> HIDE DEF k
<1>7. s[k] \in ToSet(vals) /\ s[k] \in Nat
  BY <1>3, <1>4, <1>5
<1>8. s[(n + 1) \div 2] <= s[k] /\ s[n \div 2 + 1] <= s[k]
  BY <1>3, <1>5, <1>6
<1>9. s[(n + 1) \div 2] \in Nat /\ s[n \div 2 + 1] \in Nat
  BY <1>3, <1>4, <1>6
<1>10. UpTo(vals, s[k]) \in Nat /\ k <= UpTo(vals, s[k])
  <2>1. UpTo(vals, s[k]) \in Nat
    BY <1>1, <1>7, Counts
  <2>2. QED
    BY <1>3, <1>5, <1>7, <2>1
<1>11. 100 * UpTo(vals, s[k]) >= 95 * n
  BY <1>1, <1>5, <1>10
<1>12. QED
  BY <1>1, <1>2, <1>7, <1>8, <1>9, <1>11 DEF vals

----------------------------------------------------------------------------
(* The times of a turn.                                                    *)

\* The parts of TurnTimesFit with what they rest on: the latencies add up to the
\* time of the last token, and no clock is behind what it has stamped.
TimesAdd ==
    /\ Total(resp.latencies) = resp.last
    /\ resp.last <= resp.clock
    /\ resp.first <= resp.clock
    /\ resp.latencies = <<>> => resp.last = 0
    /\ resp.latencies # <<>> => resp.first \in 1..Head(resp.latencies)

\* With them TurnTimesFit holds.
LEMMA TimesFit == TimesAdd => TurnTimesFit
<1> SUFFICES ASSUME TimesAdd PROVE TurnTimesFit
  OBVIOUS
<1>1. Total(resp.latencies) <= resp.clock
  BY DEF TimesAdd
<1>2. resp.latencies # <<>> => resp.first \in 1..Head(resp.latencies)
  BY DEF TimesAdd
<1>3. QED
  BY <1>1, <1>2, Zenon DEF TurnTimesFit, Total

\* A request starts all clocks at 0.
LEMMA AskedTimesAdd ==
    ASSUME NEW rejected \in BOOLEAN, resp' = Asked(rejected) PROVE TimesAdd'
BY SumOfNone DEF Asked, TimesAdd

\* The locals after a chunk was parsed, before its text is looked at.
Seen ==
    [resp EXCEPT !.first = IF @ = 0 THEN resp.clock + 1 ELSE @, !.clock = resp.clock + 1]

\* One more line of an answer: nothing but time passes, a chunk is parsed, or
\* it has text.
LEMMA LineIs ==
    ASSUME resp \in Locals, NEW kind \in {"chunk", "text"}, OllamaLine(kind) \/ OpenAiLine(kind)
    PROVE  \/ resp' = [resp EXCEPT !.clock = resp.clock + 1]
           \/ resp' = Seen
           \/ resp' = TokenRead(resp.clock + 1, Seen)
<1>1. CASE OllamaLine(kind)
  BY <1>1 DEF OllamaLine, Read, Seen
<1>2. CASE OpenAiLine(kind)
  BY <1>2 DEF OpenAiLine, Read, Seen, Locals
<1>3. QED
  BY <1>1, <1>2

\* A token's latency is the time since the last stamp, and moves that stamp.
LEMMA LineTimesAdd ==
    ASSUME resp \in Locals, TimesAdd,
           NEW kind \in {"chunk", "text"}, OllamaLine(kind) \/ OpenAiLine(kind)
    PROVE  TimesAdd'
<1> DEFINE now == resp.clock + 1
           l == resp.latencies
<1>1. /\ now \in Nat /\ now >= 1 /\ resp.first \in Nat /\ resp.last \in Nat /\ l \in Seq(Int)
      /\ resp.first <= now /\ resp.last <= now
  BY AgentAssumption DEF Locals, TimesAdd
<1>2. /\ Seen.latencies = l /\ Seen.last = resp.last /\ Seen.clock = now
      /\ Seen.first = IF resp.first = 0 THEN now ELSE resp.first
  BY DEF Seen, Locals
<1>3. CASE resp' = [resp EXCEPT !.clock = now]
  <2>1. /\ resp'.latencies = l /\ resp'.last = resp.last /\ resp'.clock = now
        /\ resp'.first = resp.first
    BY <1>3 DEF Locals
  <2>2. QED
    BY <1>1, <2>1 DEF TimesAdd
<1>4. CASE resp' = Seen
  <2>1. l # <<>> => resp.first # 0
    BY DEF TimesAdd
  <2>2. QED
    BY <1>1, <1>2, <1>4, <2>1 DEF TimesAdd
<1>5. CASE resp' = TokenRead(now, Seen)
  <2>1. /\ resp'.latencies = Append(l, now - resp.last) /\ resp'.last = now
        /\ resp'.clock = now /\ resp'.first = Seen.first
    BY <1>2, <1>5 DEF TokenRead, Seen, Locals
  <2>2. Total(Append(l, now - resp.last)) = Total(l) + (now - resp.last)
    BY <1>1, SumOfAppend
  <2>3. Total(l) = resp.last
    BY DEF TimesAdd
  <2>4. Total(resp'.latencies) = now
    BY <1>1, <2>1, <2>2, <2>3
  <2>5. resp'.first \in 1..Head(resp'.latencies)
    <3>1. CASE l = <<>>
      <4>1. resp.last = 0 /\ Head(resp'.latencies) = now
        BY <1>1, <2>1, <3>1 DEF TimesAdd
      <4>2. QED
        BY <1>1, <1>2, <2>1, <4>1
    <3>2. CASE l # <<>>
      <4>1. Head(resp'.latencies) = Head(l)
        BY <1>1, <2>1, <3>2
      <4>2. resp.first \in 1..Head(l)
        BY <3>2 DEF TimesAdd
      <4>3. QED
        BY <1>1, <1>2, <2>1, <4>1, <4>2
    <3>3. QED
      BY <3>1, <3>2
  <2>6. resp'.latencies # <<>>
    BY <1>1, <2>1
  <2>7. QED
    BY <1>1, <1>2, <2>1, <2>4, <2>5, <2>6 DEF TimesAdd
<1>6. QED
  BY <1>3, <1>4, <1>5, LineIs

\* The other steps start the clocks again or leave them alone.
LEMMA StepTimesAdd ==
    ASSUME resp \in Locals, TimesAdd, AgentNext PROVE TimesAdd'
<1>1. CASE WarmUp
  BY <1>1 DEF WarmUp, TimesAdd
<1>2. ASSUME NEW rejected \in BOOLEAN, Ask(rejected) PROVE TimesAdd'
  BY <1>2, AskedTimesAdd DEF Ask
<1>3. ASSUME NEW kind \in {"chunk", "text"}, OllamaLine(kind) \/ OpenAiLine(kind)
      PROVE  TimesAdd'
  BY <1>3, LineTimesAdd
<1>4. CASE EndTurn \/ EndRefused \/ AgentDies \/ Silence \/ TimeOut \/ ErrorBodyRaises
  <2>1. PICK rejected \in BOOLEAN : resp' = Asked(rejected)
    <3>1. resp.rejected \in BOOLEAN
      BY DEF Locals
    <3>2. resp' = Asked(FALSE) \/ resp' = Asked(resp.rejected)
      BY <1>4 DEF EndTurn, EndRefused, AgentDies, Silence, TimeOut, ErrorBodyRaises, Dies,
           MeasureReturns
    <3> QED
      BY <3>1, <3>2
  <2>2. QED
    BY <2>1, AskedTimesAdd
<1>5. QED
  BY <1>1, <1>2, <1>3, <1>4 DEF AgentNext
=============================================================================
