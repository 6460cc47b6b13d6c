-------------------------- MODULE MindTree_proofs --------------------------
(***************************************************************************)
(* What holds of MindTree for any number of nodes, any base and length of  *)
(* the order keys, and any caps.                                           *)
(*                                                                         *)
(* The recursions of the model are functions on 0..N; RecursionExists says *)
(* that such a function exists, and StepByStep replaces the induction over *)
(* its arguments.  What lies above a node is then characterised without    *)
(* the walk: the least set that has its parent and is closed under going   *)
(* up (AboveIs, AboveIsClosed, AboveStaysIn).                              *)
(***************************************************************************)
EXTENDS MindTree, FiniteSetTheorems, WellFoundedInduction, TLAPS

-----------------------------------------------------------------------------
(* Numbers and walks.                                                      *)

\* A nonempty set of numbers has a least.
LEMMA LowestExists ==
    ASSUME NEW T \in SUBSET Nat, T # {}
    PROVE  \E n \in T : \A m \in T : n <= m
<1>1. PICK n \in T : \A m \in T : ~(<<m, n>> \in OpToRel(<, Nat))
  BY NatLessThanWellFounded, WFMin
<1>2. \A m \in T : ~(m < n)
  BY <1>1 DEF OpToRel
<1> QED BY <1>2

\* A set of numbers that has 0 and is closed under taking the next, up to a
\* bound, has them all up to the bound.
LEMMA StepByStep ==
    ASSUME NEW bound \in Nat, NEW T, 0 \in T,
           \A k \in 0..bound : k \in T /\ k < bound => k + 1 \in T
    PROVE  \A k \in 0..bound : k \in T
<1> SUFFICES ASSUME NEW bad \in 0..bound, bad \notin T PROVE FALSE
  OBVIOUS
<1> DEFINE U == {k \in 0..bound : k \notin T}
<1>1. U \in SUBSET Nat /\ U # {}
  OBVIOUS
<1>2. PICK n \in U : \A m \in U : n <= m
  BY <1>1, LowestExists
<1>3. n # 0 /\ n \in 0..bound /\ n - 1 \in 0..bound
  OBVIOUS
<1>4. n - 1 \in T
  BY <1>2, <1>3
<1> QED BY <1>3, <1>4

\* f starts with `first' and goes on from each value to the next as step says.
Iterates(f, N, V, first, step) ==
    /\ f \in [0..N -> V]
    /\ f[0] = first
    /\ \A k \in 0..N : k < N => f[k + 1] = step[<<k, f[k]>>]

\* A function on 0..N whose first value is given, and each further value by the
\* one before: there is one.
LEMMA RecursionExists ==
    ASSUME NEW N \in Nat, NEW V, NEW first \in V, NEW step \in [(0..N) \X V -> V]
    PROVE  \E f : Iterates(f, N, V, first, step)
<1> DEFINE Is(f, m) == f[0] = first /\ \A k \in 0..m : k < m => f[k + 1] = step[<<k, f[k]>>]
           T == {m \in 0..N : \E f \in [0..m -> V] : Is(f, m)}
<1>1. 0 \in T
  <2> DEFINE f == [k \in 0..0 |-> first]
  <2>1. f \in [0..0 -> V] /\ Is(f, 0)
    OBVIOUS
  <2> HIDE DEF f
  <2>2. 0 \in 0..N
    OBVIOUS
  <2> QED BY <2>1, <2>2
<1>2. ASSUME NEW m \in 0..N, m \in T, m < N PROVE m + 1 \in T
  <2>1. PICK f \in [0..m -> V] : Is(f, m)
    BY <1>2
  <2> DEFINE g == [k \in 0..(m + 1) |-> IF k = m + 1 THEN step[<<m, f[m]>>] ELSE f[k]]
  <2>2. m \in 0..m /\ m + 1 \in 0..N
    BY <1>2
  <2>3. g \in [0..(m + 1) -> V]
    <3>1. step[<<m, f[m]>>] \in V
      BY <2>2
    <3>2. \A k \in 0..(m + 1) : k # m + 1 => k \in 0..m
      OBVIOUS
    <3> QED BY <3>1, <3>2
  <2>4. g[0] = first
    BY <2>1, <2>2
  <2>5. ASSUME NEW k \in 0..(m + 1), k < m + 1 PROVE g[k + 1] = step[<<k, g[k]>>]
    <3>1. CASE k = m
      BY <3>1, <2>2
    <3>2. CASE k < m
      <4>1. k \in 0..m /\ g[k] = f[k] /\ g[k + 1] = f[k + 1]
        BY <3>2
      <4> QED BY <2>1, <3>2, <4>1
    <3> QED BY <3>1, <3>2, <2>5
  <2> HIDE DEF g
  <2>6. Is(g, m + 1)
    BY <2>4, <2>5
  <2> QED BY <2>2, <2>3, <2>6
<1> HIDE DEF T
<1>3. \A m \in 0..N : m \in T
  BY <1>1, <1>2, StepByStep
<1>4. N \in T
  BY <1>3
<1> QED BY <1>4 DEF T, Iterates

\* A nonempty set of numbers up to a bound has a greatest.
LEMMA GreatestExists ==
    ASSUME NEW bound \in Nat, NEW T \in SUBSET (0 .. bound), T # {}
    PROVE  \E n \in T : \A m \in T : n >= m
<1> DEFINE U == {bound - n : n \in T}
<1>1. U \subseteq Nat /\ U # {}
  <2>1. \A n \in T : bound - n \in U /\ bound - n \in Nat
    OBVIOUS
  <2> QED BY <2>1
<1>2. PICK x \in U : \A y \in U : ~(<<y, x>> \in OpToRel(<, Nat))
  BY <1>1, NatLessThanWellFounded, WFMin
<1>3. \A y \in U : ~(y < x)
  BY <1>1, <1>2 DEF OpToRel
<1>4. PICK n \in T : x = bound - n
  OBVIOUS
<1>5. \A m \in T : bound - m \in U
  OBVIOUS
<1>6. \A m \in T : ~(bound - m < bound - n)
  BY <1>3, <1>4, <1>5
<1> QED BY <1>6

\* Trees: every node of L has its parent in L or is under the root.
Pointers(L) == [L -> L \cup {Root}]

\* The walk step by step.
LEMMA ClimbSteps ==
    ASSUME NEW L \in SUBSET Nat, IsFiniteSet(L), Root \notin L,
           NEW p \in Pointers(L), NEW n \in L
    PROVE  LET bound == Cardinality(L)
               c == Climb(p, n)
           IN  /\ bound \in Nat
               /\ c \in [0..bound -> L \cup {Root}]
               /\ c[0] = p[n]
               /\ \A k \in 0..bound : k < bound =>
                    c[k + 1] = IF c[k] = Root THEN Root ELSE p[c[k]]
               /\ Above(p, n) = {c[k] : k \in 0..bound} \ {Root}
<1> DEFINE bound == Cardinality(L)
           c == Climb(p, n)
<1>1. bound \in Nat /\ DOMAIN p = L
  BY FS_CardinalityType DEF Pointers
<1> DEFINE Is(f) == f = [k \in 0..bound |-> IF k = 0 THEN p[n]
                            ELSE IF f[k - 1] = Root THEN Root ELSE p[f[k - 1]]]
<1>2. \E f \in [0..bound -> L \cup {Root}] : Is(f)
  <2> DEFINE V == L \cup {Root}
             first == p[n]
             step == [x \in (0..bound) \X V |-> IF x[2] = Root THEN Root ELSE p[x[2]]]
  <2>1. step \in [(0..bound) \X V -> V] /\ first \in V
    BY DEF Pointers
  <2>2. \A k \in 0..bound, v \in V : step[<<k, v>>] = IF v = Root THEN Root ELSE p[v]
    OBVIOUS
  <2> HIDE DEF step, V, bound, first
  <2>3. PICK f : Iterates(f, bound, V, first, step)
    BY <1>1, <2>1, RecursionExists
  <2>4. \A k \in 0..bound : f[k] = IF k = 0 THEN p[n] ELSE
                                      IF f[k - 1] = Root THEN Root ELSE p[f[k - 1]]
    <3> TAKE k \in 0..bound
    <3>1. CASE k = 0
      BY <2>3, <3>1 DEF first, Iterates
    <3>2. CASE k # 0
      <4>1. k - 1 \in 0..bound /\ k - 1 < bound /\ (k - 1) + 1 = k
        BY <1>1, <3>2
      <4>2. f[k] = step[<<k - 1, f[k - 1]>>]
        BY <2>3, <4>1 DEF Iterates
      <4>3. f[k - 1] \in V
        BY <2>3, <4>1 DEF Iterates
      <4> QED BY <2>2, <3>2, <4>1, <4>2, <4>3
    <3> QED BY <3>1, <3>2
  <2>5. f = [k \in 0..bound |-> f[k]] /\ f \in [0..bound -> V]
    BY <2>3 DEF Iterates
  <2>6. Is(f)
    BY <2>4, <2>5
  <2> QED BY <2>5, <2>6 DEF V
<1>3. c = CHOOSE f : Is(f)
  BY <1>1 DEF Climb
<1> HIDE DEF c, bound
<1>4. Is(c)
  BY <1>2, <1>3
<1>5. DOMAIN c = 0..bound /\ c[0] = p[n]
  BY <1>1, <1>4
<1>6. \A k \in 0..bound : k < bound =>
        c[k + 1] = IF c[k] = Root THEN Root ELSE p[c[k]]
  BY <1>1, <1>4
<1>7. c \in [0..bound -> L \cup {Root}]
  <2> DEFINE T == {k \in 0..bound : c[k] \in L \cup {Root}}
  <2>1. 0 \in T
    BY <1>1, <1>5 DEF Pointers
  <2>2. ASSUME NEW k \in 0..bound, k \in T, k < bound PROVE k + 1 \in T
    <3>1. k + 1 \in 0..bound /\ c[k + 1] = IF c[k] = Root THEN Root ELSE p[c[k]]
      BY <1>1, <1>6, <2>2
    <3>2. c[k] # Root => p[c[k]] \in L \cup {Root}
      BY <2>2 DEF Pointers
    <3> QED BY <3>1, <3>2
  <2> HIDE DEF T
  <2>3. \A k \in 0..bound : k \in T
    BY <1>1, <2>1, <2>2, StepByStep
  <2>4. \A k \in 0..bound : c[k] \in L \cup {Root}
    BY <2>3 DEF T
  <2> QED BY <1>4, <1>5, <2>4
<1>8. Above(p, n) = {c[k] : k \in 0..bound} \ {Root}
  BY <1>5 DEF Above, Range, c
<1> QED BY <1>1, <1>5, <1>6, <1>7, <1>8 DEF bound, c

\* Nothing lies above a node but nodes, and its own parent first.
LEMMA AboveIsIn ==
    ASSUME NEW L \in SUBSET Nat, IsFiniteSet(L), Root \notin L,
           NEW p \in Pointers(L), NEW n \in L
    PROVE  /\ Above(p, n) \subseteq L
           /\ p[n] # Root => p[n] \in Above(p, n)
<1> DEFINE bound == Cardinality(L)
           c == Climb(p, n)
<1>1. /\ bound \in Nat
      /\ c \in [0..bound -> L \cup {Root}]
      /\ c[0] = p[n]
      /\ \A k \in 0..bound : k < bound =>
            c[k + 1] = IF c[k] = Root THEN Root ELSE p[c[k]]
      /\ Above(p, n) = {c[k] : k \in 0..bound} \ {Root}
  BY ClimbSteps
<1> HIDE DEF c, bound
<1> QED BY <1>1

\* Where pointers stay within a set, so does what lies above its members.
LEMMA AboveStaysIn ==
    ASSUME NEW L \in SUBSET Nat, IsFiniteSet(L), Root \notin L,
           NEW p \in Pointers(L), NEW n \in L, NEW S
    PROVE  /\ p[n] \in S \cup {Root}
           /\ \A x \in S \cap L : p[x] \in S \cup {Root}
           => Above(p, n) \subseteq S
<1> DEFINE bound == Cardinality(L)
           c == Climb(p, n)
<1>1. /\ bound \in Nat
      /\ c \in [0..bound -> L \cup {Root}]
      /\ c[0] = p[n]
      /\ \A k \in 0..bound : k < bound =>
            c[k + 1] = IF c[k] = Root THEN Root ELSE p[c[k]]
      /\ Above(p, n) = {c[k] : k \in 0..bound} \ {Root}
  BY ClimbSteps
<1> HIDE DEF c, bound
<1> SUFFICES ASSUME p[n] \in S \cup {Root},
                    \A x \in S \cap L : p[x] \in S \cup {Root}
             PROVE  Above(p, n) \subseteq S
  OBVIOUS
<1> DEFINE T == {k \in 0..bound : c[k] \in S \cup {Root}}
<1>2. 0 \in T
  BY <1>1
<1>3. ASSUME NEW k \in 0..bound, k \in T, k < bound PROVE k + 1 \in T
  <2>1. k + 1 \in 0..bound /\ c[k + 1] = IF c[k] = Root THEN Root ELSE p[c[k]]
    BY <1>1, <1>3
  <2>2. c[k] # Root => c[k] \in S \cap L
    BY <1>1, <1>3
  <2>3. c[k] # Root => p[c[k]] \in S \cup {Root}
    BY <2>2
  <2>4. c[k + 1] \in S \cup {Root}
    BY <2>1, <2>3
  <2> QED BY <2>1, <2>4
<1> HIDE DEF T
<1>4. \A k \in 0..bound : k \in T
  BY <1>1, <1>2, <1>3, StepByStep
<1> QED BY <1>1, <1>4 DEF T

\* What normalise does to the pointers: cutting every loop at its lowest member
\* leaves no loop.
LEMMA CutBreaksLoops ==
    ASSUME NEW L \in SUBSET Nat, IsFiniteSet(L), Root \notin L,
           NEW p \in Pointers(L), NEW q \in Pointers(L),
           \A x \in L : q[x] = IF x \in Cut(p) THEN Root ELSE p[x],
           NEW n \in L
    PROVE  n \notin Above(q, n)
<1> SUFFICES ASSUME n \in Above(q, n) PROVE FALSE
  OBVIOUS
<1> DEFINE bound == Cardinality(L)
           c == Climb(q, n)
<1>0. L = DOMAIN p
  BY DEF Pointers
<1>1. /\ bound \in Nat
      /\ c \in [0..bound -> L \cup {Root}]
      /\ c[0] = q[n]
      /\ \A k \in 0..bound : k < bound =>
            c[k + 1] = IF c[k] = Root THEN Root ELSE q[c[k]]
      /\ Above(q, n) = {c[k] : k \in 0..bound} \ {Root}
  BY ClimbSteps
<1> HIDE DEF c, bound
<1>2. PICK k \in 0..bound : c[k] = n
  BY <1>1
\* The walk from n back to n does not pass the root.
<1>3. \A j \in 0..k : c[j] # Root
  <2> SUFFICES ASSUME NEW j \in 0..k, c[j] = Root PROVE FALSE
    OBVIOUS
  <2> DEFINE T == {i \in 0..(k - j) : c[j + i] = Root}
  <2>1. k - j \in Nat
    BY <1>1
  <2>2. 0 \in T
    BY <1>1
  <2>3. \A i \in 0..(k - j) : i \in T /\ i < k - j => i + 1 \in T
    BY <1>1
  <2> HIDE DEF T
  <2>4. \A i \in 0..(k - j) : i \in T
    BY <2>1, <2>2, <2>3, StepByStep
  <2>5. k - j \in T
    BY <2>1, <2>4
  <2> QED BY <2>5, <1>1, <1>2 DEF T
<1> DEFINE Loop == {c[j] : j \in 0..k}
<1>4. \A j \in 0..k : c[j] \in L /\ q[c[j]] = IF j = k THEN c[0] ELSE c[j + 1]
  BY <1>1, <1>2, <1>3
<1>5. \A x \in Loop : x \in L /\ q[x] \in Loop /\ q[x] # Root
  BY <1>1, <1>3, <1>4
<1>6. \A x \in Loop : x \notin Cut(p) /\ p[x] = q[x]
  BY <1>5
<1>7. Loop \in SUBSET Nat /\ n \in Loop
  <2>1. n \in Loop
    <3>1. k \in 0..k
      BY <1>1
    <3> QED BY <3>1, <1>2
  <2> HIDE DEF Loop
  <2> QED BY <2>1, <1>5
<1>8. PICK m \in Loop : \A x \in Loop : m <= x
  <2> HIDE DEF Loop
  <2> QED BY <1>7, LowestExists
<1>9. m \in L
  BY <1>5
\* The loop is what lies above its lowest member.
<1>10. Above(p, m) \subseteq Loop
  <2> HIDE DEF Loop
  <2>1. p[m] \in Loop /\ \A x \in Loop \cap L : p[x] \in Loop
    BY <1>5, <1>6
  <2> QED BY <2>1, <1>9, AboveStaysIn
<1>11. m \in Above(p, m)
  <2> DEFINE w == Climb(p, m)
  <2>1. /\ w[0] = p[m]
        /\ \A i \in 0..bound : i < bound =>
              w[i + 1] = IF w[i] = Root THEN Root ELSE p[w[i]]
        /\ Above(p, m) = {w[i] : i \in 0..bound} \ {Root}
    BY <1>9, ClimbSteps DEF bound
  <2> HIDE DEF w
  <2>2. PICK j \in 0..k : m = c[j]
    OBVIOUS
  <2>3. \A i \in 0..k : p[c[i]] = IF i = k THEN c[0] ELSE c[i + 1]
    BY <1>4, <1>6
  <2>4. \A i \in 0..(k - j) : w[i] = IF i = k - j THEN c[0] ELSE c[j + 1 + i]
    <3> DEFINE T == {i \in 0..(k - j) : w[i] = IF i = k - j THEN c[0] ELSE c[j + 1 + i]}
    <3>1. k - j \in Nat
      BY <1>1
    <3>2. 0 \in T
      BY <1>1, <2>1, <2>2, <2>3
    <3>3. ASSUME NEW i \in 0..(k - j), i \in T, i < k - j PROVE i + 1 \in T
      <4>1. w[i] = c[j + 1 + i] /\ j + 1 + i \in 0..k /\ i \in 0..bound /\ i < bound
        BY <3>3, <1>1
      <4>2. w[i + 1] = p[c[j + 1 + i]]
        BY <4>1, <2>1, <1>3
      <4>3. w[i + 1] = IF j + 1 + i = k THEN c[0] ELSE c[j + 1 + i + 1]
        BY <4>1, <4>2, <2>3
      <4> QED BY <4>1, <4>3, <3>3, <1>1
    <3> HIDE DEF T
    <3>4. \A i \in 0..(k - j) : i \in T
      BY <3>1, <3>2, <3>3, StepByStep
    <3> QED BY <3>4 DEF T
  <2>5. \A i \in 0..j : w[k - j + i] = c[i]
    <3> DEFINE T == {i \in 0..j : w[k - j + i] = c[i]}
    <3>1. j \in Nat
      BY <1>1
    <3>2. 0 \in T
      BY <1>1, <2>4
    <3>3. ASSUME NEW i \in 0..j, i \in T, i < j PROVE i + 1 \in T
      <4>1. w[k - j + i] = c[i] /\ k - j + i \in 0..bound /\ k - j + i < bound /\ i \in 0..k
        BY <3>3, <1>1
      <4>2. w[k - j + i + 1] = p[c[i]]
        BY <4>1, <2>1, <1>3
      <4>3. p[c[i]] = c[i + 1]
        BY <4>1, <2>3, <3>3, <1>1
      <4> QED BY <4>2, <4>3, <3>3, <1>1
    <3> HIDE DEF T
    <3>4. \A i \in 0..j : i \in T
      BY <3>1, <3>2, <3>3, StepByStep
    <3> QED BY <3>4 DEF T
  <2>6. w[k] = m /\ k \in 0..bound
    <3>1. w[k - j + j] = c[j] /\ k - j + j = k
      BY <2>5, <1>1
    <3> QED BY <3>1, <2>2
  <2> QED BY <2>1, <2>6, <1>9
<1>12. \A x \in Above(p, m) : m <= x
  BY <1>8, <1>10
<1>13. m = Min(Above(p, m))
  BY <1>7, <1>10, <1>11, <1>12 DEF Min
<1>14. m \in Cut(p)
  BY <1>0, <1>9, <1>11, <1>13 DEF Cut
<1> QED BY <1>6, <1>14

-----------------------------------------------------------------------------
(* Order keys.                                                             *)

Digits == 0..(Base - 1)

\* A key is a sequence of digits that is not too long.
LEMMA KeysAreSequences ==
    \A key : key \in Keys <=> key \in Seq(Digits) /\ Len(key) <= MaxKeyLen + 1
<1>1. MaxKeyLen \in Nat
  BY TreeAssumption
<1>2. ASSUME NEW key \in Keys PROVE key \in Seq(Digits) /\ Len(key) <= MaxKeyLen + 1
  <2>1. PICK k \in 0..(MaxKeyLen + 1) : key \in [1..k -> Digits]
    BY DEF Keys, Digits
  <2>2. k \in Nat /\ key \in Seq(Digits)
    BY <2>1, <1>1
  <2>3. Len(key) = k
    BY <2>1, <2>2
  <2> QED BY <1>1, <2>2, <2>3
<1>3. ASSUME NEW key \in Seq(Digits), Len(key) <= MaxKeyLen + 1 PROVE key \in Keys
  <2>1. Len(key) \in 0..(MaxKeyLen + 1) /\ key \in [1..Len(key) -> Digits]
    BY <1>1, <1>3
  <2> QED BY <2>1 DEF Keys, Digits
<1> QED BY <1>2, <1>3

\* The digits of a key are numbers, and two keys with the same are one.
LEMMA DigitsOf ==
    ASSUME NEW a \in Seq(Digits)
    PROVE  /\ Len(a) \in Nat
           /\ \A k \in 1..Len(a) : a[k] \in Digits /\ a[k] \in Nat
           /\ \A b \in Seq(Digits) :
                Len(b) = Len(a) /\ (\A k \in 1..Len(a) : a[k] = b[k]) => a = b
<1>1. Len(a) \in Nat /\ \A k \in 1..Len(a) : a[k] \in Digits
  OBVIOUS
<1>2. \A x \in Digits : x \in Nat
  BY TreeAssumption DEF Digits
<1>3. \A b \in Seq(Digits) :
        Len(b) = Len(a) /\ (\A k \in 1..Len(a) : a[k] = b[k]) => a = b
  OBVIOUS
<1> QED BY <1>1, <1>2, <1>3

\* a and b begin alike: their first i digits agree.
Alike(a, b, i) == i \in 0..Len(a) /\ i <= Len(b) /\ \A j \in 1..i : a[j] = b[j]

\* Equal beginnings are equal digit by digit.
LEMMA AlikeIs ==
    ASSUME NEW a \in Seq(Digits), NEW b \in Seq(Digits), NEW i \in 0..Len(a), i <= Len(b)
    PROVE  SubSeq(a, 1, i) = SubSeq(b, 1, i) <=> \A j \in 1..i : a[j] = b[j]
<1>1. /\ SubSeq(a, 1, i) \in Seq(Digits) /\ Len(SubSeq(a, 1, i)) = i
      /\ \A j \in 1..i : SubSeq(a, 1, i)[j] = a[j]
      /\ SubSeq(b, 1, i) \in Seq(Digits) /\ Len(SubSeq(b, 1, i)) = i
      /\ \A j \in 1..i : SubSeq(b, 1, i)[j] = b[j]
  OBVIOUS
<1>2. ASSUME \A j \in 1..i : a[j] = b[j] PROVE SubSeq(a, 1, i) = SubSeq(b, 1, i)
  <2>1. \A j \in 1..i : SubSeq(a, 1, i)[j] = SubSeq(b, 1, i)[j]
    BY <1>1, <1>2
  <2> QED BY <1>1, <2>1
<1>3. ASSUME SubSeq(a, 1, i) = SubSeq(b, 1, i) PROVE \A j \in 1..i : a[j] = b[j]
  BY <1>1, <1>3
<1> QED BY <1>2, <1>3

\* Which key comes first is decided by the first digit that differs, a digit
\* that is missing being the lowest.
LEMMA LessIs ==
    ASSUME NEW a \in Seq(Digits), NEW b \in Seq(Digits)
    PROVE  Less(a, b) <=> \E i \in 0..Len(a) : /\ Alike(a, b, i)
                                               /\ i < Len(b)
                                               /\ i < Len(a) => a[i + 1] < b[i + 1]
<1>1. \A i \in 0..Len(a) : i < Len(b) =>
         (SubSeq(a, 1, i) = SubSeq(b, 1, i) <=> Alike(a, b, i))
  BY AlikeIs DEF Alike
<1> QED BY <1>1 DEF Less

\* How to show that one key is less.
LEMMA LessFrom ==
    ASSUME NEW a \in Seq(Digits), NEW b \in Seq(Digits), NEW i,
           Alike(a, b, i), i < Len(b), i < Len(a) => a[i + 1] < b[i + 1]
    PROVE  Less(a, b)
<1>1. i \in 0..Len(a)
  BY DEF Alike
<1> QED BY <1>1, LessIs

\* The longest common beginning.
LEMMA SharedIs ==
    ASSUME NEW a \in Seq(Digits), NEW b \in Seq(Digits)
    PROVE  /\ Alike(a, b, Shared(a, b))
           /\ Shared(a, b) < Len(a) /\ Shared(a, b) < Len(b) =>
                a[Shared(a, b) + 1] # b[Shared(a, b) + 1]
<1> DEFINE T == {i \in 0..Len(a) : i <= Len(b) /\ SubSeq(a, 1, i) = SubSeq(b, 1, i)}
<1>1. T = {i \in 0..Len(a) : Alike(a, b, i)}
  BY AlikeIs DEF Alike
<1>2. 0 \in T /\ T \in SUBSET (0..Len(a)) /\ Len(a) \in Nat /\ Len(b) \in Nat
  BY <1>1 DEF Alike
<1>3. Shared(a, b) = CHOOSE x \in T : \A y \in T : x >= y
  BY DEF Shared, Max
<1>4. \E x \in T : \A y \in T : x >= y
  <2> HIDE DEF T
  <2> QED BY <1>2, GreatestExists
<1>5. Shared(a, b) \in T /\ \A y \in T : Shared(a, b) >= y
  BY <1>3, <1>4
<1> DEFINE same == Shared(a, b)
<1>6. Alike(a, b, same)
  BY <1>1, <1>5
<1>7. ASSUME same < Len(a), same < Len(b), a[same + 1] = b[same + 1] PROVE FALSE
  <2>1. same + 1 \in 0..Len(a) /\ Alike(a, b, same + 1)
    BY <1>6, <1>7, <1>2 DEF Alike
  <2>2. same + 1 \in T
    BY <2>1, <1>1
  <2>3. same >= same + 1
    BY <1>5, <2>2
  <2> QED BY <2>3, <1>2, <1>5
<1> QED BY <1>6, <1>7

\* Less is a strict total order on keys.
LEMMA LessIsStrict ==
    ASSUME NEW a \in Seq(Digits)
    PROVE  ~Less(a, a)
BY LessIs, DigitsOf

\* It is transitive.
LEMMA LessIsTransitive ==
    ASSUME NEW a \in Seq(Digits), NEW b \in Seq(Digits), NEW c \in Seq(Digits),
           Less(a, b), Less(b, c)
    PROVE  Less(a, c)
<1>1. PICK i \in 0..Len(a) : Alike(a, b, i) /\ i < Len(b) /\ (i < Len(a) => a[i + 1] < b[i + 1])
  BY LessIs
<1>2. PICK j \in 0..Len(b) : Alike(b, c, j) /\ j < Len(c) /\ (j < Len(b) => b[j + 1] < c[j + 1])
  BY LessIs
<1>0. /\ Len(a) \in Nat /\ Len(b) \in Nat /\ Len(c) \in Nat
      /\ \A k \in 1..Len(a) : a[k] \in Int
      /\ \A k \in 1..Len(b) : b[k] \in Int
      /\ \A k \in 1..Len(c) : c[k] \in Int
  BY DigitsOf
<1>3. CASE i <= j
  <2>1. Alike(a, c, i) /\ i < Len(c)
    BY <1>0, <1>1, <1>2, <1>3 DEF Alike
  <2>2. i < Len(a) => a[i + 1] < c[i + 1]
    <3> SUFFICES ASSUME i < Len(a) PROVE a[i + 1] < c[i + 1]
      OBVIOUS
    <3>1. i + 1 \in 1..Len(a) /\ i + 1 \in 1..Len(b) /\ i + 1 \in 1..Len(c)
      BY <1>0, <1>1, <2>1
    <3>2. a[i + 1] < b[i + 1]
      BY <1>1
    <3>3. i < j => b[i + 1] = c[i + 1]
      BY <1>0, <1>2, <3>1 DEF Alike
    <3>4. i = j => b[i + 1] < c[i + 1]
      BY <1>1, <1>2
    <3> QED BY <1>0, <1>3, <3>1, <3>2, <3>3, <3>4
  <2> QED BY <2>1, <2>2, LessIs
<1>4. CASE j < i
  <2>1. j \in 0..Len(a) /\ Alike(a, c, j)
    BY <1>0, <1>1, <1>2, <1>4 DEF Alike
  <2>2. j < Len(a) /\ j < Len(b) /\ a[j + 1] = b[j + 1]
    BY <1>0, <1>1, <1>2, <1>4 DEF Alike
  <2>3. a[j + 1] < c[j + 1]
    BY <2>2, <1>2
  <2> QED BY <2>1, <2>3, <1>2, LessIs
<1> QED BY <1>0, <1>3, <1>4

\* Of two different keys one is less.
LEMMA LessIsTotal ==
    ASSUME NEW a \in Seq(Digits), NEW b \in Seq(Digits), a # b
    PROVE  Less(a, b) \/ Less(b, a)
<1> DEFINE same == Shared(a, b)
<1>0. /\ Len(a) \in Nat /\ Len(b) \in Nat
      /\ \A k \in 1..Len(a) : a[k] \in Int
      /\ \A k \in 1..Len(b) : b[k] \in Int
  BY DigitsOf
<1>1. Alike(a, b, same) /\ (same < Len(a) /\ same < Len(b) => a[same + 1] # b[same + 1])
  BY SharedIs
<1> HIDE DEF same
<1>2. same \in 0..Len(a) /\ same \in 0..Len(b) /\ Alike(b, a, same)
  BY <1>0, <1>1 DEF Alike
<1>3. CASE same = Len(a) /\ same = Len(b)
  <2>1. \A j \in 1..Len(a) : a[j] = b[j]
    BY <1>1, <1>3 DEF Alike
  <2>2. a = b
    BY <1>3, <2>1, DigitsOf
  <2> QED BY <2>2
<1>4. CASE same = Len(a) /\ same < Len(b)
  BY <1>0, <1>1, <1>2, <1>4, LessIs
<1>5. CASE same < Len(a) /\ same = Len(b)
  BY <1>0, <1>1, <1>2, <1>5, LessIs
<1>6. CASE same < Len(a) /\ same < Len(b)
  <2>1. same + 1 \in 1..Len(a) /\ same + 1 \in 1..Len(b)
    BY <1>0, <1>2, <1>6
  <2>2. a[same + 1] < b[same + 1] \/ b[same + 1] < a[same + 1]
    BY <1>0, <1>1, <1>6, <2>1
  <2>3. a[same + 1] < b[same + 1] => Less(a, b)
    BY <1>1, <1>2, <1>6, LessIs
  <2>4. b[same + 1] < a[same + 1] => Less(b, a)
    BY <1>1, <1>2, <1>6, LessIs
  <2> QED BY <2>2, <2>3, <2>4
<1> QED BY <1>0, <1>2, <1>3, <1>4, <1>5, <1>6

\* How many digits lead is the number up to the first that does not belong.
LEMMA LeadingIs ==
    ASSUME NEW key, NEW n \in Nat, NEW D
    PROVE  /\ Leading(key, n, D) \in 0..n
           /\ \A j \in 1..Leading(key, n, D) : key[j] \in D
           /\ Leading(key, n, D) < n => key[Leading(key, n, D) + 1] \notin D
<1> DEFINE T == {i \in 0..n : \A j \in 1..i : key[j] \in D}
           k == Leading(key, n, D)
<1>1. 0 \in T /\ T \in SUBSET (0..n)
  OBVIOUS
<1>2. \E x \in T : \A y \in T : x >= y
  <2> HIDE DEF T
  <2> QED BY <1>1, GreatestExists
<1>3. k \in T /\ \A y \in T : k >= y
  BY <1>2 DEF Leading, Max
<1>4. k \in 0..n /\ \A j \in 1..k : key[j] \in D
  BY <1>3
<1>5. ASSUME k < n, key[k + 1] \in D PROVE FALSE
  <2> HIDE DEF k
  <2>1. k + 1 \in T
    BY <1>4, <1>5
  <2>2. k >= k + 1
    BY <1>3, <2>1
  <2> QED BY <2>2, <1>4
<1> QED BY <1>4, <1>5

\* A beginning of a with more digits behind it.
LEMMA Prefixed ==
    ASSUME NEW a \in Seq(Digits), NEW i \in 0..Len(a), NEW t \in Seq(Digits)
    PROVE  /\ SubSeq(a, 1, i) \o t \in Seq(Digits)
           /\ Len(SubSeq(a, 1, i) \o t) = i + Len(t)
           /\ \A j \in 1..i : (SubSeq(a, 1, i) \o t)[j] = a[j]
           /\ \A j \in 1..Len(t) : (SubSeq(a, 1, i) \o t)[i + j] = t[j]
<1> DEFINE s == SubSeq(a, 1, i)
<1>1. s \in Seq(Digits) /\ Len(s) = i /\ \A j \in 1..i : s[j] = a[j]
  OBVIOUS
<1> HIDE DEF s
<1>2. s \o t \in Seq(Digits) /\ Len(s \o t) = i + Len(t)
  BY <1>1
<1>3. \A j \in 1..i : (s \o t)[j] = s[j]
  BY <1>1
<1>4. \A j \in 1..Len(t) : (s \o t)[i + j] = t[j]
  BY <1>1
<1> QED BY <1>1, <1>2, <1>3, <1>4 DEF s

\* What is behind the first n digits of a key.
LEMMA BehindIs ==
    ASSUME NEW a \in Seq(Digits), NEW n \in 0..Len(a)
    PROVE  /\ SubSeq(a, n + 1, Len(a)) \in Seq(Digits)
           /\ Len(SubSeq(a, n + 1, Len(a))) = Len(a) - n
           /\ \A j \in 1..(Len(a) - n) : SubSeq(a, n + 1, Len(a))[j] = a[n + j]
OBVIOUS

\* Keys that begin alike compare as what is behind.
LEMMA LessBehind ==
    ASSUME NEW a \in Seq(Digits), NEW b \in Seq(Digits),
           NEW n \in 0..Len(a), Alike(a, b, n),
           NEW x \in Seq(Digits), Len(x) = Len(a) - n, \A j \in 1..Len(x) : x[j] = a[n + j],
           NEW y \in Seq(Digits), Len(y) = Len(b) - n, \A j \in 1..Len(y) : y[j] = b[n + j],
           Less(x, y)
    PROVE  Less(a, b)
<1>0. Len(a) \in Nat /\ Len(b) \in Nat /\ Len(x) \in Nat /\ Len(y) \in Nat
  BY DigitsOf
<1>1. PICK i \in 0..Len(x) : Alike(x, y, i) /\ i < Len(y) /\ (i < Len(x) => x[i + 1] < y[i + 1])
  BY LessIs
<1>2. n + i \in 0..Len(a) /\ n + i < Len(b)
  BY <1>0, <1>1
<1>3. ASSUME NEW j \in 1..(n + i) PROVE a[j] = b[j]
  <2>1. CASE j <= n
    BY <2>1 DEF Alike
  <2>2. CASE j > n
    <3>1. j - n \in 1..i /\ j - n \in 1..Len(x) /\ j - n \in 1..Len(y) /\ n + (j - n) = j
      BY <2>2, <1>0, <1>1
    <3>2. x[j - n] = y[j - n]
      BY <3>1, <1>1 DEF Alike
    <3>3. x[j - n] = a[j] /\ y[j - n] = b[j]
      BY <3>1
    <3> QED BY <3>2, <3>3
  <2> QED BY <2>1, <2>2
<1>4. ASSUME n + i < Len(a) PROVE a[n + i + 1] < b[n + i + 1]
  <2>1. i + 1 \in 1..Len(x) /\ i + 1 \in 1..Len(y) /\ n + (i + 1) = n + i + 1 /\ i < Len(x)
    BY <1>0, <1>1, <1>4
  <2>2. x[i + 1] < y[i + 1]
    BY <1>1, <2>1
  <2>3. x[i + 1] = a[n + (i + 1)] /\ y[i + 1] = b[n + (i + 1)]
    BY <2>1
  <2> QED BY <2>1, <2>2, <2>3
<1>5. Alike(a, b, n + i)
  <2>1. n + i <= Len(b)
    BY <1>0, <1>2
  <2>2. \A j \in 1..(n + i) : a[j] = b[j]
    BY <1>3
  <2> QED BY <1>2, <2>1, <2>2 DEF Alike
<1> QED BY <1>2, <1>4, <1>5, LessFrom

\* A key that does not end in the lowest digit, or no key.
Ends(key) == key # <<>> => key[Len(key)] # 0

\* Half of a number of digits.
LEMMA Halves ==
    /\ Base \in Nat /\ Base >= 2
    /\ Base \div 2 \in Digits /\ Base \div 2 # 0 /\ 0 \in Digits /\ Base - 1 \in Digits
    /\ \A x \in Nat : x > 1 => x \div 2 \in Nat /\ x \div 2 < x /\ x \div 2 # 0
    /\ \A x \in Digits : (x + Base) \div 2 \in Digits /\ (x + Base) \div 2 # 0
    /\ \A x \in Digits : x # Base - 1 => x < (x + Base) \div 2
    /\ \A x \in Digits, y \in 0..Base : y > x + 1 =>
         (x + y) \div 2 \in Digits /\ x < (x + y) \div 2 /\ (x + y) \div 2 < y
BY TreeAssumption DEF Digits

\* The key below b: shorter than two more digits, and below.
LEMMA UnderIsLess ==
    ASSUME NEW b \in Seq(Digits), b # <<>>, Ends(b)
    PROVE  /\ Under(b) \in Seq(Digits) /\ Len(Under(b)) \in 1..(Len(b) + 1)
           /\ Less(Under(b), b)
           /\ Under(b)[Len(Under(b))] # 0
<1>0. Len(b) \in Nat /\ Len(b) - 1 \in Nat /\ \A j \in 1..Len(b) : b[j] \in Digits /\ b[j] \in Nat
  BY DigitsOf
<1> DEFINE k == Leading(b, Len(b) - 1, {0, 1})
           t == IF b[k + 1] > 1 THEN <<b[k + 1] \div 2>> ELSE <<0, Base \div 2>>
           m == SubSeq(b, 1, k) \o t
<1>1. k \in 0..(Len(b) - 1) /\ (k < Len(b) - 1 => b[k + 1] \notin {0, 1})
  BY <1>0, LeadingIs
<1>2. Under(b) = m
  BY DEF Under
<1> HIDE DEF k
<1>3. k + 1 \in 1..Len(b) /\ k \in 0..Len(b) /\ b[k + 1] # 0
  BY <1>0, <1>1 DEF Ends
<1>4. t \in Seq(Digits) /\ Len(t) \in 1..2 /\ t[1] < b[k + 1] /\ t[Len(t)] # 0
  <2>1. CASE b[k + 1] > 1
    <3>1. /\ b[k + 1] \div 2 \in Nat /\ b[k + 1] \div 2 < b[k + 1] /\ b[k + 1] \div 2 # 0
          /\ b[k + 1] \in Digits
      BY <1>0, <1>3, <2>1, Halves
    <3>2. b[k + 1] \div 2 \in Digits
      BY <3>1, Halves DEF Digits
    <3> QED BY <2>1, <3>1, <3>2
  <2>2. CASE ~(b[k + 1] > 1)
    <3>1. b[k + 1] = 1
      BY <1>0, <1>3, <2>2
    <3>2. Base \div 2 \in Digits /\ Base \div 2 # 0 /\ 0 \in Digits
      BY Halves
    <3>3. t = <<0, Base \div 2>>
      BY <2>2
    <3> HIDE DEF t
    <3> QED BY <3>1, <3>2, <3>3
  <2> QED BY <2>1, <2>2
<1> HIDE DEF t
<1>5. /\ m \in Seq(Digits) /\ Len(m) = k + Len(t)
      /\ \A j \in 1..k : m[j] = b[j]
      /\ \A j \in 1..Len(t) : m[k + j] = t[j]
  BY <1>3, <1>4, Prefixed
<1> HIDE DEF m
<1>6. m[k + 1] = t[1] /\ m[Len(m)] = t[Len(t)]
  BY <1>3, <1>4, <1>5
<1>7. Alike(m, b, k) /\ k < Len(b)
  BY <1>0, <1>3, <1>4, <1>5 DEF Alike
<1>8. Less(m, b)
  <2>1. m[k + 1] < b[k + 1]
    BY <1>4, <1>6
  <2> QED BY <1>5, <1>7, <2>1, LessFrom
<1>9. Len(m) \in 1..(Len(b) + 1)
  BY <1>0, <1>1, <1>4, <1>5
<1> QED BY <1>2, <1>4, <1>5, <1>6, <1>8, <1>9

\* The key above a.
LEMMA OverIsMore ==
    ASSUME NEW a \in Seq(Digits)
    PROVE  /\ Over(a) \in Seq(Digits) /\ Len(Over(a)) \in 1..(Len(a) + 1)
           /\ Less(a, Over(a))
           /\ Over(a)[Len(Over(a))] # 0
<1>0. Len(a) \in Nat /\ \A j \in 1..Len(a) : a[j] \in Digits /\ a[j] \in Nat
  BY DigitsOf
<1> DEFINE k == Leading(a, Len(a), {Base - 1})
           d == Digit(a, k + 1, 0)
           t == <<(d + Base) \div 2>>
           m == SubSeq(a, 1, k) \o t
<1>1. k \in 0..Len(a) /\ (k < Len(a) => a[k + 1] \notin {Base - 1})
  BY <1>0, LeadingIs
<1>2. Over(a) = Append(SubSeq(a, 1, k), (d + Base) \div 2)
  BY DEF Over
<1> HIDE DEF k
<1>3. d \in Digits /\ (k < Len(a) => d = a[k + 1])
  BY <1>0, <1>1, Halves DEF Digit
<1> HIDE DEF d
<1>4. (d + Base) \div 2 \in Digits /\ (d + Base) \div 2 # 0 /\ (k < Len(a) => d < (d + Base) \div 2)
  BY <1>1, <1>3, Halves
<1>5. t \in Seq(Digits) /\ Len(t) = 1 /\ t[1] = (d + Base) \div 2
  BY <1>4
<1>6. Over(a) = m
  <2>1. SubSeq(a, 1, k) \in Seq(Digits)
    BY <1>1
  <2> QED BY <1>2, <1>4, <2>1
<1> HIDE DEF t
<1>7. /\ m \in Seq(Digits) /\ Len(m) = k + Len(t)
      /\ \A j \in 1..k : m[j] = a[j]
      /\ \A j \in 1..Len(t) : m[k + j] = t[j]
  BY <1>1, <1>5, Prefixed
<1> HIDE DEF m
<1>8. m[k + 1] = t[1] /\ Len(m) = k + 1
  BY <1>5, <1>7
<1>9. Alike(a, m, k) /\ k < Len(m)
  BY <1>0, <1>1, <1>7, <1>8 DEF Alike
<1>10. Less(a, m)
  <2>1. k < Len(a) => a[k + 1] < m[k + 1]
    BY <1>3, <1>4, <1>5, <1>8
  <2> QED BY <1>7, <1>9, <2>1, LessFrom
<1>11. Len(m) \in 1..(Len(a) + 1)
  BY <1>0, <1>1, <1>8
<1> QED BY <1>4, <1>5, <1>6, <1>7, <1>8, <1>10, <1>11

\* A digit of a key, or what stands for a missing one.
LEMMA DigitIs ==
    ASSUME NEW key \in Seq(Digits), NEW i \in Nat \ {0}, NEW none
    PROVE  Digit(key, i, none) = IF i <= Len(key) THEN key[i] ELSE none
<1>1. DOMAIN key = 1..Len(key) /\ Len(key) \in Nat
  OBVIOUS
<1> QED BY <1>1 DEF Digit

\* Between two keys, or above one, there is a key: midpoint finds it, makes it at
\* most a digit longer than the longer of the two, and never lets it end in the
\* lowest digit, so that there is room below it as well.
THEOREM MidpointIsBetween ==
    ASSUME NEW a \in Seq(Digits), NEW b \in Seq(Digits), Ends(a), Ends(b),
           b = <<>> \/ Less(a, b)
    PROVE  /\ Midpoint(a, b) \in Seq(Digits)
           /\ Len(Midpoint(a, b)) >= 1
           /\ Len(Midpoint(a, b)) <= Len(a) + 1 \/ Len(Midpoint(a, b)) <= Len(b) + 1
           /\ Less(a, Midpoint(a, b))
           /\ b # <<>> => Less(Midpoint(a, b), b)
           /\ Midpoint(a, b)[Len(Midpoint(a, b))] # 0
<1> DEFINE same == Shared(a, b)
           low == Digit(a, same + 1, 0)
           high == Digit(b, same + 1, Base)
           restA == SubSeq(a, same + 2, Len(a))
           restB == SubSeq(b, same + 2, Len(b))
           t == IF high > low + 1 THEN <<(low + high) \div 2>>
                ELSE IF Len(b) > same + 1 THEN <<high>> \o Under(restB)
                ELSE <<low>> \o Over(restA)
           m == SubSeq(a, 1, same) \o t
<1>0. /\ Len(a) \in Nat /\ Len(b) \in Nat
      /\ \A j \in 1..Len(a) : a[j] \in Digits /\ a[j] \in Nat
      /\ \A j \in 1..Len(b) : b[j] \in Digits /\ b[j] \in Nat
  BY DigitsOf
<1>1. Midpoint(a, b) = m
  BY DEF Midpoint
<1>2. Alike(a, b, same) /\ (same < Len(a) /\ same < Len(b) => a[same + 1] # b[same + 1])
  BY SharedIs
<1> HIDE DEF same
<1>3. same \in 0..Len(a) /\ same \in 0..Len(b) /\ same \in Nat /\ same + 1 \in Nat \ {0}
  BY <1>0, <1>2 DEF Alike
<1>4. /\ low = IF same < Len(a) THEN a[same + 1] ELSE 0
      /\ high = IF same < Len(b) THEN b[same + 1] ELSE Base
  BY <1>0, <1>3, DigitIs
<1> HIDE DEF low, high
<1>5. low \in Digits /\ high \in 0..Base /\ low \in Nat
  <2>1. \A x \in Digits : x \in 0..Base /\ x \in Nat
    BY Halves DEF Digits
  <2>2. 0 \in Digits /\ Base \in 0..Base
    BY Halves
  <2> QED BY <1>0, <1>3, <1>4, <2>1, <2>2
\* Where they part, a's digit is the lower one.
<1>6. b # <<>> => same < Len(b) /\ high \in Digits /\ (same < Len(a) => low < high)
  <2> SUFFICES ASSUME Less(a, b)
               PROVE  same < Len(b) /\ high \in Digits /\ (same < Len(a) => low < high)
    OBVIOUS
  <2>1. PICK i \in 0..Len(a) : Alike(a, b, i) /\ i < Len(b) /\ (i < Len(a) => a[i + 1] < b[i + 1])
    BY LessIs
  <2>2. i = same
    <3>1. CASE i < same
      <4>1. i + 1 \in 1..same /\ i < Len(a)
        BY <1>3, <3>1
      <4>2. a[i + 1] = b[i + 1] /\ a[i + 1] < b[i + 1] /\ i + 1 \in 1..Len(a)
        BY <1>2, <1>3, <2>1, <4>1 DEF Alike
      <4> QED BY <1>0, <4>2
    <3>2. CASE same < i
      <4>1. same + 1 \in 1..i /\ same < Len(a) /\ same < Len(b)
        BY <1>0, <1>3, <2>1, <3>2
      <4> QED BY <1>2, <2>1, <4>1 DEF Alike
    <3> QED BY <1>3, <3>1, <3>2
  <2>3. same < Len(b) /\ same + 1 \in 1..Len(b) /\ (same < Len(a) => a[same + 1] < b[same + 1])
    BY <1>0, <1>3, <2>1, <2>2
  <2> QED BY <1>0, <1>4, <2>3
<1>7. b = <<>> => same = 0 /\ high = Base
  BY <1>3, <1>4
<1>8. b # <<>> => Ends(b) /\ b[Len(b)] # 0
  BY DEF Ends
\* What is known once the digits behind the common beginning are.
<1>9. ASSUME t \in Seq(Digits), Len(t) >= 1, t[Len(t)] # 0,
             same + Len(t) <= Len(a) + 1 \/ same + Len(t) <= Len(b) + 1
      PROVE  /\ m \in Seq(Digits) /\ Len(m) = same + Len(t) /\ Len(m) >= 1
             /\ Len(m) <= Len(a) + 1 \/ Len(m) <= Len(b) + 1
             /\ \A j \in 1..Len(t) : m[same + j] = t[j]
             /\ m[same + 1] = t[1] /\ m[Len(m)] # 0
             /\ Alike(a, m, same) /\ same < Len(m)
             /\ Alike(m, b, same)
  <2> HIDE DEF t
  <2>1. Len(t) \in Nat /\ 1 \in 1..Len(t) /\ Len(t) \in 1..Len(t)
    BY <1>9
  <2>2. /\ m \in Seq(Digits) /\ Len(m) = same + Len(t)
        /\ \A j \in 1..same : m[j] = a[j]
        /\ \A j \in 1..Len(t) : m[same + j] = t[j]
    BY <1>3, <1>9, Prefixed
  <2> HIDE DEF m
  <2>3. m[same + 1] = t[1] /\ m[Len(m)] = t[Len(t)]
    BY <2>1, <2>2
  <2>4. Alike(a, m, same) /\ same < Len(m)
    BY <1>3, <2>1, <2>2 DEF Alike
  <2>5. Alike(m, b, same)
    BY <1>2, <1>3, <2>1, <2>2 DEF Alike
  <2> QED BY <1>3, <1>9, <2>1, <2>2, <2>3, <2>4, <2>5
<1>10. CASE high > low + 1
  <2>1. t = <<(low + high) \div 2>>
    BY <1>10
  <2>2. /\ (low + high) \div 2 \in Digits /\ low < (low + high) \div 2
        /\ (low + high) \div 2 < high
    BY <1>5, <1>10, Halves
  <2>3. t \in Seq(Digits) /\ Len(t) = 1 /\ t[1] = (low + high) \div 2
    <3> DEFINE half == (low + high) \div 2
    <3>1. t = <<half>> /\ half \in Digits
      BY <2>1, <2>2
    <3> HIDE DEF t, half
    <3>2. t \in Seq(Digits) /\ Len(t) = 1 /\ t[1] = half
      BY <3>1
    <3> QED BY <3>2 DEF half
  <2>4. t[Len(t)] # 0 /\ same + Len(t) <= Len(a) + 1
    BY <1>3, <1>5, <2>2, <2>3 DEF Digits
  <2> HIDE DEF t, m
  <2>5. /\ m \in Seq(Digits) /\ Len(m) >= 1 /\ m[Len(m)] # 0
        /\ Len(m) <= Len(a) + 1 \/ Len(m) <= Len(b) + 1
        /\ m[same + 1] = (low + high) \div 2
        /\ Alike(a, m, same) /\ same < Len(m) /\ Alike(m, b, same)
    BY <1>9, <2>3, <2>4
  <2>6. Less(a, m)
    <3>1. same < Len(a) => a[same + 1] < m[same + 1]
      BY <1>4, <2>2, <2>5
    <3> QED BY <2>5, <3>1, LessFrom
  <2>7. b # <<>> => Less(m, b)
    <3> SUFFICES ASSUME b # <<>> PROVE Less(m, b)
      OBVIOUS
    <3>1. same < Len(b) /\ m[same + 1] < b[same + 1]
      BY <1>4, <1>6, <2>2, <2>5
    <3> QED BY <2>5, <3>1, LessFrom
  <2> QED BY <1>1, <2>5, <2>6, <2>7
<1>11. CASE ~(high > low + 1) /\ Len(b) > same + 1
  <2>0. b # <<>> /\ same + 1 \in 0..Len(b)
    BY <1>0, <1>3, <1>11
  <2>1. t = <<high>> \o Under(restB)
    BY <1>11
  <2>2. /\ restB \in Seq(Digits) /\ Len(restB) = Len(b) - (same + 1)
        /\ \A j \in 1..Len(restB) : restB[j] = b[same + 1 + j]
    <3>1. (same + 1) + 1 = same + 2
      BY <1>3
    <3>2. /\ SubSeq(b, (same + 1) + 1, Len(b)) \in Seq(Digits)
          /\ Len(SubSeq(b, (same + 1) + 1, Len(b))) = Len(b) - (same + 1)
          /\ \A j \in 1..(Len(b) - (same + 1)) :
               SubSeq(b, (same + 1) + 1, Len(b))[j] = b[same + 1 + j]
      BY <2>0, BehindIs
    <3> QED BY <3>1, <3>2
  <2> HIDE DEF restB
  <2>3. restB # <<>> /\ Ends(restB)
    <3>1. Len(restB) >= 1 /\ same + 1 + Len(restB) = Len(b) /\ Len(restB) \in 1..Len(restB)
      BY <1>0, <1>3, <1>11, <2>2
    <3> QED BY <1>8, <2>0, <2>2, <3>1 DEF Ends
  <2> DEFINE u == Under(restB)
  <2>4. /\ u \in Seq(Digits) /\ Len(u) \in 1..(Len(restB) + 1)
        /\ Less(u, restB) /\ u[Len(u)] # 0
    BY <2>2, <2>3, UnderIsLess
  <2> HIDE DEF u
  <2>5. high \in Digits
    BY <1>6, <2>0
  <2>6. /\ t \in Seq(Digits) /\ Len(t) = 1 + Len(u) /\ t[1] = high
        /\ \A j \in 1..Len(u) : t[1 + j] = u[j]
    <3>1. t = <<high>> \o u
      BY <2>1 DEF u
    <3> HIDE DEF t
    <3> QED BY <2>4, <2>5, <3>1
  <2>7. t[Len(t)] # 0 /\ Len(t) >= 1 /\ same + Len(t) <= Len(b) + 1
    <3>1. Len(u) \in 1..Len(u) /\ Len(u) \in Nat /\ Len(t) = 1 + Len(u)
      BY <2>4, <2>6
    <3>2. t[Len(t)] = u[Len(u)]
      BY <2>6, <3>1
    <3>3. Len(u) <= Len(b) - (same + 1) + 1
      BY <1>0, <1>3, <2>2, <2>4
    <3> QED BY <1>0, <1>3, <2>4, <3>1, <3>2, <3>3
  <2> HIDE DEF t, m
  <2>8. /\ m \in Seq(Digits) /\ Len(m) >= 1 /\ m[Len(m)] # 0 /\ Len(m) = same + Len(t)
        /\ Len(m) <= Len(a) + 1 \/ Len(m) <= Len(b) + 1
        /\ \A j \in 1..Len(t) : m[same + j] = t[j]
        /\ m[same + 1] = high
        /\ Alike(a, m, same) /\ same < Len(m) /\ Alike(m, b, same)
    BY <1>9, <2>6, <2>7
  <2>9. Less(a, m)
    <3>1. same < Len(a) => a[same + 1] < m[same + 1]
      BY <1>4, <1>6, <2>0, <2>8
    <3> QED BY <2>8, <3>1, LessFrom
  <2>10. Less(m, b)
    <3>1. Alike(m, b, same + 1) /\ same + 1 \in 0..Len(m)
      <4>1. same + 1 \in 0..Len(m) /\ same + 1 <= Len(b)
        BY <1>0, <1>3, <2>0, <2>8
      <4>2. \A j \in 1..(same + 1) : m[j] = b[j]
        BY <1>3, <1>4, <1>6, <2>0, <2>8 DEF Alike
      <4> QED BY <4>1, <4>2 DEF Alike
    <3>2. Len(u) = Len(m) - (same + 1) /\ \A j \in 1..Len(u) : u[j] = m[same + 1 + j]
      <4>1. Len(u) \in Nat
        BY <2>4
      <4>2. ASSUME NEW j \in 1..Len(u) PROVE u[j] = m[same + 1 + j]
        <5>1. 1 + j \in 1..Len(t) /\ same + (1 + j) = same + 1 + j
          BY <1>3, <2>6, <4>1
        <5> QED BY <2>6, <2>8, <5>1
      <4> QED BY <1>3, <2>6, <2>8, <4>1, <4>2
    <3> QED BY <2>2, <2>4, <2>8, <3>1, <3>2, LessBehind
  <2> QED BY <1>1, <2>8, <2>9, <2>10
<1>12. CASE ~(high > low + 1) /\ ~(Len(b) > same + 1)
  <2>1. t = <<low>> \o Over(restA)
    BY <1>12
  <2>2. /\ restA \in Seq(Digits)
        /\ same < Len(a) => Len(restA) = Len(a) - (same + 1)
        /\ same < Len(a) => \A j \in 1..Len(restA) : restA[j] = a[same + 1 + j]
        /\ ~(same < Len(a)) => Len(restA) = 0
    <3>1. CASE same < Len(a)
      <4>1. (same + 1) + 1 = same + 2 /\ same + 1 \in 0..Len(a)
        BY <1>0, <1>3, <3>1
      <4>2. /\ SubSeq(a, (same + 1) + 1, Len(a)) \in Seq(Digits)
            /\ Len(SubSeq(a, (same + 1) + 1, Len(a))) = Len(a) - (same + 1)
            /\ \A j \in 1..(Len(a) - (same + 1)) :
                 SubSeq(a, (same + 1) + 1, Len(a))[j] = a[same + 1 + j]
        BY <4>1, BehindIs
      <4> QED BY <3>1, <4>1, <4>2
    <3>2. CASE ~(same < Len(a))
      <4>1. same = Len(a)
        BY <1>0, <1>3, <3>2
      <4>2. restA = <<>>
        BY <1>0, <4>1
      <4> HIDE DEF restA
      <4>3. restA \in Seq(Digits) /\ Len(restA) = 0
        BY <4>2
      <4> QED BY <3>2, <4>3
    <3> QED BY <3>1, <3>2
  <2> HIDE DEF restA
  <2> DEFINE u == Over(restA)
  <2>3. /\ u \in Seq(Digits) /\ Len(u) \in 1..(Len(restA) + 1)
        /\ Less(restA, u) /\ u[Len(u)] # 0
    BY <2>2, OverIsMore
  <2> HIDE DEF u
  <2>4. /\ t \in Seq(Digits) /\ Len(t) = 1 + Len(u) /\ t[1] = low
        /\ \A j \in 1..Len(u) : t[1 + j] = u[j]
    <3>1. t = <<low>> \o u
      BY <2>1 DEF u
    <3> HIDE DEF t
    <3> QED BY <1>5, <2>3, <3>1
  \* Without b there is a digit of a left: it is the highest.
  <2>5. b = <<>> => same < Len(a)
    <3>1. b = <<>> /\ ~(same < Len(a)) => low = 0 /\ high = Base
      BY <1>4, <1>7
    <3> QED BY <1>12, <3>1, Halves
  <2>6. t[Len(t)] # 0 /\ Len(t) >= 1
        /\ (same + Len(t) <= Len(a) + 1 \/ same + Len(t) <= Len(b) + 1)
    <3>1. t[Len(t)] # 0 /\ Len(t) >= 1
      BY <2>3, <2>4
    <3>2. CASE same < Len(a)
      BY <1>0, <1>3, <2>2, <2>3, <2>4, <3>1, <3>2
    <3>3. CASE ~(same < Len(a))
      <4>0. Len(restA) = 0
        BY <2>2, <3>3
      <4>1. Len(u) = 1
        BY <2>3, <4>0
      <4>2. same < Len(b)
        BY <1>6, <2>5, <3>3
      <4> QED BY <1>0, <1>3, <2>4, <3>1, <4>1, <4>2
    <3> QED BY <3>2, <3>3
  <2> HIDE DEF t, m
  <2>7. /\ m \in Seq(Digits) /\ Len(m) >= 1 /\ m[Len(m)] # 0 /\ Len(m) = same + Len(t)
        /\ Len(m) <= Len(a) + 1 \/ Len(m) <= Len(b) + 1
        /\ \A j \in 1..Len(t) : m[same + j] = t[j]
        /\ m[same + 1] = low
        /\ Alike(a, m, same) /\ same < Len(m) /\ Alike(m, b, same)
    BY <1>9, <2>4, <2>6
  <2>8. Less(a, m)
    <3>1. CASE same < Len(a)
      <4>1. Alike(a, m, same + 1) /\ same + 1 \in 0..Len(a)
        <5>1. same + 1 \in 0..Len(a) /\ same + 1 <= Len(m)
          BY <1>0, <1>3, <2>4, <2>6, <2>7, <3>1
        <5>2. \A j \in 1..(same + 1) : a[j] = m[j]
          BY <1>3, <1>4, <2>7, <3>1 DEF Alike
        <5> QED BY <5>1, <5>2 DEF Alike
      <4>2. Len(u) = Len(m) - (same + 1) /\ \A j \in 1..Len(u) : u[j] = m[same + 1 + j]
        <5>1. Len(u) \in Nat
          BY <2>3
        <5>2. ASSUME NEW j \in 1..Len(u) PROVE u[j] = m[same + 1 + j]
          <6>1. 1 + j \in 1..Len(t) /\ same + (1 + j) = same + 1 + j
            BY <1>3, <2>4, <5>1
          <6> QED BY <2>4, <2>7, <6>1
        <5> QED BY <1>3, <2>4, <2>7, <5>1, <5>2
      <4> QED BY <2>2, <2>3, <2>7, <3>1, <4>1, <4>2, LessBehind
    <3>2. CASE ~(same < Len(a))
      BY <2>7, <3>2, LessFrom
    <3> QED BY <3>1, <3>2
  <2>9. b # <<>> => Less(m, b)
    <3> SUFFICES ASSUME b # <<>> PROVE Less(m, b)
      OBVIOUS
    <3>1. same < Len(b) /\ same + 1 = Len(b) /\ high = b[Len(b)] /\ high # 0
      BY <1>0, <1>3, <1>4, <1>6, <1>8, <1>12
    <3>2. low < high
      <4>1. CASE same < Len(a)
        BY <1>6, <4>1
      <4>2. CASE ~(same < Len(a))
        BY <1>4, <1>5, <3>1, <4>2
      <4> QED BY <4>1, <4>2
    <3>3. m[same + 1] < b[same + 1]
      BY <2>7, <3>1, <3>2
    <3> QED BY <2>7, <3>1, <3>3, LessFrom
  <2> QED BY <1>1, <2>7, <2>8, <2>9
<1> QED BY <1>10, <1>11, <1>12

\* Any two keys have one between them, above the first that is usable, below the
\* second that is usable and not below the first; it is usable itself while it
\* is not too long.
LEMMA BetweenIs ==
    ASSUME NEW a \in Keys, NEW b \in Keys
    PROVE  /\ Between(a, b) \in Keys
           /\ Len(Between(a, b)) <= MaxKeyLen => IsValid(Between(a, b))
           /\ IsValid(a) => Less(a, Between(a, b))
           /\ IsValid(b) /\ (IsValid(a) => Less(a, b)) => Less(Between(a, b), b)
<1> DEFINE Usable(key) == IF IsValid(key) THEN key ELSE <<>>
           low == Usable(a)
           high == IF low # <<>> /\ Usable(b) # <<>> /\ ~Less(a, b) THEN <<>> ELSE Usable(b)
           m == Midpoint(low, high)
<1>1. MaxKeyLen \in Nat /\ a \in Seq(Digits) /\ b \in Seq(Digits) /\ <<>> \in Seq(Digits)
  <2>1. <<>> \in Seq(Digits)
    OBVIOUS
  <2> QED BY <2>1, KeysAreSequences, TreeAssumption
<1>2. \A key \in Seq(Digits) : IsValid(key) =>
        key # <<>> /\ Len(key) <= MaxKeyLen /\ key[Len(key)] # 0
  BY DEF IsValid, Last
<1>3. Between(a, b) = m
  BY DEF Between
<1>4. low \in Seq(Digits) /\ high \in Seq(Digits) /\ Ends(low) /\ Ends(high)
      /\ Len(low) <= MaxKeyLen /\ Len(high) <= MaxKeyLen
  <2>1. \A key \in Seq(Digits) : Usable(key) \in Seq(Digits) /\ Ends(Usable(key))
                                 /\ Len(Usable(key)) <= MaxKeyLen
    <3> TAKE key \in Seq(Digits)
    <3>1. Len(<<>>) <= MaxKeyLen /\ Ends(<<>>)
      BY <1>1 DEF Ends
    <3> QED BY <1>1, <1>2, <3>1 DEF Ends
  <2>2. Len(<<>>) <= MaxKeyLen /\ Ends(<<>>)
    BY <1>1 DEF Ends
  <2> HIDE DEF Usable
  <2> QED BY <1>1, <2>1, <2>2
<1>5. high = <<>> \/ Less(low, high)
  <2>1. CASE low = <<>> /\ high # <<>>
    <3>1. Len(high) \in Nat /\ Len(high) > 0 /\ Len(<<>>) = 0
      BY <1>4, <2>1
    <3>2. Alike(low, high, 0)
      BY <2>1, <3>1 DEF Alike
    <3>3. Len(low) = 0
      BY <2>1, <3>1
    <3> HIDE DEF low, high
    <3>4. low \in Seq(Digits) /\ high \in Seq(Digits) /\ 0 < Len(high) /\ ~(0 < Len(low))
      BY <1>4, <3>1, <3>3
    <3>5. Less(low, high)
      BY <3>2, <3>4, LessFrom
    <3> QED BY <3>5
  <2>2. CASE low # <<>> /\ high # <<>>
    BY <2>2
  <2> QED BY <2>1, <2>2
<1>6. /\ low = IF IsValid(a) THEN a ELSE <<>>
      /\ IsValid(b) /\ (IsValid(a) => Less(a, b)) => high = b /\ high # <<>>
  BY <1>1, <1>2
<1> HIDE DEF low, high
<1>7. /\ m \in Seq(Digits) /\ Len(m) >= 1
      /\ Len(m) <= Len(low) + 1 \/ Len(m) <= Len(high) + 1
      /\ Less(low, m)
      /\ high # <<>> => Less(m, high)
      /\ m[Len(m)] # 0
  BY <1>4, <1>5, MidpointIsBetween
<1> HIDE DEF m
<1>8. m \in Keys
  <2>1. Len(m) <= MaxKeyLen + 1
    BY <1>1, <1>4, <1>7
  <2> QED BY <1>7, <2>1, KeysAreSequences
<1>9. Len(m) <= MaxKeyLen => IsValid(m)
  BY <1>1, <1>7 DEF IsValid, Last
<1> QED BY <1>3, <1>6, <1>7, <1>8, <1>9

-----------------------------------------------------------------------------
(* Siblings.                                                               *)

Docs == [live : SUBSET Nodes, gone : SUBSET Nodes,
         parent : [Nodes -> Nodes \cup {Root}], order : [Nodes -> Keys]]

\* The nodes are finitely many numbers, and the root is none of them.
LEMMA NodesAre ==
    /\ MaxId \in Nat /\ IsFiniteSet(Nodes) /\ Nodes \subseteq Nat /\ Root \notin Nodes
    /\ \A S \in SUBSET Nodes : IsFiniteSet(S) /\ S \subseteq Nat /\ Root \notin S
<1>1. MaxId \in Nat
  BY TreeAssumption
<1>2. IsFiniteSet(Nodes)
  BY <1>1, FS_Interval DEF Nodes
<1>3. Nodes \subseteq Nat /\ Root \notin Nodes
  BY <1>1 DEF Nodes, Root
<1>4. \A S \in SUBSET Nodes : IsFiniteSet(S)
  BY <1>2, FS_Subset
<1> QED BY <1>1, <1>2, <1>3, <1>4

\* Which of two siblings is first.
LEMMA EarlierIs ==
    ASSUME NEW d \in Docs, NEW a \in Nodes, NEW b \in Nodes
    PROVE  LET x == d.order[a]
               y == d.order[b]
           IN  Earlier(d, a, b) <=>
                 \/ IsValid(x) /\ ~IsValid(y)
                 \/ IsValid(x) /\ IsValid(y) /\ x # y /\ Less(x, y)
                 \/ ~IsValid(x) /\ ~IsValid(y) /\ a < b
                 \/ IsValid(x) /\ IsValid(y) /\ x = y /\ a < b
<1>1. IsValid(d.order[a]) \in BOOLEAN /\ IsValid(d.order[b]) \in BOOLEAN
  BY DEF IsValid
<1>2. Less(d.order[a], d.order[b]) \in BOOLEAN
  BY DEF Less
<1>3. CASE IsValid(d.order[a]) = TRUE /\ IsValid(d.order[b]) = TRUE
  BY <1>2, <1>3 DEF Earlier
<1>4. CASE IsValid(d.order[a]) = TRUE /\ IsValid(d.order[b]) = FALSE
  BY <1>4 DEF Earlier
<1>5. CASE IsValid(d.order[a]) = FALSE /\ IsValid(d.order[b]) = TRUE
  BY <1>5 DEF Earlier
<1>6. CASE IsValid(d.order[a]) = FALSE /\ IsValid(d.order[b]) = FALSE
  BY <1>6 DEF Earlier
<1> QED BY <1>1, <1>3, <1>4, <1>5, <1>6

\* The order of siblings is a strict total order, whatever their keys.
LEMMA EarlierIsStrict ==
    ASSUME NEW d \in Docs
    PROVE  /\ \A a \in Nodes : ~Earlier(d, a, a)
           /\ \A a, b \in Nodes : a # b => Earlier(d, a, b) \/ Earlier(d, b, a)
           /\ \A a, b, c \in Nodes : Earlier(d, a, b) /\ Earlier(d, b, c) => Earlier(d, a, c)
<1>1. \A n \in Nodes : d.order[n] \in Seq(Digits) /\ n \in Nat
  BY KeysAreSequences, NodesAre DEF Docs
<1>2. \A a \in Nodes : ~Earlier(d, a, a)
  BY <1>1, EarlierIs
<1>3. ASSUME NEW a \in Nodes, NEW b \in Nodes, a # b
      PROVE  Earlier(d, a, b) \/ Earlier(d, b, a)
  <2>1. d.order[a] # d.order[b] => Less(d.order[a], d.order[b]) \/ Less(d.order[b], d.order[a])
    BY <1>1, LessIsTotal
  <2>2. a < b \/ b < a
    BY <1>1, <1>3
  <2> QED BY <2>1, <2>2, EarlierIs
<1>4. ASSUME NEW a \in Nodes, NEW b \in Nodes, NEW c \in Nodes,
             Earlier(d, a, b), Earlier(d, b, c)
      PROVE  Earlier(d, a, c)
  <2> DEFINE x == d.order[a]
             y == d.order[b]
             z == d.order[c]
  <2>1. x \in Seq(Digits) /\ y \in Seq(Digits) /\ z \in Seq(Digits)
    BY <1>1
  <2>2. /\ Less(x, y) /\ Less(y, z) => Less(x, z)
        /\ ~(Less(x, y) /\ Less(y, x)) /\ ~Less(x, x)
    BY <2>1, LessIsTransitive, LessIsStrict
  <2>3. a < b /\ b < c => a < c
    BY <1>1
  <2>4. /\ \/ IsValid(x) /\ ~IsValid(y)
           \/ IsValid(x) /\ IsValid(y) /\ x # y /\ Less(x, y)
           \/ ~IsValid(x) /\ ~IsValid(y) /\ a < b
           \/ IsValid(x) /\ IsValid(y) /\ x = y /\ a < b
        /\ \/ IsValid(y) /\ ~IsValid(z)
           \/ IsValid(y) /\ IsValid(z) /\ y # z /\ Less(y, z)
           \/ ~IsValid(y) /\ ~IsValid(z) /\ b < c
           \/ IsValid(y) /\ IsValid(z) /\ y = z /\ b < c
    BY <1>4, EarlierIs
  <2>5. \/ IsValid(x) /\ ~IsValid(z)
        \/ IsValid(x) /\ IsValid(z) /\ x # z /\ Less(x, z)
        \/ ~IsValid(x) /\ ~IsValid(z) /\ a < c
        \/ IsValid(x) /\ IsValid(z) /\ x = z /\ a < c
    <3> HIDE DEF x, y, z
    <3> QED BY <2>2, <2>3, <2>4
  <2> QED BY <2>5, EarlierIs
<1> QED BY <1>2, <1>3, <1>4

\* How many of the nodes S come before n.
RankIn(d, S, n) == Cardinality({m \in S : Earlier(d, m, n)})

\* Among finitely many siblings the ranks are 0, 1, ... in their order.
LEMMA RanksAre ==
    ASSUME NEW d \in Docs, NEW S \in SUBSET Nodes
    PROVE  /\ Cardinality(S) \in Nat
           /\ \A n \in Nodes : RankIn(d, S, n) \in 0..Cardinality(S)
           /\ \A n \in S : RankIn(d, S, n) \in 0..(Cardinality(S) - 1)
           /\ \A a, b \in S : Earlier(d, a, b) => RankIn(d, S, a) < RankIn(d, S, b)
           /\ \A a, b \in S : RankIn(d, S, a) = RankIn(d, S, b) => a = b
           /\ \A i \in 0..(Cardinality(S) - 1) : \E n \in S : RankIn(d, S, n) = i
<1> DEFINE Before(n) == {m \in S : Earlier(d, m, n)}
<1>1. IsFiniteSet(S) /\ Cardinality(S) \in Nat
  BY NodesAre, FS_CardinalityType
<1>2. \A n : IsFiniteSet(Before(n)) /\ Cardinality(Before(n)) \in Nat
                /\ Cardinality(Before(n)) <= Cardinality(S)
  <2> TAKE n
  <2>1. Before(n) \in SUBSET S
    OBVIOUS
  <2> QED BY <1>1, <2>1, FS_Subset, FS_CardinalityType
<1>3. ASSUME NEW n \in S PROVE Cardinality(Before(n)) < Cardinality(S)
  <2>1. Before(n) \in SUBSET S /\ n \notin Before(n)
    BY EarlierIsStrict
  <2> HIDE DEF Before
  <2>2. Cardinality(Before(n)) # Cardinality(S)
    BY <1>1, <2>1, FS_Subset
  <2> QED BY <1>1, <1>2, <2>2
<1>4. ASSUME NEW a \in S, NEW b \in S, Earlier(d, a, b)
      PROVE  Cardinality(Before(a)) < Cardinality(Before(b))
  <2>1. \A m \in S : Earlier(d, m, a) => Earlier(d, m, b)
    BY <1>4, EarlierIsStrict
  <2>2. Before(a) \in SUBSET Before(b) /\ a \in Before(b) /\ a \notin Before(a)
    BY <1>4, <2>1, EarlierIsStrict
  <2>3. IsFiniteSet(Before(b)) /\ Cardinality(Before(a)) \in Nat /\ Cardinality(Before(b)) \in Nat
    BY <1>2
  <2> HIDE DEF Before
  <2>4. Cardinality(Before(a)) <= Cardinality(Before(b))
        /\ Cardinality(Before(b)) # Cardinality(Before(a))
    BY <2>2, <2>3, FS_Subset
  <2> QED BY <2>3, <2>4
<1>5. ASSUME NEW a \in S, NEW b \in S, Cardinality(Before(a)) = Cardinality(Before(b))
      PROVE  a = b
  <2>1. a # b => Earlier(d, a, b) \/ Earlier(d, b, a)
    BY EarlierIsStrict
  <2>2. Cardinality(Before(a)) \in Nat /\ Cardinality(Before(b)) \in Nat
    BY <1>2
  <2> HIDE DEF Before
  <2> QED BY <1>4, <1>5, <2>1, <2>2
<1>6. ASSUME NEW i \in 0..(Cardinality(S) - 1) PROVE \E n \in S : Cardinality(Before(n)) = i
  <2> DEFINE T == 0..(Cardinality(S) - 1)
             f == [n \in S |-> Cardinality(Before(n))]
  <2>1. IsFiniteSet(T) /\ Cardinality(T) = Cardinality(S)
    BY <1>1, FS_Interval
  <2>2. f \in [S -> T]
    BY <1>1, <1>2, <1>3
  <2>3. f \in Injection(S, T)
    BY <1>5, <2>2 DEF Injection, IsInjective
  <2>4. f \in Surjection(S, T)
    <3> HIDE DEF T, f
    <3> QED BY <2>1, <2>3, FS_Injection
  <2>5. \E n \in S : f[n] = i
    BY <2>4 DEF Surjection
  <2> QED BY <2>5
<1>7. \A n : RankIn(d, S, n) = Cardinality(Before(n))
  BY DEF RankIn
<1> HIDE DEF Before
<1> QED BY <1>1, <1>2, <1>3, <1>4, <1>5, <1>6, <1>7

\* Put in order, the nodes are listed once each, by rank.
LEMMA InOrderIs ==
    ASSUME NEW d \in Docs, NEW S \in SUBSET Nodes
    PROVE  LET ring == InOrder(d, S)
           IN  /\ Cardinality(S) \in Nat
               /\ ring \in Seq(Nodes) /\ Len(ring) = Cardinality(S)
               /\ \A i \in 1..Len(ring) : ring[i] \in S /\ RankIn(d, S, ring[i]) = i - 1
               /\ \A n \in S : \E i \in 1..Len(ring) : ring[i] = n
<1> DEFINE ring == InOrder(d, S)
           Rank(n) == RankIn(d, S, n)
<1>2. ring = [i \in 1..Cardinality(S) |-> CHOOSE n \in S : Rank(n) = i - 1]
  BY DEF InOrder, RankIn
<1> HIDE DEF ring
<1>3. /\ Cardinality(S) \in Nat
      /\ \A n \in S : Rank(n) \in 0..(Cardinality(S) - 1)
      /\ \A a, b \in S : Rank(a) = Rank(b) => a = b
      /\ \A i \in 0..(Cardinality(S) - 1) : \E n \in S : Rank(n) = i
  BY RanksAre
<1> HIDE DEF Rank
<1>4. ASSUME NEW i \in 1..Cardinality(S)
      PROVE  ring[i] \in S /\ Rank(ring[i]) = i - 1
  <2>1. i - 1 \in 0..(Cardinality(S) - 1)
    BY <1>3
  <2>2. \E n \in S : Rank(n) = i - 1
    BY <1>3, <2>1
  <2> QED BY <1>2, <2>2
<1>5. ring \in Seq(Nodes) /\ Len(ring) = Cardinality(S)
  <2>1. ring \in [1..Cardinality(S) -> Nodes]
    BY <1>2, <1>4
  <2> QED BY <1>3, <2>1
<1>6. ASSUME NEW n \in S PROVE \E i \in 1..Len(ring) : ring[i] = n
  <2>1. Rank(n) + 1 \in 1..Cardinality(S) /\ (Rank(n) + 1) - 1 = Rank(n)
    BY <1>3
  <2>2. ring[Rank(n) + 1] = n
    BY <1>3, <1>4, <2>1
  <2> QED BY <1>5, <2>1, <2>2
<1> QED BY <1>3, <1>4, <1>5, <1>6 DEF ring, Rank

\* The key of a new sibling is a key.
LEMMA OrderForIsKey ==
    ASSUME NEW d \in Docs, NEW ring \in Seq(Nodes), NEW at
    PROVE  OrderFor(d, ring, at) \in Keys
<1> DEFINE Key(i) == IF i \in DOMAIN ring THEN d.order[ring[i]] ELSE <<>>
<1>1. <<>> \in Keys
  <2>1. <<>> \in Seq(Digits) /\ Len(<<>>) <= MaxKeyLen + 1
    BY TreeAssumption
  <2> QED BY <2>1, KeysAreSequences
<1>2. \A i : Key(i) \in Keys
  <2>1. \A i \in DOMAIN ring : ring[i] \in Nodes
    OBVIOUS
  <2>2. \A n \in Nodes : d.order[n] \in Keys
    BY DEF Docs
  <2> QED BY <1>1, <2>1, <2>2
<1> HIDE DEF Key
<1>3. \A i, j : Between(Key(i), Key(j)) \in Keys
  BY <1>2, BetweenIs
<1> DEFINE slot == IF at = Unsaid \/ at > Len(ring) THEN Len(ring) ELSE at
<1>4. OrderFor(d, ring, at) = Between(Key(slot), Key(slot + 1))
  BY DEF OrderFor, Key
<1> HIDE DEF slot
<1> QED BY <1>3, <1>4

\* So putting a node, and a batch of nodes, leaves a document.
LEMMA PutNodeTyped ==
    ASSUME NEW d \in Docs, NEW add, add.node \in Nodes, add.parent \in Nodes \cup {Root}
    PROVE  /\ PutNode(d, add) \in Docs
           /\ PutNode(d, add).live = d.live \cup {add.node}
           /\ PutNode(d, add).gone = d.gone
           /\ PutNode(d, add).parent = [d.parent EXCEPT ![add.node] = add.parent]
           /\ PutNode(d, add).order =
                [d.order EXCEPT ![add.node] =
                   OrderFor(d, Ring(d, Shown(d), add.parent), add.at)]
<1> DEFINE ring == Ring(d, Shown(d), add.parent)
           key == OrderFor(d, ring, add.at)
<1>1. key \in Keys
  <2> DEFINE S == {n \in d.live : Shown(d)[n] = add.parent}
  <2>1. S \in SUBSET Nodes
    BY DEF Docs
  <2>2. ring = InOrder(d, S)
    BY DEF Ring
  <2> HIDE DEF S
  <2> HIDE DEF ring
  <2>3. InOrder(d, S) \in Seq(Nodes)
    BY <2>1, InOrderIs
  <2>4. ring \in Seq(Nodes)
    BY <2>2, <2>3
  <2> QED BY <2>4, OrderForIsKey
<1> HIDE DEF key
<1>2. PutNode(d, add) = [live |-> d.live \cup {add.node}, gone |-> d.gone,
                         parent |-> [d.parent EXCEPT ![add.node] = add.parent],
                         order |-> [d.order EXCEPT ![add.node] = key]]
  <2>1. PutNode(d, add) = [d EXCEPT !.live = d.live \cup {add.node},
                                    !.parent = [d.parent EXCEPT ![add.node] = add.parent],
                                    !.order = [d.order EXCEPT ![add.node] = key]]
    BY DEF PutNode, key
  <2>2. d = [live |-> d.live, gone |-> d.gone, parent |-> d.parent, order |-> d.order]
    BY DEF Docs
  <2> QED BY <2>1, <2>2
<1>3. /\ d.live \cup {add.node} \in SUBSET Nodes /\ d.gone \in SUBSET Nodes
      /\ [d.parent EXCEPT ![add.node] = add.parent] \in [Nodes -> Nodes \cup {Root}]
      /\ [d.order EXCEPT ![add.node] = key] \in [Nodes -> Keys]
  BY <1>1 DEF Docs
<1>4. PutNode(d, add) \in Docs
  BY <1>2, <1>3 DEF Docs
<1> QED BY <1>2, <1>4 DEF key

\* What a caller may add.
Additions == [node : Nodes, parent : Nodes \cup {Root}, at : Int]

\* The documents on the way through a batch.
LEMMA PutIs ==
    ASSUME NEW d \in Docs, NEW batch \in Seq(Additions)
    PROVE  \E put \in [0..Len(batch) -> Docs] :
              /\ put[0] = d
              /\ \A k \in 0..Len(batch) : k < Len(batch) =>
                   put[k + 1] = PutNode(put[k], batch[k + 1])
              /\ Put(d, batch) = put[Len(batch)]
<1> DEFINE bound == Len(batch)
           Is(f) == f = [k \in 0..bound |-> IF k = 0 THEN d ELSE PutNode(f[k - 1], batch[k])]
           P == CHOOSE f : Is(f)
<1>1. bound \in Nat
  OBVIOUS
<1>2. Put(d, batch) = P[bound]
  BY DEF Put
<1>3. \A e \in Docs, k \in 1..bound : PutNode(e, batch[k]) \in Docs
  <2> TAKE e \in Docs, k \in 1..bound
  <2>1. batch[k] \in Additions
    OBVIOUS
  <2>2. batch[k].node \in Nodes /\ batch[k].parent \in Nodes \cup {Root}
    BY <2>1 DEF Additions
  <2> QED BY <2>2, PutNodeTyped
<1>4. \E f : Is(f)
  <2> DEFINE step == [x \in (0..bound) \X Docs |->
                        IF x[1] < bound THEN PutNode(x[2], batch[x[1] + 1]) ELSE x[2]]
  <2>1. step \in [(0..bound) \X Docs -> Docs]
    <3>1. \A k \in 0..bound : k < bound => k + 1 \in 1..bound
      OBVIOUS
    <3> QED BY <1>3, <3>1
  <2>2. \A k \in 0..bound, e \in Docs :
           k < bound => step[<<k, e>>] = PutNode(e, batch[k + 1])
    OBVIOUS
  <2> HIDE DEF step, bound
  <2>3. PICK f : Iterates(f, bound, Docs, d, step)
    BY <1>1, <2>1, RecursionExists
  <2>4. \A k \in 0..bound : f[k] = IF k = 0 THEN d ELSE PutNode(f[k - 1], batch[k])
    <3> TAKE k \in 0..bound
    <3>1. CASE k = 0
      BY <2>3, <3>1 DEF Iterates
    <3>2. CASE k # 0
      <4>1. k - 1 \in 0..bound /\ k - 1 < bound /\ (k - 1) + 1 = k
        BY <1>1, <3>2
      <4>2. f[k] = step[<<k - 1, f[k - 1]>>] /\ f[k - 1] \in Docs
        BY <2>3, <4>1 DEF Iterates
      <4>3. step[<<k - 1, f[k - 1]>>] = PutNode(f[k - 1], batch[(k - 1) + 1])
        BY <2>2, <4>1, <4>2
      <4> QED BY <3>2, <4>1, <4>2, <4>3
    <3> QED BY <3>1, <3>2
  <2>5. f = [k \in 0..bound |-> f[k]]
    BY <2>3 DEF Iterates
  <2>6. Is(f)
    BY <2>4, <2>5
  <2> QED BY <2>6
<1>5. Is(P)
  BY <1>4
<1> HIDE DEF P, bound
<1>6. /\ P[0] = d
      /\ \A k \in 0..bound : k < bound => P[k + 1] = PutNode(P[k], batch[k + 1])
  <2>1. P[0] = d
    BY <1>1, <1>5
  <2>2. ASSUME NEW k \in 0..bound, k < bound PROVE P[k + 1] = PutNode(P[k], batch[k + 1])
    <3>1. k + 1 \in 0..bound /\ k + 1 # 0 /\ (k + 1) - 1 = k
      BY <1>1, <2>2
    <3> QED BY <1>5, <3>1
  <2> QED BY <2>1, <2>2
<1>7. \A k \in 0..bound : P[k] \in Docs
  <2> DEFINE T == {k \in 0..bound : P[k] \in Docs}
  <2>1. 0 \in T
    BY <1>1, <1>6
  <2>2. ASSUME NEW k \in 0..bound, k \in T, k < bound PROVE k + 1 \in T
    <3>1. k + 1 \in 1..bound /\ k + 1 \in 0..bound
      BY <1>1, <2>2
    <3> QED BY <1>3, <1>6, <2>2, <3>1
  <2> HIDE DEF T
  <2>3. \A k \in 0..bound : k \in T
    BY <1>1, <2>1, <2>2, StepByStep
  <2> QED BY <2>3 DEF T
<1>8. P \in [0..bound -> Docs]
  BY <1>5, <1>7
<1> QED BY <1>2, <1>6, <1>8 DEF bound

\* The keys of the first nodes are keys.
LEMMA SeedIsTyped == Seed \in Docs
<1> DEFINE bound == Cardinality(Seeded)
           Is(f) == f = [k \in 0..bound |->
                      IF k = 0 THEN <<>>
                      ELSE Append(f[k - 1], Between(IF k = 1 THEN <<>> ELSE f[k - 1][k - 1], <<>>))]
           P == SeedKeys
<1>1. Seeded \in SUBSET Nodes /\ bound \in Nat /\ IsFiniteSet(Seeded)
  <2>1. Seeded \in SUBSET Nodes
    BY TreeAssumption DEF Nodes
  <2> QED BY <2>1, NodesAre, FS_CardinalityType
<1>2. P = CHOOSE f : Is(f)
  BY DEF SeedKeys
<1>3. <<>> \in Keys /\ <<>> \in Seq(Keys)
  <2>1. <<>> \in Seq(Digits) /\ Len(<<>>) <= MaxKeyLen + 1
    BY TreeAssumption
  <2>2. <<>> \in Seq(Keys)
    OBVIOUS
  <2> QED BY <2>1, <2>2, KeysAreSequences
\* One more key.
<1> DEFINE Longer(k, s) == Append(s, Between(IF k = 1 THEN <<>> ELSE s[k - 1], <<>>))
           V == Seq(Keys)
<1>4. \A k \in 1..bound, s \in V : Len(s) = k - 1 => Longer(k, s) \in V /\ Len(Longer(k, s)) = k
  <2> TAKE k \in 1..bound, s \in V
  <2> HAVE Len(s) = k - 1
  <2> DEFINE a == IF k = 1 THEN <<>> ELSE s[k - 1]
             key == Between(a, <<>>)
  <2>1. a \in Keys
    <3>1. k # 1 => k - 1 \in 1..Len(s)
      BY <1>1
    <3> QED BY <1>3, <3>1
  <2> HIDE DEF a
  <2>2. key \in Keys
    BY <1>3, <2>1, BetweenIs
  <2> HIDE DEF key
  <2>3. Append(s, key) \in V /\ Len(Append(s, key)) = k
    BY <1>1, <2>2
  <2> QED BY <2>3 DEF key, a
<1>5. \E f : Is(f)
  <2> DEFINE step == [x \in (0..bound) \X V |->
                        IF x[1] < bound /\ Len(x[2]) = x[1] THEN Longer(x[1] + 1, x[2]) ELSE x[2]]
             first == <<>>
  <2>1. step \in [(0..bound) \X V -> V] /\ first \in V
    <3>1. \A k \in 0..bound : k < bound => k + 1 \in 1..bound /\ (k + 1) - 1 = k
      BY <1>1
    <3> HIDE DEF Longer, bound
    <3>2. \A k \in 0..bound, s \in V :
             k < bound /\ Len(s) = k => Longer(k + 1, s) \in V
      BY <1>4, <3>1
    <3>3. \A x \in (0..bound) \X V :
             (IF x[1] < bound /\ Len(x[2]) = x[1] THEN Longer(x[1] + 1, x[2]) ELSE x[2]) \in V
      BY <3>2
    <3> QED BY <1>3, <3>3
  <2>2. \A k \in 0..bound, s \in V :
           k < bound /\ Len(s) = k => step[<<k, s>>] = Longer(k + 1, s)
    OBVIOUS
  <2> HIDE DEF step, first, bound, V
  <2>3. PICK f : Iterates(f, bound, V, first, step)
    BY <1>1, <2>1, RecursionExists
  <2> HIDE DEF Longer
  <2>4. \A k \in 0..bound : f[k] \in V /\ Len(f[k]) = k
    <3> DEFINE T == {k \in 0..bound : f[k] \in V /\ Len(f[k]) = k}
    <3>1. 0 \in T
      BY <1>1, <1>3, <2>3 DEF Iterates, first, V
    <3>2. ASSUME NEW k \in 0..bound, k \in T, k < bound PROVE k + 1 \in T
      <4>1. k + 1 \in 1..bound /\ k + 1 \in 0..bound /\ (k + 1) - 1 = k
        BY <1>1, <3>2
      <4>2. f[k + 1] = Longer(k + 1, f[k])
        BY <2>2, <2>3, <3>2 DEF Iterates
      <4> QED BY <1>4, <3>2, <4>1, <4>2
    <3> HIDE DEF T
    <3>3. \A k \in 0..bound : k \in T
      BY <1>1, <3>1, <3>2, StepByStep
    <3> QED BY <3>3 DEF T
  <2>5. \A k \in 0..bound : f[k] = IF k = 0 THEN <<>> ELSE Longer(k, f[k - 1])
    <3> TAKE k \in 0..bound
    <3>1. CASE k = 0
      BY <2>3, <3>1 DEF Iterates, first
    <3>2. CASE k # 0
      <4>1. k - 1 \in 0..bound /\ k - 1 < bound /\ (k - 1) + 1 = k
        BY <1>1, <3>2
      <4>2. f[k] = step[<<k - 1, f[k - 1]>>]
        BY <2>3, <4>1 DEF Iterates
      <4>3. step[<<k - 1, f[k - 1]>>] = Longer((k - 1) + 1, f[k - 1])
        BY <2>2, <2>4, <4>1
      <4> QED BY <3>2, <4>1, <4>2, <4>3
    <3> QED BY <3>1, <3>2
  <2>6. f = [k \in 0..bound |-> f[k]]
    BY <2>3 DEF Iterates
  <2>7. Is(f)
    BY <2>5, <2>6 DEF Longer
  <2> QED BY <2>7
<1>6. Is(P)
  BY <1>2, <1>5
<1> HIDE DEF P, bound
<1>7. P[0] = <<>> /\ \A k \in 1..bound : P[k] = Longer(k, P[k - 1])
  <2>1. P[0] = <<>>
    <3>1. 0 \in 0..bound
      BY <1>1
    <3> QED BY <1>6, <3>1
  <2>2. ASSUME NEW k \in 1..bound PROVE P[k] = Longer(k, P[k - 1])
    <3>1. k \in 0..bound /\ k # 0
      BY <1>1
    <3> QED BY <1>6, <3>1
  <2> QED BY <2>1, <2>2
<1> HIDE DEF Longer
<1>8. \A k \in 0..bound : P[k] \in Seq(Keys) /\ Len(P[k]) = k
  <2> DEFINE T == {k \in 0..bound : P[k] \in V /\ Len(P[k]) = k}
  <2>1. 0 \in T
    <3>1. P[0] \in V /\ Len(P[0]) = 0 /\ 0 \in 0..bound
      BY <1>1, <1>3, <1>7
    <3> QED BY <3>1
  <2>2. ASSUME NEW k \in 0..bound, k \in T, k < bound PROVE k + 1 \in T
    <3>1. k + 1 \in 1..bound /\ k + 1 \in 0..bound /\ (k + 1) - 1 = k
      BY <1>1, <2>2
    <3>2. P[k + 1] = Longer(k + 1, P[k])
      BY <1>7, <3>1
    <3> QED BY <1>4, <2>2, <3>1, <3>2
  <2> HIDE DEF T
  <2>3. \A k \in 0..bound : k \in T
    BY <1>1, <2>1, <2>2, StepByStep
  <2> QED BY <2>3 DEF T
<1>9. \A n \in Seeded : P[bound][Cardinality({m \in Seeded : m <= n})] \in Keys
  <2> TAKE n \in Seeded
  <2> DEFINE S == {m \in Seeded : m <= n}
  <2>1. S \in SUBSET Seeded /\ n \in S
    BY <1>1, NodesAre
  <2> HIDE DEF S
  <2>2. IsFiniteSet(S) /\ Cardinality(S) \in Nat /\ Cardinality(S) <= bound /\ Cardinality(S) # 0
    BY <1>1, <2>1, FS_Subset, FS_CardinalityType, FS_EmptySet DEF bound
  <2>3. Cardinality(S) \in 1..Len(P[bound]) /\ P[bound] \in Seq(Keys)
    BY <1>1, <1>8, <2>2
  <2>4. P[bound][Cardinality(S)] \in Keys
    BY <2>3
  <2> QED BY <2>4 DEF S
<1> DEFINE order == [n \in Nodes |->
              IF n \in Seeded THEN P[bound][Cardinality({m \in Seeded : m <= n})] ELSE <<>>]
<1>10. Seed = [live |-> Seeded, gone |-> {}, parent |-> [n \in Nodes |-> Root], order |-> order]
  BY DEF Seed, P, bound
<1>11. order \in [Nodes -> Keys]
  BY <1>3, <1>9
<1> HIDE DEF order
<1> QED BY <1>1, <1>10, <1>11 DEF Docs

-----------------------------------------------------------------------------
(* The type invariant.                                                     *)

\* The stored pointers without those to nodes that are gone, and the pointers
\* the map is shown with, lead from live nodes to live nodes.
LEMMA ShownPoints ==
    ASSUME NEW d \in Docs
    PROVE  /\ d.live \in SUBSET Nat /\ IsFiniteSet(d.live) /\ Root \notin d.live
           /\ d.live \in SUBSET Nodes
           /\ Adopted(d) \in Pointers(d.live)
           /\ Shown(d) \in Pointers(d.live)
           /\ \A n \in d.live : Shown(d)[n] = IF n \in Cut(Adopted(d)) THEN Root ELSE Adopted(d)[n]
<1>1. d.live \in SUBSET Nodes
  BY DEF Docs
<1>2. d.live \in SUBSET Nat /\ IsFiniteSet(d.live) /\ Root \notin d.live
  BY <1>1, NodesAre
<1>3. Adopted(d) \in Pointers(d.live)
  BY DEF Adopted, Pointers
<1> DEFINE p == Adopted(d)
<1>4. Shown(d) = [n \in d.live |-> IF n \in Cut(p) THEN Root ELSE p[n]]
  BY DEF Shown
<1> HIDE DEF p
<1>5. Shown(d) \in Pointers(d.live)
  BY <1>3, <1>4 DEF Pointers, p
<1> QED BY <1>1, <1>2, <1>3, <1>4, <1>5 DEF p

\* A document without the nodes of a branch.
LEMMA WithoutIsTyped ==
    ASSUME NEW d \in Docs, NEW doomed \in SUBSET Nodes
    PROVE  Without(d, doomed) \in Docs
<1>1. <<>> \in Keys
  <2>1. <<>> \in Seq(Digits) /\ Len(<<>>) <= MaxKeyLen + 1
    BY TreeAssumption
  <2> QED BY <2>1, KeysAreSequences
<1>2. /\ d.live \ doomed \in SUBSET Nodes /\ d.gone \cup doomed \in SUBSET Nodes
      /\ [n \in Nodes |-> IF n \in doomed THEN Root ELSE d.parent[n]] \in [Nodes -> Nodes \cup {Root}]
      /\ [n \in Nodes |-> IF n \in doomed THEN <<>> ELSE d.order[n]] \in [Nodes -> Keys]
  BY <1>1 DEF Docs
<1> QED BY <1>2 DEF Docs, Without

\* What a caller of AddNodes sends.
LEMMA BatchesAre ==
    ASSUME NEW r, NEW batch \in Batches(r), doc[r] \in Docs
    PROVE  /\ batch \in Seq(Additions)
           /\ \A i \in 1..Len(batch) : /\ batch[i].node \in Unborn /\ batch[i].at \in Spots
                                       /\ batch[i].parent \in doc[r].live \cup {Root}
           /\ \A i \in 2..Len(batch) : batch[i].parent = batch[1].parent /\ batch[i].at = Unsaid
<1> DEFINE One == [node : Unborn, parent : doc[r].live \cup {Root}, at : Spots]
<1>1. /\ batch \in BoundedSeq(One, MaxGrow)
      /\ \A i \in 2..Len(batch) : batch[i].parent = batch[1].parent /\ batch[i].at = Unsaid
  BY DEF Batches
<1>2. MaxGrow \in Nat /\ MaxSpot \in Nat
  BY TreeAssumption
<1>3. PICK m \in 0..MaxGrow : batch \in [1..m -> One]
  BY <1>1 DEF BoundedSeq, SeqOf
<1>4. m \in Nat /\ batch \in Seq(One) /\ Len(batch) = m
  <2> HIDE DEF One
  <2>1. m \in Nat
    BY <1>2
  <2> QED BY <1>3, <2>1
<1>5. One \subseteq Additions
  <2>1. Unborn \subseteq Nodes /\ Spots \subseteq Int /\ doc[r].live \subseteq Nodes
    BY <1>2 DEF Unborn, Spots, Unsaid, Docs
  <2> QED BY <2>1 DEF Additions
<1>6. \A i \in 1..Len(batch) : batch[i] \in One
  BY <1>3, <1>4
<1>7. batch \in Seq(Additions)
  <2>1. \A i \in 1..m : batch[i] \in Additions
    BY <1>4, <1>5, <1>6
  <2>2. batch \in [1..m -> Additions]
    BY <1>3, <2>1
  <2> QED BY <1>4, <2>2
<1> QED BY <1>1, <1>6, <1>7

\* A batch put into a document leaves a document.
LEMMA PutIsTyped ==
    ASSUME NEW d \in Docs, NEW batch \in Seq(Additions)
    PROVE  Put(d, batch) \in Docs
<1>1. PICK put \in [0..Len(batch) -> Docs] : Put(d, batch) = put[Len(batch)]
  BY PutIs
<1>2. Len(batch) \in 0..Len(batch)
  OBVIOUS
<1> QED BY <1>1, <1>2

\* A replica of a map with other keys and other pointers.
LEMMA TwoFields ==
    ASSUME NEW d \in Docs, NEW x, NEW y
    PROVE  [d EXCEPT !.order = x, !.parent = y] =
             [live |-> d.live, gone |-> d.gone, parent |-> y, order |-> x]
<1> DEFINE e == [d EXCEPT !.order = x, !.parent = y]
<1>1. d = [live |-> d.live, gone |-> d.gone, parent |-> d.parent, order |-> d.order]
  BY DEF Docs
<1>2. e = [d EXCEPT !.order = x, !.parent = y]
  OBVIOUS
<1> HIDE DEF e
<1>3. e = [live |-> d.live, gone |-> d.gone, parent |-> y, order |-> x]
  BY <1>1, <1>2
<1> QED BY <1>2, <1>3

\* What an edit of one node does to the document.
LEMMA PatchIs ==
    ASSUME NEW r \in Replicas, NEW n \in Nodes, NEW parent \in Nodes \cup {Root, Unsaid},
           NEW at \in Spots, doc \in [Replicas -> Docs], PatchNode(r, n, parent, at)
    PROVE  LET d == doc[r]
               up == IF parent = Unsaid THEN Shown(d)[n] ELSE parent
               ring == RingWithout(d, Shown(d), up, n)
           IN  /\ doc' \in [Replicas -> Docs]
               /\ doc'[r].live = d.live /\ doc'[r].gone = d.gone
               /\ \A m \in Nodes :
                    /\ doc'[r].order[m] = IF m = n THEN OrderFor(d, ring, at) ELSE d.order[m]
                    /\ doc'[r].parent[m] = IF m = n /\ parent # Unsaid THEN parent ELSE d.parent[m]
<1> DEFINE d == doc[r]
           up == IF parent = Unsaid THEN Shown(d)[n] ELSE parent
           ring == RingWithout(d, Shown(d), up, n)
           key == OrderFor(d, ring, at)
           to == IF parent = Unsaid THEN d.parent[n] ELSE parent
           e == [live |-> d.live, gone |-> d.gone,
                 parent |-> [d.parent EXCEPT ![n] = to], order |-> [d.order EXCEPT ![n] = key]]
<1>1. d \in Docs
  OBVIOUS
<1>2. key \in Keys
  <2> DEFINE S == {m \in d.live \ {n} : Shown(d)[m] = up}
  <2>1. S \in SUBSET Nodes
    BY <1>1 DEF Docs
  <2>2. ring = InOrder(d, S)
    BY DEF RingWithout
  <2> HIDE DEF S, ring, d
  <2>3. InOrder(d, S) \in Seq(Nodes)
    BY <1>1, <2>1, InOrderIs
  <2>4. ring \in Seq(Nodes)
    BY <2>2, <2>3
  <2> QED BY <1>1, <2>4, OrderForIsKey
<1>3. to \in Nodes \cup {Root}
  BY <1>1 DEF Docs
<1>4. doc' = [doc EXCEPT ![r].order[n] = key, ![r].parent[n] = IF parent = Unsaid THEN @ ELSE parent]
  BY DEF PatchNode
<1> HIDE DEF key, ring, up
<1>5. doc' = [doc EXCEPT ![r] = e]
  <2>1. doc' = [doc EXCEPT ![r] = [d EXCEPT !.order = [d.order EXCEPT ![n] = key],
                                           !.parent = [d.parent EXCEPT ![n] = to]]]
    BY <1>4
  <2>3. [d EXCEPT !.order = [d.order EXCEPT ![n] = key],
                  !.parent = [d.parent EXCEPT ![n] = to]] = e
    <3> DEFINE x == [d.order EXCEPT ![n] = key]
               y == [d.parent EXCEPT ![n] = to]
    <3> HIDE DEF d, x, y
    <3>1. [d EXCEPT !.order = x, !.parent = y] =
            [live |-> d.live, gone |-> d.gone, parent |-> y, order |-> x]
      BY <1>1, TwoFields
    <3> QED BY <3>1 DEF x, y
  <2> QED BY <2>1, <2>3
<1>6. e \in Docs
  <2>1. /\ d.live \in SUBSET Nodes /\ d.gone \in SUBSET Nodes
        /\ [d.parent EXCEPT ![n] = to] \in [Nodes -> Nodes \cup {Root}]
        /\ [d.order EXCEPT ![n] = key] \in [Nodes -> Keys]
    BY <1>1, <1>2, <1>3 DEF Docs
  <2> QED BY <2>1 DEF Docs
<1>7. doc'[r] = e /\ doc' \in [Replicas -> Docs]
  BY <1>5, <1>6
<1>8. \A m \in Nodes : /\ e.order[m] = IF m = n THEN key ELSE d.order[m]
                       /\ e.parent[m] = IF m = n /\ parent # Unsaid THEN parent ELSE d.parent[m]
  BY <1>1 DEF Docs
<1>9. e.live = d.live /\ e.gone = d.gone
  OBVIOUS
<1> HIDE DEF e, d
<1> QED BY <1>7, <1>8, <1>9 DEF key, ring, up, d

\* The type invariant holds in every reachable state: whatever is put, moved,
\* deleted and merged, what a replica stores of a map is a node's parent and a
\* key that is a few digits long.
THEOREM MapsAreTyped == TreeSpec => []TreeTypeOK
<1> USE DEF TreeTypeOK
<1>0. /\ MaxEdits \in Nat /\ \E r \in Replicas : TRUE
      /\ Unsaid \in Spots
  <2>1. Cardinality(Replicas) = 2 /\ MaxEdits \in Nat
    BY TreeAssumption
  <2>2. Replicas # {}
    BY <2>1, FS_EmptySet
  <2> QED BY <2>1, <2>2 DEF Spots
<1>1. NoAim \in [by : Replicas, node : Nodes \cup {Root}, at : Spots]
  <2>1. (CHOOSE r \in Replicas : TRUE) \in Replicas
    BY <1>0
  <2> QED BY <1>0, <2>1 DEF NoAim
<1>2. TreeInit => TreeTypeOK
  BY <1>0, <1>1, SeedIsTyped DEF TreeInit, Docs
<1>3. TreeTypeOK /\ [TreeNext]_treeVars => TreeTypeOK'
  <2> SUFFICES ASSUME TreeTypeOK, TreeNext \/ UNCHANGED treeVars PROVE TreeTypeOK'
    OBVIOUS
  <2>0. /\ doc \in [Replicas -> Docs] /\ fresh \in [Replicas -> SUBSET Registers]
        /\ edits \in 0..MaxEdits
    BY DEF Docs
  <2>1. ASSUME NEW r \in Replicas, NEW batch \in Batches(r), AddNodes(r, batch)
        PROVE  TreeTypeOK'
    <3>1. /\ batch \in Seq(Additions) /\ Len(batch) \in 1..Len(batch)
          /\ \A i \in 1..Len(batch) : batch[i].node \in Unborn /\ batch[i].at \in Spots
      <4>1. Len(batch) \in 1..MaxGrow
        BY <2>1 DEF AddNodes
      <4>2. Len(batch) \in 1..Len(batch)
        BY <4>1, TreeAssumption
      <4> QED BY <2>0, <2>1, <4>2, BatchesAre
    <3>2. doc' \in [Replicas -> Docs]
      <4>1. Put(doc[r], batch) \in Docs
        BY <2>0, <3>1, PutIsTyped
      <4> QED BY <2>0, <2>1, <4>1 DEF AddNodes
    <3>3. fresh' \in [Replicas -> SUBSET Registers]
      <4>1. {batch[i].node : i \in DOMAIN batch} \subseteq Nodes
        <5>1. DOMAIN batch = 1..Len(batch) /\ Unborn \subseteq Nodes
          BY <3>1 DEF Unborn
        <5>2. \A i \in DOMAIN batch : batch[i].node \in Nodes
          BY <3>1, <5>1
        <5> QED BY <5>2
      <4> QED BY <2>0, <2>1, <4>1 DEF AddNodes, Registers
    <3>4. edits' \in 0..MaxEdits
      BY <1>0, <2>0, <2>1 DEF AddNodes
    <3>5. aim' \in [by : Replicas, node : Nodes \cup {Root}, at : Spots]
      BY <2>1, <3>1 DEF AddNodes, Last, Unborn
    <3> QED BY <3>2, <3>3, <3>4, <3>5 DEF Docs
  <2>2. ASSUME NEW r \in Replicas, NEW n \in Nodes, NEW parent \in Nodes \cup {Root, Unsaid},
               NEW at \in Spots, PatchNode(r, n, parent, at)
        PROVE  TreeTypeOK'
    <3>1. doc' \in [Replicas -> Docs]
      BY <2>0, <2>2, PatchIs
    <3>2. fresh' \in [Replicas -> SUBSET Registers]
      BY <2>0, <2>2 DEF PatchNode, Registers
    <3>3. edits' \in 0..MaxEdits
      BY <1>0, <2>0, <2>2 DEF PatchNode
    <3>4. aim' \in [by : Replicas, node : Nodes \cup {Root}, at : Spots]
      BY <2>2 DEF PatchNode
    <3> QED BY <3>1, <3>2, <3>3, <3>4 DEF Docs
  <2>3. ASSUME NEW r \in Replicas, NEW n \in Nodes, DeleteNode(r, n) PROVE TreeTypeOK'
    <3>1. Subtree(Shown(doc[r]), n) \in SUBSET Nodes
      <4>1. doc[r] \in Docs
        BY <2>0
      <4>2. DOMAIN Shown(doc[r]) \in SUBSET Nodes
        BY <4>1, ShownPoints DEF Pointers
      <4> QED BY <4>2 DEF Subtree
    <3>2. doc' \in [Replicas -> Docs]
      <4>1. Without(doc[r], Subtree(Shown(doc[r]), n)) \in Docs
        BY <2>0, <3>1, WithoutIsTyped
      <4> QED BY <2>0, <2>3, <4>1 DEF DeleteNode
    <3>3. fresh' \in [Replicas -> SUBSET Registers]
      BY <2>0, <2>3 DEF DeleteNode, Registers
    <3>4. edits' \in 0..MaxEdits
      BY <1>0, <2>0, <2>3 DEF DeleteNode
    <3> QED BY <1>1, <2>3, <3>2, <3>3, <3>4 DEF Docs, DeleteNode
  <2>4. ASSUME NEW r \in Replicas, NEW s \in Replicas, Deliver(r, s) PROVE TreeTypeOK'
    <3>1. PICK wins \in SUBSET (fresh[r] \cap fresh[s]) :
            LET taken == (fresh[r] \ fresh[s]) \cup wins
                dead == doc[r].gone \cup doc[s].gone
                Mixed(field) ==
                  [m \in Nodes |-> IF <<m, field>> \in taken THEN doc[r][field][m]
                                   ELSE doc[s][field][m]]
                merged == [live |-> doc[r].live \cup doc[s].live, gone |-> doc[s].gone,
                           parent |-> Mixed("parent"), order |-> Mixed("order")]
            IN  /\ doc' = [doc EXCEPT ![s] = Without(merged, dead)]
                /\ fresh' = [fresh EXCEPT ![r] = {},
                                          ![s] = @ \ (taken \cup (dead \X {"parent", "order"}))]
                /\ aim' = NoAim /\ UNCHANGED edits
      BY <2>4 DEF Deliver
    <3> DEFINE taken == (fresh[r] \ fresh[s]) \cup wins
               dead == doc[r].gone \cup doc[s].gone
               parents == [m \in Nodes |-> IF <<m, "parent">> \in taken THEN doc[r].parent[m]
                                            ELSE doc[s].parent[m]]
               orders == [m \in Nodes |-> IF <<m, "order">> \in taken THEN doc[r].order[m]
                                           ELSE doc[s].order[m]]
               merged == [live |-> doc[r].live \cup doc[s].live, gone |-> doc[s].gone,
                          parent |-> parents, order |-> orders]
    <3>2. doc' = [doc EXCEPT ![s] = Without(merged, dead)]
      BY <3>1
    <3>3. fresh' = [fresh EXCEPT ![r] = {},
                                 ![s] = @ \ (taken \cup (dead \X {"parent", "order"}))]
      BY <3>1
    <3>4. merged \in Docs /\ dead \in SUBSET Nodes
      <4>1. doc[r] \in Docs /\ doc[s] \in Docs
        BY <2>0
      <4>2. parents \in [Nodes -> Nodes \cup {Root}] /\ orders \in [Nodes -> Keys]
        BY <4>1 DEF Docs
      <4> HIDE DEF parents, orders
      <4> QED BY <4>1, <4>2 DEF Docs
    <3> HIDE DEF merged, dead, taken
    <3>5. doc' \in [Replicas -> Docs]
      BY <2>0, <3>2, <3>4, WithoutIsTyped
    <3>6. fresh' \in [Replicas -> SUBSET Registers]
      BY <2>0, <3>3
    <3> QED BY <1>1, <3>1, <3>5, <3>6 DEF Docs
  <2>5. CASE UNCHANGED treeVars
    BY <2>5 DEF treeVars
  <2> QED BY <2>1, <2>2, <2>3, <2>4, <2>5 DEF TreeNext
<1> QED BY <1>2, <1>3, PTL DEF TreeSpec

\* Whatever two replicas did to each other's branches, every live node of either
\* is shown once, under the root or a live node, in a tree without loops.
THEOREM EveryNodeIsShown == TreeSpec => []TreeIsWhole
<1>1. TreeTypeOK => TreeIsWhole
  <2> SUFFICES ASSUME TreeTypeOK, NEW r \in Replicas, NEW n \in doc[r].live
               PROVE  /\ Shown(doc[r])[n] \in doc[r].live \cup {Root}
                      /\ n \notin Above(Shown(doc[r]), n)
    BY DEF TreeIsWhole
  <2> DEFINE d == doc[r]
  <2>1. d \in Docs
    BY DEF TreeTypeOK, Docs
  <2> HIDE DEF d
  <2>2. /\ d.live \in SUBSET Nat /\ IsFiniteSet(d.live) /\ Root \notin d.live
        /\ Adopted(d) \in Pointers(d.live)
        /\ Shown(d) \in Pointers(d.live)
        /\ \A x \in d.live : Shown(d)[x] = IF x \in Cut(Adopted(d)) THEN Root ELSE Adopted(d)[x]
    BY <2>1, ShownPoints
  <2>3. n \in d.live
    BY DEF d
  <2>4. n \notin Above(Shown(d), n)
    BY <2>2, <2>3, CutBreaksLoops
  <2>5. Shown(d)[n] \in d.live \cup {Root}
    BY <2>2, <2>3 DEF Pointers
  <2> QED BY <2>4, <2>5 DEF d
<1> QED BY <1>1, MapsAreTyped, PTL

-----------------------------------------------------------------------------
(* What lies above a node when a branch moves.                             *)

\* The walk upwards takes as many steps as it needs: what lies above a node is
\* closed under going up.
LEMMA AboveIsClosed ==
    ASSUME NEW L \in SUBSET Nat, IsFiniteSet(L), Root \notin L,
           NEW p \in Pointers(L), NEW n \in L
    PROVE  \A x \in Above(p, n) : x \in L /\ p[x] \in Above(p, n) \cup {Root}
<1> DEFINE bound == Cardinality(L)
           c == Climb(p, n)
<1>1. /\ bound \in Nat
      /\ c \in [0..bound -> L \cup {Root}]
      /\ c[0] = p[n]
      /\ \A k \in 0..bound : k < bound => c[k + 1] = IF c[k] = Root THEN Root ELSE p[c[k]]
      /\ Above(p, n) = {c[k] : k \in 0..bound} \ {Root}
  BY ClimbSteps
<1> HIDE DEF c
<1> SUFFICES ASSUME NEW x \in Above(p, n)
             PROVE  x \in L /\ p[x] \in Above(p, n) \cup {Root}
  OBVIOUS
<1>2. x \in L
  BY AboveIsIn
<1>3. PICK k \in 0..bound : c[k] = x /\ x # Root
  BY <1>1
<1>4. CASE k < bound
  <2>1. k + 1 \in 0..bound /\ c[k + 1] = p[x]
    BY <1>1, <1>3, <1>4
  <2> HIDE DEF bound
  <2> QED BY <1>1, <1>2, <2>1
\* After as many steps as there are nodes one was met twice.
<1>5. CASE ~(k < bound)
  <2>1. k = bound
    BY <1>1, <1>5
  <2>2. \A j \in 0..bound : c[j] \in L
    <3> SUFFICES ASSUME NEW j \in 0..bound, c[j] \notin L PROVE FALSE
      OBVIOUS
    <3> DEFINE T == {i \in 0..bound : j <= i => c[i] = Root} \cup {i \in 0..bound : i < j}
    <3>0. c[j] = Root
      BY <1>1
    <3>1. 0 \in T
      <4> HIDE DEF bound
      <4> QED BY <1>1, <3>0
    <3>2. ASSUME NEW i \in 0..bound, i \in T, i < bound PROVE i + 1 \in T
      <4>1. i + 1 \in 0..bound /\ c[i + 1] = IF c[i] = Root THEN Root ELSE p[c[i]]
        BY <1>1, <3>2
      <4> HIDE DEF bound
      <4>2. CASE i + 1 < j
        BY <4>1, <4>2
      <4>3. CASE i + 1 = j
        BY <3>0, <4>1, <4>3
      <4>4. CASE i + 1 > j
        BY <3>2, <4>1, <4>4
      <4> QED BY <4>2, <4>3, <4>4
    <3> HIDE DEF T
    <3>3. \A i \in 0..bound : i \in T
      BY <1>1, <3>1, <3>2, StepByStep
    <3>4. bound \in T
      BY <1>1, <3>3
    <3>5. j <= bound /\ ~(bound < j)
      BY <1>1
    <3> HIDE DEF bound
    <3>6. c[bound] = Root
      BY <3>4, <3>5 DEF T
    <3> QED BY <1>3, <2>1, <3>6
  <2>3. c \in [0..bound -> L]
    BY <1>1, <2>2
  <2>4. IsFiniteSet(0..bound) /\ Cardinality(0..bound) = bound + 1
    BY <1>1, FS_Interval
  <2>5. \E i, j \in 0..bound : i # j /\ c[i] = c[j]
    <3>1. Cardinality(L) < Cardinality(0..bound)
      BY <1>1, <2>4
    <3> QED BY <2>3, <2>4, <3>1, FS_PigeonHole
  <2>6. PICK i \in 0..bound, j \in 0..bound : i < j /\ c[i] = c[j]
    BY <1>1, <2>5
  <2> DEFINE T == {c[m] : m \in 0..(j - 1)}
  <2>7. c[0] \in T
    BY <2>6
  <2>8. \A y \in T : p[y] \in T
    <3> SUFFICES ASSUME NEW m \in 0..(j - 1) PROVE p[c[m]] \in T
      OBVIOUS
    <3>1. m \in 0..bound /\ m < bound /\ c[m + 1] = p[c[m]]
      <4>1. m \in 0..bound /\ m < bound
        BY <1>1, <2>6
      <4>2. c[m] # Root
        BY <2>2, <4>1
      <4> QED BY <1>1, <4>1, <4>2
    <3>2. CASE m + 1 = j
      <4>1. p[c[m]] = c[i] /\ i \in 0..(j - 1)
        <5> HIDE DEF bound
        <5> QED BY <1>1, <2>6, <3>1, <3>2
      <4> QED BY <4>1
    <3>3. CASE m + 1 # j
      <4>1. m + 1 \in 0..(j - 1)
        <5> HIDE DEF bound
        <5> QED BY <1>1, <2>6, <3>3
      <4> QED BY <3>1, <4>1
    <3> QED BY <3>2, <3>3
  <2> HIDE DEF T
  <2>9. Above(p, n) \subseteq T
    <3>1. p[n] \in T \cup {Root} /\ \A y \in T \cap L : p[y] \in T \cup {Root}
      BY <1>1, <2>7, <2>8
    <3> QED BY <3>1, AboveStaysIn
  <2>10. PICK m \in 0..(j - 1) : x = c[m]
    BY <2>9 DEF T
  <2>11. m \in 0..bound /\ m < bound
    BY <1>1, <2>6
  <2>12. m + 1 \in 0..bound /\ c[m + 1] = p[x]
    BY <1>1, <1>3, <2>10, <2>11
  <2> HIDE DEF bound
  <2> QED BY <1>1, <1>2, <2>12
<1> QED BY <1>4, <1>5

\* What lies above a node is its parent and what lies above that; and what lies
\* above something above it lies above it.
LEMMA AboveIs ==
    ASSUME NEW L \in SUBSET Nat, IsFiniteSet(L), Root \notin L,
           NEW p \in Pointers(L), NEW n \in L
    PROVE  /\ p[n] = Root => Above(p, n) = {}
           /\ p[n] # Root => p[n] \in L /\ Above(p, n) = {p[n]} \cup Above(p, p[n])
           /\ \A x \in Above(p, n) : x \in L /\ Above(p, x) \subseteq Above(p, n)
<1>1. ASSUME p[n] = Root PROVE Above(p, n) = {}
  <2>1. p[n] \in {} \cup {Root} /\ \A x \in {} \cap L : p[x] \in {} \cup {Root}
    BY <1>1
  <2>2. Above(p, n) \subseteq {}
    BY <2>1, AboveStaysIn
  <2> QED BY <2>2
<1>2. ASSUME NEW x \in Above(p, n) PROVE x \in L /\ Above(p, x) \subseteq Above(p, n)
  <2>1. x \in L /\ p[x] \in Above(p, n) \cup {Root}
    BY AboveIsClosed
  <2>2. \A y \in Above(p, n) \cap L : p[y] \in Above(p, n) \cup {Root}
    BY AboveIsClosed
  <2>3. Above(p, x) \subseteq Above(p, n)
    BY <2>1, <2>2, AboveStaysIn
  <2> QED BY <2>1, <2>3
<1>3. ASSUME p[n] # Root PROVE p[n] \in L /\ Above(p, n) = {p[n]} \cup Above(p, p[n])
  <2>1. p[n] \in Above(p, n) /\ p[n] \in L
    BY <1>3, AboveIsIn DEF Pointers
  <2>2. {p[n]} \cup Above(p, p[n]) \subseteq Above(p, n)
    BY <1>2, <2>1
  <2> DEFINE S == {p[n]} \cup Above(p, p[n])
  <2>3. \A x \in S \cap L : p[x] \in S \cup {Root}
    <3>1. p[p[n]] \in S \cup {Root}
      BY <2>1, AboveIsIn
    <3>2. \A x \in Above(p, p[n]) : p[x] \in S \cup {Root}
      BY <2>1, AboveIsClosed
    <3> QED BY <3>1, <3>2
  <2>4. p[n] \in S \cup {Root}
    OBVIOUS
  <2> HIDE DEF S
  <2>5. Above(p, n) \subseteq S
    BY <2>3, <2>4, AboveStaysIn
  <2> QED BY <2>1, <2>2, <2>5 DEF S
<1> QED BY <1>1, <1>2, <1>3

\* No node of L lies above itself.
Loopless(L, p) == \A m \in L : m \notin Above(p, m)

\* q is p with n moved under `to', which does not lie below n.
Turned(L, p, n, to, q) ==
    /\ \A m \in L : q[m] = IF m = n THEN to ELSE p[m]
    /\ to # Root => to # n /\ n \notin Above(p, to)

\* `to' and what lies above it.
Stem(p, to) == IF to = Root THEN {} ELSE {to} \cup Above(p, to)

\* The stem of the new parent is closed under going up, and the moved node is
\* not in it.
LEMMA StemIs ==
    ASSUME NEW L \in SUBSET Nat, IsFiniteSet(L), Root \notin L, NEW p \in Pointers(L),
           NEW to \in L \cup {Root}
    PROVE  /\ Stem(p, to) \subseteq L
           /\ to \in Stem(p, to) \cup {Root}
           /\ \A x \in Stem(p, to) : p[x] \in Stem(p, to) \cup {Root}
           /\ \A x \in Stem(p, to) : Above(p, x) \subseteq Stem(p, to)
<1>1. CASE to = Root
  BY <1>1 DEF Stem
<1>2. CASE to # Root
  <2>1. to \in L /\ Stem(p, to) = {to} \cup Above(p, to)
    BY <1>2 DEF Stem
  <2>2. Above(p, to) \subseteq L /\ (p[to] # Root => p[to] \in Above(p, to))
    BY <2>1, AboveIsIn
  <2>3. \A x \in Above(p, to) : p[x] \in Above(p, to) \cup {Root}
    BY <2>1, AboveIsClosed
  <2>4. \A x \in Above(p, to) : Above(p, x) \subseteq Above(p, to)
    BY <2>1, AboveIs
  <2> QED BY <2>1, <2>2, <2>3, <2>4
<1> QED BY <1>1, <1>2

\* Of two nodes above a third one lies above the other.
LEMMA AboveIsALine ==
    ASSUME NEW L \in SUBSET Nat, IsFiniteSet(L), Root \notin L, NEW p \in Pointers(L),
           NEW m \in L
    PROVE  \A n \in Above(p, m) : \A x \in Above(p, m) :
             x = n \/ x \in Above(p, n) \/ n \in Above(p, x)
<1> SUFFICES ASSUME NEW n \in Above(p, m), NEW y \in Above(p, m)
             PROVE  y = n \/ y \in Above(p, n) \/ n \in Above(p, y)
  OBVIOUS
<1> DEFINE S == {x \in L : x = n \/ x \in Above(p, n) \/ n \in Above(p, x)}
<1>1. n \in L /\ y \in L /\ Above(p, m) \subseteq L
  BY AboveIsIn
<1>2. p[m] \in S \cup {Root}
  <2>1. CASE p[m] = Root
    BY <2>1
  <2>2. CASE p[m] # Root
    <3>1. p[m] \in L /\ Above(p, m) = {p[m]} \cup Above(p, p[m])
      BY <2>2, AboveIs
    <3> QED BY <3>1
  <2> QED BY <2>1, <2>2
<1>3. \A x \in S \cap L : p[x] \in S \cup {Root}
  <2> SUFFICES ASSUME NEW x \in S, p[x] # Root PROVE p[x] \in S
    OBVIOUS
  <2>1. x \in L /\ p[x] \in L /\ Above(p, x) = {p[x]} \cup Above(p, p[x])
    BY AboveIs
  <2>2. CASE x = n
    BY <2>1, <2>2
  <2>3. CASE x \in Above(p, n)
    <3>1. p[x] \in Above(p, n)
      BY <1>1, <2>3, AboveIsClosed
    <3> QED BY <2>1, <3>1
  <2>4. CASE n \in Above(p, x)
    BY <2>1, <2>4
  <2> QED BY <2>2, <2>3, <2>4
<1> HIDE DEF S
<1>4. Above(p, m) \subseteq S
  BY <1>2, <1>3, AboveStaysIn
<1> QED BY <1>4 DEF S

\* What lies above a node after a branch moved: above the moved node the stem of
\* its new parent; above what hangs below it what was between, itself, and that
\* stem; above every other node what was there.
LEMMA AboveOfTurned ==
    ASSUME NEW L \in SUBSET Nat, IsFiniteSet(L), Root \notin L,
           NEW p \in Pointers(L), NEW q \in Pointers(L), NEW n \in L, NEW to \in L \cup {Root}
    PROVE  Loopless(L, p) /\ Turned(L, p, n, to, q) =>
             /\ n \notin Stem(p, to)
             /\ Above(q, n) \subseteq Stem(p, to)
             /\ \A m \in L \ {n} : n \notin Above(p, m) => Above(q, m) \subseteq Above(p, m)
             /\ \A m \in L \ {n} : n \in Above(p, m) =>
                  Above(q, m) \subseteq (Above(p, m) \ Above(p, n)) \cup Stem(p, to)
<1>1. /\ Stem(p, to) \subseteq L
      /\ to \in Stem(p, to) \cup {Root}
      /\ \A x \in Stem(p, to) : p[x] \in Stem(p, to) \cup {Root}
  BY StemIs
<1>2. \A m \in L : Above(p, m) \subseteq L
  BY AboveIsIn
<1> SUFFICES ASSUME Loopless(L, p), Turned(L, p, n, to, q)
             PROVE  /\ n \notin Stem(p, to)
                    /\ Above(q, n) \subseteq Stem(p, to)
                    /\ \A m \in L \ {n} : n \notin Above(p, m) => Above(q, m) \subseteq Above(p, m)
                    /\ \A m \in L \ {n} : n \in Above(p, m) =>
                         Above(q, m) \subseteq (Above(p, m) \ Above(p, n)) \cup Stem(p, to)
  OBVIOUS
<1>3. n \notin Stem(p, to)
  BY DEF Turned, Stem
<1>4. q[n] = to /\ \A m \in L \ {n} : q[m] = p[m]
  BY DEF Turned
<1>5. Above(q, n) \subseteq Stem(p, to)
  <2>1. q[n] \in Stem(p, to) \cup {Root}
    BY <1>1, <1>4
  <2>2. \A x \in Stem(p, to) \cap L : q[x] \in Stem(p, to) \cup {Root}
    BY <1>1, <1>3, <1>4
  <2> QED BY <2>1, <2>2, AboveStaysIn
<1>6. ASSUME NEW m \in L \ {n}, n \notin Above(p, m) PROVE Above(q, m) \subseteq Above(p, m)
  <2>1. q[m] \in Above(p, m) \cup {Root}
    BY <1>4, AboveIsIn
  <2>2. \A x \in Above(p, m) : p[x] \in Above(p, m) \cup {Root}
    BY AboveIsClosed
  <2>3. \A x \in Above(p, m) \cap L : q[x] \in Above(p, m) \cup {Root}
    BY <1>4, <1>6, <2>2
  <2> QED BY <2>1, <2>3, AboveStaysIn
<1>7. ASSUME NEW m \in L \ {n}, n \in Above(p, m)
      PROVE  Above(q, m) \subseteq (Above(p, m) \ Above(p, n)) \cup Stem(p, to)
  <2> DEFINE S == (Above(p, m) \ Above(p, n)) \cup Stem(p, to)
\* Going up to n from below stays below n until n is met.
  <2>1. ASSUME NEW x \in L, n \in Above(p, x) PROVE p[x] # Root /\ p[x] \notin Above(p, n)
    <3>1. p[x] # Root
      BY <2>1, AboveIs
    <3>2. p[x] \in L /\ Above(p, x) = {p[x]} \cup Above(p, p[x])
      BY <3>1, AboveIs
    <3>3. p[x] \in Above(p, n) => Above(p, p[x]) \subseteq Above(p, n)
      BY AboveIs
    <3>4. n \notin Above(p, n)
      BY DEF Loopless
    <3> QED BY <2>1, <3>1, <3>2, <3>3, <3>4
  <2>2. q[m] \in S
    <3>1. p[m] # Root /\ p[m] \notin Above(p, n)
      BY <1>7, <2>1
    <3>2. p[m] \in Above(p, m)
      BY <3>1, AboveIsIn
    <3> QED BY <1>4, <3>1, <3>2
  <2>3. \A x \in S \cap L : q[x] \in S \cup {Root}
    <3> SUFFICES ASSUME NEW x \in S, x \in L PROVE q[x] \in S \cup {Root}
      OBVIOUS
    <3>1. CASE x \in Stem(p, to)
      BY <1>1, <1>3, <1>4, <3>1
    <3>2. CASE x = n
      BY <1>1, <1>4, <3>2
    <3>3. CASE x \in Above(p, m) /\ x \notin Above(p, n) /\ x # n
      <4>1. n \in Above(p, x)
        BY <1>7, <3>3, AboveIsALine
      <4>2. p[x] # Root /\ p[x] \notin Above(p, n)
        BY <2>1, <4>1
      <4>3. p[x] \in Above(p, m)
        BY <3>3, <4>2, AboveIsClosed
      <4> QED BY <1>4, <3>3, <4>2, <4>3
    <3> QED BY <3>1, <3>2, <3>3
  <2> HIDE DEF S
  <2>4. Above(q, m) \subseteq S
    BY <2>2, <2>3, AboveStaysIn
  <2> QED BY <2>4 DEF S
<1> QED BY <1>3, <1>5, <1>6, <1>7

\* Moving a branch under a node that is not of it closes no loop.
LEMMA TurnedIsLoopless ==
    ASSUME NEW L \in SUBSET Nat, IsFiniteSet(L), Root \notin L,
           NEW p \in Pointers(L), NEW q \in Pointers(L), NEW n \in L, NEW to \in L \cup {Root},
           Loopless(L, p), Turned(L, p, n, to, q)
    PROVE  Loopless(L, q)
<1>1. /\ n \notin Stem(p, to)
      /\ Above(q, n) \subseteq Stem(p, to)
      /\ \A m \in L \ {n} : n \notin Above(p, m) => Above(q, m) \subseteq Above(p, m)
      /\ \A m \in L \ {n} : n \in Above(p, m) =>
           Above(q, m) \subseteq (Above(p, m) \ Above(p, n)) \cup Stem(p, to)
  BY AboveOfTurned
<1>2. \A x \in Stem(p, to) : Above(p, x) \subseteq Stem(p, to)
  BY StemIs
<1>3. \A m \in L : m \notin Above(p, m)
  BY DEF Loopless
<1>4. \A m \in L : m \notin Above(q, m)
  BY <1>1, <1>2, <1>3
<1> QED BY <1>4 DEF Loopless

-----------------------------------------------------------------------------
(* How deep nodes are.                                                     *)

\* What lies above a node is finite.
LEMMA AboveIsFinite ==
    ASSUME NEW L \in SUBSET Nat, IsFiniteSet(L), Root \notin L,
           NEW p \in Pointers(L), NEW n \in L
    PROVE  IsFiniteSet(Above(p, n)) /\ Cardinality(Above(p, n)) \in Nat
<1>1. Above(p, n) \in SUBSET L
  BY AboveIsIn
<1>2. IsFiniteSet(Above(p, n))
  BY <1>1, FS_Subset
<1> QED BY <1>2, FS_CardinalityType

\* A depth up to the cap counts the nodes above.
LEMMA DepthIs ==
    ASSUME NEW L \in SUBSET Nat, IsFiniteSet(L), Root \notin L,
           NEW p \in Pointers(L), NEW n \in L
    PROVE  /\ DepthOf(p, n) \in 0..(MaxDepth + 2)
           /\ DepthOf(p, n) <= MaxDepth <=> Cardinality(Above(p, n)) + 1 <= MaxDepth
           /\ DepthOf(p, n) <= MaxDepth => DepthOf(p, n) = Cardinality(Above(p, n)) + 1
<1>1. Cardinality(Above(p, n)) \in Nat
  BY AboveIsFinite
<1>2. MaxDepth \in Nat
  BY TreeAssumption
<1> QED BY <1>1, <1>2 DEF DepthOf

\* No node of a branch is further below its top than the branch is high.
LEMMA HeightIs ==
    ASSUME NEW L \in SUBSET Nat, IsFiniteSet(L), Root \notin L,
           NEW p \in Pointers(L), NEW n \in L
    PROVE  /\ Height(p, n) \in Int
           /\ Height(p, n) >= 0
           /\ \A m \in Subtree(p, n) : m \in L /\ DepthOf(p, m) <= DepthOf(p, n) + Height(p, n)
<1> DEFINE D == {DepthOf(p, m) : m \in Subtree(p, n)}
           top == CHOOSE x \in D : \A y \in D : x >= y
           bound == MaxDepth + 2
<1>1. n \in Subtree(p, n) /\ \A m \in Subtree(p, n) : m \in L
  BY DEF Subtree, Pointers
<1>2. bound \in Nat
  BY TreeAssumption
<1>3. \A m \in L : DepthOf(p, m) \in 0..bound
  BY DepthIs
<1>4. Height(p, n) = top - DepthOf(p, n)
  BY DEF Height, Max
<1>5. D \in SUBSET (0..bound) /\ D # {}
  BY <1>1, <1>3
<1>6. \A m \in Subtree(p, n) : DepthOf(p, m) \in D
  OBVIOUS
<1> HIDE DEF bound
<1>7. top \in D /\ \A y \in D : top >= y
  <2> HIDE DEF D
  <2>1. \E x \in D : \A y \in D : x >= y
    BY <1>2, <1>5, GreatestExists
  <2> QED BY <2>1
<1> HIDE DEF top, D
<1>8. top \in Int /\ \A m \in Subtree(p, n) : DepthOf(p, m) \in Int /\ top >= DepthOf(p, m)
  <2>1. D \subseteq Int /\ top \in Int
    BY <1>2, <1>5, <1>7
  <2>2. \A m \in Subtree(p, n) : DepthOf(p, m) \in Int
    BY <1>2, <1>6, <2>1
  <2> QED BY <1>6, <1>7, <2>1, <2>2
<1> QED BY <1>1, <1>4, <1>8

\* Moving a branch of a tree that keeps to the cap leaves a tree that does, if
\* the branch fits under its new parent.
LEMMA DepthOfTurned ==
    ASSUME NEW L \in SUBSET Nat, IsFiniteSet(L), Root \notin L,
           NEW p \in Pointers(L), NEW q \in Pointers(L), NEW n \in L, NEW to \in L \cup {Root},
           Loopless(L, p), Turned(L, p, n, to, q),
           to # Root => DepthOf(p, to) + 1 + Height(p, n) <= MaxDepth
    PROVE  (\A m \in L : DepthOf(p, m) <= MaxDepth) => \A m \in L : DepthOf(q, m) <= MaxDepth
<1>1. /\ n \notin Stem(p, to)
      /\ Above(q, n) \subseteq Stem(p, to)
      /\ \A m \in L \ {n} : n \notin Above(p, m) => Above(q, m) \subseteq Above(p, m)
      /\ \A m \in L \ {n} : n \in Above(p, m) =>
           Above(q, m) \subseteq (Above(p, m) \ Above(p, n)) \cup Stem(p, to)
  BY AboveOfTurned
<1>2. /\ Height(p, n) \in Int /\ Height(p, n) >= 0
      /\ \A m \in Subtree(p, n) : DepthOf(p, m) <= DepthOf(p, n) + Height(p, n)
  BY HeightIs
<1>3. \A m \in L :
        /\ DepthOf(p, m) \in 0..(MaxDepth + 2)
        /\ DepthOf(p, m) <= MaxDepth => DepthOf(p, m) = Cardinality(Above(p, m)) + 1
        /\ DepthOf(q, m) <= MaxDepth <=> Cardinality(Above(q, m)) + 1 <= MaxDepth
  BY DepthIs
<1>4. MaxDepth \in Nat /\ MaxDepth >= 1
  BY TreeAssumption
<1>5. \A m \in L : /\ IsFiniteSet(Above(p, m)) /\ Cardinality(Above(p, m)) \in Nat
                   /\ IsFiniteSet(Above(q, m)) /\ Cardinality(Above(q, m)) \in Nat
  BY AboveIsFinite
<1>6. /\ IsFiniteSet(Stem(p, to)) /\ Cardinality(Stem(p, to)) \in Nat
      /\ to = Root => Cardinality(Stem(p, to)) = 0
      /\ to # Root => Cardinality(Stem(p, to)) <= Cardinality(Above(p, to)) + 1
  <2>1. CASE to = Root
    BY <2>1, FS_EmptySet DEF Stem
  <2>2. CASE to # Root
    <3>1. to \in L /\ Stem(p, to) = Above(p, to) \cup {to}
      BY <2>2 DEF Stem
    <3>2. /\ IsFiniteSet(Above(p, to) \cup {to})
          /\ Cardinality(Above(p, to) \cup {to}) =
               IF to \in Above(p, to) THEN Cardinality(Above(p, to)) ELSE Cardinality(Above(p, to)) + 1
      BY <1>5, <3>1, FS_AddElement
    <3> QED BY <1>5, <2>2, <3>1, <3>2
  <2> QED BY <2>1, <2>2
<1>7. \A m \in L : m \in Subtree(p, n) <=> m = n \/ n \in Above(p, m)
  BY DEF Subtree, Pointers
<1> SUFFICES ASSUME \A m \in L : DepthOf(p, m) <= MaxDepth, NEW m \in L
             PROVE  Cardinality(Above(q, m)) + 1 <= MaxDepth
  BY <1>3
<1>8. /\ DepthOf(p, m) = Cardinality(Above(p, m)) + 1
      /\ DepthOf(p, n) = Cardinality(Above(p, n)) + 1
      /\ to # Root => DepthOf(p, to) = Cardinality(Above(p, to)) + 1
  BY <1>3
<1>9. to # Root => Cardinality(Stem(p, to)) + 1 + Height(p, n) <= MaxDepth
  <2> SUFFICES ASSUME to # Root PROVE Cardinality(Stem(p, to)) + 1 + Height(p, n) <= MaxDepth
    OBVIOUS
  <2>1. to \in L
    OBVIOUS
  <2> QED BY <1>2, <1>4, <1>5, <1>6, <1>8, <2>1
<1>10. CASE m = n
  <2>1. Cardinality(Above(q, m)) <= Cardinality(Stem(p, to))
    BY <1>1, <1>6, <1>10, FS_Subset
  <2> QED BY <1>2, <1>4, <1>5, <1>6, <1>9, <2>1
<1>11. CASE m # n /\ n \notin Above(p, m)
  <2>1. Cardinality(Above(q, m)) <= Cardinality(Above(p, m))
    BY <1>1, <1>5, <1>11, FS_Subset
  <2> QED BY <1>4, <1>5, <1>8, <2>1
<1>12. CASE m # n /\ n \in Above(p, m)
  <2> DEFINE A == Above(p, m)
             B == Above(p, n)
             C == Stem(p, to)
  <2>1. B \subseteq A /\ A \cap B = B
    BY <1>12, AboveIs
  <2>2. IsFiniteSet(A) /\ IsFiniteSet(B) /\ IsFiniteSet(C) /\ Cardinality(C) \in Nat
    BY <1>5, <1>6
  <2>3. IsFiniteSet(A \ B) /\ Cardinality(A \ B) = Cardinality(A) - Cardinality(B)
    <3> HIDE DEF A, B
    <3> QED BY <2>1, <2>2, FS_Difference
  <2>4. /\ IsFiniteSet((A \ B) \cup C)
        /\ Cardinality((A \ B) \cup C) <= Cardinality(A \ B) + Cardinality(C)
    <3> HIDE DEF A, B, C
    <3>1. /\ IsFiniteSet((A \ B) \cup C)
          /\ Cardinality((A \ B) \cup C) =
               Cardinality(A \ B) + Cardinality(C) - Cardinality((A \ B) \cap C)
      BY <2>2, <2>3, FS_Union
    <3>2. (A \ B) \cap C \in SUBSET C
      OBVIOUS
    <3>3. IsFiniteSet((A \ B) \cap C)
      BY <2>2, <3>2, FS_Subset
    <3>4. Cardinality((A \ B) \cap C) \in Nat /\ Cardinality(A \ B) \in Nat
      BY <2>3, <3>3, FS_CardinalityType
    <3> QED BY <2>2, <3>1, <3>4
  <2>5. Above(q, m) \subseteq (A \ B) \cup C
    BY <1>1, <1>12
  <2>6. Cardinality(Above(q, m)) <= Cardinality((A \ B) \cup C)
    BY <2>4, <2>5, FS_Subset
  <2>7. Cardinality(A) <= Cardinality(B) + Height(p, n)
    <3>1. m \in Subtree(p, n) /\ DepthOf(p, m) <= DepthOf(p, n) + Height(p, n)
      BY <1>2, <1>7, <1>12
    <3> QED BY <1>2, <1>5, <1>8, <3>1
  <2>8. Cardinality(A) \in Nat /\ Cardinality(B) \in Nat /\ Cardinality(A) + 1 <= MaxDepth
    BY <1>4, <1>5, <1>8
  <2>9. Cardinality((A \ B) \cup C) \in Nat /\ Cardinality(Above(q, m)) \in Nat
    BY <1>5, <2>4, FS_CardinalityType
  <2> HIDE DEF A, B, C
  <2>10. Cardinality(Above(q, m)) <= Cardinality(A) - Cardinality(B) + Cardinality(C)
    BY <2>2, <2>3, <2>4, <2>6, <2>8, <2>9
  <2>11. CASE to = Root
    <3>1. Cardinality(C) = 0
      BY <1>6, <2>11 DEF C
    <3> QED BY <1>4, <2>8, <2>9, <2>10, <3>1
  <2>12. CASE to # Root
    <3>1. Cardinality(C) + 1 + Height(p, n) <= MaxDepth
      BY <1>9, <2>12 DEF C
    <3> QED BY <1>2, <1>4, <2>2, <2>7, <2>8, <2>9, <2>10, <3>1
  <2> QED BY <2>11, <2>12
<1> QED BY <1>10, <1>11, <1>12

\* A tree that needs no repair is shown as it is stored, and has no loop.
LEMMA SoundIsShown ==
    ASSUME NEW d \in Docs, Sound(d)
    PROVE  /\ \A m \in d.live : Shown(d)[m] = d.parent[m]
           /\ Loopless(d.live, Shown(d))
<1> DEFINE L == d.live
           p == Adopted(d)
<1>1. /\ L \in SUBSET Nat /\ IsFiniteSet(L) /\ Root \notin L /\ L \in SUBSET Nodes
      /\ p \in Pointers(L) /\ Shown(d) \in Pointers(L)
      /\ \A m \in L : Shown(d)[m] = IF m \in Cut(p) THEN Root ELSE p[m]
  BY ShownPoints
<1>2. /\ Nodes \in SUBSET Nat /\ IsFiniteSet(Nodes) /\ Root \notin Nodes
      /\ d.parent \in Pointers(Nodes)
  BY NodesAre DEF Docs, Pointers
<1>3. \A m \in L : p[m] = d.parent[m]
  BY DEF Sound, Adopted
<1> HIDE DEF p
<1>4. ASSUME NEW m \in L PROVE Above(p, m) \subseteq Above(d.parent, m)
  <2> DEFINE S == Above(d.parent, m)
  <2>1. m \in Nodes
    BY <1>1
  <2>2. p[m] \in S \cup {Root}
    <3>1. d.parent[m] # Root => d.parent[m] \in S
      BY <1>2, <2>1, AboveIsIn
    <3> QED BY <1>3, <3>1
  <2>3. \A x \in S : d.parent[x] \in S \cup {Root}
    BY <1>2, <2>1, AboveIsClosed
  <2>4. \A x \in S \cap L : p[x] \in S \cup {Root}
    BY <1>3, <2>3
  <2> HIDE DEF S, L
  <2>5. Above(p, m) \subseteq S
    BY <1>1, <2>2, <2>4, AboveStaysIn
  <2> QED BY <2>5 DEF S
<1>5. \A m \in L : m \notin Above(p, m)
  BY <1>4 DEF Sound
<1>6. L = DOMAIN p
  BY <1>1 DEF Pointers
<1>7. \A m \in L : m \notin Cut(p)
  BY <1>5, <1>6 DEF Cut
<1>8. Shown(d) = p
  BY <1>1, <1>6, <1>7 DEF Pointers
<1> QED BY <1>3, <1>5, <1>8 DEF Loopless

\* A document whose pointers between live nodes close no loop is shown with them.
LEMMA LooplessIsShown ==
    ASSUME NEW d \in Docs, NEW q \in Pointers(d.live), Loopless(d.live, q),
           \A m \in d.live : d.parent[m] = q[m]
    PROVE  Shown(d) = q
<1> DEFINE p == Adopted(d)
<1>1. /\ p \in Pointers(d.live) /\ Shown(d) \in Pointers(d.live)
      /\ \A m \in d.live : Shown(d)[m] = IF m \in Cut(p) THEN Root ELSE p[m]
      /\ Root \notin d.live
  BY ShownPoints
<1>2. p = q
  <2>1. \A m \in d.live : p[m] = q[m]
    BY <1>1 DEF Adopted, Pointers
  <2> HIDE DEF p
  <2> QED BY <1>1, <2>1 DEF Pointers
<1>3. d.live = DOMAIN q
  BY DEF Pointers
<1> HIDE DEF p
<1>4. \A m \in d.live : m \notin Cut(p)
  BY <1>2, <1>3 DEF Cut, Loopless
<1> QED BY <1>1, <1>2, <1>4 DEF Pointers

\* A branch that is moved, or put elsewhere in its ring: the tree afterwards.
LEMMA PatchTurns ==
    ASSUME NEW r \in Replicas, NEW n \in Nodes, NEW parent \in Nodes \cup {Root, Unsaid},
           NEW at \in Spots, doc \in [Replicas -> Docs], PatchNode(r, n, parent, at)
    PROVE  Sound(doc[r]) =>
           LET L == doc[r].live
               p == Shown(doc[r])
               q == Shown(doc'[r])
               to == IF parent = Unsaid THEN p[n] ELSE parent
           IN  /\ n \in L /\ to \in L \cup {Root}
               /\ doc'[r] \in Docs /\ doc'[r].live = L
               /\ p \in Pointers(L) /\ q \in Pointers(L)
               /\ Loopless(L, p) /\ Loopless(L, q)
               /\ Turned(L, p, n, to, q)
               /\ parent = Unsaid => q = p
               /\ parent # Unsaid /\ to # Root => DepthOf(p, to) + 1 + Height(p, n) <= MaxDepth
<1>0. /\ doc' \in [Replicas -> Docs] /\ doc'[r].live = doc[r].live
      /\ \A m \in Nodes : doc'[r].parent[m] =
                           IF m = n /\ parent # Unsaid THEN parent ELSE doc[r].parent[m]
  BY PatchIs
<1> SUFFICES ASSUME Sound(doc[r])
             PROVE  LET L == doc[r].live
                        p == Shown(doc[r])
                        q == Shown(doc'[r])
                        to == IF parent = Unsaid THEN p[n] ELSE parent
                    IN  /\ n \in L /\ to \in L \cup {Root}
                        /\ doc'[r] \in Docs /\ doc'[r].live = L
                        /\ p \in Pointers(L) /\ q \in Pointers(L)
                        /\ Loopless(L, p) /\ Loopless(L, q)
                        /\ Turned(L, p, n, to, q)
                        /\ parent = Unsaid => q = p
                        /\ parent # Unsaid /\ to # Root => DepthOf(p, to) + 1 + Height(p, n) <= MaxDepth
  OBVIOUS
<1> DEFINE d == doc[r]
           e == doc'[r]
           L == d.live
           p == Shown(d)
           to == IF parent = Unsaid THEN p[n] ELSE parent
           q == [p EXCEPT ![n] = to]
<1>1. d \in Docs /\ e \in Docs /\ e.live = L
      /\ \A m \in Nodes : e.parent[m] = IF m = n /\ parent # Unsaid THEN parent ELSE d.parent[m]
  BY <1>0
<1>2. /\ L \in SUBSET Nat /\ IsFiniteSet(L) /\ Root \notin L /\ L \in SUBSET Nodes
      /\ p \in Pointers(L)
  <2> HIDE DEF d
  <2> QED BY <1>1, ShownPoints
<1>3. (\A m \in L : p[m] = d.parent[m]) /\ Loopless(L, p)
  <2>1. Sound(d)
    OBVIOUS
  <2> HIDE DEF d
  <2> QED BY <1>1, <2>1, SoundIsShown
<1>4. /\ n \in L
      /\ parent \in Nodes => /\ parent \in L \ Subtree(p, n)
                             /\ DepthOf(p, parent) + 1 + Height(p, n) <= MaxDepth
  BY DEF PatchNode
<1>5. parent \in Nodes \/ parent = Root \/ parent = Unsaid
  OBVIOUS
<1>6. Unsaid \notin Nodes /\ Unsaid # Root /\ Root \notin Nodes
  BY NodesAre DEF Nodes, Unsaid, Root
<1> HIDE DEF d, e, p
<1>7. to \in L \cup {Root}
  BY <1>2, <1>4, <1>5 DEF Pointers
<1>8. q \in Pointers(L) /\ \A m \in L : q[m] = IF m = n THEN to ELSE p[m]
  BY <1>2, <1>4, <1>7 DEF Pointers
<1>9. Turned(L, p, n, to, q)
  <2>1. CASE parent = Unsaid
    <3>1. to = p[n]
      BY <2>1
    <3>2. to # Root => to \in Above(p, n) /\ to \in L
      <4> HIDE DEF L
      <4> QED BY <1>2, <1>4, <3>1, AboveIsIn DEF Pointers
    <3>3. n \notin Above(p, n)
      BY <1>3, <1>4 DEF Loopless
    <3>4. to # Root => Above(p, to) \subseteq Above(p, n)
      <4> HIDE DEF L, to
      <4> QED BY <1>2, <1>4, <3>2, AboveIs
    <3> HIDE DEF to, q
    <3>5. to # Root => to # n /\ n \notin Above(p, to)
      BY <3>2, <3>3, <3>4
    <3> QED BY <1>8, <3>5 DEF Turned
  <2>2. CASE parent # Unsaid
    <3>1. to # Root => to \in L \ Subtree(p, n)
      BY <1>4, <1>5, <2>2
    <3>2. L = DOMAIN p
      BY <1>2 DEF Pointers
    <3> HIDE DEF to, q
    <3>3. to # Root => to # n /\ n \notin Above(p, to)
      BY <3>1, <3>2 DEF Subtree
    <3> QED BY <1>8, <3>3 DEF Turned
  <2> QED BY <2>1, <2>2
<1>10. Loopless(L, q)
  <2> HIDE DEF L, q, to
  <2> QED BY <1>2, <1>3, <1>4, <1>7, <1>8, <1>9, TurnedIsLoopless
<1>11. \A m \in e.live : e.parent[m] = q[m]
  <2>2. \A m \in L : e.parent[m] = IF m = n /\ parent # Unsaid THEN parent ELSE d.parent[m]
    BY <1>1, <1>2
  <2>3. \A m \in L : e.parent[m] = IF m = n /\ parent # Unsaid THEN parent ELSE p[m]
    BY <1>3, <2>2
  <2> HIDE DEF q, L
  <2> QED BY <1>1, <1>8, <2>3
<1>12. Shown(e) = q
  <2> HIDE DEF q
  <2>1. q \in Pointers(e.live) /\ Loopless(e.live, q)
    BY <1>1, <1>8, <1>10
  <2> HIDE DEF L
  <2> QED BY <1>1, <1>11, <2>1, LooplessIsShown
<1>13. parent = Unsaid => q = p
  <2> SUFFICES ASSUME parent = Unsaid PROVE q = p
    OBVIOUS
  <2>1. to = p[n]
    OBVIOUS
  <2> QED BY <1>2, <2>1 DEF Pointers
<1>14. parent # Unsaid /\ to # Root => DepthOf(p, to) + 1 + Height(p, n) <= MaxDepth
  BY <1>4, <1>5
<1> HIDE DEF q, to
<1> QED BY <1>1, <1>2, <1>3, <1>4, <1>7, <1>8, <1>9, <1>10, <1>12, <1>13, <1>14 DEF d, e, p, to

\* Moving a branch moves that branch, however the tree came about, for any
\* number of nodes and any cap.
THEOREM MovesStayLocalHolds == TreeSpec => MovesStayLocal
<1> DEFINE Act == LET r == aim'.by
                      p == Shown(doc[r])
                      q == Shown(doc'[r])
                  IN  /\ aim'.node # Root /\ aim'.node \in doc[r].live
                      /\ Sound(doc[r])
                      /\ \A m \in doc[r].live : DepthOf(p, m) <= MaxDepth
                      => \A m \in doc[r].live :
                           (m # aim'.node => q[m] = p[m]) /\ DepthOf(q, m) <= MaxDepth
<1>1. ASSUME TreeTypeOK, TreeNext PROVE Act
  <2>0. doc \in [Replicas -> Docs] /\ NoAim.node = Root
    BY <1>1 DEF TreeTypeOK, Docs, NoAim
  <2>1. ASSUME NEW r \in Replicas, NEW batch \in Batches(r), AddNodes(r, batch) PROVE Act
    <3>1. aim'.by = r /\ aim'.node = Last(batch).node
      BY <2>1 DEF AddNodes
    <3>2. Last(batch).node \in Unborn
      <4>1. Len(batch) \in DOMAIN batch
        BY <2>1, BatchesAre DEF AddNodes
      <4> QED BY <2>1, <4>1 DEF AddNodes, Last
    <3>3. aim'.node \notin doc[r].live
      BY <3>1, <3>2 DEF Unborn
    <3> QED BY <3>1, <3>3
  <2>2. ASSUME NEW r \in Replicas, NEW n \in Nodes, NEW parent \in Nodes \cup {Root, Unsaid},
               NEW at \in Spots, PatchNode(r, n, parent, at)
        PROVE  Act
    <3>1. aim'.by = r /\ aim'.node = n
      BY <2>2 DEF PatchNode
    <3> SUFFICES ASSUME Sound(doc[r]),
                        \A m \in doc[r].live : DepthOf(Shown(doc[r]), m) <= MaxDepth,
                        NEW m \in doc[r].live
                 PROVE  /\ m # n => Shown(doc'[r])[m] = Shown(doc[r])[m]
                        /\ DepthOf(Shown(doc'[r]), m) <= MaxDepth
      BY <3>1
    <3> DEFINE L == doc[r].live
               p == Shown(doc[r])
               q == Shown(doc'[r])
               to == IF parent = Unsaid THEN p[n] ELSE parent
    <3>2. /\ n \in L /\ to \in L \cup {Root}
          /\ p \in Pointers(L) /\ q \in Pointers(L)
          /\ Loopless(L, p)
          /\ Turned(L, p, n, to, q)
          /\ parent = Unsaid => q = p
          /\ parent # Unsaid /\ to # Root => DepthOf(p, to) + 1 + Height(p, n) <= MaxDepth
      BY <2>0, <2>2, PatchTurns
    <3>3. L \in SUBSET Nat /\ IsFiniteSet(L) /\ Root \notin L
      BY <2>0, ShownPoints
    <3>4. m # n => q[m] = p[m]
      BY <3>2 DEF Turned
    <3>5. DepthOf(q, m) <= MaxDepth
      <4>1. CASE parent = Unsaid
        BY <3>2, <4>1
      <4>2. CASE parent # Unsaid
        <5>1. (\A x \in L : DepthOf(p, x) <= MaxDepth) /\ m \in L
          OBVIOUS
        <5>2. to # Root => DepthOf(p, to) + 1 + Height(p, n) <= MaxDepth
          BY <3>2, <4>2
        <5> HIDE DEF L, p, q, to
        <5>3. (\A x \in L : DepthOf(p, x) <= MaxDepth) => \A x \in L : DepthOf(q, x) <= MaxDepth
          BY <3>2, <3>3, <5>2, DepthOfTurned
        <5> QED BY <5>1, <5>3
      <4> QED BY <4>1, <4>2
    <3> QED BY <3>4, <3>5
  <2>3. ASSUME NEW r \in Replicas, NEW n \in Nodes, DeleteNode(r, n) PROVE Act
    BY <2>0, <2>3 DEF DeleteNode
  <2>4. ASSUME NEW r \in Replicas, NEW s \in Replicas, Deliver(r, s) PROVE Act
    BY <2>0, <2>4 DEF Deliver
  <2> QED BY <1>1, <2>1, <2>2, <2>3, <2>4 DEF TreeNext
<1>2. TreeTypeOK /\ [TreeNext]_treeVars => [Act]_treeVars
  BY <1>1
<1>3. TreeSpec => [][Act]_treeVars
  BY <1>2, MapsAreTyped, PTL DEF TreeSpec
<1> QED BY <1>3 DEF MovesStayLocal

-----------------------------------------------------------------------------
(* Where a node is put among its siblings.                                 *)

\* The keys of S are usable and no two are the same.
Usable(d, S) ==
    /\ \A m \in S : IsValid(d.order[m])
    /\ \A m, n \in S : d.order[m] = d.order[n] => m = n

\* The slot a position names.
Slot(ring, at) == IF at = Unsaid \/ at > Len(ring) THEN Len(ring) ELSE at

\* The key made for a position is above those before it and below those after.
LEMMA OrderForIsBetween ==
    ASSUME NEW d \in Docs, NEW ring \in Seq(Nodes), NEW at \in Spots
    PROVE  LET slot == Slot(ring, at)
               key == OrderFor(d, ring, at)
               a == d.order[ring[slot]]
               b == d.order[ring[slot + 1]]
           IN  /\ slot \in 0..Len(ring)
               /\ slot >= 1 /\ IsValid(a) => Less(a, key)
               /\ slot < Len(ring) /\ IsValid(b) /\ (slot >= 1 => Less(a, b)) => Less(key, b)
<1> DEFINE slot == Slot(ring, at)
           Key(i) == IF i \in DOMAIN ring THEN d.order[ring[i]] ELSE <<>>
<1>1. slot \in 0..Len(ring)
  BY TreeAssumption DEF Spots, Unsaid, Slot
<1>2. OrderFor(d, ring, at) = Between(Key(slot), Key(slot + 1))
  BY DEF OrderFor, Slot
<1>3. DOMAIN ring = 1..Len(ring)
  OBVIOUS
<1> HIDE DEF slot
<1>4. \A i \in Nat : Key(i) \in Keys /\ (i \notin 1..Len(ring) => ~IsValid(Key(i)))
  <2>1. <<>> \in Keys /\ ~IsValid(<<>>)
    <3>1. <<>> \in Seq(Digits) /\ Len(<<>>) <= MaxKeyLen + 1
      BY TreeAssumption
    <3>2. <<>> \in Keys
      BY <3>1, KeysAreSequences
    <3> QED BY <3>1, <3>2, TreeAssumption DEF IsValid
  <2>2. \A i \in 1..Len(ring) : d.order[ring[i]] \in Keys
    BY DEF Docs
  <2> QED BY <1>3, <2>1, <2>2
<1>5. /\ slot >= 1 => Key(slot) = d.order[ring[slot]]
      /\ slot = 0 => ~IsValid(Key(slot))
      /\ slot < Len(ring) => Key(slot + 1) = d.order[ring[slot + 1]]
  BY <1>1, <1>3, <1>4
<1>6. Key(slot) \in Keys /\ Key(slot + 1) \in Keys
  BY <1>1, <1>4
<1> DEFINE x == Key(slot)
           y == Key(slot + 1)
<1> HIDE DEF Key
<1>7. /\ IsValid(x) => Less(x, Between(x, y))
      /\ IsValid(y) /\ (IsValid(x) => Less(x, y)) => Less(Between(x, y), y)
  <2> HIDE DEF x, y
  <2> QED BY <1>6, BetweenIs DEF x, y
<1>8. slot >= 1 \/ slot = 0
  BY <1>1
<1> QED BY <1>1, <1>2, <1>5, <1>7, <1>8 DEF slot, x, y

\* A node put at a position has that many of its siblings before it.
LEMMA PlacedRight ==
    ASSUME NEW d \in Docs, NEW S \in SUBSET Nodes, NEW at \in Spots
    PROVE  LET ring == InOrder(d, S)
               key == OrderFor(d, ring, at)
           IN  Usable(d, S) /\ Reachable(at, ring) =>
                 Cardinality({m \in S : Less(d.order[m], key)}) =
                   IF at = Unsaid THEN Cardinality(S) ELSE at
<1> DEFINE ring == InOrder(d, S)
           key == OrderFor(d, ring, at)
           slot == Slot(ring, at)
           N == Cardinality(S)
           rank(m) == RankIn(d, S, m)
<1>1. /\ N \in Nat /\ ring \in Seq(Nodes) /\ Len(ring) = N
      /\ \A i \in 1..N : ring[i] \in S /\ rank(ring[i]) = i - 1
  BY InOrderIs
<1>2. /\ \A m \in S : rank(m) \in 0..(N - 1)
      /\ \A m, n \in S : Earlier(d, m, n) => rank(m) < rank(n)
      /\ \A m, n \in S : rank(m) = rank(n) => m = n
  BY RanksAre
<1>3. \A m, n \in S : m # n => Earlier(d, m, n) \/ Earlier(d, n, m)
  BY EarlierIsStrict
<1>4. key \in Keys
  <2> HIDE DEF ring
  <2> QED BY <1>1, OrderForIsKey
<1> DEFINE a == d.order[ring[slot]]
           b == d.order[ring[slot + 1]]
<1>5. /\ slot \in 0..N
      /\ slot >= 1 /\ IsValid(a) => Less(a, key)
      /\ slot < N /\ IsValid(b) /\ (slot >= 1 => Less(a, b)) => Less(key, b)
  <2> HIDE DEF ring
  <2> QED BY <1>1, OrderForIsBetween
<1> SUFFICES ASSUME Usable(d, S), Reachable(at, ring)
             PROVE  Cardinality({m \in S : Less(d.order[m], key)}) = IF at = Unsaid THEN N ELSE at
  OBVIOUS
<1>6. slot = IF at = Unsaid THEN N ELSE at
  <2> HIDE DEF ring, N
  <2> QED BY <1>1, TreeAssumption DEF Slot, Reachable, Spots, Unsaid
<1> HIDE DEF ring, key, slot, N, rank
<1>7. \A m \in S : d.order[m] \in Keys /\ d.order[m] \in Seq(Digits)
  BY KeysAreSequences DEF Docs
<1>8. key \in Seq(Digits)
  BY <1>4, KeysAreSequences
\* Of usable keys that differ, the earlier is the lower.
<1>9. \A m, n \in S : Earlier(d, m, n) <=> m # n /\ Less(d.order[m], d.order[n])
  <2> SUFFICES ASSUME NEW m \in S, NEW n \in S
               PROVE  Earlier(d, m, n) <=> m # n /\ Less(d.order[m], d.order[n])
    OBVIOUS
  <2>1. IsValid(d.order[m]) /\ IsValid(d.order[n])
    BY DEF Usable
  <2>2. d.order[m] = d.order[n] <=> m = n
    BY DEF Usable
  <2>3. ~(m < m)
    BY NodesAre
  <2>4. Earlier(d, m, n) <=>
          \/ d.order[m] # d.order[n] /\ Less(d.order[m], d.order[n])
          \/ d.order[m] = d.order[n] /\ m < n
    BY <2>1, EarlierIs
  <2> QED BY <2>2, <2>3, <2>4
<1>10. \A m \in S : slot >= 1 /\ rank(m) < slot => Less(d.order[m], key)
  <2> SUFFICES ASSUME NEW m \in S, slot >= 1, rank(m) < slot PROVE Less(d.order[m], key)
    OBVIOUS
  <2> DEFINE n == ring[slot]
  <2>1. n \in S /\ rank(n) = slot - 1
    BY <1>1, <1>5
  <2>2. Less(d.order[n], key)
    BY <1>5, <2>1 DEF Usable
  <2> HIDE DEF n
  <2>3. m = n \/ Earlier(d, m, n)
    BY <1>2, <1>3, <1>5, <2>1
  <2>4. CASE m = n
    BY <2>2, <2>4
  <2>5. CASE Earlier(d, m, n)
    <3>1. Less(d.order[m], d.order[n])
      BY <1>9, <2>1, <2>5
    <3> QED BY <1>7, <1>8, <2>1, <2>2, <3>1, LessIsTransitive
  <2> QED BY <2>3, <2>4, <2>5
<1>11. CASE slot = N
  <2>1. \A m \in S : Less(d.order[m], key)
    <3> SUFFICES ASSUME NEW m \in S PROVE slot >= 1 /\ rank(m) < slot
      BY <1>10
    <3> QED BY <1>1, <1>2, <1>11
  <2>2. {m \in S : Less(d.order[m], key)} = S
    BY <2>1
  <2> QED BY <1>6, <1>11, <2>2 DEF N
<1>12. CASE slot < N
  <2> DEFINE n == ring[slot + 1]
  <2>1. n \in S /\ rank(n) = slot
    BY <1>1, <1>5, <1>12
  <2>2. Less(key, d.order[n])
    <3>1. slot >= 1 => Less(a, b)
      <4> SUFFICES ASSUME slot >= 1 PROVE Less(a, b)
        OBVIOUS
      <4> DEFINE l == ring[slot]
      <4>1. l \in S /\ rank(l) = slot - 1
        BY <1>1, <1>5
      <4> HIDE DEF l, n
      <4>2. Earlier(d, l, n)
        BY <1>2, <1>3, <1>5, <2>1, <4>1
      <4>3. Less(d.order[l], d.order[n])
        BY <1>9, <2>1, <4>1, <4>2
      <4> QED BY <4>3 DEF l, n
    <3> QED BY <1>5, <1>12, <2>1, <3>1 DEF Usable
  <2> HIDE DEF n
  <2>3. \A m \in S : Less(d.order[m], key) <=> Earlier(d, m, n)
    <3> SUFFICES ASSUME NEW m \in S PROVE Less(d.order[m], key) <=> Earlier(d, m, n)
      OBVIOUS
    <3>1. ASSUME Earlier(d, m, n) PROVE Less(d.order[m], key)
      BY <1>2, <1>5, <1>10, <2>1, <3>1
    <3>2. ASSUME Less(d.order[m], key) PROVE Earlier(d, m, n)
      <4>1. Less(d.order[m], d.order[n])
        BY <1>7, <1>8, <2>1, <2>2, <3>2, LessIsTransitive
      <4>2. m # n
        BY <1>7, <2>1, <4>1, LessIsStrict
      <4> QED BY <1>9, <2>1, <4>1, <4>2
    <3> QED BY <3>1, <3>2
  <2>4. {m \in S : Less(d.order[m], key)} = {m \in S : Earlier(d, m, n)}
    BY <2>3
  <2>5. Cardinality({m \in S : Earlier(d, m, n)}) = slot
    BY <2>1 DEF rank, RankIn
  <2> QED BY <1>6, <2>4, <2>5
<1> QED BY <1>1, <1>5, <1>11, <1>12

\* If the keys of the ring are usable and differ, n has as many of its kin before
\* it as the position says, or all.
Hits(n, d, at, kin) ==
    LET ring == kin \cup {n}
    IN  /\ \A m \in ring : IsValid(d.order[m])
        /\ Cardinality({d.order[m] : m \in ring}) = Cardinality(ring)
        => Cardinality({m \in kin : Earlier(d, m, n)}) =
             IF at = Unsaid THEN Cardinality(kin) ELSE at

\* The node stands where it was to, if the keys of its ring tell them apart.
LEMMA AimOf ==
    ASSUME NEW d \in Docs, NEW e \in Docs, NEW n \in Nodes, NEW S \in SUBSET Nodes, n \notin S,
           NEW at \in Spots, Reachable(at, InOrder(d, S)),
           e.order[n] = OrderFor(d, InOrder(d, S), at)
    PROVE  (\A m \in S : e.order[m] = d.order[m]) => Hits(n, e, at, S)
<1> DEFINE ring == S \cup {n}
           keys == {e.order[m] : m \in ring}
           key == OrderFor(d, InOrder(d, S), at)
<1>0. Usable(d, S) =>
        Cardinality({m \in S : Less(d.order[m], key)}) = IF at = Unsaid THEN Cardinality(S) ELSE at
  BY PlacedRight
<1>1. IsFiniteSet(ring) /\ ring \subseteq Nodes
  BY NodesAre
<1> HIDE DEF key
<1> SUFFICES ASSUME \A m \in S : e.order[m] = d.order[m],
                    \A m \in ring : IsValid(e.order[m]),
                    Cardinality(keys) = Cardinality(ring)
             PROVE  Cardinality({m \in S : Earlier(e, m, n)}) =
                      IF at = Unsaid THEN Cardinality(S) ELSE at
  BY DEF Hits
<1>2. \A x, y \in ring : e.order[x] = e.order[y] => x = y
  <2> DEFINE f == [m \in ring |-> e.order[m]]
  <2>1. f \in Surjection(ring, keys)
    <3>1. f \in [ring -> keys]
      OBVIOUS
    <3>2. \A t \in keys : \E s \in ring : f[s] = t
      OBVIOUS
    <3> QED BY <3>1, <3>2 DEF Surjection
  <2>2. \A x \in ring : f[x] = e.order[x]
    OBVIOUS
  <2> HIDE DEF f, keys, ring
  <2>3. f \in Injection(ring, keys)
    BY <1>1, <2>1, FS_Surjection
  <2>4. \A x, y \in ring : f[x] = f[y] => x = y
    BY <2>3, Zenon DEF Injection, IsInjective
  <2> QED BY <2>2, <2>4
<1>3. Usable(d, S)
  <2>1. \A m \in S : IsValid(d.order[m])
    OBVIOUS
  <2>2. \A x, y \in S : d.order[x] = d.order[y] => x = y
    BY <1>2
  <2> QED BY <2>1, <2>2 DEF Usable
<1>4. \A m \in S : Earlier(e, m, n) <=> Less(d.order[m], key)
  <2> SUFFICES ASSUME NEW m \in S PROVE Earlier(e, m, n) <=> Less(d.order[m], key)
    OBVIOUS
  <2>1. m \in Nodes /\ m \in ring /\ n \in ring /\ m # n
    OBVIOUS
  <2>2. e.order[m] # e.order[n] /\ IsValid(e.order[m]) /\ IsValid(e.order[n])
    BY <1>2, <2>1
  <2>3. Earlier(e, m, n) <=> Less(e.order[m], e.order[n])
    BY <2>1, <2>2, EarlierIs
  <2> QED BY <2>3 DEF key
<1>5. {m \in S : Earlier(e, m, n)} = {m \in S : Less(d.order[m], key)}
  BY <1>4
<1> QED BY <1>0, <1>3, <1>5

\* The map is shown as it is stored, and has no loop.
Tidy(d) ==
    /\ \A m \in d.live : Shown(d)[m] = d.parent[m]
    /\ Loopless(d.live, Shown(d))

\* A new node under a live one leaves the others where they are.
LEMMA LeafAdded ==
    ASSUME NEW d \in Docs, NEW add, add.node \in Nodes, add.node \notin d.live,
           add.parent \in d.live \cup {Root}
    PROVE  Tidy(d) =>
           LET e == PutNode(d, add)
           IN  /\ Tidy(e)
               /\ Shown(e)[add.node] = add.parent
               /\ \A m \in d.live : Shown(e)[m] = Shown(d)[m]
<1> DEFINE e == PutNode(d, add)
           L == d.live
           M == L \cup {add.node}
           p == Shown(d)
           q == [m \in M |-> IF m = add.node THEN add.parent ELSE p[m]]
<1>1. /\ L \in SUBSET Nat /\ IsFiniteSet(L) /\ Root \notin L /\ L \in SUBSET Nodes
      /\ p \in Pointers(L)
  BY ShownPoints
<1>2. add.parent \in Nodes \cup {Root}
  BY <1>1
<1>3. e \in Docs /\ e.live = M /\ e.parent = [d.parent EXCEPT ![add.node] = add.parent]
  BY <1>2, PutNodeTyped
<1>4. M \in SUBSET Nodes /\ M \in SUBSET Nat /\ IsFiniteSet(M) /\ Root \notin M
  BY <1>1, NodesAre
<1> SUFFICES ASSUME Tidy(d)
             PROVE  /\ Tidy(e)
                    /\ Shown(e)[add.node] = add.parent
                    /\ \A m \in L : Shown(e)[m] = p[m]
  OBVIOUS
<1>5. /\ q \in Pointers(M) /\ q[add.node] = add.parent
      /\ \A m \in L : q[m] = p[m] /\ q[m] \in L \cup {Root}
  BY <1>1 DEF Pointers
<1> HIDE DEF q, p, M, e
<1>6. \A m \in M : m = add.node \/ m \in L
  BY DEF M
<1>7. \A m \in M : m \notin Above(q, m)
  <2>1. Above(q, add.node) \subseteq L
    <3>1. q[add.node] \in L \cup {Root} /\ \A x \in L \cap M : q[x] \in L \cup {Root}
      BY <1>5
    <3>2. add.node \in M
      BY DEF M
    <3> QED BY <1>4, <1>5, <3>1, <3>2, AboveStaysIn
  <2>2. ASSUME NEW m \in L PROVE m \notin Above(q, m)
    <3> DEFINE S == Above(p, m)
    <3>1. S \subseteq L /\ q[m] \in S \cup {Root}
      BY <1>1, <1>5, AboveIsIn
    <3>2. \A x \in S : p[x] \in S \cup {Root}
      BY <1>1, AboveIsClosed
    <3>3. \A x \in S \cap M : q[x] \in S \cup {Root}
      BY <1>5, <3>1, <3>2
    <3>4. m \in M
      BY DEF M
    <3>5. m \notin S
      BY DEF Tidy, Loopless, p
    <3> HIDE DEF S
    <3>6. Above(q, m) \subseteq S
      BY <1>4, <1>5, <3>1, <3>3, <3>4, AboveStaysIn
    <3> QED BY <3>5, <3>6
  <2> QED BY <1>6, <2>1, <2>2
<1>8. \A m \in e.live : e.parent[m] = q[m]
  <2>1. d.parent \in [Nodes -> Nodes \cup {Root}] /\ \A m \in L : d.parent[m] = p[m]
    BY DEF Docs, Tidy, p
  <2>2. \A m \in Nodes : e.parent[m] = IF m = add.node THEN add.parent ELSE d.parent[m]
    BY <1>3, <2>1
  <2> HIDE DEF L
  <2>3. \A m \in M : m \in Nodes
    BY <1>4
  <2> QED BY <1>3, <1>5, <1>6, <2>1, <2>2, <2>3
<1>9. q \in Pointers(e.live) /\ Loopless(e.live, q)
  BY <1>3, <1>5, <1>7 DEF Loopless
<1>10. Shown(e) = q
  BY <1>3, <1>8, <1>9, LooplessIsShown
<1>11. Tidy(e)
  BY <1>8, <1>9, <1>10 DEF Tidy
<1> QED BY <1>5, <1>10, <1>11

\* A batch is put into a tidy map: so it was before its last node, which was new
\* to it and went under a live node or the root.
LEMMA BatchIsPut ==
    ASSUME NEW r \in Replicas, NEW batch \in Batches(r), doc \in [Replicas -> Docs],
           AddNodes(r, batch)
    PROVE  Tidy(doc[r]) =>
           \E d \in Docs :
             /\ Tidy(d)
             /\ Last(batch).node \in Nodes \ d.live
             /\ Last(batch).parent \in d.live \cup {Root}
             /\ Reachable(Last(batch).at, Ring(d, Shown(d), Last(batch).parent))
             /\ Last(batch).at \in Spots
             /\ doc'[r] = PutNode(d, Last(batch))
<1> DEFINE N == Len(batch)
           home == doc[r].live \cup {Root}
<1>1. /\ batch \in Seq(Additions)
      /\ \A i \in 1..N : /\ batch[i].node \in Unborn /\ batch[i].at \in Spots
                         /\ batch[i].parent \in home
      /\ \A i \in 2..N : batch[i].parent = batch[1].parent /\ batch[i].at = Unsaid
  BY BatchesAre
<1>2. /\ N \in Nat /\ N >= 1
      /\ doc' = [doc EXCEPT ![r] = Put(doc[r], batch)]
      /\ \A i, j \in 1..N : i # j => batch[i].node # batch[j].node
      /\ \A i \in 1..N : Reachable(batch[i].at, Ring(doc[r], Shown(doc[r]), batch[i].parent))
  <2>1. DOMAIN batch = 1..N /\ N \in Nat
    BY <1>1
  <2>2. N >= 1
    BY TreeAssumption, <2>1 DEF AddNodes
  <2> QED BY <2>1, <2>2 DEF AddNodes
<1>3. Last(batch) = batch[N]
  BY DEF Last
<1>4. doc'[r] = Put(doc[r], batch)
  BY <1>2
<1>5. doc[r] \in Docs
  OBVIOUS
<1>6. PICK put \in [0..N -> Docs] :
        /\ put[0] = doc[r]
        /\ \A k \in 0..N : k < N => put[k + 1] = PutNode(put[k], batch[k + 1])
        /\ Put(doc[r], batch) = put[N]
  BY <1>1, <1>5, PutIs
<1> SUFFICES ASSUME Tidy(doc[r])
             PROVE  \E d \in Docs :
                      /\ Tidy(d)
                      /\ Last(batch).node \in Nodes \ d.live
                      /\ Last(batch).parent \in d.live \cup {Root}
                      /\ Reachable(Last(batch).at, Ring(d, Shown(d), Last(batch).parent))
                      /\ Last(batch).at \in Spots
                      /\ doc'[r] = PutNode(d, Last(batch))
  OBVIOUS
<1>7. \A i \in 1..N : /\ batch[i].node \in Nodes /\ batch[i].node \notin doc[r].live
  BY <1>1 DEF Unborn
<1> DEFINE Alive(k) == doc[r].live \cup {batch[j].node : j \in 1..k}
           T == {k \in 0..N : Tidy(put[k]) /\ put[k].live = Alive(k)}
<1>8. 0 \in T
  BY <1>2, <1>6
<1>9. ASSUME NEW k \in 0..N, k \in T, k < N
      PROVE  k + 1 \in T /\ batch[k + 1].node \notin put[k].live
                         /\ batch[k + 1].parent \in put[k].live \cup {Root}
  <2> DEFINE add == batch[k + 1]
  <2>1. k + 1 \in 1..N /\ k + 1 \in 0..N /\ k \in Nat
    BY <1>2, <1>9
  <2>2. put[k] \in Docs /\ Tidy(put[k]) /\ put[k].live = Alive(k) /\ put[k + 1] = PutNode(put[k], add)
    BY <1>6, <1>9
  <2>3. add.node \in Nodes /\ add.parent \in home /\ add.node \notin doc[r].live
    BY <1>1, <1>7, <2>1
  <2>4. add.node \notin Alive(k)
    <3>1. \A j \in 1..k : j \in 1..N /\ j # k + 1
      BY <1>2, <2>1
    <3>2. \A j \in 1..k : batch[j].node # add.node
      BY <1>2, <2>1, <3>1
    <3> QED BY <2>3, <3>2
  <2>5. add.parent \in put[k].live \cup {Root}
    BY <2>2, <2>3
  <2>6. Alive(k + 1) = Alive(k) \cup {add.node}
    <3>1. 1..(k + 1) = (1..k) \cup {k + 1}
      BY <2>1
    <3> QED BY <3>1
  <2> HIDE DEF add, Alive
  <2>7. Tidy(PutNode(put[k], add))
    BY <2>2, <2>3, <2>4, <2>5, LeafAdded
  <2>8. PutNode(put[k], add).live = put[k].live \cup {add.node}
    <3>1. add.parent \in Nodes \cup {Root}
      BY <2>2, <2>5 DEF Docs
    <3> QED BY <2>2, <2>3, <3>1, PutNodeTyped
  <2>9. k + 1 \in T
    BY <2>1, <2>2, <2>6, <2>7, <2>8
  <2> QED BY <2>2, <2>4, <2>5, <2>9 DEF add
<1> HIDE DEF T
<1>10. \A k \in 0..N : k \in T
  <2> HIDE DEF N
  <2>1. \A k \in 0..N : k \in T /\ k < N => k + 1 \in T
    BY <1>9
  <2> QED BY <1>2, <1>8, <2>1, StepByStep
<1> DEFINE d == put[N - 1]
<1>11. N - 1 \in 0..N /\ N - 1 < N /\ (N - 1) + 1 = N /\ N \in 1..N
  BY <1>2
<1>12. /\ Tidy(d) /\ d \in Docs
       /\ batch[N].node \notin d.live /\ batch[N].parent \in d.live \cup {Root}
       /\ put[N] = PutNode(d, batch[N])
  <2>1. N - 1 \in T
    BY <1>10, <1>11
  <2>2. Tidy(d)
    BY <2>1 DEF T
  <2>3. d \in Docs /\ put[N] = PutNode(d, batch[N])
    BY <1>6, <1>11
  <2> QED BY <1>9, <1>11, <2>1, <2>2, <2>3
<1>13. Reachable(batch[N].at, Ring(d, Shown(d), batch[N].parent))
  <2>1. CASE N = 1
    <3>1. d = doc[r]
      BY <1>6, <2>1
    <3> QED BY <1>2, <1>11, <3>1
  <2>2. CASE N # 1
    <3>1. N \in 2..N
      BY <1>2, <2>2
    <3> QED BY <1>1, <3>1 DEF Reachable
  <2> QED BY <2>1, <2>2
<1>14. batch[N].node \in Nodes /\ batch[N].at \in Spots
  BY <1>1, <1>7, <1>11
<1> HIDE DEF d
<1> QED BY <1>3, <1>4, <1>6, <1>12, <1>13, <1>14

\* A node put at a position has that many siblings before it, in a ring of any
\* length and with keys of any base.
THEOREM AimIsMetHolds == TreeSpec => AimIsMet
<1> DEFINE Act == aim'.node # Root /\ Sound(doc[aim'.by]) =>
                    LET n == aim'.node
                        d == doc'[aim'.by]
                    IN  \E kin \in {Kin(d, n)} : Hits(n, d, aim'.at, kin)
<1>1. ASSUME TreeTypeOK, TreeNext PROVE Act
  <2>0. doc \in [Replicas -> Docs] /\ NoAim.node = Root
    BY <1>1 DEF TreeTypeOK, Docs, NoAim
  <2>1. ASSUME NEW r \in Replicas, NEW batch \in Batches(r), AddNodes(r, batch) PROVE Act
    <3> DEFINE add == Last(batch)
    <3>1. aim'.by = r /\ aim'.node = add.node /\ aim'.at = add.at
      BY <2>1 DEF AddNodes
    <3>2. doc[r] \in Docs
      BY <2>0
    <3>3. Tidy(doc[r]) =>
            \E d \in Docs :
              /\ Tidy(d)
              /\ add.node \in Nodes \ d.live
              /\ add.parent \in d.live \cup {Root}
              /\ Reachable(add.at, Ring(d, Shown(d), add.parent))
              /\ add.at \in Spots
              /\ doc'[r] = PutNode(d, add)
      BY <2>0, <2>1, BatchIsPut
    <3> HIDE DEF add
    <3> SUFFICES ASSUME Sound(doc[r])
                 PROVE  Hits(add.node, doc'[r], add.at, Kin(doc'[r], add.node))
      BY <3>1
    <3>4. Tidy(doc[r])
      BY <3>2, SoundIsShown DEF Tidy
    <3>5. PICK d \in Docs :
            /\ Tidy(d)
            /\ add.node \in Nodes \ d.live
            /\ add.parent \in d.live \cup {Root}
            /\ Reachable(add.at, Ring(d, Shown(d), add.parent))
            /\ add.at \in Spots
            /\ doc'[r] = PutNode(d, add)
      BY <3>3, <3>4
    <3> DEFINE e == PutNode(d, add)
               n == add.node
               S == {m \in d.live : Shown(d)[m] = add.parent}
    <3>6. Shown(e)[n] = add.parent /\ \A m \in d.live : Shown(e)[m] = Shown(d)[m]
      BY <3>5, LeafAdded
    <3>7. d.live \in SUBSET Nodes /\ add.parent \in Nodes \cup {Root}
      BY <3>5 DEF Docs
    <3>8. /\ e \in Docs /\ e.live = d.live \cup {n}
          /\ e.order = [d.order EXCEPT ![n] = OrderFor(d, Ring(d, Shown(d), add.parent), add.at)]
      BY <3>5, <3>7, PutNodeTyped
    <3>9. S \in SUBSET Nodes /\ n \notin S /\ Ring(d, Shown(d), add.parent) = InOrder(d, S)
      BY <3>5, <3>7 DEF Ring
    <3> HIDE DEF e, n
    <3>10. Kin(e, n) = S
      BY <3>6, <3>8, <3>9, <3>5 DEF Kin, n
    <3>11. n \in Nodes
      BY <3>5 DEF n
    <3> HIDE DEF S
    <3>12. /\ e.order[n] = OrderFor(d, InOrder(d, S), add.at)
           /\ \A m \in S : e.order[m] = d.order[m]
      <4>1. d.order \in [Nodes -> Keys]
        BY <3>5 DEF Docs
      <4> QED BY <3>8, <3>9, <3>11, <4>1
    <3>13. Reachable(add.at, InOrder(d, S)) /\ add.at \in Spots
      BY <3>5, <3>9
    <3>14. Hits(n, e, add.at, S)
      BY <3>5, <3>8, <3>9, <3>11, <3>12, <3>13, AimOf
    <3> QED BY <3>5, <3>10, <3>14 DEF e, n
  <2>2. ASSUME NEW r \in Replicas, NEW n \in Nodes, NEW parent \in Nodes \cup {Root, Unsaid},
               NEW at \in Spots, PatchNode(r, n, parent, at)
        PROVE  Act
    <3> DEFINE d == doc[r]
               e == doc'[r]
               p == Shown(d)
               q == Shown(e)
               to == IF parent = Unsaid THEN p[n] ELSE parent
               S == {m \in d.live \ {n} : p[m] = to}
    <3>1. aim'.by = r /\ aim'.node = n /\ aim'.at = at
      BY <2>2 DEF PatchNode
    <3>2. /\ doc' \in [Replicas -> Docs]
          /\ \A m \in Nodes :
               e.order[m] = IF m = n THEN OrderFor(d, RingWithout(d, p, to, n), at) ELSE d.order[m]
      BY <2>0, <2>2, PatchIs
    <3>3. Sound(d) => /\ n \in d.live /\ e.live = d.live /\ Turned(d.live, p, n, to, q)
      BY <2>0, <2>2, PatchTurns
    <3>4. RingWithout(d, p, to, n) = InOrder(d, S)
      BY DEF RingWithout
    <3>5. Reachable(at, InOrder(d, S))
      <4>1. Reachable(at, RingWithout(d, p, to, n))
        BY <2>2 DEF PatchNode
      <4> QED BY <3>4, <4>1
    <3>6. d \in Docs /\ e \in Docs
      BY <2>0, <3>2
    <3>7. S \in SUBSET Nodes /\ n \notin S
      BY <3>6 DEF Docs
    <3> SUFFICES ASSUME Sound(d) PROVE Hits(n, e, at, Kin(e, n))
      BY <3>1
    <3> HIDE DEF d, e, to, p, q
    <3>8. Kin(e, n) = S
      <4>1. q[n] = to /\ \A m \in d.live \ {n} : q[m] = p[m]
        BY <3>3 DEF Turned
      <4> QED BY <3>3, <4>1 DEF Kin, q
    <3> HIDE DEF S
    <3>9. /\ e.order[n] = OrderFor(d, InOrder(d, S), at)
          /\ \A m \in S : e.order[m] = d.order[m]
      BY <3>2, <3>4, <3>7
    <3>10. Hits(n, e, at, S)
      BY <3>5, <3>6, <3>7, <3>9, AimOf
    <3> QED BY <3>8, <3>10
  <2>3. ASSUME NEW r \in Replicas, NEW n \in Nodes, DeleteNode(r, n) PROVE Act
    BY <2>0, <2>3 DEF DeleteNode
  <2>4. ASSUME NEW r \in Replicas, NEW s \in Replicas, Deliver(r, s) PROVE Act
    BY <2>0, <2>4 DEF Deliver
  <2> HIDE DEF Act
  <2> QED BY <1>1, <2>1, <2>2, <2>3, <2>4 DEF TreeNext
<1>2. TreeTypeOK /\ [TreeNext]_treeVars => [Act]_treeVars
  BY <1>1
<1>3. TreeSpec => [][Act]_treeVars
  BY <1>2, MapsAreTyped, PTL DEF TreeSpec
<1> QED BY <1>3 DEF AimIsMet, Hits
=============================================================================
