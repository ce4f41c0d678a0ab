--------------------------- MODULE DataInduction ---------------------------
(***************************************************************************)
(* Induction on the natural numbers and the existence of functions defined *)
(* by recursion, stated with sets and functions only: the proofs about     *)
(* data cite them with the set of the numbers that have a property.  Both  *)
(* follow from the library's well-founded order of finite sets.            *)
(***************************************************************************)
EXTENDS Integers, FiniteSetsExt, FiniteSetTheorems, SequenceTheorems, TLAPS

\* A set of natural numbers that is not empty has a least element: of the
\* intervals that its elements span, one contains no other.
LEMMA LeastNatural ==
    ASSUME NEW T, T \subseteq Nat, T # {}
    PROVE  \E m \in T : \A n \in T : m <= n
<1> DEFINE Spans == {1..n : n \in T}
           R == StrictSubsetOrdering(Nat)
<1>1. IsWellFoundedOn(R, FiniteSubsetsOf(Nat))
  BY FS_StrictSubsetOrderingWellFounded
<1>2. Spans \subseteq FiniteSubsetsOf(Nat) /\ Spans # {}
  <2>1. \A n \in T : 1..n \subseteq Nat /\ IsFiniteSet(1..n)
    BY FS_Interval
  <2> QED
    BY <2>1 DEF FiniteSubsetsOf
<1>3. PICK x \in Spans : \A y \in Spans : <<y, x>> \notin R
  <2> HIDE DEF Spans, R
  <2> QED
    BY <1>1, <1>2, WFMin
<1>4. PICK m \in T : x = 1..m
  OBVIOUS
<1>5. ASSUME NEW n \in T, ~(m <= n) PROVE FALSE
  <2>1. m \in Nat /\ n \in Nat /\ n < m
    BY <1>5
  <2>2. 1..n \subseteq 1..m /\ m \in 1..m /\ m \notin 1..n
    BY <2>1
  <2>3. 1..n \subseteq Nat /\ 1..m \subseteq Nat /\ 1..n # 1..m
    BY <2>2
  <2>4. <<1..n, 1..m>> \in R
    BY <2>2, <2>3 DEF StrictSubsetOrdering
  <2> QED
    BY <1>3, <1>4, <2>4
<1> QED
  BY <1>5

\* Induction: what holds of 0 and of every successor holds of every number.
LEMMA InductionOnNat ==
    ASSUME NEW S, 0 \in S, \A n \in Nat : n \in S => n + 1 \in S
    PROVE  Nat \subseteq S
<1> SUFFICES ASSUME Nat \ S # {} PROVE FALSE
  OBVIOUS
<1>1. PICK m \in Nat \ S : \A n \in Nat \ S : m <= n
  <2> DEFINE T == Nat \ S
  <2>1. T \subseteq Nat /\ T # {}
    OBVIOUS
  <2> HIDE DEF T
  <2>2. \E m \in T : \A n \in T : m <= n
    BY <2>1, LeastNatural
  <2> QED
    BY <2>2 DEF T
<1>2. m - 1 \in Nat /\ (m - 1) + 1 = m
  BY <1>1
<1>3. m - 1 \in S
  BY <1>1, <1>2
<1> QED
  BY <1>1, <1>2, <1>3

\* Induction up to a bound.
LEMMA InductionUpTo ==
    ASSUME NEW n \in Nat, NEW S, 0 \in S, \A k \in 1..n : k - 1 \in S => k \in S
    PROVE  0..n \subseteq S
<1> DEFINE T == {k \in Nat : k <= n => k \in S}
<1>1. 0 \in T
  OBVIOUS
<1>2. ASSUME NEW k \in Nat, k \in T PROVE k + 1 \in T
  <2> SUFFICES ASSUME k + 1 <= n PROVE k + 1 \in S
    BY <1>2
  <2>1. k + 1 \in 1..n /\ (k + 1) - 1 = k /\ k <= n
    BY <1>2
  <2> QED
    BY <1>2, <2>1
<1>3. Nat \subseteq T
  <2> HIDE DEF T
  <2> QED
    BY <1>1, <1>2, InductionOnNat
<1> QED
  BY <1>3

\* The functions with a value for 0 and, from each number to the next, the
\* value that step has for the one before.
Steps(n, S) == [1..n -> [S -> S]]
Iterations(n, S, base, step) ==
    {f \in [0..n -> S] :
        /\ f[0] = base
        /\ \A k \in 1..n : f[k] = step[k][f[k - 1]]}

\* Such a function exists.
LEMMA RecursiveFunction ==
    ASSUME NEW n \in Nat, NEW S, NEW base \in S, NEW step \in Steps(n, S)
    PROVE  Iterations(n, S, base, step) # {}
<1> DEFINE Upto(m) == Iterations(m, S, base, step)
           T == {m \in Nat : m <= n => Upto(m) # {}}
<1>0. step \in [1..n -> [S -> S]]
  BY DEF Steps
<1>1. 0 \in T
  <2> DEFINE f == [k \in 0..0 |-> base]
  <2>1. f \in Upto(0)
    BY DEF Iterations
  <2> QED
    BY <2>1
<1>2. ASSUME NEW m \in 1..n, m - 1 \in T PROVE m \in T
  <2>1. m - 1 \in Nat /\ m - 1 <= n /\ m \in Nat
    OBVIOUS
  <2>2. PICK f \in [0..(m - 1) -> S] :
           f[0] = base /\ \A k \in 1..(m - 1) : f[k] = step[k][f[k - 1]]
    BY <1>2, <2>1 DEF Iterations
  <2> DEFINE g == [k \in 0..m |-> IF k = m THEN step[m][f[m - 1]] ELSE f[k]]
  <2>3. step[m][f[m - 1]] \in S
    BY <1>0, <2>1, <2>2
  <2>4. g \in [0..m -> S]
    BY <2>1, <2>2, <2>3
  <2>5. g[0] = base
    BY <2>1, <2>2
  <2>6. ASSUME NEW k \in 1..m PROVE g[k] = step[k][g[k - 1]]
    <3>1. CASE k = m
      BY <2>1, <3>1
    <3>2. CASE k # m
      BY <2>1, <2>2, <3>2
    <3> QED
      BY <3>1, <3>2
  <2>7. g \in Upto(m)
    BY <2>4, <2>5, <2>6 DEF Iterations
  <2> QED
    BY <2>1, <2>7
<1>3. 0..n \subseteq T
  <2> HIDE DEF T
  <2> QED
    BY <1>1, <1>2, InductionUpTo
<1>4. Upto(n) # {}
  <2>1. n \in 0..n /\ n <= n
    OBVIOUS
  <2> QED
    BY <1>3, <2>1
<1> QED
  BY <1>4

\* The function that a recursion on all natural numbers defines exists.
StepsOnNat(S) == [Nat \ {0} -> [S -> S]]
LEMMA RecursionOnNat ==
    ASSUME NEW S, NEW base \in S, NEW step \in StepsOnNat(S)
    PROVE  \E f \in [Nat -> S] : f[0] = base /\ \A k \in Nat \ {0} : f[k] = step[k][f[k - 1]]
<1> DEFINE upto(n) == [k \in 1..n |-> step[k]]
           Values(n) == Iterations(n, S, base, upto(n))
           value(n) == CHOOSE f : f \in Values(n)
           F == [n \in Nat |-> value(n)[n]]
<1>1. step \in [Nat \ {0} -> [S -> S]]
  BY DEF StepsOnNat
<1>2. ASSUME NEW n \in Nat
      PROVE  /\ value(n) \in [0..n -> S] /\ value(n)[0] = base
             /\ \A k \in 1..n : value(n)[k] = step[k][value(n)[k - 1]]
  <2>1. upto(n) \in Steps(n, S)
    <3>1. upto(n) \in [1..n -> [S -> S]]
      BY <1>1
    <3> QED
      BY <3>1 DEF Steps
  <2> HIDE DEF upto
  <2>2. Values(n) # {}
    BY <2>1, RecursiveFunction
  <2>3. value(n) \in Values(n)
    <3> HIDE DEF Values
    <3> QED
      BY <2>2
  <2> HIDE DEF value
  <2>4. /\ value(n) \in [0..n -> S] /\ value(n)[0] = base
        /\ \A k \in 1..n : value(n)[k] = upto(n)[k][value(n)[k - 1]]
    BY <2>3 DEF Iterations
  <2> QED
    BY <2>4 DEF upto
<1> HIDE DEF value, Values, upto
<1>3. ASSUME NEW n \in Nat \ {0} PROVE value(n)[n - 1] = value(n - 1)[n - 1]
  <2> DEFINE m == n - 1
             T == {k \in 0..m : value(n)[k] = value(m)[k]}
  <2>1. m \in Nat /\ n \in Nat /\ \A k \in 1..m : k \in 1..n /\ k \in 0..m
    OBVIOUS
  <2> HIDE DEF m
  <2>2. 0 \in T
    BY <1>2, <2>1
  <2>3. ASSUME NEW k \in 1..m, k - 1 \in T PROVE k \in T
    <3>1. value(n)[k - 1] = value(m)[k - 1]
      BY <2>3
    <3>2. k \in 1..n /\ k \in 0..m
      BY <2>1
    <3>3. value(n)[k] = step[k][value(n)[k - 1]]
      BY <1>2, <2>1, <3>2
    <3>4. value(m)[k] = step[k][value(m)[k - 1]]
      BY <1>2, <2>1
    <3> QED
      BY <3>1, <3>2, <3>3, <3>4
  <2> HIDE DEF T
  <2>4. 0..m \subseteq T
    BY <2>1, <2>2, <2>3, InductionUpTo
  <2>5. m \in 0..m
    BY <2>1
  <2>6. m \in T
    BY <2>4, <2>5
  <2>7. value(n)[m] = value(m)[m]
    BY <2>6 DEF T
  <2> QED
    BY <2>7 DEF m
<1>4. F \in [Nat -> S]
  <2> SUFFICES ASSUME NEW n \in Nat PROVE value(n)[n] \in S
    OBVIOUS
  <2>1. n \in 0..n
    OBVIOUS
  <2> QED
    BY <1>2, <2>1
<1>5. F[0] = base
  BY <1>2
<1>6. ASSUME NEW k \in Nat \ {0} PROVE F[k] = step[k][F[k - 1]]
  <2>1. k \in Nat /\ k - 1 \in Nat /\ k \in 1..k
    OBVIOUS
  <2>2. value(k)[k] = step[k][value(k)[k - 1]]
    BY <1>2, <2>1
  <2>3. value(k)[k - 1] = value(k - 1)[k - 1]
    BY <1>3
  <2>4. F[k] = value(k)[k] /\ F[k - 1] = value(k - 1)[k - 1]
    BY <2>1
  <2> QED
    BY <2>2, <2>3, <2>4
<1> QED
  BY <1>4, <1>5, <1>6

-----------------------------------------------------------------------------
(* Folds from the left, which the community modules define by recursion on  *)
(* the set of the positions that are left, the greatest first.              *)

LEMMA GreatestOfSubset ==
    ASSUME NEW n \in Nat, NEW s \in SUBSET (1..n), s # {}
    PROVE  Max(s) \in s /\ \A y \in s : y <= Max(s)
<1> DEFINE Bounds == {k \in Nat : \A y \in s : y <= k}
<1>1. Bounds \subseteq Nat /\ n \in Bounds
  OBVIOUS
<1>2. PICK m \in Bounds : \A k \in Bounds : m <= k
  <2> HIDE DEF Bounds
  <2> QED
    BY <1>1, LeastNatural
<1>3. m \in Nat /\ \A y \in s : y <= m /\ y \in Nat /\ y # 0
  BY <1>2
<1>4. m \in s
  <2> SUFFICES ASSUME m \notin s PROVE FALSE
    OBVIOUS
  <2>1. \A y \in s : y <= m - 1 /\ m # 0
    BY <1>3
  <2>4. m # 0
    BY <2>1
  <2>2. m - 1 \in Nat
    BY <1>3, <2>4
  <2>3. m - 1 \in Bounds
    BY <2>1, <2>2
  <2> QED
    BY <1>2, <1>3, <2>3
<1>5. \E x \in s : \A y \in s : x >= y
  BY <1>3, <1>4
<1>6. Max(s) \in s /\ \A y \in s : Max(s) >= y
  BY <1>5 DEF Max
<1> QED
  BY <1>3, <1>6

LEMMA GreatestOfInterval ==
    ASSUME NEW k \in Nat, k # 0
    PROVE  Max(1..k) = k /\ 1..k \ {k} = 1..(k - 1)
<1>1. 1..k \in SUBSET (1..k) /\ 1..k # {} /\ k \in 1..k
  OBVIOUS
<1>2. Max(1..k) \in 1..k /\ k <= Max(1..k)
  BY <1>1, GreatestOfSubset
<1> QED
  BY <1>2

\* The functions that fold the positions of a set into a value.
Foldings(n, S, base, step) ==
    {g \in [SUBSET (1..n) -> S] :
        \A s \in SUBSET (1..n) :
            g[s] = IF s = {} THEN base ELSE step[Max(s)][g[s \ {Max(s)}]]}

\* Such a function exists.
LEMMA FoldingExists ==
    ASSUME NEW n \in Nat, NEW S, NEW base \in S, NEW step \in Steps(n, S)
    PROVE  Foldings(n, S, base, step) # {}
<1> DEFINE F == [SUBSET (1..n) -> S]
           first == [s \in SUBSET (1..n) |-> base]
           Next(g) == [s \in SUBSET (1..n) |->
                          IF s = {} THEN base ELSE step[Max(s)][g[s \ {Max(s)}]]]
           next == [k \in 1..n |-> [g \in F |-> Next(g)]]
<1>1. step \in [1..n -> [S -> S]]
  BY DEF Steps
<1>2. first \in F
  OBVIOUS
<1>3. ASSUME NEW g \in F PROVE Next(g) \in F
  <2> SUFFICES ASSUME NEW s \in SUBSET (1..n), s # {} PROVE step[Max(s)][g[s \ {Max(s)}]] \in S
    OBVIOUS
  <2>1. Max(s) \in 1..n /\ s \ {Max(s)} \in SUBSET (1..n)
    BY GreatestOfSubset
  <2> QED
    BY <1>1, <1>3, <2>1
<1>4. next \in Steps(n, F)
  <2>1. next \in [1..n -> [F -> F]]
    BY <1>3
  <2> QED
    BY <2>1 DEF Steps
<1>5. PICK f : /\ f \in [0..n -> F] /\ f[0] = first
               /\ \A k \in 1..n : f[k] = next[k][f[k - 1]]
  <2> HIDE DEF F, first, next
  <2>1. Iterations(n, F, first, next) # {}
    BY <1>2, <1>4, RecursiveFunction
  <2> QED
    BY <2>1 DEF Iterations
<1>6. ASSUME NEW k \in 1..n PROVE f[k - 1] \in F /\ f[k] = Next(f[k - 1])
  <2>1. k - 1 \in 0..n
    OBVIOUS
  <2>2. f[k - 1] \in F
    BY <1>5, <2>1
  <2> HIDE DEF Next, F
  <2> QED
    BY <1>5, <2>2
<1>7. ASSUME NEW k \in 1..n, NEW s \in SUBSET (1..n)
      PROVE  f[k][s] = IF s = {} THEN base ELSE step[Max(s)][f[k - 1][s \ {Max(s)}]]
  <2> DEFINE g == f[k - 1]
  <2>1. f[k] = Next(g)
    BY <1>6
  <2> HIDE DEF g
  <2>2. f[k][s] = IF s = {} THEN base ELSE step[Max(s)][g[s \ {Max(s)}]]
    BY <2>1
  <2> QED
    BY <2>2 DEF g
<1>8. ASSUME NEW k \in 0..n PROVE f[k][{}] = base
  <2>1. CASE k = 0
    BY <1>5, <2>1
  <2>2. CASE k # 0
    <3>1. k \in 1..n /\ {} \in SUBSET (1..n)
      BY <2>2
    <3> QED
      BY <1>7, <3>1
  <2> QED
    BY <2>1, <2>2
<1> DEFINE T == {k \in 0..n : \A s \in SUBSET (1..k) : \A j \in k..n : f[j][s] = f[n][s]}
<1>9. 0 \in T
  <2>1. \A s \in SUBSET (1..0) : s = {}
    OBVIOUS
  <2>2. n \in 0..n /\ 0 \in 0..n
    OBVIOUS
  <2>3. \A j \in 0..n : f[j][{}] = f[n][{}]
    BY <1>8, <2>2
  <2>4. \A s \in SUBSET (1..0) : \A j \in 0..n : f[j][s] = f[n][s]
    BY <2>1, <2>3
  <2> QED
    BY <2>2, <2>4
<1>10. ASSUME NEW k \in 1..n, k - 1 \in T PROVE k \in T
  <2> SUFFICES ASSUME NEW s \in SUBSET (1..k), NEW j \in k..n PROVE f[j][s] = f[n][s]
    OBVIOUS
  <2>1. s \in SUBSET (1..n) /\ j \in 1..n /\ n \in 1..n
    OBVIOUS
  <2>2. CASE s = {}
    BY <1>7, <2>1, <2>2
  <2>3. CASE s # {}
    <3> DEFINE m == Max(s)
               r == s \ {m}
    <3>1. m \in s /\ \A y \in s : y <= m
      BY <2>3, GreatestOfSubset
    <3>2. r \in SUBSET (1..(k - 1))
      <4> SUFFICES ASSUME NEW y \in s, y # m PROVE y \in 1..(k - 1)
        OBVIOUS
      <4>1. y \in 1..k /\ m \in 1..k /\ y <= m
        BY <3>1
      <4> HIDE DEF m
      <4> QED
        BY <4>1
    <3>3. f[j][s] = step[m][f[j - 1][r]] /\ f[n][s] = step[m][f[n - 1][r]]
      BY <1>7, <2>1, <2>3
    <3>4. j - 1 \in (k - 1)..n /\ n - 1 \in (k - 1)..n
      OBVIOUS
    <3> HIDE DEF r, m
    <3>5. f[j - 1][r] = f[n][r] /\ f[n - 1][r] = f[n][r]
      BY <1>10, <3>2, <3>4
    <3> QED
      BY <3>3, <3>5
  <2> QED
    BY <2>2, <2>3
<1>11. 0..n \subseteq T
  <2> HIDE DEF T
  <2> QED
    BY <1>9, <1>10, InductionUpTo
<1>12. ASSUME NEW s \in SUBSET (1..n)
       PROVE  f[n][s] = IF s = {} THEN base ELSE step[Max(s)][f[n][s \ {Max(s)}]]
  <2>1. CASE s = {}
    BY <1>8, <2>1
  <2>2. CASE s # {}
    <3> DEFINE m == Max(s)
               r == s \ {m}
    <3>1. m \in s /\ \A y \in s : y <= m
      BY <2>2, GreatestOfSubset
    <3>2. n \in 1..n /\ n - 1 \in 0..n /\ n - 1 \in (n - 1)..n
      <4>1. m \in 1..n
        BY <3>1
      <4> HIDE DEF m
      <4> QED
        BY <4>1
    <3>5. r \in SUBSET (1..(n - 1))
      <4> SUFFICES ASSUME NEW y \in s, y # m PROVE y \in 1..(n - 1)
        OBVIOUS
      <4>1. y \in 1..n /\ m \in 1..n /\ y <= m
        BY <3>1
      <4> HIDE DEF m
      <4> QED
        BY <4>1
    <3>3. f[n][s] = step[m][f[n - 1][r]]
      BY <1>7, <2>2, <3>2
    <3> HIDE DEF r, m
    <3>4. f[n - 1][r] = f[n][r]
      BY <1>11, <3>2, <3>5
    <3> QED
      BY <2>2, <3>3, <3>4 DEF r, m
  <2> QED
    BY <2>1, <2>2
<1>13. f[n] \in F
  BY <1>5
<1>14. f[n] \in Foldings(n, S, base, step)
  BY <1>12, <1>13 DEF Foldings
<1> QED
  BY <1>14

\* The values that a fold has for the first positions, each in S.
LEMMA FoldSteps ==
    ASSUME NEW n \in Nat, NEW S, NEW h, h[{}] \in S,
           \A k \in 1..n : h[1..(k - 1)] \in S => h[1..k] \in S
    PROVE  [k \in 0..n |-> h[1..k]] \in [0..n -> S]
<1> DEFINE T == {k \in 0..n : h[1..k] \in S}
<1>1. 0 \in T
  <2>1. 1..0 = {}
    OBVIOUS
  <2> QED
    BY <2>1
<1>2. \A k \in 1..n : k - 1 \in T => k \in T
  OBVIOUS
<1>3. 0..n \subseteq T
  <2> HIDE DEF T
  <2> QED
    BY <1>1, <1>2, InductionUpTo
<1> QED
  BY <1>3

\* What a fold makes of the first positions is an iteration.
LEMMA FoldIterates ==
    ASSUME NEW n \in Nat, NEW S, NEW base \in S, NEW step \in Steps(n, S), NEW h, h[{}] = base,
           \A k \in 1..n : h[1..(k - 1)] \in S => h[1..k] = step[k][h[1..(k - 1)]]
    PROVE  [k \in 0..n |-> h[1..k]] \in Iterations(n, S, base, step)
<1> DEFINE f == [k \in 0..n |-> h[1..k]]
<1>1. step \in [1..n -> [S -> S]]
  BY DEF Steps
<1>2. \A k \in 1..n : h[1..(k - 1)] \in S => h[1..k] \in S
  BY <1>1
<1>3. f \in [0..n -> S]
  BY <1>2, FoldSteps
<1>4. f[0] = base
  <2>1. 1..0 = {} /\ 0 \in 0..n
    OBVIOUS
  <2> QED
    BY <2>1
<1>5. ASSUME NEW k \in 1..n PROVE f[k] = step[k][f[k - 1]]
  <2>1. k \in 0..n /\ k - 1 \in 0..n
    OBVIOUS
  <2>2. f[k] = h[1..k] /\ f[k - 1] = h[1..(k - 1)] /\ f[k - 1] \in S
    BY <1>3, <2>1
  <2> QED
    BY <2>2
<1> HIDE DEF f
<1>6. f \in Iterations(n, S, base, step)
  BY <1>3, <1>4, <1>5 DEF Iterations
<1> QED
  BY <1>6 DEF f

\* One more step.
LEMMA IterationOfNext ==
    ASSUME NEW n \in Nat, NEW S, NEW base \in S, NEW step \in Steps(n, S), NEW next \in Steps(n + 1, S),
           \A k \in 1..n : next[k] = step[k],
           NEW f \in Iterations(n, S, base, step), NEW g \in Iterations(n + 1, S, base, next)
    PROVE  /\ f[n] \in S /\ g[n + 1] \in S
           /\ g[n + 1] = next[n + 1][f[n]]
<1>1. /\ f \in [0..n -> S] /\ f[0] = base /\ (\A k \in 1..n : f[k] = step[k][f[k - 1]])
      /\ g \in [0..(n + 1) -> S] /\ g[0] = base
      /\ \A k \in 1..(n + 1) : g[k] = next[k][g[k - 1]]
  BY DEF Iterations
<1> DEFINE T == {k \in 0..n : g[k] = f[k]}
<1>2. 0 \in T
  BY <1>1
<1>3. ASSUME NEW k \in 1..n, k - 1 \in T PROVE k \in T
  <2>1. k \in 0..n /\ k \in 1..(n + 1)
    OBVIOUS
  <2> QED
    BY <1>1, <1>3, <2>1
<1>4. n \in T
  <2>1. 0..n \subseteq T
    <3> HIDE DEF T
    <3> QED
      BY <1>2, <1>3, InductionUpTo
  <2> QED
    BY <2>1
<1>5. n + 1 \in 1..(n + 1) /\ (n + 1) - 1 = n /\ n \in 0..n /\ n + 1 \in 0..(n + 1)
  OBVIOUS
<1> QED
  BY <1>1, <1>4, <1>5

-----------------------------------------------------------------------------
(* Sequences *)

LEMMA PrefixProperties ==
    ASSUME NEW S, NEW s \in Seq(S), NEW p \in 0..Len(s)
    PROVE  /\ SubSeq(s, 1, p) \in Seq(S)
           /\ Len(SubSeq(s, 1, p)) = p
           /\ \A i \in 1..p : SubSeq(s, 1, p)[i] = s[i]
<1>1. Len(s) \in Nat /\ p \in Int /\ \A i \in 1..p : s[i] \in S
  BY LenProperties, ElementOfSeq
<1> DEFINE t == SubSeq(s, 1, p)
<1>2. /\ t \in Seq(S) /\ Len(t) = IF 1 <= p THEN p - 1 + 1 ELSE 0
      /\ \A i \in 1..(p - 1 + 1) : t[i] = s[1 + i - 1]
  BY <1>1, SubSeqProperties
<1> HIDE DEF t
<1>3. Len(t) = p
  BY <1>1, <1>2
<1>4. ASSUME NEW i \in 1..p PROVE t[i] = s[i]
  <2>1. i \in 1..(p - 1 + 1) /\ 1 + i - 1 = i
    BY <1>1
  <2> QED
    BY <1>2, <2>1
<1> QED
  BY <1>2, <1>3, <1>4 DEF t

LEMMA SuffixProperties ==
    ASSUME NEW S, NEW s \in Seq(S), NEW p \in 0..Len(s)
    PROVE  /\ SubSeq(s, p + 1, Len(s)) \in Seq(S)
           /\ Len(SubSeq(s, p + 1, Len(s))) = Len(s) - p
           /\ \A i \in 1..(Len(s) - p) : SubSeq(s, p + 1, Len(s))[i] = s[p + i]
<1> DEFINE n == Len(s)
           m == p + 1
           t == SubSeq(s, m, n)
<1>1. n \in Nat /\ p \in Nat /\ p <= n /\ m = p + 1 /\ \A i \in 1..n : s[i] \in S
  BY LenProperties, ElementOfSeq
<1> HIDE DEF n, m
<1>2. m \in Int /\ \A i \in m..n : s[i] \in S
  BY <1>1
<1>3. /\ t \in Seq(S) /\ Len(t) = IF m <= n THEN n - m + 1 ELSE 0
      /\ \A i \in 1..(n - m + 1) : t[i] = s[m + i - 1]
  BY <1>1, <1>2, SubSeqProperties
<1> HIDE DEF t
<1>4. Len(t) = n - p
  BY <1>1, <1>3
<1>5. ASSUME NEW i \in 1..(n - p) PROVE t[i] = s[p + i]
  <2>1. i \in 1..(n - m + 1) /\ m + i - 1 = p + i
    BY <1>1
  <2> QED
    BY <1>3, <2>1
<1> QED
  BY <1>3, <1>4, <1>5 DEF t, m, n

\* Induction on sequences: what holds of the empty one and of every sequence
\* with one more element holds of all.
LEMMA InductionOnSeq ==
    ASSUME NEW S, NEW T, <<>> \in T,
           \A s \in Seq(S), e \in S : s \in T => Append(s, e) \in T
    PROVE  Seq(S) \subseteq T
<1> DEFINE U == {n \in Nat : \A s \in Seq(S) : Len(s) = n => s \in T}
<1>1. 0 \in U
  <2>1. \A s \in Seq(S) : Len(s) = 0 => s = <<>>
    BY EmptySeq
  <2> QED
    BY <2>1
<1>2. ASSUME NEW n \in Nat, n \in U PROVE n + 1 \in U
  <2> SUFFICES ASSUME NEW s \in Seq(S), Len(s) = n + 1 PROVE s \in T
    OBVIOUS
  <2>1. s # <<>>
    BY EmptySeq
  <2>2. PICK t \in Seq(S), e \in S : s = Append(t, e)
    BY <2>1, SequenceEmptyOrAppend
  <2>3. Len(t) = n
    BY <2>2, LenProperties, AppendProperties
  <2>4. t \in T
    BY <1>2, <2>3
  <2> QED
    BY <2>2, <2>4
<1>3. Nat \subseteq U
  <2> HIDE DEF U
  <2> QED
    BY <1>1, <1>2, InductionOnNat
<1> QED
  <2> SUFFICES ASSUME NEW s \in Seq(S) PROVE s \in T
    OBVIOUS
  <2>1. Len(s) \in Nat
    BY LenProperties
  <2> QED
    BY <1>3, <2>1

=============================================================================
