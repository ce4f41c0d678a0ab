-------------------------- MODULE Metadata_proofs --------------------------
(***************************************************************************)
(* Theorems about Metadata, for all wallet IDs and for every limit of the  *)
(* format and of the reader, and about DerivationPath, for all paths.      *)
(***************************************************************************)
EXTENDS Metadata, DerivationPath, DataInduction, SequenceTheorems

Range32 == [start : 0..(StartLimit - 1), count : 0..(StartLimit - 1)]
AnyRange == [start : Nat, count : Nat]

-----------------------------------------------------------------------------
(* The folds, one step at a time *)

\* The step of Ranges: one more ID.
WithId(rs, w) ==
    IF rs # <<>> /\ w = Last(rs).start + Last(rs).count + 1
    THEN [rs EXCEPT ![Len(rs)].count = @ + 1]
    ELSE Append(rs, [start |-> w, count |-> 0])

\* The step of ParseMetadata: one more range.
WithRange(ws, r) == ws \o [i \in 1..(r.count + 1) |-> r.start + i - 1]

\* A range, or one with one more ID, and what they add to the ranges before.
LEMMA LastRange ==
    ASSUME NEW rs \in Seq(AnyRange), rs # <<>>
    PROVE  /\ Len(rs) \in Nat /\ Len(rs) # 0
           /\ Front(rs) \in Seq(AnyRange) /\ Last(rs) \in AnyRange
           /\ rs = Append(Front(rs), Last(rs))
           /\ Len(Front(rs)) = Len(rs) - 1
           /\ \A k \in 1..(Len(rs) - 1) : Front(rs)[k] = rs[k]
<1>1. Len(rs) \in Nat /\ Len(rs) # 0
  BY EmptySeq
<1>2. \A k \in 1..(Len(rs) - 1) : rs[k] \in AnyRange
  BY <1>1, ElementOfSeq
<1>3. /\ Front(rs) \in Seq(AnyRange)
      /\ Len(Front(rs)) = Len(rs) - 1
      /\ \A k \in 1..(Len(rs) - 1) : Front(rs)[k] = rs[k]
  <2> DEFINE n == Len(rs) - 1
  <2>1. n \in Nat /\ 1 \in Int /\ n \in Int
    BY <1>1
  <2> HIDE DEF n
  <2>2. /\ SubSeq(rs, 1, n) \in Seq(AnyRange)
        /\ Len(SubSeq(rs, 1, n)) = IF 1 <= n THEN n - 1 + 1 ELSE 0
        /\ \A k \in 1..(n - 1 + 1) : SubSeq(rs, 1, n)[k] = rs[1 + k - 1]
    BY <1>2, <2>1, SubSeqProperties DEF n
  <2>3. Len(SubSeq(rs, 1, n)) = n /\ \A k \in 1..n : SubSeq(rs, 1, n)[k] = rs[k]
    BY <2>1, <2>2
  <2> QED
    BY <2>2, <2>3 DEF Front, n
<1>4. Last(rs) \in AnyRange
  BY <1>1, ElementOfSeq DEF Last
<1>5. /\ Append(Front(rs), Last(rs)) \in Seq(AnyRange)
      /\ Len(Append(Front(rs), Last(rs))) = Len(rs)
      /\ \A k \in 1..(Len(rs) - 1) : Append(Front(rs), Last(rs))[k] = rs[k]
      /\ Append(Front(rs), Last(rs))[Len(rs)] = Last(rs)
  BY <1>1, <1>3, <1>4, AppendProperties
<1>6. \A k \in 1..Len(rs) : Append(Front(rs), Last(rs))[k] = rs[k]
  <2> SUFFICES ASSUME NEW k \in 1..Len(rs) PROVE Append(Front(rs), Last(rs))[k] = rs[k]
    OBVIOUS
  <2>1. CASE k = Len(rs)
    BY <1>5, <2>1 DEF Last
  <2>2. CASE k # Len(rs)
    BY <1>1, <1>5, <2>2
  <2> QED
    BY <2>1, <2>2
<1>7. rs = Append(Front(rs), Last(rs))
  BY <1>5, <1>6, SeqEqual
<1> QED
  BY <1>1, <1>3, <1>4, <1>7

\* One more ID is one more range, or the last range with one ID more: the ranges
\* before are front, the last one is r.
Extends(rs, w, front, r) ==
    /\ WithId(rs, w) = Append(front, r)
    /\ End(r) = w
    /\ \/ front = rs /\ r.start = w /\ r.count = 0
       \/ \E q \in AnyRange :
             /\ rs = Append(front, q)
             /\ r.start = q.start /\ r.count = q.count + 1
             /\ w = q.start + q.count + 1

LEMMA WithIdCases ==
    ASSUME NEW rs \in Seq(AnyRange), NEW w \in Nat
    PROVE  \E front \in Seq(AnyRange), r \in AnyRange : Extends(rs, w, front, r)
<1>1. CASE rs # <<>> /\ w = Last(rs).start + Last(rs).count + 1
  <2> DEFINE n == Len(rs)
             q == Last(rs)
             r == [start |-> q.start, count |-> q.count + 1]
             a == WithId(rs, w)
             front == Front(rs)
  <2>1. /\ n \in Nat /\ n # 0 /\ front \in Seq(AnyRange) /\ q \in AnyRange
        /\ rs = Append(front, q) /\ Len(front) = n - 1
        /\ \A k \in 1..(n - 1) : front[k] = rs[k]
    BY <1>1, LastRange
  <2>2. r \in AnyRange /\ r.start = q.start /\ r.count = q.count + 1
    BY <2>1 DEF AnyRange
  <2>3. a = [rs EXCEPT ![n] = r]
    <3>1. a = [rs EXCEPT ![n].count = @ + 1]
      BY <1>1 DEF WithId
    <3>2. rs[n] = q /\ q \in AnyRange
      BY <2>1 DEF Last
    <3>3. [rs[n] EXCEPT !.count = @ + 1] = r
      BY <3>2 DEF AnyRange
    <3> HIDE DEF r, n
    <3> QED
      BY <3>1, <3>3
  <2> HIDE DEF r
  <2>4. a \in Seq(AnyRange) /\ Len(a) = n /\ \A k \in 1..n : a[k] = IF k = n THEN r ELSE rs[k]
    <3>1. n \in 1..Len(rs)
      BY <2>1
    <3> HIDE DEF n, a
    <3> QED
      BY <2>2, <2>3, <3>1, ExceptSeq DEF n
  <2>5. /\ Append(front, r) \in Seq(AnyRange) /\ Len(Append(front, r)) = n
        /\ \A k \in 1..(n - 1) : Append(front, r)[k] = rs[k]
        /\ Append(front, r)[n] = r
    <3> HIDE DEF front, n
    <3> QED
      BY <2>1, <2>2, AppendProperties
  <2>6. a = Append(front, r)
    <3>1. \A k \in 1..n : a[k] = Append(front, r)[k]
      <4> SUFFICES ASSUME NEW k \in 1..n PROVE a[k] = Append(front, r)[k]
        OBVIOUS
      <4> HIDE DEF a, front, n
      <4>1. CASE k = n
        BY <2>4, <2>5, <4>1
      <4>2. CASE k # n
        BY <2>1, <2>4, <2>5, <4>2
      <4> QED
        BY <4>1, <4>2
    <3> HIDE DEF a, front, n
    <3> QED
      BY <2>4, <2>5, <3>1, SeqEqual
  <2>7. End(r) = w
    BY <1>1, <2>1, <2>2 DEF End, AnyRange
  <2> HIDE DEF a, front, n
  <2> QED
    BY <1>1, <2>1, <2>2, <2>6, <2>7 DEF a, Extends
<1>2. CASE ~(rs # <<>> /\ w = Last(rs).start + Last(rs).count + 1)
  <2> DEFINE r == [start |-> w, count |-> 0]
  <2>1. WithId(rs, w) = Append(rs, r)
    BY <1>2 DEF WithId
  <2>2. r \in AnyRange /\ End(r) = w /\ r.start = w /\ r.count = 0
    BY DEF AnyRange, End
  <2> HIDE DEF r
  <2> QED
    BY <2>1, <2>2 DEF Extends
<1> QED
  BY <1>1, <1>2

LEMMA WithIdType ==
    ASSUME NEW rs \in Seq(AnyRange), NEW w \in Nat
    PROVE  WithId(rs, w) \in Seq(AnyRange)
<1>1. PICK front \in Seq(AnyRange), r \in AnyRange : Extends(rs, w, front, r)
  BY WithIdCases
<1>2. WithId(rs, w) = Append(front, r)
  BY <1>1 DEF Extends
<1>3. Append(front, r) \in Seq(AnyRange)
  BY AppendProperties
<1> QED
  BY <1>2, <1>3

LEMMA WithRangeType ==
    ASSUME NEW ws \in Seq(Nat), NEW r \in AnyRange
    PROVE  /\ WithRange(ws, r) \in Seq(Nat)
           /\ Len(WithRange(ws, r)) = Len(ws) + r.count + 1
           /\ \A i \in 1..(Len(ws) + r.count + 1) :
                 WithRange(ws, r)[i] = IF i <= Len(ws) THEN ws[i] ELSE r.start + (i - Len(ws)) - 1
<1> DEFINE m == r.count + 1
           t == [i \in 1..m |-> r.start + i - 1]
<1>1. r.start \in Nat /\ r.count \in Nat /\ m \in Nat
  BY DEF AnyRange
<1>2. t \in Seq(Nat) /\ Len(t) = m /\ \A i \in 1..m : t[i] = r.start + i - 1
  <2>1. \A i \in 1..m : r.start + i - 1 \in Nat
    BY <1>1
  <2> HIDE DEF m
  <2> QED
    BY <1>1, <2>1
<1>3. WithRange(ws, r) = ws \o t
  BY DEF WithRange
<1>4. Len(ws) \in Nat
  BY LenProperties
<1> HIDE DEF t
<1>5. /\ ws \o t \in Seq(Nat) /\ Len(ws \o t) = Len(ws) + m
      /\ \A i \in 1..(Len(ws) + m) : (ws \o t)[i] = IF i <= Len(ws) THEN ws[i] ELSE t[i - Len(ws)]
  <2>1. /\ ws \o t \in Seq(Nat) /\ Len(ws \o t) = Len(ws) + Len(t)
        /\ \A i \in 1..(Len(ws) + Len(t)) :
              (ws \o t)[i] = IF i <= Len(ws) THEN ws[i] ELSE t[i - Len(ws)]
    BY <1>2, ConcatProperties
  <2> QED
    BY <1>2, <2>1
<1>6. Len(ws) + m = Len(ws) + r.count + 1
  BY <1>1, <1>4
<1>7. ASSUME NEW i \in 1..(Len(ws) + r.count + 1), ~(i <= Len(ws))
      PROVE  t[i - Len(ws)] = r.start + (i - Len(ws)) - 1
  <2>1. i - Len(ws) \in 1..m
    BY <1>1, <1>4, <1>7
  <2> HIDE DEF m
  <2> QED
    BY <1>2, <2>1
<1> HIDE DEF m
<1> QED
  BY <1>3, <1>5, <1>6, <1>7

\* Ranges, position by position.
LEMMA RangesSteps ==
    ASSUME NEW ws \in Seq(Nat)
    PROVE  \E fun \in [0..Len(ws) -> Seq(AnyRange)] :
              /\ fun[0] = <<>>
              /\ \A k \in 1..Len(ws) : fun[k] = WithId(fun[k - 1], ws[k])
              /\ Ranges(ws) = fun[Len(ws)]
<1> DEFINE n == Len(ws)
           V == Seq(AnyRange)
           zero == <<>>
           step == [k \in 1..n |-> [v \in V |-> WithId(v, ws[k])]]
           Folded(h) == h = [s \in SUBSET (DOMAIN ws) |->
               IF s = {} THEN <<>> ELSE WithId(h[s \ {Max(s)}], ws[Max(s)])]
<1>1. n \in Nat /\ DOMAIN ws = 1..n /\ (\A k \in 1..n : ws[k] \in Nat) /\ zero \in V
  BY LenProperties, ElementOfSeq, EmptySeq
<1>2. \A k \in 1..n, v \in V : WithId(v, ws[k]) \in V
  BY <1>1, WithIdType
<1>3. step \in Steps(n, V)
  <2>1. step \in [1..n -> [V -> V]]
    BY <1>2
  <2> QED
    BY <2>1 DEF Steps
<1>4. PICK g \in [SUBSET (1..n) -> V] :
         \A s \in SUBSET (1..n) : g[s] = IF s = {} THEN zero ELSE step[Max(s)][g[s \ {Max(s)}]]
  <2> HIDE DEF n, V, zero, step
  <2>1. Foldings(n, V, zero, step) # {}
    BY <1>1, <1>3, FoldingExists
  <2> QED
    BY <2>1 DEF Foldings
<1>5. Folded(g)
  <2>1. ASSUME NEW s \in SUBSET (1..n)
        PROVE  g[s] = IF s = {} THEN zero ELSE WithId(g[s \ {Max(s)}], ws[Max(s)])
    <3>1. CASE s = {}
      BY <1>4, <3>1
    <3>2. CASE s # {}
      <4>1. Max(s) \in 1..n /\ s \ {Max(s)} \in SUBSET (1..n)
        BY <1>1, <3>2, GreatestOfSubset
      <4>2. g[s \ {Max(s)}] \in V
        BY <4>1
      <4> HIDE DEF V
      <4>3. step[Max(s)][g[s \ {Max(s)}]] = WithId(g[s \ {Max(s)}], ws[Max(s)])
        BY <4>1, <4>2
      <4> QED
        BY <1>4, <3>2, <4>3
    <3> QED
      BY <3>1, <3>2
  <2> HIDE DEF step, n, V
  <2> QED
    BY <1>1, <2>1
<1>6. PICK h : Folded(h) /\ Ranges(ws) = h[DOMAIN ws]
  BY <1>5 DEF Ranges, FoldLeft, MapThenFoldSet, WithId
<1>7. h[{}] = zero
  BY <1>1, <1>6
<1>8. ASSUME NEW k \in 1..n PROVE h[1..k] = WithId(h[1..(k - 1)], ws[k])
  <2>3. k \in Nat /\ k # 0 /\ k \in 1..k /\ k <= n
    BY <1>1
  <2>1. k \in Nat /\ k # 0 /\ 1..k # {} /\ 1..k \in SUBSET (1..n)
    <3>1. 1..k # {}
      BY <2>3
    <3>2. \A y \in 1..k : y \in 1..n
      BY <1>1, <2>3
    <3> QED
      BY <2>3, <3>1, <3>2
  <2>2. Max(1..k) = k /\ 1..k \ {k} = 1..(k - 1)
    BY <2>1, GreatestOfInterval
  <2> HIDE DEF n
  <2> QED
    BY <1>1, <1>6, <2>1, <2>2
<1> DEFINE fun == [k \in 0..n |-> h[1..k]]
<1>9. fun \in [0..n -> V]
  <2>1. \A k \in 1..n : h[1..(k - 1)] \in V => h[1..k] \in V
    BY <1>2, <1>8
  <2> HIDE DEF n, V, zero
  <2> QED
    BY <1>1, <1>7, <2>1, FoldSteps
<1>10. fun[0] = zero /\ fun[n] = h[1..n]
  <2>1. 1..0 = {} /\ 0 \in 0..n /\ n \in 0..n
    BY <1>1
  <2> HIDE DEF n, zero
  <2> QED
    BY <1>7, <2>1
<1>11. ASSUME NEW k \in 1..n PROVE fun[k] = WithId(fun[k - 1], ws[k])
  <2>1. k \in 0..n /\ k - 1 \in 0..n
    BY <1>1
  <2> HIDE DEF n
  <2> QED
    BY <1>8, <2>1
<1> HIDE DEF fun
<1> QED
  BY <1>1, <1>6, <1>9, <1>10, <1>11

\* ParseMetadata, position by position.
LEMMA ParseSteps ==
    ASSUME NEW rs \in Seq(AnyRange)
    PROVE  \E fun \in [0..Len(rs) -> Seq(Nat)] :
              /\ fun[0] = <<>>
              /\ \A k \in 1..Len(rs) : fun[k] = WithRange(fun[k - 1], rs[k])
              /\ ParseMetadata(rs) = fun[Len(rs)]
<1> DEFINE n == Len(rs)
           V == Seq(Nat)
           zero == <<>>
           step == [k \in 1..n |-> [v \in V |-> WithRange(v, rs[k])]]
           Folded(h) == h = [s \in SUBSET (DOMAIN rs) |->
               IF s = {} THEN <<>> ELSE WithRange(h[s \ {Max(s)}], rs[Max(s)])]
<1>1. n \in Nat /\ DOMAIN rs = 1..n /\ (\A k \in 1..n : rs[k] \in AnyRange) /\ zero \in V
  BY LenProperties, ElementOfSeq, EmptySeq
<1>2. \A k \in 1..n, v \in V : WithRange(v, rs[k]) \in V
  BY <1>1, WithRangeType
<1>3. step \in Steps(n, V)
  <2>1. step \in [1..n -> [V -> V]]
    BY <1>2
  <2> QED
    BY <2>1 DEF Steps
<1>4. PICK g \in [SUBSET (1..n) -> V] :
         \A s \in SUBSET (1..n) : g[s] = IF s = {} THEN zero ELSE step[Max(s)][g[s \ {Max(s)}]]
  <2> HIDE DEF n, V, zero, step
  <2>1. Foldings(n, V, zero, step) # {}
    BY <1>1, <1>3, FoldingExists
  <2> QED
    BY <2>1 DEF Foldings
<1>5. Folded(g)
  <2>1. ASSUME NEW s \in SUBSET (1..n)
        PROVE  g[s] = IF s = {} THEN zero ELSE WithRange(g[s \ {Max(s)}], rs[Max(s)])
    <3>1. CASE s = {}
      BY <1>4, <3>1
    <3>2. CASE s # {}
      <4>1. Max(s) \in 1..n /\ s \ {Max(s)} \in SUBSET (1..n)
        BY <1>1, <3>2, GreatestOfSubset
      <4>2. g[s \ {Max(s)}] \in V
        BY <4>1
      <4> HIDE DEF V
      <4>3. step[Max(s)][g[s \ {Max(s)}]] = WithRange(g[s \ {Max(s)}], rs[Max(s)])
        BY <4>1, <4>2
      <4> QED
        BY <1>4, <3>2, <4>3
    <3> QED
      BY <3>1, <3>2
  <2> HIDE DEF step, n, V
  <2> QED
    BY <1>1, <2>1
<1>6. PICK h : Folded(h) /\ ParseMetadata(rs) = h[DOMAIN rs]
  BY <1>5 DEF ParseMetadata, FoldLeft, MapThenFoldSet, WithRange
<1>7. h[{}] = zero
  BY <1>1, <1>6
<1>8. ASSUME NEW k \in 1..n PROVE h[1..k] = WithRange(h[1..(k - 1)], rs[k])
  <2>3. k \in Nat /\ k # 0 /\ k \in 1..k /\ k <= n
    BY <1>1
  <2>1. k \in Nat /\ k # 0 /\ 1..k # {} /\ 1..k \in SUBSET (1..n)
    <3>1. 1..k # {}
      BY <2>3
    <3>2. \A y \in 1..k : y \in 1..n
      BY <1>1, <2>3
    <3> QED
      BY <2>3, <3>1, <3>2
  <2>2. Max(1..k) = k /\ 1..k \ {k} = 1..(k - 1)
    BY <2>1, GreatestOfInterval
  <2> HIDE DEF n
  <2> QED
    BY <1>1, <1>6, <2>1, <2>2
<1> DEFINE fun == [k \in 0..n |-> h[1..k]]
<1>9. fun \in [0..n -> V]
  <2>1. \A k \in 1..n : h[1..(k - 1)] \in V => h[1..k] \in V
    BY <1>2, <1>8
  <2> HIDE DEF n, V, zero
  <2> QED
    BY <1>1, <1>7, <2>1, FoldSteps
<1>10. fun[0] = zero /\ fun[n] = h[1..n]
  <2>1. 1..0 = {} /\ 0 \in 0..n /\ n \in 0..n
    BY <1>1
  <2> HIDE DEF n, zero
  <2> QED
    BY <1>7, <2>1
<1>11. ASSUME NEW k \in 1..n PROVE fun[k] = WithRange(fun[k - 1], rs[k])
  <2>1. k \in 0..n /\ k - 1 \in 0..n
    BY <1>1
  <2> HIDE DEF n
  <2> QED
    BY <1>8, <2>1
<1> HIDE DEF fun
<1> QED
  BY <1>1, <1>6, <1>9, <1>10, <1>11

\* Total, position by position.
LEMMA TotalSteps ==
    ASSUME NEW rs \in Seq(AnyRange)
    PROVE  \E fun \in [0..Len(rs) -> Nat] :
              /\ fun[0] = 0
              /\ \A k \in 1..Len(rs) : fun[k] = (fun[k - 1]) + rs[k].count + 1
              /\ Total(rs) = fun[Len(rs)]
<1> DEFINE n == Len(rs)
           V == Nat
           zero == 0
           step == [k \in 1..n |-> [v \in V |-> v + rs[k].count + 1]]
           Folded(h) == h = [s \in SUBSET (DOMAIN rs) |->
               IF s = {} THEN 0 ELSE (h[s \ {Max(s)}]) + rs[Max(s)].count + 1]
<1>1. n \in Nat /\ DOMAIN rs = 1..n /\ (\A k \in 1..n : rs[k] \in AnyRange) /\ zero \in V
  BY LenProperties, ElementOfSeq, EmptySeq
<1>2. \A k \in 1..n, v \in V : v + rs[k].count + 1 \in V
  BY <1>1 DEF AnyRange
<1>3. step \in Steps(n, V)
  <2>1. step \in [1..n -> [V -> V]]
    BY <1>2
  <2> QED
    BY <2>1 DEF Steps
<1>4. PICK g \in [SUBSET (1..n) -> V] :
         \A s \in SUBSET (1..n) : g[s] = IF s = {} THEN zero ELSE step[Max(s)][g[s \ {Max(s)}]]
  <2> HIDE DEF n, V, zero, step
  <2>1. Foldings(n, V, zero, step) # {}
    BY <1>1, <1>3, FoldingExists
  <2> QED
    BY <2>1 DEF Foldings
<1>5. Folded(g)
  <2>1. ASSUME NEW s \in SUBSET (1..n)
        PROVE  g[s] = IF s = {} THEN zero ELSE (g[s \ {Max(s)}]) + rs[Max(s)].count + 1
    <3>1. CASE s = {}
      BY <1>4, <3>1
    <3>2. CASE s # {}
      <4>1. Max(s) \in 1..n /\ s \ {Max(s)} \in SUBSET (1..n)
        BY <1>1, <3>2, GreatestOfSubset
      <4>2. g[s \ {Max(s)}] \in V
        BY <4>1
      <4> HIDE DEF V
      <4>3. step[Max(s)][g[s \ {Max(s)}]] = (g[s \ {Max(s)}]) + rs[Max(s)].count + 1
        BY <4>1, <4>2
      <4> QED
        BY <1>4, <3>2, <4>3
    <3> QED
      BY <3>1, <3>2
  <2> HIDE DEF step, n, V
  <2> QED
    BY <1>1, <2>1
<1>6. PICK h : Folded(h) /\ Total(rs) = h[DOMAIN rs]
  BY <1>5 DEF Total, FoldLeft, MapThenFoldSet
<1>7. h[{}] = zero
  BY <1>1, <1>6
<1>8. ASSUME NEW k \in 1..n PROVE h[1..k] = (h[1..(k - 1)]) + rs[k].count + 1
  <2>3. k \in Nat /\ k # 0 /\ k \in 1..k /\ k <= n
    BY <1>1
  <2>1. k \in Nat /\ k # 0 /\ 1..k # {} /\ 1..k \in SUBSET (1..n)
    <3>1. 1..k # {}
      BY <2>3
    <3>2. \A y \in 1..k : y \in 1..n
      BY <1>1, <2>3
    <3> QED
      BY <2>3, <3>1, <3>2
  <2>2. Max(1..k) = k /\ 1..k \ {k} = 1..(k - 1)
    BY <2>1, GreatestOfInterval
  <2> HIDE DEF n
  <2> QED
    BY <1>1, <1>6, <2>1, <2>2
<1> DEFINE fun == [k \in 0..n |-> h[1..k]]
<1>9. fun \in [0..n -> V]
  <2>1. \A k \in 1..n : h[1..(k - 1)] \in V => h[1..k] \in V
    BY <1>2, <1>8
  <2> HIDE DEF n, V, zero
  <2> QED
    BY <1>1, <1>7, <2>1, FoldSteps
<1>10. fun[0] = zero /\ fun[n] = h[1..n]
  <2>1. 1..0 = {} /\ 0 \in 0..n /\ n \in 0..n
    BY <1>1
  <2> HIDE DEF n, zero
  <2> QED
    BY <1>7, <2>1
<1>11. ASSUME NEW k \in 1..n PROVE fun[k] = (fun[k - 1]) + rs[k].count + 1
  <2>1. k \in 0..n /\ k - 1 \in 0..n
    BY <1>1
  <2> HIDE DEF n
  <2> QED
    BY <1>8, <2>1
<1> HIDE DEF fun
<1> QED
  BY <1>1, <1>6, <1>9, <1>10, <1>11

\* One more ID, and one more range.
LEMMA RangesOfAppend ==
    ASSUME NEW s \in Seq(Nat), NEW w \in Nat
    PROVE  /\ Ranges(s) \in Seq(AnyRange) /\ Ranges(<<>>) = <<>>
           /\ Ranges(Append(s, w)) = WithId(Ranges(s), w)
<1> DEFINE n == Len(s)
           a == Append(s, w)
<1>1. /\ n \in Nat /\ a \in Seq(Nat) /\ Len(a) = n + 1
      /\ \A k \in 1..n : a[k] = s[k]
      /\ a[n + 1] = w
  BY LenProperties, AppendProperties
<1> HIDE DEF a
<1>2. PICK fun \in [0..n -> Seq(AnyRange)] :
         fun[0] = <<>> /\ (\A k \in 1..n : fun[k] = WithId(fun[k - 1], s[k])) /\ Ranges(s) = fun[n]
  BY RangesSteps
<1>3. PICK g \in [0..(n + 1) -> Seq(AnyRange)] :
         g[0] = <<>> /\ (\A k \in 1..(n + 1) : g[k] = WithId(g[k - 1], a[k])) /\ Ranges(a) = g[n + 1]
  BY <1>1, RangesSteps
<1> HIDE DEF n
<1>4. g[n] = fun[n]
  <2> DEFINE T == {k \in 0..n : g[k] = fun[k]}
  <2>1. 0 \in T
    <3>1. 0 \in 0..n /\ g[0] = fun[0]
      BY <1>1, <1>2, <1>3
    <3> QED
      BY <3>1
  <2>2. ASSUME NEW k \in 1..n, k - 1 \in T PROVE k \in T
    <3>1. k \in 0..n /\ k \in 1..(n + 1) /\ a[k] = s[k]
      <4> HIDE DEF T
      <4>1. n \in Nat
        BY <1>1
      <4>2. k \in 0..n /\ k \in 1..(n + 1)
        BY <4>1
      <4>3. a[k] = s[k]
        BY <1>1
      <4> QED
        BY <4>2, <4>3
    <3>4. g[k - 1] = fun[k - 1]
      BY <2>2
    <3>2. fun[k] = WithId(fun[k - 1], s[k])
      BY <1>2
    <3>3. g[k] = WithId(g[k - 1], a[k])
      BY <1>3, <3>1
    <3> QED
      BY <3>1, <3>2, <3>3, <3>4
  <2> HIDE DEF T
  <2>3. 0..n \subseteq T
    BY <1>1, <2>1, <2>2, InductionUpTo
  <2>4. n \in T
    BY <1>1, <2>3
  <2> QED
    BY <2>4 DEF T
<1>5. g[n + 1] = WithId(g[n], a[n + 1])
  <2>1. n + 1 \in 1..(n + 1) /\ (n + 1) - 1 = n
    BY <1>1
  <2> QED
    BY <1>3, <2>1
<1>6. Ranges(s) \in Seq(AnyRange)
  BY <1>1, <1>2
<1>7. Ranges(<<>>) = <<>>
  <2> DEFINE none == <<>>
  <2>1. none \in Seq(Nat) /\ Len(none) = 0
    BY EmptySeq
  <2> HIDE DEF none
  <2>2. Ranges(none) = <<>>
    BY <2>1, RangesSteps
  <2> QED
    BY <2>2 DEF none
<1> QED
  BY <1>1, <1>2, <1>3, <1>4, <1>5, <1>6, <1>7 DEF a

\* The IDs of one more range.
LEMMA ParseOfAppend ==
    ASSUME NEW s \in Seq(AnyRange), NEW r \in AnyRange
    PROVE  /\ ParseMetadata(s) \in Seq(Nat) /\ ParseMetadata(<<>>) = <<>>
           /\ ParseMetadata(Append(s, r)) = WithRange(ParseMetadata(s), r)
<1> DEFINE n == Len(s)
           a == Append(s, r)
<1>1. /\ n \in Nat /\ a \in Seq(AnyRange) /\ Len(a) = n + 1
      /\ \A k \in 1..n : a[k] = s[k]
      /\ a[n + 1] = r
  BY LenProperties, AppendProperties
<1> HIDE DEF a
<1>2. PICK fun \in [0..n -> Seq(Nat)] :
         fun[0] = <<>> /\ (\A k \in 1..n : fun[k] = WithRange(fun[k - 1], s[k])) /\ ParseMetadata(s) = fun[n]
  BY ParseSteps
<1>3. PICK g \in [0..(n + 1) -> Seq(Nat)] :
         g[0] = <<>> /\ (\A k \in 1..(n + 1) : g[k] = WithRange(g[k - 1], a[k])) /\ ParseMetadata(a) = g[n + 1]
  BY <1>1, ParseSteps
<1> HIDE DEF n
<1>4. g[n] = fun[n]
  <2> DEFINE T == {k \in 0..n : g[k] = fun[k]}
  <2>1. 0 \in T
    <3>1. 0 \in 0..n /\ g[0] = fun[0]
      BY <1>1, <1>2, <1>3
    <3> QED
      BY <3>1
  <2>2. ASSUME NEW k \in 1..n, k - 1 \in T PROVE k \in T
    <3>1. k \in 0..n /\ k \in 1..(n + 1) /\ a[k] = s[k]
      <4> HIDE DEF T
      <4>1. n \in Nat
        BY <1>1
      <4>2. k \in 0..n /\ k \in 1..(n + 1)
        BY <4>1
      <4>3. a[k] = s[k]
        BY <1>1
      <4> QED
        BY <4>2, <4>3
    <3>4. g[k - 1] = fun[k - 1]
      BY <2>2
    <3>2. fun[k] = WithRange(fun[k - 1], s[k])
      BY <1>2
    <3>3. g[k] = WithRange(g[k - 1], a[k])
      BY <1>3, <3>1
    <3> QED
      BY <3>1, <3>2, <3>3, <3>4
  <2> HIDE DEF T
  <2>3. 0..n \subseteq T
    BY <1>1, <2>1, <2>2, InductionUpTo
  <2>4. n \in T
    BY <1>1, <2>3
  <2> QED
    BY <2>4 DEF T
<1>5. g[n + 1] = WithRange(g[n], a[n + 1])
  <2>1. n + 1 \in 1..(n + 1) /\ (n + 1) - 1 = n
    BY <1>1
  <2> QED
    BY <1>3, <2>1
<1>6. ParseMetadata(s) \in Seq(Nat)
  BY <1>1, <1>2
<1>7. ParseMetadata(<<>>) = <<>>
  <2> DEFINE none == <<>>
  <2>1. none \in Seq(AnyRange) /\ Len(none) = 0
    BY EmptySeq
  <2> HIDE DEF none
  <2>2. ParseMetadata(none) = <<>>
    BY <2>1, ParseSteps
  <2> QED
    BY <2>2 DEF none
<1> QED
  BY <1>1, <1>2, <1>3, <1>4, <1>5, <1>6, <1>7 DEF a

\* The number of IDs of one more range.
LEMMA TotalOfAppend ==
    ASSUME NEW s \in Seq(AnyRange), NEW r \in AnyRange
    PROVE  /\ Total(s) \in Nat /\ Total(<<>>) = 0
           /\ Total(Append(s, r)) = Total(s) + r.count + 1
<1> DEFINE n == Len(s)
           a == Append(s, r)
<1>1. /\ n \in Nat /\ a \in Seq(AnyRange) /\ Len(a) = n + 1
      /\ \A k \in 1..n : a[k] = s[k]
      /\ a[n + 1] = r
  BY LenProperties, AppendProperties
<1> HIDE DEF a
<1>2. PICK fun \in [0..n -> Nat] :
         fun[0] = 0 /\ (\A k \in 1..n : fun[k] = fun[k - 1] + s[k].count + 1) /\ Total(s) = fun[n]
  BY TotalSteps
<1>3. PICK g \in [0..(n + 1) -> Nat] :
         g[0] = 0 /\ (\A k \in 1..(n + 1) : g[k] = g[k - 1] + a[k].count + 1) /\ Total(a) = g[n + 1]
  BY <1>1, TotalSteps
<1> HIDE DEF n
<1>4. g[n] = fun[n]
  <2> DEFINE T == {k \in 0..n : g[k] = fun[k]}
  <2>1. 0 \in T
    <3>1. 0 \in 0..n /\ g[0] = fun[0]
      BY <1>1, <1>2, <1>3
    <3> QED
      BY <3>1
  <2>2. ASSUME NEW k \in 1..n, k - 1 \in T PROVE k \in T
    <3>1. k \in 0..n /\ k \in 1..(n + 1) /\ a[k] = s[k]
      <4> HIDE DEF T
      <4>1. n \in Nat
        BY <1>1
      <4>2. k \in 0..n /\ k \in 1..(n + 1)
        BY <4>1
      <4>3. a[k] = s[k]
        BY <1>1
      <4> QED
        BY <4>2, <4>3
    <3>4. g[k - 1] = fun[k - 1]
      BY <2>2
    <3>2. fun[k] = fun[k - 1] + s[k].count + 1
      BY <1>2
    <3>3. g[k] = g[k - 1] + a[k].count + 1
      BY <1>3, <3>1
    <3> QED
      BY <3>1, <3>2, <3>3, <3>4
  <2> HIDE DEF T
  <2>3. 0..n \subseteq T
    BY <1>1, <2>1, <2>2, InductionUpTo
  <2>4. n \in T
    BY <1>1, <2>3
  <2> QED
    BY <2>4 DEF T
<1>5. g[n + 1] = g[n] + a[n + 1].count + 1
  <2>1. n + 1 \in 1..(n + 1) /\ (n + 1) - 1 = n
    BY <1>1
  <2> QED
    BY <1>3, <2>1
<1>6. Total(s) \in Nat
  BY <1>1, <1>2
<1>7. Total(<<>>) = 0
  <2> DEFINE none == <<>>
  <2>1. none \in Seq(AnyRange) /\ Len(none) = 0
    BY EmptySeq
  <2> HIDE DEF none
  <2>2. Total(none) = 0
    BY <2>1, TotalSteps
  <2> QED
    BY <2>2 DEF none
<1> QED
  BY <1>1, <1>2, <1>3, <1>4, <1>5, <1>6, <1>7 DEF a

-----------------------------------------------------------------------------
(* What is serialised is read back *)

\* One more ID in the ranges is one more ID when they are read.
LEMMA ParseWithId ==
    ASSUME NEW rs \in Seq(AnyRange), NEW w \in Nat
    PROVE  /\ ParseMetadata(WithId(rs, w)) = Append(ParseMetadata(rs), w)
           /\ Total(WithId(rs, w)) = Total(rs) + 1
<1>1. PICK front \in Seq(AnyRange), r \in AnyRange : Extends(rs, w, front, r)
  BY WithIdCases
<1> DEFINE before == ParseMetadata(front)
           after == WithRange(before, r)
<1>2. /\ before \in Seq(Nat) /\ Len(before) \in Nat
      /\ ParseMetadata(WithId(rs, w)) = after
      /\ Total(front) \in Nat
      /\ Total(WithId(rs, w)) = Total(front) + r.count + 1
  BY <1>1, ParseOfAppend, TotalOfAppend, LenProperties DEF Extends
<1> HIDE DEF before
<1>3. /\ after \in Seq(Nat) /\ Len(after) = Len(before) + r.count + 1
      /\ \A i \in 1..(Len(before) + r.count + 1) :
            after[i] = IF i <= Len(before) THEN before[i] ELSE r.start + (i - Len(before)) - 1
  BY <1>2, WithRangeType
<1> HIDE DEF after
<1>4. r.start \in Nat /\ r.count \in Nat
  BY DEF AnyRange
<1>5. CASE front = rs /\ r.start = w /\ r.count = 0
  <2>1. /\ Append(before, w) \in Seq(Nat) /\ Len(Append(before, w)) = Len(before) + 1
        /\ \A i \in 1..Len(before) : Append(before, w)[i] = before[i]
        /\ Append(before, w)[Len(before) + 1] = w
    BY <1>2, AppendProperties
  <2>2. Len(after) = Len(before) + 1
    BY <1>2, <1>3, <1>5
  <2>3. ASSUME NEW i \in 1..Len(after) PROVE after[i] = Append(before, w)[i]
    <3>1. CASE i <= Len(before)
      <4>1. i \in 1..Len(before) /\ i \in 1..(Len(before) + r.count + 1)
        BY <1>2, <1>3, <3>1
      <4> QED
        BY <1>3, <2>1, <3>1, <4>1
    <3>2. CASE ~(i <= Len(before))
      <4>1. i = Len(before) + 1 /\ i \in 1..(Len(before) + r.count + 1)
        BY <1>2, <1>3, <2>2, <3>2
      <4>2. after[i] = r.start + (i - Len(before)) - 1
        BY <1>3, <3>2, <4>1
      <4>3. after[i] = w
        BY <1>2, <1>5, <4>1, <4>2
      <4> QED
        BY <2>1, <4>1, <4>3
    <3> QED
      BY <3>1, <3>2
  <2>4. after = Append(before, w)
    BY <1>3, <2>1, <2>2, <2>3, SeqEqual
  <2>5. before = ParseMetadata(rs)
    BY <1>5 DEF before
  <2>6. Total(WithId(rs, w)) = Total(rs) + 1
    BY <1>2, <1>5
  <2> QED
    BY <1>2, <2>4, <2>5, <2>6
<1>6. ASSUME NEW q \in AnyRange, rs = Append(front, q),
             r.start = q.start, r.count = q.count + 1, w = q.start + q.count + 1
      PROVE  /\ ParseMetadata(WithId(rs, w)) = Append(ParseMetadata(rs), w)
             /\ Total(WithId(rs, w)) = Total(rs) + 1
  <2> DEFINE middle == WithRange(before, q)
             whole == Append(middle, w)
  <2>1. ParseMetadata(rs) = middle /\ Total(rs) = Total(front) + q.count + 1
    BY <1>6, ParseOfAppend, TotalOfAppend DEF before
  <2>2. /\ middle \in Seq(Nat) /\ Len(middle) = Len(before) + q.count + 1
        /\ \A i \in 1..(Len(before) + q.count + 1) :
              middle[i] = IF i <= Len(before) THEN before[i] ELSE q.start + (i - Len(before)) - 1
    BY <1>2, WithRangeType
  <2> HIDE DEF middle
  <2>3. q.start \in Nat /\ q.count \in Nat
    BY DEF AnyRange
  <2>4. /\ whole \in Seq(Nat) /\ Len(whole) = Len(middle) + 1
        /\ \A i \in 1..Len(middle) : whole[i] = middle[i]
        /\ whole[Len(middle) + 1] = w
    BY <2>2, AppendProperties
  <2> HIDE DEF whole
  <2>5. Len(whole) = Len(after)
    BY <1>2, <1>3, <1>6, <2>2, <2>3, <2>4
  <2>6. ASSUME NEW i \in 1..Len(after) PROVE after[i] = whole[i]
    <3>0. i \in 1..(Len(before) + r.count + 1) /\ i \in Nat
      BY <1>3
    <3>1. CASE i <= Len(middle)
      <4>1. i \in 1..Len(middle) /\ i \in 1..(Len(before) + q.count + 1)
        BY <1>2, <2>2, <2>3, <3>0, <3>1
      <4>2. whole[i] = middle[i]
        BY <2>4, <4>1
      <4>3. middle[i] = IF i <= Len(before) THEN before[i] ELSE q.start + (i - Len(before)) - 1
        BY <2>2, <4>1
      <4>4. after[i] = IF i <= Len(before) THEN before[i] ELSE r.start + (i - Len(before)) - 1
        BY <1>3, <3>0
      <4> QED
        BY <1>6, <4>2, <4>3, <4>4
    <3>2. CASE ~(i <= Len(middle))
      <4>4. Len(middle) \in Nat /\ Len(after) = Len(middle) + 1 /\ i <= Len(after)
        BY <1>2, <2>2, <2>3, <2>4, <2>5
      <4>5. i = Len(middle) + 1
        BY <3>0, <3>2, <4>4
      <4>7. Len(middle) = Len(before) + q.count + 1 /\ Len(before) \in Nat
        BY <1>2, <2>2
      <4>8. q.count \in Nat /\ i = (Len(before) + q.count + 1) + 1
        BY <2>3, <4>5, <4>7
      <4>6. i - Len(before) = q.count + 2
        <5>1. \A x, y \in Nat : ((x + y + 1) + 1) - x = y + 2
          OBVIOUS
        <5> QED
          BY <4>7, <4>8, <5>1, Zenon
      <4>1. i = Len(middle) + 1 /\ ~(i <= Len(before))
        BY <1>2, <2>3, <3>0, <4>5, <4>6
      <4>2. after[i] = r.start + (i - Len(before)) - 1
        BY <1>3, <3>0, <4>1
      <4>3. after[i] = w
        <5>1. after[i] = q.start + (q.count + 2) - 1
          BY <1>6, <4>2, <4>6
        <5> QED
          BY <1>6, <2>3, <5>1
      <4> QED
        BY <2>4, <4>1, <4>3
    <3> QED
      BY <3>1, <3>2
  <2>7. after = whole
    BY <1>3, <2>4, <2>5, <2>6, SeqEqual
  <2>8. Total(WithId(rs, w)) = Total(rs) + 1
    BY <1>2, <1>6, <2>1, <2>3
  <2> QED
    BY <1>2, <2>1, <2>7, <2>8 DEF whole
<1> QED
  BY <1>1, <1>5, <1>6 DEF Extends

\* Reading the ranges of a slice gives the slice, in order or not.
THEOREM RoundTrip ==
    ASSUME NEW ws \in Seq(Nat)
    PROVE  /\ Ranges(ws) \in Seq(AnyRange)
           /\ ParseMetadata(Ranges(ws)) = ws
           /\ Total(Ranges(ws)) = Len(ws)
<1> DEFINE T == {s \in Seq(Nat) : /\ ParseMetadata(Ranges(s)) = s
                                  /\ Total(Ranges(s)) = Len(s)}
<1>1. \A s \in Seq(Nat) : Ranges(s) \in Seq(AnyRange)
  <2> DEFINE zero == 0
  <2>1. zero \in Nat
    OBVIOUS
  <2> HIDE DEF zero
  <2> QED
    BY <2>1, RangesOfAppend
<1>2. <<>> \in T
  <2> DEFINE none == <<>>
             anyR == [start |-> 0, count |-> 0]
             zero == 0
  <2>1. none \in Seq(Nat) /\ none \in Seq(AnyRange) /\ Len(none) = 0 /\ anyR \in AnyRange /\ zero \in Nat
    BY EmptySeq DEF AnyRange
  <2> HIDE DEF zero, anyR, none
  <2>2. Ranges(<<>>) = <<>>
    BY <2>1, RangesOfAppend
  <2>3. ParseMetadata(<<>>) = <<>> /\ Total(<<>>) = 0
    BY <2>1, ParseOfAppend, TotalOfAppend
  <2> QED
    BY <2>1, <2>2, <2>3 DEF none
<1>3. ASSUME NEW s \in Seq(Nat), NEW w \in Nat, s \in T PROVE Append(s, w) \in T
  <2>1. Ranges(s) \in Seq(AnyRange) /\ Ranges(Append(s, w)) = WithId(Ranges(s), w)
    BY RangesOfAppend
  <2>2. /\ ParseMetadata(Ranges(Append(s, w))) = Append(ParseMetadata(Ranges(s)), w)
        /\ Total(Ranges(Append(s, w))) = Total(Ranges(s)) + 1
    BY <2>1, ParseWithId
  <2>3. Append(s, w) \in Seq(Nat) /\ Len(Append(s, w)) = Len(s) + 1
    BY AppendProperties
  <2> QED
    BY <1>3, <2>2, <2>3
<1>4. Seq(Nat) \subseteq T
  <2> HIDE DEF T
  <2> QED
    BY <1>2, <1>3, InductionOnSeq
<1> QED
  BY <1>1, <1>4

\* No range counts as many IDs as there are.
LEMMA CountsBelow ==
    ASSUME NEW ws \in Seq(Nat), NEW k \in 1..Len(Ranges(ws))
    PROVE  Ranges(ws)[k].count \in Nat /\ Ranges(ws)[k].count < Len(ws)
<1> DEFINE Below(rs, n) == \A j \in 1..Len(rs) : rs[j].count \in Nat /\ rs[j].count < n
           T == {s \in Seq(Nat) : Below(Ranges(s), Len(s))}
<1>1. <<>> \in T
  <2> DEFINE zero == 0
             none == <<>>
  <2>1. zero \in Nat /\ none \in Seq(Nat) /\ Len(none) = 0
    BY EmptySeq
  <2> HIDE DEF zero, none
  <2>2. Ranges(<<>>) = <<>>
    BY <2>1, RangesOfAppend
  <2>3. Len(<<>>) = 0 /\ 1..0 = {}
    OBVIOUS
  <2> QED
    BY <2>1, <2>2, <2>3 DEF none
<1>2. ASSUME NEW s \in Seq(Nat), NEW w \in Nat, s \in T PROVE Append(s, w) \in T
  <2> DEFINE rs == Ranges(s)
             n == Len(s)
  <2>1. rs \in Seq(AnyRange) /\ Ranges(Append(s, w)) = WithId(rs, w)
    BY RangesOfAppend
  <2>2. n \in Nat /\ Append(s, w) \in Seq(Nat) /\ Len(Append(s, w)) = n + 1
    BY LenProperties, AppendProperties
  <2>3. Below(rs, n)
    BY <1>2
  <2> HIDE DEF rs, n
  <2>4. PICK front \in Seq(AnyRange), r \in AnyRange : Extends(rs, w, front, r)
    BY <2>1, WithIdCases
  <2>5. /\ Len(front) \in Nat /\ Len(Append(front, r)) = Len(front) + 1
        /\ \A j \in 1..Len(front) : Append(front, r)[j] = front[j]
        /\ Append(front, r)[Len(front) + 1] = r
    BY LenProperties, AppendProperties
  <2>6. Below(front, n) /\ r.count \in Nat /\ r.count < n + 1
    <3>1. CASE front = rs /\ r.count = 0
      BY <2>2, <2>3, <3>1
    <3>2. ASSUME NEW q \in AnyRange, rs = Append(front, q), r.count = q.count + 1
          PROVE  Below(front, n) /\ r.count \in Nat /\ r.count < n + 1
      <4>1. /\ Len(rs) = Len(front) + 1
            /\ \A j \in 1..Len(front) : rs[j] = front[j]
            /\ rs[Len(front) + 1] = q
        BY <3>2, AppendProperties
      <4>2. \A j \in 1..Len(front) : j \in 1..Len(rs)
        BY <2>5, <4>1
      <4>3. Below(front, n)
        BY <2>3, <4>1, <4>2
      <4>4. Len(front) + 1 \in 1..Len(rs)
        BY <2>5, <4>1
      <4>5. q.count \in Nat /\ q.count < n
        BY <2>3, <4>1, <4>4
      <4> QED
        BY <2>2, <3>2, <4>3, <4>5
    <3> QED
      BY <2>4, <3>1, <3>2 DEF Extends
  <2>7. Below(Append(front, r), n + 1)
    <3> SUFFICES ASSUME NEW j \in 1..(Len(front) + 1)
                 PROVE  /\ Append(front, r)[j].count \in Nat
                        /\ Append(front, r)[j].count < n + 1
      BY <2>5
    <3>1. CASE j = Len(front) + 1
      BY <2>5, <2>6, <3>1
    <3>2. CASE j # Len(front) + 1
      <4>1. j \in 1..Len(front)
        BY <2>5, <3>2
      <4> QED
        BY <2>2, <2>5, <2>6, <4>1
    <3> QED
      BY <3>1, <3>2
  <2>8. Ranges(Append(s, w)) = Append(front, r)
    BY <2>1, <2>4 DEF Extends
  <2> QED
    BY <2>2, <2>7, <2>8
<1>3. Seq(Nat) \subseteq T
  <2> HIDE DEF T
  <2> QED
    BY <1>1, <1>2, InductionOnSeq
<1> QED
  BY <1>3

LEMMA ModOfSmall ==
    ASSUME NEW x \in Nat, NEW m \in Nat, x < m
    PROVE  x % m = x
<1> DEFINE q == x \div m
           r == x % m
<1>1. q \in Nat /\ r \in 0..(m - 1) /\ x = (m * q) + r
  OBVIOUS
<1> HIDE DEF q, r
<1>2. q = 0
  <2> SUFFICES ASSUME q # 0 PROVE FALSE
    OBVIOUS
  <2>1. q - 1 \in Nat /\ m * q = m * (q - 1) + m /\ m * (q - 1) \in Nat
    BY <1>1
  <2> QED
    BY <1>1, <2>1
<1>3. r = x
  BY <1>1, <1>2
<1> QED
  BY <1>3 DEF r

\* With starts and counts of 32 bits Serialize cuts nothing.
LEMMA SerializeKeeps ==
    ASSUME NEW ws \in Seq(Nat), MetadataAssumption,
           \A k \in 1..Len(Ranges(ws)) :
              Ranges(ws)[k].start < StartLimit /\ Ranges(ws)[k].count < StartLimit
    PROVE  Serialize(ws) = Ranges(ws)
<1> DEFINE rs == Ranges(ws)
           n == Len(rs)
<1>1. rs \in Seq(AnyRange) /\ n \in Nat /\ DOMAIN rs = 1..n /\ rs \in [1..n -> AnyRange]
  BY RoundTrip, LenProperties
<1>2. StartLimit \in Nat /\ StartLimit > 0
  BY DEF MetadataAssumption
<1>3. Serialize(ws) = [k \in 1..n |->
         [start |-> rs[k].start % StartLimit, count |-> rs[k].count % StartLimit]]
  BY <1>1 DEF Serialize
<1>4. ASSUME NEW k \in 1..n
      PROVE  [start |-> rs[k].start % StartLimit, count |-> rs[k].count % StartLimit] = rs[k]
  <2>1. rs[k] \in AnyRange /\ rs[k].start < StartLimit /\ rs[k].count < StartLimit
    BY <1>1
  <2> HIDE DEF rs
  <2>2. rs[k].start \in Nat /\ rs[k].count \in Nat
    BY <2>1 DEF AnyRange
  <2>3. rs[k].start % StartLimit = rs[k].start /\ rs[k].count % StartLimit = rs[k].count
    BY <1>2, <2>1, <2>2, ModOfSmall
  <2> QED
    BY <2>1, <2>3 DEF AnyRange
<1> HIDE DEF rs, n
<1>5. [k \in 1..n |-> [start |-> rs[k].start % StartLimit, count |-> rs[k].count % StartLimit]]
         = [k \in 1..n |-> rs[k]]
  BY <1>4
<1> QED
  BY <1>1, <1>3, <1>5 DEF rs

-----------------------------------------------------------------------------
(* The binary search *)

Pairs(n) == (0..n) \X (0..n)

\* Where the search goes on from the bounds b.
Middle(b) == (b[1] + b[2]) \div 2
Half(ws, id, b) ==
    IF ws[Middle(b) + 1] < id THEN <<Middle(b) + 1, b[2]>> ELSE <<b[1], Middle(b)>>

\* g gives the result of the search for all bounds.
Searches(ws, id, g) ==
    g = [b \in Pairs(Len(ws)) |-> IF b[1] >= b[2] THEN b[1] ELSE g[Half(ws, id, b)]]

LEMMA HalfType ==
    ASSUME NEW n \in Nat, NEW ws, NEW id, NEW b \in Pairs(n), b[1] < b[2]
    PROVE  /\ b[1] \in 0..n /\ b[2] \in 0..n
           /\ Middle(b) \in Nat /\ b[1] <= Middle(b) /\ Middle(b) < b[2]
           /\ Half(ws, id, b) \in Pairs(n)
           /\ Half(ws, id, b)[1] <= Half(ws, id, b)[2]
           /\ Half(ws, id, b)[2] - Half(ws, id, b)[1] <= b[2] - b[1] - 1
<1> DEFINE m == Middle(b)
<1>1. b[1] \in 0..n /\ b[2] \in 0..n
  BY DEF Pairs
<1>2. m \in Nat /\ b[1] <= m /\ m < b[2]
  BY <1>1 DEF Middle
<1>3. CASE ws[m + 1] < id
  <2>1. Half(ws, id, b) = <<m + 1, b[2]>>
    BY <1>3 DEF Half
  <2> HIDE DEF m
  <2> QED
    BY <1>1, <1>2, <2>1 DEF Pairs, m
<1>4. CASE ~(ws[m + 1] < id)
  <2>1. Half(ws, id, b) = <<b[1], m>>
    BY <1>4 DEF Half
  <2> HIDE DEF m
  <2> QED
    BY <1>1, <1>2, <2>1 DEF Pairs, m
<1> QED
  BY <1>3, <1>4

LEMMA SearchExists ==
    ASSUME NEW ws \in Seq(Nat), NEW id \in Nat
    PROVE  \E g : Searches(ws, id, g)
<1> DEFINE n == Len(ws)
           P == Pairs(n)
           F == [P -> 0..n]
           first == [b \in P |-> b[1]]
           Round(g) == [b \in P |-> IF b[1] >= b[2] THEN b[1] ELSE g[Half(ws, id, b)]]
           next == [k \in 1..n |-> [g \in F |-> Round(g)]]
<1>1. n \in Nat /\ (\A b \in P : b[1] \in 0..n /\ b[2] \in 0..n)
  BY LenProperties DEF Pairs
<1>2. \A b \in P : ~(b[1] >= b[2]) =>
         Half(ws, id, b) \in P /\ Half(ws, id, b)[2] - Half(ws, id, b)[1] <= b[2] - b[1] - 1
  <2> SUFFICES ASSUME NEW b \in P, ~(b[1] >= b[2])
               PROVE  /\ Half(ws, id, b) \in P
                      /\ Half(ws, id, b)[2] - Half(ws, id, b)[1] <= b[2] - b[1] - 1
    OBVIOUS
  <2>1. b[1] < b[2]
    BY <1>1
  <2> HIDE DEF n
  <2> QED
    BY <1>1, <2>1, HalfType
<1> HIDE DEF P
<1>3. first \in F
  BY <1>1
<1>4. ASSUME NEW g \in F PROVE Round(g) \in F
  BY <1>1, <1>2
<1>5. next \in Steps(n, F)
  <2>1. next \in [1..n -> [F -> F]]
    BY <1>4
  <2> QED
    BY <2>1 DEF Steps
<1>6. PICK fun : /\ fun \in [0..n -> F] /\ fun[0] = first
               /\ \A k \in 1..n : fun[k] = next[k][fun[k - 1]]
  <2> HIDE DEF n, F, first, next
  <2>1. Iterations(n, F, first, next) # {}
    BY <1>1, <1>3, <1>5, RecursiveFunction
  <2> QED
    BY <2>1 DEF Iterations
<1>7. ASSUME NEW k \in 1..n, NEW b \in P
      PROVE  fun[k][b] = IF b[1] >= b[2] THEN b[1] ELSE fun[k - 1][Half(ws, id, b)]
  <2> DEFINE g == fun[k - 1]
  <2>1. k - 1 \in 0..n
    BY <1>1
  <2>2. g \in F
    BY <1>6, <2>1
  <2> HIDE DEF g
  <2>3. fun[k] = Round(g)
    <3> HIDE DEF Round, F
    <3> QED
      BY <1>6, <2>2 DEF g
  <2>4. fun[k][b] = IF b[1] >= b[2] THEN b[1] ELSE g[Half(ws, id, b)]
    BY <2>3
  <2> QED
    BY <2>4 DEF g
<1>8. ASSUME NEW k \in 0..n, NEW b \in P, b[1] >= b[2] PROVE fun[k][b] = b[1]
  <2>1. CASE k = 0
    BY <1>6, <2>1
  <2>2. CASE k # 0
    <3>1. k \in 1..n
      BY <1>1, <2>2
    <3> QED
      BY <1>7, <1>8, <3>1
  <2> QED
    BY <2>1, <2>2
<1> DEFINE T == {k \in 0..n : \A b \in P : b[2] - b[1] <= k => \A j \in k..n : fun[j][b] = fun[n][b]}
<1>9. 0 \in T
  <2> SUFFICES ASSUME NEW b \in P, b[2] - b[1] <= 0, NEW j \in 0..n PROVE fun[j][b] = fun[n][b]
    BY <1>1
  <2>1. b[1] >= b[2] /\ n \in 0..n
    BY <1>1
  <2> HIDE DEF n
  <2> QED
    BY <1>8, <2>1
<1>10. ASSUME NEW k \in 1..n, k - 1 \in T PROVE k \in T
  <2> SUFFICES ASSUME NEW b \in P, b[2] - b[1] <= k, NEW j \in k..n PROVE fun[j][b] = fun[n][b]
    BY <1>1
  <2>1. j \in 1..n /\ n \in 1..n /\ j \in 0..n /\ n \in 0..n
    BY <1>1
  <2>2. CASE b[1] >= b[2]
    <3> HIDE DEF n
    <3> QED
      BY <1>8, <2>1, <2>2
  <2>3. CASE ~(b[1] >= b[2])
    <3> DEFINE c == Half(ws, id, b)
    <3>1. c \in P /\ c[2] - c[1] <= b[2] - b[1] - 1
      BY <1>2, <2>3
    <3>2. fun[j][b] = fun[j - 1][c] /\ fun[n][b] = fun[n - 1][c]
      <4> HIDE DEF n
      <4> QED
        BY <1>7, <2>1, <2>3
    <3> HIDE DEF c
    <3>3. c[2] - c[1] <= k - 1
      <4>1. k \in Int /\ b[2] - b[1] <= k
        BY <1>1
      <4>2. b[1] \in Int /\ b[2] \in Int /\ c[1] \in Int /\ c[2] \in Int
        BY <1>1, <3>1
      <4> HIDE DEF n
      <4> QED
        BY <3>1, <4>1, <4>2
    <3>4. j - 1 \in (k - 1)..n /\ n - 1 \in (k - 1)..n
      BY <1>1
    <3>5. fun[j - 1][c] = fun[n][c] /\ fun[n - 1][c] = fun[n][c]
      BY <1>10, <3>1, <3>3, <3>4
    <3> QED
      BY <3>2, <3>5
  <2> QED
    BY <2>2, <2>3
<1>11. 0..n \subseteq T
  <2> HIDE DEF T, n
  <2> QED
    BY <1>1, <1>9, <1>10, InductionUpTo
<1>12. ASSUME NEW b \in P
       PROVE  fun[n][b] = IF b[1] >= b[2] THEN b[1] ELSE fun[n][Half(ws, id, b)]
  <2>1. CASE b[1] >= b[2]
    <3>1. n \in 0..n
      BY <1>1
    <3> HIDE DEF n
    <3> QED
      BY <1>8, <2>1, <3>1
  <2>2. CASE ~(b[1] >= b[2])
    <3> DEFINE c == Half(ws, id, b)
    <3>1. c \in P /\ c[2] - c[1] <= b[2] - b[1] - 1
      BY <1>2, <2>2
    <3>2. n \in 1..n /\ n - 1 \in 0..n /\ n - 1 \in (n - 1)..n
      BY <1>1, <2>2
    <3>3. fun[n][b] = fun[n - 1][c]
      <4> HIDE DEF n
      <4> QED
        BY <1>7, <2>2, <3>2
    <3> HIDE DEF c
    <3>4. c[2] - c[1] <= n - 1
      BY <1>1, <3>1
    <3>5. fun[n - 1][c] = fun[n][c]
      BY <1>11, <3>1, <3>2, <3>4
    <3> QED
      BY <2>2, <3>3, <3>5 DEF c
  <2> QED
    BY <2>1, <2>2
<1> DEFINE g == fun[n]
<1>13. g \in F
  <2>1. n \in 0..n
    BY <1>1
  <2> HIDE DEF n, F
  <2> QED
    BY <1>6, <2>1
<1>14. Searches(ws, id, g)
  <2> HIDE DEF g
  <2>1. \A b \in P : g[b] = IF b[1] >= b[2] THEN b[1] ELSE g[Half(ws, id, b)]
    BY <1>12 DEF g
  <2> QED
    BY <1>13, <2>1 DEF Searches, P
<1> QED
  BY <1>14

\* The search ends inside the slice and, on a sorted one, right after the IDs
\* below the one looked for.
THEOREM SearchFinds ==
    ASSUME NEW ws \in Seq(Nat), NEW id \in Nat
    PROVE  /\ sortInsertPos(ws, id) \in 0..Len(ws)
           /\ Sorted(ws) =>
                 \A i \in 1..Len(ws) : ws[i] < id <=> i <= sortInsertPos(ws, id)
<1> DEFINE n == Len(ws)
           P == Pairs(n)
<1>1. n \in Nat /\ (\A b \in P : b[1] \in 0..n /\ b[2] \in 0..n) /\ (\A i \in 1..n : ws[i] \in Nat)
  BY LenProperties, ElementOfSeq DEF Pairs
<1> DEFINE Round(fun) ==
               [between \in (0..Len(ws)) \X (0..Len(ws)) |->
                   LET low == between[1]
                       high == between[2]
                       mid == (low + high) \div 2
                   IN  IF low >= high THEN low
                       ELSE IF ws[mid + 1] < id THEN fun[<<mid + 1, high>>] ELSE fun[<<low, mid>>]]
           g == CHOOSE fun : fun = Round(fun)
<1>2. g = Round(g) /\ sortInsertPos(ws, id) = g[<<0, n>>]
  <2>1. PICK fun : Searches(ws, id, fun)
    BY SearchExists
  <2>2. fun = Round(fun)
    <3>1. \A b \in P : Round(fun)[b] = IF b[1] >= b[2] THEN b[1] ELSE fun[Half(ws, id, b)]
      BY DEF Pairs, Half, Middle
    <3>2. Round(fun) = [b \in P |-> Round(fun)[b]]
      BY DEF Pairs
    <3>3. fun = [b \in P |-> IF b[1] >= b[2] THEN b[1] ELSE fun[Half(ws, id, b)]]
      BY <2>1 DEF Searches
    <3> HIDE DEF Round, P
    <3> QED
      BY <3>1, <3>2, <3>3
  <2>3. g = Round(g)
    <3> HIDE DEF Round
    <3> QED
      BY <2>2
  <2>4. sortInsertPos(ws, id) = g[<<0, n>>]
    BY DEF sortInsertPos
  <2> QED
    BY <2>3, <2>4
<1>3. \A b \in P : g[b] = IF b[1] >= b[2] THEN b[1] ELSE g[Half(ws, id, b)]
  <2> HIDE DEF g
  <2>1. \A b \in P : Round(g)[b] = IF b[1] >= b[2] THEN b[1] ELSE g[Half(ws, id, b)]
    BY DEF Pairs, Half, Middle
  <2> HIDE DEF Round
  <2> QED
    BY <1>2, <2>1
<1> HIDE DEF g
\* What lies outside the bounds is on its side.
<1> DEFINE Outside(b) == /\ \A i \in 1..n : i <= b[1] => ws[i] < id
                         /\ \A i \in 1..n : i > b[2] => ~(ws[i] < id)
           Splits(p) == \A i \in 1..n : ws[i] < id <=> i <= p
           Right(b) == g[b] \in b[1]..b[2] /\ (Sorted(ws) /\ Outside(b) => Splits(g[b]))
           T == {k \in 0..n : \A b \in P : b[1] <= b[2] /\ b[2] - b[1] <= k => Right(b)}
<1>4. ASSUME NEW b \in P, b[1] = b[2] PROVE Right(b)
  <2>1. g[b] = b[1]
    BY <1>1, <1>3, <1>4
  <2> QED
    BY <1>1, <1>4, <2>1
<1>5. 0 \in T
  <2> SUFFICES ASSUME NEW b \in P, b[1] <= b[2], b[2] - b[1] <= 0 PROVE Right(b)
    BY <1>1
  <2>1. b[1] = b[2]
    BY <1>1
  <2> HIDE DEF Right
  <2> QED
    BY <1>4, <2>1
<1>6. ASSUME NEW k \in 1..n, k - 1 \in T PROVE k \in T
  <2> SUFFICES ASSUME NEW b \in P, b[1] <= b[2], b[2] - b[1] <= k PROVE Right(b)
    BY <1>1
  <2>1. CASE b[1] = b[2]
    <3> HIDE DEF Right
    <3> QED
      BY <1>4, <2>1
  <2>2. CASE b[1] # b[2]
    <3> DEFINE c == Half(ws, id, b)
               m == Middle(b)
    <3>1. b[1] < b[2] /\ b[1] \in 0..n /\ b[2] \in 0..n
      BY <1>1, <2>2
    <3>2. /\ m \in Nat /\ b[1] <= m /\ m < b[2] /\ c \in P
          /\ c[1] <= c[2] /\ c[2] - c[1] <= b[2] - b[1] - 1
      <4> HIDE DEF n
      <4> QED
        BY <1>1, <3>1, HalfType
    <3>3. g[b] = g[c]
      <4>1. ~(b[1] >= b[2])
        BY <1>1, <3>1
      <4> HIDE DEF P, n, c
      <4>2. g[b] = IF b[1] >= b[2] THEN b[1] ELSE g[c]
        BY <1>3, Zenon DEF c
      <4> QED
        BY <4>1, <4>2, Zenon
    <3>4. c = IF ws[m + 1] < id THEN <<m + 1, b[2]>> ELSE <<b[1], m>>
      BY DEF Half
    <3>5. c[1] \in 0..n /\ c[2] \in 0..n /\ m + 1 \in 1..n
      <4> HIDE DEF c, m, n, P
      <4>1. c[1] \in 0..n /\ c[2] \in 0..n
        BY <1>1, <3>2
      <4>2. m + 1 \in 1..n
        BY <1>1, <3>1, <3>2
      <4> QED
        BY <4>1, <4>2
    <3> HIDE DEF c, m
    <3>6. c[2] - c[1] <= k - 1
      <4>1. k \in Int /\ n \in Nat
        BY <1>1
      <4>2. c[2] - c[1] <= b[2] - b[1] - 1 /\ b[2] - b[1] <= k
        BY <3>2
      <4> HIDE DEF P, n
      <4>3. b[1] \in Int /\ b[2] \in Int /\ c[1] \in Int /\ c[2] \in Int
        BY <3>1, <3>5, <4>1
      <4> QED
        BY <4>1, <4>2, <4>3
    <3>7. Right(c)
      <4>1. ASSUME NEW d \in P, d[1] <= d[2], d[2] - d[1] <= k - 1 PROVE Right(d)
        <5> HIDE DEF Right, P
        <5> QED
          BY <1>6, <4>1
      <4> HIDE DEF Right, P
      <4> QED
        BY <3>2, <3>6, <4>1
    <3>8. b[1] <= c[1] /\ c[2] <= b[2]
      BY <3>1, <3>2, <3>4
    <3>9. g[b] \in b[1]..b[2]
      <4>1. g[c] \in c[1]..c[2]
        BY <3>7
      <4> DEFINE found == g[c]
      <4> HIDE DEF found, Right, P, n
      <4>2. found \in c[1]..c[2]
        BY <4>1 DEF found
      <4>3. b[1] \in Int /\ b[2] \in Int /\ c[1] \in Int /\ c[2] \in Int
        BY <3>1, <3>5
      <4>4. found \in b[1]..b[2]
        BY <3>8, <4>2, <4>3
      <4> QED
        BY <3>3, <4>4 DEF found
    <3>10. ASSUME Sorted(ws), Outside(b) PROVE Outside(c)
      <4>1. CASE ws[m + 1] < id
        <5>1. c[1] = m + 1 /\ c[2] = b[2]
          BY <3>4, <4>1
        <5>2. ASSUME NEW i \in 1..n, i <= m + 1 PROVE ws[i] < id
          <6>1. CASE i = m + 1
            BY <4>1, <6>1
          <6>2. CASE i # m + 1
            <7>1. i < m + 1 /\ ws[i] \in Nat /\ ws[m + 1] \in Nat
              BY <1>1, <3>2, <3>5, <5>2, <6>2
            <7>2. ws[i] < ws[m + 1]
              BY <3>5, <3>10, <7>1 DEF Sorted
            <7> QED
              BY <4>1, <7>1, <7>2
          <6> QED
            BY <6>1, <6>2
        <5> QED
          BY <3>10, <5>1, <5>2
      <4>2. CASE ~(ws[m + 1] < id)
        <5>1. c[1] = b[1] /\ c[2] = m
          BY <3>4, <4>2
        <5>2. ASSUME NEW i \in 1..n, i > m PROVE ~(ws[i] < id)
          <6>1. CASE i = m + 1
            BY <4>2, <6>1
          <6>2. CASE i # m + 1
            <7>1. m + 1 < i /\ ws[i] \in Nat /\ ws[m + 1] \in Nat
              BY <1>1, <3>2, <3>5, <5>2, <6>2
            <7>2. ws[m + 1] < ws[i]
              BY <3>5, <3>10, <7>1 DEF Sorted
            <7> QED
              BY <4>2, <7>1, <7>2
          <6> QED
            BY <6>1, <6>2
        <5> QED
          BY <3>10, <5>1, <5>2
      <4> QED
        BY <4>1, <4>2
    <3>11. Sorted(ws) /\ Outside(b) => Splits(g[b])
      <4> HIDE DEF Outside, Splits
      <4> QED
        BY <3>3, <3>7, <3>10
    <3> HIDE DEF Outside, Splits
    <3> QED
      BY <3>9, <3>11
  <2> QED
    BY <2>1, <2>2
<1>7. 0..n \subseteq T
  <2> HIDE DEF T, n
  <2> QED
    BY <1>1, <1>5, <1>6, InductionUpTo
<1> DEFINE all == <<0, n>>
<1>8. all \in P /\ all[1] = 0 /\ all[2] = n /\ all[1] <= all[2] /\ all[2] - all[1] <= n /\ n \in 0..n
  BY <1>1 DEF Pairs
<1> HIDE DEF all
<1>9. Right(all)
  <2> HIDE DEF Right, P, n
  <2> QED
    BY <1>7, <1>8
<1>10. Outside(all)
  BY <1>1, <1>8
<1> HIDE DEF Outside
<1>11. sortInsertPos(ws, id) = g[all]
  BY <1>2 DEF all
<1> QED
  BY <1>8, <1>9, <1>10, <1>11


-----------------------------------------------------------------------------
(* Inserting and removing *)

LEMMA InsertAtElements ==
    ASSUME NEW ws \in Seq(Nat), NEW p \in 0..Len(ws), NEW id \in Nat
    PROVE  /\ InsertAt(ws, p + 1, id) \in Seq(Nat)
           /\ Len(InsertAt(ws, p + 1, id)) = Len(ws) + 1
           /\ \A i \in 1..(Len(ws) + 1) :
                 InsertAt(ws, p + 1, id)[i] =
                     IF i <= p THEN ws[i] ELSE IF i = p + 1 THEN id ELSE ws[i - 1]
<1> DEFINE n == Len(ws)
           front == SubSeq(ws, 1, p)
           back == SubSeq(ws, p + 1, n)
           one == <<id>>
<1>1. n \in Nat /\ p \in Int /\ p <= n /\ 0 <= p /\ \A i \in 1..n : ws[i] \in Nat
  BY LenProperties, ElementOfSeq
<1>2. front \in Seq(Nat) /\ Len(front) = p /\ \A i \in 1..p : front[i] = ws[i]
  <2>1. p \in 0..n
    BY <1>1
  <2> HIDE DEF front
  <2> QED
    BY <2>1, PrefixProperties DEF front
<1>3. back \in Seq(Nat) /\ Len(back) = n - p /\ \A i \in 1..(n - p) : back[i] = ws[p + i]
  <2>1. p \in 0..n
    BY <1>1
  <2> HIDE DEF back
  <2> QED
    BY <2>1, SuffixProperties DEF back
<1>4. one \in Seq(Nat) /\ Len(one) = 1 /\ one[1] = id
  OBVIOUS
<1>5. InsertAt(ws, p + 1, id) = (front \o one) \o back
  <2> DEFINE q == p + 1
  <2>1. q - 1 = p
    BY <1>1
  <2>2. q = p + 1
    OBVIOUS
  <2> HIDE DEF q
  <2>3. InsertAt(ws, q, id) = SubSeq(ws, 1, q - 1) \o <<id>> \o SubSeq(ws, q, Len(ws))
    BY DEF InsertAt
  <2> QED
    BY <2>1, <2>2, <2>3, Zenon
<1> HIDE DEF front, back, one, n
<1> DEFINE head == front \o one
<1>6. head \in Seq(Nat) /\ Len(head) = p + 1 /\ \A i \in 1..(p + 1) : head[i] = IF i <= p THEN ws[i] ELSE id
  <2>1. /\ head \in Seq(Nat) /\ Len(head) = Len(front) + Len(one)
        /\ \A i \in 1..(Len(front) + Len(one)) :
              head[i] = IF i <= Len(front) THEN front[i] ELSE one[i - Len(front)]
    BY <1>2, <1>4, ConcatProperties
  <2> HIDE DEF head
  <2> QED
    BY <1>1, <1>2, <1>4, <2>1
<1> HIDE DEF head
<1> DEFINE whole == head \o back
<1>7. /\ whole \in Seq(Nat) /\ Len(whole) = Len(head) + Len(back)
      /\ \A i \in 1..(Len(head) + Len(back)) :
            whole[i] = IF i <= Len(head) THEN head[i] ELSE back[i - Len(head)]
  BY <1>3, <1>6, ConcatProperties
<1>8. InsertAt(ws, p + 1, id) = whole
  BY <1>5 DEF head
<1> HIDE DEF whole
<1>9. Len(head) + Len(back) = n + 1
  BY <1>1, <1>3, <1>6
<1>10. ASSUME NEW i \in 1..(n + 1)
       PROVE  whole[i] = IF i <= p THEN ws[i] ELSE IF i = p + 1 THEN id ELSE ws[i - 1]
  <2>1. whole[i] = IF i <= p + 1 THEN head[i] ELSE back[i - (p + 1)]
    BY <1>6, <1>7, <1>9
  <2>2. CASE i <= p + 1
    BY <1>1, <1>6, <2>1, <2>2
  <2>3. CASE ~(i <= p + 1)
    <3>1. i - (p + 1) \in 1..(n - p) /\ p + (i - (p + 1)) = i - 1
      BY <1>1, <2>3
    <3>2. back[i - (p + 1)] = ws[p + (i - (p + 1))]
      BY <1>3, <3>1
    <3> QED
      BY <1>1, <2>1, <2>3, <3>1, <3>2
  <2> QED
    BY <2>2, <2>3
<1> QED
  BY <1>7, <1>8, <1>9, <1>10 DEF n

LEMMA RemoveAtElements ==
    ASSUME NEW ws \in Seq(Nat), NEW p \in 0..(Len(ws) - 1)
    PROVE  /\ RemoveAt(ws, p + 1) \in Seq(Nat)
           /\ Len(RemoveAt(ws, p + 1)) = Len(ws) - 1
           /\ \A i \in 1..(Len(ws) - 1) :
                 RemoveAt(ws, p + 1)[i] = IF i <= p THEN ws[i] ELSE ws[i + 1]
<1> DEFINE n == Len(ws)
           front == SubSeq(ws, 1, p)
           back == SubSeq(ws, p + 2, n)
<1>1. n \in Nat /\ p \in Int /\ p < n /\ 0 <= p /\ \A i \in 1..n : ws[i] \in Nat
  BY LenProperties, ElementOfSeq
<1>2. front \in Seq(Nat) /\ Len(front) = p /\ \A i \in 1..p : front[i] = ws[i]
  <2>1. p \in 0..n
    BY <1>1
  <2> HIDE DEF front
  <2> QED
    BY <2>1, PrefixProperties DEF front
<1>3. back \in Seq(Nat) /\ Len(back) = n - p - 1 /\ \A i \in 1..(n - p - 1) : back[i] = ws[p + 1 + i]
  <2> DEFINE q == p + 1
  <2>1. q \in 0..n /\ q + 1 = p + 2 /\ n - q = n - p - 1
    BY <1>1
  <2>2. q = p + 1
    OBVIOUS
  <2> HIDE DEF back, n, q
  <2>3. /\ SubSeq(ws, q + 1, n) \in Seq(Nat) /\ Len(SubSeq(ws, q + 1, n)) = n - q
        /\ \A i \in 1..(n - q) : SubSeq(ws, q + 1, n)[i] = ws[q + i]
    BY <2>1, SuffixProperties DEF n
  <2>4. SubSeq(ws, q + 1, n) = back
    BY <2>1, Zenon DEF back
  <2>5. \A i \in 1..(n - q) : back[i] = ws[q + i]
    BY <2>3, <2>4, Zenon
  <2> QED
    BY <2>1, <2>2, <2>3, <2>4, <2>5, Zenon
<1>4. RemoveAt(ws, p + 1) = front \o back
  <2> DEFINE q == p + 1
  <2>1. q - 1 = p /\ q + 1 = p + 2
    BY <1>1
  <2>2. q = p + 1
    OBVIOUS
  <2> HIDE DEF q
  <2>3. RemoveAt(ws, q) = SubSeq(ws, 1, q - 1) \o SubSeq(ws, q + 1, Len(ws))
    BY DEF RemoveAt
  <2> QED
    BY <2>1, <2>2, <2>3, Zenon
<1> HIDE DEF front, back, n
<1> DEFINE whole == front \o back
<1>5. /\ whole \in Seq(Nat) /\ Len(whole) = Len(front) + Len(back)
      /\ \A i \in 1..(Len(front) + Len(back)) :
            whole[i] = IF i <= Len(front) THEN front[i] ELSE back[i - Len(front)]
  BY <1>2, <1>3, ConcatProperties
<1>6. RemoveAt(ws, p + 1) = whole
  BY <1>4
<1> HIDE DEF whole
<1>7. Len(front) + Len(back) = n - 1
  BY <1>1, <1>2, <1>3
<1>8. ASSUME NEW i \in 1..(n - 1)
      PROVE  whole[i] = IF i <= p THEN ws[i] ELSE ws[i + 1]
  <2>1. whole[i] = IF i <= p THEN front[i] ELSE back[i - p]
    BY <1>2, <1>5, <1>7
  <2>2. CASE i <= p
    BY <1>1, <1>2, <2>1, <2>2
  <2>3. CASE ~(i <= p)
    <3>1. i - p \in 1..(n - p - 1) /\ p + 1 + (i - p) = i + 1
      BY <1>1, <2>3
    <3>2. back[i - p] = ws[p + 1 + (i - p)]
      BY <1>3, <3>1
    <3> QED
      BY <1>1, <2>1, <2>3, <3>1, <3>2
  <2> QED
    BY <2>2, <2>3
<1> QED
  BY <1>5, <1>6, <1>7, <1>8 DEF n

\* An ID put where the search leads keeps the slice sorted.
LEMMA InsertKeepsSorted ==
    ASSUME NEW ws \in Seq(Nat), NEW id \in Nat, Sorted(ws),
           NEW p \in 0..Len(ws), \A i \in 1..Len(ws) : ws[i] < id <=> i <= p,
           ~(p < Len(ws) /\ ws[p + 1] = id)
    PROVE  /\ Sorted(InsertAt(ws, p + 1, id))
           /\ ToSet(InsertAt(ws, p + 1, id)) = ToSet(ws) \cup {id}
<1> DEFINE n == Len(ws)
           new == InsertAt(ws, p + 1, id)
<1>1. n \in Nat /\ (\A i \in 1..n : ws[i] \in Nat) /\ p \in Int /\ 0 <= p /\ p <= n
  BY LenProperties, ElementOfSeq
<1>2. /\ new \in Seq(Nat) /\ Len(new) = n + 1
      /\ \A i \in 1..(n + 1) :
            new[i] = IF i <= p THEN ws[i] ELSE IF i = p + 1 THEN id ELSE ws[i - 1]
  BY InsertAtElements
<1>3. \A i \in 1..n : i <= p => ws[i] < id
  OBVIOUS
<1>4. ASSUME NEW i \in 1..n, i > p PROVE id < ws[i]
  <2>1. ~(ws[i] < id) /\ p + 1 \in 1..n /\ ~(ws[p + 1] < id) /\ ws[p + 1] # id
    BY <1>1, <1>4
  <2>2. id < ws[p + 1]
    BY <1>1, <2>1
  <2>3. CASE i = p + 1
    BY <2>2, <2>3
  <2>4. CASE i # p + 1
    <3>1. p + 1 < i
      BY <1>1, <1>4, <2>4
    <3>2. ws[p + 1] < ws[i]
      BY <2>1, <3>1 DEF Sorted
    <3> QED
      BY <1>1, <2>1, <2>2, <3>2
  <2> QED
    BY <2>3, <2>4
<1> HIDE DEF new
<1>5. Sorted(new)
  <2> SUFFICES ASSUME NEW i \in 1..(n + 1), NEW j \in 1..(n + 1), i < j PROVE new[i] < new[j]
    BY <1>2 DEF Sorted
  <2>1. new[i] = (IF i <= p THEN ws[i] ELSE IF i = p + 1 THEN id ELSE ws[i - 1])
    BY <1>2
  <2>2. new[j] = (IF j <= p THEN ws[j] ELSE IF j = p + 1 THEN id ELSE ws[j - 1])
    BY <1>2
  <2>3. CASE j <= p
    <3>1. i \in 1..n /\ j \in 1..n /\ i <= p
      BY <1>1, <2>3
    <3>2. ws[i] < ws[j]
      BY <3>1 DEF Sorted
    <3> QED
      BY <2>1, <2>2, <2>3, <3>1, <3>2
  <2>4. CASE j = p + 1
    <3>1. i \in 1..n /\ i <= p /\ ~(j <= p)
      BY <1>1, <2>4
    <3>2. ws[i] < id
      BY <1>3, <3>1
    <3> QED
      BY <2>1, <2>2, <2>4, <3>1, <3>2
  <2>5. CASE j > p + 1
    <3>1. j - 1 \in 1..n /\ j - 1 > p /\ ~(j <= p) /\ j # p + 1
      BY <1>1, <2>5
    <3>2. new[j] = ws[j - 1] /\ id < ws[j - 1] /\ ws[j - 1] \in Nat
      BY <1>1, <1>4, <2>2, <3>1
    <3>3. CASE i <= p
      <4>1. i \in 1..n /\ i < j - 1
        BY <1>1, <2>5, <3>3
      <4>2. ws[i] < ws[j - 1]
        BY <3>1, <4>1 DEF Sorted
      <4> QED
        BY <2>1, <3>2, <3>3, <4>2
    <3>4. CASE i = p + 1
      <4>1. ~(i <= p)
        BY <1>1, <3>4
      <4> QED
        BY <2>1, <3>2, <3>4, <4>1
    <3>5. CASE i > p + 1
      <4>1. i - 1 \in 1..n /\ i - 1 < j - 1 /\ ~(i <= p) /\ i # p + 1
        BY <1>1, <3>5
      <4>2. ws[i - 1] < ws[j - 1]
        BY <3>1, <4>1 DEF Sorted
      <4> QED
        BY <2>1, <3>2, <4>1, <4>2
    <3> QED
      BY <1>1, <3>3, <3>4, <3>5
  <2> QED
    BY <1>1, <2>3, <2>4, <2>5
<1>6. ASSUME NEW x PROVE x \in ToSet(new) <=> x \in ToSet(ws) \cup {id}
  <2>1. x \in ToSet(new) <=> \E i \in 1..(n + 1) : new[i] = x
    BY <1>2, LenProperties DEF ToSet
  <2>2. x \in ToSet(ws) <=> \E i \in 1..n : ws[i] = x
    BY LenProperties DEF ToSet
  <2>3. ASSUME NEW i \in 1..(n + 1), new[i] = x PROVE x \in ToSet(ws) \cup {id}
    <3>1. new[i] = (IF i <= p THEN ws[i] ELSE IF i = p + 1 THEN id ELSE ws[i - 1])
      BY <1>2
    <3>2. CASE i <= p
      <4>1. i \in 1..n
        BY <1>1, <3>2
      <4> QED
        BY <2>2, <2>3, <3>1, <3>2, <4>1
    <3>3. CASE ~(i <= p) /\ i = p + 1
      BY <2>3, <3>1, <3>3
    <3>4. CASE ~(i <= p) /\ i # p + 1
      <4>1. i - 1 \in 1..n
        BY <1>1, <3>4
      <4> QED
        BY <2>2, <2>3, <3>1, <3>4, <4>1
    <3> QED
      BY <3>2, <3>3, <3>4
  <2>4. ASSUME NEW i \in 1..n, ws[i] = x PROVE x \in ToSet(new)
    <3>1. CASE i <= p
      <4>1. i \in 1..(n + 1)
        BY <1>1
      <4>2. new[i] = x
        BY <1>2, <2>4, <3>1, <4>1
      <4> QED
        BY <2>1, <4>1, <4>2
    <3>2. CASE ~(i <= p)
      <4>1. i + 1 \in 1..(n + 1) /\ ~(i + 1 <= p) /\ i + 1 # p + 1 /\ i + 1 - 1 = i
        BY <1>1, <3>2
      <4>2. new[i + 1] = x
        BY <1>2, <2>4, <4>1
      <4> QED
        BY <2>1, <4>1, <4>2
    <3> QED
      BY <3>1, <3>2
  <2>5. id \in ToSet(new)
    <3>1. p + 1 \in 1..(n + 1) /\ ~(p + 1 <= p)
      BY <1>1
    <3>2. new[p + 1] = id
      BY <1>2, <3>1
    <3>3. id \in ToSet(new) <=> \E i \in 1..(n + 1) : new[i] = id
      BY <1>2, LenProperties DEF ToSet
    <3> QED
      BY <3>1, <3>2, <3>3
  <2> QED
    BY <2>1, <2>2, <2>3, <2>4, <2>5
<1> QED
  BY <1>5, <1>6 DEF new

\* Without one of its elements the slice is sorted too, and the others are left.
LEMMA RemoveKeepsSorted ==
    ASSUME NEW ws \in Seq(Nat), NEW id \in Nat, Sorted(ws),
           NEW p \in 0..(Len(ws) - 1), ws[p + 1] = id
    PROVE  /\ Sorted(RemoveAt(ws, p + 1))
           /\ ToSet(RemoveAt(ws, p + 1)) = ToSet(ws) \ {id}
<1> DEFINE n == Len(ws)
           new == RemoveAt(ws, p + 1)
<1>1. n \in Nat /\ (\A i \in 1..n : ws[i] \in Nat) /\ p \in Int /\ 0 <= p /\ p < n
  BY LenProperties, ElementOfSeq
<1>2. /\ new \in Seq(Nat) /\ Len(new) = n - 1
      /\ \A i \in 1..(n - 1) : new[i] = IF i <= p THEN ws[i] ELSE ws[i + 1]
  BY RemoveAtElements
<1> DEFINE old(i) == IF i <= p THEN i ELSE i + 1
<1>3. \A i \in 1..(n - 1) : /\ old(i) \in 1..n /\ old(i) # p + 1
                            /\ new[i] = ws[old(i)]
  <2> HIDE DEF new, n
  <2> SUFFICES ASSUME NEW i \in 1..(n - 1)
               PROVE  old(i) \in 1..n /\ old(i) # p + 1 /\ new[i] = ws[old(i)]
    OBVIOUS
  <2>1. CASE i <= p
    BY <1>1, <1>2, <2>1
  <2>2. CASE ~(i <= p)
    BY <1>1, <1>2, <2>2
  <2> QED
    BY <2>1, <2>2
<1>4. \A i, j \in 1..(n - 1) : i < j => old(i) < old(j)
  BY <1>1
<1> HIDE DEF old, new
<1>5. Sorted(new)
  <2> SUFFICES ASSUME NEW i \in 1..(n - 1), NEW j \in 1..(n - 1), i < j PROVE new[i] < new[j]
    BY <1>2 DEF Sorted
  <2>1. old(i) \in 1..n /\ old(j) \in 1..n /\ old(i) < old(j)
    BY <1>3, <1>4
  <2>2. ws[old(i)] < ws[old(j)]
    BY <2>1 DEF Sorted
  <2> QED
    BY <1>3, <2>2
<1>6. \A i \in 1..n : i # p + 1 => ws[i] # id
  <2> SUFFICES ASSUME NEW i \in 1..n, i # p + 1 PROVE ws[i] # ws[p + 1]
    OBVIOUS
  <2>1. p + 1 \in 1..n /\ (i < p + 1 \/ p + 1 < i)
    BY <1>1
  <2>2. ws[i] < ws[p + 1] \/ ws[p + 1] < ws[i]
    BY <2>1 DEF Sorted
  <2>3. ws[i] \in Nat /\ ws[p + 1] \in Nat
    BY <1>1, <2>1
  <2> QED
    BY <2>2, <2>3
<1>7. ASSUME NEW x PROVE x \in ToSet(new) <=> x \in ToSet(ws) \ {id}
  <2>1. x \in ToSet(new) <=> \E i \in 1..(n - 1) : new[i] = x
    BY <1>2, LenProperties DEF ToSet
  <2>2. x \in ToSet(ws) <=> \E i \in 1..n : ws[i] = x
    BY LenProperties DEF ToSet
  <2>3. ASSUME NEW i \in 1..(n - 1), new[i] = x PROVE x \in ToSet(ws) \ {id}
    <3>1. old(i) \in 1..n /\ old(i) # p + 1 /\ x = ws[old(i)]
      BY <1>3, <2>3
    <3>2. x # id
      BY <1>6, <3>1
    <3> QED
      BY <2>2, <3>1, <3>2
  <2>4. ASSUME NEW i \in 1..n, ws[i] = x, x # id PROVE x \in ToSet(new)
    <3>0. i # p + 1
      BY <2>4
    <3>1. CASE i <= p
      <4>1. i \in 1..(n - 1)
        BY <1>1, <3>1
      <4>2. new[i] = x
        BY <1>2, <2>4, <3>1, <4>1
      <4> QED
        BY <2>1, <4>1, <4>2
    <3>2. CASE ~(i <= p)
      <4>1. i - 1 \in 1..(n - 1) /\ ~(i - 1 <= p) /\ i - 1 + 1 = i
        BY <1>1, <3>0, <3>2
      <4>2. new[i - 1] = x
        BY <1>2, <2>4, <4>1
      <4> QED
        BY <2>1, <4>1, <4>2
    <3> QED
      BY <3>1, <3>2
  <2> QED
    BY <2>1, <2>2, <2>3, <2>4
<1> QED
  BY <1>5, <1>7 DEF new

-----------------------------------------------------------------------------
(* Ranges in order *)

EndBelow(rs, n) == \A k \in 1..Len(rs) : End(rs[k]) < n
AllBelow(ws, n) == \A i \in 1..Len(ws) : ws[i] < n

\* A prefix of what is in order is in order, and its last element bounds it.
LEMMA ApartOfAppend ==
    ASSUME NEW rs \in Seq(AnyRange), NEW r \in AnyRange
    PROVE  /\ Apart(Append(rs, r)) <=> Apart(rs) /\ EndBelow(rs, r.start)
           /\ \A n \in Nat : EndBelow(Append(rs, r), n) <=> EndBelow(rs, n) /\ End(r) < n
<1> DEFINE m == Len(rs)
           new == Append(rs, r)
<1>1. m \in Nat /\ Len(new) = m + 1 /\ (\A k \in 1..m : new[k] = rs[k]) /\ new[m + 1] = r
  BY LenProperties, AppendProperties
<1> HIDE DEF new, m
<1>2. ASSUME Apart(new) PROVE Apart(rs) /\ EndBelow(rs, r.start)
  <2>1. ASSUME NEW j \in 1..m, NEW k \in 1..m, j < k PROVE End(rs[j]) < rs[k].start
    <3>1. j \in 1..(m + 1) /\ k \in 1..(m + 1)
      BY <1>1
    <3>2. End(new[j]) < new[k].start
      BY <1>1, <1>2, <2>1, <3>1 DEF Apart
    <3> QED
      BY <1>1, <3>2
  <2>2. ASSUME NEW j \in 1..m PROVE End(rs[j]) < r.start
    <3>1. j \in 1..(m + 1) /\ m + 1 \in 1..(m + 1) /\ j < m + 1
      BY <1>1
    <3>2. End(new[j]) < new[m + 1].start
      BY <1>1, <1>2, <3>1 DEF Apart
    <3> QED
      BY <1>1, <3>2
  <2> QED
    BY <2>1, <2>2 DEF Apart, EndBelow, m
<1>3. ASSUME Apart(rs), EndBelow(rs, r.start) PROVE Apart(new)
  <2> SUFFICES ASSUME NEW j \in 1..(m + 1), NEW k \in 1..(m + 1), j < k
               PROVE  End(new[j]) < new[k].start
    BY <1>1 DEF Apart
  <2>1. j \in 1..m
    BY <1>1
  <2>2. CASE k = m + 1
    BY <1>1, <1>3, <2>1, <2>2 DEF EndBelow, m
  <2>3. CASE k # m + 1
    <3>1. k \in 1..m
      BY <1>1, <2>3
    <3>2. End(rs[j]) < rs[k].start
      BY <1>3, <2>1, <3>1 DEF Apart, m
    <3> QED
      BY <1>1, <2>1, <3>1, <3>2
  <2> QED
    BY <2>2, <2>3
<1>4. ASSUME NEW n \in Nat PROVE EndBelow(new, n) <=> EndBelow(rs, n) /\ End(r) < n
  <2>1. ASSUME EndBelow(new, n) PROVE EndBelow(rs, n) /\ End(r) < n
    <3>1. m + 1 \in 1..(m + 1) /\ \A k \in 1..m : k \in 1..(m + 1)
      BY <1>1
    <3>2. End(r) < n
      BY <1>1, <2>1, <3>1 DEF EndBelow
    <3>3. \A k \in 1..m : End(rs[k]) < n
      BY <1>1, <2>1, <3>1 DEF EndBelow
    <3> QED
      BY <3>2, <3>3 DEF EndBelow, m
  <2>2. ASSUME EndBelow(rs, n), End(r) < n PROVE EndBelow(new, n)
    <3> SUFFICES ASSUME NEW k \in 1..(m + 1) PROVE End(new[k]) < n
      BY <1>1 DEF EndBelow
    <3>1. k = m + 1 \/ k \in 1..m
      BY <1>1
    <3> QED
      BY <1>1, <2>2, <3>1 DEF EndBelow, m
  <2> QED
    BY <2>1, <2>2
<1> QED
  BY <1>2, <1>3, <1>4 DEF new

LEMMA SortedOfAppend ==
    ASSUME NEW ws \in Seq(Nat), NEW w \in Nat
    PROVE  /\ Sorted(Append(ws, w)) => Sorted(ws) /\ AllBelow(ws, w)
           /\ \A n \in Nat : AllBelow(Append(ws, w), n) => AllBelow(ws, n) /\ w < n
<1> DEFINE m == Len(ws)
           new == Append(ws, w)
<1>1. m \in Nat /\ Len(new) = m + 1 /\ (\A k \in 1..m : new[k] = ws[k]) /\ new[m + 1] = w
  BY LenProperties, AppendProperties
<1>2. m + 1 \in 1..(m + 1) /\ \A k \in 1..m : k \in 1..(m + 1) /\ k < m + 1
  BY <1>1
<1> HIDE DEF new, m
<1>3. ASSUME Sorted(new) PROVE Sorted(ws) /\ AllBelow(ws, w)
  <2>1. ASSUME NEW i \in 1..m, NEW j \in 1..m, i < j PROVE ws[i] < ws[j]
    BY <1>1, <1>2, <1>3, <2>1 DEF Sorted
  <2>2. ASSUME NEW i \in 1..m PROVE ws[i] < w
    BY <1>1, <1>2, <1>3 DEF Sorted
  <2> QED
    BY <2>1, <2>2 DEF Sorted, AllBelow, m
<1>4. ASSUME NEW n \in Nat, AllBelow(new, n) PROVE AllBelow(ws, n) /\ w < n
  <2>1. \A i \in 1..m : ws[i] < n
    BY <1>1, <1>2, <1>4 DEF AllBelow
  <2>2. w < n
    BY <1>1, <1>2, <1>4 DEF AllBelow
  <2> QED
    BY <2>1, <2>2 DEF AllBelow, m
<1> QED
  BY <1>3, <1>4 DEF new

\* A sorted slice has ranges in order, and apart.
LEMMA RangesApart ==
    ASSUME NEW ws \in Seq(Nat), Sorted(ws)
    PROVE  /\ Apart(Ranges(ws))
           /\ \A n \in Nat : AllBelow(ws, n) => EndBelow(Ranges(ws), n)
<1> DEFINE Good(s) == Sorted(s) => /\ Apart(Ranges(s))
                                   /\ \A n \in Nat : AllBelow(s, n) => EndBelow(Ranges(s), n)
           T == {s \in Seq(Nat) : Good(s)}
<1>1. <<>> \in T
  <2> DEFINE none == <<>>
             zero == 0
  <2>1. none \in Seq(Nat) /\ Len(none) = 0 /\ zero \in Nat
    BY EmptySeq
  <2> HIDE DEF zero, none
  <2>2. Ranges(none) = none
    BY <2>1, RangesOfAppend DEF none
  <2>3. \A k \in 1..Len(none) : FALSE
    BY <2>1
  <2>4. Apart(Ranges(none)) /\ \A n \in Nat : EndBelow(Ranges(none), n)
    BY <2>2, <2>3 DEF Apart, EndBelow
  <2> QED
    BY <2>1, <2>4 DEF none
<1>2. ASSUME NEW s \in Seq(Nat), NEW w \in Nat, s \in T PROVE Append(s, w) \in T
  <2> DEFINE new == Append(s, w)
             rs == Ranges(s)
  <2>1. new \in Seq(Nat)
    BY AppendProperties
  <2>2. rs \in Seq(AnyRange) /\ Ranges(new) = WithId(rs, w)
    BY RangesOfAppend
  <2> SUFFICES ASSUME Sorted(new)
               PROVE  /\ Apart(Ranges(new))
                      /\ \A n \in Nat : AllBelow(new, n) => EndBelow(Ranges(new), n)
    BY <2>1
  <2> HIDE DEF Good
  <2>3. Sorted(s) /\ AllBelow(s, w) /\ \A n \in Nat : AllBelow(new, n) => AllBelow(s, n) /\ w < n
    BY SortedOfAppend
  <2>4. Apart(rs) /\ EndBelow(rs, w) /\ \A n \in Nat : AllBelow(s, n) => EndBelow(rs, n)
    BY <1>2, <2>3 DEF Good
  <2> HIDE DEF rs
  <2>5. PICK front \in Seq(AnyRange), r \in AnyRange : Extends(rs, w, front, r)
    BY <2>2, WithIdCases
  <2> HIDE DEF new
  <2>6. Ranges(new) = Append(front, r) /\ End(r) = w
    BY <2>2, <2>5 DEF Extends
  <2>7. /\ Apart(front) /\ EndBelow(front, r.start)
        /\ \A n \in Nat : EndBelow(rs, n) => EndBelow(front, n)
    <3>1. CASE front = rs /\ r.start = w /\ r.count = 0
      BY <2>4, <3>1
    <3>2. CASE \E q \in AnyRange :
                  /\ rs = Append(front, q)
                  /\ r.start = q.start /\ r.count = q.count + 1
                  /\ w = q.start + q.count + 1
      <4>1. PICK q \in AnyRange : rs = Append(front, q) /\ r.start = q.start
        BY <3>2
      <4>2. /\ Apart(rs) <=> Apart(front) /\ EndBelow(front, q.start)
            /\ \A n \in Nat : EndBelow(rs, n) <=> EndBelow(front, n) /\ End(q) < n
        BY <4>1, ApartOfAppend
      <4> QED
        BY <2>4, <4>1, <4>2
    <3> QED
      BY <2>5, <3>1, <3>2 DEF Extends
  <2>8. /\ Apart(Append(front, r)) <=> Apart(front) /\ EndBelow(front, r.start)
        /\ \A n \in Nat : EndBelow(Append(front, r), n) <=> EndBelow(front, n) /\ End(r) < n
    BY ApartOfAppend
  <2> QED
    BY <2>3, <2>4, <2>6, <2>7, <2>8
<1>3. Seq(Nat) \subseteq T
  <2> HIDE DEF T
  <2> QED
    BY <1>1, <1>2, InductionOnSeq
<1> QED
  BY <1>3

\* Reading ranges in order gives a sorted slice.
LEMMA ParseSorted ==
    ASSUME NEW rs \in Seq(AnyRange), Apart(rs)
    PROVE  /\ Sorted(ParseMetadata(rs))
           /\ \A n \in Nat : EndBelow(rs, n) => AllBelow(ParseMetadata(rs), n)
<1> DEFINE Good(s) == Apart(s) => /\ Sorted(ParseMetadata(s))
                                  /\ \A n \in Nat : EndBelow(s, n) => AllBelow(ParseMetadata(s), n)
           T == {s \in Seq(AnyRange) : Good(s)}
<1>1. <<>> \in T
  <2> DEFINE none == <<>>
             anyR == [start |-> 0, count |-> 0]
  <2>1. none \in Seq(AnyRange) /\ Len(none) = 0 /\ anyR \in AnyRange
    BY EmptySeq DEF AnyRange
  <2> HIDE DEF anyR, none
  <2>2. ParseMetadata(none) = none
    BY <2>1, ParseOfAppend DEF none
  <2>3. \A k \in 1..Len(none) : FALSE
    BY <2>1
  <2>4. Sorted(ParseMetadata(none)) /\ \A n \in Nat : AllBelow(ParseMetadata(none), n)
    BY <2>2, <2>3 DEF Sorted, AllBelow
  <2> QED
    BY <2>1, <2>4 DEF none
<1>2. ASSUME NEW s \in Seq(AnyRange), NEW r \in AnyRange, s \in T PROVE Append(s, r) \in T
  <2> DEFINE ws == ParseMetadata(s)
             new == Append(s, r)
             all == ParseMetadata(new)
             m == Len(ws)
             c == r.count + 1
  <2>1. new \in Seq(AnyRange)
    BY AppendProperties
  <2>2. ws \in Seq(Nat) /\ all = WithRange(ws, r)
    BY ParseOfAppend
  <2> SUFFICES ASSUME Apart(new)
               PROVE  /\ Sorted(all)
                      /\ \A n \in Nat : EndBelow(new, n) => AllBelow(all, n)
    BY <2>1
  <2>3. /\ Apart(new) <=> Apart(s) /\ EndBelow(s, r.start)
        /\ \A n \in Nat : EndBelow(new, n) <=> EndBelow(s, n) /\ End(r) < n
    BY ApartOfAppend
  <2>4. r.start \in Nat /\ r.count \in Nat /\ End(r) = r.start + r.count
    BY DEF AnyRange, End
  <2> HIDE DEF Good
  <2>5. Sorted(ws) /\ AllBelow(ws, r.start) /\ \A n \in Nat : EndBelow(s, n) => AllBelow(ws, n)
    BY <1>2, <2>3, <2>4 DEF Good
  <2> HIDE DEF ws, new, all
  <2>6. /\ m \in Nat /\ (\A i \in 1..m : ws[i] \in Nat) /\ Len(all) = m + r.count + 1
        /\ \A i \in 1..(m + r.count + 1) :
              all[i] = IF i <= m THEN ws[i] ELSE r.start + (i - m) - 1
    BY <2>2, WithRangeType, LenProperties, ElementOfSeq
  <2>7. ASSUME NEW i \in 1..(m + r.count + 1), i <= m
        PROVE  i \in 1..m /\ all[i] = ws[i] /\ all[i] \in Nat /\ all[i] < r.start
    <3>1. i \in 1..m
      BY <2>6, <2>7
    <3>2. ws[i] < r.start
      BY <2>5, <3>1 DEF AllBelow
    <3> QED
      BY <2>6, <2>7, <3>1, <3>2
  <2>8. ASSUME NEW i \in 1..(m + r.count + 1), ~(i <= m)
        PROVE  all[i] = r.start + (i - m) - 1 /\ r.start <= all[i] /\ all[i] <= End(r)
    <3> HIDE DEF m
    <3>1. all[i] = r.start + (i - m) - 1
      BY <2>6, <2>8
    <3>2. 1 <= i - m /\ i - m <= r.count + 1 /\ i - m \in Int
      BY <2>4, <2>6, <2>8
    <3> QED
      BY <2>4, <3>1, <3>2
  <2>9. Sorted(all)
    <3> SUFFICES ASSUME NEW i \in 1..(m + r.count + 1), NEW j \in 1..(m + r.count + 1), i < j
                 PROVE  all[i] < all[j]
      BY <2>6 DEF Sorted
    <3> HIDE DEF m
    <3>1. CASE j <= m
      <4>1. i <= m
        BY <2>6, <3>1
      <4>2. ws[i] < ws[j]
        BY <2>5, <2>7, <3>1, <4>1 DEF Sorted, m
      <4> QED
        BY <2>7, <3>1, <4>1, <4>2
    <3>2. CASE ~(j <= m) /\ i <= m
      <4>1. all[i] < r.start /\ r.start <= all[j] /\ all[i] \in Nat /\ all[j] = r.start + (j - m) - 1
        BY <2>7, <2>8, <3>2
      <4> QED
        BY <2>4, <2>6, <4>1
    <3>3. CASE ~(j <= m) /\ ~(i <= m)
      <4>1. all[i] = r.start + (i - m) - 1 /\ all[j] = r.start + (j - m) - 1
        BY <2>8, <3>3
      <4> QED
        BY <2>4, <2>6, <4>1
    <3> QED
      BY <3>1, <3>2, <3>3
  <2>10. ASSUME NEW n \in Nat, EndBelow(new, n) PROVE AllBelow(all, n)
    <3> SUFFICES ASSUME NEW i \in 1..(m + r.count + 1) PROVE all[i] < n
      BY <2>6 DEF AllBelow
    <3>1. EndBelow(s, n) /\ End(r) < n
      BY <2>3, <2>10
    <3>2. CASE i <= m
      <4>1. AllBelow(ws, n)
        BY <2>5, <3>1
      <4>2. i \in 1..m /\ all[i] = ws[i]
        BY <2>7, <3>2
      <4> QED
        BY <4>1, <4>2 DEF AllBelow
    <3>3. CASE ~(i <= m)
      <4>1. all[i] = r.start + (i - m) - 1 /\ all[i] <= End(r)
        BY <2>8, <3>3
      <4> HIDE DEF m
      <4> QED
        BY <2>4, <2>6, <3>1, <4>1
    <3> QED
      BY <3>2, <3>3
  <2> QED
    BY <2>9, <2>10
<1>3. Seq(AnyRange) \subseteq T
  <2> HIDE DEF T
  <2> QED
    BY <1>1, <1>2, InductionOnSeq
<1> QED
  BY <1>3

-----------------------------------------------------------------------------
(* What the specification keeps *)

LEMMA RangesOnCard ==
    ASSUME MetadataAssumption
    PROVE  Range32 \subseteq AnyRange /\ Seq(Range32) \subseteq Seq(AnyRange)
<1>1. Range32 \subseteq AnyRange
  BY DEF Range32, AnyRange, MetadataAssumption
<1> QED
  BY <1>1

LEMMA SerializeType ==
    ASSUME MetadataAssumption, NEW ws \in Seq(Nat)
    PROVE  Serialize(ws) \in Seq(Range32)
<1> DEFINE rs == Ranges(ws)
           cut(r) == [start |-> r.start % StartLimit, count |-> r.count % StartLimit]
           n == Len(rs)
<1>1. rs \in Seq(AnyRange)
  BY RoundTrip
<1> HIDE DEF rs
<1>2. n \in Nat /\ DOMAIN rs = 1..n /\ \A k \in 1..n : rs[k] \in AnyRange
  BY <1>1, LenProperties, ElementOfSeq
<1>3. ASSUME NEW r \in AnyRange PROVE cut(r) \in Range32
  <2>1. StartLimit \in Nat \ {0} /\ r.start \in Nat /\ r.count \in Nat
    BY DEF AnyRange, MetadataAssumption
  <2>2. r.start % StartLimit \in 0..(StartLimit - 1) /\ r.count % StartLimit \in 0..(StartLimit - 1)
    BY <2>1
  <2> QED
    BY <2>2 DEF Range32
<1>4. Serialize(ws) = [k \in 1..n |-> cut(rs[k])]
  BY <1>2 DEF Serialize, rs
<1> HIDE DEF cut, n
<1>5. [k \in 1..n |-> cut(rs[k])] \in [1..n -> Range32]
  BY <1>2, <1>3
<1>6. [1..n -> Range32] \subseteq Seq(Range32)
  BY <1>2
<1> QED
  BY <1>4, <1>5, <1>6

LEMMA AddedType ==
    ASSUME NEW ws \in Seq(Nat), NEW id \in Nat
    PROVE  Added(ws, id) \in Seq(Nat)
<1>1. sortInsertPos(ws, id) \in 0..Len(ws)
  BY SearchFinds
<1>2. InsertAt(ws, sortInsertPos(ws, id) + 1, id) \in Seq(Nat)
  BY <1>1, InsertAtElements
<1> QED
  BY <1>2 DEF Added

LEMMA RemovedType ==
    ASSUME NEW ws \in Seq(Nat), NEW id \in Nat
    PROVE  Removed(ws, id) \in Seq(Nat)
<1> DEFINE p == sortInsertPos(ws, id)
<1>1. p \in 0..Len(ws) /\ Len(ws) \in Nat
  BY SearchFinds, LenProperties
<1>2. Removed(ws, id) = IF p < Len(ws) /\ ws[p + 1] = id THEN RemoveAt(ws, p + 1) ELSE ws
  BY DEF Removed, IsAt
<1> HIDE DEF p
<1>3. CASE p < Len(ws) /\ ws[p + 1] = id
  <2>1. p \in 0..(Len(ws) - 1)
    BY <1>1, <1>3
  <2>2. RemoveAt(ws, p + 1) \in Seq(Nat)
    BY <2>1, RemoveAtElements
  <2> QED
    BY <1>2, <1>3, <2>2
<1>4. CASE ~(p < Len(ws) /\ ws[p + 1] = id)
  BY <1>2, <1>4
<1> QED
  BY <1>3, <1>4

LEMMA ParsedType ==
    ASSUME NEW rs \in Seq(AnyRange)
    PROVE  ParseMetadata(rs) \in Seq(Nat)
<1> DEFINE anyR == [start |-> 0, count |-> 0]
<1>1. anyR \in AnyRange
  BY DEF AnyRange
<1> HIDE DEF anyR
<1> QED
  BY <1>1, ParseOfAppend

LEMMA TypeStep ==
    ASSUME MetadataAssumption, TypeOK, [Next]_vars
    PROVE  TypeOK'
<1>1. /\ wallets \in Seq(Nat) /\ stored \in Seq(Range32) /\ Ids \subseteq Nat
      /\ disorder \in BOOLEAN /\ cardDisorder \in BOOLEAN
  BY DEF TypeOK, Range32, MetadataAssumption
<1> DEFINE typed == /\ wallets' \in Seq(Nat) /\ stored' \in Seq(Range32)
                    /\ disorder' \in BOOLEAN /\ cardDisorder' \in BOOLEAN
<1> SUFFICES typed
  BY DEF TypeOK, Range32
<1>2. ASSUME NEW id \in Ids, AddWallet(id) PROVE typed
  <2>1. wallets' \in Seq(Nat)
    BY <1>1, <1>2, AddedType DEF AddWallet
  <2> QED
    BY <1>1, <1>2, <2>1 DEF AddWallet
<1>3. ASSUME NEW id \in Ids, RemoveWallet(id) PROVE typed
  <2>1. wallets' \in Seq(Nat)
    BY <1>1, <1>3, RemovedType DEF RemoveWallet
  <2> QED
    BY <1>1, <1>3, <2>1 DEF RemoveWallet
<1>4. ASSUME Store PROVE typed
  <2>1. stored' \in Seq(Range32)
    BY <1>1, <1>4, SerializeType DEF Store
  <2>2. cardDisorder' \in BOOLEAN
    BY <1>4, Zenon DEF Store
  <2> QED
    BY <1>1, <1>4, <2>1, <2>2 DEF Store
<1>5. ASSUME Load PROVE typed
  <2>1. stored \in Seq(AnyRange)
    BY <1>1, RangesOnCard
  <2>2. ParseMetadata(stored) \in Seq(Nat)
    BY <2>1, ParsedType
  <2> QED
    BY <1>1, <1>5, <2>2 DEF Load
<1>6. ASSUME UNCHANGED vars PROVE typed
  BY <1>1, <1>6 DEF vars
<1> QED
  BY <1>2, <1>3, <1>4, <1>5, <1>6 DEF Next

\* Memory holds a slice of IDs and the card ranges of 32 bits, whatever is added,
\* removed, stored and loaded.
THEOREM TypeCorrect == Spec => []TypeOK
<1>1. Init => TypeOK
  <2> SUFFICES ASSUME Init PROVE TypeOK
    OBVIOUS
  <2>1. wallets = <<>> /\ stored \in Seq(Range32)
    BY MetadataAssumption DEF Init, MetadataAssumption, Range32
  <2>2. wallets \in Seq(Nat)
    BY <2>1, EmptySeq
  <2>3. disorder \in BOOLEAN /\ cardDisorder \in BOOLEAN
    BY DEF Init
  <2> QED
    BY <2>1, <2>2, <2>3 DEF TypeOK, Range32
<1>2. TypeOK /\ [Next]_vars => TypeOK'
  BY MetadataAssumption, TypeStep
<1> QED
  BY <1>1, <1>2, PTL DEF Spec

\* What Serialize writes is read back unchanged, in every reachable state in
\* which the slice meets the limits, whatever they are: a slice as long as the
\* reader's limit has no range that counts as much, and only the start of a range
\* may be cut.
LEMMA SliceReadsBack == ASSUME MetadataAssumption, TypeOK PROVE ReadsBack
<1> DEFINE rs == Ranges(wallets)
           n == Len(wallets)
<1>1. wallets \in Seq(Nat)
  BY DEF TypeOK
<1>2. rs \in Seq(AnyRange) /\ ParseMetadata(rs) = wallets /\ Total(rs) = n /\ n \in Nat
  BY <1>1, RoundTrip, LenProperties
<1>3. DOMAIN rs = 1..Len(rs)
  BY <1>2, LenProperties
<1>4. \A k \in 1..Len(rs) : rs[k].count \in Nat /\ rs[k].count < n
  BY <1>1, CountsBelow
<1>5. {StartLimit, MaxWalletRangeCount, MaxTotalWallets} \subseteq Nat \ {0}
  BY DEF MetadataAssumption
<1> SUFFICES ASSUME \A k \in DOMAIN rs : rs[k].start < StartLimit,
                    n <= MaxTotalWallets,
                    MaxTotalWallets <= MaxWalletRangeCount,
                    MaxTotalWallets <= StartLimit
             PROVE  Parses(Serialize(wallets)) /\ ParseMetadata(Serialize(wallets)) = wallets
  BY DEF ReadsBack
<1> HIDE DEF rs, n
<1>6. \A k \in 1..Len(rs) : rs[k].start < StartLimit /\ rs[k].count < StartLimit
  BY <1>2, <1>3, <1>4, <1>5
<1>7. Serialize(wallets) = rs
  BY <1>1, <1>6, SerializeKeeps DEF rs
<1>8. \A k \in DOMAIN rs : rs[k].count <= MaxWalletRangeCount
  BY <1>2, <1>3, <1>4, <1>5
<1>9. Parses(rs)
  BY <1>2, <1>8 DEF Parses
<1> QED
  BY <1>2, <1>7, <1>9

THEOREM ReadBackSafety == Spec => []ReadsBack
<1>1. TypeOK => ReadsBack
  BY MetadataAssumption, SliceReadsBack
<1> QED
  BY <1>1, TypeCorrect, PTL

-----------------------------------------------------------------------------
(* Where disorder comes from *)

\* An ID put into or taken from a slice in order leaves it in order.
LEMMA AddedIsUnion ==
    ASSUME NEW ws \in Seq(Nat), NEW id \in Nat, Sorted(ws)
    PROVE  Sorted(Added(ws, id)) /\ ToSet(Added(ws, id)) = ToSet(ws) \cup {id}
<1> DEFINE p == sortInsertPos(ws, id)
<1>1. /\ Len(ws) \in Nat /\ DOMAIN ws = 1..Len(ws) /\ p \in 0..Len(ws)
      /\ \A i \in 1..Len(ws) : ws[i] < id <=> i <= p
  BY SearchFinds, LenProperties
<1>2. Added(ws, id) = IF p < Len(ws) /\ ws[p + 1] = id THEN ws ELSE InsertAt(ws, p + 1, id)
  BY DEF Added, IsAt
<1> HIDE DEF p
<1>3. CASE p < Len(ws) /\ ws[p + 1] = id
  <2>1. p + 1 \in DOMAIN ws
    BY <1>1, <1>3
  <2>2. id \in ToSet(ws)
    BY <1>3, <2>1 DEF ToSet
  <2>3. ToSet(ws) = ToSet(ws) \cup {id}
    BY <2>2
  <2> QED
    BY <1>2, <1>3, <2>3
<1>4. CASE ~(p < Len(ws) /\ ws[p + 1] = id)
  <2>1. /\ Sorted(InsertAt(ws, p + 1, id))
        /\ ToSet(InsertAt(ws, p + 1, id)) = ToSet(ws) \cup {id}
    BY <1>1, <1>4, InsertKeepsSorted
  <2> QED
    BY <1>2, <1>4, <2>1
<1> QED
  BY <1>3, <1>4

LEMMA RemovedIsDifference ==
    ASSUME NEW ws \in Seq(Nat), NEW id \in Nat, Sorted(ws)
    PROVE  Sorted(Removed(ws, id)) /\ ToSet(Removed(ws, id)) = ToSet(ws) \ {id}
<1> DEFINE p == sortInsertPos(ws, id)
<1>1. /\ Len(ws) \in Nat /\ DOMAIN ws = 1..Len(ws) /\ p \in 0..Len(ws)
      /\ \A i \in 1..Len(ws) : ws[i] < id <=> i <= p
  BY SearchFinds, LenProperties
<1>2. Removed(ws, id) = IF p < Len(ws) /\ ws[p + 1] = id THEN RemoveAt(ws, p + 1) ELSE ws
  BY DEF Removed, IsAt
<1>3. \A i \in 1..Len(ws) : ws[i] \in Nat
  BY ElementOfSeq
<1> HIDE DEF p
<1>4. CASE p < Len(ws) /\ ws[p + 1] = id
  <2>1. p \in 0..(Len(ws) - 1)
    BY <1>1, <1>4
  <2>2. /\ Sorted(RemoveAt(ws, p + 1))
        /\ ToSet(RemoveAt(ws, p + 1)) = ToSet(ws) \ {id}
    BY <1>4, <2>1, RemoveKeepsSorted
  <2> QED
    BY <1>2, <1>4, <2>2
<1>5. CASE ~(p < Len(ws) /\ ws[p + 1] = id)
  <2>1. ASSUME NEW i \in 1..Len(ws), ws[i] = id PROVE FALSE
    <3>1. ~(ws[i] < id)
      BY <1>3, <2>1
    <3>2. p < i
      BY <1>1, <3>1
    <3>3. p < Len(ws) /\ p + 1 \in 1..Len(ws)
      BY <1>1, <3>2
    <3>4. ws[p + 1] # id /\ ~(p + 1 <= p)
      BY <1>1, <1>5, <3>3
    <3>5. ~(ws[p + 1] < id)
      BY <1>1, <3>3, <3>4
    <3>6. i # p + 1
      BY <2>1, <3>4
    <3>7. p + 1 < i
      BY <1>1, <3>2, <3>6
    <3>8. ws[p + 1] < ws[i]
      BY <3>3, <3>7 DEF Sorted
    <3> QED
      BY <2>1, <3>5, <3>8
  <2>2. id \notin ToSet(ws)
    BY <1>1, <2>1 DEF ToSet
  <2>3. ToSet(ws) = ToSet(ws) \ {id}
    BY <2>2
  <2> QED
    BY <1>2, <1>5, <2>3
<1> QED
  BY <1>4, <1>5

\* In any slice, in order or not, the search finds a place for a new ID.
LEMMA AddedHolds ==
    ASSUME NEW ws \in Seq(Nat), NEW id \in Nat
    PROVE  ToSet(Added(ws, id)) = ToSet(ws) \cup {id}
<1> DEFINE p == sortInsertPos(ws, id)
           n == Len(ws)
           new == InsertAt(ws, p + 1, id)
<1>1. n \in Nat /\ DOMAIN ws = 1..n /\ p \in 0..n
  BY SearchFinds, LenProperties
<1>2. Added(ws, id) = IF p < n /\ ws[p + 1] = id THEN ws ELSE new
  BY DEF Added, IsAt
<1>3. /\ new \in Seq(Nat) /\ Len(new) = n + 1
      /\ \A i \in 1..(n + 1) : new[i] = IF i <= p THEN ws[i] ELSE IF i = p + 1 THEN id ELSE ws[i - 1]
  BY <1>1, InsertAtElements
<1>4. DOMAIN new = 1..(n + 1)
  BY <1>1, <1>3, LenProperties
<1> HIDE DEF p, n, new
<1>5. CASE p < n /\ ws[p + 1] = id
  <2>1. p + 1 \in DOMAIN ws
    BY <1>1, <1>5
  <2>2. id \in ToSet(ws)
    BY <1>5, <2>1 DEF ToSet
  <2>3. ToSet(ws) = ToSet(ws) \cup {id}
    BY <2>2
  <2> QED
    BY <1>2, <1>5, <2>3
<1>6. CASE ~(p < n /\ ws[p + 1] = id)
  <2>1. ASSUME NEW i \in 1..(n + 1) PROVE new[i] = id \/ \E k \in 1..n : new[i] = ws[k]
    <3>1. CASE i <= p
      <4>1. i \in 1..n /\ new[i] = ws[i]
        BY <1>1, <1>3, <3>1
      <4> QED
        BY <4>1
    <3>2. CASE i = p + 1
      BY <1>1, <1>3, <3>2
    <3>3. CASE i > p + 1
      <4>1. i - 1 \in 1..n /\ new[i] = ws[i - 1]
        BY <1>1, <1>3, <3>3
      <4> QED
        BY <4>1
    <3> QED
      BY <1>1, <3>1, <3>2, <3>3
  <2>2. ASSUME NEW k \in 1..n PROVE \E i \in 1..(n + 1) : new[i] = ws[k]
    <3>1. CASE k <= p
      <4>1. k \in 1..(n + 1) /\ new[k] = ws[k]
        BY <1>1, <1>3, <3>1
      <4> QED
        BY <4>1
    <3>2. CASE k > p
      <4> DEFINE j == k + 1
      <4>1. j \in 1..(n + 1) /\ ~(j <= p) /\ j # p + 1 /\ j - 1 = k
        BY <1>1, <3>2
      <4> HIDE DEF j
      <4>2. new[j] = ws[k]
        BY <1>3, <4>1
      <4> QED
        BY <4>1, <4>2
    <3> QED
      BY <1>1, <3>1, <3>2
  <2>3. p + 1 \in 1..(n + 1) /\ new[p + 1] = id
    BY <1>1, <1>3
  <2>4. ToSet(new) = ToSet(ws) \cup {id}
    <3>1. ToSet(new) = {new[i] : i \in 1..(n + 1)} /\ ToSet(ws) = {ws[k] : k \in 1..n}
      BY <1>1, <1>4, Zenon DEF ToSet
    <3>2. ASSUME NEW x \in ToSet(new) PROVE x \in ToSet(ws) \cup {id}
      <4>1. PICK i \in 1..(n + 1) : x = new[i]
        BY <3>1
      <4> QED
        BY <2>1, <3>1, <4>1
    <3>3. ASSUME NEW x \in ToSet(ws) PROVE x \in ToSet(new)
      <4>1. PICK k \in 1..n : x = ws[k]
        BY <3>1
      <4> QED
        BY <2>2, <3>1, <4>1
    <3>4. id \in ToSet(new)
      BY <2>3, <3>1
    <3> QED
      BY <3>2, <3>3, <3>4
  <2> QED
    BY <1>2, <1>6, <2>4
<1> QED
  BY <1>5, <1>6

\* In any slice a removal takes no other ID than the one asked for.
LEMMA RemovedHolds ==
    ASSUME NEW ws \in Seq(Nat), NEW id \in Nat
    PROVE  ToSet(Removed(ws, id)) \in {ToSet(ws), ToSet(ws) \ {id}}
<1> DEFINE p == sortInsertPos(ws, id)
           n == Len(ws)
           new == RemoveAt(ws, p + 1)
<1>1. n \in Nat /\ DOMAIN ws = 1..n /\ p \in 0..n
  BY SearchFinds, LenProperties
<1>2. Removed(ws, id) = IF p < n /\ ws[p + 1] = id THEN new ELSE ws
  BY DEF Removed, IsAt
<1>3. CASE p < n /\ ws[p + 1] = id
  <2>1. p \in 0..(n - 1)
    BY <1>1, <1>3
  <2>2. /\ new \in Seq(Nat) /\ Len(new) = n - 1
        /\ \A i \in 1..(n - 1) : new[i] = IF i <= p THEN ws[i] ELSE ws[i + 1]
    BY <2>1, RemoveAtElements
  <2>3. DOMAIN new = 1..(n - 1)
    BY <1>1, <2>2, LenProperties
  <2> HIDE DEF p, n, new
  <2>4. ASSUME NEW i \in 1..(n - 1) PROVE \E k \in 1..n : new[i] = ws[k]
    <3>1. i \in 1..n /\ i + 1 \in 1..n
      BY <1>1
    <3> QED
      BY <2>2, <3>1
  <2>5. ASSUME NEW k \in 1..n, ws[k] # id PROVE \E i \in 1..(n - 1) : new[i] = ws[k]
    <3>1. k # p + 1
      BY <1>3, <2>5
    <3>2. CASE k <= p
      <4>1. k \in 1..(n - 1) /\ new[k] = ws[k]
        BY <1>1, <2>1, <2>2, <3>2
      <4> QED
        BY <4>1
    <3>3. CASE k > p
      <4> DEFINE j == k - 1
      <4>1. j \in 1..(n - 1) /\ ~(j <= p) /\ j + 1 = k
        BY <1>1, <2>1, <3>1, <3>3
      <4> HIDE DEF j
      <4>2. new[j] = ws[k]
        BY <2>2, <4>1
      <4> QED
        BY <4>1, <4>2
    <3> QED
      BY <1>1, <3>2, <3>3
  <2>6. ToSet(new) \subseteq ToSet(ws)
    BY <1>1, <2>3, <2>4, Zenon DEF ToSet
  <2>7. ToSet(ws) \ {id} \subseteq ToSet(new)
    BY <1>1, <2>3, <2>5, Zenon DEF ToSet
  <2> QED
    BY <1>2, <1>3, <2>6, <2>7
<1>4. CASE ~(p < n /\ ws[p + 1] = id)
  BY <1>2, <1>4
<1> QED
  BY <1>3, <1>4

\* Whatever the limits of the format, a card another writer left out of order and
\* a number that Serialize cut are the only ways into disorder.
LEMMA DisorderStep ==
    ASSUME MetadataAssumption, TypeOK, NoDuplicates, [Next]_vars
    PROVE  NoDuplicates'
<1>1. wallets \in Seq(Nat) /\ stored \in Seq(AnyRange) /\ Ids \subseteq Nat
  BY RangesOnCard DEF TypeOK, Range32, MetadataAssumption
<1>2. (~disorder => Sorted(wallets)) /\ (~cardDisorder => Apart(stored))
  BY DEF NoDuplicates
<1> DEFINE kept == (~disorder' => Sorted(wallets')) /\ (~cardDisorder' => Apart(stored'))
<1> SUFFICES kept
  BY DEF NoDuplicates
<1>3. ASSUME NEW id \in Ids, AddWallet(id) PROVE kept
  <2>1. Sorted(wallets) => Sorted(Added(wallets, id))
    BY <1>1, AddedIsUnion
  <2> QED
    BY <1>2, <1>3, <2>1 DEF AddWallet
<1>4. ASSUME NEW id \in Ids, RemoveWallet(id) PROVE kept
  <2>1. Sorted(wallets) => Sorted(Removed(wallets, id))
    BY <1>1, RemovedIsDifference
  <2> QED
    BY <1>2, <1>4, <2>1 DEF RemoveWallet
<1>5. ASSUME Store PROVE kept
  <2>1. Sorted(wallets) => Apart(Ranges(wallets))
    BY <1>1, RangesApart
  <2> QED
    BY <1>2, <1>5, <2>1 DEF Store
<1>6. ASSUME Load PROVE kept
  <2>1. Apart(stored) => Sorted(ParseMetadata(stored))
    BY <1>1, ParseSorted
  <2>2. CASE Parses(stored)
    BY <1>2, <1>6, <2>1, <2>2 DEF Load
  <2>3. CASE ~Parses(stored)
    BY <1>2, <1>6, <2>3 DEF Load
  <2> QED
    BY <2>2, <2>3
<1>7. ASSUME UNCHANGED vars PROVE kept
  BY <1>2, <1>7 DEF vars
<1> QED
  BY <1>3, <1>4, <1>5, <1>6, <1>7 DEF Next

\* The history variables make NoDuplicates inductive: a load hands the order of
\* the card's ranges to the slice, a store that of the slice to the card.
IInv == TypeOK /\ NoDuplicates

\* In every reachable state the slice is sorted and the card's ranges are apart
\* unless a card another writer left in disorder, or a number Serialize cut, is
\* behind it (metadata.go:89, 214), for all IDs and all cards.
THEOREM Invariance == Spec => []IInv
<1>1. Init => NoDuplicates
  <2> SUFFICES ASSUME Init PROVE NoDuplicates
    OBVIOUS
  <2>1. wallets = <<>> /\ cardDisorder = ~Apart(stored)
    BY DEF Init
  <2>2. Len(wallets) = 0
    BY <2>1, EmptySeq
  <2>3. \A i \in 1..Len(wallets) : FALSE
    BY <2>2
  <2>4. Sorted(wallets)
    BY <2>3 DEF Sorted
  <2> QED
    BY <2>1, <2>4, Zenon DEF NoDuplicates
<1>2. TypeOK /\ NoDuplicates /\ [Next]_vars => NoDuplicates'
  BY MetadataAssumption, DisorderStep
<1> QED
  BY <1>1, <1>2, TypeCorrect, PTL DEF Spec, IInv

\* Unless disorder came from outside or from a cut number, the slice is sorted and
\* the ranges on the card are apart.
THEOREM NoDuplicateSafety == Spec => []NoDuplicates
<1>1. IInv => NoDuplicates
  BY DEF IInv
<1> QED
  BY <1>1, Invariance, PTL

-----------------------------------------------------------------------------
(* The set of wallets *)

LEMMA BelowOfSet ==
    ASSUME NEW ws \in Seq(Nat), NEW n \in Nat
    PROVE  AllBelow(ws, n) <=> \A x \in ToSet(ws) : x < n
<1>1. DOMAIN ws = 1..Len(ws)
  BY LenProperties
<1> QED
  BY <1>1 DEF AllBelow, ToSet

\* No number is cut of a slice that fits, in order or not: a range holds only IDs
\* of the slice.
LEMMA RangesBelow ==
    ASSUME NEW ws \in Seq(Nat), NEW n \in Nat, AllBelow(ws, n)
    PROVE  EndBelow(Ranges(ws), n)
<1> DEFINE T == {s \in Seq(Nat) : \A m \in Nat : AllBelow(s, m) => EndBelow(Ranges(s), m)}
<1>1. <<>> \in T
  <2> DEFINE none == <<>>
             zero == 0
  <2>1. none \in Seq(Nat) /\ Len(none) = 0 /\ zero \in Nat
    BY EmptySeq
  <2> HIDE DEF zero, none
  <2>2. Ranges(none) = none
    BY <2>1, RangesOfAppend DEF none
  <2>3. \A k \in 1..Len(none) : FALSE
    BY <2>1
  <2>4. \A m \in Nat : EndBelow(Ranges(none), m)
    BY <2>2, <2>3 DEF EndBelow
  <2> QED
    BY <2>1, <2>4 DEF none
<1>2. ASSUME NEW s \in Seq(Nat), NEW w \in Nat, s \in T PROVE Append(s, w) \in T
  <2> DEFINE new == Append(s, w)
             rs == Ranges(s)
  <2>1. new \in Seq(Nat)
    BY AppendProperties
  <2>2. rs \in Seq(AnyRange) /\ Ranges(new) = WithId(rs, w)
    BY RangesOfAppend
  <2> SUFFICES ASSUME NEW m \in Nat, AllBelow(new, m) PROVE EndBelow(Ranges(new), m)
    BY <2>1
  <2>3. AllBelow(s, m) /\ w < m
    BY SortedOfAppend
  <2>4. EndBelow(rs, m)
    BY <1>2, <2>3
  <2> HIDE DEF rs, new
  <2>5. PICK front \in Seq(AnyRange), r \in AnyRange : Extends(rs, w, front, r)
    BY <2>2, WithIdCases
  <2>6. Ranges(new) = Append(front, r) /\ End(r) = w
    BY <2>2, <2>5 DEF Extends, End
  <2>7. EndBelow(front, m)
    <3>1. CASE front = rs
      BY <2>4, <3>1
    <3>2. CASE \E q \in AnyRange : rs = Append(front, q)
      BY <2>4, <3>2, ApartOfAppend
    <3> QED
      BY <2>5, <3>1, <3>2 DEF Extends
  <2>8. EndBelow(Append(front, r), m) <=> EndBelow(front, m) /\ End(r) < m
    BY ApartOfAppend
  <2> QED
    BY <2>3, <2>6, <2>7, <2>8
<1>3. Seq(Nat) \subseteq T
  <2> HIDE DEF T
  <2> QED
    BY <1>1, <1>2, InductionOnSeq
<1> QED
  BY <1>3

\* What is stored of a slice that fits is the slice.
LEMMA StoresFitting ==
    ASSUME MetadataAssumption, NEW ws \in Seq(Nat), \A x \in ToSet(ws) : x < StartLimit
    PROVE  ParseMetadata(Serialize(ws)) = ws
<1> DEFINE rs == Ranges(ws)
<1>1. StartLimit \in Nat
  BY DEF MetadataAssumption
<1>2. rs \in Seq(AnyRange) /\ ParseMetadata(rs) = ws
  BY RoundTrip
<1>3. EndBelow(rs, StartLimit)
  BY <1>1, BelowOfSet, RangesBelow
<1> HIDE DEF rs
<1>4. ASSUME NEW k \in 1..Len(rs) PROVE rs[k].start < StartLimit /\ rs[k].count < StartLimit
  <2>1. rs[k] \in AnyRange
    BY <1>2, ElementOfSeq
  <2>2. rs[k].start \in Nat /\ rs[k].count \in Nat
    BY <2>1 DEF AnyRange
  <2>3. rs[k].start + rs[k].count < StartLimit
    BY <1>3 DEF EndBelow, End
  <2> QED
    BY <1>1, <2>2, <2>3
<1>5. Serialize(ws) = rs
  BY <1>4, SerializeKeeps DEF rs
<1> QED
  BY <1>2, <1>5

LEMMA WalletSetInit ==
    ASSUME MetadataAssumption, Init
    PROVE  Abstract!Init
<1>1. wallets = <<>> /\ stored \in Seq(AnyRange)
  BY RangesOnCard DEF Init, MetadataAssumption, Range32
<1>2. Len(wallets) = 0 /\ DOMAIN wallets = {}
  BY <1>1
<1>3. ToSet(wallets) = {} /\ Sorted(wallets)
  BY <1>2 DEF ToSet, Sorted
<1>4. ParseMetadata(stored) \in Seq(Nat)
  BY <1>1, ParsedType
<1>5. ToSet(ParseMetadata(stored)) \subseteq Nat
  BY <1>4 DEF ToSet
<1> QED
  BY <1>3, <1>5 DEF Abstract!Init, Sorted

LEMMA WalletSetStep ==
    ASSUME MetadataAssumption, TypeOK, TypeOK', [Next]_vars
    PROVE  [Abstract!Next]_(Abstract!sets)
<1> DEFINE step == [Abstract!Next]_(Abstract!sets)
<1>1. /\ wallets \in Seq(Nat) /\ stored \in Seq(AnyRange) /\ stored' \in Seq(AnyRange)
      /\ Ids \subseteq Nat
  BY RangesOnCard DEF TypeOK, Range32, MetadataAssumption
<1>2. ASSUME NEW id \in Ids, AddWallet(id) PROVE step
  <2>1. /\ ToSet(wallets') = ToSet(wallets) \cup {id}
        /\ Sorted(wallets) => Sorted(wallets')
        /\ stored' = stored
    BY <1>1, <1>2, AddedHolds, AddedIsUnion DEF AddWallet
  <2>2. Abstract!Add(id)
    BY <2>1 DEF Abstract!Add, Abstract!KeepsExact, Sorted
  <2> QED
    BY <2>2 DEF Abstract!Next
<1>3. ASSUME NEW id \in Ids, RemoveWallet(id) PROVE step
  <2>1. /\ ToSet(wallets') \in {ToSet(wallets), ToSet(wallets) \ {id}}
        /\ Sorted(wallets) => Sorted(wallets') /\ ToSet(wallets') = ToSet(wallets) \ {id}
        /\ stored' = stored
    BY <1>1, <1>3, RemovedHolds, RemovedIsDifference DEF RemoveWallet
  <2>2. Abstract!Remove(id)
    BY <2>1 DEF Abstract!Remove, Abstract!KeepsExact, Sorted
  <2> QED
    BY <2>2 DEF Abstract!Next
<1>4. ASSUME Store PROVE step
  <2>1. wallets' = wallets /\ stored' = Serialize(wallets)
    BY <1>4 DEF Store
  <2>2. CASE \A x \in ToSet(wallets) : x < StartLimit
    <3>1. ParseMetadata(stored') = wallets
      BY <1>1, <2>1, <2>2, StoresFitting
    <3>2. Abstract!Store
      BY <2>1, <2>2, <3>1 DEF Abstract!Store, Abstract!Fits
    <3> QED
      BY <3>2 DEF Abstract!Next
  <2>3. CASE ~(\A x \in ToSet(wallets) : x < StartLimit)
    <3>1. ParseMetadata(stored') \in Seq(Nat)
      BY <1>1, ParsedType
    <3>2. ToSet(ParseMetadata(stored')) \subseteq Nat
      BY <3>1 DEF ToSet
    <3>3. Sorted(ParseMetadata(stored')) \in BOOLEAN
      BY DEF Sorted
    <3>4. Abstract!Store
      BY <2>1, <2>3, <3>2, <3>3 DEF Abstract!Store, Abstract!Fits
    <3> QED
      BY <3>4 DEF Abstract!Next
  <2> QED
    BY <2>2, <2>3
<1>5. ASSUME Load PROVE step
  <2>1. CASE Parses(stored)
    <3>1. wallets' = ParseMetadata(stored) /\ stored' = stored
      BY <1>5, <2>1 DEF Load
    <3>2. Abstract!Load
      BY <3>1 DEF Abstract!Load
    <3> QED
      BY <3>2 DEF Abstract!Next
  <2>2. CASE ~Parses(stored)
    BY <1>5, <2>2 DEF Load, Abstract!sets
  <2> QED
    BY <2>1, <2>2
<1>6. ASSUME UNCHANGED vars PROVE step
  BY <1>6 DEF vars, Abstract!sets
<1> QED
  BY <1>2, <1>3, <1>4, <1>5, <1>6 DEF Next

\* For every card that may be found and all IDs, memory and card behave as two
\* sets, exact as long as they are in order.
THEOREM Refinement == Spec => ImplementsWalletSet
<1>1. Init => Abstract!Init
  BY MetadataAssumption, WalletSetInit
<1>2. TypeOK /\ TypeOK' /\ [Next]_vars => [Abstract!Next]_(Abstract!sets)
  BY MetadataAssumption, WalletSetStep
<1> QED
  BY <1>1, <1>2, TypeCorrect, PTL DEF Spec, ImplementsWalletSet, Abstract!Spec

-----------------------------------------------------------------------------
(* The folds, one character or index more *)

\* Characters.  The provers do not know of a literal that it is a string.
Char == STRING \cup {"0", "1", "2", "3", "4", "5", "6", "7", "8", "9", "/", "'", "m", "."}

LEMMA DigitFacts ==
    /\ Len(Digits) = 10
    /\ \A i \in 1..10 : IsDigit(Digits[i]) /\ Digits[i] \in Char
    /\ \A i, j \in 1..10 : Digits[i] = Digits[j] => i = j
    /\ \A c : IsDigit(c) => \E i \in 1..10 : c = Digits[i]
    /\ ~IsDigit("/") /\ ~IsDigit("'") /\ ~IsDigit("m") /\ ~IsDigit(".")
<1>1. Len(Digits) = 10
  BY DEF Digits
<1>2. \A i \in 1..10 : i \in {1, 2, 3, 4, 5, 6, 7, 8, 9, 10}
  OBVIOUS
<1>3. /\ Digits[1] = "0" /\ Digits[2] = "1" /\ Digits[3] = "2" /\ Digits[4] = "3" /\ Digits[5] = "4"
      /\ Digits[6] = "5" /\ Digits[7] = "6" /\ Digits[8] = "7" /\ Digits[9] = "8" /\ Digits[10] = "9"
  BY DEF Digits
<1>4. \A i \in 1..10 : IsDigit(Digits[i]) /\ Digits[i] \in Char
  <2>1. \A i \in 1..10 : Digits[i] \in Char
    BY <1>2, <1>3 DEF Char
  <2>2. \A i \in 1..10 : IsDigit(Digits[i])
    BY <1>1 DEF IsDigit, Contains
  <2> QED
    BY <2>1, <2>2
<1>5. \A i, j \in 1..10 : Digits[i] = Digits[j] => i = j
  BY <1>2, <1>3
<1>6. \A c : IsDigit(c) => \E i \in 1..10 : c = Digits[i]
  BY <1>1 DEF IsDigit, Contains
<1>7. ~IsDigit("/") /\ ~IsDigit("'") /\ ~IsDigit("m") /\ ~IsDigit(".")
  BY <1>1, <1>2, <1>3 DEF IsDigit, Contains
<1> QED
  BY <1>1, <1>4, <1>5, <1>6, <1>7

LEMMA SpaceIsNoDigit == ~IsDigit(" ")
<1>1. Len(Digits) = 10
  BY DEF Digits
<1>2. \A i \in 1..10 : i \in {1, 2, 3, 4, 5, 6, 7, 8, 9, 10}
  OBVIOUS
<1>3. /\ Digits[1] = "0" /\ Digits[2] = "1" /\ Digits[3] = "2" /\ Digits[4] = "3" /\ Digits[5] = "4"
      /\ Digits[6] = "5" /\ Digits[7] = "6" /\ Digits[8] = "7" /\ Digits[9] = "8" /\ Digits[10] = "9"
  BY DEF Digits
<1>4. \A i \in 1..10 : Digits[i] # " "
  BY <1>2, <1>3
<1> QED
  BY <1>1, <1>4 DEF IsDigit, Contains

LEMMA DigitOfDigit ==
    /\ \A c : DigitOf(c) \in -1..9
    /\ \A i \in 1..10 : DigitOf(Digits[i]) = i - 1
<1>1. ASSUME NEW c, NEW i \in 1..10, c = Digits[i] PROVE DigitOf(c) = i - 1
  <2>1. {k \in 1..Len(Digits) : Digits[k] = c} = {i}
    BY <1>1, DigitFacts
  <2>2. Min({i}) = i
    BY DEF Min
  <2> QED
    BY <2>1, <2>2 DEF DigitOf, SelectInSeq
<1>2. ASSUME NEW c, ~IsDigit(c) PROVE DigitOf(c) = -1
  <2>1. {k \in 1..Len(Digits) : Digits[k] = c} = {}
    BY <1>2 DEF IsDigit, Contains
  <2> QED
    BY <2>1 DEF DigitOf, SelectInSeq
<1> QED
  BY <1>1, <1>2, DigitFacts

LEMMA ValueTyped ==
    /\ 0 \in Int
    /\ \A c \in Char, v \in Int : WithDigit(v, c) \in Int
  BY DigitOfDigit DEF WithDigit

\* The value of digits, position by position.
LEMMA ValueIterates ==
    ASSUME NEW s \in Seq(Char)
    PROVE  \E step \in Steps(Len(s), Int) :
              /\ \A k \in 1..Len(s) : step[k] = [v \in Int |-> WithDigit(v, s[k])]
              /\ \E u \in Iterations(Len(s), Int, 0, step) : Value(s) = u[Len(s)]
<1> DEFINE n == Len(s)
           V == Int
           base == 0
           step == [k \in 1..n |-> [v \in V |-> WithDigit(v, s[k])]]
           Folded(h) == h = [t \in SUBSET (DOMAIN s) |->
               IF t = {} THEN base ELSE WithDigit(h[t \ {Max(t)}], s[Max(t)])]
<1>1. n \in Nat /\ DOMAIN s = 1..n /\ (\A k \in 1..n : s[k] \in Char) /\ base \in V
  BY LenProperties, ElementOfSeq, ValueTyped
<1>2. \A k \in 1..n, v \in V : WithDigit(v, s[k]) \in V
  BY <1>1, ValueTyped
<1>3. step \in Steps(n, V)
  <2>1. step \in [1..n -> [V -> V]]
    BY <1>2
  <2> QED
    BY <2>1 DEF Steps
<1>4. PICK g \in [SUBSET (1..n) -> V] :
         \A t \in SUBSET (1..n) : g[t] = IF t = {} THEN base ELSE step[Max(t)][g[t \ {Max(t)}]]
  <2> HIDE DEF n, V, base, step
  <2>1. Foldings(n, V, base, step) # {}
    BY <1>1, <1>3, FoldingExists
  <2> QED
    BY <2>1 DEF Foldings
<1>5. Folded(g)
  <2>1. ASSUME NEW t \in SUBSET (1..n)
        PROVE  g[t] = IF t = {} THEN base ELSE WithDigit(g[t \ {Max(t)}], s[Max(t)])
    <3>1. CASE t = {}
      BY <1>4, <3>1
    <3>2. CASE t # {}
      <4>1. Max(t) \in 1..n /\ t \ {Max(t)} \in SUBSET (1..n)
        BY <1>1, <3>2, GreatestOfSubset
      <4>2. g[t \ {Max(t)}] \in V
        BY <4>1
      <4> HIDE DEF V
      <4>3. step[Max(t)][g[t \ {Max(t)}]] = WithDigit(g[t \ {Max(t)}], s[Max(t)])
        BY <4>1, <4>2
      <4> QED
        BY <1>4, <3>2, <4>3
    <3> QED
      BY <3>1, <3>2
  <2> HIDE DEF step, n, V, base
  <2> QED
    BY <1>1, <2>1
<1>6. PICK h : Folded(h) /\ Value(s) = h[DOMAIN s]
  BY <1>5 DEF Value, FoldLeft, MapThenFoldSet
<1>7. h[{}] = base
  BY <1>1, <1>6
<1>8. ASSUME NEW k \in 1..n, h[1..(k - 1)] \in V PROVE h[1..k] = step[k][h[1..(k - 1)]]
  <2>1. k \in Nat /\ k # 0 /\ 1..k # {} /\ 1..k \in SUBSET (1..n)
    <3>1. k \in Nat /\ k # 0 /\ k \in 1..k /\ k <= n
      BY <1>1
    <3>2. 1..k # {}
      BY <3>1
    <3>3. \A y \in 1..k : y \in 1..n
      BY <1>1, <3>1
    <3> QED
      BY <3>1, <3>2, <3>3
  <2>2. Max(1..k) = k /\ 1..k \ {k} = 1..(k - 1)
    BY <2>1, GreatestOfInterval
  <2> HIDE DEF n, V, base
  <2>3. h[1..k] = WithDigit(h[1..(k - 1)], s[k])
    BY <1>1, <1>6, <2>1, <2>2
  <2> QED
    BY <1>8, <2>3
<1> DEFINE u == [k \in 0..n |-> h[1..k]]
<1>9. u \in Iterations(n, V, base, step)
  <2> HIDE DEF n, V, base, step
  <2> QED
    BY <1>1, <1>3, <1>7, <1>8, FoldIterates
<1>10. Value(s) = u[n]
  <2>1. n \in 0..n
    BY <1>1
  <2> HIDE DEF n
  <2> QED
    BY <1>1, <1>6, <2>1
<1> HIDE DEF u
<1> QED
  BY <1>3, <1>9, <1>10

LEMMA ValueOfAppend ==
    ASSUME NEW s \in Seq(Char), NEW x \in Char
    PROVE  /\ Value(s) \in Int
           /\ Value(Append(s, x)) = WithDigit(Value(s), x)
<1> DEFINE n == Len(s)
           a == Append(s, x)
           V == Int
           base == 0
<1>1. n \in Nat /\ a \in Seq(Char) /\ Len(a) = n + 1 /\ (\A k \in 1..n : a[k] = s[k]) /\ a[n + 1] = x
  <2>1. n \in Nat
    BY LenProperties
  <2> HIDE DEF n
  <2> QED
    BY <2>1, AppendProperties DEF n
<1>2. base \in V
  BY ValueTyped
<1>3. PICK step \in Steps(n, V) :
         /\ \A k \in 1..n : step[k] = [v \in V |-> WithDigit(v, s[k])]
         /\ \E u \in Iterations(n, V, base, step) : Value(s) = u[n]
  BY ValueIterates
<1>4. PICK u \in Iterations(n, V, base, step) : Value(s) = u[n]
  BY <1>3
<1> HIDE DEF a
<1>5. PICK next \in Steps(n + 1, V) :
         /\ \A k \in 1..(n + 1) : next[k] = [v \in V |-> WithDigit(v, a[k])]
         /\ \E g \in Iterations(n + 1, V, base, next) : Value(a) = g[n + 1]
  BY <1>1, ValueIterates
<1>6. PICK g \in Iterations(n + 1, V, base, next) : Value(a) = g[n + 1]
  BY <1>5
<1>7. \A k \in 1..n : next[k] = step[k]
  <2> SUFFICES ASSUME NEW k \in 1..n PROVE next[k] = step[k]
    OBVIOUS
  <2>1. k \in 1..(n + 1) /\ a[k] = s[k]
    BY <1>1
  <2> HIDE DEF V
  <2> QED
    BY <1>3, <1>5, <2>1
<1>8. n + 1 \in 1..(n + 1)
  BY <1>1
<1> HIDE DEF n, V, base
<1>9. u[n] \in V /\ g[n + 1] = next[n + 1][u[n]]
  <2>1. n \in Nat
    BY <1>1
  <2> QED
    BY <1>2, <1>3, <1>4, <1>5, <1>6, <1>7, <2>1, IterationOfNext
<1>10. next[n + 1][u[n]] = WithDigit(u[n], x)
  BY <1>1, <1>5, <1>8, <1>9
<1> QED
  BY <1>4, <1>6, <1>9, <1>10 DEF a, V

LEMMA ValueOfNothing == Value(<<>>) = 0
<1> DEFINE none == <<>>
           V == Int
           base == 0
<1>1. none \in Seq(Char) /\ Len(none) = 0
  BY EmptySeq
<1> HIDE DEF none, V, base
<1>2. PICK step \in Steps(0, V) : \E u \in Iterations(0, V, base, step) : Value(none) = u[0]
  BY <1>1, ValueIterates DEF V, base
<1> QED
  BY <1>2 DEF none, base, Iterations

-----------------------------------------------------------------------------
(* The components of a path *)

Lists == Seq(Seq(Char)) \ {<<>>}

LEMMA LastAndFront ==
    ASSUME NEW S, NEW s \in Seq(S), s # <<>>
    PROVE  /\ Front(s) \in Seq(S) /\ Last(s) \in S
           /\ s = Append(Front(s), Last(s))
           /\ Len(Front(s)) = Len(s) - 1
<1>1. PICK t \in Seq(S), e \in S : s = Append(t, e)
  BY SequenceEmptyOrAppend
<1>2. Len(s) = Len(t) + 1 /\ Len(t) \in Nat /\ s[Len(s)] = e /\ \A i \in 1..Len(t) : s[i] = t[i]
  BY <1>1, AppendProperties, LenProperties
<1>3. Last(s) = e
  BY <1>2 DEF Last
<1> DEFINE p == Len(t)
           u == SubSeq(s, 1, p)
<1>4. p \in 0..Len(s) /\ Len(s) - 1 = p
  BY <1>2
<1>5. u \in Seq(S) /\ Len(u) = p /\ \A i \in 1..p : u[i] = s[i]
  <2> HIDE DEF p
  <2> QED
    BY <1>4, PrefixProperties
<1> HIDE DEF u
<1>6. u = t
  BY <1>2, <1>5, SeqEqual
<1>7. Front(s) = u
  BY <1>4 DEF Front, u
<1> QED
  BY <1>1, <1>2, <1>3, <1>6, <1>7

LEMMA LastOfAppend ==
    ASSUME NEW S, NEW s \in Seq(S), NEW e \in S
    PROVE  /\ Append(s, e) # <<>> /\ Last(Append(s, e)) = e /\ Front(Append(s, e)) = s
<1> DEFINE a == Append(s, e)
<1>1. a \in Seq(S) /\ a # <<>> /\ Len(a) = Len(s) + 1 /\ a[Len(s) + 1] = e
  BY AppendProperties
<1> HIDE DEF a
<1>2. Last(a) = e
  BY <1>1 DEF Last
<1>3. a = Append(Front(a), e) /\ Front(a) \in Seq(S)
  BY <1>1, <1>2, LastAndFront
<1>4. Front(a) = s
  BY <1>3, AppendInjective DEF a
<1> QED
  BY <1>1, <1>2, <1>4 DEF a

LEMMA ListTyped ==
    /\ << <<>> >> \in Lists
    /\ \A c \in Char, v \in Lists :
          WithChar(v, c) \in Lists
<1>1. <<>> \in Seq(Char) /\ <<>> \in Seq(Seq(Char))
  BY EmptySeq
<1>2. ASSUME NEW v \in Seq(Seq(Char)), NEW e \in Seq(Char) PROVE Append(v, e) \in Lists
  BY AppendProperties DEF Lists
<1>3. << <<>> >> = Append(<<>>, <<>>)
  OBVIOUS
<1>4. << <<>> >> \in Lists
  BY <1>1, <1>2, <1>3
<1>5. ASSUME NEW c \in Char, NEW v \in Lists
      PROVE  Append(v, <<>>) \in Lists /\ Append(Front(v), Append(Last(v), c)) \in Lists
  <2>1. v \in Seq(Seq(Char)) /\ v # <<>>
    BY DEF Lists
  <2>2. Front(v) \in Seq(Seq(Char)) /\ Last(v) \in Seq(Char)
    BY <2>1, LastAndFront
  <2>3. Append(Last(v), c) \in Seq(Char)
    BY <2>2, AppendProperties
  <2> QED
    BY <1>1, <1>2, <2>1, <2>2, <2>3
<1> QED
  BY <1>4, <1>5 DEF WithChar

\* The components of the first characters, position by position.
LEMMA ListIterates ==
    ASSUME NEW s \in Seq(Char)
    PROVE  \E step \in Steps(Len(s), Lists) :
              /\ \A k \in 1..Len(s) : step[k] = [v \in Lists |-> WithChar(v, s[k])]
              /\ \E u \in Iterations(Len(s), Lists, << <<>> >>, step) : Components(s) = u[Len(s)]
<1> DEFINE n == Len(s)
           V == Lists
           base == << <<>> >>
           step == [k \in 1..n |-> [v \in V |-> WithChar(v, s[k])]]
           Folded(h) == h = [t \in SUBSET (DOMAIN s) |->
               IF t = {} THEN base ELSE WithChar(h[t \ {Max(t)}], s[Max(t)])]
<1>1. n \in Nat /\ DOMAIN s = 1..n /\ (\A k \in 1..n : s[k] \in Char) /\ base \in V
  BY LenProperties, ElementOfSeq, ListTyped
<1>2. \A k \in 1..n, v \in V : WithChar(v, s[k]) \in V
  BY <1>1, ListTyped
<1>3. step \in Steps(n, V)
  <2>1. step \in [1..n -> [V -> V]]
    BY <1>2
  <2> QED
    BY <2>1 DEF Steps
<1>4. PICK g \in [SUBSET (1..n) -> V] :
         \A t \in SUBSET (1..n) : g[t] = IF t = {} THEN base ELSE step[Max(t)][g[t \ {Max(t)}]]
  <2> HIDE DEF n, V, base, step
  <2>1. Foldings(n, V, base, step) # {}
    BY <1>1, <1>3, FoldingExists
  <2> QED
    BY <2>1 DEF Foldings
<1>5. Folded(g)
  <2>1. ASSUME NEW t \in SUBSET (1..n)
        PROVE  g[t] = IF t = {} THEN base ELSE WithChar(g[t \ {Max(t)}], s[Max(t)])
    <3>1. CASE t = {}
      BY <1>4, <3>1
    <3>2. CASE t # {}
      <4>1. Max(t) \in 1..n /\ t \ {Max(t)} \in SUBSET (1..n)
        BY <1>1, <3>2, GreatestOfSubset
      <4>2. g[t \ {Max(t)}] \in V
        BY <4>1
      <4> HIDE DEF V
      <4>3. step[Max(t)][g[t \ {Max(t)}]] = WithChar(g[t \ {Max(t)}], s[Max(t)])
        BY <4>1, <4>2
      <4> QED
        BY <1>4, <3>2, <4>3
    <3> QED
      BY <3>1, <3>2
  <2> HIDE DEF step, n, V, base
  <2> QED
    BY <1>1, <2>1
<1>6. PICK h : Folded(h) /\ Components(s) = h[DOMAIN s]
  BY <1>5 DEF Components, FoldLeft, MapThenFoldSet
<1>7. h[{}] = base
  BY <1>1, <1>6
<1>8. ASSUME NEW k \in 1..n, h[1..(k - 1)] \in V PROVE h[1..k] = step[k][h[1..(k - 1)]]
  <2>1. k \in Nat /\ k # 0 /\ 1..k # {} /\ 1..k \in SUBSET (1..n)
    <3>1. k \in Nat /\ k # 0 /\ k \in 1..k /\ k <= n
      BY <1>1
    <3>2. 1..k # {}
      BY <3>1
    <3>3. \A y \in 1..k : y \in 1..n
      BY <1>1, <3>1
    <3> QED
      BY <3>1, <3>2, <3>3
  <2>2. Max(1..k) = k /\ 1..k \ {k} = 1..(k - 1)
    BY <2>1, GreatestOfInterval
  <2> HIDE DEF n, V, base
  <2>3. h[1..k] = WithChar(h[1..(k - 1)], s[k])
    BY <1>1, <1>6, <2>1, <2>2
  <2> QED
    BY <1>8, <2>3
<1> DEFINE u == [k \in 0..n |-> h[1..k]]
<1>9. u \in Iterations(n, V, base, step)
  <2> HIDE DEF n, V, base, step
  <2> QED
    BY <1>1, <1>3, <1>7, <1>8, FoldIterates
<1>10. Components(s) = u[n]
  <2>1. n \in 0..n
    BY <1>1
  <2> HIDE DEF n
  <2> QED
    BY <1>1, <1>6, <2>1
<1> HIDE DEF u
<1> QED
  BY <1>3, <1>9, <1>10

LEMMA ListOfAppend ==
    ASSUME NEW s \in Seq(Char), NEW x \in Char
    PROVE  /\ Components(s) \in Lists
           /\ Components(Append(s, x)) = WithChar(Components(s), x)
<1> DEFINE n == Len(s)
           a == Append(s, x)
           V == Lists
           base == << <<>> >>
<1>1. n \in Nat /\ a \in Seq(Char) /\ Len(a) = n + 1 /\ (\A k \in 1..n : a[k] = s[k]) /\ a[n + 1] = x
  <2>1. n \in Nat
    BY LenProperties
  <2> HIDE DEF n
  <2> QED
    BY <2>1, AppendProperties DEF n
<1>2. base \in V
  BY ListTyped
<1>3. PICK step \in Steps(n, V) :
         /\ \A k \in 1..n : step[k] = [v \in V |-> WithChar(v, s[k])]
         /\ \E u \in Iterations(n, V, base, step) : Components(s) = u[n]
  BY ListIterates
<1>4. PICK u \in Iterations(n, V, base, step) : Components(s) = u[n]
  BY <1>3
<1> HIDE DEF a
<1>5. PICK next \in Steps(n + 1, V) :
         /\ \A k \in 1..(n + 1) : next[k] = [v \in V |-> WithChar(v, a[k])]
         /\ \E g \in Iterations(n + 1, V, base, next) : Components(a) = g[n + 1]
  BY <1>1, ListIterates
<1>6. PICK g \in Iterations(n + 1, V, base, next) : Components(a) = g[n + 1]
  BY <1>5
<1>7. \A k \in 1..n : next[k] = step[k]
  <2> SUFFICES ASSUME NEW k \in 1..n PROVE next[k] = step[k]
    OBVIOUS
  <2>1. k \in 1..(n + 1) /\ a[k] = s[k]
    BY <1>1
  <2> HIDE DEF V
  <2> QED
    BY <1>3, <1>5, <2>1
<1>8. n + 1 \in 1..(n + 1)
  BY <1>1
<1> HIDE DEF n, V, base
<1>9. u[n] \in V /\ g[n + 1] = next[n + 1][u[n]]
  <2>1. n \in Nat
    BY <1>1
  <2> QED
    BY <1>2, <1>3, <1>4, <1>5, <1>6, <1>7, <2>1, IterationOfNext
<1>10. next[n + 1][u[n]] = WithChar(u[n], x)
  BY <1>1, <1>5, <1>8, <1>9
<1> QED
  BY <1>4, <1>6, <1>9, <1>10 DEF a, V

LEMMA ListOfNothing == Components(<<>>) = << <<>> >>
<1> DEFINE none == <<>>
           V == Lists
           base == << <<>> >>
<1>1. none \in Seq(Char) /\ Len(none) = 0
  BY EmptySeq
<1> HIDE DEF none, V, base
<1>2. PICK step \in Steps(0, V) : \E u \in Iterations(0, V, base, step) : Components(none) = u[0]
  BY <1>1, ListIterates DEF V, base
<1> QED
  BY <1>2 DEF none, base, Iterations

-----------------------------------------------------------------------------
(* Decimal numbers *)

\* What holds of a number if it holds of all smaller ones holds of all.
LEMMA StrongInduction ==
    ASSUME NEW T, \A n \in Nat : (\A m \in 0..(n - 1) : m \in T) => n \in T
    PROVE  Nat \subseteq T
<1> DEFINE U == {k \in Nat : \A m \in 0..(k - 1) : m \in T}
<1>1. 0 \in U
  OBVIOUS
<1>2. ASSUME NEW k \in Nat, k \in U PROVE k + 1 \in U
  <2>1. k \in T
    BY <1>2
  <2>2. \A m \in 0..((k + 1) - 1) : m = k \/ m \in 0..(k - 1)
    OBVIOUS
  <2> QED
    BY <1>2, <2>1, <2>2
<1>3. Nat \subseteq U
  <2> HIDE DEF U
  <2> QED
    BY <1>1, <1>2, InductionOnNat
<1> SUFFICES ASSUME NEW n \in Nat PROVE n \in T
  OBVIOUS
<1>4. n + 1 \in U /\ n \in 0..((n + 1) - 1)
  BY <1>3
<1> QED
  BY <1>4

LEMMA TenthBelow ==
    ASSUME NEW n \in Nat, n >= 10
    PROVE  n \div 10 \in Nat /\ n \div 10 < n /\ n \div 10 \in 0..(n - 1)
OBVIOUS

\* One digit at the end of what numeral has for the digits before it.
NumeralStep(numeral) ==
    [n \in Nat |-> IF n < 10 THEN <<Digits[n + 1]>>
                   ELSE Append(numeral[n \div 10], Digits[(n % 10) + 1])]

LEMMA NumeralStepTyped ==
    ASSUME NEW u \in [Nat -> Seq(Char)]
    PROVE  NumeralStep(u) \in [Nat -> Seq(Char)]
<1>1. ASSUME NEW n \in Nat, n < 10 PROVE <<Digits[n + 1]>> \in Seq(Char)
  <2>1. n + 1 \in 1..10
    BY <1>1
  <2>2. Digits[n + 1] \in Char
    BY <2>1, DigitFacts
  <2> QED
    BY <2>2
<1>2. ASSUME NEW n \in Nat, n >= 10 PROVE Append(u[n \div 10], Digits[(n % 10) + 1]) \in Seq(Char)
  <2>1. n \div 10 \in Nat /\ (n % 10) + 1 \in 1..10
    BY TenthBelow, <1>2
  <2>2. u[n \div 10] \in Seq(Char) /\ Digits[(n % 10) + 1] \in Char
    BY <2>1, DigitFacts
  <2> QED
    BY <2>2, AppendProperties
<1> QED
  BY <1>1, <1>2 DEF NumeralStep

LEMMA NumeralDef ==
    /\ Numeral = NumeralStep(Numeral)
<1> DEFINE S == [Nat -> Seq(Char)]
           base == [n \in Nat |-> <<>>]
           step == [k \in Nat \ {0} |-> [u \in S |-> NumeralStep(u)]]
<1>1. base \in S
  BY EmptySeq
<1>2. step \in StepsOnNat(S)
  BY NumeralStepTyped DEF StepsOnNat
<1>3. PICK F \in [Nat -> S] : F[0] = base /\ \A k \in Nat \ {0} : F[k] = step[k][F[k - 1]]
  <2> HIDE DEF S, base, step
  <2> QED
    BY <1>1, <1>2, RecursionOnNat
<1>4. ASSUME NEW k \in Nat PROVE F[k] \in S /\ F[k + 1] = NumeralStep(F[k])
  <2>1. k + 1 \in Nat \ {0} /\ (k + 1) - 1 = k
    OBVIOUS
  <2>2. F[k] \in S
    BY <1>3
  <2>3. F[k + 1] = step[k + 1][F[k]]
    BY <1>3, <2>1
  <2> HIDE DEF S
  <2> QED
    BY <2>1, <2>2, <2>3
<1>5. ASSUME NEW k \in Nat, NEW n \in Nat
      PROVE  F[k + 1][n] = IF n < 10 THEN <<Digits[n + 1]>>
                           ELSE Append(F[k][n \div 10], Digits[(n % 10) + 1])
  BY <1>4 DEF NumeralStep
<1> DEFINE T == {k \in Nat : \A n \in 0..(k - 1) : F[k + 1][n] = F[k][n]}
<1>6. Nat \subseteq T
  <2>1. 0 \in T
    OBVIOUS
  <2>2. ASSUME NEW k \in Nat, k \in T PROVE k + 1 \in T
    <3> SUFFICES ASSUME NEW n \in 0..((k + 1) - 1) PROVE F[(k + 1) + 1][n] = F[k + 1][n]
      BY DEF T
    <3>1. n \in Nat /\ k + 1 \in Nat
      OBVIOUS
    <3>2. CASE n < 10
      <4>1. F[k + 1][n] = <<Digits[n + 1]>>
        BY <1>5, <3>1, <3>2
      <4>2. F[(k + 1) + 1][n] = <<Digits[n + 1]>>
        BY <1>5, <3>1, <3>2
      <4> QED
        BY <4>1, <4>2
    <3>3. CASE n >= 10
      <4>1. n \div 10 \in 0..(k - 1)
        BY <3>1, <3>3, TenthBelow
      <4>2. F[k + 1][n \div 10] = F[k][n \div 10]
        BY <2>2, <4>1
      <4> QED
        BY <1>5, <3>1, <3>3, <4>2
    <3> QED
      BY <3>1, <3>2, <3>3
  <2> HIDE DEF T
  <2> QED
    BY <2>1, <2>2, InductionOnNat
<1> DEFINE N == [n \in Nat |-> F[n + 1][n]]
<1>7. ASSUME NEW n \in Nat, NEW d \in Nat PROVE F[(n + 1) + d][n] = N[n]
  <2> DEFINE U == {e \in Nat : F[(n + 1) + e][n] = F[n + 1][n]}
  <2>1. 0 \in U
    OBVIOUS
  <2>2. ASSUME NEW e \in Nat, e \in U PROVE e + 1 \in U
    <3>1. (n + 1) + e \in T /\ n \in 0..(((n + 1) + e) - 1)
      BY <1>6
    <3>2. F[((n + 1) + e) + 1][n] = F[(n + 1) + e][n]
      BY <3>1 DEF T
    <3>3. ((n + 1) + e) + 1 = (n + 1) + (e + 1)
      OBVIOUS
    <3> QED
      BY <2>2, <3>2, <3>3
  <2>3. Nat \subseteq U
    <3> HIDE DEF U
    <3> QED
      BY <2>1, <2>2, InductionOnNat
  <2> QED
    BY <2>3
<1>8. N = NumeralStep(N)
  <2> SUFFICES ASSUME NEW n \in Nat
               PROVE  N[n] = IF n < 10 THEN <<Digits[n + 1]>>
                             ELSE Append(N[n \div 10], Digits[(n % 10) + 1])
    BY DEF NumeralStep
  <2>1. N[n] = F[n + 1][n]
    OBVIOUS
  <2>2. CASE n < 10
    <3>1. F[n + 1][n] = <<Digits[n + 1]>>
      BY <1>5, <2>2
    <3> HIDE DEF N
    <3> QED
      BY <2>1, <2>2, <3>1
  <2>3. CASE n >= 10
    <3>1. n \div 10 \in Nat /\ n - ((n \div 10) + 1) \in Nat
      BY <2>3, TenthBelow
    <3>2. ((n \div 10) + 1) + (n - ((n \div 10) + 1)) = n
      BY <3>1
    <3> HIDE DEF T
    <3>3. F[n][n \div 10] = N[n \div 10]
      <4> DEFINE q == n \div 10
      <4>1. F[(q + 1) + (n - (q + 1))][q] = N[q]
        <5> HIDE DEF q, N
        <5> QED
          BY <1>7, <3>1 DEF q
      <4> QED
        BY <3>2, <4>1
    <3> HIDE DEF N
    <3> QED
      BY <1>5, <2>1, <2>3, <3>3
  <2> QED
    BY <2>2, <2>3
<1> HIDE DEF N
<1>9. \E u : u = NumeralStep(u)
  BY <1>8
<1>10. Numeral = CHOOSE u : u = NumeralStep(u)
  BY DEF Numeral, NumeralStep
<1> QED
  BY <1>9, <1>10

\* A digit more at the end.
LEMMA DigitAppended ==
    ASSUME NEW s \in Seq(Char), NEW d \in 0..9, \A i \in 1..Len(s) : IsDigit(s[i])
    PROVE  LET a == Append(s, Digits[d + 1])
           IN  /\ a \in Seq(Char) /\ a # <<>>
               /\ \A i \in 1..Len(a) : IsDigit(a[i])
               /\ Value(a) = 10 * Value(s) + d
<1> DEFINE x == Digits[d + 1]
           a == Append(s, x)
<1>1. x \in Char /\ IsDigit(x) /\ DigitOf(x) = d
  <2>1. d + 1 \in 1..10 /\ (d + 1) - 1 = d
    OBVIOUS
  <2> QED
    BY <2>1, DigitFacts, DigitOfDigit
<1>2. /\ a \in Seq(Char) /\ a # <<>> /\ Len(a) = Len(s) + 1
      /\ (\A i \in 1..Len(s) : a[i] = s[i]) /\ a[Len(s) + 1] = x /\ Len(s) \in Nat
  BY <1>1, AppendProperties, LenProperties
<1>3. Value(a) = 10 * Value(s) + d
  BY <1>1, ValueOfAppend DEF WithDigit
<1> HIDE DEF a, x
<1>4. ASSUME NEW i \in 1..Len(a) PROVE IsDigit(a[i])
  <2>1. i \in 1..Len(s) \/ i = Len(s) + 1
    BY <1>2
  <2> QED
    BY <1>1, <1>2, <2>1
<1> QED
  BY <1>2, <1>3, <1>4 DEF a, x

LEMMA TenthAndDigit ==
    ASSUME NEW n \in Nat
    PROVE  n % 10 \in 0..9 /\ n = 10 * (n \div 10) + (n % 10)
<1>1. n % 10 \in 0..9
  OBVIOUS
<1>2. n = 10 * (n \div 10) + (n % 10)
  OBVIOUS
<1> QED
  BY <1>1, <1>2

\* A number reads back.
LEMMA NumeralReads ==
    ASSUME NEW n \in Nat
    PROVE  /\ Numeral[n] \in Seq(Char) /\ Numeral[n] # <<>>
           /\ \A i \in 1..Len(Numeral[n]) : IsDigit(Numeral[n][i])
           /\ Value(Numeral[n]) = n
<1> DEFINE Reads(m) == /\ Numeral[m] \in Seq(Char) /\ Numeral[m] # <<>>
                       /\ \A i \in 1..Len(Numeral[m]) : IsDigit(Numeral[m][i])
                       /\ Value(Numeral[m]) = m
           T == {m \in Nat : Reads(m)}
<1>1. \A m \in Nat : Numeral[m] = IF m < 10 THEN <<Digits[m + 1]>>
                                  ELSE Append(Numeral[m \div 10], Digits[(m % 10) + 1])
  BY NumeralDef DEF NumeralStep
<1>2. ASSUME NEW m \in Nat, \A k \in 0..(m - 1) : k \in T PROVE m \in T
  <2>1. CASE m < 10
    <3>1. m \in 0..9 /\ 10 * 0 + m = m
      BY <2>1
    <3>2. <<>> \in Seq(Char) /\ \A i \in 1..Len(<<>>) : IsDigit(<<>>[i])
      BY EmptySeq
    <3>3. Append(<<>>, Digits[m + 1]) = <<Digits[m + 1]>>
      OBVIOUS
    <3>4. Numeral[m] = Append(<<>>, Digits[m + 1])
      BY <1>1, <2>1, <3>3
    <3>5. Value(<<>>) = 0
      BY ValueOfNothing
    <3>6. /\ Numeral[m] \in Seq(Char) /\ Numeral[m] # <<>>
          /\ \A i \in 1..Len(Numeral[m]) : IsDigit(Numeral[m][i])
          /\ Value(Numeral[m]) = 10 * Value(<<>>) + m
      BY <3>1, <3>2, <3>4, DigitAppended
    <3> QED
      BY <3>1, <3>5, <3>6
  <2>2. CASE m >= 10
    <3>1. m \div 10 \in T
      BY <1>2, <2>2, TenthBelow
    <3>2. Numeral[m] = Append(Numeral[m \div 10], Digits[(m % 10) + 1])
      <4>1. ~(m < 10)
        BY <2>2
      <4> QED
        BY <1>1, <4>1
    <3> DEFINE s == Numeral[m \div 10]
               d == m % 10
    <3>3. s \in Seq(Char) /\ Value(s) = m \div 10 /\ \A i \in 1..Len(s) : IsDigit(s[i])
      BY <3>1
    <3>4. d \in 0..9 /\ m = 10 * (m \div 10) + d
      BY TenthAndDigit
    <3> HIDE DEF s, d
    <3>5. LET a == Append(s, Digits[d + 1])
          IN  /\ a \in Seq(Char) /\ a # <<>>
              /\ \A i \in 1..Len(a) : IsDigit(a[i])
              /\ Value(a) = 10 * Value(s) + d
      BY <3>3, <3>4, DigitAppended
    <3>6. Numeral[m] = Append(s, Digits[d + 1])
      BY <3>2 DEF s, d
    <3>7. Value(Numeral[m]) = m
      BY <3>3, <3>4, <3>5, <3>6
    <3> QED
      BY <3>5, <3>6, <3>7
  <2> QED
    BY <2>1, <2>2
<1>3. Nat \subseteq T
  <2> HIDE DEF T
  <2> QED
    BY <1>2, StrongInduction
<1> QED
  BY <1>3



\* A number has digits only, none of which makes it smaller than 0.
LEMMA ValueOfDigits ==
    ASSUME NEW t \in Seq(Char), \A i \in 1..Len(t) : IsDigit(t[i])
    PROVE  Value(t) \in Nat
<1> DEFINE T == {s \in Seq(Char) : (\A i \in 1..Len(s) : IsDigit(s[i])) => Value(s) \in Nat}
<1>1. <<>> \in T
  BY EmptySeq, ValueOfNothing
<1>2. ASSUME NEW s \in Seq(Char), NEW e \in Char, s \in T PROVE Append(s, e) \in T
  <2> DEFINE a == Append(s, e)
  <2>1. /\ a \in Seq(Char) /\ Len(a) = Len(s) + 1 /\ Len(s) \in Nat
        /\ (\A i \in 1..Len(s) : a[i] = s[i]) /\ a[Len(s) + 1] = e
    BY AppendProperties, LenProperties
  <2>2. Value(a) = 10 * Value(s) + DigitOf(e)
    BY ValueOfAppend DEF WithDigit
  <2> HIDE DEF a
  <2> SUFFICES ASSUME \A i \in 1..Len(a) : IsDigit(a[i]) PROVE Value(a) \in Nat
    BY <2>1 DEF a
  <2>3. Value(s) \in Nat
    <3>1. \A i \in 1..Len(s) : IsDigit(s[i])
      BY <2>1
    <3> QED
      BY <1>2, <3>1
  <2>4. DigitOf(e) \in 0..9
    <3>1. IsDigit(e)
      BY <2>1
    <3>2. PICK i \in 1..10 : e = Digits[i]
      BY <3>1, DigitFacts
    <3>3. DigitOf(e) = i - 1
      BY <3>2, DigitOfDigit
    <3> QED
      BY <3>3
  <2> QED
    BY <2>2, <2>3, <2>4
<1>3. Seq(Char) \subseteq T
  <2> HIDE DEF T
  <2> QED
    BY <1>1, <1>2, InductionOnSeq
<1> QED
  BY <1>3

\* The number of a component of digits, with and without the hardened mark.
LEMMA BodyOfDigits ==
    ASSUME NEW t \in Seq(Char), t # <<>>, \A i \in 1..Len(t) : IsDigit(t[i])
    PROVE  /\ ~IsHardened(t) /\ Body(t) = t
           /\ IsHardened(Append(t, "'")) /\ Body(Append(t, "'")) = t
<1>1. "'" \in Char
  BY DEF Char
<1>2. ~IsHardened(t)
  <2>1. Len(t) \in Nat \ {0}
    BY EmptySeq
  <2>2. Len(t) \in 1..Len(t)
    BY <2>1
  <2> QED
    BY <2>2, DigitFacts DEF IsHardened, Last
<1>3. IsHardened(Append(t, "'")) /\ Front(Append(t, "'")) = t
  BY <1>1, LastOfAppend DEF IsHardened
<1> QED
  BY <1>2, <1>3 DEF Body

LEMMA IndexOfDigits ==
    ASSUME NEW t \in Seq(Char), t # <<>>, \A i \in 1..Len(t) : IsDigit(t[i])
    PROVE  /\ Value(t) \in Nat
           /\ IsIndex(t) <=> Value(t) < HardenedStart
           /\ Index(t) = Value(t)
           /\ IsIndex(Append(t, "'")) <=> Value(t) < HardenedStart
           /\ Index(Append(t, "'")) = Value(t) + HardenedStart
<1>1. Value(t) \in Nat
  BY ValueOfDigits
<1>2. (IsIndex(t) <=> Value(t) < HardenedStart) /\ Index(t) = Value(t)
  BY <1>1, BodyOfDigits DEF IsIndex, Index
<1>3. /\ IsIndex(Append(t, "'")) <=> Value(t) < HardenedStart
      /\ Index(Append(t, "'")) = Value(t) + HardenedStart
  BY <1>1, BodyOfDigits DEF IsIndex, Index
<1> QED
  BY <1>1, <1>2, <1>3

\* An index is digits, but for the mark at its end.
LEMMA IndexIsDigits ==
    ASSUME NEW w \in Seq(Char), IsIndex(w)
    PROVE  /\ Len(w) \in Nat \ {0}
           /\ IsDigit(w[1])
           /\ \A i \in 1..(Len(w) - 1) : IsDigit(w[i])
           /\ IsDigit(w[Len(w)]) \/ w[Len(w)] = "'"
<1>1. CASE IsHardened(w)
  <2>1. w # <<>> /\ w[Len(w)] = "'" /\ Body(w) = Front(w)
    BY <1>1 DEF IsHardened, Body, Last
  <2>2. Front(w) \in Seq(Char) /\ Len(Front(w)) = Len(w) - 1 /\ w = Append(Front(w), Last(w)) /\ Last(w) \in Char
    BY <2>1, LastAndFront
  <2> DEFINE t == Front(w)
  <2>3. \A i \in 1..Len(t) : w[i] = t[i]
    <3> HIDE DEF t
    <3>1. w = Append(t, Last(w)) /\ t \in Seq(Char)
      BY <2>2 DEF t
    <3> DEFINE e == Last(w)
    <3>2. e \in Char /\ w = Append(t, e)
      BY <2>2, <3>1
    <3> HIDE DEF e
    <3> QED
      BY <3>1, <3>2, AppendProperties
  <2>4. t # <<>> /\ \A i \in 1..Len(t) : IsDigit(t[i])
    BY <2>1 DEF IsIndex
  <2>5. Len(t) \in Nat \ {0} /\ Len(w) = Len(t) + 1
    <3>1. Len(w) \in Nat
      BY LenProperties
    <3> QED
      BY <2>2, <2>4, <3>1, EmptySeq
  <2> HIDE DEF t
  <2> QED
    BY <2>1, <2>3, <2>4, <2>5
<1>2. CASE ~IsHardened(w)
  <2>1. w # <<>> /\ \A i \in 1..Len(w) : IsDigit(w[i])
    BY <1>2 DEF IsIndex, Body
  <2>2. Len(w) \in Nat \ {0}
    BY <2>1, EmptySeq
  <2> QED
    BY <2>1, <2>2
<1> QED
  BY <1>1, <1>2

-----------------------------------------------------------------------------
(* The components of a path that goes on *)

\* A path with more characters has the same components before the last one,
\* which goes on too.
Prolongs(more, parts) ==
    /\ Len(parts) <= Len(more)
    /\ \A k \in 1..(Len(parts) - 1) : more[k] = parts[k]
    /\ Len(parts[Len(parts)]) <= Len(more[Len(parts)])
    /\ \A i \in 1..Len(parts[Len(parts)]) : more[Len(parts)][i] = parts[Len(parts)][i]

\* Lists, by their length and their last component.
LEMMA ListParts ==
    ASSUME NEW v \in Lists
    PROVE  /\ v \in Seq(Seq(Char)) /\ Len(v) \in Nat \ {0}
           /\ \A k \in 1..Len(v) : v[k] \in Seq(Char) /\ Len(v[k]) \in Nat
           /\ Last(v) = v[Len(v)] /\ Last(v) \in Seq(Char)
<1>1. v \in Seq(Seq(Char)) /\ v # <<>>
  BY DEF Lists
<1>2. Len(v) \in Nat \ {0}
  BY <1>1, EmptySeq
<1>3. \A k \in 1..Len(v) : v[k] \in Seq(Char)
  BY <1>1, ElementOfSeq
<1>4. \A k \in 1..Len(v) : Len(v[k]) \in Nat
  BY <1>3, LenProperties
<1> QED
  BY <1>1, <1>2, <1>3, <1>4 DEF Last

\* The components with one character more, position by position.
LEMMA ListGrows ==
    ASSUME NEW s \in Seq(Char), NEW x \in Char
    PROVE  LET v == Components(s)
               w == Components(Append(s, x))
           IN  /\ v \in Lists /\ w \in Lists
               /\ \A k \in 1..(Len(v) - 1) : w[k] = v[k]
               /\ x = "/" => /\ Len(w) = Len(v) + 1
                             /\ w[Len(v)] = v[Len(v)]
                             /\ w[Len(w)] = <<>>
                             /\ w = Append(v, <<>>)
               /\ x # "/" => /\ Len(w) = Len(v)
                             /\ w[Len(v)] = Append(v[Len(v)], x)
<1> DEFINE v == Components(s)
           w == Components(Append(s, x))
<1>1. v \in Lists /\ Append(s, x) \in Seq(Char)
  BY ListOfAppend, AppendProperties
<1>2. w \in Lists
  BY <1>1, ListOfAppend, AppendProperties
<1>3. w = (IF x = "/" THEN Append(v, <<>>) ELSE Append(Front(v), Append(Last(v), x)))
  BY ListOfAppend DEF WithChar
<1> HIDE DEF v, w
<1>4. /\ v \in Seq(Seq(Char)) /\ Len(v) \in Nat \ {0} /\ v # <<>>
      /\ Last(v) = v[Len(v)] /\ Last(v) \in Seq(Char)
  BY <1>1, ListParts DEF Lists
<1>5. CASE x = "/"
  <2>1. <<>> \in Seq(Char) /\ w = Append(v, <<>>)
    BY <1>3, <1>5, EmptySeq
  <2>2. Len(w) = Len(v) + 1 /\ w[Len(v) + 1] = <<>> /\ \A k \in 1..Len(v) : w[k] = v[k]
    BY <1>4, <2>1, AppendProperties
  <2>3. Len(v) \in 1..Len(v) /\ \A k \in 1..(Len(v) - 1) : k \in 1..Len(v)
    BY <1>4
  <2> QED
    BY <1>1, <1>2, <1>5, <2>1, <2>2, <2>3 DEF v, w
<1>6. CASE x # "/"
  <2> DEFINE p == Front(v)
             e == Append(Last(v), x)
  <2>1. p \in Seq(Seq(Char)) /\ Len(p) = Len(v) - 1 /\ v = Append(p, Last(v))
    BY <1>4, LastAndFront
  <2>2. e \in Seq(Char) /\ w = Append(p, e)
    BY <1>3, <1>4, <1>6, AppendProperties
  <2> DEFINE l == Last(v)
  <2>3. l \in Seq(Char) /\ v = Append(p, l)
    BY <1>4, <2>1
  <2> HIDE DEF p, e, l
  <2>4. Len(w) = Len(p) + 1 /\ w[Len(p) + 1] = e /\ \A k \in 1..Len(p) : w[k] = p[k]
    BY <2>1, <2>2, AppendProperties
  <2>5. \A k \in 1..Len(p) : v[k] = p[k]
    BY <2>1, <2>3, AppendProperties
  <2>6. Len(p) + 1 = Len(v)
    BY <1>4, <2>1
  <2>7. e = Append(v[Len(v)], x)
    BY <1>4 DEF e
  <2> QED
    BY <1>1, <1>2, <1>6, <2>1, <2>4, <2>5, <2>6, <2>7 DEF v, w
<1> QED
  BY <1>5, <1>6

LEMMA ExtendsOnce ==
    ASSUME NEW s \in Seq(Char), NEW x \in Char, NEW parts \in Lists, Prolongs(Components(s), parts)
    PROVE  Prolongs(Components(Append(s, x)), parts)
<1> DEFINE v == Components(s)
           w == Components(Append(s, x))
           n == Len(parts)
           l == parts[n]
<1>1. /\ v \in Lists /\ w \in Lists
      /\ \A k \in 1..(Len(v) - 1) : w[k] = v[k]
      /\ x = "/" => Len(w) = Len(v) + 1 /\ w[Len(v)] = v[Len(v)]
      /\ x # "/" => Len(w) = Len(v) /\ w[Len(v)] = Append(v[Len(v)], x)
  BY ListGrows
<1>2. /\ n <= Len(v) /\ (\A k \in 1..(n - 1) : v[k] = parts[k])
      /\ Len(l) <= Len(v[n]) /\ \A i \in 1..Len(l) : v[n][i] = l[i]
  BY DEF Prolongs
<1>3. n \in Nat \ {0} /\ Len(l) \in Nat
  <2>1. n \in Nat \ {0}
    BY ListParts
  <2>2. n \in 1..n
    BY <2>1
  <2> QED
    BY <2>1, <2>2, ListParts
<1> HIDE DEF v, w, n, l
<1>4. Len(v) \in Nat \ {0} /\ (\A k \in 1..Len(v) : v[k] \in Seq(Char) /\ Len(v[k]) \in Nat)
  BY <1>1, ListParts
<1>5. n <= Len(w)
  BY <1>1, <1>2, <1>3, <1>4
<1>6. \A k \in 1..(n - 1) : w[k] = parts[k]
  <2>1. \A k \in 1..(n - 1) : k \in 1..(Len(v) - 1)
    BY <1>2, <1>3, <1>4
  <2> QED
    BY <1>1, <1>2, <2>1
<1>7. Len(l) <= Len(w[n]) /\ \A i \in 1..Len(l) : w[n][i] = l[i]
  <2>1. CASE n < Len(v) \/ x = "/"
    <3>1. w[n] = v[n]
      <4>1. n \in 1..(Len(v) - 1) \/ n = Len(v)
        BY <1>2, <1>3, <1>4
      <4> QED
        BY <1>1, <2>1, <4>1
    <3> QED
      BY <1>2, <3>1
  <2>2. CASE n = Len(v) /\ x # "/"
    <3> DEFINE o == v[n]
    <3>1. w[n] = Append(o, x) /\ o \in Seq(Char) /\ Len(o) \in Nat /\ Len(l) <= Len(o) /\ (\A i \in 1..Len(l) : o[i] = l[i])
      BY <1>1, <1>2, <1>3, <1>4, <2>2
    <3> HIDE DEF o
    <3>2. Len(w[n]) = Len(o) + 1 /\ \A i \in 1..Len(o) : w[n][i] = o[i]
      BY <3>1, AppendProperties
    <3>3. \A i \in 1..Len(l) : i \in 1..Len(o)
      BY <1>3, <3>1
    <3> QED
      BY <1>3, <3>1, <3>2, <3>3
  <2> QED
    BY <1>2, <1>3, <1>4, <2>1, <2>2
<1> QED
  BY <1>5, <1>6, <1>7 DEF Prolongs, n, l, w

LEMMA PrefixOfNext ==
    ASSUME NEW S, NEW s \in Seq(S), NEW p \in 0..(Len(s) - 1)
    PROVE  /\ s[p + 1] \in S
           /\ SubSeq(s, 1, p) \in Seq(S)
           /\ SubSeq(s, 1, p + 1) = Append(SubSeq(s, 1, p), s[p + 1])
<1>1. Len(s) \in Nat
  BY LenProperties
<1> DEFINE q == p + 1
<1>2. p \in 0..Len(s) /\ q \in 0..Len(s) /\ q \in 1..Len(s) /\ p \in Nat
  BY <1>1
<1>3. s[q] \in S
  <2> HIDE DEF q
  <2> QED
    BY <1>2, ElementOfSeq
<1> DEFINE t == SubSeq(s, 1, p)
           u == SubSeq(s, 1, q)
           a == Append(t, s[q])
<1>4. t \in Seq(S) /\ Len(t) = p /\ (\A i \in 1..p : t[i] = s[i])
  BY <1>2, PrefixProperties
<1>5. u \in Seq(S) /\ Len(u) = q /\ (\A i \in 1..q : u[i] = s[i])
  <2> HIDE DEF q
  <2> QED
    BY <1>2, PrefixProperties
<1> HIDE DEF t, u
<1>6. a \in Seq(S) /\ Len(a) = p + 1 /\ (\A i \in 1..p : a[i] = t[i]) /\ a[p + 1] = s[q]
  BY <1>3, <1>4, AppendProperties
<1> HIDE DEF a
<1>7. Len(u) = Len(a) /\ \A i \in 1..Len(u) : u[i] = a[i]
  <2>1. \A i \in 1..q : i \in 1..p \/ i = p + 1
    BY <1>2
  <2> QED
    BY <1>2, <1>4, <1>5, <1>6, <2>1
<1>8. u = a
  BY <1>5, <1>6, <1>7, SeqEqual
<1> QED
  BY <1>3, <1>4, <1>8 DEF t, u, a

\* What is read of a path are its first components.
LEMMA ReadExtends ==
    ASSUME NEW s \in Seq(Char), NEW p \in 0..Len(s)
    PROVE  Prolongs(Components(s), Components(SubSeq(s, 1, p)))
<1> DEFINE n == Len(s)
           parts == Components(SubSeq(s, 1, p))
           T == {d \in 0..(n - p) : Prolongs(Components(SubSeq(s, 1, p + d)), parts)}
<1>1. n \in Nat /\ p \in Nat /\ p <= n /\ SubSeq(s, 1, p) \in Seq(Char)
  BY LenProperties, PrefixProperties
<1>2. parts \in Lists
  <2>1. "/" \in Char
    BY DEF Char
  <2> QED
    BY <1>1, <2>1, ListOfAppend
<1>3. 0 \in T
  <2>1. Prolongs(parts, parts)
    <3> HIDE DEF parts
    <3>1. Len(parts) \in Nat \ {0} /\ Len(parts[Len(parts)]) \in Nat
      <4>1. Len(parts) \in Nat \ {0}
        BY <1>2, ListParts
      <4>2. Len(parts) \in 1..Len(parts)
        BY <4>1
      <4> QED
        BY <1>2, <4>1, <4>2, ListParts
    <3> QED
      BY <3>1 DEF Prolongs
  <2>2. p + 0 = p /\ 0 \in 0..(n - p)
    BY <1>1
  <2> QED
    BY <2>1, <2>2
<1> HIDE DEF parts
<1>4. ASSUME NEW d \in 0..(n - p), d \in T, d + 1 \in 0..(n - p) PROVE d + 1 \in T
  <2> DEFINE q == p + d
  <2>1. q \in 0..(n - 1) /\ p + (d + 1) = q + 1
    BY <1>1, <1>4
  <2>2. Prolongs(Components(SubSeq(s, 1, q)), parts)
    BY <1>4
  <2> HIDE DEF q
  <2>3. /\ s[q + 1] \in Char /\ SubSeq(s, 1, q) \in Seq(Char)
        /\ SubSeq(s, 1, q + 1) = Append(SubSeq(s, 1, q), s[q + 1])
    BY <2>1, PrefixOfNext
  <2>4. Prolongs(Components(SubSeq(s, 1, q + 1)), parts)
    <3> DEFINE r == SubSeq(s, 1, q)
               x == s[q + 1]
    <3> HIDE DEF r, x
    <3>1. r \in Seq(Char) /\ x \in Char /\ Prolongs(Components(r), parts)
      BY <2>2, <2>3 DEF r, x
    <3>2. Prolongs(Components(Append(r, x)), parts)
      BY <1>2, <3>1, ExtendsOnce
    <3> QED
      BY <2>3, <3>2 DEF r, x
  <2> QED
    BY <1>4, <2>1, <2>4
<1>5. n - p \in T
  <2> DEFINE U == {d \in Nat : d <= n - p => d \in T}
  <2>1. 0 \in U
    BY <1>3
  <2>2. ASSUME NEW d \in Nat, d \in U PROVE d + 1 \in U
    <3> SUFFICES ASSUME d + 1 <= n - p PROVE d + 1 \in T
      OBVIOUS
    <3>1. d \in 0..(n - p) /\ d + 1 \in 0..(n - p)
      BY <1>1
    <3> HIDE DEF T
    <3> QED
      BY <1>4, <2>2, <3>1
  <2>3. Nat \subseteq U
    <3> HIDE DEF U
    <3> QED
      BY <2>1, <2>2, InductionOnNat
  <2> HIDE DEF T
  <2>4. n - p \in Nat
    BY <1>1
  <2> QED
    BY <2>3, <2>4
<1>6. p + (n - p) = n
  BY <1>1
<1>7. SubSeq(s, 1, n) = s
  BY SubSeqFull
<1>8. Prolongs(Components(SubSeq(s, 1, n)), parts)
  BY <1>5, <1>6
<1> QED
  BY <1>7, <1>8 DEF parts

-----------------------------------------------------------------------------
(* The first and the last component *)

LEMMA SourceFacts ==
    /\ DOMAIN Sources = {"master", "parent", "current"}
    /\ Sources["master"] = <<"m">> /\ Sources["parent"] = <<".", ".">> /\ Sources["current"] = <<".">>
    /\ \A src \in DOMAIN Sources :
          /\ Sources[src] \in Seq(Char) /\ Sources[src] # <<>>
          /\ Len(Sources[src]) \in 1..2
          /\ \A i \in 1..Len(Sources[src]) : Sources[src][i] \in {"m", "."}
    /\ \A src, other \in DOMAIN Sources : Sources[src] = Sources[other] => src = other
<1>1. DOMAIN Sources = {"master", "parent", "current"}
  BY DEF Sources
<1>2. Sources["master"] = <<"m">> /\ Sources["parent"] = <<".", ".">> /\ Sources["current"] = <<".">>
  BY DEF Sources
<1>3. "m" \in Char /\ "." \in Char
  BY DEF Char
<1>4. /\ <<"m">> \in Seq(Char) /\ <<"m">> # <<>> /\ Len(<<"m">>) = 1 /\ <<"m">>[1] = "m"
      /\ <<".">> \in Seq(Char) /\ <<".">> # <<>> /\ Len(<<".">>) = 1 /\ <<".">>[1] = "."
      /\ <<".", ".">> \in Seq(Char) /\ <<".", ".">> # <<>> /\ Len(<<".", ".">>) = 2
      /\ <<".", ".">>[1] = "." /\ <<".", ".">>[2] = "."
  BY <1>3
<1>5. \A i \in 1..1 : i = 1
  OBVIOUS
<1>6. \A i \in 1..2 : i = 1 \/ i = 2
  OBVIOUS
<1>7. \A src \in DOMAIN Sources :
          /\ Sources[src] \in Seq(Char) /\ Sources[src] # <<>>
          /\ Len(Sources[src]) \in 1..2
          /\ \A i \in 1..Len(Sources[src]) : Sources[src][i] \in {"m", "."}
  <2> SUFFICES ASSUME NEW src \in DOMAIN Sources
               PROVE  /\ Sources[src] \in Seq(Char) /\ Sources[src] # <<>>
                      /\ Len(Sources[src]) \in 1..2
                      /\ \A i \in 1..Len(Sources[src]) : Sources[src][i] \in {"m", "."}
    OBVIOUS
  <2>1. CASE src = "master"
    <3>1. Sources[src] = <<"m">>
      BY <1>2, <2>1
    <3> QED
      BY <1>4, <1>5, <3>1
  <2>2. CASE src = "parent"
    <3>1. Sources[src] = <<".", ".">>
      BY <1>2, <2>2
    <3> QED
      BY <1>4, <1>6, <3>1
  <2>3. CASE src = "current"
    <3>1. Sources[src] = <<".">>
      BY <1>2, <2>3
    <3> QED
      BY <1>4, <1>5, <3>1
  <2> QED
    BY <1>1, <2>1, <2>2, <2>3
<1>8. "m" # "."
  OBVIOUS
<1>9. \A src, other \in DOMAIN Sources : Sources[src] = Sources[other] => src = other
  BY <1>1, <1>2, <1>4, <1>8
<1> QED
  BY <1>1, <1>2, <1>7, <1>9

\* An index is not the name of a start.
LEMMA IndexIsNoSource ==
    ASSUME NEW w \in Seq(Char), w # <<>>, w[1] \notin {"m", "."}
    PROVE  \A src \in DOMAIN Sources : Sources[src] # w
<1> SUFFICES ASSUME NEW src \in DOMAIN Sources, Sources[src] = w PROVE FALSE
  OBVIOUS
<1>1. 1 \in 1..Len(Sources[src])
  BY SourceFacts
<1> QED
  BY <1>1, SourceFacts

\* The first component begins as the path does.
LEMMA FirstComponent ==
    ASSUME NEW s \in Seq(Char), s # <<>>
    PROVE  IF s[1] = "/" THEN Components(s)[1] = <<>>
           ELSE Components(s)[1] # <<>> /\ Components(s)[1][1] = s[1]
<1> DEFINE r == SubSeq(s, 1, 1)
           parts == Components(r)
           more == Components(s)
           x == s[1]
<1>1. Len(s) \in Nat \ {0} /\ 1 \in 0..Len(s) /\ 0 \in 0..(Len(s) - 1)
  BY EmptySeq
<1>2. x \in Char /\ r = Append(<<>>, x)
  <2>1. s[0 + 1] \in Char /\ SubSeq(s, 1, 0 + 1) = Append(SubSeq(s, 1, 0), s[0 + 1])
    BY <1>1, PrefixOfNext
  <2>2. SubSeq(s, 1, 0) = <<>>
    BY SubSeqEmpty
  <2>3. 0 + 1 = 1
    OBVIOUS
  <2> QED
    BY <2>1, <2>2, <2>3
<1>3. Prolongs(more, parts)
  BY <1>1, ReadExtends
<1>4. <<>> \in Seq(Char) /\ r \in Seq(Char)
  BY <1>2, EmptySeq, AppendProperties
<1>5. more \in Lists /\ parts \in Lists
  BY <1>2, <1>4, ListOfAppend
<1> DEFINE e == <<>>
           none == Components(e)
<1>6. Len(none) = 1 /\ none[1] = <<>> /\ none[Len(none)] = <<>>
  <2>1. Len(<< <<>> >>) = 1 /\ << <<>> >>[1] = <<>>
    OBVIOUS
  <2> QED
    BY <2>1, ListOfNothing
<1>9. e \in Seq(Char) /\ e = <<>> /\ parts = Components(Append(e, x))
  BY <1>2, <1>4
<1> HIDE DEF r, more, x, parts, e
<1>7. CASE x = "/"
  <2>1. Len(parts) = Len(none) + 1 /\ parts[Len(none)] = none[Len(none)]
    BY <1>2, <1>7, <1>9, ListGrows
  <2>4. Len(parts) = 2 /\ parts[1] = <<>>
    BY <1>6, <2>1
  <2>2. more[1] = parts[1]
    BY <1>3, <2>4 DEF Prolongs
  <2> QED
    BY <1>7, <2>2, <2>4 DEF more, x
<1>8. CASE x # "/"
  <2>6. Len(parts) = Len(none) /\ parts[Len(none)] = Append(none[Len(none)], x)
    BY <1>2, <1>8, <1>9, ListGrows
  <2>1. Len(parts) = 1 /\ parts[1] = Append(e, x)
    BY <1>6, <1>9, <2>6
  <2>2. Len(parts[1]) = 1 /\ parts[1][1] = x
    <3>1. Len(e) = 0
      BY <1>9, EmptySeq
    <3> QED
      BY <1>2, <1>9, <2>1, <3>1, AppendProperties
  <2>3. Len(parts[1]) <= Len(more[1]) /\ \A i \in 1..Len(parts[1]) : more[1][i] = parts[1][i]
    BY <1>3, <2>1 DEF Prolongs
  <2>4. more[1][1] = x
    BY <2>2, <2>3
  <2>5. more[1] # <<>>
    BY <2>2, <2>3
  <2> QED
    BY <1>8, <2>4, <2>5 DEF more, x
<1> QED
  BY <1>7, <1>8

\* A path that does not begin with the name of a start has none as component.
LEMMA NoSource ==
    ASSUME NEW s \in Seq(Char), s # <<>>, s[1] \notin {"m", "."}
    PROVE  \A src \in DOMAIN Sources : Sources[src] # Components(s)[1]
<1> DEFINE w == Components(s)[1]
<1>1. w \in Seq(Char)
  <2>1. Components(s) \in Lists
    <3>1. "/" \in Char
      BY DEF Char
    <3> QED
      BY <3>1, ListOfAppend
  <2>2. 1 \in 1..Len(Components(s))
    BY <2>1, ListParts
  <2> QED
    BY <2>1, <2>2, ListParts
<1>2. IF s[1] = "/" THEN w = <<>> ELSE w # <<>> /\ w[1] = s[1]
  BY FirstComponent
<1> HIDE DEF w
<1>3. CASE w = <<>>
  BY <1>3, SourceFacts DEF w
<1>4. CASE w # <<>>
  <2>1. w[1] \notin {"m", "."}
    BY <1>2, <1>4
  <2> QED
    BY <1>1, <1>4, <2>1, IndexIsNoSource DEF w
<1> QED
  BY <1>3, <1>4

\* The last component ends as the path does.
LEMMA LastComponent ==
    ASSUME NEW s \in Seq(Char)
    PROVE  LET v == Components(s)
           IN  /\ v \in Lists /\ Len(v) \in Nat \ {0} /\ Last(v) = v[Len(v)] /\ v[Len(v)] \in Seq(Char)
               /\ v[Len(v)] # <<>> => s # <<>> /\ Last(s) = Last(v[Len(v)])
<1> DEFINE v == Components(s)
           w == v[Len(v)]
<1>1. v \in Lists
  <2>1. "/" \in Char
    BY DEF Char
  <2> QED
    BY <2>1, ListOfAppend
<1>2. Len(v) \in Nat \ {0} /\ Last(v) = w /\ w \in Seq(Char)
  <2>1. Len(v) \in Nat \ {0} /\ Last(v) = w
    BY <1>1, ListParts
  <2>2. Len(v) \in 1..Len(v)
    BY <2>1
  <2> QED
    BY <1>1, <2>1, <2>2, ListParts
<1>3. ASSUME w # <<>> PROVE s # <<>> /\ Last(s) = Last(w)
  <2>1. s # <<>>
    <3>1. << <<>> >>[1] = <<>> /\ Len(<< <<>> >>) = 1
      OBVIOUS
    <3> SUFFICES ASSUME s = <<>> PROVE FALSE
      OBVIOUS
    <3>2. v = << <<>> >>
      BY ListOfNothing
    <3> QED
      BY <1>3, <3>1, <3>2
  <2>2. PICK t \in Seq(Char), x \in Char : s = Append(t, x)
    BY <2>1, SequenceEmptyOrAppend
  <2> DEFINE o == Components(t)
             l == o[Len(o)]
  <2>3. /\ o \in Lists
        /\ x = "/" => w = <<>>
        /\ x # "/" => w = Append(l, x)
    BY <2>2, ListGrows
  <2>4. l \in Seq(Char)
    <3>1. Len(o) \in Nat \ {0}
      BY <2>3, ListParts
    <3>2. Len(o) \in 1..Len(o)
      BY <3>1
    <3> QED
      BY <2>3, <3>2, ListParts
  <2> HIDE DEF l, w
  <2>5. Last(w) = x
    BY <1>3, <2>2, <2>3, <2>4, LastOfAppend
  <2>6. Last(s) = x
    BY <2>2, LastOfAppend
  <2> QED
    BY <2>1, <2>5, <2>6
<1> QED
  BY <1>1, <1>2, <1>3

-----------------------------------------------------------------------------
(* What KeyPathFromString refuses *)

\* What KeyPathFromString makes of a path without white space.
AsSpelled(s) == KeyPathFrom(Components(s))

Spaceless(c) == \A i \in 1..Len(c) : c[i] # " "

LEMMA SpacelessKept ==
    ASSUME NEW c \in Seq(Char), Spaceless(c)
    PROVE  Trimmed(c) = c
<1> DEFINE kept == {i \in 1..Len(c) : c[i] # " "}
<1>1. Len(c) \in Nat /\ kept = 1..Len(c)
  BY LenProperties DEF Spaceless
<1>2. Trimmed(c) = IF kept = {} THEN <<>> ELSE SubSeq(c, Min(kept), Max(kept))
  BY DEF Trimmed
<1> HIDE DEF kept
<1>3. CASE Len(c) = 0
  <2>1. kept = {} /\ c = <<>>
    BY <1>1, <1>3, EmptySeq
  <2> QED
    BY <1>2, <2>1
<1>4. CASE Len(c) # 0
  <2> DEFINE n == Len(c)
  <2>4. n \in Nat \ {0} /\ kept = 1..n
    BY <1>1, <1>4
  <2> HIDE DEF n
  <2>5. 1 \in 1..n /\ n \in 1..n /\ \A i \in 1..n : 1 <= i /\ i <= n /\ i \in Nat
    BY <2>4
  <2>1. kept # {} /\ 1 \in kept /\ Len(c) \in kept /\ \A i \in kept : 1 <= i /\ i <= Len(c) /\ i \in Nat
    BY <2>4, <2>5 DEF n
  <2>2. Min(kept) = 1
    <3>1. \A x \in kept : (\A y \in kept : x <= y) => x = 1
      BY <2>1
    <3>2. \A y \in kept : 1 <= y
      BY <2>1
    <3> QED
      BY <2>1, <3>1, <3>2 DEF Min
  <2>3. Max(kept) = Len(c)
    <3>1. \A x \in kept : (\A y \in kept : x >= y) => x = Len(c)
      BY <1>1, <2>1
    <3>2. \A y \in kept : Len(c) >= y
      BY <1>1, <2>1
    <3> QED
      BY <2>1, <3>1, <3>2 DEF Max
  <2> QED
    BY <1>2, <2>1, <2>2, <2>3, SubSeqFull
<1> QED
  BY <1>3, <1>4

\* Only a path with white space around its first component is read otherwise than
\* it is spelled.
LEMMA Unpadded ==
    ASSUME NEW s \in Seq(Char), Spaceless(Components(s)[1])
    PROVE  ~Padded(s) /\ KeyPathOf(s) = AsSpelled(s)
<1> DEFINE v == Components(s)
<1>1. v \in Seq(Seq(Char)) /\ v[1] \in Seq(Char)
  <2>1. v \in Lists
    BY LastComponent
  <2>2. v \in Seq(Seq(Char)) /\ 1 \in 1..Len(v)
    BY <2>1, ListParts DEF Lists
  <2> QED
    BY <2>1, <2>2, ListParts
<1>2. Trimmed(v[1]) = v[1]
  BY <1>1, SpacelessKept
<1>3. [v EXCEPT ![1] = v[1]] = v
  <2>1. v \in [1..Len(v) -> Seq(Char)]
    BY <1>1, LenProperties
  <2> HIDE DEF v
  <2> QED
    BY <2>1
<1>4. FirstTrimmed(v) = v
  BY <1>2, <1>3 DEF FirstTrimmed
<1> QED
  BY <1>4 DEF Padded, KeyPathOf, AsSpelled

\* Why a path is refused: a component that should be an index is none.
LEMMA Refused ==
    ASSUME NEW s \in Seq(Char), NEW k \in 1..Len(Components(s)), ~IsIndex(Components(s)[k]),
           \/ \A src \in DOMAIN Sources : Sources[src] # Components(s)[1]
           \/ k > 1 /\ \E src \in DOMAIN Sources : Sources[src] = Components(s)[1]
    PROVE  ~AsSpelled(s).ok
<1> DEFINE v == Components(s)
           named == {src \in DOMAIN Sources : Sources[src] = v[1]}
           steps == IF named = {} THEN v ELSE Tail(v)
           ok == v[1] # <<>> /\ Len(steps) <= MaxComponents /\ \A i \in 1..Len(steps) : IsIndex(steps[i])
<1>1. v \in Seq(Seq(Char)) /\ v # <<>> /\ Len(v) \in Nat
  <2>1. v \in Lists
    BY LastComponent
  <2> QED
    BY <2>1, ListParts DEF Lists
<1>2. AsSpelled(s).ok = ok
  BY DEF AsSpelled, KeyPathFrom
<1>3. CASE named = {}
  BY <1>2, <1>3
<1>4. CASE named # {}
  <2>1. k > 1
    BY <1>4
  <2>2. Len(Tail(v)) = Len(v) - 1 /\ \A i \in 1..Len(Tail(v)) : Tail(v)[i] = v[i + 1]
    BY <1>1, HeadTailProperties
  <2> DEFINE t == Tail(v)
             j == k - 1
  <2>3. j \in 1..Len(t) /\ t[j] = v[k]
    BY <1>1, <2>1, <2>2
  <2> QED
    BY <1>2, <1>4, <2>3
<1> QED
  BY <1>3, <1>4

\* What it makes of a path whose first component, if n is 1, is the name of a start.
LEMMA KeyPathIs ==
    ASSUME NEW s \in Seq(Char), NEW src \in DOMAIN Sources, NEW n \in {0, 1}, NEW m \in Nat,
           Len(Components(s)) = n + m,
           n = 1 => Components(s)[1] = Sources[src],
           n = 0 => src = "current" /\ \A other \in DOMAIN Sources : Sources[other] # Components(s)[1]
    PROVE  LET ok == m <= MaxComponents /\ \A k \in 1..m : IsIndex(Components(s)[n + k])
           IN  AsSpelled(s) = [ok |-> ok, start |-> src,
                   path |-> IF ok THEN [k \in 1..m |-> Index(Components(s)[n + k])] ELSE <<>>]
<1> DEFINE v == Components(s)
           named == {other \in DOMAIN Sources : Sources[other] = v[1]}
           steps == IF named = {} THEN v ELSE Tail(v)
           ok == v[1] # <<>> /\ Len(steps) <= MaxComponents /\ \A i \in 1..Len(steps) : IsIndex(steps[i])
<1>1. v \in Lists /\ v \in Seq(Seq(Char)) /\ v # <<>> /\ Len(v) \in Nat \ {0} /\ v[1] \in Seq(Char)
  <2>1. v \in Lists
    BY LastComponent
  <2>2. v \in Seq(Seq(Char)) /\ v # <<>> /\ Len(v) \in Nat \ {0}
    BY <2>1, ListParts DEF Lists
  <2>3. 1 \in 1..Len(v)
    BY <2>2
  <2> QED
    BY <2>1, <2>2, <2>3, ListParts
<1>2. AsSpelled(s) = [ok |-> ok,
         start |-> IF named = {} THEN "current" ELSE CHOOSE other \in named : TRUE,
         path |-> IF ok THEN [k \in 1..Len(steps) |-> Index(steps[k])] ELSE <<>>]
  BY DEF AsSpelled, KeyPathFrom
<1> DEFINE good == m <= MaxComponents /\ \A k \in 1..m : IsIndex(v[n + k])
<1>3. good => v[1] # <<>>
  <2> SUFFICES ASSUME good PROVE v[1] # <<>>
    OBVIOUS
  <2>1. CASE n = 1
    BY <2>1, SourceFacts
  <2>2. CASE n = 0
    <3>1. 1 \in 1..m /\ n + 1 = 1
      BY <1>1, <2>2
    <3>2. IsIndex(v[1])
      BY <3>1
    <3> HIDE DEF v
    <3>3. Len(v[1]) \in Nat \ {0}
      BY <1>1, <3>2, IndexIsDigits
    <3> QED
      BY <3>3, EmptySeq
  <2> QED
    BY <2>1, <2>2
<1>4. /\ (IF named = {} THEN "current" ELSE CHOOSE other \in named : TRUE) = src
      /\ steps = (IF n = 1 THEN Tail(v) ELSE v)
  <2>1. CASE n = 1
    <3>1. named = {src}
      BY <2>1, SourceFacts
    <3> QED
      BY <2>1, <3>1
  <2>2. CASE n = 0
    <3>1. named = {}
      BY <2>2
    <3> QED
      BY <2>2, <3>1
  <2> QED
    BY <2>1, <2>2
<1> HIDE DEF v, named
<1>5. Len(steps) = m /\ \A k \in 1..m : steps[k] = v[n + k]
  <2>1. CASE n = 1
    <3>1. Len(Tail(v)) = Len(v) - 1 /\ \A i \in 1..Len(Tail(v)) : Tail(v)[i] = v[i + 1]
      BY <1>1, HeadTailProperties
    <3>2. Len(v) = m + 1 /\ steps = Tail(v)
      BY <1>1, <1>4, <2>1 DEF v
    <3> QED
      BY <2>1, <3>1, <3>2
  <2>2. CASE n = 0
    <3>1. Len(v) = m /\ steps = v
      BY <1>1, <1>4, <2>2 DEF v
    <3> QED
      BY <2>2, <3>1
  <2> QED
    BY <2>1, <2>2
<1> HIDE DEF steps
<1>6. ok <=> good
  BY <1>3, <1>5
<1>7. [k \in 1..Len(steps) |-> Index(steps[k])] = [k \in 1..m |-> Index(v[n + k])]
  BY <1>5
<1> HIDE DEF ok, good
<1>8. AsSpelled(s) = [ok |-> good, start |-> src,
                      path |-> IF good THEN [k \in 1..m |-> Index(v[n + k])] ELSE <<>>]
  <2>1. ok = good
    BY <1>6 DEF ok, good
  <2> QED
    BY <1>2, <1>4, <1>7, <2>1
<1> QED
  BY <1>8 DEF good, v

-----------------------------------------------------------------------------
(* The inductive invariant *)

Index32 == 0..(2 * HardenedStart - 1)

\* The first of the components, if n is 1, is the name of the start, and those
\* after it are the indexes.
Names(parts, n, from, p) ==
    /\ n = 1 => parts[1] = Sources[from]
    /\ n = 0 => from = "current"
    /\ \A k \in 1..Len(p) : IsIndex(parts[n + k]) /\ p[k] = Index(parts[n + k])

\* 1 if the path begins with the name of a start, else 0.
Skip == IF input # <<>> /\ input[1] \in {"m", "."} THEN 1 ELSE 0

\* The components of what has been read, and the last one as read.
SoFar == Components(SubSeq(input, 1, pos))
Spelled == IF hardened THEN Append(token, "'") ELSE token

AtStart ==
    /\ f = "start" /\ pos = 0 /\ start = "current"
    /\ token = <<>> /\ path = <<>> /\ ~hardened

AfterStart ==
    /\ f = "separator" /\ token = <<>> /\ path = <<>> /\ ~hardened
    /\ Skip = 1 /\ Len(SoFar) = 1 /\ SoFar[1] = Sources[start]
    /\ start = "current" /\ pos < Len(input) => input[pos + 1] # "."

InComponent ==
    /\ input # <<>>
    /\ f \in {"separator", "segment"}
    /\ hardened <=> f = "separator"
    /\ hardened => token # <<>>
    /\ Len(SoFar) = Skip + Len(path) + 1
    /\ SoFar[Len(SoFar)] = Spelled
    /\ Names(SoFar, Skip, start, path)

ReadAll ==
    /\ Spaceless(Components(input)[1])
    /\ Names(Components(input), Skip, start, path)
    /\ Len(Components(input)) = Skip + Len(path) + IF Last(input) = "'" THEN 1 ELSE 0

DecoderInv ==
    /\ token \in Seq(Char)
    /\ path \in Seq(Index32)
    /\ outcome = "running" => AtStart \/ AfterStart \/ InComponent
    /\ outcome = "ok" /\ input # <<>> => ReadAll
    /\ outcome = "error" => ~AsSpelled(input).ok

LEMMA InputTyped ==
    ASSUME DecoderTypeOK
    PROVE  /\ input \in Seq(Char) /\ Len(input) \in Nat /\ pos \in 0..Len(input) /\ pos \in Nat
           /\ Skip \in {0, 1}
           /\ HardenedStart \in Nat \ {0}
           /\ start \in DOMAIN Sources
<1>1. input \in Seq(STRING)
  BY PathAssumption DEF DecoderTypeOK
<1>2. STRING \subseteq Char
  BY DEF Char
<1>3. input \in Seq(Char)
  BY <1>1, <1>2, SeqMonotonic
<1>4. Len(input) \in Nat
  BY <1>3, LenProperties
<1> QED
  BY <1>3, <1>4, PathAssumption, SourceFacts DEF DecoderTypeOK, Skip

LEMMA SoFarTyped ==
    ASSUME DecoderTypeOK
    PROVE  /\ SoFar \in Lists /\ Len(SoFar) \in Nat \ {0}
           /\ \A k \in 1..Len(SoFar) : SoFar[k] \in Seq(Char)
           /\ Components(input) \in Lists /\ Len(Components(input)) \in Nat \ {0}
           /\ \A k \in 1..Len(Components(input)) : Components(input)[k] \in Seq(Char)
           /\ Prolongs(Components(input), SoFar)
<1> DEFINE r == SubSeq(input, 1, pos)
<1>1. r \in Seq(Char) /\ input \in Seq(Char)
  BY InputTyped, PrefixProperties
<1>2. Components(r) \in Lists /\ Components(input) \in Lists
  <2> HIDE DEF r
  <2> QED
    BY <1>1, LastComponent
<1>3. Prolongs(Components(input), SoFar)
  BY InputTyped, ReadExtends DEF SoFar
<1> QED
  BY <1>2, <1>3, ListParts DEF SoFar

\* A character more.
LEMMA GoOn ==
    ASSUME DecoderTypeOK, pos < Len(input)
    PROVE  LET next == Components(SubSeq(input, 1, pos + 1))
           IN  /\ char \in Char /\ pos + 1 \in 0..Len(input)
               /\ next \in Lists /\ Prolongs(Components(input), next)
               /\ \A k \in 1..(Len(SoFar) - 1) : next[k] = SoFar[k]
               /\ char = "/" => /\ Len(next) = Len(SoFar) + 1
                                /\ next[Len(SoFar)] = SoFar[Len(SoFar)]
                                /\ next[Len(next)] = <<>>
               /\ char # "/" => /\ Len(next) = Len(SoFar)
                                /\ next[Len(SoFar)] = Append(SoFar[Len(SoFar)], char)
<1> DEFINE r == SubSeq(input, 1, pos)
           c == input[pos + 1]
           q == pos + 1
<1>1. pos \in 0..(Len(input) - 1) /\ q \in 0..Len(input) /\ input \in Seq(Char)
  BY InputTyped
<1>2. c \in Char /\ r \in Seq(Char) /\ SubSeq(input, 1, pos + 1) = Append(r, c)
  BY <1>1, PrefixOfNext
<1>3. Prolongs(Components(input), Components(SubSeq(input, 1, q)))
  <2> HIDE DEF q
  <2> QED
    BY <1>1, ReadExtends
<1> HIDE DEF r, c
<1> DEFINE v == Components(r)
           w == Components(Append(r, c))
<1>4. /\ v \in Lists /\ w \in Lists
      /\ \A k \in 1..(Len(v) - 1) : w[k] = v[k]
      /\ c = "/" => Len(w) = Len(v) + 1 /\ w[Len(v)] = v[Len(v)] /\ w[Len(w)] = <<>>
      /\ c # "/" => Len(w) = Len(v) /\ w[Len(v)] = Append(v[Len(v)], c)
  BY <1>2, ListGrows
<1>5. SoFar = v /\ char = c /\ Components(SubSeq(input, 1, pos + 1)) = w
  BY <1>2 DEF SoFar, char, r, c
<1> HIDE DEF v, w
<1> QED
  BY <1>1, <1>2, <1>3, <1>4, <1>5

LEMMA AllRead ==
    ASSUME DecoderTypeOK, pos = Len(input)
    PROVE  SoFar = Components(input)
BY InputTyped, SubSeqFull DEF SoFar

LEMMA NothingRead ==
    ASSUME DecoderTypeOK, pos = 0
    PROVE  Len(SoFar) = 1 /\ SoFar[1] = <<>>
<1>1. SubSeq(input, 1, 0) = <<>>
  BY SubSeqEmpty
<1>2. Len(<< <<>> >>) = 1 /\ << <<>> >>[1] = <<>>
  OBVIOUS
<1>3. SoFar = << <<>> >>
  BY <1>1, ListOfNothing DEF SoFar
<1> QED
  BY <1>2, <1>3

LEMMA NamesKept ==
    ASSUME NEW parts, NEW more, NEW n \in {0, 1}, NEW from, NEW p \in Seq(Index32),
           Names(parts, n, from, p), \A k \in 1..(n + Len(p)) : more[k] = parts[k]
    PROVE  Names(more, n, from, p)
<1>1. Len(p) \in Nat
  BY LenProperties
<1>2. \A k \in 1..Len(p) : n + k \in 1..(n + Len(p))
  BY <1>1
<1>3. n = 1 => 1 \in 1..(n + Len(p))
  BY <1>1
<1> QED
  BY <1>2, <1>3 DEF Names

\* The name of a start, an index and one the decoder has not saved hold no white
\* space.
LEMMA SpacelessFirst ==
    ASSUME NEW parts \in Lists, NEW n \in {0, 1}, NEW from \in DOMAIN Sources, NEW p \in Seq(Index32),
           Names(parts, n, from, p), NEW t \in Seq(Char), \A i \in 1..Len(t) : IsDigit(t[i]),
           \/ Len(parts) = n + Len(p)
           \/ Len(parts) = n + Len(p) + 1 /\ parts[Len(parts)] = Append(t, "'")
    PROVE  Spaceless(parts[1])
<1> DEFINE w == parts[1]
<1>1. Len(parts) \in Nat \ {0} /\ Len(p) \in Nat /\ w \in Seq(Char) /\ Len(w) \in Nat
  <2>1. Len(parts) \in Nat \ {0} /\ Len(p) \in Nat
    BY ListParts, LenProperties
  <2>2. 1 \in 1..Len(parts)
    BY <2>1
  <2> QED
    BY <2>1, <2>2, ListParts
<1>2. CASE n = 1
  <2>1. w = Sources[from]
    BY <1>2 DEF Names
  <2>2. \A i \in 1..Len(Sources[from]) : Sources[from][i] \in {"m", "."}
    BY SourceFacts
  <2>3. " " \notin {"m", "."}
    OBVIOUS
  <2> HIDE DEF w
  <2> QED
    BY <2>1, <2>2, <2>3 DEF Spaceless, w
<1>3. CASE n = 0 /\ Len(p) # 0
  <2>1. 1 \in 1..Len(p) /\ n + 1 = 1
    BY <1>1, <1>3
  <2>2. IsIndex(parts[n + 1])
    BY <2>1 DEF Names
  <2>3. IsIndex(w)
    BY <2>1, <2>2
  <2> HIDE DEF w
  <2>4. /\ \A i \in 1..(Len(w) - 1) : IsDigit(w[i])
        /\ IsDigit(w[Len(w)]) \/ w[Len(w)] = "'"
    BY <1>1, <2>3, IndexIsDigits
  <2>5. \A i \in 1..Len(w) : i \in 1..(Len(w) - 1) \/ i = Len(w)
    BY <1>1
  <2>6. "'" # " "
    OBVIOUS
  <2> QED
    BY <2>4, <2>5, <2>6, SpaceIsNoDigit DEF Spaceless, w
<1>4. CASE n = 0 /\ Len(p) = 0
  <2> DEFINE a == Append(t, "'")
  <2>1. "'" \in Char /\ "'" # " "
    BY DEF Char
  <2>2. w = a
    BY <1>1, <1>4
  <2>3. Len(a) = Len(t) + 1 /\ (\A i \in 1..Len(t) : a[i] = t[i]) /\ a[Len(t) + 1] = "'" /\ Len(t) \in Nat
    BY <2>1, AppendProperties, LenProperties
  <2> HIDE DEF a, w
  <2>4. \A i \in 1..Len(a) : i \in 1..Len(t) \/ i = Len(t) + 1
    BY <2>3
  <2>5. \A i \in 1..Len(t) : t[i] # " "
    BY SpaceIsNoDigit
  <2>6. \A i \in 1..Len(a) : a[i] # " "
    BY <2>1, <2>3, <2>4, <2>5
  <2> QED
    BY <2>2, <2>6 DEF Spaceless, w
<1> QED
  BY <1>1, <1>2, <1>3, <1>4

LEMMA NamesOneMore ==
    ASSUME NEW parts, NEW n \in {0, 1}, NEW from, NEW p \in Seq(Index32), NEW i \in Index32,
           Names(parts, n, from, p), IsIndex(parts[n + Len(p) + 1]), i = Index(parts[n + Len(p) + 1])
    PROVE  Names(parts, n, from, Append(p, i))
<1> DEFINE q == Append(p, i)
<1>1. Len(p) \in Nat /\ Len(q) = Len(p) + 1 /\ (\A k \in 1..Len(p) : q[k] = p[k]) /\ q[Len(p) + 1] = i
  BY LenProperties, AppendProperties
<1> HIDE DEF q
<1>2. ASSUME NEW k \in 1..Len(q) PROVE IsIndex(parts[n + k]) /\ q[k] = Index(parts[n + k])
  <2>1. CASE k = Len(p) + 1
    <3>1. n + k = n + Len(p) + 1
      BY <1>1, <2>1
    <3> QED
      BY <1>1, <2>1, <3>1
  <2>2. CASE k # Len(p) + 1
    <3>1. k \in 1..Len(p)
      BY <1>1, <2>2
    <3> QED
      BY <1>1, <3>1 DEF Names
  <2> QED
    BY <2>1, <2>2
<1> QED
  BY <1>2 DEF Names, q

\* A component that is no index keeps the path from being accepted.
LEMMA BadComponent ==
    ASSUME DecoderTypeOK, DecoderInv, InComponent, ~IsIndex(Components(input)[Len(SoFar)])
    PROVE  ~AsSpelled(input).ok
<1> DEFINE k == Len(SoFar)
           v == Components(input)
<1>1. k \in 1..Len(v) /\ \A i \in 1..(k - 1) : v[i] = SoFar[i]
  BY SoFarTyped DEF Prolongs
<1>2. input \in Seq(Char) /\ start \in DOMAIN Sources /\ Skip \in {0, 1}
  BY InputTyped
<1>3. CASE Skip = 0
  <2>1. \A src \in DOMAIN Sources : Sources[src] # v[1]
    BY <1>2, <1>3, NoSource DEF InComponent, Skip
  <2> HIDE DEF k
  <2> QED
    BY <1>1, <1>2, <2>1, Refused DEF k
<1>4. CASE Skip = 1
  <2>1. Len(path) \in Nat
    BY LenProperties DEF DecoderInv
  <2>2. k > 1 /\ 1 \in 1..(k - 1)
    BY <1>4, <2>1, SoFarTyped DEF InComponent
  <2>3. v[1] = Sources[start]
    BY <1>1, <1>4, <2>2 DEF InComponent, Names
  <2> HIDE DEF k
  <2> QED
    BY <1>1, <1>2, <2>2, <2>3, Refused DEF k
<1> QED
  BY <1>2, <1>3, <1>4

\* A number that is small enough.
LEMMA GoodComponent ==
    ASSUME DecoderTypeOK, DecoderInv, InComponent, token # <<>>, Value(token) < HardenedStart
    PROVE  /\ Append(path, Read) \in Seq(Index32)
           /\ Len(Append(path, Read)) = Len(path) + 1
           /\ Names(SoFar, Skip, start, Append(path, Read))
<1>1. /\ Value(token) \in Nat
      /\ IsIndex(token) /\ Index(token) = Value(token)
      /\ IsIndex(Append(token, "'")) /\ Index(Append(token, "'")) = Value(token) + HardenedStart
  BY IndexOfDigits DEF DecoderTypeOK, DecoderInv
<1>2. IsIndex(Spelled) /\ Index(Spelled) = Read
  <2>1. CASE hardened
    BY <1>1, <2>1 DEF Spelled, Read
  <2>2. CASE ~hardened
    <3>1. Spelled = token /\ Read = Value(token) + 0
      BY <2>2 DEF Spelled, Read
    <3> QED
      BY <1>1, <3>1
  <2> QED
    BY <2>1, <2>2
<1>3. Read \in Index32
  <2>1. HardenedStart \in Nat \ {0}
    BY InputTyped
  <2>2. Read = Value(token) \/ Read = Value(token) + HardenedStart
    BY <1>1 DEF Read
  <2> QED
    BY <1>1, <2>1, <2>2 DEF Index32
<1>4. SoFar[Skip + Len(path) + 1] = Spelled /\ Names(SoFar, Skip, start, path)
  BY DEF InComponent
<1>5. path \in Seq(Index32) /\ Skip \in {0, 1}
  BY InputTyped DEF DecoderInv
<1> DEFINE parts == SoFar
           i == Read
           n == Skip
<1>6. Names(parts, n, start, Append(path, i))
  <2>1. parts[n + Len(path) + 1] = Spelled /\ Names(parts, n, start, path) /\ i \in Index32
        /\ i = Index(Spelled) /\ n \in {0, 1}
    BY <1>2, <1>3, <1>4, <1>5
  <2> HIDE DEF parts, i, n
  <2> QED
    BY <1>2, <1>5, <2>1, NamesOneMore
<1> QED
  BY <1>3, <1>5, <1>6, AppendProperties

-----------------------------------------------------------------------------
(* The steps of the decoder keep the invariant *)

LEMMA Refuses ==
    ASSUME DecoderTypeOK, DecoderInv, Stop("error"), ~AsSpelled(input).ok
    PROVE  DecoderTypeOK' /\ DecoderInv'
<1>1. /\ outcome' = "error" /\ input' = input /\ pos' = pos /\ f' = f /\ token' = token
      /\ hardened' = hardened /\ path' = path /\ start' = start
  BY DEF Stop
<1>2. DecoderTypeOK'
  BY <1>1 DEF DecoderTypeOK
<1>3. DecoderInv'
  BY <1>1 DEF DecoderInv
<1> QED
  BY <1>2, <1>3

LEMMA Succeeds ==
    ASSUME DecoderTypeOK, DecoderInv, Stop("ok"), input # <<>> => ReadAll
    PROVE  DecoderTypeOK' /\ DecoderInv'
<1>1. /\ outcome' = "ok" /\ input' = input /\ pos' = pos /\ f' = f /\ token' = token
      /\ hardened' = hardened /\ path' = path /\ start' = start
  BY DEF Stop
<1>2. DecoderTypeOK'
  BY <1>1 DEF DecoderTypeOK
<1>3. ReadAll' <=> ReadAll
  BY <1>1 DEF ReadAll, Skip
<1>4. DecoderInv'
  BY <1>1, <1>3 DEF DecoderInv
<1> QED
  BY <1>2, <1>4

\* A number that is too large.
LEMMA TooLarge ==
    ASSUME DecoderTypeOK, DecoderInv, InComponent, token # <<>>, ~(Value(token) < HardenedStart),
           pos = Len(input) \/ (pos < Len(input) /\ char = "/")
    PROVE  ~AsSpelled(input).ok
<1>1. ~IsIndex(token) /\ ~IsIndex(Append(token, "'"))
  BY IndexOfDigits DEF DecoderTypeOK, DecoderInv
<1>2. ~IsIndex(SoFar[Len(SoFar)])
  BY <1>1 DEF InComponent, Spelled
<1>3. Components(input)[Len(SoFar)] = SoFar[Len(SoFar)]
  <2>1. CASE pos = Len(input)
    BY <2>1, AllRead
  <2>2. CASE pos < Len(input) /\ char = "/"
    <3> DEFINE next == Components(SubSeq(input, 1, pos + 1))
    <3>1. /\ Prolongs(Components(input), next) /\ Len(next) = Len(SoFar) + 1
          /\ next[Len(SoFar)] = SoFar[Len(SoFar)]
      BY <2>2, GoOn
    <3>2. Len(SoFar) \in 1..(Len(next) - 1)
      BY <3>1, SoFarTyped
    <3> HIDE DEF next
    <3> QED
      BY <3>1, <3>2 DEF Prolongs
  <2> QED
    BY <2>1, <2>2
<1> QED
  BY <1>2, <1>3, BadComponent

\* A component that goes on with a character an index cannot have there.
LEMMA WrongCharacter ==
    ASSUME DecoderTypeOK, DecoderInv, InComponent, pos < Len(input), char # "/",
           \A w \in Seq(Char) :
              /\ Len(Append(Spelled, char)) <= Len(w)
              /\ \A i \in 1..Len(Append(Spelled, char)) : w[i] = Append(Spelled, char)[i]
              => ~IsIndex(w)
    PROVE  ~AsSpelled(input).ok
<1> DEFINE next == Components(SubSeq(input, 1, pos + 1))
           k == Len(SoFar)
           w == Components(input)[k]
<1>1. /\ Prolongs(Components(input), next) /\ Len(next) = k
      /\ next[k] = Append(SoFar[k], char)
  BY GoOn
<1>2. SoFar[k] = Spelled
  BY DEF InComponent
<1> HIDE DEF next
<1>3. k \in 1..Len(Components(input)) /\ Len(next[k]) <= Len(w) /\ \A i \in 1..Len(next[k]) : w[i] = next[k][i]
  BY <1>1, SoFarTyped DEF Prolongs
<1>4. w \in Seq(Char)
  BY <1>3, SoFarTyped
<1> HIDE DEF k
<1>5. next[k] = Append(Spelled, char)
  BY <1>1, <1>2
<1> HIDE DEF w
<1>6. ~IsIndex(w)
  BY <1>3, <1>4, <1>5
<1> QED
  BY <1>6, BadComponent DEF w, k

LEMMA AppendToOne ==
    ASSUME NEW S, NEW x \in S, NEW y \in S
    PROVE  Append(<<x>>, y) = <<x, y>>
<1> DEFINE o == <<x>>
           t == <<x, y>>
           a == Append(o, y)
<1>1. o \in Seq(S) /\ Len(o) = 1 /\ o[1] = x
  OBVIOUS
<1>2. t \in Seq(S) /\ Len(t) = 2 /\ t[1] = x /\ t[2] = y
  OBVIOUS
<1> HIDE DEF o, t
<1>3. a \in Seq(S) /\ Len(a) = 2 /\ a[1] = x /\ a[2] = y
  <2>1. /\ a \in Seq(S) /\ Len(a) = Len(o) + 1 /\ (\A i \in 1..Len(o) : a[i] = o[i])
        /\ a[Len(o) + 1] = y
    <3>1. o \in Seq(S)
      BY <1>1
    <3> QED
      BY <3>1, AppendProperties
  <2>2. 1 \in 1..1 /\ 1 + 1 = 2
    OBVIOUS
  <2> HIDE DEF a
  <2> QED
    BY <1>1, <2>1, <2>2
<1> HIDE DEF a
<1>4. \A i \in 1..2 : i = 1 \/ i = 2
  OBVIOUS
<1>5. a = t
  BY <1>2, <1>3, <1>4, SeqEqual
<1> QED
  BY <1>5 DEF a, o, t

LEMMA parseStartKeeps ==
    ASSUME DecoderTypeOK, DecoderInv, parseStart
    PROVE  DecoderTypeOK' /\ DecoderInv'
<1>1. AtStart
  BY DEF parseStart, DecoderInv, AtStart, AfterStart, InComponent
<1>2. /\ pos = 0 /\ start = "current" /\ token = <<>> /\ path = <<>> /\ ~hardened
      /\ Len(path) = 0 /\ outcome = "running"
  BY <1>1 DEF AtStart, parseStart
<1>3. /\ input \in Seq(Char) /\ Len(input) \in Nat /\ Len(SoFar) = 1 /\ SoFar[1] = <<>>
      /\ SoFar[Len(SoFar)] = <<>>
  BY <1>2, InputTyped, NothingRead
<1>4. /\ Sources["master"] = <<"m">> /\ Sources["parent"] = <<".", ".">>
      /\ Sources["current"] = <<".">>
  BY SourceFacts
<1> DEFINE one == Components(SubSeq(input, 1, 1))
<1>5. ASSUME ~AtEnd, char \in {"m", "."}
      PROVE  /\ char = input[1] /\ Len(one) = 1 /\ one[1] = <<char>> /\ Skip = 1 /\ input # <<>> /\ 1 <= Len(input)
  <2>1. pos < Len(input) /\ pos + 1 = 1 /\ char # "/" /\ input # <<>>
    <3>1. input # <<>>
      BY <1>2, <1>5 DEF AtEnd
    <3> QED
      BY <1>2, <1>3, <1>5, <3>1 DEF AtEnd
  <2>2. /\ Len(Components(SubSeq(input, 1, pos + 1))) = Len(SoFar)
        /\ Components(SubSeq(input, 1, pos + 1))[Len(SoFar)] = Append(SoFar[Len(SoFar)], char)
    BY <2>1, GoOn
  <2>3. Append(<<>>, char) = <<char>>
    OBVIOUS
  <2>4. char = input[1]
    BY <1>2 DEF char
  <2>5. Skip = 1
    BY <1>5, <2>1, <2>4 DEF Skip
  <2> QED
    BY <1>2, <1>3, <2>1, <2>2, <2>3, <2>4, <2>5
<1>6. CASE AtEnd /\ Stop("ok")
  <2>1. input = <<>>
    BY <1>2, <1>3, <1>6, EmptySeq DEF AtEnd
  <2> QED
    BY <1>6, <2>1, Succeeds
<1>7. CASE /\ ~AtEnd /\ char = "m"
           /\ pos' = pos + 1 /\ f' = "separator" /\ start' = "master"
           /\ UNCHANGED <<input, token, hardened, path, outcome>>
  <2>1. DecoderTypeOK'
    BY <1>2, <1>5, <1>7, <1>3 DEF DecoderTypeOK
  <2>2. SoFar' = one /\ Skip' = Skip
    BY <1>2, <1>7 DEF SoFar, Skip
  <2>3. AfterStart'
    <3>1. one[1] = <<"m">> /\ Len(one) = 1 /\ Skip = 1
      BY <1>5, <1>7
    <3> HIDE DEF one
    <3> QED
      BY <1>2, <1>4, <1>7, <2>2, <3>1 DEF AfterStart
  <2> QED
    BY <1>2, <1>7, <2>1, <2>3 DEF DecoderInv
<1>8. CASE ~AtEnd /\ char = "." /\ pos + 1 = Len(input) /\ Stop("ok")
  <2>1. /\ char = input[1] /\ Len(one) = 1 /\ one[1] = <<".">> /\ Skip = 1 /\ Len(input) = 1
    BY <1>2, <1>5, <1>8
  <2>2. one = Components(input) /\ Last(input) = "."
    BY <1>3, <1>8, <2>1, SubSeqFull DEF Last
  <2>3. Spaceless(Components(input)[1])
    <3>1. \A i \in 1..1 : i = 1
      OBVIOUS
    <3>2. Len(<<".">>) = 1 /\ <<".">>[1] = "." /\ "." # " "
      OBVIOUS
    <3> QED
      BY <2>1, <2>2, <3>1, <3>2 DEF Spaceless
  <2>4. ReadAll
    BY <1>2, <1>4, <2>1, <2>2, <2>3 DEF ReadAll, Names
  <2> QED
    BY <1>8, <2>4, Succeeds
<1>9. CASE /\ ~AtEnd /\ char = "." /\ pos + 1 < Len(input)
           /\ f' = "separator"
           /\ IF input[pos + 2] = "."
              THEN pos' = pos + 2 /\ start' = "parent"
              ELSE pos' = pos + 1 /\ start' = "current"
           /\ UNCHANGED <<input, token, hardened, path, outcome>>
  <2>1. DecoderTypeOK'
    BY <1>2, <1>3, <1>9 DEF DecoderTypeOK
  <2>2. one[1] = <<".">> /\ Len(one) = 1 /\ Skip = 1 /\ Skip' = Skip /\ 1 < Len(input)
    <3>1. Skip' = Skip
      BY <1>9 DEF Skip
    <3> QED
      BY <1>2, <1>3, <1>5, <1>9, <3>1
  <2>3. CASE input[pos + 2] = "."
    <3> DEFINE r == SubSeq(input, 1, 1)
               two == SubSeq(input, 1, 2)
    <3>1. r \in Seq(Char) /\ input[2] \in Char /\ two = Append(r, input[2]) /\ input[2] = "."
      <4>1. 1 \in 0..(Len(input) - 1) /\ 1 + 1 = 2 /\ pos + 2 = 2
        BY <1>2, <1>3, <2>2
      <4>2. input[1 + 1] \in Char /\ r \in Seq(Char) /\ SubSeq(input, 1, 1 + 1) = Append(r, input[1 + 1])
        BY <1>3, <4>1, PrefixOfNext
      <4> QED
        BY <2>3, <4>1, <4>2
    <3>2. one = Components(r)
      OBVIOUS
    <3> HIDE DEF r, two, one
    <3>3. Len(Components(two)) = Len(one) /\ Components(two)[Len(one)] = Append(one[Len(one)], ".")
      <4>1. "." # "/"
        OBVIOUS
      <4> QED
        BY <3>1, <3>2, <4>1, ListGrows
    <3>4. Append(<<".">>, ".") = <<".", ".">>
      BY AppendToOne
    <3>5. SoFar' = Components(two) /\ start' = "parent"
      <4>1. pos' = 2 /\ input' = input /\ start' = "parent"
        BY <1>2, <1>9, <2>3
      <4> QED
        BY <4>1 DEF SoFar, two
    <3>6. AfterStart'
      <4>1. Len(SoFar') = 1 /\ SoFar'[1] = <<".", ".">>
        BY <2>2, <3>3, <3>4, <3>5
      <4> QED
        BY <1>2, <1>4, <1>9, <2>2, <3>5, <4>1 DEF AfterStart
    <3> QED
      BY <1>2, <1>9, <2>1, <3>6 DEF DecoderInv
  <2>4. CASE input[pos + 2] # "."
    <3>1. SoFar' = one /\ start' = "current" /\ pos' = 1 /\ input' = input
      <4>1. pos' = 1 /\ input' = input /\ start' = "current"
        BY <1>2, <1>9, <2>4
      <4> QED
        BY <4>1 DEF SoFar
    <3> HIDE DEF one
    <3>2. input'[pos' + 1] # "."
      BY <1>2, <2>4, <3>1
    <3>3. AfterStart'
      BY <1>2, <1>4, <1>9, <2>2, <3>1, <3>2 DEF AfterStart
    <3> QED
      BY <1>2, <1>9, <2>1, <3>3 DEF DecoderInv
  <2> QED
    BY <2>3, <2>4
<1>10. CASE /\ ~AtEnd /\ char \notin {"m", "."}
            /\ f' = "segment"
            /\ UNCHANGED <<input, pos, token, hardened, path, start, outcome>>
  <2>1. DecoderTypeOK'
    BY <1>10 DEF DecoderTypeOK
  <2>2. SoFar' = SoFar /\ Skip' = Skip /\ Skip = 0 /\ input # <<>>
    <3>1. input # <<>>
      BY <1>2, <1>10 DEF AtEnd
    <3>2. char = input[1]
      BY <1>2 DEF char
    <3> QED
      BY <1>10, <3>1, <3>2 DEF SoFar, Skip
  <2>3. InComponent'
    <3>1. Names(SoFar, 0, "current", <<>>)
      <4>1. Len(<<>>) = 0
        OBVIOUS
      <4> QED
        BY <4>1 DEF Names
    <3>2. Spelled' = <<>>
      BY <1>2, <1>10 DEF Spelled
    <3>3. /\ input' # <<>> /\ f' = "segment" /\ ~hardened' /\ path' = <<>> /\ start' = "current"
          /\ Len(path') = 0 /\ Skip' = 0 /\ Len(SoFar') = 1 /\ SoFar'[1] = <<>>
      BY <1>2, <1>3, <1>10, <2>2
    <3>4. Names(SoFar', Skip', start', path')
      BY <2>2, <3>1, <3>3
    <3> QED
      BY <3>2, <3>3, <3>4 DEF InComponent
  <2> QED
    BY <1>2, <1>10, <2>1, <2>3 DEF DecoderInv
<1> QED
  BY <1>6, <1>7, <1>8, <1>9, <1>10 DEF parseStart

\* A separator ends the component, and with it the number read.
LEMMA SlashKeeps ==
    ASSUME DecoderTypeOK, DecoderInv, outcome = "running", AfterStart \/ (InComponent /\ token # <<>>),
           pos < Len(input), char = "/", saveSegment("running")
    PROVE  DecoderTypeOK' /\ DecoderInv'
<1> DEFINE next == Components(SubSeq(input, 1, pos + 1))
           none == <<>>
<1>1. /\ Len(next) = Len(SoFar) + 1 /\ next[Len(next)] = none
      /\ \A k \in 1..(Len(SoFar) - 1) : next[k] = SoFar[k]
      /\ next[Len(SoFar)] = SoFar[Len(SoFar)]
  BY GoOn
<1>2. /\ input \in Seq(Char) /\ Len(input) \in Nat /\ pos \in Nat /\ Skip \in {0, 1}
      /\ path \in Seq(Index32) /\ Len(path) \in Nat
      /\ Len(SoFar) \in Nat \ {0}
      /\ none \in Seq(Char) /\ Len(none) = 0
  BY InputTyped, SoFarTyped, LenProperties, EmptySeq DEF DecoderInv
<1>3. \A k \in 1..Len(SoFar) : next[k] = SoFar[k]
  <2>1. \A k \in 1..Len(SoFar) : k \in 1..(Len(SoFar) - 1) \/ k = Len(SoFar)
    BY <1>2
  <2> QED
    BY <1>1, <2>1
<1>4. ASSUME ~Stop("error")
      PROVE  /\ path' = (IF token = none THEN path ELSE Append(path, Read))
             /\ token' = none /\ hardened' = FALSE
             /\ f' = "segment" /\ pos' = pos + 1 /\ outcome' = "running" /\ input' = input /\ start' = start
  <2>1. pos # Len(input)
    BY <1>2
  <2> QED
    BY <1>4, <2>1 DEF saveSegment, Accepts, AtEnd
<1>5. ASSUME ~Stop("error"), path' \in Seq(Index32), Names(SoFar, Skip, start, path'),
             Len(SoFar) = Skip + Len(path'), input # <<>>
      PROVE  DecoderTypeOK' /\ DecoderInv'
  <2>1. SoFar' = next /\ Skip' = Skip
    BY <1>4, <1>5 DEF SoFar, Skip
  <2> HIDE DEF next, none
  <2>2. Len(path') \in Nat
    BY <1>5, LenProperties
  <2>3. Names(next, Skip, start, path')
    BY <1>2, <1>3, <1>5, NamesKept
  <2>4. Spelled' = none
    BY <1>4, <1>5 DEF Spelled
  <2>5. InComponent'
    <3>1. Len(SoFar') = Skip' + Len(path') + 1
      BY <1>1, <1>2, <1>5, <2>1, <2>2
    <3> QED
      BY <1>1, <1>4, <1>5, <2>1, <2>3, <2>4, <3>1 DEF InComponent
  <2>6. DecoderTypeOK'
    <3>1. \A i \in 1..Len(path') : path'[i] \in Index32
      BY <1>5, ElementOfSeq
    <3>2. pos + 1 \in 0..Len(input)
      BY <1>2
    <3> QED
      BY <1>2, <1>4, <1>5, <3>1, <3>2 DEF DecoderTypeOK, Index32
  <2> QED
    BY <1>2, <1>4, <1>5, <2>5, <2>6 DEF DecoderInv
<1> HIDE DEF next
<1>6. CASE AfterStart
  <2>1. token = none /\ path = none /\ Len(path) = 0 /\ Skip = 1 /\ Len(SoFar) = 1 /\ SoFar[1] = Sources[start]
    BY <1>6 DEF AfterStart
  <2>2. ~Stop("error")
    <3>1. outcome' = "running"
      BY <2>1 DEF saveSegment, Accepts
    <3> QED
      BY <3>1 DEF Stop
  <2>3. path' = path
    BY <1>4, <2>1, <2>2
  <2>4. Names(SoFar, Skip, start, path')
    BY <2>1, <2>3 DEF Names
  <2>5. input # <<>>
    BY <1>2
  <2> QED
    BY <1>2, <1>5, <2>1, <2>2, <2>3, <2>4, <2>5
<1>7. CASE InComponent /\ token # <<>>
  <2>1. CASE Value(token) >= HardenedStart
    <3>1. ~(Value(token) < HardenedStart) /\ Stop("error")
      BY <1>7, <2>1, ValueOfDigits, InputTyped DEF saveSegment, DecoderTypeOK, DecoderInv
    <3>2. ~AsSpelled(input).ok
      BY <1>7, <3>1, TooLarge
    <3> QED
      BY <3>1, <3>2, Refuses
  <2>2. CASE ~(Value(token) >= HardenedStart)
    <3>1. Value(token) < HardenedStart
      BY <1>7, <2>2, ValueOfDigits, InputTyped DEF DecoderTypeOK, DecoderInv
    <3>2. ~Stop("error")
      <4>1. outcome' = "running"
        BY <1>7, <2>2 DEF saveSegment, Accepts
      <4> QED
        BY <4>1 DEF Stop
    <3>3. path' = Append(path, Read)
      BY <1>4, <1>7, <3>2
    <3>4. path' \in Seq(Index32) /\ Len(path') = Len(path) + 1 /\ Names(SoFar, Skip, start, path')
      BY <1>7, <3>1, <3>3, GoodComponent
    <3>5. Len(SoFar) = Skip + Len(path') /\ input # <<>>
      BY <1>2, <1>7, <3>4 DEF InComponent
    <3> QED
      BY <1>5, <3>2, <3>4, <3>5
  <2> QED
    BY <2>1, <2>2
<1> QED
  BY <1>6, <1>7

LEMMA parseSeparatorKeeps ==
    ASSUME DecoderTypeOK, DecoderInv, parseSeparator
    PROVE  DecoderTypeOK' /\ DecoderInv'
<1>1. /\ f = "separator" /\ outcome = "running"
      /\ AfterStart \/ InComponent
  BY DEF parseSeparator, DecoderInv, AtStart
<1>2. /\ input \in Seq(Char) /\ Len(input) \in Nat /\ pos \in Nat /\ pos <= Len(input)
      /\ Skip \in {0, 1} /\ start \in DOMAIN Sources
      /\ path \in Seq(Index32) /\ Len(path) \in Nat /\ token \in Seq(Char)
      /\ Len(SoFar) \in Nat \ {0}
  BY InputTyped, SoFarTyped, LenProperties DEF DecoderInv
<1>3. CASE AtEnd /\ Stop("ok")
  <2>1. pos = Len(input) /\ SoFar = Components(input)
    BY <1>3, AllRead DEF AtEnd
  <2> DEFINE w == SoFar[Len(SoFar)]
  <2>2. w # <<>> => input # <<>> /\ Last(input) = Last(w)
    BY <1>2, <2>1, LastComponent
  <2>3. CASE AfterStart
    <3>1. w = Sources[start] /\ path = <<>> /\ Skip = 1 /\ Len(SoFar) = 1 /\ Len(path) = 0
      BY <2>3 DEF AfterStart
    <3>2. Last(w) \in {"m", "."} /\ w # <<>>
      <4>1. Len(Sources[start]) \in 1..Len(Sources[start])
        BY <1>2, SourceFacts
      <4> QED
        BY <1>2, <3>1, <4>1, SourceFacts DEF Last
    <3>3. Last(input) # "'"
      BY <2>2, <3>2
    <3>4. Names(Components(input), Skip, start, path)
      BY <2>1, <2>3, <3>1 DEF Names
    <3>5. Spaceless(Components(input)[1])
      <4>1. Len(Components(input)) = Skip + Len(path)
        BY <2>1, <3>1
      <4> DEFINE v == Components(input)
      <4>2. v \in Lists
        BY <1>2, LastComponent
      <4> HIDE DEF v
      <4>3. token = <<>> /\ \A i \in 1..Len(token) : IsDigit(token[i])
        BY <2>3 DEF AfterStart, DecoderTypeOK
      <4> QED
        BY <1>2, <3>4, <4>1, <4>2, <4>3, SpacelessFirst DEF v
    <3>6. ReadAll
      BY <2>1, <3>1, <3>3, <3>4, <3>5 DEF ReadAll
    <3> QED
      BY <1>3, <3>6, Succeeds
  <2>4. CASE InComponent
    <3>1. w = Append(token, "'") /\ Len(SoFar) = Skip + Len(path) + 1 /\ Names(SoFar, Skip, start, path)
      BY <1>1, <2>4 DEF InComponent, Spelled
    <3>2. Last(w) = "'" /\ w # <<>>
      <4>1. "'" \in Char
        BY DEF Char
      <4> QED
        BY <1>2, <3>1, <4>1, LastOfAppend
    <3>3. Spaceless(Components(input)[1])
      <4>1. Components(input) \in Lists
        BY <1>2, LastComponent
      <4>2. \A i \in 1..Len(token) : IsDigit(token[i])
        BY DEF DecoderTypeOK
      <4> QED
        BY <1>2, <2>1, <3>1, <4>1, <4>2, SpacelessFirst
    <3>4. ReadAll
      BY <2>1, <2>2, <3>1, <3>2, <3>3 DEF ReadAll
    <3> QED
      BY <1>3, <3>4, Succeeds
  <2> QED
    BY <1>1, <2>3, <2>4
<1>4. CASE ~AtEnd /\ char = "/" /\ saveSegment("running")
  <2>1. pos < Len(input)
    BY <1>2, <1>4 DEF AtEnd
  <2>2. CASE AfterStart
    BY <1>1, <1>4, <2>1, <2>2, SlashKeeps
  <2>3. CASE InComponent
    <3>1. token # <<>>
      BY <1>1, <2>3 DEF InComponent
    <3> QED
      BY <1>1, <1>4, <2>1, <2>3, <3>1, SlashKeeps
  <2> QED
    BY <1>1, <2>2, <2>3
<1>5. CASE ~AtEnd /\ char # "/" /\ Stop("error")
  <2>1. pos < Len(input) /\ char # "/"
    BY <1>2, <1>5 DEF AtEnd
  <2>2. CASE AfterStart
    <3> DEFINE next == Components(SubSeq(input, 1, pos + 1))
               w == Components(input)[1]
    <3>1. /\ SoFar[1] = Sources[start] /\ Len(SoFar) = 1
          /\ start = "current" => char # "."
      BY <2>1, <2>2 DEF AfterStart, char
    <3>2. /\ Prolongs(Components(input), next) /\ Len(next) = 1
          /\ next[1] = Append(Sources[start], char) /\ char \in Char
      BY <2>1, <3>1, GoOn
    <3> HIDE DEF next
    <3>3. Len(next[1]) <= Len(w) /\ (\A i \in 1..Len(next[1]) : w[i] = next[1][i]) /\ 1 \in 1..Len(Components(input))
      BY <3>2, SoFarTyped DEF Prolongs
    <3>4. w \in Seq(Char) /\ Len(w) \in Nat
      <4>1. w \in Seq(Char)
        BY <3>3, SoFarTyped
      <4> QED
        BY <4>1, LenProperties
    <3> HIDE DEF w
    <3> DEFINE o == Sources[start]
    <3>5. o \in Seq(Char) /\ Len(o) \in 1..2 /\ \A i \in 1..Len(o) : o[i] \in {"m", "."}
      BY <1>2, SourceFacts
    <3>6. next[1] = Append(o, char)
      BY <3>2
    <3> HIDE DEF o
    <3>7. /\ Len(next[1]) = Len(o) + 1 /\ (\A i \in 1..Len(o) : next[1][i] = o[i])
          /\ next[1][Len(o) + 1] = char
      BY <3>2, <3>5, <3>6, AppendProperties
    <3> DEFINE n == Len(o)
               g == next[1]
    <3>8. w[1] \in {"m", "."} /\ Len(w) >= Len(o) + 1 /\ w[Len(o) + 1] = char /\ \A i \in 1..Len(o) : w[i] = o[i]
      <4>1. /\ n \in 1..2 /\ Len(g) = n + 1 /\ (\A i \in 1..n : g[i] = o[i]) /\ g[n + 1] = char
            /\ Len(g) <= Len(w) /\ (\A i \in 1..Len(g) : w[i] = g[i])
        BY <3>3, <3>5, <3>7
      <4> HIDE DEF n, g
      <4>2. 1 \in 1..n /\ n + 1 \in 1..Len(g) /\ \A i \in 1..n : i \in 1..Len(g)
        BY <4>1
      <4>3. \A i \in 1..n : w[i] = o[i]
        BY <4>1, <4>2
      <4>4. w[1] = o[1] /\ w[n + 1] = char /\ Len(w) >= n + 1
        BY <3>4, <4>1, <4>2, <4>3
      <4>5. o[1] \in {"m", "."}
        BY <3>5, <4>2 DEF n
      <4> QED
        BY <4>3, <4>4, <4>5 DEF n
    <3> HIDE DEF n, g
    <3>9. ~IsIndex(w)
      BY <3>4, <3>8, DigitFacts, IndexIsDigits
    <3>10. \A src \in DOMAIN Sources : Sources[src] # w
      <4> SUFFICES ASSUME NEW src \in DOMAIN Sources, Sources[src] = w PROVE FALSE
        OBVIOUS
      <4>1. start = "current" /\ src = "parent"
        <5>1. Len(w) \in 1..2 /\ Len(w) >= 2 /\ Len(o) = 1
          BY <3>5, <3>8, SourceFacts
        <5>2. Len(<<"m">>) = 1 /\ Len(<<".">>) = 1 /\ Len(<<".", ".">>) = 2 /\ <<"m">>[1] = "m" /\ <<".", ".">>[1] = "."
          OBVIOUS
        <5>3. src = "parent"
          BY <5>1, <5>2, SourceFacts
        <5>4. w[1] = "."
          BY <5>2, <5>3, SourceFacts
        <5>5. o[1] = "."
          BY <3>8, <5>1, <5>4
        <5>6. start # "parent" /\ start # "master"
          BY <5>1, <5>2, <5>5, SourceFacts DEF o
        <5> QED
          BY <1>2, <5>3, <5>6, SourceFacts
      <4>2. w[2] = "."
        <5>1. <<".", ".">>[2] = "."
          OBVIOUS
        <5> QED
          BY <4>1, <5>1, SourceFacts
      <4>3. Len(o) = 1
        <5>1. Len(<<".">>) = 1
          OBVIOUS
        <5> QED
          BY <4>1, <5>1, SourceFacts DEF o
      <4> QED
        BY <3>1, <3>8, <4>1, <4>2, <4>3
    <3>11. ~AsSpelled(input).ok
      BY <1>2, <3>3, <3>9, <3>10, Refused DEF w
    <3> QED
      BY <1>5, <3>11, Refuses
  <2>3. CASE InComponent
    <3>1. Spelled = Append(token, "'") /\ hardened
      BY <1>1, <2>3 DEF InComponent, Spelled
    <3> DEFINE x == Append(Spelled, char)
               n == Len(token)
    <3>2. char \in Char /\ "'" \in Char /\ n \in Nat
      BY <1>2, <2>1, GoOn, LenProperties DEF Char
    <3>3. Spelled \in Seq(Char) /\ Len(Spelled) = n + 1 /\ Spelled[n + 1] = "'"
      BY <1>2, <3>1, <3>2, AppendProperties
    <3>4. Len(x) = n + 2 /\ x[n + 1] = "'"
      <4>1. n + 1 \in 1..Len(Spelled)
        BY <3>2, <3>3
      <4> QED
        BY <3>2, <3>3, <4>1, AppendProperties
    <3> HIDE DEF x, n
    <3>5. ASSUME NEW w \in Seq(Char), Len(x) <= Len(w), \A i \in 1..Len(x) : w[i] = x[i]
          PROVE  ~IsIndex(w)
      <4>1. Len(w) \in Nat
        BY LenProperties
      <4>2. n + 1 \in 1..(Len(w) - 1) /\ w[n + 1] = "'"
        BY <3>2, <3>4, <3>5, <4>1
      <4> QED
        BY <4>2, DigitFacts, IndexIsDigits
    <3>6. ~AsSpelled(input).ok
      BY <2>1, <2>3, <3>5, WrongCharacter DEF x
    <3> QED
      BY <1>5, <3>6, Refuses
  <2> QED
    BY <1>1, <2>2, <2>3
<1> QED
  BY <1>3, <1>4, <1>5 DEF parseSeparator

LEMMA parseSegmentKeeps ==
    ASSUME DecoderTypeOK, DecoderInv, parseSegment
    PROVE  DecoderTypeOK' /\ DecoderInv'
<1>1. /\ f = "segment" /\ outcome = "running" /\ InComponent /\ ~hardened
      /\ Spelled = token
  BY DEF parseSegment, DecoderInv, AtStart, AfterStart, InComponent, Spelled
<1>2. /\ input \in Seq(Char) /\ Len(input) \in Nat /\ pos \in Nat /\ pos <= Len(input)
      /\ Skip \in {0, 1} /\ start \in DOMAIN Sources
      /\ path \in Seq(Index32) /\ Len(path) \in Nat /\ token \in Seq(Char) /\ Len(token) \in Nat
      /\ Len(SoFar) \in Nat \ {0}
      /\ \A i \in 1..Len(token) : IsDigit(token[i])
  BY InputTyped, SoFarTyped, LenProperties DEF DecoderInv, DecoderTypeOK
<1>3. CASE AtEnd /\ token = <<>> /\ Stop("error")
  <2>1. Components(input)[Len(SoFar)] = <<>>
    BY <1>1, <1>3, AllRead DEF AtEnd, InComponent
  <2> DEFINE w == <<>>
  <2>2. w \in Seq(Char) /\ Len(w) = 0
    BY EmptySeq
  <2>3. ~IsIndex(w)
    <3> HIDE DEF w
    <3> QED
      BY <2>2, IndexIsDigits
  <2>4. ~AsSpelled(input).ok
    BY <1>1, <2>1, <2>3, BadComponent
  <2> QED
    BY <1>3, <2>4, Refuses
<1>4. CASE AtEnd /\ token # <<>> /\ saveSegment("ok")
  <2>1. CASE Value(token) >= HardenedStart
    <3>1. ~(Value(token) < HardenedStart) /\ Stop("error")
      BY <1>2, <1>4, <2>1, ValueOfDigits, InputTyped DEF saveSegment
    <3>2. ~AsSpelled(input).ok
      BY <1>1, <1>4, <3>1, TooLarge DEF AtEnd
    <3> QED
      BY <3>1, <3>2, Refuses
  <2>2. CASE ~(Value(token) >= HardenedStart)
    <3>1. Value(token) < HardenedStart
      BY <1>2, <2>2, ValueOfDigits, InputTyped
    <3>2. /\ path' = Append(path, Read) /\ token' = <<>> /\ hardened' = FALSE
          /\ f' = "segment" /\ pos' = pos /\ outcome' = "ok" /\ input' = input /\ start' = start
      BY <1>4, <2>2 DEF saveSegment, Accepts
    <3>3. /\ path' \in Seq(Index32) /\ Len(path') = Len(path) + 1
          /\ Names(SoFar, Skip, start, path')
      BY <1>1, <1>4, <3>1, <3>2, GoodComponent
    <3>4. DecoderTypeOK'
      <4>1. \A i \in 1..Len(path') : path'[i] \in Index32
        BY <3>3, ElementOfSeq
      <4>2. \A i \in 1..Len(token') : IsDigit(token'[i])
        <5>1. Len(<<>>) = 0
          OBVIOUS
        <5> QED
          BY <3>2, <5>1
      <4>3. pos' \in 0..Len(input') /\ input' \in Inputs
        BY <3>2 DEF DecoderTypeOK
      <4> QED
        BY <3>2, <4>1, <4>2, <4>3 DEF DecoderTypeOK, Index32
    <3>5. Components(input) = SoFar /\ SoFar[Len(SoFar)] = token /\ Len(SoFar) = Skip + Len(path) + 1
      BY <1>1, <1>4, AllRead DEF AtEnd, InComponent
    <3>6. Last(input) # "'"
      <4>1. Last(input) = Last(token)
        BY <1>2, <1>4, <3>5, LastComponent
      <4>2. Len(token) \in 1..Len(token)
        BY <1>2, <1>4, EmptySeq
      <4> QED
        BY <1>2, <4>1, <4>2, DigitFacts DEF Last
    <3>7. Skip' = Skip
      BY <3>2 DEF Skip
    <3>8. ReadAll'
      <4>1. Names(Components(input'), Skip', start', path')
        BY <3>2, <3>3, <3>5, <3>7
      <4>2. Len(Components(input')) = Skip' + Len(path') + 0 /\ ~(Last(input') = "'")
        BY <1>2, <3>2, <3>3, <3>5, <3>6, <3>7
      <4>3. Spaceless(Components(input')[1])
        <5>1. Components(input') \in Lists
          BY <1>2, <3>2, LastComponent
        <5>2. Len(Components(input')) = Skip' + Len(path')
          BY <1>2, <3>2, <3>3, <3>5, <3>7
        <5>3. Skip' \in {0, 1} /\ start' \in DOMAIN Sources
          BY <1>2, <3>2, <3>7
        <5> QED
          BY <1>2, <3>3, <4>1, <5>1, <5>2, <5>3, SpacelessFirst
      <4> QED
        BY <4>1, <4>2, <4>3 DEF ReadAll
    <3> QED
      BY <3>2, <3>3, <3>4, <3>8, EmptySeq DEF DecoderInv
  <2> QED
    BY <2>1, <2>2
<1>5. CASE ~AtEnd /\ token # <<>> /\ char = "/" /\ saveSegment("running")
  <2>1. pos < Len(input)
    BY <1>2, <1>5 DEF AtEnd
  <2> QED
    BY <1>1, <1>5, <2>1, SlashKeeps
<1>6. CASE /\ ~AtEnd /\ token # <<>> /\ char = "'"
           /\ hardened' = TRUE /\ f' = "separator" /\ pos' = pos + 1
           /\ UNCHANGED <<input, token, path, start, outcome>>
  <2> DEFINE next == Components(SubSeq(input, 1, pos + 1))
  <2>1. pos < Len(input) /\ char # "/"
    BY <1>2, <1>6 DEF AtEnd
  <2>2. /\ Len(next) = Len(SoFar) /\ next[Len(SoFar)] = Append(SoFar[Len(SoFar)], char)
        /\ \A k \in 1..(Len(SoFar) - 1) : next[k] = SoFar[k]
    BY <2>1, GoOn
  <2>3. SoFar' = next /\ Skip' = Skip
    BY <1>6 DEF SoFar, Skip
  <2> HIDE DEF next
  <2>4. Len(SoFar) = Skip + Len(path) + 1 /\ SoFar[Len(SoFar)] = token /\ Names(SoFar, Skip, start, path)
    BY <1>1 DEF InComponent
  <2>5. Names(next, Skip, start, path)
    <3>1. \A k \in 1..(Skip + Len(path)) : next[k] = SoFar[k]
      BY <1>2, <2>2, <2>4
    <3> QED
      BY <1>2, <2>4, <3>1, NamesKept
  <2>6. Spelled' = Append(token, "'")
    BY <1>6 DEF Spelled
  <2>7. InComponent'
    BY <1>1, <1>6, <2>2, <2>3, <2>4, <2>5, <2>6 DEF InComponent
  <2>8. DecoderTypeOK'
    BY <1>2, <1>6, <2>1 DEF DecoderTypeOK
  <2> QED
    BY <1>1, <1>2, <1>6, <2>7, <2>8 DEF DecoderInv
<1>7. CASE /\ ~AtEnd /\ IsDigit(char)
           /\ token' = Append(token, char) /\ pos' = pos + 1
           /\ UNCHANGED <<input, f, hardened, path, start, outcome>>
  <2> DEFINE next == Components(SubSeq(input, 1, pos + 1))
  <2>1. pos < Len(input) /\ char # "/"
    BY <1>2, <1>7, DigitFacts DEF AtEnd
  <2>2. /\ Len(next) = Len(SoFar) /\ next[Len(SoFar)] = Append(SoFar[Len(SoFar)], char)
        /\ (\A k \in 1..(Len(SoFar) - 1) : next[k] = SoFar[k])
        /\ char \in Char
    BY <2>1, GoOn
  <2>3. SoFar' = next /\ Skip' = Skip
    BY <1>7 DEF SoFar, Skip
  <2> HIDE DEF next
  <2>4. Len(SoFar) = Skip + Len(path) + 1 /\ SoFar[Len(SoFar)] = token /\ Names(SoFar, Skip, start, path)
    BY <1>1 DEF InComponent
  <2>5. Names(next, Skip, start, path)
    <3>1. \A k \in 1..(Skip + Len(path)) : next[k] = SoFar[k]
      BY <1>2, <2>2, <2>4
    <3> QED
      BY <1>2, <2>4, <3>1, NamesKept
  <2>6. Spelled' = Append(token, char)
    BY <1>1, <1>7 DEF Spelled
  <2>7. InComponent'
    <3>1. ~hardened' /\ f' = "segment" /\ input' # <<>> /\ path' = path /\ start' = start
      BY <1>1, <1>7 DEF InComponent
    <3> QED
      BY <2>2, <2>3, <2>4, <2>5, <2>6, <3>1 DEF InComponent
  <2>8. token' \in Seq(Char) /\ \A i \in 1..Len(token') : IsDigit(token'[i])
    <3> DEFINE a == Append(token, char)
    <3>1. /\ a \in Seq(Char) /\ Len(a) = Len(token) + 1 /\ (\A i \in 1..Len(token) : a[i] = token[i])
          /\ a[Len(token) + 1] = char
      BY <1>2, <2>2, AppendProperties
    <3> HIDE DEF a
    <3>2. token' = a
      BY <1>7 DEF a
    <3>3. \A i \in 1..(Len(token) + 1) : i \in 1..Len(token) \/ i = Len(token) + 1
      BY <1>2
    <3> QED
      BY <1>2, <1>7, <3>1, <3>2, <3>3
  <2>9. DecoderTypeOK'
    BY <1>2, <1>7, <2>1, <2>8 DEF DecoderTypeOK
  <2> QED
    BY <1>1, <1>2, <1>7, <2>7, <2>8, <2>9 DEF DecoderInv
<1>8. CASE ~AtEnd /\ ~IsDigit(char) /\ (token = <<>> \/ char \notin {"/", "'"}) /\ Stop("error")
  <2>1. pos < Len(input)
    BY <1>2, <1>8 DEF AtEnd
  <2>2. CASE char = "/"
    <3> DEFINE next == Components(SubSeq(input, 1, pos + 1))
               w == <<>>
    <3>1. /\ Prolongs(Components(input), next) /\ Len(next) = Len(SoFar) + 1
          /\ next[Len(SoFar)] = SoFar[Len(SoFar)]
      BY <2>1, <2>2, GoOn
    <3>2. Len(SoFar) \in 1..(Len(next) - 1)
      BY <1>2, <3>1
    <3>3. SoFar[Len(SoFar)] = w
      BY <1>1, <1>8, <2>2 DEF InComponent
    <3> HIDE DEF next
    <3>4. Components(input)[Len(SoFar)] = w
      BY <3>1, <3>2, <3>3 DEF Prolongs
    <3>5. w \in Seq(Char) /\ Len(w) = 0
      BY EmptySeq
    <3>6. ~IsIndex(w)
      <4> HIDE DEF w
      <4> QED
        BY <3>5, IndexIsDigits
    <3>7. ~AsSpelled(input).ok
      BY <1>1, <3>4, <3>6, BadComponent
    <3> QED
      BY <1>8, <3>7, Refuses
  <2>3. CASE char # "/"
    <3> DEFINE x == Append(token, char)
               n == Len(token)
    <3>1. char \in Char
      BY <2>1, GoOn
    <3>2. n \in Nat /\ Len(x) = n + 1 /\ x[n + 1] = char
      BY <1>2, <3>1, AppendProperties
    <3>3. token = <<>> => n = 0
      OBVIOUS
    <3> HIDE DEF x, n
    <3>4. ASSUME NEW w \in Seq(Char), Len(x) <= Len(w), \A i \in 1..Len(x) : w[i] = x[i]
          PROVE  ~IsIndex(w)
      <4> SUFFICES ASSUME IsIndex(w) PROVE FALSE
        OBVIOUS
      <4>1. /\ Len(w) \in Nat \ {0} /\ IsDigit(w[1])
            /\ \A i \in 1..(Len(w) - 1) : IsDigit(w[i])
            /\ IsDigit(w[Len(w)]) \/ w[Len(w)] = "'"
        BY IndexIsDigits
      <4>2. w[n + 1] = char /\ n + 1 <= Len(w)
        BY <3>2, <3>4
      <4>3. CASE n + 1 < Len(w)
        <5>1. n + 1 \in 1..(Len(w) - 1)
          BY <3>2, <4>1, <4>3
        <5> QED
          BY <1>8, <4>1, <4>2, <5>1
      <4>4. CASE n + 1 = Len(w)
        <5>1. char = "'" /\ n = 0
          BY <1>8, <3>3, <4>1, <4>2, <4>4
        <5> QED
          BY <1>8, <4>1, <4>2, <5>1
      <4> QED
        BY <3>2, <4>1, <4>2, <4>3, <4>4
    <3>5. ~AsSpelled(input).ok
      <4>1. x = Append(Spelled, char)
        BY <1>1 DEF x
      <4> QED
        BY <1>1, <2>1, <2>3, <3>4, <4>1, WrongCharacter
    <3> QED
      BY <1>8, <3>5, Refuses
  <2> QED
    BY <2>2, <2>3
<1> QED
  BY <1>3, <1>4, <1>5, <1>6, <1>7, <1>8 DEF parseSegment

-----------------------------------------------------------------------------
(* What is written of a path *)

LEMMA CharsAssociative ==
    ASSUME NEW s \in Seq(Char), NEW t \in Seq(Char), NEW u \in Seq(Char)
    PROVE  (s \o t) \o u = s \o (t \o u)
<1> DEFINE S == Seq(Char)
           C == Char
<1>1. s \in Seq(C) /\ t \in Seq(C) /\ u \in Seq(C)
  OBVIOUS
<1> HIDE DEF S, C
<1> QED
  BY <1>1, ConcatAssociative

\* A segment is a separator and a word that reads as the index.
LEMMA Word ==
    ASSUME NEW i \in Index32
    PROVE  \E w \in Seq(Char) : /\ Segment(i) = <<"/">> \o w
                                /\ \A k \in 1..Len(w) : w[k] # "/"
                                /\ IsIndex(w) /\ Index(w) = i
<1>1. HardenedStart \in Nat \ {0} /\ i \in Nat /\ i < 2 * HardenedStart
  BY PathAssumption DEF Index32
<1>2. CASE i < HardenedStart
  <2> DEFINE w == Numeral[i]
  <2>1. w \in Seq(Char) /\ w # <<>> /\ (\A k \in 1..Len(w) : IsDigit(w[k])) /\ Value(w) = i
    BY <1>1, NumeralReads
  <2>2. Segment(i) = <<"/">> \o w
    <3>1. ~(i >= HardenedStart)
      BY <1>1, <1>2
    <3> QED
      BY <3>1 DEF Segment
  <2> HIDE DEF w
  <2>3. IsIndex(w) /\ Index(w) = i
    BY <1>2, <2>1, IndexOfDigits
  <2>4. \A k \in 1..Len(w) : w[k] # "/"
    BY <2>1, DigitFacts
  <2> QED
    BY <2>1, <2>2, <2>3, <2>4
<1>3. CASE ~(i < HardenedStart)
  <2> DEFINE m == i - HardenedStart
             t == Numeral[m]
             q == "'"
             w == Append(t, q)
             d == <<"/">>
  <2>1. m \in Nat /\ m < HardenedStart /\ m + HardenedStart = i /\ i >= HardenedStart
    BY <1>1, <1>3
  <2>2. t \in Seq(Char) /\ t # <<>> /\ (\A k \in 1..Len(t) : IsDigit(t[k])) /\ Value(t) = m
    BY <2>1, NumeralReads
  <2>3. q \in Char /\ d \in Seq(Char) /\ <<q>> \in Seq(Char)
    <3>1. q \in Char /\ "/" \in Char
      BY DEF Char
    <3> QED
      BY <3>1
  <2>4. Segment(i) = (d \o t) \o <<q>>
    BY <2>1 DEF Segment
  <2>5. IsIndex(w) /\ Index(w) = i
    <3> HIDE DEF m, t
    <3> QED
      BY <2>1, <2>2, IndexOfDigits
  <2> HIDE DEF t, q, d
  <2>6. Segment(i) = d \o w
    <3>1. w = t \o <<q>>
      BY <2>2, <2>3, AppendIsConcat
    <3>2. (d \o t) \o <<q>> = d \o (t \o <<q>>)
      BY <2>2, <2>3, CharsAssociative
    <3> QED
      BY <2>4, <3>1, <3>2
  <2>7. w \in Seq(Char) /\ \A k \in 1..Len(w) : w[k] # "/"
    <3>1. /\ w \in Seq(Char) /\ Len(w) = Len(t) + 1 /\ (\A k \in 1..Len(t) : w[k] = t[k])
          /\ w[Len(t) + 1] = q /\ Len(t) \in Nat
      BY <2>2, <2>3, AppendProperties, LenProperties
    <3>2. q # "/"
      BY DEF q
    <3> HIDE DEF w
    <3>3. ASSUME NEW k \in 1..Len(w) PROVE w[k] # "/"
      <4>1. k \in 1..Len(t) \/ k = Len(t) + 1
        BY <3>1
      <4> QED
        BY <2>2, <3>1, <3>2, <4>1, DigitFacts
    <3> QED
      BY <3>1, <3>3
  <2> HIDE DEF w
  <2> QED
    BY <2>5, <2>6, <2>7 DEF d
<1> QED
  BY <1>2, <1>3

LEMMA SegmentsTyped ==
    /\ <<>> \in Seq(Char)
    /\ \A i \in Index32, v \in Seq(Char) : WithSegment(v, i) \in Seq(Char)
<1>1. <<>> \in Seq(Char)
  BY EmptySeq
<1>2. ASSUME NEW i \in Index32, NEW v \in Seq(Char) PROVE v \o Segment(i) \in Seq(Char)
  <2>1. PICK w \in Seq(Char) : Segment(i) = <<"/">> \o w
    BY Word
  <2> DEFINE d == <<"/">>
             u == Segment(i)
  <2>2. d \in Seq(Char)
    <3>1. "/" \in Char
      BY DEF Char
    <3> QED
      BY <3>1
  <2>3. u = d \o w
    BY <2>1
  <2> HIDE DEF d, u
  <2>4. u \in Seq(Char)
    BY <2>2, <2>3, ConcatProperties
  <2>5. v \o u \in Seq(Char)
    BY <2>4, ConcatProperties
  <2> QED
    BY <2>5 DEF u
<1> QED
  BY <1>1, <1>2 DEF WithSegment

\* What is written of the first indexes, index by index.
LEMMA SegmentsIterates ==
    ASSUME NEW s \in Seq(Index32)
    PROVE  \E step \in Steps(Len(s), Seq(Char)) :
              /\ \A k \in 1..Len(s) : step[k] = [v \in Seq(Char) |-> WithSegment(v, s[k])]
              /\ \E u \in Iterations(Len(s), Seq(Char), <<>>, step) : Segments(s) = u[Len(s)]
<1> DEFINE n == Len(s)
           V == Seq(Char)
           base == <<>>
           step == [k \in 1..n |-> [v \in V |-> WithSegment(v, s[k])]]
           Folded(h) == h = [t \in SUBSET (DOMAIN s) |->
               IF t = {} THEN base ELSE WithSegment(h[t \ {Max(t)}], s[Max(t)])]
<1>1. n \in Nat /\ DOMAIN s = 1..n /\ (\A k \in 1..n : s[k] \in Index32) /\ base \in V
  BY LenProperties, ElementOfSeq, SegmentsTyped
<1>2. \A k \in 1..n, v \in V : WithSegment(v, s[k]) \in V
  BY <1>1, SegmentsTyped
<1>3. step \in Steps(n, V)
  <2>1. step \in [1..n -> [V -> V]]
    BY <1>2
  <2> QED
    BY <2>1 DEF Steps
<1>4. PICK g \in [SUBSET (1..n) -> V] :
         \A t \in SUBSET (1..n) : g[t] = IF t = {} THEN base ELSE step[Max(t)][g[t \ {Max(t)}]]
  <2> HIDE DEF n, V, base, step
  <2>1. Foldings(n, V, base, step) # {}
    BY <1>1, <1>3, FoldingExists
  <2> QED
    BY <2>1 DEF Foldings
<1>5. Folded(g)
  <2>1. ASSUME NEW t \in SUBSET (1..n)
        PROVE  g[t] = IF t = {} THEN base ELSE WithSegment(g[t \ {Max(t)}], s[Max(t)])
    <3>1. CASE t = {}
      BY <1>4, <3>1
    <3>2. CASE t # {}
      <4>1. Max(t) \in 1..n /\ t \ {Max(t)} \in SUBSET (1..n)
        BY <1>1, <3>2, GreatestOfSubset
      <4>2. g[t \ {Max(t)}] \in V
        BY <4>1
      <4> HIDE DEF V
      <4>3. step[Max(t)][g[t \ {Max(t)}]] = WithSegment(g[t \ {Max(t)}], s[Max(t)])
        BY <4>1, <4>2
      <4> QED
        BY <1>4, <3>2, <4>3
    <3> QED
      BY <3>1, <3>2
  <2> HIDE DEF step, n, V, base
  <2> QED
    BY <1>1, <2>1
<1>6. PICK h : Folded(h) /\ Segments(s) = h[DOMAIN s]
  BY <1>5 DEF Segments, FoldLeft, MapThenFoldSet
<1>7. h[{}] = base
  BY <1>1, <1>6
<1>8. ASSUME NEW k \in 1..n, h[1..(k - 1)] \in V PROVE h[1..k] = step[k][h[1..(k - 1)]]
  <2>1. k \in Nat /\ k # 0 /\ 1..k # {} /\ 1..k \in SUBSET (1..n)
    <3>1. k \in Nat /\ k # 0 /\ k \in 1..k /\ k <= n
      BY <1>1
    <3>2. 1..k # {}
      BY <3>1
    <3>3. \A y \in 1..k : y \in 1..n
      BY <1>1, <3>1
    <3> QED
      BY <3>1, <3>2, <3>3
  <2>2. Max(1..k) = k /\ 1..k \ {k} = 1..(k - 1)
    BY <2>1, GreatestOfInterval
  <2> HIDE DEF n, V, base
  <2>3. h[1..k] = WithSegment(h[1..(k - 1)], s[k])
    BY <1>1, <1>6, <2>1, <2>2
  <2> QED
    BY <1>8, <2>3
<1> DEFINE u == [k \in 0..n |-> h[1..k]]
<1>9. u \in Iterations(n, V, base, step)
  <2> HIDE DEF n, V, base, step
  <2> QED
    BY <1>1, <1>3, <1>7, <1>8, FoldIterates
<1>10. Segments(s) = u[n]
  <2>1. n \in 0..n
    BY <1>1
  <2> HIDE DEF n
  <2> QED
    BY <1>1, <1>6, <2>1
<1> HIDE DEF u
<1> QED
  BY <1>3, <1>9, <1>10

LEMMA SegmentsOfAppend ==
    ASSUME NEW s \in Seq(Index32), NEW x \in Index32
    PROVE  /\ Segments(s) \in Seq(Char)
           /\ Segments(Append(s, x)) = WithSegment(Segments(s), x)
<1> DEFINE n == Len(s)
           a == Append(s, x)
           V == Seq(Char)
           base == <<>>
<1>1. n \in Nat /\ a \in Seq(Index32) /\ Len(a) = n + 1 /\ (\A k \in 1..n : a[k] = s[k]) /\ a[n + 1] = x
  <2>1. n \in Nat
    BY LenProperties
  <2> HIDE DEF n
  <2> QED
    BY <2>1, AppendProperties DEF n
<1>2. base \in V
  BY SegmentsTyped
<1>3. PICK step \in Steps(n, V) :
         /\ \A k \in 1..n : step[k] = [v \in V |-> WithSegment(v, s[k])]
         /\ \E u \in Iterations(n, V, base, step) : Segments(s) = u[n]
  BY SegmentsIterates
<1>4. PICK u \in Iterations(n, V, base, step) : Segments(s) = u[n]
  BY <1>3
<1> HIDE DEF a
<1>5. PICK next \in Steps(n + 1, V) :
         /\ \A k \in 1..(n + 1) : next[k] = [v \in V |-> WithSegment(v, a[k])]
         /\ \E g \in Iterations(n + 1, V, base, next) : Segments(a) = g[n + 1]
  BY <1>1, SegmentsIterates
<1>6. PICK g \in Iterations(n + 1, V, base, next) : Segments(a) = g[n + 1]
  BY <1>5
<1>7. \A k \in 1..n : next[k] = step[k]
  <2> SUFFICES ASSUME NEW k \in 1..n PROVE next[k] = step[k]
    OBVIOUS
  <2>1. k \in 1..(n + 1) /\ a[k] = s[k]
    BY <1>1
  <2> HIDE DEF V
  <2> QED
    BY <1>3, <1>5, <2>1
<1>8. n + 1 \in 1..(n + 1)
  BY <1>1
<1> HIDE DEF n, V, base
<1>9. u[n] \in V /\ g[n + 1] = next[n + 1][u[n]]
  <2>1. n \in Nat
    BY <1>1
  <2> QED
    BY <1>2, <1>3, <1>4, <1>5, <1>6, <1>7, <2>1, IterationOfNext
<1>10. next[n + 1][u[n]] = WithSegment(u[n], x)
  BY <1>1, <1>5, <1>8, <1>9
<1> QED
  BY <1>4, <1>6, <1>9, <1>10 DEF a, V

LEMMA SegmentsOfNothing == Segments(<<>>) = <<>>
<1> DEFINE none == <<>>
           V == Seq(Char)
           base == <<>>
<1>1. none \in Seq(Index32) /\ Len(none) = 0
  BY EmptySeq
<1> HIDE DEF none, V, base
<1>2. PICK step \in Steps(0, V) : \E u \in Iterations(0, V, base, step) : Segments(none) = u[0]
  BY <1>1, SegmentsIterates DEF V, base
<1> QED
  BY <1>2 DEF none, base, Iterations

\* Characters that are no separators go to the last component.
LEMMA ComponentsOfWord ==
    ASSUME NEW s \in Seq(Char), NEW t \in Seq(Char), \A k \in 1..Len(t) : t[k] # "/"
    PROVE  LET v == Components(s)
               w == Components(s \o t)
           IN  /\ v \in Lists /\ Len(v) \in Nat \ {0} /\ Len(w) = Len(v)
               /\ \A k \in 1..(Len(v) - 1) : w[k] = v[k]
               /\ w[Len(v)] = v[Len(v)] \o t
<1> DEFINE v == Components(s)
           n == Len(v)
           l == v[n]
           Holds(u) == /\ Len(Components(s \o u)) = n
                       /\ \A k \in 1..(n - 1) : Components(s \o u)[k] = v[k]
                       /\ Components(s \o u)[n] = l \o u
           T == {u \in Seq(Char) : (\A k \in 1..Len(u) : u[k] # "/") => Holds(u)}
<1>1. v \in Lists /\ n \in Nat \ {0} /\ l \in Seq(Char)
  BY LastComponent
<1> HIDE DEF v, n, l
<1>2. <<>> \in T
  <2> DEFINE e == <<>>
  <2>1. e \in Seq(Char)
    BY EmptySeq
  <2>2. s \o e = s /\ l \o e = l
    BY <1>1, ConcatEmptySeq
  <2> HIDE DEF e
  <2>3. Holds(e)
    BY <2>2 DEF v, n, l
  <2>4. e \in T
    BY <2>1, <2>3
  <2> QED
    BY <2>4 DEF e
<1>3. ASSUME NEW u \in Seq(Char), NEW x \in Char, u \in T PROVE Append(u, x) \in T
  <2> DEFINE a == Append(u, x)
  <2>1. /\ a \in Seq(Char) /\ Len(a) = Len(u) + 1 /\ Len(u) \in Nat
        /\ (\A k \in 1..Len(u) : a[k] = u[k]) /\ a[Len(u) + 1] = x
    BY AppendProperties, LenProperties
  <2>2. \A o \in Seq(Char) : o \o a = Append(o \o u, x)
    <3> SUFFICES ASSUME NEW o \in Seq(Char) PROVE o \o a = Append(o \o u, x)
      OBVIOUS
    <3> DEFINE one == <<x>>
    <3>1. one \in Seq(Char)
      OBVIOUS
    <3>2. a = u \o one
      BY AppendIsConcat
    <3>3. o \o u \in Seq(Char)
      BY ConcatProperties
    <3>4. Append(o \o u, x) = (o \o u) \o one
      BY <3>3, AppendIsConcat
    <3> HIDE DEF one, a
    <3>5. (o \o u) \o one = o \o (u \o one)
      BY <3>1, CharsAssociative
    <3> QED
      BY <3>2, <3>4, <3>5
  <2> HIDE DEF a
  <2> SUFFICES ASSUME \A k \in 1..Len(a) : a[k] # "/" PROVE Holds(a)
    BY <2>1 DEF a
  <2>3. (\A k \in 1..Len(u) : u[k] # "/") /\ x # "/"
    <3>1. \A k \in 1..Len(u) : k \in 1..Len(a)
      BY <2>1
    <3>2. Len(u) + 1 \in 1..Len(a)
      BY <2>1
    <3> QED
      BY <2>1, <3>1, <3>2
  <2>4. Holds(u)
    BY <1>3, <2>3
  <2> DEFINE r == s \o u
  <2>5. r \in Seq(Char)
    BY ConcatProperties
  <2>6. /\ Len(Components(r)) = n /\ (\A k \in 1..(n - 1) : Components(r)[k] = v[k])
        /\ Components(r)[n] = l \o u
    BY <2>4
  <2> HIDE DEF r
  <2>7. /\ Len(Components(Append(r, x))) = n
        /\ \A k \in 1..(n - 1) : Components(Append(r, x))[k] = v[k]
        /\ Components(Append(r, x))[n] = Append(l \o u, x)
    BY <2>3, <2>5, <2>6, ListGrows
  <2>8. Append(r, x) = s \o a /\ Append(l \o u, x) = l \o a
    BY <1>1, <2>2 DEF r
  <2> QED
    BY <2>7, <2>8
<1>4. Seq(Char) \subseteq T
  <2> HIDE DEF T
  <2> QED
    BY <1>2, <1>3, InductionOnSeq
<1>5. Holds(t)
  BY <1>4
<1> QED
  BY <1>1, <1>5 DEF v, n, l

\* A segment more is a component more.
LEMMA ComponentsOfSegment ==
    ASSUME NEW s \in Seq(Char), NEW i \in Index32
    PROVE  LET v == Components(s)
               w == Components(s \o Segment(i))
           IN  /\ s \o Segment(i) \in Seq(Char)
               /\ Len(v) \in Nat \ {0} /\ Len(w) = Len(v) + 1
               /\ \A k \in 1..Len(v) : w[k] = v[k]
               /\ IsIndex(w[Len(v) + 1]) /\ i = Index(w[Len(v) + 1])
<1>1. PICK t \in Seq(Char) : /\ Segment(i) = <<"/">> \o t
                             /\ \A k \in 1..Len(t) : t[k] # "/"
                             /\ IsIndex(t) /\ Index(t) = i
  BY Word
<1> DEFINE d == <<"/">>
           r == Append(s, "/")
           v == Components(s)
           u == Components(r)
           w == Components(r \o t)
<1>2. "/" \in Char /\ d \in Seq(Char)
  <2>1. "/" \in Char
    BY DEF Char
  <2> QED
    BY <2>1
<1>3. r \in Seq(Char) /\ r = s \o d
  BY <1>2, AppendProperties, AppendIsConcat
<1>4. s \o Segment(i) = r \o t
  <2> HIDE DEF r
  <2>1. Segment(i) = d \o t
    BY <1>1
  <2> HIDE DEF d
  <2>2. (s \o d) \o t = s \o (d \o t)
    BY <1>2, CharsAssociative
  <2> QED
    BY <1>3, <2>1, <2>2
<1>5. /\ v \in Lists /\ Len(u) = Len(v) + 1 /\ (\A k \in 1..(Len(v) - 1) : u[k] = v[k])
      /\ u[Len(v)] = v[Len(v)] /\ u[Len(u)] = <<>>
  BY <1>2, ListGrows
<1> HIDE DEF r
<1>6. /\ Len(w) = Len(u) /\ (\A k \in 1..(Len(u) - 1) : w[k] = u[k]) /\ w[Len(u)] = u[Len(u)] \o t
  BY <1>1, <1>3, ComponentsOfWord
<1> HIDE DEF u, w, v
<1>7. Len(v) \in Nat \ {0}
  BY <1>5, ListParts
<1>8. <<>> \o t = t
  BY ConcatEmptySeq
<1>9. w[Len(v) + 1] = t
  BY <1>5, <1>6, <1>8
<1>10. \A k \in 1..Len(v) : w[k] = v[k]
  <2>1. \A k \in 1..Len(v) : k \in 1..(Len(u) - 1) /\ (k \in 1..(Len(v) - 1) \/ k = Len(v))
    BY <1>5, <1>7
  <2> QED
    BY <1>5, <1>6, <2>1
<1>11. r \o t \in Seq(Char)
  BY <1>3, ConcatProperties
<1> QED
  BY <1>1, <1>4, <1>5, <1>6, <1>7, <1>9, <1>10, <1>11 DEF v, w

\* What is written of a path reads back.
LEMMA WrittenNames ==
    ASSUME NEW src \in DOMAIN Sources, NEW p \in Seq(Index32)
    PROVE  /\ StringOf(src, p) \in Seq(Char)
           /\ Len(Components(StringOf(src, p))) = 1 + Len(p)
           /\ Names(Components(StringOf(src, p)), 1, src, p)
<1> DEFINE o == Sources[src]
           Written(q) == o \o Segments(q)
           Holds(q) == /\ Written(q) \in Seq(Char)
                       /\ Len(Components(Written(q))) = 1 + Len(q)
                       /\ Names(Components(Written(q)), 1, src, q)
           T == {q \in Seq(Index32) : Holds(q)}
<1>1. o \in Seq(Char) /\ \A k \in 1..Len(o) : o[k] # "/"
  <2>1. o \in Seq(Char) /\ \A k \in 1..Len(o) : o[k] \in {"m", "."}
    BY SourceFacts
  <2>2. "/" \notin {"m", "."}
    OBVIOUS
  <2> HIDE DEF o
  <2> QED
    BY <2>1, <2>2
<1>2. o = Sources[src]
  OBVIOUS
<1> HIDE DEF o
<1>3. <<>> \in T
  <2> DEFINE e == <<>>
             c == <<>>
  <2>1. e \in Seq(Index32) /\ Len(e) = 0 /\ c \in Seq(Char)
    BY EmptySeq
  <2>2. Written(e) = o
    <3>1. Segments(e) = <<>>
      BY SegmentsOfNothing
    <3>2. o \o <<>> = o
      BY <1>1, ConcatEmptySeq
    <3> QED
      BY <3>1, <3>2
  <2>3. c \o o = o
    BY <1>1, ConcatEmptySeq
  <2> DEFINE none == Components(c)
  <2>4. Len(none) = 1 /\ none[1] = c
    <3>1. Len(<< <<>> >>) = 1 /\ << <<>> >>[1] = <<>>
      OBVIOUS
    <3> QED
      BY <3>1, ListOfNothing
  <2> HIDE DEF e, c
  <2>5. Len(Components(c \o o)) = Len(none) /\ Components(c \o o)[Len(none)] = none[Len(none)] \o o
    BY <1>1, <2>1, ComponentsOfWord
  <2>6. Len(Components(o)) = 1 /\ Components(o)[1] = o
    BY <2>3, <2>4, <2>5
  <2>7. Names(Components(o), 1, src, e)
    BY <1>2, <2>1, <2>6 DEF Names
  <2>8. Holds(e)
    BY <1>1, <2>1, <2>2, <2>6, <2>7
  <2>9. e \in T
    BY <2>1, <2>8
  <2> QED
    BY <2>9 DEF e
<1>4. ASSUME NEW q \in Seq(Index32), NEW i \in Index32, q \in T PROVE Append(q, i) \in T
  <2> DEFINE s == Written(q)
             a == Append(q, i)
             v == Components(s)
             w == Components(s \o Segment(i))
  <2>1. s \in Seq(Char) /\ Len(v) = 1 + Len(q) /\ Names(v, 1, src, q)
    BY <1>4
  <2>2. Segments(q) \in Seq(Char) /\ Segments(a) = Segments(q) \o Segment(i)
    BY SegmentsOfAppend DEF WithSegment
  <2>3. Segment(i) \in Seq(Char)
    <3> DEFINE e == <<>>
    <3>1. e \in Seq(Char)
      BY EmptySeq
    <3>2. PICK t \in Seq(Char) : Segment(i) = <<"/">> \o t
      BY Word
    <3>3. <<"/">> \in Seq(Char)
      <4>1. "/" \in Char
        BY DEF Char
      <4> QED
        BY <4>1
    <3> DEFINE d == <<"/">>
    <3>4. d \in Seq(Char) /\ Segment(i) = d \o t
      BY <3>2, <3>3
    <3> HIDE DEF d
    <3> QED
      BY <3>4, ConcatProperties
  <2>4. Written(a) = s \o Segment(i)
    <3> DEFINE g == Segments(q)
               h == Segment(i)
    <3>1. g \in Seq(Char) /\ h \in Seq(Char)
      BY <2>2, <2>3
    <3> HIDE DEF g, h
    <3>2. (o \o g) \o h = o \o (g \o h)
      BY <1>1, <3>1, CharsAssociative
    <3> QED
      BY <2>2, <3>2 DEF g, h
  <2> HIDE DEF s
  <2>5. /\ s \o Segment(i) \in Seq(Char) /\ Len(w) = Len(v) + 1 /\ (\A k \in 1..Len(v) : w[k] = v[k])
        /\ IsIndex(w[Len(v) + 1]) /\ i = Index(w[Len(v) + 1])
    BY <2>1, ComponentsOfSegment
  <2> HIDE DEF v, w
  <2>6. a \in Seq(Index32) /\ Len(a) = Len(q) + 1 /\ Len(q) \in Nat
    BY AppendProperties, LenProperties
  <2>7. Names(w, 1, src, q)
    BY <2>1, <2>5, NamesKept
  <2>8. Names(w, 1, src, a)
    <3>1. IsIndex(w[1 + Len(q) + 1]) /\ i = Index(w[1 + Len(q) + 1])
      BY <2>1, <2>5
    <3> QED
      BY <2>7, <3>1, NamesOneMore
  <2>9. Components(Written(a)) = w /\ Written(a) \in Seq(Char)
    BY <2>4, <2>5 DEF w
  <2> HIDE DEF a
  <2>10. Len(w) = 1 + Len(a)
    BY <2>1, <2>5, <2>6
  <2>11. Holds(a)
    BY <2>8, <2>9, <2>10
  <2>12. a \in T
    BY <2>6, <2>11
  <2> QED
    BY <2>12 DEF a
<1>5. Seq(Index32) \subseteq T
  <2> HIDE DEF T
  <2> QED
    BY <1>3, <1>4, InductionOnSeq
<1>6. Holds(p) /\ Written(p) = StringOf(src, p)
  BY <1>2, <1>5 DEF StringOf
<1> QED
  BY <1>6

-----------------------------------------------------------------------------
(* Theorems *)

PathInv == DecoderTypeOK /\ DecoderInv

LEMMA DecoderInit == newDecoder => PathInv
<1> SUFFICES ASSUME newDecoder PROVE PathInv
  OBVIOUS
<1>1. /\ input \in Inputs /\ pos = 0 /\ f = "start" /\ token = <<>> /\ hardened = FALSE
      /\ path = <<>> /\ start = "current" /\ outcome = "running"
  BY DEF newDecoder
<1>2. Len(<<>>) = 0
  OBVIOUS
<1>3. input \in Seq(STRING) /\ Len(input) \in Nat
  BY <1>1, PathAssumption, LenProperties
<1>4. DecoderTypeOK
  <2>1. \A i \in 1..Len(token) : IsDigit(token[i])
    BY <1>1, <1>2
  <2>2. \A i \in 1..Len(path) : path[i] \in 0..(2 * HardenedStart - 1)
    BY <1>1, <1>2
  <2>3. pos \in 0..Len(input)
    BY <1>1, <1>3
  <2> QED
    BY <1>1, <2>1, <2>2, <2>3 DEF DecoderTypeOK
<1>5. AtStart
  BY <1>1 DEF AtStart
<1>6. DecoderInv
  BY <1>1, <1>5, EmptySeq DEF DecoderInv
<1> QED
  BY <1>4, <1>6 DEF PathInv

LEMMA DecoderStep == PathInv /\ [parse]_decoder => PathInv'
<1> SUFFICES ASSUME PathInv, [parse]_decoder PROVE PathInv'
  OBVIOUS
<1>1. DecoderTypeOK /\ DecoderInv
  BY DEF PathInv
<1>2. CASE parseStart
  BY <1>1, <1>2, parseStartKeeps DEF PathInv
<1>3. CASE parseSeparator
  BY <1>1, <1>3, parseSeparatorKeeps DEF PathInv
<1>4. CASE parseSegment
  BY <1>1, <1>4, parseSegmentKeeps DEF PathInv
<1>5. CASE UNCHANGED decoder
  <2>1. /\ outcome' = outcome /\ input' = input /\ pos' = pos /\ f' = f /\ token' = token
        /\ hardened' = hardened /\ path' = path /\ start' = start
    BY <1>5 DEF decoder
  <2>2. DecoderTypeOK'
    BY <1>1, <2>1 DEF DecoderTypeOK
  <2>3. DecoderInv'
    <3>1. SoFar' = SoFar /\ Skip' = Skip /\ Spelled' = Spelled
      BY <2>1 DEF SoFar, Skip, Spelled
    <3>2. (AtStart' <=> AtStart) /\ (AfterStart' <=> AfterStart) /\ (ReadAll' <=> ReadAll)
      BY <2>1, <3>1 DEF AtStart, AfterStart, ReadAll
    <3>3. InComponent' <=> InComponent
      BY <2>1, <3>1 DEF InComponent
    <3> QED
      BY <1>1, <2>1, <3>2, <3>3 DEF DecoderInv
  <2> QED
    BY <2>2, <2>3 DEF PathInv
<1> QED
  BY <1>2, <1>3, <1>4, <1>5 DEF parse

\* The inductive invariant: between two steps the components of the characters
\* read are the start, the indexes saved and the token; what the decoder returned
\* is what they are and holds no white space, and it refuses nothing that
\* KeyPathFromString accepts as it is spelled.
THEOREM DecoderInvariance == DecoderSpec => []PathInv
<1> QED
  BY DecoderInit, DecoderStep, PTL DEF DecoderSpec

\* The decoder stays in its input, and its indexes are 32-bit numbers.
THEOREM DecoderTypeCorrect == DecoderSpec => []DecoderTypeOK
<1>1. PathInv => DecoderTypeOK
  BY DEF PathInv
<1> QED
  BY <1>1, DecoderInvariance, PTL

LEMMA PathIs ==
    ASSUME NEW parts, NEW n, NEW from, NEW p \in Seq(Index32), Names(parts, n, from, p)
    PROVE  [k \in 1..Len(p) |-> Index(parts[n + k])] = p
<1>1. p \in [1..Len(p) -> Index32]
  BY LenProperties
<1> QED
  BY <1>1 DEF Names

LEMMA FrontIs ==
    ASSUME NEW p \in Seq(Index32), NEW V, NEW q \in [1..(Len(p) + 1) -> V],
           \A k \in 1..Len(p) : q[k] = p[k]
    PROVE  Front(q) = p
<1> DEFINE m == Len(p) + 1
           S == V \cup Index32
<1>1. Len(p) \in Nat /\ m \in Nat
  BY LenProperties
<1>2. q \in Seq(S) /\ Len(q) = m
  <2>1. q \in [1..m -> S]
    OBVIOUS
  <2> HIDE DEF m, S
  <2> QED
    BY <1>1, <2>1
<1>3. p \in Seq(S)
  <2>1. Index32 \subseteq S
    OBVIOUS
  <2> HIDE DEF S
  <2> QED
    BY <2>1, SeqMonotonic
<1> HIDE DEF S
<1>4. q # <<>>
  BY <1>1, <1>2, EmptySeq
<1>5. Front(q) \in Seq(S) /\ Len(Front(q)) = Len(p) /\ q = Append(Front(q), Last(q)) /\ Last(q) \in S
  BY <1>1, <1>2, <1>4, LastAndFront
<1> DEFINE g == Front(q)
           e == Last(q)
<1>6. \A k \in 1..Len(g) : q[k] = g[k]
  <2>1. g \in Seq(S) /\ e \in S /\ q = Append(g, e)
    BY <1>5
  <2> HIDE DEF g, e
  <2> QED
    BY <2>1, AppendProperties
<1> HIDE DEF g
<1>7. g \in Seq(S) /\ Len(g) = Len(p)
  BY <1>5 DEF g
<1>8. g = p
  BY <1>3, <1>6, <1>7, SeqEqual
<1> QED
  BY <1>8 DEF g

\* What KeyPathFromString makes of an input the decoder took.
LEMMA SameOfAccepted ==
    ASSUME PathInv, outcome = "ok", input # <<>>
    PROVE  LET n == Skip
               v == Components(input)
               m == Len(v) - n
               ok == m <= MaxComponents /\ \A k \in 1..m : IsIndex(v[n + k])
           IN  /\ m = Len(path) + IF Last(input) = "'" THEN 1 ELSE 0
               /\ AsSpelled(input) = [ok |-> ok, start |-> start,
                     path |-> IF ok THEN [k \in 1..m |-> Index(v[n + k])] ELSE <<>>]
<1> DEFINE n == Skip
           v == Components(input)
           m == Len(v) - n
<1>1. /\ input \in Seq(Char) /\ n \in {0, 1} /\ start \in DOMAIN Sources /\ path \in Seq(Index32)
      /\ Names(v, n, start, path)
      /\ Len(v) = n + Len(path) + IF Last(input) = "'" THEN 1 ELSE 0
  BY InputTyped DEF PathInv, DecoderInv, ReadAll
<1>2. Len(path) \in Nat
  BY <1>1, LenProperties
<1>3. m \in Nat /\ Len(v) = n + m /\ m = Len(path) + IF Last(input) = "'" THEN 1 ELSE 0
  <2>1. CASE Last(input) = "'"
    <3>1. Len(v) = n + Len(path) + 1
      BY <1>1, <2>1
    <3> HIDE DEF n, v
    <3> QED
      BY <1>1, <1>2, <2>1, <3>1
  <2>2. CASE Last(input) # "'"
    <3>1. Len(v) = n + Len(path) + 0
      BY <1>1, <2>2
    <3> HIDE DEF n, v
    <3> QED
      BY <1>1, <1>2, <2>2, <3>1
  <2> QED
    BY <2>1, <2>2
<1>4. n = 1 => v[1] = Sources[start]
  BY <1>1 DEF Names
<1>5. n = 0 => start = "current" /\ \A other \in DOMAIN Sources : Sources[other] # v[1]
  <2> SUFFICES ASSUME n = 0 PROVE start = "current" /\ \A other \in DOMAIN Sources : Sources[other] # v[1]
    OBVIOUS
  <2>1. start = "current"
    BY <1>1 DEF Names
  <2>2. input[1] \notin {"m", "."}
    BY DEF Skip
  <2> QED
    BY <1>1, <2>1, <2>2, NoSource
<1> DEFINE ok == m <= MaxComponents /\ \A k \in 1..m : IsIndex(v[n + k])
<1>6. AsSpelled(input) = [ok |-> ok, start |-> start,
                          path |-> IF ok THEN [k \in 1..m |-> Index(v[n + k])] ELSE <<>>]
  <2> HIDE DEF m, n
  <2> QED
    BY <1>1, <1>3, <1>4, <1>5, KeyPathIs
<1> QED
  BY <1>3, <1>6

LEMMA InvBuildersAgree == PathInv => BuildersAgree
<1> SUFFICES ASSUME PathInv PROVE BuildersAgree
  OBVIOUS
<1>0. ~Padded(input) => KeyPathOf(input) = AsSpelled(input)
  BY DEF Padded, KeyPathOf, AsSpelled
<1>1. ASSUME outcome = "error", ~Padded(input)
      PROVE  /\ ~DeriveKey(input).ok /\ NewCommandDeriveKey = NotBuilt /\ DeriveKey(input) = NotBuilt
             /\ NewCommandSetPinlessPath = SetPinlessPath(input)
             /\ NewCommandSign = NotBuilt
  <2>1. ~KeyPathOf(input).ok
    BY <1>0, <1>1 DEF PathInv, DecoderInv
  <2> QED
    BY <1>1, <2>1 DEF DeriveKey, SetPinlessPath, NewCommandDeriveKey, NewCommandSetPinlessPath,
                      NewCommandSign, NotBuilt
<1>2. outcome \in {"running", "ok", "error"}
  BY DEF PathInv, DecoderTypeOK
<1>3. ASSUME outcome = "ok", input # <<>>, ~Long(input), Last(input) # "'"
      PROVE  AsSpelled(input) = [ok |-> TRUE, start |-> start, path |-> path]
  <2> DEFINE n == Skip
             v == Components(input)
             m == Len(v) - n
             ok == m <= MaxComponents /\ \A k \in 1..m : IsIndex(v[n + k])
  <2>1. /\ m = Len(path) + 0
        /\ AsSpelled(input) = [ok |-> ok, start |-> start,
                 path |-> IF ok THEN [k \in 1..m |-> Index(v[n + k])] ELSE <<>>]
    BY <1>3, SameOfAccepted
  <2>2. n \in {0, 1} /\ Len(v) \in Nat /\ path \in Seq(Index32) /\ Len(path) \in Nat
    BY InputTyped, SoFarTyped, LenProperties DEF PathInv, DecoderInv
  <2>3. ~(Len(v) > MaxComponents) /\ MaxComponents \in Nat
    BY <1>3, PathAssumption DEF Long
  <2>4. Names(v, n, start, path)
    BY <1>3 DEF PathInv, DecoderInv, ReadAll
  <2> HIDE DEF n, v
  <2>5. m = Len(path) /\ m <= MaxComponents
    BY <2>1, <2>2, <2>3
  <2>6. \A k \in 1..m : IsIndex(v[n + k])
    BY <2>4, <2>5 DEF Names
  <2>7. [k \in 1..m |-> Index(v[n + k])] = path
    BY <2>2, <2>4, <2>5, PathIs
  <2>8. ok
    BY <2>5, <2>6
  <2> HIDE DEF ok, m
  <2> QED
    BY <2>1, <2>7, <2>8
<1>4. ASSUME outcome = "ok", input # <<>>, AsSpelled(input).ok, Last(input) = "'"
      PROVE  AsSpelled(input).start = start /\ Front(AsSpelled(input).path) = path
  <2> DEFINE n == Skip
             v == Components(input)
             m == Len(v) - n
             ok == m <= MaxComponents /\ \A k \in 1..m : IsIndex(v[n + k])
  <2>1. /\ m = Len(path) + 1
        /\ AsSpelled(input) = [ok |-> ok, start |-> start,
                 path |-> IF ok THEN [k \in 1..m |-> Index(v[n + k])] ELSE <<>>]
    BY <1>4, SameOfAccepted
  <2>2. path \in Seq(Index32) /\ Names(v, n, start, path) /\ Len(path) \in Nat
    BY <1>4, LenProperties DEF PathInv, DecoderInv, ReadAll
  <2> HIDE DEF ok, n, v
  <2>3. ok
    BY <1>4, <2>1
  <2> DEFINE q == [k \in 1..(Len(path) + 1) |-> Index(v[n + k])]
             V == {Index(v[n + k]) : k \in 1..(Len(path) + 1)}
  <2>4. AsSpelled(input).start = start /\ AsSpelled(input).path = q
    BY <2>1, <2>3
  <2>5. q \in [1..(Len(path) + 1) -> V] /\ \A k \in 1..Len(path) : q[k] = path[k]
    BY <2>2 DEF Names
  <2> HIDE DEF q, V
  <2>6. Front(q) = path
    BY <2>2, <2>5, FrontIs
  <2> QED
    BY <2>4, <2>6
<1>5. ASSUME Done, input # <<>>, ~Long(input), ~Padded(input), Last(input) # "'"
      PROVE  /\ NewCommandDeriveKey = DeriveKey(input)
             /\ path # <<>> => NewCommandSetPinlessPath = SetPinlessPath(input)
             /\ NewCommandSign.path = DeriveKey(input).path
  <2>1. CASE outcome = "ok"
    <3>1. KeyPathOf(input) = [ok |-> TRUE, start |-> start, path |-> path]
      BY <1>0, <1>3, <1>5, <2>1
    <3>2. DeriveKey(input) = Command(start, path)
      BY <3>1 DEF DeriveKey
    <3>3. SetPinlessPath(input) = (IF start = "master" THEN Command("none", path) ELSE NotBuilt)
      BY <3>1 DEF SetPinlessPath
    <3> QED
      BY <2>1, <3>2, <3>3 DEF NewCommandDeriveKey, NewCommandSign, NewCommandSetPinlessPath, Command
  <2>2. CASE outcome = "error"
    BY <1>1, <1>5, <2>2
  <2> QED
    BY <1>2, <1>5, <2>1, <2>2 DEF Done
<1>6. ASSUME Done, DeriveKey(input).ok, ~Padded(input), Last(input) = "'"
      PROVE  NewCommandDeriveKey = Command(DeriveKey(input).start, Front(DeriveKey(input).path))
  <2>1. outcome = "ok"
    BY <1>1, <1>2, <1>6 DEF Done
  <2>2. KeyPathOf(input).ok /\ AsSpelled(input).ok
    BY <1>0, <1>6 DEF DeriveKey, NotBuilt
  <2>3. input # <<>>
    <3> SUFFICES ASSUME input = <<>> PROVE FALSE
      OBVIOUS
    <3>1. << <<>> >>[1] = <<>>
      OBVIOUS
    <3>2. Components(input)[1] = <<>>
      BY <3>1, ListOfNothing
    <3> QED
      BY <2>2, <3>2 DEF AsSpelled, KeyPathFrom
  <2>4. KeyPathOf(input).start = start /\ Front(KeyPathOf(input).path) = path
    BY <1>0, <1>4, <1>6, <2>1, <2>2, <2>3
  <2>5. DeriveKey(input).start = start /\ DeriveKey(input).path = KeyPathOf(input).path
    BY <2>2, <2>4 DEF DeriveKey, Command
  <2> QED
    BY <2>1, <2>4, <2>5 DEF NewCommandDeriveKey
<1>7. ASSUME Done, Padded(input)
      PROVE  NewCommandDeriveKey = NotBuilt
  <2> SUFFICES ASSUME outcome = "ok" PROVE FALSE
    BY DEF NewCommandDeriveKey
  <2>1. input \in Seq(Char)
    BY InputTyped DEF PathInv
  <2>2. Spaceless(Components(input)[1])
    <3>1. CASE input = <<>>
      <4>1. << <<>> >>[1] = <<>> /\ Len(<<>>) = 0
        OBVIOUS
      <4>2. Components(input)[1] = <<>>
        BY <3>1, <4>1, ListOfNothing
      <4> DEFINE w == Components(input)[1]
      <4>3. Len(w) = 0
        BY <4>1, <4>2
      <4> HIDE DEF w
      <4>4. \A i \in 1..Len(w) : FALSE
        BY <4>3
      <4> QED
        BY <4>4 DEF Spaceless, w
    <3>2. CASE input # <<>>
      BY <3>2 DEF PathInv, DecoderInv, ReadAll
    <3> QED
      BY <3>1, <3>2
  <2> QED
    BY <1>7, <2>1, <2>2, Unpadded
<1> QED
  BY <1>5, <1>6, <1>7 DEF BuildersAgree

\* A builder of commands.go and the call of the command set make the same command
\* of the same path or both make none, for paths of every length, with the
\* exceptions of the empty path, the limit, white space around the first component
\* and a hardened last index.
THEOREM BuildersSafety == DecoderSpec => []BuildersAgree
<1> QED
  BY InvBuildersAgree, DecoderInvariance, PTL

LEMMA InvWritten == PathInv => WrittenReadsBack
<1> SUFFICES ASSUME PathInv, outcome = "ok", Len(path) <= MaxComponents
             PROVE  KeyPathOf(StringOf(start, path)) = [ok |-> TRUE, start |-> start, path |-> path]
  BY DEF WrittenReadsBack
<1> DEFINE s == StringOf(start, path)
           v == Components(s)
           m == Len(path)
           ok == m <= MaxComponents /\ \A k \in 1..m : IsIndex(v[1 + k])
<1>1. start \in DOMAIN Sources /\ path \in Seq(Index32) /\ m \in Nat
  BY InputTyped, LenProperties DEF PathInv, DecoderInv
<1>2. s \in Seq(Char) /\ Len(v) = 1 + m /\ Names(v, 1, start, path)
  BY <1>1, WrittenNames
<1>7. KeyPathOf(s) = AsSpelled(s)
  <2>1. v \in Lists
    BY <1>2, LastComponent
  <2> DEFINE n == 1
             t == <<>>
  <2>2. n \in {0, 1} /\ n = 1 /\ t \in Seq(Char) /\ Len(t) = 0
    BY EmptySeq
  <2>3. \A i \in 1..Len(t) : IsDigit(t[i])
    BY <2>2
  <2> HIDE DEF n, t, s, v, m
  <2>4. Spaceless(v[1])
    <3>1. Len(v) = n + Len(path) /\ Names(v, n, start, path)
      BY <1>2, <2>2 DEF m
    <3> QED
      BY <1>1, <2>1, <2>2, <2>3, <3>1, SpacelessFirst
  <2> QED
    BY <1>2, <2>4, Unpadded DEF v
<1> HIDE DEF s
<1>3. v[1] = Sources[start]
  BY <1>2 DEF Names
<1>4. AsSpelled(s) = [ok |-> ok, start |-> start,
                      path |-> IF ok THEN [k \in 1..m |-> Index(v[1 + k])] ELSE <<>>]
  <2> DEFINE n == 1
  <2>1. n \in {0, 1} /\ n = 1
    OBVIOUS
  <2>2. Len(v) = n + m /\ (n = 1 => v[1] = Sources[start]) /\ (n = 0 => FALSE)
    BY <1>2, <1>3
  <2> HIDE DEF n, m
  <2> DEFINE good == m <= MaxComponents /\ \A k \in 1..m : IsIndex(v[n + k])
  <2>3. AsSpelled(s) = [ok |-> good, start |-> start,
                        path |-> IF good THEN [k \in 1..m |-> Index(v[n + k])] ELSE <<>>]
    BY <1>1, <1>2, <2>1, <2>2, KeyPathIs
  <2> QED
    BY <2>3 DEF n
<1>5. ok
  BY <1>2 DEF Names
<1>6. [k \in 1..m |-> Index(v[1 + k])] = path
  BY <1>1, <1>2, PathIs
<1> HIDE DEF ok, m, v
<1> QED
  BY <1>4, <1>5, <1>6, <1>7 DEF s

\* What String or Encode write of a decoded path reads back as the same path, for
\* every number of indexes of 32 bits up to the limit.
THEOREM WrittenSafety == DecoderSpec => []WrittenReadsBack
<1> QED
  BY InvWritten, DecoderInvariance, PTL

=============================================================================
