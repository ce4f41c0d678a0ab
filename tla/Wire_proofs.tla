---------------------------- MODULE Wire_proofs ----------------------------
(***************************************************************************)
(* Theorems about the two modules that go down to the bytes.  BerTlv: for  *)
(* every base that a byte may have, every document a caller may write and  *)
(* every foreign buffer.  Exchange: for blocks, tags and lengths of any    *)
(* size, all PINs, PUKs and records, and any number of calls.              *)
(***************************************************************************)
EXTENDS BerTlv, Exchange, DataInduction, SequenceTheorems

-----------------------------------------------------------------------------
(* Numbers as bytes *)

LEMMA BaseFacts ==
    /\ Base \in Nat /\ Half \in Nat /\ Base = 2 * Half /\ Half > 4
    /\ Base \in Nat \ {0} /\ Byte = 0..(Base - 1)
BY BaseAssumption DEF BaseAssumption, Half, Byte

LEMMA PowerFacts ==
    /\ Power[0] = 1
    /\ \A k \in Nat \ {0} : Power[k] = Base * Power[k - 1]
    /\ \A k \in Nat : Power[k] \in Nat \ {0}
<1> DEFINE P == Nat \ {0}
           one == 1
           step == [k \in Nat \ {0} |-> [n \in P |-> Base * n]]
           Powers(f) == f = [k \in Nat |-> IF k = 0 THEN 1 ELSE Base * f[k - 1]]
<1>1. \A n \in P : Base * n \in P
  BY BaseFacts
<1>2. step \in StepsOnNat(P) /\ one \in P
  <2>1. step \in [Nat \ {0} -> [P -> P]]
    BY <1>1
  <2> QED
    BY <2>1 DEF StepsOnNat
<1>3. PICK f \in [Nat -> P] : f[0] = one /\ \A k \in Nat \ {0} : f[k] = step[k][f[k - 1]]
  <2> HIDE DEF P, one, step
  <2> QED
    BY <1>2, RecursionOnNat
<1>4. Powers(f)
  <2> SUFFICES ASSUME NEW k \in Nat PROVE f[k] = IF k = 0 THEN 1 ELSE Base * f[k - 1]
    BY <1>3
  <2>1. CASE k = 0
    BY <1>3, <2>1
  <2>2. CASE k # 0
    <3>1. k - 1 \in Nat /\ k \in Nat \ {0}
      BY <2>2
    <3>2. f[k - 1] \in P
      BY <1>3, <3>1
    <3> QED
      BY <1>3, <2>2, <3>1, <3>2
  <2> QED
    BY <2>1, <2>2
<1>5. Powers(Power)
  <2> HIDE DEF Powers
  <2>1. Power = CHOOSE g : Powers(g)
    BY DEF Power, Powers
  <2> QED
    BY <1>4, <2>1
<1>6. Power[0] = 1 /\ \A k \in Nat \ {0} : Power[k] = Base * Power[k - 1]
  BY <1>5
<1>7. Nat \subseteq {k \in Nat : Power[k] \in P}
  <2> DEFINE T == {k \in Nat : Power[k] \in P}
  <2>1. 0 \in T
    BY <1>6
  <2>2. ASSUME NEW k \in Nat, k \in T PROVE k + 1 \in T
    <3>1. Power[k] \in P /\ k + 1 \in Nat \ {0} /\ (k + 1) - 1 = k
      BY <2>2
    <3>2. Power[k + 1] = Base * Power[k]
      BY <1>6, <3>1
    <3> QED
      BY <1>1, <3>1, <3>2
  <2> HIDE DEF T
  <2> QED
    BY <2>1, <2>2, InductionOnNat DEF T
<1> QED
  BY <1>6, <1>7

LEMMA ProductKeepsOrder ==
    ASSUME NEW a \in Int, NEW b \in Int, NEW c \in Nat, a <= b
    PROVE  a * c <= b * c
OBVIOUS

\* The quotient, and when a number is it.
LEMMA Quotient ==
    ASSUME NEW n \in Nat, NEW c \in Nat \ {0}
    PROVE  /\ n \div c \in Nat /\ n % c \in 0..(c - 1)
           /\ n = (n \div c) * c + (n % c)
           /\ \A q \in Nat : q * c <= n /\ n < (q + 1) * c => n \div c = q
OBVIOUS

LEMMA QuotientOfQuotient ==
    ASSUME NEW n \in Nat, NEW b \in Nat \ {0}, NEW c \in Nat \ {0}
    PROVE  n \div (b * c) = (n \div b) \div c
<1> DEFINE m == n \div b
           q == m \div c
<1>1. m \in Nat /\ n = m * b + (n % b) /\ n % b \in 0..(b - 1)
  BY Quotient
<1>2. q \in Nat /\ m = q * c + (m % c) /\ m % c \in 0..(c - 1)
  BY <1>1, Quotient
<1> HIDE DEF m, q
<1>3. b * c \in Nat \ {0}
  OBVIOUS
<1>4. q * c <= m /\ m + 1 <= (q + 1) * c
  BY <1>2
<1>5. m * b <= n /\ n < (m + 1) * b
  BY <1>1
<1>6. q * c \in Nat /\ (q + 1) * c \in Nat
  BY <1>2
<1>7. (q * c) * b <= m * b /\ (m + 1) * b <= ((q + 1) * c) * b
  <2>1. m + 1 \in Nat
    BY <1>1
  <2> QED
    BY <1>1, <1>4, <1>6, <2>1, ProductKeepsOrder
<1>8. (q * c) * b = q * (b * c) /\ ((q + 1) * c) * b = (q + 1) * (b * c)
  BY <1>2
<1>9. q * (b * c) <= n /\ n < (q + 1) * (b * c)
  <2> DEFINE u == q * (b * c)
             v == (q + 1) * (b * c)
             x == m * b
             y == (m + 1) * b
  <2>1. u \in Int /\ v \in Int /\ x \in Int /\ y \in Int
    BY <1>1, <1>2
  <2>2. u <= x /\ y <= v /\ x <= n /\ n < y
    BY <1>5, <1>7, <1>8
  <2> HIDE DEF u, v, x, y
  <2>3. u <= n /\ n < v
    BY <2>1, <2>2
  <2> QED
    BY <2>3 DEF u, v
<1>10. n \div (b * c) = q
  <2> DEFINE p == b * c
  <2>1. p \in Nat \ {0} /\ q * p <= n /\ n < (q + 1) * p
    BY <1>3, <1>9
  <2> HIDE DEF p
  <2>2. n \div p = q
    BY <1>2, <2>1, Quotient
  <2> QED
    BY <2>2 DEF p
<1> QED
  BY <1>10 DEF m, q

LEMMA QuotientBelow ==
    ASSUME NEW n \in Nat, NEW b \in Nat \ {0}, NEW c \in Nat \ {0}, n < b * c
    PROVE  n \div b < c
<1> DEFINE m == n \div b
<1>1. m \in Nat /\ n = m * b + (n % b) /\ n % b \in 0..(b - 1)
  BY Quotient
<1> HIDE DEF m
<1>2. m * b <= n
  BY <1>1
<1>3. ASSUME c <= m PROVE FALSE
  <2>1. c * b <= m * b
    BY <1>1, <1>3, ProductKeepsOrder
  <2> QED
    BY <1>1, <1>2, <2>1
<1> QED
  BY <1>1, <1>3 DEF m

\* All but the last byte are those of the quotient, the last is the remainder.
LEMMA BigEndianType ==
    ASSUME NEW n \in Nat, NEW k \in Nat
    PROVE  BigEndian(n, k) \in Seq(Byte) /\ Len(BigEndian(n, k)) = k
<1>1. \A i \in 1..k : k - i \in Nat
  OBVIOUS
<1>2. ASSUME NEW i \in 1..k PROVE (n \div Power[k - i]) % Base \in Byte
  <2> DEFINE p == Power[k - i]
  <2>1. p \in Nat \ {0}
    BY <1>1, PowerFacts
  <2> HIDE DEF p
  <2>2. n \div p \in Nat
    BY <2>1, Quotient
  <2>3. (n \div p) % Base \in Byte
    BY <2>2, BaseFacts, Quotient
  <2> QED
    BY <2>3 DEF p
<1>3. BigEndian(n, k) \in [1..k -> Byte]
  BY <1>2 DEF BigEndian
<1> QED
  BY <1>3

LEMMA BigEndianOfNext ==
    ASSUME NEW n \in Nat, NEW k \in Nat
    PROVE  BigEndian(n, k + 1) = Append(BigEndian(n \div Base, k), n % Base)
<1> DEFINE m == n \div Base
           long == BigEndian(n, k + 1)
           short == BigEndian(m, k)
           whole == Append(short, n % Base)
<1>1. m \in Nat /\ n % Base \in Byte
  BY BaseFacts, Quotient
<1>2. short \in Seq(Byte) /\ Len(short) = k /\ long \in Seq(Byte) /\ Len(long) = k + 1
  <2>1. k + 1 \in Nat
    OBVIOUS
  <2> HIDE DEF m
  <2> QED
    BY <1>1, <2>1, BigEndianType
<1>3. /\ whole \in Seq(Byte) /\ Len(whole) = k + 1
      /\ \A i \in 1..k : whole[i] = short[i]
      /\ whole[k + 1] = n % Base
  <2> HIDE DEF short
  <2> QED
    BY <1>1, <1>2, AppendProperties
<1>4. ASSUME NEW i \in 1..(k + 1) PROVE long[i] = whole[i]
  <2>1. long[i] = (n \div Power[(k + 1) - i]) % Base
    BY DEF BigEndian
  <2>2. CASE i = k + 1
    <3>1. (k + 1) - i = 0
      BY <2>2
    <3>2. Power[(k + 1) - i] = 1
      BY <3>1, PowerFacts
    <3>3. n \div 1 = n
      OBVIOUS
    <3> HIDE DEF long, whole
    <3> QED
      BY <1>3, <2>1, <2>2, <3>2, <3>3
  <2>3. CASE i # k + 1
    <3>1. i \in 1..k /\ (k + 1) - i \in Nat \ {0} /\ ((k + 1) - i) - 1 = k - i /\ k - i \in Nat
      BY <2>3
    <3> DEFINE p == Power[k - i]
    <3>2. Power[(k + 1) - i] = Base * p /\ p \in Nat \ {0}
      BY <3>1, PowerFacts
    <3>3. short[i] = (m \div p) % Base
      BY <3>1 DEF BigEndian
    <3> HIDE DEF p, short, long, whole
    <3>4. n \div (Base * p) = m \div p
      <4>1. p \in Nat \ {0} /\ Base \in Nat \ {0}
        BY <3>2, BaseFacts
      <4> DEFINE b == Base
      <4>3. b \in Nat \ {0}
        BY <4>1
      <4> HIDE DEF b, m
      <4>2. n \div (b * p) = (n \div b) \div p
        BY <4>1, <4>3, QuotientOfQuotient
      <4> QED
        BY <4>2 DEF b, m
    <3> QED
      BY <1>3, <2>1, <3>1, <3>2, <3>3, <3>4
  <2> QED
    BY <2>2, <2>3
<1> HIDE DEF long, whole
<1>5. long = whole
  BY <1>2, <1>3, <1>4, SeqEqual
<1> QED
  BY <1>5 DEF long, whole

\* FromBytes, position by position.
LEMMA NumberSteps ==
    ASSUME NEW bytes \in Seq(Byte)
    PROVE  \E f \in [0..Len(bytes) -> Nat] :
              /\ f[0] = 0
              /\ \A k \in 1..Len(bytes) : f[k] = Base * f[k - 1] + bytes[k]
              /\ FromBytes(bytes) = f[Len(bytes)]
<1> DEFINE n == Len(bytes)
           V == Nat
           zero == 0
           step == [k \in 1..n |-> [v \in V |-> Base * v + bytes[k]]]
           Folded(h) == h = [s \in SUBSET (DOMAIN bytes) |->
               IF s = {} THEN 0 ELSE Base * h[s \ {Max(s)}] + bytes[Max(s)]]
<1>1. n \in Nat /\ DOMAIN bytes = 1..n /\ (\A k \in 1..n : bytes[k] \in Byte) /\ zero \in V
  BY LenProperties, ElementOfSeq, EmptySeq
<1>2. \A k \in 1..n, v \in V : Base * v + bytes[k] \in V
  BY <1>1, BaseFacts
<1>3. step \in Steps(n, V)
  <2>1. step \in [1..n -> [V -> V]]
    BY <1>2
  <2> QED
    BY <2>1 DEF Steps
<1>4. PICK g \in [SUBSET (1..n) -> V] :
         \A s \in SUBSET (1..n) : g[s] = IF s = {} THEN zero ELSE step[Max(s)][g[s \ {Max(s)}]]
  <2> HIDE DEF n, V, zero, step
  <2>1. Foldings(n, V, zero, step) # {}
    BY <1>1, <1>3, FoldingExists
  <2> QED
    BY <2>1 DEF Foldings
<1>5. Folded(g)
  <2>1. ASSUME NEW s \in SUBSET (1..n)
        PROVE  g[s] = IF s = {} THEN zero ELSE Base * g[s \ {Max(s)}] + bytes[Max(s)]
    <3>1. CASE s = {}
      BY <1>4, <3>1
    <3>2. CASE s # {}
      <4>1. Max(s) \in 1..n /\ s \ {Max(s)} \in SUBSET (1..n)
        BY <1>1, <3>2, GreatestOfSubset
      <4>2. g[s \ {Max(s)}] \in V
        BY <4>1
      <4> HIDE DEF V
      <4>3. step[Max(s)][g[s \ {Max(s)}]] = Base * g[s \ {Max(s)}] + bytes[Max(s)]
        BY <4>1, <4>2
      <4> QED
        BY <1>4, <3>2, <4>3
    <3> QED
      BY <3>1, <3>2
  <2> HIDE DEF step, n, V
  <2> QED
    BY <1>1, <2>1
<1>6. PICK h : Folded(h) /\ FromBytes(bytes) = h[DOMAIN bytes]
  BY <1>5 DEF FromBytes, FoldLeft, MapThenFoldSet
<1>7. h[{}] = zero
  BY <1>1, <1>6
<1>8. ASSUME NEW k \in 1..n PROVE h[1..k] = Base * h[1..(k - 1)] + bytes[k]
  <2>3. k \in Nat /\ k # 0 /\ k \in 1..k /\ k <= n
    BY <1>1
  <2>1. k \in Nat /\ k # 0 /\ 1..k # {} /\ 1..k \in SUBSET (1..n)
    <3>1. 1..k # {}
      BY <2>3
    <3>2. \A y \in 1..k : y \in 1..n
      BY <1>1, <2>3
    <3> QED
      BY <2>3, <3>1, <3>2
  <2>2. Max(1..k) = k /\ 1..k \ {k} = 1..(k - 1)
    BY <2>1, GreatestOfInterval
  <2> HIDE DEF n
  <2> QED
    BY <1>1, <1>6, <2>1, <2>2
<1> DEFINE f == [k \in 0..n |-> h[1..k]]
<1>9. f \in [0..n -> V]
  <2>1. \A k \in 1..n : h[1..(k - 1)] \in V => h[1..k] \in V
    BY <1>2, <1>8
  <2> HIDE DEF n, V, zero
  <2> QED
    BY <1>1, <1>7, <2>1, FoldSteps
<1>10. f[0] = zero /\ f[n] = h[1..n]
  <2>1. 1..0 = {} /\ 0 \in 0..n /\ n \in 0..n
    BY <1>1
  <2> HIDE DEF n, zero
  <2> QED
    BY <1>7, <2>1
<1>11. ASSUME NEW k \in 1..n PROVE f[k] = Base * f[k - 1] + bytes[k]
  <2>1. k \in 0..n /\ k - 1 \in 0..n
    BY <1>1
  <2> HIDE DEF n
  <2> QED
    BY <1>8, <2>1
<1> HIDE DEF f
<1> QED
  BY <1>1, <1>6, <1>9, <1>10, <1>11

\* The number with one more byte.
LEMMA NumberOfAppend ==
    ASSUME NEW s \in Seq(Byte), NEW b \in Byte
    PROVE  /\ FromBytes(s) \in Nat /\ FromBytes(<<>>) = 0
           /\ FromBytes(Append(s, b)) = Base * FromBytes(s) + b
<1> DEFINE n == Len(s)
           a == Append(s, b)
<1>1. /\ n \in Nat /\ a \in Seq(Byte) /\ Len(a) = n + 1
      /\ \A k \in 1..n : a[k] = s[k]
      /\ a[n + 1] = b
  BY LenProperties, AppendProperties
<1> HIDE DEF a
<1>2. PICK f \in [0..n -> Nat] :
         f[0] = 0 /\ (\A k \in 1..n : f[k] = Base * f[k - 1] + s[k]) /\ FromBytes(s) = f[n]
  BY NumberSteps
<1>3. PICK g \in [0..(n + 1) -> Nat] :
         g[0] = 0 /\ (\A k \in 1..(n + 1) : g[k] = Base * g[k - 1] + a[k]) /\ FromBytes(a) = g[n + 1]
  BY <1>1, NumberSteps
<1> HIDE DEF n
<1>4. g[n] = f[n]
  <2> DEFINE T == {k \in 0..n : g[k] = f[k]}
  <2>1. 0 \in T
    BY <1>1, <1>2, <1>3
  <2>2. ASSUME NEW k \in 1..n, k - 1 \in T PROVE k \in T
    <3>1. k \in 0..n /\ k \in 1..(n + 1) /\ a[k] = s[k]
      BY <1>1
    <3>4. g[k - 1] = f[k - 1]
      BY <2>2
    <3>2. f[k] = Base * f[k - 1] + s[k]
      BY <1>2
    <3>3. g[k] = Base * g[k - 1] + a[k]
      BY <1>3, <3>1
    <3> QED
      BY <3>1, <3>2, <3>3, <3>4
  <2> HIDE DEF T
  <2>3. 0..n \subseteq T
    BY <1>1, <2>1, <2>2, InductionUpTo
  <2>4. n \in T
    BY <1>1, <2>3
  <2> QED
    BY <2>4 DEF T
<1>5. g[n + 1] = Base * g[n] + a[n + 1]
  <2>1. n + 1 \in 1..(n + 1) /\ (n + 1) - 1 = n
    BY <1>1
  <2> QED
    BY <1>3, <2>1
<1>6. FromBytes(s) \in Nat
  BY <1>1, <1>2
<1>7. FromBytes(<<>>) = 0
  <2> DEFINE none == <<>>
  <2>1. none \in Seq(Byte) /\ Len(none) = 0
    BY EmptySeq
  <2> HIDE DEF none
  <2>2. FromBytes(none) = 0
    BY <2>1, NumberSteps
  <2> QED
    BY <2>2 DEF none
<1> QED
  BY <1>1, <1>2, <1>3, <1>4, <1>5, <1>6, <1>7 DEF a

LEMMA ConcatOfAppend ==
    ASSUME NEW S, NEW s \in Seq(S), NEW t \in Seq(S), NEW e \in S
    PROVE  s \o Append(t, e) = Append(s \o t, e)
<1> DEFINE a == Append(t, e)
           u == s \o t
           v == s \o a
           w == Append(u, e)
           n == Len(s)
           m == Len(t)
<1>1. n \in Nat /\ m \in Nat
  BY LenProperties
<1>2. /\ a \in Seq(S) /\ Len(a) = m + 1
      /\ \A i \in 1..m : a[i] = t[i]
      /\ a[m + 1] = e
  BY AppendProperties
<1>3. /\ u \in Seq(S) /\ Len(u) = n + m
      /\ \A i \in 1..(n + m) : u[i] = IF i <= n THEN s[i] ELSE t[i - n]
  BY ConcatProperties
<1> HIDE DEF a, u
<1>4. /\ v \in Seq(S) /\ Len(v) = n + Len(a)
      /\ \A i \in 1..(n + Len(a)) : v[i] = IF i <= n THEN s[i] ELSE a[i - n]
  BY <1>2, ConcatProperties
<1>5. /\ w \in Seq(S) /\ Len(w) = Len(u) + 1
      /\ \A i \in 1..Len(u) : w[i] = u[i]
      /\ w[Len(u) + 1] = e
  <2>1. u \in Seq(S)
    BY <1>3
  <2>2. w \in Seq(S) /\ Len(w) = Len(u) + 1
    BY <2>1, AppendProperties
  <2>3. \A i \in 1..Len(u) : w[i] = u[i]
    BY <2>1, AppendProperties
  <2>4. w[Len(u) + 1] = e
    BY <2>1, AppendProperties
  <2> QED
    BY <2>2, <2>3, <2>4
<1> HIDE DEF v, w, n, m
<1>6. Len(v) = (n + m) + 1 /\ Len(w) = (n + m) + 1
  <2>1. Len(v) = n + (m + 1)
    BY <1>2, <1>4, Zenon
  <2>2. Len(w) = (n + m) + 1
    BY <1>3, <1>5, Zenon
  <2> QED
    BY <1>1, <2>1, <2>2
<1>7. ASSUME NEW i \in 1..((n + m) + 1) PROVE v[i] = w[i]
  <2>1. i \in 1..(n + Len(a)) /\ Len(u) = n + m
    BY <1>1, <1>2, <1>3
  <2>2. v[i] = IF i <= n THEN s[i] ELSE a[i - n]
    BY <1>4, <2>1
  <2>3. CASE i = (n + m) + 1
    <3>1. ~(i <= n) /\ i - n = m + 1 /\ i = Len(u) + 1
      BY <1>1, <2>1, <2>3
    <3> QED
      BY <1>2, <1>5, <2>2, <3>1
  <2>4. CASE i # (n + m) + 1
    <3>1. i \in 1..(n + m) /\ i \in 1..Len(u)
      BY <1>1, <2>1, <2>4
    <3>2. w[i] = u[i] /\ u[i] = IF i <= n THEN s[i] ELSE t[i - n]
      BY <1>3, <1>5, <3>1
    <3>3. ASSUME ~(i <= n) PROVE a[i - n] = t[i - n]
      <4>1. i - n \in 1..m
        BY <1>1, <3>1, <3>3
      <4> QED
        BY <1>2, <4>1
    <3> QED
      BY <2>2, <3>2, <3>3
  <2> QED
    BY <2>3, <2>4
<1>8. v = w
  BY <1>4, <1>5, <1>6, <1>7, SeqEqual
<1> QED
  BY <1>8 DEF v, w, a, u

LEMMA NumberOfNothing == FromBytes(<<>>) = 0
<1>1. 0 \in Byte
  BY BaseFacts
<1>2. PICK b : b \in Byte
  BY <1>1
<1> DEFINE none == <<>>
<1>3. none \in Seq(Byte)
  BY EmptySeq
<1> HIDE DEF none
<1> QED
  BY <1>2, <1>3, NumberOfAppend

LEMMA NumberType ==
    ASSUME NEW s \in Seq(Byte)
    PROVE  FromBytes(s) \in Nat
<1>1. 0 \in Byte
  BY BaseFacts
<1>2. PICK b : b \in Byte
  BY <1>1
<1> QED
  BY <1>2, NumberOfAppend

LEMMA NumberOfBytes ==
    ASSUME NEW n \in Nat, NEW k \in Nat, n < Power[k]
    PROVE  FromBytes(BigEndian(n, k)) = n
<1> DEFINE Reads(m, j) == FromBytes(BigEndian(m, j)) = m
           T == {j \in Nat : \A m \in Nat : m < Power[j] => Reads(m, j)}
<1>1. 0 \in T
  <2> SUFFICES ASSUME NEW m \in Nat, m < Power[0] PROVE Reads(m, 0)
    OBVIOUS
  <2>1. m = 0
    BY PowerFacts
  <2>2. BigEndian(m, 0) = <<>>
    <3>1. BigEndian(m, 0) \in Seq(Byte) /\ Len(BigEndian(m, 0)) = 0
      <4>1. 0 \in Nat
        OBVIOUS
      <4> DEFINE none == 0
      <4>2. none \in Nat
        OBVIOUS
      <4> HIDE DEF none
      <4>3. BigEndian(m, none) \in Seq(Byte) /\ Len(BigEndian(m, none)) = none
        BY <4>2, BigEndianType
      <4> QED
        BY <4>3 DEF none
    <3> DEFINE s == BigEndian(m, 0)
    <3> HIDE DEF s
    <3>2. s \in Seq(Byte) /\ Len(s) = 0
      BY <3>1 DEF s
    <3>3. s = <<>>
      BY <3>2, EmptySeq
    <3> QED
      BY <3>3 DEF s
  <2>3. FromBytes(<<>>) = 0
    BY BaseFacts, NumberOfNothing
  <2> QED
    BY <2>1, <2>2, <2>3
<1>2. ASSUME NEW j \in Nat, j \in T PROVE j + 1 \in T
  <2> SUFFICES ASSUME NEW m \in Nat, m < Power[j + 1] PROVE Reads(m, j + 1)
    OBVIOUS
  <2> DEFINE q == m \div Base
             r == m % Base
             s == BigEndian(q, j)
  <2>1. q \in Nat /\ r \in Byte /\ m = q * Base + r
    BY BaseFacts, Quotient
  <2>2. q < Power[j]
    <3> DEFINE p == Power[j]
               b == Base
    <3>1. j \in Nat /\ j + 1 \in Nat \ {0} /\ (j + 1) - 1 = j
      OBVIOUS
    <3>2. m < b * p /\ p \in Nat \ {0} /\ b \in Nat \ {0}
      BY <3>1, PowerFacts, BaseFacts
    <3> HIDE DEF p, b, q
    <3>3. m \div b < p
      BY <3>2, QuotientBelow
    <3> QED
      BY <3>3 DEF p, b, q
  <2> HIDE DEF q, r
  <2>3. s \in Seq(Byte) /\ FromBytes(s) = q
    <3>1. Reads(q, j)
      BY <1>2, <2>1, <2>2
    <3> QED
      BY <2>1, <3>1, BigEndianType
  <2>4. BigEndian(m, j + 1) = Append(s, r)
    BY BigEndianOfNext DEF q, r
  <2> HIDE DEF s
  <2>5. FromBytes(Append(s, r)) = Base * FromBytes(s) + r
    BY <2>1, <2>3, NumberOfAppend
  <2>6. Base * q + r = m
    BY <2>1, BaseFacts
  <2> QED
    BY <2>3, <2>4, <2>5, <2>6
<1>3. Nat \subseteq T
  <2> HIDE DEF T
  <2> QED
    BY <1>1, <1>2, InductionOnNat
<1> QED
  BY <1>3

\* Zeroes in front change nothing.
LEMMA NumberOfZeroes ==
    ASSUME NEW s \in Seq({0})
    PROVE  s \in Seq(Byte) /\ FromBytes(s) = 0
<1> DEFINE T == {t \in Seq({0}) : FromBytes(t) = 0}
<1>1. \A t \in Seq({0}) : t \in Seq(Byte)
  <2>1. {0} \subseteq Byte
    BY BaseFacts
  <2> QED
    BY <2>1, SeqMonotonic
<1>2. <<>> \in T
  BY NumberOfNothing, EmptySeq
<1>3. ASSUME NEW t \in Seq({0}), NEW e \in {0}, t \in T PROVE Append(t, e) \in T
  <2>1. t \in Seq(Byte) /\ e \in Byte /\ e = 0
    BY <1>1, BaseFacts
  <2>2. FromBytes(Append(t, e)) = Base * FromBytes(t) + e
    BY <2>1, NumberOfAppend
  <2>3. FromBytes(t) = 0
    BY <1>3
  <2>4. Append(t, e) \in Seq({0})
    BY AppendProperties
  <2> QED
    BY <2>1, <2>2, <2>3, <2>4, BaseFacts
<1>4. Seq({0}) \subseteq T
  <2> HIDE DEF T
  <2> QED
    BY <1>2, <1>3, InductionOnSeq
<1> QED
  BY <1>1, <1>4

LEMMA LeadingZeroes ==
    ASSUME NEW s \in Seq({0}), NEW t \in Seq(Byte)
    PROVE  FromBytes(s \o t) = FromBytes(t)
<1> DEFINE T == {u \in Seq(Byte) : FromBytes(s \o u) = FromBytes(u)}
<1>1. s \in Seq(Byte) /\ FromBytes(s) = 0
  BY NumberOfZeroes
<1>2. <<>> \in T
  <2>1. s \o <<>> = s
    BY <1>1, ConcatEmptySeq
  <2>2. FromBytes(s \o <<>>) = FromBytes(s)
    BY <2>1
  <2> QED
    BY <1>1, <2>2, NumberOfNothing, EmptySeq
<1>3. ASSUME NEW u \in Seq(Byte), NEW e \in Byte, u \in T PROVE Append(u, e) \in T
  <2>1. s \o Append(u, e) = Append(s \o u, e) /\ s \o u \in Seq(Byte) /\ Append(u, e) \in Seq(Byte)
    BY <1>1, ConcatOfAppend, ConcatProperties, AppendProperties
  <2> DEFINE w == s \o u
  <2>2. FromBytes(w) = FromBytes(u)
    BY <1>3
  <2>3. w \in Seq(Byte) /\ s \o Append(u, e) = Append(w, e)
    BY <2>1
  <2> HIDE DEF w
  <2>4. FromBytes(Append(w, e)) = Base * FromBytes(w) + e
    BY <2>3, NumberOfAppend
  <2>5. FromBytes(Append(u, e)) = Base * FromBytes(u) + e
    BY NumberOfAppend
  <2>6. FromBytes(s \o Append(u, e)) = FromBytes(Append(u, e))
    BY <2>2, <2>3, <2>4, <2>5
  <2> QED
    BY <2>1, <2>6
<1>4. Seq(Byte) \subseteq T
  <2> HIDE DEF T
  <2> QED
    BY <1>2, <1>3, InductionOnSeq
<1> QED
  BY <1>4

-----------------------------------------------------------------------------
(* Parts of a buffer *)

\* A buffer that is x and then y from some position on, and what is where in it.
Follow(buf, at, x, y) ==
    /\ at \in 0..Len(buf) /\ x \in Seq(Byte) /\ y \in Seq(Byte)
    /\ SubSeq(buf, at + 1, Len(buf)) = x \o y
Parted(buf, at, x, y) ==
    /\ at + Len(x) \in 0..Len(buf)
    /\ Len(buf) = (at + Len(x)) + Len(y)
    /\ \A i \in 1..Len(x) : buf[at + i] = x[i]
    /\ SubSeq(buf, at + 1, at + Len(x)) = x
    /\ SubSeq(buf, (at + Len(x)) + 1, Len(buf)) = y
LEMMA Parts ==
    ASSUME NEW s \in Seq(Byte), NEW p, NEW x, NEW y, Follow(s, p, x, y)
    PROVE  Parted(s, p, x, y)
<1> DEFINE S == Byte
<1>0. /\ s \in Seq(S) /\ x \in Seq(S) /\ y \in Seq(S)
      /\ p \in 0..Len(s) /\ SubSeq(s, p + 1, Len(s)) = x \o y
  BY DEF Follow
<1> HIDE DEF S
<1> DEFINE n == Len(s)
           a == Len(x)
           b == Len(y)
           t == SubSeq(s, p + 1, n)
           z == x \o y
<1>1. n \in Nat /\ a \in Nat /\ b \in Nat /\ p \in 0..n
  BY <1>0, LenProperties
<1>2. t \in Seq(S) /\ Len(t) = n - p /\ \A i \in 1..(n - p) : t[i] = s[p + i]
  BY <1>0, SuffixProperties
<1>3. z \in Seq(S) /\ Len(z) = a + b /\ \A i \in 1..(a + b) : z[i] = IF i <= a THEN x[i] ELSE y[i - a]
  BY <1>0, ConcatProperties
<1>4. t = z
  BY <1>0
<1>5. \A i \in 1..n : s[i] \in S
  BY <1>0, ElementOfSeq
<1> DEFINE q == p + a
<1> HIDE DEF t, z
<1>6. n = q + b /\ q \in 0..n /\ n - p = a + b
  BY <1>1, <1>2, <1>3, <1>4
<1>7. ASSUME NEW i \in 1..a PROVE s[p + i] = x[i]
  <2>1. i \in 1..(a + b) /\ i <= a
    BY <1>1
  <2>2. t[i] = s[p + i] /\ z[i] = x[i]
    BY <1>2, <1>3, <1>6, <2>1
  <2> QED
    BY <1>4, <2>2
<1>8. ASSUME NEW i \in 1..b PROVE s[q + i] = y[i]
  <2>1. a + i \in 1..(a + b) /\ ~(a + i <= a) /\ (a + i) - a = i /\ p + (a + i) = q + i
    BY <1>1
  <2> DEFINE j == a + i
  <2>2. j \in 1..(a + b) /\ ~(j <= a) /\ j - a = i /\ p + j = q + i
    BY <2>1
  <2> HIDE DEF j, q
  <2>3. t[j] = s[p + j] /\ z[j] = y[j - a]
    BY <1>2, <1>3, <1>6, <2>2
  <2> QED
    BY <1>4, <2>2, <2>3
<1>9. SubSeq(s, p + 1, q) = x
  <2> DEFINE u == SubSeq(s, p + 1, q)
             m == p + 1
  <2>1. m \in Int /\ q \in Int /\ \A i \in m..q : i \in 1..n
    BY <1>1, <1>6
  <2>2. \A i \in m..q : s[i] \in S
    BY <1>5, <2>1
  <2> HIDE DEF m, q
  <2>3. /\ SubSeq(s, m, q) \in Seq(S)
        /\ Len(SubSeq(s, m, q)) = IF m <= q THEN q - m + 1 ELSE 0
        /\ \A i \in 1..(q - m + 1) : SubSeq(s, m, q)[i] = s[m + i - 1]
    BY <2>1, <2>2, SubSeqProperties
  <2>4. u \in Seq(S) /\ (\A i \in 1..(q - m + 1) : u[i] = s[m + i - 1])
    BY <2>3 DEF m
  <2>5. Len(u) = IF m <= q THEN q - m + 1 ELSE 0
    BY <2>3 DEF m
  <2> HIDE DEF u
  <2>6. Len(u) = a /\ q - m + 1 = a
    BY <1>1, <2>5 DEF m, q
  <2>7. ASSUME NEW i \in 1..a PROVE u[i] = x[i]
    <3>1. m + i - 1 = p + i
      BY <1>1 DEF m
    <3>2. i \in 1..(q - m + 1)
      BY <2>6
    <3> QED
      BY <1>7, <2>4, <3>1, <3>2
  <2>8. u = x
    BY <1>0, <2>4, <2>6, <2>7, SeqEqual
  <2> QED
    BY <2>8 DEF u
<1>10. SubSeq(s, q + 1, n) = y
  <2> DEFINE u == SubSeq(s, q + 1, n)
  <2>1. q \in 0..Len(s)
    BY <1>6
  <2> HIDE DEF q
  <2>2. u \in Seq(S) /\ Len(u) = n - q /\ \A i \in 1..(n - q) : u[i] = s[q + i]
    BY <1>0, <2>1, SuffixProperties
  <2>3. n - q = b
    BY <1>1, <1>6 DEF q
  <2> HIDE DEF u, n
  <2>4. u = y
    BY <1>0, <1>8, <2>2, <2>3, SeqEqual
  <2> QED
    BY <2>4 DEF u
<1> QED
  BY <1>6, <1>7, <1>9, <1>10 DEF Parted

LEMMA BytesAssociative ==
    \A x, y, z \in Seq(Byte) : (x \o y) \o z = x \o (y \o z)
BY ConcatAssociative

\* Any part of a buffer.
LEMMA PartType ==
    ASSUME NEW buf \in Seq(Byte), NEW i \in 1..Len(buf) + 1, NEW j \in 0..Len(buf)
    PROVE  SubSeq(buf, i, j) \in Seq(Byte)
<1>1. Len(buf) \in Nat /\ \A k \in 1..Len(buf) : buf[k] \in Byte
  BY LenProperties, ElementOfSeq
<1>2. i \in Int /\ j \in Int /\ \A k \in i..j : k \in 1..Len(buf)
  BY <1>1
<1> QED
  BY <1>1, <1>2, SubSeqProperties

-----------------------------------------------------------------------------
(* Lengths *)

LEMMA LengthForm ==
    ASSUME NEW n \in Nat, n < Power[4]
    PROVE  \/ n < Half /\ EncodeBerLength(n) = <<n>>
           \/ ~(n < Half) /\ \E k \in 1..4 : /\ n < Power[k]
                                             /\ EncodeBerLength(n) = <<Half + k>> \o BigEndian(n, k)
<1> DEFINE Fits(k) == n < Power[k] /\ (k = 1 \/ n >= Power[k - 1])
           some == CHOOSE k \in 1..4 : Fits(k)
<1>1. \E k \in 1..4 : Fits(k)
  <2>1. Power[1] \in Nat /\ Power[2] \in Nat /\ Power[3] \in Nat
    BY PowerFacts
  <2>2. CASE n < Power[1]
    BY <2>2
  <2>3. CASE ~(n < Power[1]) /\ n < Power[2]
    BY <2>1, <2>3
  <2>4. CASE ~(n < Power[2]) /\ n < Power[3]
    BY <2>1, <2>4
  <2>5. CASE ~(n < Power[3])
    BY <2>1, <2>5
  <2> QED
    BY <2>2, <2>3, <2>4, <2>5
<1>2. some \in 1..4 /\ Fits(some)
  <2> HIDE DEF Fits
  <2> QED
    BY <1>1
<1>3. ASSUME ~(n < Half) PROVE EncodeBerLength(n) = <<Half + some>> \o BigEndian(n, some)
  BY <1>3 DEF EncodeBerLength
<1>4. ASSUME n < Half PROVE EncodeBerLength(n) = <<n>>
  BY <1>4 DEF EncodeBerLength
<1> HIDE DEF some
<1> QED
  BY <1>2, <1>3, <1>4

\* One byte.
LEMMA OneByte ==
    ASSUME NEW S, NEW b \in S
    PROVE  <<b>> \in Seq(S) /\ Len(<<b>>) = 1 /\ <<b>>[1] = b
OBVIOUS

LEMMA LengthType ==
    ASSUME NEW n \in Nat, n < Power[4]
    PROVE  EncodeBerLength(n) \in Seq(Byte) /\ Len(EncodeBerLength(n)) \in Nat
<1>1. CASE n < Half /\ EncodeBerLength(n) = <<n>>
  <2>1. n \in Byte
    BY <1>1, BaseFacts
  <2>2. <<n>> \in Seq(Byte) /\ Len(<<n>>) = 1
    BY <2>1, OneByte
  <2> QED
    BY <1>1, <2>2
<1>2. ASSUME NEW k \in 1..4, EncodeBerLength(n) = <<Half + k>> \o BigEndian(n, k)
      PROVE  EncodeBerLength(n) \in Seq(Byte)
  <2>1. Half + k \in Byte /\ k \in Nat
    BY BaseFacts
  <2>2. <<Half + k>> \in Seq(Byte)
    BY <2>1, OneByte
  <2>3. BigEndian(n, k) \in Seq(Byte)
    BY <2>1, BigEndianType
  <2> QED
    BY <1>2, <2>2, <2>3, ConcatProperties
<1> QED
  BY <1>1, <1>2, LengthForm, LenProperties

\* The length that the writer wrote is read, and what is behind it is left.
LEMMA LengthReadBack ==
    ASSUME NEW buf \in Seq(Byte), NEW off, NEW n \in Nat, NEW rest,
           n < Power[4], Follow(buf, off, EncodeBerLength(n), rest)
    PROVE  /\ DecodeBerLength(buf, off)
                = [ok |-> TRUE, value |-> n, next |-> off + Len(EncodeBerLength(n))]
           /\ off + Len(EncodeBerLength(n)) \in 0..Len(buf)
           /\ SubSeq(buf, (off + Len(EncodeBerLength(n))) + 1, Len(buf)) = rest
<1> DEFINE e == EncodeBerLength(n)
           first == buf[off + 1]
           end == off + Len(e)
<1>1. e \in Seq(Byte) /\ Len(e) \in Nat
  BY LengthType
<1>2. Follow(buf, off, e, rest)
  OBVIOUS
<1>0. off \in 0..Len(buf) /\ rest \in Seq(Byte) /\ SubSeq(buf, off + 1, Len(buf)) = e \o rest
  BY DEF Follow
<1>3. Len(buf) \in Nat /\ off \in Nat
  BY <1>0, LenProperties
<1> HIDE DEF e
<1>4. /\ end \in 0..Len(buf)
      /\ SubSeq(buf, end + 1, Len(buf)) = rest
      /\ \A i \in 1..Len(e) : buf[off + i] = e[i]
  <2>1. Parted(buf, off, e, rest)
    BY <1>2, Parts
  <2> QED
    BY <2>1 DEF Parted
<1>5. CASE n < Half /\ e = <<n>>
  <2>1. Len(e) = 1 /\ e[1] = n
    BY <1>5, OneByte
  <2>2. first = n /\ end = off + 1 /\ end <= Len(buf)
    <3>1. 1 \in 1..Len(e)
      BY <2>1
    <3> DEFINE j == 1
    <3>2. j \in 1..Len(e) /\ j = 1
      BY <3>1
    <3> HIDE DEF j
    <3>3. buf[off + j] = e[j]
      BY <1>4, <3>2
    <3> QED
      BY <1>4, <2>1, <3>2, <3>3
  <2>3. ~(off >= Len(buf)) /\ first # Half /\ ~(first - Half > 4) /\ first < Half
        /\ ~(off + 1 + (first - Half) > Len(buf))
    <3> HIDE DEF first, end
    <3> QED
      BY <1>3, <1>5, <2>2, BaseFacts
  <2> HIDE DEF first
  <2>4. DecodeBerLength(buf, off) = [ok |-> TRUE, value |-> first, next |-> off + 1]
    BY <2>3 DEF DecodeBerLength, first
  <2> QED
    BY <1>4, <2>2, <2>4 DEF e
<1>6. ASSUME NEW k \in 1..4, n < Power[k], e = <<Half + k>> \o BigEndian(n, k)
      PROVE  DecodeBerLength(buf, off) = [ok |-> TRUE, value |-> n, next |-> end]
  <2> DEFINE a == <<Half + k>>
             b == BigEndian(n, k)
             br == b \o rest
  <2>1. k \in Nat /\ Half + k \in Byte /\ Half \in Nat
    BY BaseFacts
  <2>2. a \in Seq(Byte) /\ Len(a) = 1 /\ a[1] = Half + k
    BY <2>1, OneByte
  <2>3. b \in Seq(Byte) /\ Len(b) = k /\ FromBytes(b) = n
    BY <1>6, <2>1, BigEndianType, NumberOfBytes
  <2> HIDE DEF a, b
  <2>4. br \in Seq(Byte) /\ SubSeq(buf, off + 1, Len(buf)) = a \o br
    <3>1. e = a \o b
      BY <1>6 DEF a, b
    <3>2. (a \o b) \o rest = a \o (b \o rest)
      <4>1. a \in Seq(Byte) /\ b \in Seq(Byte)
        BY <2>2, <2>3
      <4> QED
        BY <1>0, <4>1, BytesAssociative
    <3>3. br \in Seq(Byte)
      BY <1>0, <2>3, ConcatProperties
    <3> QED
      BY <1>0, <3>1, <3>2, <3>3
  <2> HIDE DEF br
  <2> DEFINE at == off + 1
  <2>5. /\ off + Len(a) \in 0..Len(buf)
        /\ \A i \in 1..Len(a) : buf[off + i] = a[i]
        /\ SubSeq(buf, (off + Len(a)) + 1, Len(buf)) = br
    <3>1. Follow(buf, off, a, br)
      BY <1>0, <2>2, <2>4 DEF Follow
    <3>2. Parted(buf, off, a, br)
      BY <3>1, Parts
    <3> QED
      BY <3>2 DEF Parted
  <2>6. at \in 0..Len(buf) /\ SubSeq(buf, at + 1, Len(buf)) = b \o rest
    BY <2>2, <2>5 DEF br
  <2>7. first = Half + k
    <3> DEFINE j == 1
    <3>2. j \in 1..Len(a) /\ j = 1
      BY <2>2
    <3> HIDE DEF j
    <3>3. buf[off + j] = a[j]
      BY <2>5, <3>2
    <3> QED
      BY <2>2, <3>2, <3>3
  <2> HIDE DEF at
  <2>8. at + Len(b) \in 0..Len(buf) /\ SubSeq(buf, at + 1, at + Len(b)) = b
    <3>1. Follow(buf, at, b, rest)
      BY <1>0, <2>3, <2>6 DEF Follow
    <3>2. Parted(buf, at, b, rest)
      BY <3>1, Parts
    <3> QED
      BY <3>2 DEF Parted
  <2>9. end = at + k
    <3>1. Len(e) = Len(a) + Len(b)
      BY <1>6, <2>2, <2>3, ConcatProperties DEF a, b
    <3> QED
      BY <1>3, <2>1, <2>2, <2>3, <3>1 DEF at
  <2> HIDE DEF first
  <2>10. /\ ~(off >= Len(buf)) /\ first # Half /\ first - Half = k /\ ~(first < Half)
         /\ ~(first - Half > 4) /\ ~(off + 1 + (first - Half) > Len(buf))
    BY <1>3, <2>1, <2>3, <2>6, <2>7, <2>8 DEF at
  <2>11. DecodeBerLength(buf, off)
           = [ok |-> TRUE, value |-> FromBytes(SubSeq(buf, off + 2, off + 1 + k)), next |-> off + 1 + k]
    BY <2>10 DEF DecodeBerLength, first
  <2>12. off + 2 = at + 1 /\ off + 1 + k = at + k
    BY <1>3, <2>1 DEF at
  <2> HIDE DEF end
  <2> QED
    BY <2>3, <2>8, <2>9, <2>11, <2>12
<1>7. DecodeBerLength(buf, off) = [ok |-> TRUE, value |-> n, next |-> end]
  <2>1. ASSUME n < Half /\ e = <<n>> PROVE DecodeBerLength(buf, off) = [ok |-> TRUE, value |-> n, next |-> end]
    <3>1. Len(e) = 1
      BY <2>1, OneByte
    <3> QED
      BY <1>5, <2>1 DEF e
  <2>2. \/ n < Half /\ e = <<n>>
        \/ \E k \in 1..4 : n < Power[k] /\ e = <<Half + k>> \o BigEndian(n, k)
    BY LengthForm DEF e
  <2> HIDE DEF end
  <2> QED
    BY <1>6, <2>1, <2>2
<1> QED
  BY <1>4, <1>7 DEF e

\* On any bytes, a length that is read is a number and ends in the buffer.
LEMMA DecodedType ==
    ASSUME NEW buf \in Seq(Byte), NEW off \in 0..Len(buf)
    PROVE  /\ DecodeBerLength(buf, off).ok \in BOOLEAN
           /\ DecodeBerLength(buf, off).ok => /\ DecodeBerLength(buf, off).next \in 0..Len(buf)
                                              /\ DecodeBerLength(buf, off).value \in Nat
<1> DEFINE first == buf[off + 1]
           k == first - Half
           refused == off >= Len(buf) \/ first = Half \/ k > 4 \/ off + 1 + k > Len(buf)
           d == DecodeBerLength(buf, off)
<1>1. Len(buf) \in Nat /\ off \in Nat
  BY LenProperties
<1>2. CASE refused
  <2> HIDE DEF refused, first, k
  <2>1. d = [ok |-> FALSE, value |-> 0, next |-> off]
    BY <1>2 DEF DecodeBerLength, refused, first, k
  <2> QED
    BY <2>1
<1>3. CASE ~refused
  <2>1. off + 1 \in 1..Len(buf)
    BY <1>1, <1>3
  <2>2. first \in Nat /\ Half \in Nat
    <3>1. first \in Byte
      BY <2>1, ElementOfSeq
    <3> HIDE DEF first
    <3> QED
      BY <3>1, BaseFacts
  <2>3. CASE first < Half
    <3>1. d = [ok |-> TRUE, value |-> first, next |-> off + 1]
      <4> HIDE DEF first, k
      <4> QED
        BY <1>3, <2>3 DEF DecodeBerLength, first, k
    <3>2. off + 1 \in 0..Len(buf)
      BY <1>1, <2>1
    <3> HIDE DEF d, first
    <3>3. d.ok = TRUE /\ d.next = off + 1 /\ d.value = first
      BY <3>1
    <3> QED
      BY <2>2, <3>2, <3>3 DEF d
  <2>4. CASE ~(first < Half)
    <3> DEFINE i == off + 2
               j == off + 1 + k
               part == SubSeq(buf, i, j)
    <3>1. d = [ok |-> TRUE, value |-> FromBytes(part), next |-> j]
      <4> HIDE DEF first, k
      <4> QED
        BY <1>3, <2>4 DEF DecodeBerLength, first, k
    <3>2. i \in 1..Len(buf) + 1 /\ j \in 0..Len(buf)
      <4> HIDE DEF first
      <4> QED
        BY <1>1, <1>3, <2>1, <2>2, <2>4
    <3> HIDE DEF i, j, k, d, first
    <3>3. part \in Seq(Byte)
      BY <3>2, PartType
    <3> HIDE DEF part
    <3>4. FromBytes(part) \in Nat
      BY <3>3, NumberType
    <3>5. d.ok = TRUE /\ d.next = j /\ d.value = FromBytes(part)
      BY <3>1
    <3> QED
      BY <3>2, <3>4, <3>5 DEF d
  <2> QED
    BY <2>3, <2>4
<1> QED
  BY <1>2, <1>3

-----------------------------------------------------------------------------
(* The reader's calls, on any bytes *)

\* A call leaves the reader in the buffer and returns bytes and a number.
Fine(buf, o) ==
    /\ o.next \in 0..Len(buf)
    /\ o.result.ok \in BOOLEAN
    /\ o.result.value \in Seq(Byte)
    /\ o.result.number \in Int
Counted(buf, o) == Fine(buf, o) /\ o.result.number \in Nat

LEMMA FineAt ==
    ASSUME NEW buf, NEW next \in 0..Len(buf), NEW bytes \in Seq(Byte), NEW n \in Int
    PROVE  /\ Fine(buf, At(next, Got(bytes, n)))
           /\ n \in Nat => Counted(buf, At(next, Got(bytes, n)))
           /\ Counted(buf, At(next, Err))
           /\ Counted(buf, At(next, Nil))
<1>1. <<>> \in Seq(Byte) /\ TRUE \in BOOLEAN /\ FALSE \in BOOLEAN /\ 0 \in Nat /\ 0 \in Int
  BY EmptySeq
<1> DEFINE g == At(next, Got(bytes, n))
           e == At(next, Err)
           d == At(next, Nil)
<1>2. g.next = next /\ g.result.ok = TRUE /\ g.result.value = bytes /\ g.result.number = n
  BY DEF At, Got
<1>3. e.next = next /\ e.result.ok = FALSE /\ e.result.value = <<>> /\ e.result.number = 0
  BY DEF At, Err
<1>4. d.next = next /\ d.result.ok = TRUE /\ d.result.value = <<>> /\ d.result.number = 0
  BY DEF At, Nil
<1> HIDE DEF g, e, d
<1>5. Fine(buf, g) /\ Fine(buf, e) /\ Fine(buf, d)
  BY <1>1, <1>2, <1>3, <1>4, Zenon DEF Fine
<1>6. e.result.number \in Nat /\ d.result.number \in Nat /\ (n \in Nat => g.result.number \in Nat)
  BY <1>2, <1>3, <1>4
<1> QED
  BY <1>5, <1>6 DEF Counted, g, e, d

LEMMA EnterType ==
    ASSUME NEW buf \in Seq(Byte), NEW at \in 0..Len(buf), NEW tag
    PROVE  Counted(buf, Enter(buf, at, tag))
<1> DEFINE d == DecodeBerLength(buf, at + 1)
           e == Enter(buf, at, tag)
<1>1. Len(buf) \in Nat /\ at \in Nat /\ 0 \in Nat /\ <<>> \in Seq(Byte)
  BY LenProperties, EmptySeq
<1>2. CASE NextTagIs(buf, at, tag)
  <2>1. at + 1 \in 0..Len(buf)
    BY <1>1, <1>2 DEF NextTagIs
  <2>2. d.ok \in BOOLEAN /\ (d.ok => d.next \in 0..Len(buf) /\ d.value \in Nat)
    BY <2>1, DecodedType
  <2>3. CASE d.ok
    <3>1. e = At(d.next, Got(<<>>, d.value))
      BY <1>2, <2>3 DEF Enter
    <3> HIDE DEF d, e
    <3> DEFINE next == d.next
               n == d.value
               none == <<>>
    <3>2. next \in 0..Len(buf) /\ n \in Nat /\ n \in Int /\ none \in Seq(Byte)
      BY <1>1, <2>2, <2>3
    <3> HIDE DEF next, n, none
    <3>3. Counted(buf, At(next, Got(none, n)))
      BY <3>2, FineAt
    <3> QED
      BY <3>1, <3>3 DEF e, next, n, none
  <2>4. CASE ~d.ok
    <3>1. e = At(at + 1, Err)
      BY <1>2, <2>4 DEF Enter
    <3> DEFINE next == at + 1
    <3>2. next \in 0..Len(buf)
      BY <2>1
    <3> HIDE DEF next, e
    <3>3. Counted(buf, At(next, Err))
      BY <1>1, <3>2, FineAt
    <3> QED
      BY <3>1, <3>3 DEF e, next
  <2> QED
    BY <2>3, <2>4
<1>3. CASE ~NextTagIs(buf, at, tag)
  <2> DEFINE next == IF at < Len(buf) THEN at + 1 ELSE at
  <2>1. next \in 0..Len(buf) /\ e = At(next, Err)
    BY <1>1, <1>3 DEF Enter
  <2> HIDE DEF next, e
  <2>2. Counted(buf, At(next, Err))
    BY <1>1, <2>1, FineAt
  <2> QED
    BY <2>1, <2>2 DEF e
<1> QED
  BY <1>2, <1>3

LEMMA ReadType ==
    ASSUME NEW buf \in Seq(Byte), NEW at \in 0..Len(buf), NEW tag
    PROVE  Counted(buf, Read(buf, at, tag))
<1> DEFINE e == Enter(buf, at, tag)
           r == Read(buf, at, tag)
<1>1. Len(buf) \in Nat /\ 0 \in Nat /\ <<>> \in Seq(Byte) /\ Counted(buf, e)
  BY LenProperties, EmptySeq, EnterType
<1>2. r = Value(buf, e)
  BY DEF Read
<1> HIDE DEF e, r
<1>3. e.next \in 0..Len(buf) /\ e.result.number \in Nat
  BY <1>1 DEF Counted, Fine
<1>4. CASE ~e.result.ok
  BY <1>1, <1>2, <1>4 DEF Value, r
<1>5. CASE e.result.ok /\ ~has(buf, e.next, e.result.number)
  <2>1. r = At(e.next, Err)
    BY <1>2, <1>5 DEF Value
  <2>2. Counted(buf, At(e.next, Err))
    BY <1>1, <1>3, FineAt
  <2> QED
    BY <2>1, <2>2 DEF r
<1>6. CASE e.result.ok /\ has(buf, e.next, e.result.number)
  <2> DEFINE from == e.next + 1
             end == e.next + e.result.number
             bytes == SubSeq(buf, from, end)
  <2>1. r = At(end, Got(bytes, 0))
    BY <1>2, <1>6 DEF Value
  <2>2. from \in 1..Len(buf) + 1 /\ end \in 0..Len(buf)
    BY <1>1, <1>3, <1>6 DEF has
  <2> HIDE DEF from, end
  <2>3. bytes \in Seq(Byte)
    BY <2>2, PartType
  <2> HIDE DEF bytes
  <2> DEFINE none == 0
  <2>4. none \in Nat
    OBVIOUS
  <2> HIDE DEF none
  <2>5. Counted(buf, At(end, Got(bytes, none)))
    BY <2>2, <2>3, <2>4, FineAt
  <2> QED
    BY <2>1, <2>5 DEF r, none
<1> QED
  BY <1>4, <1>5, <1>6

LEMMA SkipType ==
    ASSUME NEW buf \in Seq(Byte), NEW at \in 0..Len(buf)
    PROVE  Counted(buf, Skip(buf, at))
<1> DEFINE r == Read(buf, at, buf[at + 1])
           s == Skip(buf, at)
<1>1. Len(buf) \in Nat /\ 0 \in Nat /\ <<>> \in Seq(Byte)
  BY LenProperties, EmptySeq
<1>2. CASE at >= Len(buf)
  <2>1. s = At(at, Err)
    BY <1>2 DEF Skip
  <2>2. Counted(buf, At(at, Err))
    BY <1>1, FineAt
  <2> QED
    BY <2>1, <2>2
<1>3. CASE ~(at >= Len(buf))
  <2>1. Counted(buf, r)
    BY ReadType
  <2>2. s = IF r.result.ok THEN At(r.next, Nil) ELSE r
    BY <1>3 DEF Skip, Interpreted
  <2> HIDE DEF r, s
  <2>3. r.next \in 0..Len(buf)
    BY <2>1 DEF Counted, Fine
  <2>4. Counted(buf, At(r.next, Nil))
    BY <1>1, <2>3, FineAt
  <2> QED
    BY <2>1, <2>2, <2>4 DEF s
<1> QED
  BY <1>2, <1>3

LEMMA BooleanType ==
    ASSUME NEW buf \in Seq(Byte), NEW at \in 0..Len(buf), NEW tag
    PROVE  Counted(buf, Interpreted(Read(buf, at, tag), Boolean))
<1> DEFINE r == Read(buf, at, tag)
           s == Interpreted(r, Boolean)
<1>1. Counted(buf, r)
  BY ReadType
<1>2. s = IF r.result.ok THEN At(r.next, Boolean(r.result.value)) ELSE r
  BY DEF Interpreted
<1> HIDE DEF r, s
<1>3. r.next \in 0..Len(buf) /\ r.result.value \in Seq(Byte)
  BY <1>1 DEF Counted, Fine
<1> DEFINE v == r.result.value
<1>4. Counted(buf, At(r.next, Boolean(v)))
  <2>1. 0 \in Nat /\ 1 \in Nat /\ v \in Seq(Byte)
    BY <1>3
  <2> DEFINE n == IF v[1] = Base - 1 THEN 1 ELSE 0
  <2>2. n \in Nat
    OBVIOUS
  <2>3. Boolean(v) = IF Len(v) # 1 THEN Err ELSE Got(v, n)
    BY DEF Boolean
  <2> HIDE DEF n, v
  <2> DEFINE next == r.next
  <2>4. next \in 0..Len(buf)
    BY <1>3
  <2> HIDE DEF next
  <2>5. Counted(buf, At(next, Err)) /\ Counted(buf, At(next, Got(v, n)))
    BY <2>1, <2>2, <2>4, FineAt
  <2> QED
    BY <2>3, <2>5 DEF next
<1> QED
  BY <1>1, <1>2, <1>4 DEF s, r

LEMMA IntegerType ==
    ASSUME NEW buf \in Seq(Byte), NEW at \in 0..Len(buf), NEW tag
    PROVE  Fine(buf, Interpreted(Read(buf, at, tag), Integer))
<1> DEFINE r == Read(buf, at, tag)
           s == Interpreted(r, Integer)
<1>1. Fine(buf, r)
  BY ReadType DEF Counted
<1>2. s = IF r.result.ok THEN At(r.next, Integer(r.result.value)) ELSE r
  BY DEF Interpreted
<1> HIDE DEF r, s
<1>3. r.next \in 0..Len(buf) /\ r.result.value \in Seq(Byte)
  BY <1>1 DEF Fine
<1> DEFINE v == r.result.value
           n == Signed(FromBytes(v))
<1>4. n \in Int
  <2> DEFINE m == FromBytes(v)
  <2>1. m \in Nat
    BY <1>3, NumberType
  <2> HIDE DEF m
  <2> DEFINE p == Power[4]
             h == p \div 2
  <2>2. p \in Nat
    BY PowerFacts
  <2> HIDE DEF p, h
  <2>3. (IF m >= h THEN m - p ELSE m) \in Int
    BY <2>1, <2>2
  <2> QED
    BY <2>3 DEF m, p, h, Signed
<1>5. Fine(buf, At(r.next, Integer(v)))
  <2>1. Integer(v) = IF Len(v) \notin 1..4 THEN Err ELSE Got(v, n)
    BY DEF Integer
  <2>2. <<>> \in Seq(Byte) /\ v \in Seq(Byte)
    BY <1>3, EmptySeq
  <2> HIDE DEF n, v
  <2> DEFINE next == r.next
  <2>3. next \in 0..Len(buf)
    BY <1>3
  <2> HIDE DEF next
  <2>4. Fine(buf, At(next, Err)) /\ Fine(buf, At(next, Got(v, n)))
    BY <1>4, <2>2, <2>3, FineAt DEF Counted
  <2> QED
    BY <2>1, <2>4 DEF next
<1> QED
  BY <1>1, <1>2, <1>5 DEF s, r

-----------------------------------------------------------------------------
(* Reading what was written *)

\* A call with that outcome, which leaves rest.
Reaches(buf, o, outcome, rest) ==
    /\ o.next \in 0..Len(buf)
    /\ o.result = outcome
    /\ SubSeq(buf, o.next + 1, Len(buf)) = rest

\* Of a tag and a length, the tag and no other enters.
LEMMA EnterReadBack ==
    ASSUME NEW buf \in Seq(Byte), NEW at, NEW tag \in Byte, NEW n \in Nat, NEW rest \in Seq(Byte),
           n < Power[4],
           Follow(buf, at, <<tag>>, EncodeBerLength(n) \o rest)
    PROVE  /\ at < Len(buf) /\ buf[at + 1] = tag
           /\ Reaches(buf, Enter(buf, at, tag), Got(<<>>, n), rest)
           /\ \A t : t # tag => ~Enter(buf, at, t).result.ok
<1> DEFINE a == <<tag>>
           b == EncodeBerLength(n) \o rest
           off == at + 1
           end == off + Len(EncodeBerLength(n))
           d == DecodeBerLength(buf, off)
           e == Enter(buf, at, tag)
<1>1. a \in Seq(Byte) /\ Len(a) = 1 /\ a[1] = tag
  BY OneByte
<1>2. Follow(buf, at, a, b)
  OBVIOUS
<1> HIDE DEF a, b
<1>3. Parted(buf, at, a, b)
  BY <1>2, Parts
<1>4. at \in 0..Len(buf) /\ Len(buf) \in Nat
  BY <1>2, LenProperties DEF Follow
<1>5. buf[at + 1] = tag
  <2> DEFINE j == 1
  <2>1. j \in 1..Len(a) /\ j = 1
    BY <1>1
  <2> HIDE DEF j
  <2>2. buf[at + j] = a[j]
    BY <1>3, <2>1 DEF Parted
  <2> QED
    BY <1>1, <2>1, <2>2
<1>6. off \in 0..Len(buf) /\ SubSeq(buf, off + 1, Len(buf)) = b
  BY <1>1, <1>3 DEF Parted
<1>7. NextTagIs(buf, at, tag) /\ at < Len(buf)
  BY <1>4, <1>5, <1>6 DEF NextTagIs
<1>8. /\ d = [ok |-> TRUE, value |-> n, next |-> end]
      /\ end \in 0..Len(buf)
      /\ SubSeq(buf, end + 1, Len(buf)) = rest
  <2> HIDE DEF off, d
  <2>1. Follow(buf, off, EncodeBerLength(n), rest)
    BY <1>6, LengthType DEF b, Follow
  <2> QED
    BY <2>1, LengthReadBack DEF d
<1>9. e = At(end, Got(<<>>, n))
  <2>1. d.ok = TRUE /\ d.value = n /\ d.next = end
    <3> HIDE DEF d, end
    <3> QED
      BY <1>8
  <2> HIDE DEF end
  <2>2. e = At(d.next, Got(<<>>, d.value))
    BY <1>7, <2>1 DEF Enter
  <2> QED
    BY <2>1, <2>2
<1>10. e.next = end /\ e.result = Got(<<>>, n)
  <2> HIDE DEF e, end
  <2> QED
    BY <1>9 DEF At
<1>11. Reaches(buf, e, Got(<<>>, n), rest)
  <2> HIDE DEF e, end
  <2> QED
    BY <1>8, <1>10 DEF Reaches
<1>12. ASSUME NEW t, t # tag PROVE ~Enter(buf, at, t).result.ok
  <2>1. ~NextTagIs(buf, at, t)
    BY <1>5, <1>12 DEF NextTagIs
  <2>2. Enter(buf, at, t) = At(IF at < Len(buf) THEN at + 1 ELSE at, Err)
    BY <2>1 DEF Enter
  <2>3. Enter(buf, at, t).result = Err
    BY <2>2 DEF At
  <2> QED
    BY <2>3 DEF Err
<1> QED
  BY <1>5, <1>7, <1>11, <1>12

\* At the end of the buffer nothing enters.
LEMMA EnterNothing ==
    ASSUME NEW buf \in Seq(Byte), NEW tag
    PROVE  ~Enter(buf, Len(buf), tag).result.ok
<1>1. ~(Len(buf) < Len(buf))
  BY LenProperties
<1>2. Enter(buf, Len(buf), tag) = At(Len(buf), Err)
  BY <1>1 DEF Enter, NextTagIs
<1>3. Enter(buf, Len(buf), tag).result = Err
  BY <1>2 DEF At
<1> QED
  BY <1>3 DEF Err

\* A value that was written, and what follows it.
LEMMA PrimitiveForm ==
    ASSUME NEW tag \in Byte, NEW value \in Seq(Byte), NEW rest \in Seq(Byte), Len(value) < Power[4]
    PROVE  /\ WritePrimitive(tag, value) \in Seq(Byte)
           /\ value \o rest \in Seq(Byte)
           /\ EncodeBerLength(Len(value)) \o (value \o rest) \in Seq(Byte)
           /\ WritePrimitive(tag, value) \o rest
                = <<tag>> \o (EncodeBerLength(Len(value)) \o (value \o rest))
<1> DEFINE a == <<tag>>
           n == Len(value)
           e == EncodeBerLength(n)
<1>1. a \in Seq(Byte)
  BY OneByte
<1>2. n \in Nat /\ n < Power[4]
  BY LenProperties
<1> HIDE DEF n
<1>3. e \in Seq(Byte)
  BY <1>2, LengthType
<1>4. WritePrimitive(tag, value) = (a \o e) \o value
  BY DEF WritePrimitive, n
<1> HIDE DEF a, e
<1>5. a \o e \in Seq(Byte) /\ value \o rest \in Seq(Byte)
  BY <1>1, <1>3, ConcatProperties
<1>6. (a \o e) \o value \in Seq(Byte) /\ e \o (value \o rest) \in Seq(Byte)
  BY <1>3, <1>5, ConcatProperties
<1>7. ((a \o e) \o value) \o rest = (a \o e) \o (value \o rest)
  BY <1>5, BytesAssociative
<1>8. (a \o e) \o (value \o rest) = a \o (e \o (value \o rest))
  BY <1>1, <1>3, <1>5, BytesAssociative
<1> QED
  BY <1>4, <1>5, <1>6, <1>7, <1>8 DEF a, e, n

LEMMA ReadReadBack ==
    ASSUME NEW buf \in Seq(Byte), NEW at, NEW tag \in Byte, NEW value \in Seq(Byte), NEW rest \in Seq(Byte),
           Len(value) < Power[4],
           Follow(buf, at, WritePrimitive(tag, value), rest)
    PROVE  /\ at < Len(buf) /\ buf[at + 1] = tag
           /\ Reaches(buf, Enter(buf, at, tag), Got(<<>>, Len(value)), value \o rest)
           /\ Reaches(buf, Read(buf, at, tag), Got(value, 0), rest)
           /\ \A t : t # tag => ~Enter(buf, at, t).result.ok /\ ~Read(buf, at, t).result.ok
<1> DEFINE n == Len(value)
           a == <<tag>>
           vr == value \o rest
           b == EncodeBerLength(n) \o vr
           e == Enter(buf, at, tag)
           r == Read(buf, at, tag)
<1>1. n \in Nat /\ n < Power[4]
  BY LenProperties
<1>2. vr \in Seq(Byte) /\ b \in Seq(Byte) /\ WritePrimitive(tag, value) \o rest = a \o b
  BY PrimitiveForm
<1>3. a \in Seq(Byte)
  BY OneByte
<1>4. at \in 0..Len(buf) /\ SubSeq(buf, at + 1, Len(buf)) = WritePrimitive(tag, value) \o rest
  BY DEF Follow
<1>5. Follow(buf, at, <<tag>>, EncodeBerLength(n) \o vr)
  BY <1>2, <1>3, <1>4 DEF Follow
<1> HIDE DEF n, vr, a, b
<1>6. /\ at < Len(buf) /\ buf[at + 1] = tag
      /\ Reaches(buf, e, Got(<<>>, n), vr)
      /\ \A t : t # tag => ~Enter(buf, at, t).result.ok
  BY <1>1, <1>2, <1>5, EnterReadBack
<1>7. e.next \in 0..Len(buf) /\ SubSeq(buf, e.next + 1, Len(buf)) = vr
      /\ e.result.ok = TRUE /\ e.result.number = n
  BY <1>6 DEF Reaches, Got
<1>8. r = Value(buf, e)
  BY DEF Read
<1> HIDE DEF e
<1> DEFINE from == e.next
           end == from + n
<1>9. Parted(buf, from, value, rest)
  <2>1. Follow(buf, from, value, rest)
    BY <1>7 DEF Follow, vr
  <2> HIDE DEF from
  <2> QED
    BY <2>1, Parts
<1>10. /\ end \in 0..Len(buf) /\ SubSeq(buf, from + 1, end) = value
       /\ SubSeq(buf, end + 1, Len(buf)) = rest
  BY <1>9 DEF Parted, n
<1>11. r = At(end, Got(SubSeq(buf, from + 1, end), 0))
  <2>1. has(buf, from, n)
    BY <1>10, LenProperties DEF has
  <2> HIDE DEF r
  <2> QED
    BY <1>7, <1>8, <2>1 DEF Value
<1>12. r.next = end /\ r.result = Got(value, 0)
  <2> HIDE DEF r, end, from
  <2> QED
    BY <1>10, <1>11 DEF At
<1>13. Reaches(buf, r, Got(value, 0), rest)
  <2> HIDE DEF r, end
  <2> QED
    BY <1>10, <1>12 DEF Reaches
<1>14. ASSUME NEW t, t # tag PROVE ~Read(buf, at, t).result.ok
  <2> DEFINE f == Enter(buf, at, t)
  <2>1. ~f.result.ok
    BY <1>6, <1>14
  <2>2. Read(buf, at, t) = Value(buf, f)
    BY DEF Read
  <2> HIDE DEF f
  <2>3. Value(buf, f) = f
    BY <2>1 DEF Value
  <2> QED
    BY <2>1, <2>2, <2>3
<1> QED
  BY <1>6, <1>13, <1>14 DEF e, n, vr

-----------------------------------------------------------------------------
(* Numbers of 32 bits *)

LEMMA HalfRange ==
    /\ Power[4] \in Nat \ {0} /\ Power[4] \div 2 \in Nat
    /\ Power[4] = 2 * (Power[4] \div 2)
<1> DEFINE r == Power[3]
           q == Half * r
<1>1. Power[4] = Base * r /\ r \in Nat /\ Power[4] \in Nat \ {0}
  BY PowerFacts
<1> HIDE DEF r
<1>2. q \in Nat /\ Power[4] = 2 * q
  BY <1>1, BaseFacts
<1> HIDE DEF q
<1>3. Power[4] \div 2 = q
  BY <1>2
<1> QED
  BY <1>1, <1>2, <1>3

LEMMA Remainder ==
    ASSUME NEW p \in Nat \ {0}, NEW n \in Int, -p <= n, n < p
    PROVE  n % p = IF n < 0 THEN n + p ELSE n
OBVIOUS

\* An integer written in as few bytes as the writer takes is the integer read.
LEMMA IntegerReadBack ==
    ASSUME NEW n \in Int, -(Power[4] \div 2) <= n, n < Power[4] \div 2
    PROVE  /\ IntegerBytes(n) \in Seq(Byte)
           /\ Len(IntegerBytes(n)) \in 1..4
           /\ Signed(FromBytes(IntegerBytes(n))) = n
<1> DEFINE p == Power[4]
           h == p \div 2
           m == n % p
           bytes == BigEndian(m, 4)
           IsStart(i) == (i = 4 \/ bytes[i] # 0) /\ \A j \in 1..(i - 1) : bytes[j] = 0
           start == IF n < 0 THEN 1 ELSE CHOOSE i \in 1..4 : IsStart(i)
           front == SubSeq(bytes, 1, start - 1)
           back == SubSeq(bytes, start, 4)
<1>1. p \in Nat \ {0} /\ h \in Nat /\ p = 2 * h /\ -h <= n /\ n < h
  BY HalfRange
<1>2. m = IF n < 0 THEN n + p ELSE n
  <2>1. -p <= n /\ n < p
    <3> HIDE DEF p, h
    <3> QED
      BY <1>1
  <2> HIDE DEF p
  <2> QED
    BY <1>1, <2>1, Remainder
<1>3. m \in Nat /\ m < p
  <2> HIDE DEF p, h, m
  <2> QED
    BY <1>1, <1>2
<1>4. bytes \in Seq(Byte) /\ Len(bytes) = 4 /\ FromBytes(bytes) = m
  <2> DEFINE k == 4
  <2>1. k \in Nat /\ m < Power[k]
    BY <1>3
  <2> HIDE DEF k, m
  <2>2. BigEndian(m, k) \in Seq(Byte) /\ Len(BigEndian(m, k)) = k /\ FromBytes(BigEndian(m, k)) = m
    BY <1>3, <2>1, BigEndianType, NumberOfBytes
  <2> QED
    BY <2>2 DEF k
<1>5. IntegerBytes(n) = back
  <2> HIDE DEF bytes
  <2> QED
    BY DEF IntegerBytes, bytes
<1> HIDE DEF bytes, m, p, h
<1>6. \E i \in 1..4 : IsStart(i)
  <2>1. CASE bytes[1] # 0
    BY <2>1
  <2>2. CASE bytes[1] = 0 /\ bytes[2] # 0
    BY <2>2
  <2>3. CASE bytes[1] = 0 /\ bytes[2] = 0 /\ bytes[3] # 0
    BY <2>3
  <2>4. CASE bytes[1] = 0 /\ bytes[2] = 0 /\ bytes[3] = 0
    BY <2>4
  <2> QED
    BY <2>1, <2>2, <2>3, <2>4
<1>7. start \in 1..4 /\ \A j \in 1..(start - 1) : bytes[j] = 0
  <2>1. CASE n < 0
    BY <2>1
  <2>2. CASE ~(n < 0)
    <3> HIDE DEF IsStart
    <3>1. start \in 1..4 /\ IsStart(start)
      BY <1>6, <2>2
    <3> QED
      BY <3>1 DEF IsStart
  <2> QED
    BY <2>1, <2>2
<1> HIDE DEF start
<1>8. front \in Seq({0})
  <2> DEFINE one == 1
             k == start - 1
  <2>1. one \in Int /\ k \in Int /\ \A i \in one..k : bytes[i] \in {0}
    BY <1>7
  <2> HIDE DEF one, k
  <2>2. SubSeq(bytes, one, k) \in Seq({0})
    BY <2>1, SubSeqProperties
  <2> QED
    BY <2>2 DEF one, k
<1>9. back \in Seq(Byte) /\ Len(back) \in 1..4
  <2> DEFINE k == 4
  <2>1. start \in Int /\ k \in Int /\ start <= k /\ start >= 1 /\ k = 4
    BY <1>7
  <2>2. \A i \in start..k : bytes[i] \in Byte
    <3>1. \A i \in start..k : i \in 1..Len(bytes)
      BY <1>4, <2>1
    <3> QED
      BY <1>4, <3>1, ElementOfSeq
  <2> HIDE DEF k
  <2> DEFINE b == SubSeq(bytes, start, k)
  <2>3. b \in Seq(Byte) /\ Len(b) = IF start <= k THEN k - start + 1 ELSE 0
    BY <2>1, <2>2, SubSeqProperties
  <2> HIDE DEF b
  <2>4. Len(b) \in 1..4
    BY <2>1, <2>3
  <2> QED
    BY <2>3, <2>4 DEF b, k
<1>10. bytes = front \o back
  <2> DEFINE one == 1
             k == start - 1
             four == 4
  <2>1. one \in 1..Len(bytes) + 1 /\ k \in (one - 1)..Len(bytes) /\ four \in k..Len(bytes)
        /\ k + 1 = start /\ four = Len(bytes) /\ one = 1
    BY <1>4, <1>7
  <2> HIDE DEF one, k, four
  <2>2. SubSeq(bytes, one, k) \o SubSeq(bytes, k + 1, four) = SubSeq(bytes, one, four)
    BY <1>4, <2>1, ConcatAdjacentSubSeq
  <2>3. SubSeq(bytes, 1, Len(bytes)) = bytes
    BY <1>4, SubSeqFull
  <2>4. SubSeq(bytes, one, four) = bytes
    BY <2>1, <2>3
  <2>5. SubSeq(bytes, one, k) \o SubSeq(bytes, start, four) = bytes
    BY <2>1, <2>2, <2>4
  <2> QED
    BY <2>5 DEF one, k, four
<1> HIDE DEF front, back
<1>11. FromBytes(back) = m
  BY <1>4, <1>8, <1>9, <1>10, LeadingZeroes
<1>12. Signed(m) = n
  <2>1. Signed(m) = IF m >= h THEN m - p ELSE m
    BY DEF Signed, p, h
  <2> QED
    BY <1>1, <1>2, <2>1
<1> QED
  BY <1>5, <1>9, <1>11, <1>12

-----------------------------------------------------------------------------
(* Documents *)

\* The items that the assumption on documents allows.
WrittenLeaves == {x \in Leaf : IsWritten(x)}
WrittenItems ==
    {x \in Leaf \cup Nested : IsWritten(x) /\ \A j \in DOMAIN x.inner : IsWritten(x.inner[j])}

LEMMA WrittenLeaf ==
    \A x \in WrittenLeaves : /\ WritePrimitive(x.tag, x.value) \in Seq(Byte)
                              /\ x \in WrittenItems
                              /\ WriteItem(x) = WritePrimitive(x.tag, x.value)
<1> SUFFICES ASSUME NEW x \in WrittenLeaves
             PROVE  /\ WritePrimitive(x.tag, x.value) \in Seq(Byte)
                    /\ x \in WrittenItems
                    /\ WriteItem(x) = WritePrimitive(x.tag, x.value)
  OBVIOUS
<1>1. x \in Leaf /\ IsWritten(x)
  BY DEF WrittenLeaves
<1>2. x.tag \in Byte /\ x.value \in Seq(Byte) /\ x.inner = <<>>
  BY <1>1 DEF Leaf
<1>3. Len(x.value) < Power[4]
  BY <1>1 DEF IsWritten
<1>4. WritePrimitive(x.tag, x.value) \in Seq(Byte)
  <2> DEFINE t == x.tag
             v == x.value
             rest == <<>>
  <2>1. t \in Byte /\ v \in Seq(Byte) /\ rest \in Seq(Byte) /\ Len(v) < Power[4]
    BY <1>2, <1>3, EmptySeq
  <2> HIDE DEF t, v, rest
  <2>2. WritePrimitive(t, v) \in Seq(Byte)
    BY <2>1, PrimitiveForm
  <2> QED
    BY <2>2 DEF t, v
<1>5. x \in WrittenItems
  <2>1. \A j \in DOMAIN x.inner : IsWritten(x.inner[j])
    <3>1. DOMAIN x.inner = {}
      BY <1>2
    <3> QED
      BY <3>1
  <2> QED
    BY <1>1, <2>1 DEF WrittenItems
<1>6. WriteItem(x) = WritePrimitive(x.tag, x.value)
  BY <1>2 DEF WriteItem, IsConstructed
<1> QED
  BY <1>4, <1>5, <1>6

\* Primitives, position by position.
LEMMA PrimitivesSteps ==
    ASSUME NEW items \in Seq(WrittenLeaves)
    PROVE  \E f \in [0..Len(items) -> Seq(Byte)] :
              /\ f[0] = <<>>
              /\ \A k \in 1..Len(items) : f[k] = f[k - 1] \o WritePrimitive(items[k].tag, items[k].value)
              /\ Primitives(items) = f[Len(items)]
<1> DEFINE n == Len(items)
           V == Seq(Byte)
           zero == <<>>
           step == [k \in 1..n |-> [v \in V |-> v \o WritePrimitive(items[k].tag, items[k].value)]]
           Folded(h) == h = [s \in SUBSET (DOMAIN items) |->
               IF s = {} THEN <<>> ELSE h[s \ {Max(s)}] \o WritePrimitive(items[Max(s)].tag, items[Max(s)].value)]
<1>1. n \in Nat /\ DOMAIN items = 1..n /\ (\A k \in 1..n : items[k] \in WrittenLeaves) /\ zero \in V
  BY LenProperties, ElementOfSeq, EmptySeq
<1>2. \A k \in 1..n, v \in V : v \o WritePrimitive(items[k].tag, items[k].value) \in V
  BY <1>1, WrittenLeaf, ConcatProperties
<1>3. step \in Steps(n, V)
  <2>1. step \in [1..n -> [V -> V]]
    BY <1>2
  <2> QED
    BY <2>1 DEF Steps
<1>4. PICK g \in [SUBSET (1..n) -> V] :
         \A s \in SUBSET (1..n) : g[s] = IF s = {} THEN zero ELSE step[Max(s)][g[s \ {Max(s)}]]
  <2> HIDE DEF n, V, zero, step
  <2>1. Foldings(n, V, zero, step) # {}
    BY <1>1, <1>3, FoldingExists
  <2> QED
    BY <2>1 DEF Foldings
<1>5. Folded(g)
  <2>1. ASSUME NEW s \in SUBSET (1..n)
        PROVE  g[s] = IF s = {} THEN zero ELSE g[s \ {Max(s)}] \o WritePrimitive(items[Max(s)].tag, items[Max(s)].value)
    <3>1. CASE s = {}
      BY <1>4, <3>1
    <3>2. CASE s # {}
      <4>1. Max(s) \in 1..n /\ s \ {Max(s)} \in SUBSET (1..n)
        BY <1>1, <3>2, GreatestOfSubset
      <4>2. g[s \ {Max(s)}] \in V
        BY <4>1
      <4> HIDE DEF V
      <4>3. step[Max(s)][g[s \ {Max(s)}]] = g[s \ {Max(s)}] \o WritePrimitive(items[Max(s)].tag, items[Max(s)].value)
        BY <4>1, <4>2
      <4> QED
        BY <1>4, <3>2, <4>3
    <3> QED
      BY <3>1, <3>2
  <2> HIDE DEF step, n, V
  <2> QED
    BY <1>1, <2>1
<1>6. PICK h : Folded(h) /\ Primitives(items) = h[DOMAIN items]
  BY <1>5 DEF Primitives, FoldLeft, MapThenFoldSet
<1>7. h[{}] = zero
  BY <1>1, <1>6
<1>8. ASSUME NEW k \in 1..n PROVE h[1..k] = h[1..(k - 1)] \o WritePrimitive(items[k].tag, items[k].value)
  <2>3. k \in Nat /\ k # 0 /\ k \in 1..k /\ k <= n
    BY <1>1
  <2>1. k \in Nat /\ k # 0 /\ 1..k # {} /\ 1..k \in SUBSET (1..n)
    <3>1. 1..k # {}
      BY <2>3
    <3>2. \A y \in 1..k : y \in 1..n
      BY <1>1, <2>3
    <3> QED
      BY <2>3, <3>1, <3>2
  <2>2. Max(1..k) = k /\ 1..k \ {k} = 1..(k - 1)
    BY <2>1, GreatestOfInterval
  <2> HIDE DEF n
  <2> QED
    BY <1>1, <1>6, <2>1, <2>2
<1> DEFINE f == [k \in 0..n |-> h[1..k]]
<1>9. f \in [0..n -> V]
  <2>1. \A k \in 1..n : h[1..(k - 1)] \in V => h[1..k] \in V
    BY <1>2, <1>8
  <2> HIDE DEF n, V, zero
  <2> QED
    BY <1>1, <1>7, <2>1, FoldSteps
<1>10. f[0] = zero /\ f[n] = h[1..n]
  <2>1. 1..0 = {} /\ 0 \in 0..n /\ n \in 0..n
    BY <1>1
  <2> HIDE DEF n, zero
  <2> QED
    BY <1>7, <2>1
<1>11. ASSUME NEW k \in 1..n PROVE f[k] = f[k - 1] \o WritePrimitive(items[k].tag, items[k].value)
  <2>1. k \in 0..n /\ k - 1 \in 0..n
    BY <1>1
  <2> HIDE DEF n
  <2> QED
    BY <1>8, <2>1
<1> HIDE DEF f
<1> QED
  BY <1>1, <1>6, <1>9, <1>10, <1>11

\* One more primitive item.
LEMMA PrimitivesOfAppend ==
    ASSUME NEW s \in Seq(WrittenLeaves), NEW x \in WrittenLeaves
    PROVE  /\ Primitives(s) \in Seq(Byte) /\ Primitives(<<>>) = <<>>
           /\ Primitives(Append(s, x)) = Primitives(s) \o WritePrimitive(x.tag, x.value)
<1> DEFINE n == Len(s)
           a == Append(s, x)
<1>1. /\ n \in Nat /\ a \in Seq(WrittenLeaves) /\ Len(a) = n + 1
      /\ \A k \in 1..n : a[k] = s[k]
      /\ a[n + 1] = x
  BY LenProperties, AppendProperties
<1> HIDE DEF a
<1>2. PICK f \in [0..n -> Seq(Byte)] :
         f[0] = <<>> /\ (\A k \in 1..n : f[k] = f[k - 1] \o WritePrimitive(s[k].tag, s[k].value)) /\ Primitives(s) = f[n]
  BY PrimitivesSteps
<1>3. PICK g \in [0..(n + 1) -> Seq(Byte)] :
         g[0] = <<>> /\ (\A k \in 1..(n + 1) : g[k] = g[k - 1] \o WritePrimitive(a[k].tag, a[k].value)) /\ Primitives(a) = g[n + 1]
  BY <1>1, PrimitivesSteps
<1> HIDE DEF n
<1>4. g[n] = f[n]
  <2> DEFINE T == {k \in 0..n : g[k] = f[k]}
  <2>1. 0 \in T
    BY <1>1, <1>2, <1>3
  <2>2. ASSUME NEW k \in 1..n, k - 1 \in T PROVE k \in T
    <3>1. k \in 0..n /\ k \in 1..(n + 1) /\ a[k] = s[k]
      BY <1>1
    <3>4. g[k - 1] = f[k - 1]
      BY <2>2
    <3>2. f[k] = f[k - 1] \o WritePrimitive(s[k].tag, s[k].value)
      BY <1>2
    <3>3. g[k] = g[k - 1] \o WritePrimitive(a[k].tag, a[k].value)
      BY <1>3, <3>1
    <3> QED
      BY <3>1, <3>2, <3>3, <3>4
  <2> HIDE DEF T
  <2>3. 0..n \subseteq T
    BY <1>1, <2>1, <2>2, InductionUpTo
  <2>4. n \in T
    BY <1>1, <2>3
  <2> QED
    BY <2>4 DEF T
<1>5. g[n + 1] = g[n] \o WritePrimitive(a[n + 1].tag, a[n + 1].value)
  <2>1. n + 1 \in 1..(n + 1) /\ (n + 1) - 1 = n
    BY <1>1
  <2> QED
    BY <1>3, <2>1
<1>6. Primitives(s) \in Seq(Byte)
  BY <1>1, <1>2
<1>7. Primitives(<<>>) = <<>>
  <2> DEFINE none == <<>>
  <2>1. none \in Seq(WrittenLeaves) /\ Len(none) = 0
    BY EmptySeq
  <2> HIDE DEF none
  <2>2. Primitives(none) = <<>>
    BY <2>1, PrimitivesSteps
  <2> QED
    BY <2>2 DEF none
<1> QED
  BY <1>1, <1>2, <1>3, <1>4, <1>5, <1>6, <1>7 DEF a

\* What is between the tag and length of an item and the next one.
Content(x) == IF IsConstructed(x) THEN Primitives(x.inner) ELSE x.value

LEMMA PrimitivesType ==
    ASSUME NEW s \in Seq(WrittenLeaves)
    PROVE  Primitives(s) \in Seq(Byte)
<1>1. PICK f \in [0..Len(s) -> Seq(Byte)] : Primitives(s) = f[Len(s)]
  BY PrimitivesSteps
<1>2. Len(s) \in 0..Len(s)
  BY LenProperties
<1> QED
  BY <1>1, <1>2

LEMMA ItemForm ==
    ASSUME NEW x \in WrittenItems
    PROVE  /\ x.tag \in Byte
           /\ x.value \in Seq(Byte)
           /\ x.inner \in Seq(WrittenLeaves)
           /\ Content(x) \in Seq(Byte)
           /\ Len(Content(x)) < Power[4]
           /\ WriteItem(x) = WritePrimitive(x.tag, Content(x))
           /\ WriteItem(x) \in Seq(Byte)
<1>1. /\ x \in Leaf \cup Nested
      /\ IsWritten(x)
      /\ \A j \in DOMAIN x.inner : IsWritten(x.inner[j])
  BY DEF WrittenItems
<1>2. x.tag \in Byte /\ x.value \in Seq(Byte) /\ x.inner \in Seq(Leaf)
  <2>1. <<>> \in Seq(Byte) /\ <<>> \in Seq(Leaf)
    BY EmptySeq
  <2>2. CASE x \in Leaf
    <3>1. x.tag \in Byte /\ x.value \in Seq(Byte) /\ x.inner = <<>>
      BY <2>2 DEF Leaf
    <3> QED
      BY <2>1, <3>1
  <2>3. CASE x \in Nested
    <3>1. x.tag \in Byte /\ x.value = <<>> /\ x.inner \in Seq(Leaf)
      BY <2>3 DEF Nested
    <3> QED
      BY <2>1, <3>1
  <2> QED
    BY <1>1, <2>2, <2>3
<1>3. x.inner \in Seq(WrittenLeaves)
  <2> DEFINE s == x.inner
             n == Len(s)
  <2>1. n \in Nat /\ s \in [1..n -> Leaf] /\ DOMAIN s = 1..n
    BY <1>2, LenProperties
  <2>2. \A j \in 1..n : IsWritten(s[j])
    BY <1>1, <2>1
  <2> HIDE DEF s, n
  <2>3. \A j \in 1..n : s[j] \in WrittenLeaves
    BY <2>1, <2>2 DEF WrittenLeaves
  <2>4. s \in [1..n -> WrittenLeaves]
    BY <2>1, <2>3
  <2>5. s \in Seq(WrittenLeaves)
    BY <2>1, <2>4
  <2> QED
    BY <2>5 DEF s
<1>4. Content(x) \in Seq(Byte) /\ Len(Content(x)) < Power[4]
  <2>1. CASE IsConstructed(x)
    <3>1. Content(x) = Primitives(x.inner) /\ Len(Primitives(x.inner)) < Power[4]
      BY <1>1, <2>1 DEF Content, IsWritten
    <3> QED
      BY <1>3, <3>1, PrimitivesType
  <2>2. CASE ~IsConstructed(x)
    <3>1. Content(x) = x.value /\ Len(x.value) < Power[4]
      BY <1>1, <2>2 DEF Content, IsWritten
    <3> QED
      BY <1>2, <3>1
  <2> QED
    BY <2>1, <2>2
<1>5. WriteItem(x) = WritePrimitive(x.tag, Content(x))
  BY DEF WriteItem, Content
<1>6. WriteItem(x) \in Seq(Byte)
  <2> DEFINE t == x.tag
             v == Content(x)
             rest == <<>>
  <2>1. t \in Byte /\ v \in Seq(Byte) /\ rest \in Seq(Byte) /\ Len(v) < Power[4]
    BY <1>2, <1>4, EmptySeq
  <2> HIDE DEF t, v, rest
  <2>2. WritePrimitive(t, v) \in Seq(Byte)
    BY <2>1, PrimitiveForm
  <2> QED
    BY <1>5, <2>2 DEF t, v
<1> QED
  BY <1>2, <1>3, <1>4, <1>5, <1>6

LEMMA WrittenItem == \A x \in WrittenItems : WriteItem(x) \in Seq(Byte)
BY ItemForm

\* ToBytes, position by position.
LEMMA ItemsSteps ==
    ASSUME NEW items \in Seq(WrittenItems)
    PROVE  \E f \in [0..Len(items) -> Seq(Byte)] :
              /\ f[0] = <<>>
              /\ \A k \in 1..Len(items) : f[k] = f[k - 1] \o WriteItem(items[k])
              /\ ToBytes(items) = f[Len(items)]
<1> DEFINE n == Len(items)
           V == Seq(Byte)
           zero == <<>>
           step == [k \in 1..n |-> [v \in V |-> v \o WriteItem(items[k])]]
           Folded(h) == h = [s \in SUBSET (DOMAIN items) |->
               IF s = {} THEN <<>> ELSE h[s \ {Max(s)}] \o WriteItem(items[Max(s)])]
<1>1. n \in Nat /\ DOMAIN items = 1..n /\ (\A k \in 1..n : items[k] \in WrittenItems) /\ zero \in V
  BY LenProperties, ElementOfSeq, EmptySeq
<1>2. \A k \in 1..n, v \in V : v \o WriteItem(items[k]) \in V
  BY <1>1, WrittenItem, ConcatProperties
<1>3. step \in Steps(n, V)
  <2>1. step \in [1..n -> [V -> V]]
    BY <1>2
  <2> QED
    BY <2>1 DEF Steps
<1>4. PICK g \in [SUBSET (1..n) -> V] :
         \A s \in SUBSET (1..n) : g[s] = IF s = {} THEN zero ELSE step[Max(s)][g[s \ {Max(s)}]]
  <2> HIDE DEF n, V, zero, step
  <2>1. Foldings(n, V, zero, step) # {}
    BY <1>1, <1>3, FoldingExists
  <2> QED
    BY <2>1 DEF Foldings
<1>5. Folded(g)
  <2>1. ASSUME NEW s \in SUBSET (1..n)
        PROVE  g[s] = IF s = {} THEN zero ELSE g[s \ {Max(s)}] \o WriteItem(items[Max(s)])
    <3>1. CASE s = {}
      BY <1>4, <3>1
    <3>2. CASE s # {}
      <4>1. Max(s) \in 1..n /\ s \ {Max(s)} \in SUBSET (1..n)
        BY <1>1, <3>2, GreatestOfSubset
      <4>2. g[s \ {Max(s)}] \in V
        BY <4>1
      <4> HIDE DEF V
      <4>3. step[Max(s)][g[s \ {Max(s)}]] = g[s \ {Max(s)}] \o WriteItem(items[Max(s)])
        BY <4>1, <4>2
      <4> QED
        BY <1>4, <3>2, <4>3
    <3> QED
      BY <3>1, <3>2
  <2> HIDE DEF step, n, V
  <2> QED
    BY <1>1, <2>1
<1>6. PICK h : Folded(h) /\ ToBytes(items) = h[DOMAIN items]
  BY <1>5 DEF ToBytes, FoldLeft, MapThenFoldSet
<1>7. h[{}] = zero
  BY <1>1, <1>6
<1>8. ASSUME NEW k \in 1..n PROVE h[1..k] = h[1..(k - 1)] \o WriteItem(items[k])
  <2>3. k \in Nat /\ k # 0 /\ k \in 1..k /\ k <= n
    BY <1>1
  <2>1. k \in Nat /\ k # 0 /\ 1..k # {} /\ 1..k \in SUBSET (1..n)
    <3>1. 1..k # {}
      BY <2>3
    <3>2. \A y \in 1..k : y \in 1..n
      BY <1>1, <2>3
    <3> QED
      BY <2>3, <3>1, <3>2
  <2>2. Max(1..k) = k /\ 1..k \ {k} = 1..(k - 1)
    BY <2>1, GreatestOfInterval
  <2> HIDE DEF n
  <2> QED
    BY <1>1, <1>6, <2>1, <2>2
<1> DEFINE f == [k \in 0..n |-> h[1..k]]
<1>9. f \in [0..n -> V]
  <2>1. \A k \in 1..n : h[1..(k - 1)] \in V => h[1..k] \in V
    BY <1>2, <1>8
  <2> HIDE DEF n, V, zero
  <2> QED
    BY <1>1, <1>7, <2>1, FoldSteps
<1>10. f[0] = zero /\ f[n] = h[1..n]
  <2>1. 1..0 = {} /\ 0 \in 0..n /\ n \in 0..n
    BY <1>1
  <2> HIDE DEF n, zero
  <2> QED
    BY <1>7, <2>1
<1>11. ASSUME NEW k \in 1..n PROVE f[k] = f[k - 1] \o WriteItem(items[k])
  <2>1. k \in 0..n /\ k - 1 \in 0..n
    BY <1>1
  <2> HIDE DEF n
  <2> QED
    BY <1>8, <2>1
<1> HIDE DEF f
<1> QED
  BY <1>1, <1>6, <1>9, <1>10, <1>11

\* One more item.
LEMMA ItemsOfAppend ==
    ASSUME NEW s \in Seq(WrittenItems), NEW x \in WrittenItems
    PROVE  /\ ToBytes(s) \in Seq(Byte) /\ ToBytes(<<>>) = <<>>
           /\ ToBytes(Append(s, x)) = ToBytes(s) \o WriteItem(x)
<1> DEFINE n == Len(s)
           a == Append(s, x)
<1>1. /\ n \in Nat /\ a \in Seq(WrittenItems) /\ Len(a) = n + 1
      /\ \A k \in 1..n : a[k] = s[k]
      /\ a[n + 1] = x
  BY LenProperties, AppendProperties
<1> HIDE DEF a
<1>2. PICK f \in [0..n -> Seq(Byte)] :
         f[0] = <<>> /\ (\A k \in 1..n : f[k] = f[k - 1] \o WriteItem(s[k])) /\ ToBytes(s) = f[n]
  BY ItemsSteps
<1>3. PICK g \in [0..(n + 1) -> Seq(Byte)] :
         g[0] = <<>> /\ (\A k \in 1..(n + 1) : g[k] = g[k - 1] \o WriteItem(a[k])) /\ ToBytes(a) = g[n + 1]
  BY <1>1, ItemsSteps
<1> HIDE DEF n
<1>4. g[n] = f[n]
  <2> DEFINE T == {k \in 0..n : g[k] = f[k]}
  <2>1. 0 \in T
    BY <1>1, <1>2, <1>3
  <2>2. ASSUME NEW k \in 1..n, k - 1 \in T PROVE k \in T
    <3>1. k \in 0..n /\ k \in 1..(n + 1) /\ a[k] = s[k]
      BY <1>1
    <3>4. g[k - 1] = f[k - 1]
      BY <2>2
    <3>2. f[k] = f[k - 1] \o WriteItem(s[k])
      BY <1>2
    <3>3. g[k] = g[k - 1] \o WriteItem(a[k])
      BY <1>3, <3>1
    <3> QED
      BY <3>1, <3>2, <3>3, <3>4
  <2> HIDE DEF T
  <2>3. 0..n \subseteq T
    BY <1>1, <2>1, <2>2, InductionUpTo
  <2>4. n \in T
    BY <1>1, <2>3
  <2> QED
    BY <2>4 DEF T
<1>5. g[n + 1] = g[n] \o WriteItem(a[n + 1])
  <2>1. n + 1 \in 1..(n + 1) /\ (n + 1) - 1 = n
    BY <1>1
  <2> QED
    BY <1>3, <2>1
<1>6. ToBytes(s) \in Seq(Byte)
  BY <1>1, <1>2
<1>7. ToBytes(<<>>) = <<>>
  <2> DEFINE none == <<>>
  <2>1. none \in Seq(WrittenItems) /\ Len(none) = 0
    BY EmptySeq
  <2> HIDE DEF none
  <2>2. ToBytes(none) = <<>>
    BY <2>1, ItemsSteps
  <2> QED
    BY <2>2 DEF none
<1> QED
  BY <1>1, <1>2, <1>3, <1>4, <1>5, <1>6, <1>7 DEF a

LEMMA ItemsType ==
    ASSUME NEW s \in Seq(WrittenItems)
    PROVE  ToBytes(s) \in Seq(Byte)
<1>1. PICK f \in [0..Len(s) -> Seq(Byte)] : ToBytes(s) = f[Len(s)]
  BY ItemsSteps
<1>2. Len(s) \in 0..Len(s)
  BY LenProperties
<1> QED
  BY <1>1, <1>2

LEMMA NothingWritten == Primitives(<<>>) = <<>> /\ ToBytes(<<>>) = <<>>
<1> DEFINE none == <<>>
<1>1. none \in Seq(WrittenLeaves) /\ none \in Seq(WrittenItems) /\ Len(none) = 0
  BY EmptySeq
<1> HIDE DEF none
<1>2. Primitives(none) = <<>>
  BY <1>1, PrimitivesSteps
<1>3. ToBytes(none) = <<>>
  BY <1>1, ItemsSteps
<1> QED
  BY <1>2, <1>3 DEF none

LEMMA ItemsOfConcat ==
    ASSUME NEW s \in Seq(WrittenItems), NEW t \in Seq(WrittenItems)
    PROVE  ToBytes(s \o t) = ToBytes(s) \o ToBytes(t)
<1> DEFINE T == {u \in Seq(WrittenItems) : ToBytes(s \o u) = ToBytes(s) \o ToBytes(u)}
           b == ToBytes(s)
<1>1. b \in Seq(Byte)
  BY ItemsType
<1>2. <<>> \in T
  <2>1. s \o <<>> = s /\ b \o <<>> = b
    BY <1>1, ConcatEmptySeq
  <2>2. <<>> \in Seq(WrittenItems)
    BY EmptySeq
  <2> HIDE DEF b
  <2>3. ToBytes(s \o <<>>) = b
    BY <2>1 DEF b
  <2>4. ToBytes(s \o <<>>) = b \o ToBytes(<<>>)
    BY <2>1, <2>3, NothingWritten
  <2> QED
    BY <2>2, <2>4 DEF b
<1>3. ASSUME NEW u \in Seq(WrittenItems), NEW x \in WrittenItems, u \in T PROVE Append(u, x) \in T
  <2> DEFINE w == s \o u
             c == ToBytes(u)
             d == WriteItem(x)
             ux == Append(u, x)
  <2>1. w \in Seq(WrittenItems) /\ c \in Seq(Byte) /\ d \in Seq(Byte) /\ ux \in Seq(WrittenItems)
    BY ConcatProperties, ItemsType, WrittenItem, AppendProperties
  <2>2. s \o ux = Append(w, x)
    BY ConcatOfAppend
  <2>3. ToBytes(w) = b \o c
    BY <1>3
  <2>4. ToBytes(ux) = c \o d
    BY ItemsOfAppend
  <2> HIDE DEF w, b, c, d, ux
  <2>5. ToBytes(Append(w, x)) = ToBytes(w) \o d
    BY <2>1, ItemsOfAppend DEF d
  <2>6. (b \o c) \o d = b \o (c \o d)
    BY <1>1, <2>1, BytesAssociative
  <2>7. ToBytes(s \o ux) = b \o ToBytes(ux)
    BY <2>2, <2>3, <2>4, <2>5, <2>6
  <2> QED
    BY <2>1, <2>7 DEF b, ux
<1>4. Seq(WrittenItems) \subseteq T
  <2> HIDE DEF T
  <2> QED
    BY <1>2, <1>3, InductionOnSeq
<1> QED
  BY <1>4

\* The first item and the rest.
LEMMA ItemsFromHead ==
    ASSUME NEW s \in Seq(WrittenItems), s # <<>>
    PROVE  /\ Head(s) \in WrittenItems /\ Tail(s) \in Seq(WrittenItems)
           /\ ToBytes(Tail(s)) \in Seq(Byte)
           /\ ToBytes(s) = WriteItem(Head(s)) \o ToBytes(Tail(s))
<1> DEFINE x == Head(s)
           t == Tail(s)
           one == <<x>>
           none == <<>>
<1>1. /\ x \in WrittenItems /\ t \in Seq(WrittenItems)
      /\ Len(t) = Len(s) - 1 /\ \A i \in 1..Len(t) : t[i] = s[i + 1]
  BY HeadTailProperties
<1>2. x = s[1]
  OBVIOUS
<1>3. one \in Seq(WrittenItems) /\ Len(one) = 1 /\ one[1] = x
  BY <1>1, OneByte
<1> HIDE DEF x, t
<1>4. s = one \o t
  <2> DEFINE u == one \o t
             n == Len(s)
  <2>1. n \in Nat
    BY LenProperties
  <2> HIDE DEF one
  <2>2. /\ u \in Seq(WrittenItems) /\ Len(u) = Len(one) + Len(t)
        /\ \A i \in 1..(Len(one) + Len(t)) : u[i] = IF i <= Len(one) THEN one[i] ELSE t[i - Len(one)]
    <3> DEFINE S == WrittenItems
    <3>1. one \in Seq(S) /\ t \in Seq(S)
      BY <1>1, <1>3
    <3> HIDE DEF S
    <3>2. u \in Seq(S) /\ Len(u) = Len(one) + Len(t)
      BY <3>1, ConcatProperties
    <3>3. \A i \in 1..(Len(one) + Len(t)) : u[i] = IF i <= Len(one) THEN one[i] ELSE t[i - Len(one)]
      BY <3>1, ConcatProperties
    <3> QED
      BY <3>2, <3>3 DEF S
  <2> HIDE DEF u, n
  <2>3. Len(t) = n - 1 /\ Len(one) + Len(t) = n /\ Len(u) = n
    BY <1>1, <1>3, <2>1, <2>2 DEF n
  <2>4. ASSUME NEW i \in 1..n PROVE s[i] = u[i]
    <3>1. u[i] = IF i <= 1 THEN one[i] ELSE t[i - 1]
      BY <1>3, <2>2, <2>3
    <3>2. CASE i = 1
      BY <1>2, <1>3, <3>1, <3>2
    <3>3. CASE i # 1
      <4> DEFINE j == i - 1
      <4>1. j \in 1..Len(t) /\ j + 1 = i /\ ~(i <= 1)
        BY <2>1, <2>3, <3>3
      <4>2. u[i] = t[j]
        BY <3>1, <4>1
      <4> HIDE DEF j
      <4>3. t[j] = s[j + 1]
        BY <1>1, <4>1
      <4> QED
        BY <4>1, <4>2, <4>3
    <3> QED
      BY <3>2, <3>3
  <2>5. s = u
    BY <2>2, <2>3, <2>4, SeqEqual DEF n
  <2> QED
    BY <2>5 DEF u
<1>5. ToBytes(one) = WriteItem(x)
  <2>1. none \in Seq(WrittenItems) /\ Append(none, x) = one
    BY EmptySeq
  <2>2. WriteItem(x) \in Seq(Byte)
    BY <1>1, WrittenItem
  <2> DEFINE d == WriteItem(x)
  <2>3. <<>> \o d = d
    BY <2>2, ConcatEmptySeq
  <2>4. ToBytes(<<>>) = <<>>
    BY NothingWritten
  <2>5. ToBytes(none) = <<>>
    BY <2>4
  <2> HIDE DEF none, one
  <2>6. ToBytes(Append(none, x)) = ToBytes(none) \o d
    BY <1>1, <2>1, ItemsOfAppend
  <2> HIDE DEF d
  <2>7. ToBytes(one) = <<>> \o d
    BY <2>1, <2>5, <2>6
  <2>8. ToBytes(one) = d
    BY <2>3, <2>7
  <2> QED
    BY <2>8 DEF d
<1>6. ToBytes(one \o t) = ToBytes(one) \o ToBytes(t)
  <2> HIDE DEF one
  <2> QED
    BY <1>1, <1>3, ItemsOfConcat
<1>7. ToBytes(t) \in Seq(Byte)
  BY <1>1, ItemsType
<1>8. ToBytes(s) = ToBytes(one \o t)
  <2> HIDE DEF one
  <2> QED
    BY <1>4
<1>9. ToBytes(s) = WriteItem(x) \o ToBytes(t)
  <2> HIDE DEF one
  <2> QED
    BY <1>5, <1>6, <1>8
<1> QED
  BY <1>1, <1>7, <1>9 DEF x, t

\* Primitive items are written the same inside a constructed one.
LEMMA InnerItems ==
    ASSUME NEW s \in Seq(WrittenLeaves)
    PROVE  s \in Seq(WrittenItems) /\ ToBytes(s) = Primitives(s)
<1> DEFINE T == {u \in Seq(WrittenLeaves) : ToBytes(u) = Primitives(u)}
<1>1. \A u \in Seq(WrittenLeaves) : u \in Seq(WrittenItems)
  <2>1. WrittenLeaves \subseteq WrittenItems
    BY WrittenLeaf
  <2> QED
    BY <2>1, SeqMonotonic
<1>2. <<>> \in T
  BY NothingWritten, EmptySeq
<1>3. ASSUME NEW u \in Seq(WrittenLeaves), NEW x \in WrittenLeaves, u \in T PROVE Append(u, x) \in T
  <2>1. u \in Seq(WrittenItems) /\ x \in WrittenItems
    BY <1>1, WrittenLeaf
  <2>2. ToBytes(Append(u, x)) = ToBytes(u) \o WriteItem(x)
    BY <2>1, ItemsOfAppend
  <2>3. Primitives(Append(u, x)) = Primitives(u) \o WritePrimitive(x.tag, x.value)
    BY PrimitivesOfAppend
  <2>4. WriteItem(x) = WritePrimitive(x.tag, x.value)
    BY WrittenLeaf
  <2>5. ToBytes(u) = Primitives(u)
    BY <1>3
  <2>6. ToBytes(Append(u, x)) = Primitives(Append(u, x))
    BY <2>2, <2>3, <2>4, <2>5
  <2>7. Append(u, x) \in Seq(WrittenLeaves)
    BY AppendProperties
  <2> QED
    BY <2>6, <2>7
<1>4. Seq(WrittenLeaves) \subseteq T
  <2> HIDE DEF T
  <2> QED
    BY <1>2, <1>3, InductionOnSeq
<1> QED
  BY <1>1, <1>4

-----------------------------------------------------------------------------
(* The inductive invariant *)

\* As long as no read failed, what is left to read are items that the writer
\* takes.  InStep alone says nothing of their lengths, without which the
\* reader's next length could be any.
TodoInv == ~strayed => todo \in Seq(WrittenItems)
IInv == TypeOK /\ TodoInv /\ InStep

LEMMA Initially == Init => IInv
<1> SUFFICES ASSUME Init PROVE IInv
  OBVIOUS
<1>1. pos = 0 /\ last = Nil
  BY DEF Init
<1>2. last.ok \in BOOLEAN /\ last.value \in Seq(Byte) /\ last.number \in Int
  <2>1. last.ok = TRUE /\ last.value = <<>> /\ last.number = 0
    BY <1>1 DEF Nil
  <2>2. last.ok \in BOOLEAN
    BY <2>1
  <2> QED
    BY <2>1, <2>2, EmptySeq
<1>3. CASE todo \in Documents /\ buffer = ToBytes(todo) /\ strayed = FALSE
  <2>1. /\ todo \in Seq(Leaf \cup Nested)
        /\ \A i \in DOMAIN todo : /\ IsWritten(todo[i])
                                  /\ \A j \in DOMAIN todo[i].inner : IsWritten(todo[i].inner[j])
    BY <1>3, DocumentAssumption DEF DocumentAssumption
  <2>2. todo \in Seq(WrittenItems)
    <3> DEFINE n == Len(todo)
               S == Leaf \cup Nested
    <3>1. n \in Nat /\ DOMAIN todo = 1..n /\ todo \in [1..n -> S]
      BY <2>1, LenProperties
    <3>2. ASSUME NEW i \in 1..n PROVE todo[i] \in WrittenItems
      <4>1. todo[i] \in S
        <5> HIDE DEF S
        <5> QED
          BY <3>1
      <4>2. i \in DOMAIN todo
        BY <3>1
      <4> DEFINE x == todo[i]
      <4>3. IsWritten(x) /\ \A j \in DOMAIN x.inner : IsWritten(x.inner[j])
        BY <2>1, <4>2
      <4>4. x \in Leaf \cup Nested
        BY <4>1
      <4> HIDE DEF x
      <4>5. x \in WrittenItems
        BY <4>3, <4>4 DEF WrittenItems
      <4> QED
        BY <4>5 DEF x
    <3> HIDE DEF n, S
    <3>3. todo \in [1..n -> WrittenItems]
      BY <3>1, <3>2
    <3> QED
      BY <3>1, <3>3
  <2>3. buffer \in Seq(Byte)
    BY <1>3, <2>2, ItemsType
  <2>4. SubSeq(buffer, 1, Len(buffer)) = buffer
    BY <2>3, SubSeqFull
  <2>5. InStep
    <3>1. pos + 1 = 1
      BY <1>1
    <3> QED
      BY <1>3, <2>4, <3>1 DEF InStep
  <2>6. TypeOK
    <3>1. pos \in 0..Len(buffer)
      BY <1>1, <2>3, LenProperties
    <3>2. strayed \in BOOLEAN
      BY <1>3
    <3> QED
      BY <1>2, <2>3, <3>1, <3>2 DEF TypeOK
  <2> QED
    BY <2>2, <2>5, <2>6 DEF IInv, TodoInv
<1>4. CASE todo = <<>> /\ buffer \in Foreign /\ strayed = TRUE
  <2>1. buffer \in Seq(Byte)
    BY <1>4, DocumentAssumption DEF DocumentAssumption
  <2>2. pos \in 0..Len(buffer)
    BY <1>1, <2>1, LenProperties
  <2>3. strayed \in BOOLEAN
    BY <1>4
  <2>4. TypeOK
    BY <1>2, <2>1, <2>2, <2>3 DEF TypeOK
  <2> QED
    BY <1>4, <2>4 DEF IInv, TodoInv, InStep
<1> QED
  BY <1>3, <1>4 DEF Init

\* What a call has to return for its step to keep the invariant.
Keeps(o, rest) ==
    /\ Fine(buffer, o)
    /\ ~strayed /\ o.result.ok =>
           rest \in Seq(WrittenItems) /\ SubSeq(buffer, o.next + 1, Len(buffer)) = ToBytes(rest)

LEMMA CallKeeps ==
    ASSUME IInv, NEW o, NEW rest, Keeps(o, rest), Calls(o, rest)
    PROVE  IInv'
<1>1. /\ pos' = o.next /\ last' = o.result /\ buffer' = buffer
      /\ strayed' = (strayed \/ ~o.result.ok)
      /\ todo' = IF strayed' THEN todo ELSE rest
  BY DEF Calls
<1>2. /\ buffer \in Seq(Byte) /\ strayed \in BOOLEAN
      /\ o.next \in 0..Len(buffer) /\ o.result.ok \in BOOLEAN
      /\ o.result.value \in Seq(Byte) /\ o.result.number \in Int
  BY DEF IInv, TypeOK, Keeps, Fine
<1>3. strayed' \in BOOLEAN
  BY <1>1, <1>2, Zenon
<1>4. TypeOK'
  BY <1>1, <1>2, <1>3 DEF TypeOK
<1>5. ASSUME ~strayed'
      PROVE  todo' \in Seq(WrittenItems) /\ SubSeq(buffer', pos' + 1, Len(buffer')) = ToBytes(todo')
  <2>1. ~strayed /\ o.result.ok
    BY <1>1, <1>5
  <2>2. rest \in Seq(WrittenItems) /\ SubSeq(buffer, o.next + 1, Len(buffer)) = ToBytes(rest)
    BY <2>1 DEF Keeps
  <2>3. todo' = rest
    BY <1>1, <1>5
  <2> QED
    BY <1>1, <2>2, <2>3
<1> QED
  BY <1>4, <1>5 DEF IInv, TodoInv, InStep

\* A reader in step, before the first item that is left.
LEMMA BeforeItem ==
    ASSUME IInv, ~strayed, todo # <<>>
    PROVE  /\ Head(todo) \in WrittenItems /\ Tail(todo) \in Seq(WrittenItems)
           /\ pos < Len(buffer) /\ buffer[pos + 1] = Head(todo).tag
           /\ Reaches(buffer, Enter(buffer, pos, Head(todo).tag), Got(<<>>, Len(Content(Head(todo)))),
                      Content(Head(todo)) \o ToBytes(Tail(todo)))
           /\ Reaches(buffer, Read(buffer, pos, Head(todo).tag), Got(Content(Head(todo)), 0),
                      ToBytes(Tail(todo)))
           /\ \A t : t # Head(todo).tag =>
                  ~Enter(buffer, pos, t).result.ok /\ ~Read(buffer, pos, t).result.ok
<1> DEFINE x == Head(todo)
           t == Tail(todo)
           rest == ToBytes(t)
           tag == x.tag
           value == Content(x)
<1>1. /\ buffer \in Seq(Byte) /\ pos \in 0..Len(buffer) /\ todo \in Seq(WrittenItems)
      /\ SubSeq(buffer, pos + 1, Len(buffer)) = ToBytes(todo)
  BY DEF IInv, TypeOK, TodoInv, InStep
<1>2. /\ x \in WrittenItems /\ t \in Seq(WrittenItems) /\ rest \in Seq(Byte)
      /\ ToBytes(todo) = WriteItem(x) \o rest
  BY <1>1, ItemsFromHead
<1> HIDE DEF x, t, rest
<1>3. /\ tag \in Byte /\ value \in Seq(Byte) /\ Len(value) < Power[4]
      /\ WriteItem(x) = WritePrimitive(tag, value) /\ WriteItem(x) \in Seq(Byte)
  BY <1>2, ItemForm
<1> HIDE DEF tag, value
<1>4. Follow(buffer, pos, WritePrimitive(tag, value), rest)
  BY <1>1, <1>2, <1>3 DEF Follow
<1>5. /\ pos < Len(buffer) /\ buffer[pos + 1] = tag
      /\ Reaches(buffer, Enter(buffer, pos, tag), Got(<<>>, Len(value)), value \o rest)
      /\ Reaches(buffer, Read(buffer, pos, tag), Got(value, 0), rest)
      /\ \A u : u # tag => ~Enter(buffer, pos, u).result.ok /\ ~Read(buffer, pos, u).result.ok
  BY <1>1, <1>2, <1>3, <1>4, ReadReadBack
<1> QED
  BY <1>2, <1>5 DEF x, t, rest, tag, value

\* A reader in step with nothing left is at the end, where nothing can be read.
LEMMA BeforeNothing ==
    ASSUME IInv, ~strayed, todo = <<>>, NEW tag
    PROVE  ~Enter(buffer, pos, tag).result.ok /\ ~Read(buffer, pos, tag).result.ok
<1>1. /\ buffer \in Seq(Byte) /\ pos \in 0..Len(buffer)
      /\ SubSeq(buffer, pos + 1, Len(buffer)) = <<>>
  BY NothingWritten DEF IInv, TypeOK, InStep
<1> DEFINE u == SubSeq(buffer, pos + 1, Len(buffer))
           n == Len(buffer)
           e == Enter(buffer, pos, tag)
<1>2. u \in Seq(Byte) /\ Len(u) = n - pos
  BY <1>1, SuffixProperties
<1>3. Len(u) = 0
  BY <1>1, EmptySeq
<1>4. n \in Nat /\ pos \in 0..n
  BY <1>1, LenProperties
<1> HIDE DEF u, n
<1>5. pos = n
  BY <1>2, <1>3, <1>4
<1>6. ~e.result.ok
  BY <1>1, <1>5, EnterNothing DEF n
<1>7. Read(buffer, pos, tag) = Value(buffer, e)
  BY DEF Read
<1> HIDE DEF e
<1>8. Value(buffer, e) = e
  BY <1>6 DEF Value
<1> QED
  BY <1>6, <1>7, <1>8 DEF e

\* A read that succeeds read the first item.
LEMMA ReadKeeps ==
    ASSUME IInv, NEW tag
    PROVE  Keeps(Read(buffer, pos, tag), Tail(todo))
<1> DEFINE r == Read(buffer, pos, tag)
<1>1. Fine(buffer, r)
  BY ReadType DEF IInv, TypeOK, Counted
<1>2. ASSUME ~strayed, r.result.ok
      PROVE  Tail(todo) \in Seq(WrittenItems) /\ SubSeq(buffer, r.next + 1, Len(buffer)) = ToBytes(Tail(todo))
  <2>1. todo # <<>>
    BY <1>2, BeforeNothing
  <2>2. tag = Head(todo).tag
    BY <1>2, <2>1, BeforeItem
  <2>3. Tail(todo) \in Seq(WrittenItems)
    BY <1>2, <2>1, BeforeItem
  <2>4. Reaches(buffer, r, Got(Content(Head(todo)), 0), ToBytes(Tail(todo)))
    BY <1>2, <2>1, <2>2, BeforeItem
  <2> HIDE DEF r
  <2> QED
    BY <2>3, <2>4 DEF Reaches
<1> QED
  BY <1>1, <1>2 DEF Keeps

\* A result made of the bytes read is no more than they are.
LEMMA InterpretedKeeps ==
    ASSUME NEW r, NEW s, NEW v, NEW rest, Keeps(r, rest), Fine(buffer, s),
           s = IF r.result.ok THEN At(r.next, v) ELSE r
    PROVE  Keeps(s, rest)
<1>1. ASSUME ~strayed, s.result.ok
      PROVE  rest \in Seq(WrittenItems) /\ SubSeq(buffer, s.next + 1, Len(buffer)) = ToBytes(rest)
  <2>1. r.result.ok
    BY <1>1
  <2>2. s = At(r.next, v)
    BY <2>1
  <2>3. s.next = r.next
    BY <2>2 DEF At
  <2>4. rest \in Seq(WrittenItems) /\ SubSeq(buffer, r.next + 1, Len(buffer)) = ToBytes(rest)
    BY <1>1, <2>1 DEF Keeps
  <2> QED
    BY <2>3, <2>4
<1> QED
  BY <1>1 DEF Keeps

LEMMA SkipKeeps ==
    ASSUME IInv
    PROVE  Keeps(Skip(buffer, pos), Tail(todo))
<1> DEFINE r == Read(buffer, pos, buffer[pos + 1])
           s == Skip(buffer, pos)
           rest == Tail(todo)
<1>1. Fine(buffer, s)
  BY SkipType DEF IInv, TypeOK, Counted
<1>2. Keeps(r, rest)
  BY ReadKeeps
<1>3. CASE pos >= Len(buffer)
  <2>1. s = At(pos, Err)
    BY <1>3 DEF Skip
  <2> HIDE DEF s, rest
  <2>2. s.result.ok = FALSE
    BY <2>1 DEF At, Err
  <2>3. Keeps(s, rest)
    BY <1>1, <2>2 DEF Keeps
  <2> QED
    BY <2>3 DEF s, rest
<1>4. CASE ~(pos >= Len(buffer))
  <2>1. s = IF r.result.ok THEN At(r.next, Nil) ELSE r
    BY <1>4 DEF Skip, Interpreted
  <2> HIDE DEF r, s, rest
  <2>2. Keeps(s, rest)
    BY <1>1, <1>2, <2>1, InterpretedKeeps
  <2> QED
    BY <2>2 DEF s, rest
<1> QED
  BY <1>3, <1>4

LEMMA BooleanKeeps ==
    ASSUME IInv
    PROVE  Keeps(Interpreted(Read(buffer, pos, TLV_BOOL), Boolean), Tail(todo))
<1> DEFINE r == Read(buffer, pos, TLV_BOOL)
           s == Interpreted(r, Boolean)
           v == Boolean(r.result.value)
           rest == Tail(todo)
<1>1. Fine(buffer, s)
  BY BooleanType DEF IInv, TypeOK, Counted
<1>2. Keeps(r, rest)
  BY ReadKeeps
<1>3. s = IF r.result.ok THEN At(r.next, v) ELSE r
  BY DEF Interpreted
<1> HIDE DEF r, s, v, rest
<1>4. Keeps(s, rest)
  BY <1>1, <1>2, <1>3, InterpretedKeeps
<1> QED
  BY <1>4 DEF s, r, rest

LEMMA IntegerKeeps ==
    ASSUME IInv
    PROVE  Keeps(Interpreted(Read(buffer, pos, TLV_INT), Integer), Tail(todo))
<1> DEFINE r == Read(buffer, pos, TLV_INT)
           s == Interpreted(r, Integer)
           v == Integer(r.result.value)
           rest == Tail(todo)
<1>1. Fine(buffer, s)
  BY IntegerType DEF IInv, TypeOK
<1>2. Keeps(r, rest)
  BY ReadKeeps
<1>3. s = IF r.result.ok THEN At(r.next, v) ELSE r
  BY DEF Interpreted
<1> HIDE DEF r, s, v, rest
<1>4. Keeps(s, rest)
  BY <1>1, <1>2, <1>3, InterpretedKeeps
<1> QED
  BY <1>4 DEF s, r, rest

\* Entering a constructed item leaves the items in it, and those behind it.
LEMMA EnterKeeps ==
    ASSUME IInv, NEW tag, ~strayed /\ todo # <<>> => IsConstructed(Head(todo))
    PROVE  Keeps(Enter(buffer, pos, tag), Head(todo).inner \o Tail(todo))
<1> DEFINE o == Enter(buffer, pos, tag)
           x == Head(todo)
           t == Tail(todo)
           inner == x.inner
<1>1. Fine(buffer, o)
  BY EnterType DEF IInv, TypeOK, Counted
<1>2. ASSUME ~strayed, o.result.ok
      PROVE  inner \o t \in Seq(WrittenItems) /\ SubSeq(buffer, o.next + 1, Len(buffer)) = ToBytes(inner \o t)
  <2>1. todo # <<>>
    BY <1>2, BeforeNothing
  <2>2. tag = x.tag
    BY <1>2, <2>1, BeforeItem
  <2>3. x \in WrittenItems /\ t \in Seq(WrittenItems)
    BY <1>2, <2>1, BeforeItem
  <2>4. Reaches(buffer, o, Got(<<>>, Len(Content(x))), Content(x) \o ToBytes(t))
    BY <1>2, <2>1, <2>2, BeforeItem
  <2>5. Content(x) = Primitives(inner)
    BY <1>2, <2>1 DEF Content
  <2> HIDE DEF o, x, t
  <2>6. inner \in Seq(WrittenLeaves)
    BY <2>3, ItemForm
  <2> HIDE DEF inner
  <2>7. inner \in Seq(WrittenItems) /\ ToBytes(inner) = Primitives(inner)
    BY <2>6, InnerItems
  <2>8. ToBytes(inner \o t) = ToBytes(inner) \o ToBytes(t)
    BY <2>3, <2>7, ItemsOfConcat
  <2>9. inner \o t \in Seq(WrittenItems)
    BY <2>3, <2>7, ConcatProperties
  <2>10. SubSeq(buffer, o.next + 1, Len(buffer)) = Content(x) \o ToBytes(t)
    BY <2>4 DEF Reaches
  <2> QED
    BY <2>5, <2>7, <2>8, <2>9, <2>10
<1> HIDE DEF o
<1>3. Keeps(o, inner \o t)
  BY <1>1, <1>2 DEF Keeps
<1> QED
  BY <1>3 DEF o

LEMMA Inductive == IInv /\ [Next]_vars => IInv'
<1> SUFFICES ASSUME IInv, [Next]_vars PROVE IInv'
  OBVIOUS
<1>1. ASSUME NEW tag \in Tags, ReadPrimitive(tag) PROVE IInv'
  <2> DEFINE o == Read(buffer, pos, tag)
             rest == Tail(todo)
  <2>1. Keeps(o, rest) /\ Calls(o, rest)
    BY <1>1, ReadKeeps DEF ReadPrimitive
  <2> HIDE DEF o, rest
  <2> QED
    BY <2>1, CallKeeps
<1>2. ASSUME NEW tag \in Tags, EnterConstructed(tag) PROVE IInv'
  <2> DEFINE o == Enter(buffer, pos, tag)
             rest == Head(todo).inner \o Tail(todo)
             Leafed == ~strayed /\ todo # <<>> /\ ~IsConstructed(Head(todo))
  <2>1. CASE Leafed
    <3>1. pos' = o.next /\ last' = o.result /\ strayed' = TRUE /\ buffer' = buffer /\ todo' = todo
      BY <1>2, <2>1 DEF EnterConstructed
    <3>2. Fine(buffer, o) /\ buffer \in Seq(Byte)
      BY EnterType DEF IInv, TypeOK, Counted
    <3> HIDE DEF o
    <3>3. strayed' \in BOOLEAN
      BY <3>1
    <3>4. TypeOK'
      BY <3>1, <3>2, <3>3 DEF TypeOK, Fine
    <3> QED
      BY <3>1, <3>4 DEF IInv, TodoInv, InStep
  <2>2. CASE ~Leafed
    <3>1. Calls(o, rest)
      BY <1>2, <2>2 DEF EnterConstructed
    <3>2. Keeps(o, rest)
      BY <2>2, EnterKeeps
    <3> HIDE DEF o, rest
    <3> QED
      BY <3>1, <3>2, CallKeeps
  <2> QED
    BY <2>1, <2>2
<1>3. CASE ReadBoolean
  <2> DEFINE o == Interpreted(Read(buffer, pos, TLV_BOOL), Boolean)
             rest == Tail(todo)
  <2>1. Keeps(o, rest)
    BY BooleanKeeps
  <2>2. Calls(o, rest)
    BY <1>3 DEF ReadBoolean
  <2> HIDE DEF o, rest
  <2> QED
    BY <2>1, <2>2, CallKeeps
<1>4. CASE ReadInteger
  <2> DEFINE o == Interpreted(Read(buffer, pos, TLV_INT), Integer)
             rest == Tail(todo)
  <2>1. Keeps(o, rest)
    BY IntegerKeeps
  <2>2. Calls(o, rest)
    BY <1>4 DEF ReadInteger
  <2> HIDE DEF o, rest
  <2> QED
    BY <2>1, <2>2, CallKeeps
<1>5. CASE SkipPrimitive
  <2> DEFINE o == Skip(buffer, pos)
             rest == Tail(todo)
  <2>1. Keeps(o, rest) /\ Calls(o, rest)
    BY <1>5, SkipKeeps DEF SkipPrimitive
  <2> HIDE DEF o, rest
  <2> QED
    BY <2>1, CallKeeps
<1>6. CASE UNCHANGED vars
  BY <1>6 DEF vars, IInv, TypeOK, TodoInv, InStep
<1> QED
  BY <1>1, <1>2, <1>3, <1>4, <1>5, <1>6 DEF Next

-----------------------------------------------------------------------------
(* Theorems *)

THEOREM Invariance == Spec => []IInv
<1> QED
  BY Initially, Inductive, PTL DEF Spec

\* On any bytes, written or foreign, and after any calls, the reader stays in
\* the buffer and returns bytes of it and a number.
THEOREM TypeCorrect == Spec => []TypeOK
<1>1. IInv => TypeOK
  BY DEF IInv
<1> QED
  BY <1>1, Invariance, PTL

\* As long as no read fails, what is left in the buffer is what the writer made
\* of the items that are left (Reader and Writer of tlv.go): no call consumes
\* more or less than the item it is for.
THEOREM InStepSafety == Spec => []InStep
<1>1. IInv => InStep
  BY DEF IInv
<1> QED
  BY <1>1, Invariance, PTL

\* The calls that read an item of its kind, from a reader in step.
LEMMA IntegerRead ==
    ASSUME IInv, ~strayed, todo # <<>>, Head(todo).kind = "integer", ReadInteger
    PROVE  ~strayed' /\ last' = Stored(Head(todo))
<1> DEFINE x == Head(todo)
           n == x.number
           v == x.value
           r == Read(buffer, pos, TLV_INT)
           o == Interpreted(r, Integer)
           rest == ToBytes(Tail(todo))
<1>1. x \in WrittenItems /\ x.kind = "integer"
  BY BeforeItem
<1>2. /\ x.tag = TLV_INT
      /\ Reaches(buffer, Read(buffer, pos, x.tag), Got(Content(x), 0), rest)
      /\ Calls(o, Tail(todo))
  <2>1. x.tag = TLV_INT
    BY <1>1 DEF WrittenItems, IsWritten
  <2> QED
    BY <2>1, BeforeItem DEF ReadInteger
<1> HIDE DEF x, rest
<1>3. /\ n \in (-(Power[4] \div 2))..(Power[4] \div 2 - 1)
      /\ v = IntegerBytes(n)
  BY <1>1 DEF WrittenItems, IsWritten
<1>4. Content(x) = v
  <2>1. x.inner = <<>>
    BY <1>1 DEF WrittenItems, Leaf, Nested
  <2> QED
    BY <2>1 DEF Content, IsConstructed
<1>5. r.result = Got(v, 0)
  BY <1>2, <1>4 DEF Reaches
<1>6. Integer(v) = Got(v, n)
  <2>1. n \in Int /\ -(Power[4] \div 2) <= n /\ n < Power[4] \div 2
    <3> DEFINE h == Power[4] \div 2
    <3>1. h \in Nat /\ n \in (-h)..(h - 1)
      BY <1>3, HalfRange
    <3> HIDE DEF h, n
    <3>2. n \in Int /\ -h <= n /\ n < h
      BY <3>1
    <3> QED
      BY <3>2 DEF h
  <2>2. Len(v) \in 1..4 /\ Signed(FromBytes(v)) = n
    <3> HIDE DEF n, v
    <3> QED
      BY <1>3, <2>1, IntegerReadBack
  <2> QED
    BY <2>2 DEF Integer
<1>7. Stored(x) = Got(v, n)
  BY <1>1 DEF Stored
<1> HIDE DEF v, n, r
<1>8. r.result.ok = TRUE /\ r.result.value = v
  BY <1>5 DEF Got
<1>9. o.result = Got(v, n)
  BY <1>6, <1>8 DEF Interpreted, At
<1>10. o.result.ok = TRUE
  <2> HIDE DEF o
  <2> QED
    BY <1>9 DEF Got
<1> HIDE DEF o
<1>11. strayed' = (strayed \/ ~o.result.ok) /\ last' = o.result
  BY <1>2 DEF Calls
<1> QED
  BY <1>7, <1>9, <1>10, <1>11 DEF x

LEMMA BooleanRead ==
    ASSUME IInv, ~strayed, todo # <<>>, Head(todo).kind = "boolean", ReadBoolean
    PROVE  ~strayed' /\ last' = Stored(Head(todo))
<1> DEFINE x == Head(todo)
           n == x.number
           v == x.value
           r == Read(buffer, pos, TLV_BOOL)
           o == Interpreted(r, Boolean)
           rest == ToBytes(Tail(todo))
<1>1. x \in WrittenItems /\ x.kind = "boolean"
  BY BeforeItem
<1>2. /\ x.tag = TLV_BOOL
      /\ Reaches(buffer, Read(buffer, pos, x.tag), Got(Content(x), 0), rest)
      /\ Calls(o, Tail(todo))
  <2>1. x.tag = TLV_BOOL
    BY <1>1 DEF WrittenItems, IsWritten
  <2> QED
    BY <2>1, BeforeItem DEF ReadBoolean
<1> HIDE DEF x, rest
<1>3. n \in 0..1 /\ v = <<n * (Base - 1)>>
  BY <1>1 DEF WrittenItems, IsWritten
<1>4. Content(x) = v
  <2>1. x.inner = <<>>
    BY <1>1 DEF WrittenItems, Leaf, Nested
  <2> QED
    BY <2>1 DEF Content, IsConstructed
<1>5. r.result = Got(v, 0)
  BY <1>2, <1>4 DEF Reaches
<1>6. Boolean(v) = Got(v, n)
  <2> DEFINE b == n * (Base - 1)
  <2>1. b \in Nat /\ n = IF b = Base - 1 THEN 1 ELSE 0
    <3> HIDE DEF n
    <3>1. CASE n = 0
      BY <3>1, BaseFacts
    <3>2. CASE n = 1
      BY <3>2, BaseFacts
    <3> QED
      BY <1>3, <3>1, <3>2
  <2> HIDE DEF b
  <2>2. v = <<b>>
    BY <1>3 DEF b
  <2>3. Len(v) = 1 /\ v[1] = b
    BY <2>1, <2>2, OneByte
  <2> HIDE DEF v, n
  <2> QED
    BY <2>1, <2>3 DEF Boolean
<1>7. Stored(x) = Got(v, n)
  BY <1>1 DEF Stored
<1> HIDE DEF v, n, r
<1>8. r.result.ok = TRUE /\ r.result.value = v
  BY <1>5 DEF Got
<1>9. o.result = Got(v, n)
  BY <1>6, <1>8 DEF Interpreted, At
<1>10. o.result.ok = TRUE
  <2> HIDE DEF o
  <2> QED
    BY <1>9 DEF Got
<1> HIDE DEF o
<1>11. strayed' = (strayed \/ ~o.result.ok) /\ last' = o.result
  BY <1>2 DEF Calls
<1> QED
  BY <1>7, <1>9, <1>10, <1>11 DEF x

LEMMA PrimitiveRead ==
    ASSUME IInv, ~strayed, todo # <<>>, Head(todo).kind = "primitive", ReadPrimitive(Head(todo).tag)
    PROVE  ~strayed' /\ last' = Stored(Head(todo))
<1> DEFINE x == Head(todo)
           o == Read(buffer, pos, x.tag)
           rest == ToBytes(Tail(todo))
<1>1. x \in WrittenItems /\ x.kind = "primitive"
  BY BeforeItem
<1>2. Reaches(buffer, o, Got(Content(x), 0), rest) /\ Calls(o, Tail(todo))
  BY BeforeItem DEF ReadPrimitive
<1> HIDE DEF x, rest, o
<1>3. Content(x) = x.value
  <2>1. x.inner = <<>>
    BY <1>1 DEF WrittenItems, Leaf, Nested
  <2> QED
    BY <2>1 DEF Content, IsConstructed
<1>4. Stored(x) = Got(x.value, 0)
  BY <1>1 DEF Stored
<1>5. o.result = Got(x.value, 0)
  BY <1>2, <1>3 DEF Reaches
<1>6. o.result.ok = TRUE
  BY <1>5 DEF Got
<1>7. strayed' = (strayed \/ ~o.result.ok) /\ last' = o.result
  BY <1>2 DEF Calls
<1> QED
  BY <1>4, <1>5, <1>6, <1>7 DEF x

\* Whatever WriteInteger, WriteBoolean or WritePrimitive wrote is read back with
\* the call of its kind, wherever it is in a document.
THEOREM ReadBack == Spec => ReadsWhatWasWritten
<1> DEFINE item == Head(todo)
           ReadsIt == \/ item.kind = "integer" /\ ReadInteger
                      \/ item.kind = "boolean" /\ ReadBoolean
                      \/ item.kind = "primitive" /\ ReadPrimitive(item.tag)
           A == ~strayed /\ todo # <<>> => (ReadsIt => ~strayed' /\ last' = Stored(item))
<1>1. IInv => [A]_vars
  <2> SUFFICES ASSUME IInv, ~strayed, todo # <<>>, ReadsIt
               PROVE  ~strayed' /\ last' = Stored(item)
    OBVIOUS
  <2> QED
    BY IntegerRead, BooleanRead, PrimitiveRead
<1> QED
  BY <1>1, Invariance, PTL DEF ReadsWhatWasWritten

-----------------------------------------------------------------------------
(* Sequences of whatever, bytes or not *)

IsSeq(s) == s \in Seq({s[i] : i \in 1..Len(s)})

LEMMA SameInterval ==
    ASSUME NEW m \in Nat, NEW n \in Nat, 1..m = 1..n
    PROVE  m = n
<1>1. m # 0 => m \in 1..m
  OBVIOUS
<1>2. n # 0 => n \in 1..n
  OBVIOUS
<1> QED
  BY <1>1, <1>2

LEMMA SeqIsSeq ==
    ASSUME NEW S, NEW s \in Seq(S)
    PROVE  IsSeq(s)
<1> DEFINE R == {s[i] : i \in 1..Len(s)}
<1>1. Len(s) \in Nat /\ s \in [1..Len(s) -> S]
  BY LenProperties
<1>2. s \in [1..Len(s) -> R]
  BY <1>1
<1>3. s \in Seq(R)
  <2> HIDE DEF R
  <2> QED
    BY <1>1, <1>2
<1> QED
  BY <1>3 DEF IsSeq

\* A function on 1..n is a sequence of length n.
LEMMA MadeSeq ==
    ASSUME NEW n \in Nat, NEW f, f = [i \in 1..n |-> f[i]]
    PROVE  IsSeq(f) /\ Len(f) = n
<1> DEFINE R == {f[i] : i \in 1..n}
<1>1. f \in [1..n -> R]
  OBVIOUS
<1>2. f \in Seq(R)
  <2> HIDE DEF R
  <2> QED
    BY <1>1
<1>3. Len(f) = n
  <2>1. DOMAIN f = 1..n /\ DOMAIN f = 1..Len(f) /\ Len(f) \in Nat
    <3> HIDE DEF R
    <3> QED
      BY <1>1, <1>2, LenProperties
  <2> QED
    BY <2>1, SameInterval
<1> QED
  BY <1>2, <1>3, SeqIsSeq

LEMMA SeqFacts ==
    ASSUME NEW s, IsSeq(s)
    PROVE  Len(s) \in Nat /\ DOMAIN s = 1..Len(s) /\ s = [i \in 1..Len(s) |-> s[i]]
  BY LenProperties DEF IsSeq

LEMMA SameSeq ==
    ASSUME NEW s, NEW t, IsSeq(s), IsSeq(t), Len(s) = Len(t), \A i \in 1..Len(s) : s[i] = t[i]
    PROVE  s = t
<1>1. s = [i \in 1..Len(s) |-> s[i]] /\ t = [i \in 1..Len(s) |-> t[i]]
  BY SeqFacts
<1>2. [i \in 1..Len(s) |-> s[i]] = [i \in 1..Len(s) |-> t[i]]
  OBVIOUS
<1> QED
  BY <1>1, <1>2

LEMMA CatSeq ==
    ASSUME NEW s, NEW t, IsSeq(s), IsSeq(t)
    PROVE  /\ IsSeq(s \o t)
           /\ Len(s \o t) = Len(s) + Len(t)
           /\ \A i \in 1..Len(s) : (s \o t)[i] = s[i]
           /\ \A i \in 1..Len(t) : (s \o t)[Len(s) + i] = t[i]
<1> DEFINE R == {s[i] : i \in 1..Len(s)} \cup {t[i] : i \in 1..Len(t)}
<1>1. s \in Seq(R) /\ t \in Seq(R)
  <2>1. {s[i] : i \in 1..Len(s)} \subseteq R /\ {t[i] : i \in 1..Len(t)} \subseteq R
    OBVIOUS
  <2> HIDE DEF R
  <2> QED
    BY <2>1, SeqMonotonic DEF IsSeq
<1> HIDE DEF R
<1>2. Len(s) \in Nat /\ Len(t) \in Nat
  BY SeqFacts
<1>3. /\ s \o t \in Seq(R) /\ Len(s \o t) = Len(s) + Len(t)
      /\ \A i \in 1..(Len(s) + Len(t)) : (s \o t)[i] = IF i <= Len(s) THEN s[i] ELSE t[i - Len(s)]
  BY <1>1, ConcatProperties
<1>4. \A i \in 1..Len(s) : (s \o t)[i] = s[i]
  BY <1>2, <1>3
<1>5. ASSUME NEW i \in 1..Len(t) PROVE (s \o t)[Len(s) + i] = t[i]
  <2>1. Len(s) + i \in 1..(Len(s) + Len(t)) /\ ~(Len(s) + i <= Len(s)) /\ (Len(s) + i) - Len(s) = i
    BY <1>2
  <2> QED
    BY <1>3, <2>1
<1> QED
  BY <1>3, <1>4, <1>5, SeqIsSeq

\* A part that may be empty, inside the sequence.
LEMMA PartSeq ==
    ASSUME NEW s, IsSeq(s), NEW a \in Nat \ {0}, NEW b \in Nat, b <= Len(s), a <= b + 1
    PROVE  /\ IsSeq(SubSeq(s, a, b))
           /\ Len(SubSeq(s, a, b)) = b - a + 1
           /\ \A i \in 1..(b - a + 1) : SubSeq(s, a, b)[i] = s[(a - 1) + i]
<1> DEFINE R == {s[i] : i \in 1..Len(s)}
<1>1. Len(s) \in Nat
  BY SeqFacts
<1>2. \A i \in a..b : s[i] \in R
  <2>1. \A i \in a..b : i \in 1..Len(s)
    BY <1>1
  <2> QED
    BY <2>1
<1> HIDE DEF R
<1>3. a \in Int /\ b \in Int
  OBVIOUS
<1>4. /\ SubSeq(s, a, b) \in Seq(R)
      /\ Len(SubSeq(s, a, b)) = IF a <= b THEN b - a + 1 ELSE 0
      /\ \A i \in 1..(b - a + 1) : SubSeq(s, a, b)[i] = s[a + i - 1]
  BY <1>2, <1>3, SubSeqProperties
<1>5. Len(SubSeq(s, a, b)) = b - a + 1
  BY <1>4
<1>6. ASSUME NEW i \in 1..(b - a + 1) PROVE SubSeq(s, a, b)[i] = s[(a - 1) + i]
  <2>1. a + i - 1 = (a - 1) + i
    OBVIOUS
  <2> QED
    BY <1>4, <2>1
<1> QED
  BY <1>4, <1>5, <1>6, SeqIsSeq

\* The two parts of a concatenation.
LEMMA PartsOfCat ==
    ASSUME NEW s, NEW t, IsSeq(s), IsSeq(t)
    PROVE  /\ SubSeq(s \o t, 1, Len(s)) = s
           /\ SubSeq(s \o t, Len(s) + 1, Len(s) + Len(t)) = t
<1> DEFINE u == s \o t
           m == Len(s)
           n == Len(t)
<1>1. m \in Nat /\ n \in Nat
  BY SeqFacts
<1>2. IsSeq(u) /\ Len(u) = m + n /\ (\A i \in 1..m : u[i] = s[i]) /\ (\A i \in 1..n : u[m + i] = t[i])
  BY CatSeq
<1> HIDE DEF u
<1>3. /\ IsSeq(SubSeq(u, 1, m)) /\ Len(SubSeq(u, 1, m)) = m
      /\ \A i \in 1..m : SubSeq(u, 1, m)[i] = u[i]
  <2>1. 1 \in Nat \ {0} /\ m <= Len(u) /\ 1 <= m + 1 /\ m - 1 + 1 = m /\ \A i \in 1..m : (1 - 1) + i = i
    BY <1>1, <1>2
  <2> HIDE DEF m, n
  <2>2. \A i \in 1..m : SubSeq(u, 1, m)[i] = u[(1 - 1) + i]
    BY <1>1, <1>2, <2>1, PartSeq
  <2> QED
    BY <1>1, <1>2, <2>1, <2>2, PartSeq
<1>4. SubSeq(u, 1, m) = s
  <2>1. \A i \in 1..m : SubSeq(u, 1, m)[i] = s[i]
    BY <1>2, <1>3
  <2> QED
    BY <1>3, <2>1, SameSeq
<1>5. /\ IsSeq(SubSeq(u, m + 1, m + n)) /\ Len(SubSeq(u, m + 1, m + n)) = n
      /\ \A i \in 1..n : SubSeq(u, m + 1, m + n)[i] = u[m + i]
  <2>1. /\ m + 1 \in Nat \ {0} /\ m + n \in Nat /\ m + n <= Len(u) /\ m + 1 <= (m + n) + 1
        /\ (m + n) - (m + 1) + 1 = n /\ (m + 1) - 1 = m
    BY <1>1, <1>2
  <2> HIDE DEF m, n
  <2>2. \A i \in 1..n : SubSeq(u, m + 1, m + n)[i] = u[((m + 1) - 1) + i]
    BY <1>1, <1>2, <2>1, PartSeq
  <2> QED
    BY <1>1, <1>2, <2>1, <2>2, PartSeq
<1>6. SubSeq(u, m + 1, m + n) = t
  <2>1. \A i \in 1..n : SubSeq(u, m + 1, m + n)[i] = t[i]
    BY <1>2, <1>5
  <2> QED
    BY <1>5, <2>1, SameSeq
<1> QED
  BY <1>4, <1>6 DEF u

LEMMA SubSeqWhole ==
    ASSUME NEW s, IsSeq(s)
    PROVE  SubSeq(s, 1, Len(s)) = s
  BY SubSeqFull DEF IsSeq

-----------------------------------------------------------------------------
(* Bytes and numbers *)

Octet == SUBSET {Bit(k) : k \in 0..7}

LEMMA Places ==
    /\ Place[1] = 1 /\ Place[2] = 2 /\ Place[3] = 4 /\ Place[4] = 8
    /\ Place[5] = 16 /\ Place[6] = 32 /\ Place[7] = 64 /\ Place[8] = 128
  BY DEF Place

LEMMA BitInjective == \A j, k \in 0..7 : Bit(j) = Bit(k) => j = k
  BY DEF Bit

LEMMA BitOf ==
    ASSUME NEW n \in Nat
    PROVE  /\ ToByte(n) \in Octet
           /\ \A k \in 0..7 : Bit(k) \in ToByte(n) <=> (n \div Place[k + 1]) % 2 = 1
  BY BitInjective DEF ToByte, Octet

\* The bits of a number, one by one.
LEMMA BitsOf ==
    ASSUME NEW n \in Nat
    PROVE  /\ Bit(0) \in ToByte(n) <=> n % 2 = 1
           /\ Bit(1) \in ToByte(n) <=> (n \div 2) % 2 = 1
           /\ Bit(2) \in ToByte(n) <=> (n \div 4) % 2 = 1
           /\ Bit(3) \in ToByte(n) <=> (n \div 8) % 2 = 1
           /\ Bit(4) \in ToByte(n) <=> (n \div 16) % 2 = 1
           /\ Bit(5) \in ToByte(n) <=> (n \div 32) % 2 = 1
           /\ Bit(6) \in ToByte(n) <=> (n \div 64) % 2 = 1
           /\ Bit(7) \in ToByte(n) <=> (n \div 128) % 2 = 1
<1>1. \A k \in 0..7 : Bit(k) \in ToByte(n) <=> (n \div Place[k + 1]) % 2 = 1
  BY BitOf
<1>2. Bit(0) \in ToByte(n) <=> (n \div Place[1]) % 2 = 1
  BY <1>1
<1>3. n \div 1 = n
  OBVIOUS
<1>4. /\ Bit(1) \in ToByte(n) <=> (n \div Place[2]) % 2 = 1
      /\ Bit(2) \in ToByte(n) <=> (n \div Place[3]) % 2 = 1
      /\ Bit(3) \in ToByte(n) <=> (n \div Place[4]) % 2 = 1
  BY <1>1
<1>5. /\ Bit(4) \in ToByte(n) <=> (n \div Place[5]) % 2 = 1
      /\ Bit(5) \in ToByte(n) <=> (n \div Place[6]) % 2 = 1
      /\ Bit(6) \in ToByte(n) <=> (n \div Place[7]) % 2 = 1
      /\ Bit(7) \in ToByte(n) <=> (n \div Place[8]) % 2 = 1
  BY <1>1
<1> QED
  BY <1>2, <1>3, <1>4, <1>5, Places

\* A number below 256 is the sum of its bits.
LEMMA Eighth ==
    ASSUME NEW n \in 0..255
    PROVE  n = (n % 2) + 2 * ((n \div 2) % 2) + 4 * ((n \div 4) % 2) + 8 * ((n \div 8) % 2)
               + 16 * ((n \div 16) % 2) + 32 * ((n \div 32) % 2) + 64 * ((n \div 64) % 2)
               + 128 * ((n \div 128) % 2)
  OBVIOUS

LEMMA ToByteInjective ==
    ASSUME NEW m \in 0..255, NEW n \in 0..255, ToByte(m) = ToByte(n)
    PROVE  m = n
<1>1. /\ m % 2 = 1 <=> n % 2 = 1
      /\ (m \div 2) % 2 = 1 <=> (n \div 2) % 2 = 1
      /\ (m \div 4) % 2 = 1 <=> (n \div 4) % 2 = 1
      /\ (m \div 8) % 2 = 1 <=> (n \div 8) % 2 = 1
      /\ (m \div 16) % 2 = 1 <=> (n \div 16) % 2 = 1
      /\ (m \div 32) % 2 = 1 <=> (n \div 32) % 2 = 1
      /\ (m \div 64) % 2 = 1 <=> (n \div 64) % 2 = 1
      /\ (m \div 128) % 2 = 1 <=> (n \div 128) % 2 = 1
  BY BitsOf
<1>2. /\ m % 2 = n % 2
      /\ (m \div 2) % 2 = (n \div 2) % 2
      /\ (m \div 4) % 2 = (n \div 4) % 2
      /\ (m \div 8) % 2 = (n \div 8) % 2
      /\ (m \div 16) % 2 = (n \div 16) % 2
      /\ (m \div 32) % 2 = (n \div 32) % 2
      /\ (m \div 64) % 2 = (n \div 64) % 2
      /\ (m \div 128) % 2 = (n \div 128) % 2
  <2>1. \A x, y \in Nat : (x % 2 = 1 <=> y % 2 = 1) => x % 2 = y % 2
    OBVIOUS
  <2>2. \A k \in {2, 4, 8, 16, 32, 64, 128} : (m \div k) \in Nat /\ (n \div k) \in Nat
    OBVIOUS
  <2>3. m \in Nat /\ n \in Nat
    OBVIOUS
  <2> QED
    BY <1>1, <2>1, <2>2, <2>3
<1> QED
  BY <1>2, Eighth

LEMMA ToNumberOf ==
    ASSUME NEW n \in 0..255
    PROVE  ToNumber(ToByte(n)) = n
<1>1. ToNumber(ToByte(n)) \in 0..255 /\ ToByte(ToNumber(ToByte(n))) = ToByte(n)
  BY DEF ToNumber
<1> QED
  BY <1>1, ToByteInjective

\* A length fits its byte as long as it is below LcSpace.
LEMMA LengthOf ==
    ASSUME NEW n \in Nat
    PROVE  /\ LcSpace \in Nat /\ LcSpace >= 2
           /\ n % LcSpace \in 0..255
           /\ ToNumber(Length(n)) = n % LcSpace
           /\ Length(n) \in Octet
           /\ n < LcSpace => n % LcSpace = n
<1>1. LcSpace \in Nat /\ LcSpace >= 2 /\ LcSpace <= 256
  BY LcSpaceAssumption
<1>2. n % LcSpace \in 0..255
  BY <1>1
<1>3. n < LcSpace => n % LcSpace = n
  BY <1>1

<1>4. ToNumber(Length(n)) = n % LcSpace
  BY <1>2, ToNumberOf DEF Length
<1>5. Length(n) \in Octet
  <2>1. n % LcSpace \in Nat
    BY <1>2
  <2> QED
    BY <2>1, BitOf DEF Length
<1> QED
  BY <1>1, <1>2, <1>3, <1>4, <1>5

-----------------------------------------------------------------------------
(* The block cipher *)

IsBlock(b) == b = [i \in 1..BlockLen |-> b[i]]

LEMMA LengthsOfBlocks ==
    /\ BlockLen \in Nat /\ BlockLen >= 5 /\ BlockLen <= LcSpace
    /\ TagLen \in Nat /\ TagLen >= 1 /\ TagLen <= BlockLen
    /\ LcSpace \in Nat /\ LcSpace >= 5
  BY BlockAssumption, LcSpaceAssumption

LEMMA BlockIsSeq ==
    ASSUME NEW b, IsBlock(b)
    PROVE  IsSeq(b) /\ Len(b) = BlockLen /\ DOMAIN b = 1..BlockLen
<1>1. DOMAIN b = 1..BlockLen
  BY DEF IsBlock
<1> QED
  BY <1>1, LengthsOfBlocks, MadeSeq DEF IsBlock

LEMMA SameBlock ==
    ASSUME NEW a, NEW b, IsBlock(a), IsBlock(b), \A i \in 1..BlockLen : a[i] = b[i]
    PROVE  a = b
<1>1. [i \in 1..BlockLen |-> a[i]] = [i \in 1..BlockLen |-> b[i]]
  OBVIOUS
<1> QED
  BY <1>1 DEF IsBlock

\* What a block is made of determines it.
LEMMA BlockMadeOf ==
    ASSUME NEW b, IsBlock(b)
    PROVE  Whole(TermsIn(b), Rest(b)) = b
<1> DEFINE T == TermsIn(b)
           w == Whole(T, Rest(b))
<1>1. DOMAIN b = 1..BlockLen
  BY DEF IsBlock
<1>2. \A t \in T, i \in 1..BlockLen : <<t, i>> \in b[i]
  BY <1>1 DEF TermsIn
<1>3. Rest(b) = [i \in 1..BlockLen |-> b[i] \ {<<t, i>> : t \in T}]
  BY <1>1 DEF Rest
<1> HIDE DEF T
<1>4. w = [i \in 1..BlockLen |-> (b[i] \ {<<t, i>> : t \in T}) \cup {<<t, i>> : t \in T}]
  BY <1>3 DEF Whole
<1>5. \A i \in 1..BlockLen : (b[i] \ {<<t, i>> : t \in T}) \cup {<<t, i>> : t \in T} = b[i]
  BY <1>2
<1>6. IsBlock(w)
  BY <1>4 DEF IsBlock
<1>7. \A i \in 1..BlockLen : w[i] = b[i]
  BY <1>4, <1>5
<1> HIDE DEF w
<1>8. w = b
  BY <1>6, <1>7, SameBlock
<1> QED
  BY <1>8 DEF w, T

LEMMA UnknownIsBlock ==
    ASSUME NEW t
    PROVE  /\ IsBlock(Unknown(t))
           /\ \A i \in 1..BlockLen : Unknown(t)[i] = {<<t, i>>}
  BY DEF Unknown, IsBlock

LEMMA EncryptIsBlock ==
    ASSUME NEW key, NEW b
    PROVE  IsBlock(Encrypt(key, b))
  BY UnknownIsBlock DEF Encrypt

\* One byte of what was encrypted tells key and block.
LEMMA EncryptInjective ==
    ASSUME NEW key, NEW other, NEW a, NEW b, IsBlock(a), IsBlock(b),
           NEW i \in 1..BlockLen, Encrypt(key, a)[i] = Encrypt(other, b)[i]
    PROVE  key = other /\ a = b
<1> DEFINE s == <<key, TermsIn(a), Rest(a)>>
           t == <<other, TermsIn(b), Rest(b)>>
<1>1. {<<s, i>>} = {<<t, i>>}
  <2>1. Encrypt(key, a) = Unknown(s) /\ Encrypt(other, b) = Unknown(t)
    BY DEF Encrypt
  <2> HIDE DEF s, t
  <2> QED
    BY <2>1, UnknownIsBlock
<1>2. s = t
  <2> DEFINE x == <<s, i>>
             y == <<t, i>>
  <2>1. x[1] = s /\ y[1] = t
    OBVIOUS
  <2> HIDE DEF s, t
  <2>2. x = y
    <3>1. {x} = {y}
      BY <1>1
    <3> HIDE DEF x, y
    <3> QED
      BY <3>1
  <2> QED
    BY <2>1, <2>2
<1>3. key = other /\ TermsIn(a) = TermsIn(b) /\ Rest(a) = Rest(b)
  BY <1>2
<1> QED
  BY <1>3, BlockMadeOf

LEMMA DecryptEncrypt ==
    ASSUME NEW key, NEW b, IsBlock(b)
    PROVE  Decrypt(key, Encrypt(key, b)) = b
<1> DEFINE t == <<key, TermsIn(b), Rest(b)>>
           u == Unknown(t)
           made == {s \in TermsIn(u) : s[1] = key /\ Len(s) = 3 /\ u = Unknown(s)}
<1>1. Encrypt(key, b) = u
  BY DEF Encrypt
<1>2. t[1] = key /\ t[2] = TermsIn(b) /\ t[3] = Rest(b) /\ Len(t) = 3
  OBVIOUS
<1> HIDE DEF t
<1>3. DOMAIN u = 1..BlockLen /\ 1 \in 1..BlockLen /\ \A i \in 1..BlockLen : u[i] = {<<t, i>>}
  <2>1. 1 \in 1..BlockLen
    BY LengthsOfBlocks
  <2>2. u = [i \in 1..BlockLen |-> {<<t, i>>}]
    BY DEF Unknown
  <2> QED
    BY <2>1, <2>2
<1>4. TermsIn(u) = {t}
  <2>1. {a[1] : a \in {a \in u[1] : Len(a) = 2}} = {t}
    <3>1. u[1] = {<<t, 1>>}
      BY <1>3
    <3>2. Len(<<t, 1>>) = 2 /\ <<t, 1>>[1] = t
      OBVIOUS
    <3>3. {a \in u[1] : Len(a) = 2} = {<<t, 1>>}
      BY <3>1, <3>2
    <3> QED
      BY <3>2, <3>3
  <2>2. \A i \in DOMAIN u : <<t, i>> \in u[i]
    BY <1>3
  <2> HIDE DEF u
  <2> QED
    BY <2>1, <2>2 DEF TermsIn
<1>5. made = {t}
  <2> HIDE DEF u
  <2> QED
    BY <1>2, <1>4 DEF u
<1>6. Decrypt(key, u) = Whole(t[2], t[3])
  <2>1. (CHOOSE s \in made : TRUE) = t
    BY <1>5
  <2>2. made # {}
    BY <1>5
  <2>3. Decrypt(key, u) = IF made = {} THEN Unknown(<<key, TermsIn(u), Rest(u), "inverse">>)
                          ELSE LET s == CHOOSE s \in made : TRUE IN Whole(s[2], s[3])
    BY DEF Decrypt
  <2> HIDE DEF made, u
  <2> QED
    BY <2>1, <2>2, <2>3
<1> QED
  BY <1>1, <1>2, <1>6, BlockMadeOf

-----------------------------------------------------------------------------
(* Exclusive or *)

LEMMA XorFacts ==
    /\ \A a, b : Xor(Xor(a, b), b) = a
    /\ \A a, b : Xor(a, b) = Xor(b, a)
    /\ \A a, b, c : Xor(a, c) = Xor(b, c) => a = b
    /\ \A a : Xor(a, {}) = a /\ Xor({}, a) = a
    /\ \A a, x : Xor(a, {x}) # a
<1>1. \A a, b : Xor(Xor(a, b), b) = a
  BY DEF Xor
<1>2. \A a, b : Xor(a, b) = Xor(b, a)
  BY DEF Xor
<1>3. \A a : Xor(a, {}) = a /\ Xor({}, a) = a
  BY DEF Xor
<1>4. \A a, x : Xor(a, {x}) # a
  BY DEF Xor
<1>5. \A a, b, c : Xor(a, c) = Xor(b, c) => a = b
  BY <1>1
<1> QED
  BY <1>1, <1>2, <1>3, <1>4, <1>5

LEMMA XorIntoBlock ==
    ASSUME NEW b, IsBlock(b), NEW c
    PROVE  /\ IsBlock(XorInto(b, c))
           /\ \A i \in 1..BlockLen :
                 XorInto(b, c)[i] = IF i <= Len(c) THEN Xor(b[i], c[i]) ELSE b[i]
<1>1. DOMAIN b = 1..BlockLen
  BY DEF IsBlock
<1> QED
  BY <1>1 DEF XorInto, IsBlock

-----------------------------------------------------------------------------
(* Chains *)

LEMMA ChainSteps ==
    ASSUME NEW key, NEW first, NEW blocks, Len(blocks) \in Nat
    PROVE  /\ Chain(key, first, blocks)[0] = first
           /\ \A j \in 1..Len(blocks) :
                 Chain(key, first, blocks)[j] =
                     Encrypt(key, XorInto(Chain(key, first, blocks)[j - 1], blocks[j]))
<1> DEFINE n == Len(blocks)
           Is(g, m) == g = [j \in 0..m |-> IF j = 0 THEN first
                                           ELSE Encrypt(key, XorInto(g[j - 1], blocks[j]))]
           T == {m \in Nat : \E g : Is(g, m)}
<1>1. 0 \in T
  <2> DEFINE g == [j \in 0..0 |-> first]
  <2>1. Is(g, 0)
    OBVIOUS
  <2> HIDE DEF g
  <2> QED
    BY <2>1
<1>2. ASSUME NEW m \in Nat, m \in T PROVE m + 1 \in T
  <2>1. PICK g : Is(g, m)
    BY <1>2
  <2> DEFINE h == [j \in 0..(m + 1) |-> IF j = 0 THEN first
                                        ELSE Encrypt(key, XorInto(g[j - 1], blocks[j]))]
  <2>2. \A j \in 0..m : h[j] = g[j]
    BY <2>1
  <2>3. \A j \in 0..(m + 1) : j # 0 => j - 1 \in 0..m
    OBVIOUS
  <2>4. \A j \in 0..(m + 1) : h[j] = IF j = 0 THEN first
                                     ELSE Encrypt(key, XorInto(h[j - 1], blocks[j]))
    <3> SUFFICES ASSUME NEW j \in 0..(m + 1)
                 PROVE  h[j] = IF j = 0 THEN first ELSE Encrypt(key, XorInto(h[j - 1], blocks[j]))
      OBVIOUS
    <3>1. h[j] = IF j = 0 THEN first ELSE Encrypt(key, XorInto(g[j - 1], blocks[j]))
      OBVIOUS
    <3> HIDE DEF h
    <3>2. CASE j = 0
      BY <3>1, <3>2
    <3>3. CASE j # 0
      <4>1. h[j - 1] = g[j - 1]
        BY <2>2, <2>3, <3>3
      <4> QED
        BY <3>1, <3>3, <4>1
    <3> QED
      BY <3>2, <3>3
  <2>5. h = [j \in 0..(m + 1) |-> h[j]]
    OBVIOUS
  <2> HIDE DEF h
  <2>6. Is(h, m + 1)
    BY <2>4, <2>5
  <2> HIDE DEF Is
  <2> QED
    BY <2>6
<1>3. n \in T
  <2> HIDE DEF T, n
  <2>1. Nat \subseteq T
    BY <1>1, <1>2, InductionOnNat
  <2> QED
    BY <2>1 DEF n
<1> DEFINE c == Chain(key, first, blocks)
<1>4. Is(c, n)
  <2>1. \E g : Is(g, n)
    BY <1>3
  <2> QED
    BY <2>1 DEF Chain
<1> HIDE DEF c
<1>5. 0 \in 0..n /\ \A j \in 1..n : j \in 0..n /\ j # 0
  OBVIOUS
<1>6. c[0] = first /\ \A j \in 1..n : c[j] = Encrypt(key, XorInto(c[j - 1], blocks[j]))
  <2>1. \A j \in 0..n : c[j] = IF j = 0 THEN first ELSE Encrypt(key, XorInto(c[j - 1], blocks[j]))
    BY <1>4
  <2> HIDE DEF Is
  <2> QED
    BY <1>5, <2>1
<1> QED
  BY <1>6 DEF c

LEMMA ChainIsBlocks ==
    ASSUME NEW key, NEW first, IsBlock(first), NEW blocks, Len(blocks) \in Nat
    PROVE  \A j \in 0..Len(blocks) : IsBlock(Chain(key, first, blocks)[j])
<1>1. ASSUME NEW j \in 0..Len(blocks) PROVE IsBlock(Chain(key, first, blocks)[j])
  <2>1. CASE j = 0
    BY <2>1, ChainSteps
  <2>2. CASE j # 0
    <3>1. j \in 1..Len(blocks)
      BY <2>2
    <3> QED
      BY <3>1, ChainSteps, EncryptIsBlock
  <2> QED
    BY <2>1, <2>2
<1> QED
  BY <1>1

-----------------------------------------------------------------------------
(* Blocks *)

\* Byte i is byte k of block j.
LEMMA PlaceOf ==
    ASSUME NEW i \in Nat \ {0}
    PROVE  /\ BlockOf(i) \in Nat \ {0} /\ ByteOf(i) \in 1..BlockLen
           /\ i = (BlockOf(i) - 1) * BlockLen + ByteOf(i)
<1> DEFINE q == (i - 1) \div BlockLen
           r == (i - 1) % BlockLen
<1>1. i - 1 \in Nat /\ BlockLen \in Nat \ {0}
  BY LengthsOfBlocks
<1>2. q \in Nat /\ r \in 0..(BlockLen - 1) /\ i - 1 = q * BlockLen + r
  BY <1>1, Quotient
<1>3. BlockOf(i) = q + 1 /\ ByteOf(i) = r + 1
  BY DEF BlockOf, ByteOf
<1> HIDE DEF q, r
<1>4. (q + 1) - 1 = q
  BY <1>2
<1> QED
  BY <1>1, <1>2, <1>3, <1>4

LEMMA PlaceIn ==
    ASSUME NEW j \in Nat \ {0}, NEW k \in 1..BlockLen
    PROVE  /\ (j - 1) * BlockLen \in Nat /\ (j - 1) * BlockLen + k \in Nat \ {0}
           /\ BlockOf((j - 1) * BlockLen + k) = j /\ ByteOf((j - 1) * BlockLen + k) = k
<1> DEFINE q == j - 1
           m == q * BlockLen
           n == m + (k - 1)
<1>1. q \in Nat /\ BlockLen \in Nat \ {0} /\ j = q + 1
  BY LengthsOfBlocks
<1> HIDE DEF q
<1>2. m \in Nat /\ (q + 1) * BlockLen = m + BlockLen
  BY <1>1
<1>3. n \in Nat /\ m <= n /\ n < m + BlockLen /\ (m + k) - 1 = n
  <2> HIDE DEF m
  <2> QED
    BY <1>1, <1>2
<1>4. n \div BlockLen = q
  BY <1>1, <1>2, <1>3, Quotient
<1>5. n % BlockLen = k - 1
  <2>1. n = (n \div BlockLen) * BlockLen + (n % BlockLen) /\ n % BlockLen \in 0..(BlockLen - 1)
    BY <1>1, <1>3, Quotient
  <2>2. n = m + (n % BlockLen)
    BY <1>4, <2>1
  <2> HIDE DEF m
  <2> QED
    BY <1>1, <1>2, <2>1, <2>2
<1>6. BlockOf(m + k) = q + 1 /\ ByteOf(m + k) = (k - 1) + 1
  BY <1>3, <1>4, <1>5 DEF BlockOf, ByteOf
<1>7. m + k \in Nat \ {0}
  BY <1>2
<1> QED
  BY <1>1, <1>2, <1>6, <1>7 DEF q

\* A block inside the data, whole or not.
LEMMA BlockInside ==
    ASSUME NEW data, IsSeq(data), NEW j \in Nat \ {0}, (j - 1) * BlockLen < Len(data)
    PROVE  /\ IsSeq(Block(data, j))
           /\ Len(Block(data, j)) \in 1..BlockLen
           /\ (j - 1) * BlockLen + Len(Block(data, j)) <= Len(data)
           /\ j * BlockLen <= Len(data) => Len(Block(data, j)) = BlockLen /\ IsBlock(Block(data, j))
           /\ Len(Block(data, j)) # BlockLen => (j - 1) * BlockLen + Len(Block(data, j)) = Len(data)
           /\ \A k \in 1..Len(Block(data, j)) : Block(data, j)[k] = data[(j - 1) * BlockLen + k]
<1> DEFINE q == j - 1
           m == q * BlockLen
           n == Len(data)
           e == IF m + BlockLen < n THEN m + BlockLen ELSE n
           b == Block(data, j)
<1>1. q \in Nat /\ BlockLen \in Nat \ {0} /\ j = q + 1 /\ n \in Nat
  BY LengthsOfBlocks, SeqFacts
<1> HIDE DEF q
<1>2. m \in Nat /\ j * BlockLen = m + BlockLen
  BY <1>1
<1>3. m < n
  BY DEF q
<1>4. b = SubSeq(data, m + 1, e)
  BY <1>2 DEF Block, q
<1> HIDE DEF m, n
<1>5. /\ m + 1 \in Nat \ {0} /\ e \in Nat /\ e <= n /\ m + 1 <= e + 1 /\ (m + 1) - 1 = m
      /\ e - (m + 1) + 1 = e - m /\ e - m \in 1..BlockLen /\ m + (e - m) <= n
      /\ m + BlockLen <= n => e - m = BlockLen
      /\ e - m # BlockLen => m + (e - m) = n
  BY <1>1, <1>2, <1>3
<1> HIDE DEF e, b
<1>6. /\ IsSeq(b) /\ Len(b) = e - (m + 1) + 1
      /\ \A k \in 1..(e - (m + 1) + 1) : b[k] = data[((m + 1) - 1) + k]
  BY <1>4, <1>5, PartSeq DEF n
<1>7. Len(b) = e - m /\ \A k \in 1..(e - m) : b[k] = data[m + k]
  BY <1>5, <1>6
<1>8. Len(b) = BlockLen => IsBlock(b)
  BY <1>6, SeqFacts DEF IsBlock
<1> QED
  BY <1>2, <1>5, <1>6, <1>7, <1>8 DEF b, m, n, q

LEMMA CountBlocks ==
    ASSUME NEW data, IsSeq(data)
    PROVE  /\ NumBlocks(data) \in Nat
           /\ \A j \in 1..NumBlocks(data) : j \in Nat \ {0} /\ (j - 1) * BlockLen < Len(data)
           /\ \A i \in 1..Len(data) :
                 BlockOf(i) \in 1..NumBlocks(data) /\ ByteOf(i) \in 1..Len(Block(data, BlockOf(i)))
           /\ \A m \in Nat : Len(data) = m * BlockLen => NumBlocks(data) = m
<1> DEFINE n == Len(data)
           N == NumBlocks(data)
<1>1. n \in Nat /\ BlockLen \in Nat \ {0}
  BY LengthsOfBlocks, SeqFacts
<1> HIDE DEF n
<1>2. n + BlockLen - 1 \in Nat
  BY <1>1
<1>3. N \in Nat /\ N * BlockLen <= n + BlockLen - 1 /\ n + BlockLen - 1 < N * BlockLen + BlockLen
  <2> DEFINE a == n + BlockLen - 1
             r == a % BlockLen
  <2>1. N = a \div BlockLen
    BY DEF NumBlocks, n
  <2>2. N \in Nat /\ r \in 0..(BlockLen - 1) /\ a = N * BlockLen + r
    BY <1>1, <1>2, <2>1, Quotient
  <2> HIDE DEF N, r
  <2>3. N * BlockLen \in Nat
    BY <1>1, <2>2
  <2> QED
    BY <1>1, <2>2, <2>3
<1>4. ASSUME NEW j \in 1..N PROVE j \in Nat \ {0} /\ (j - 1) * BlockLen < n
  <2> HIDE DEF N
  <2>1. j \in Nat \ {0} /\ j <= N
    BY <1>3
  <2>2. j * BlockLen <= N * BlockLen
    BY <1>1, <1>3, <2>1
  <2>3. (j - 1) * BlockLen = j * BlockLen - BlockLen /\ j * BlockLen \in Nat
    BY <1>1, <2>1
  <2>4. N * BlockLen \in Nat
    BY <1>1, <1>3
  <2> QED
    BY <1>1, <1>3, <2>1, <2>2, <2>3, <2>4
<1>5. ASSUME NEW i \in 1..n PROVE BlockOf(i) \in 1..N /\ ByteOf(i) \in 1..Len(Block(data, BlockOf(i)))
  <2> DEFINE j == BlockOf(i)
             k == ByteOf(i)
             m == (j - 1) * BlockLen
  <2>1. i \in Nat \ {0} /\ i <= n
    BY <1>1
  <2>2. j \in Nat \ {0} /\ k \in 1..BlockLen /\ i = m + k
    BY <2>1, PlaceOf
  <2>3. m \in Nat /\ j * BlockLen = m + BlockLen
    <3> HIDE DEF j
    <3> QED
      BY <1>1, <2>2
  <2> HIDE DEF N, j, k
  <2>4. m < n
    <3> HIDE DEF m
    <3> QED
      BY <1>1, <2>1, <2>2, <2>3
  <2>5. j <= N
    <3> SUFFICES ASSUME N + 1 <= j PROVE FALSE
      BY <1>3, <2>2
    <3>1. (N + 1) * BlockLen <= j * BlockLen
      BY <1>1, <1>3, <2>2
    <3>2. (N + 1) * BlockLen = N * BlockLen + BlockLen /\ N * BlockLen \in Nat
      BY <1>1, <1>3
    <3> HIDE DEF m
    <3> QED
      BY <1>1, <1>3, <2>3, <2>4, <3>1, <3>2
  <2>6. k <= Len(Block(data, j))
    <3>1. /\ Len(Block(data, j)) \in 1..BlockLen
          /\ Len(Block(data, j)) # BlockLen => m + Len(Block(data, j)) = n
      BY <2>2, <2>4, BlockInside DEF n
    <3> HIDE DEF m
    <3> QED
      BY <1>1, <2>1, <2>2, <2>3, <3>1
  <2>7. Len(Block(data, j)) \in Nat
    BY <2>2, <2>4, BlockInside DEF n
  <2> QED
    BY <1>3, <2>2, <2>5, <2>6, <2>7 DEF j, k
<1>6. ASSUME NEW m \in Nat, n = m * BlockLen PROVE N = m
  <2> DEFINE a == n + BlockLen - 1
  <2>1. N = a \div BlockLen
    BY DEF NumBlocks, n
  <2>2. (m + 1) * BlockLen = n + BlockLen /\ m * BlockLen = n
    BY <1>1, <1>6
  <2>3. m * BlockLen <= a /\ a < (m + 1) * BlockLen
    BY <1>1, <2>2
  <2> HIDE DEF a, N
  <2> QED
    BY <1>1, <1>2, <2>1, <2>3, Quotient DEF a
<1> QED
  BY <1>3, <1>4, <1>5, <1>6 DEF n

LEMMA BlocksOf ==
    ASSUME NEW data, IsSeq(data)
    PROVE  /\ Len(Blocks(data)) = NumBlocks(data) /\ IsSeq(Blocks(data))
           /\ \A j \in 1..NumBlocks(data) : Blocks(data)[j] = Block(data, j)
           /\ \A i \in 1..Len(data) : data[i] = Block(data, BlockOf(i))[ByteOf(i)]
<1>1. Blocks(data) = [j \in 1..NumBlocks(data) |-> Block(data, j)]
  BY DEF Blocks
<1>2. Len(Blocks(data)) = NumBlocks(data) /\ IsSeq(Blocks(data))
  <2>1. Blocks(data) = [j \in 1..NumBlocks(data) |-> Blocks(data)[j]]
    BY <1>1
  <2> QED
    BY <2>1, CountBlocks, MadeSeq
<1>3. ASSUME NEW i \in 1..Len(data) PROVE data[i] = Block(data, BlockOf(i))[ByteOf(i)]
  <2>1. i \in Nat \ {0}
    BY SeqFacts
  <2>2. BlockOf(i) \in 1..NumBlocks(data) /\ ByteOf(i) \in 1..Len(Block(data, BlockOf(i)))
    BY CountBlocks
  <2>3. BlockOf(i) \in Nat \ {0} /\ (BlockOf(i) - 1) * BlockLen < Len(data)
    BY <2>2, CountBlocks
  <2>4. Block(data, BlockOf(i))[ByteOf(i)] = data[(BlockOf(i) - 1) * BlockLen + ByteOf(i)]
    BY <2>2, <2>3, BlockInside
  <2> QED
    BY <2>1, <2>4, PlaceOf
<1> QED
  BY <1>1, <1>2, <1>3

-----------------------------------------------------------------------------
(* CBC with padding *)

LEMMA ZeroesAre ==
    ASSUME NEW n \in Nat
    PROVE  IsSeq(Zeroes(n)) /\ Len(Zeroes(n)) = n /\ \A i \in 1..n : Zeroes(n)[i] = {}
<1>1. Zeroes(n) = [i \in 1..n |-> Zeroes(n)[i]] /\ \A i \in 1..n : Zeroes(n)[i] = {}
  BY DEF Zeroes
<1> QED
  BY <1>1, MadeSeq

LEMMA ZeroBlock == IsBlock(Zeroes(BlockLen))
  BY DEF Zeroes, IsBlock

LEMMA OneSeq == \A x : IsSeq(<<x>>) /\ Len(<<x>>) = 1 /\ <<x>>[1] = x
<1> SUFFICES ASSUME NEW x PROVE IsSeq(<<x>>) /\ Len(<<x>>) = 1 /\ <<x>>[1] = x
  OBVIOUS
<1>1. <<x>> \in Seq({x}) /\ Len(<<x>>) = 1 /\ <<x>>[1] = x
  OBVIOUS
<1> QED
  BY <1>1, SeqIsSeq

\* The data, the mark, and zeroes up to whole blocks.
LEMMA PaddingOf ==
    ASSUME NEW data, IsSeq(data)
    PROVE  /\ IsSeq(appendPadding(data))
           /\ Len(appendPadding(data)) = ((Len(data) \div BlockLen) + 1) * BlockLen
           /\ Len(data) < Len(appendPadding(data))
           /\ Len(appendPadding(data)) <= Len(data) + BlockLen
           /\ \A i \in 1..Len(data) : appendPadding(data)[i] = data[i]
           /\ appendPadding(data)[Len(data) + 1] = Mark
           /\ \A i \in (Len(data) + 2)..Len(appendPadding(data)) : appendPadding(data)[i] = {}
<1> DEFINE n == Len(data)
           q == n \div BlockLen
           r == n % BlockLen
           z == BlockLen - 1 - r
           m == data \o <<Mark>>
           p == m \o Zeroes(z)
<1>1. n \in Nat /\ BlockLen \in Nat \ {0}
  BY LengthsOfBlocks, SeqFacts
<1>2. q \in Nat /\ r \in 0..(BlockLen - 1) /\ n = q * BlockLen + r
  BY <1>1, Quotient
<1>3. appendPadding(data) = p
  <2>1. appendPadding(data) = data \o <<Mark>> \o Zeroes(BlockLen - 1 - (Len(data) % BlockLen))
    BY DEF appendPadding
  <2> QED
    BY <2>1
<1>4. /\ IsSeq(m) /\ Len(m) = n + 1 /\ (\A i \in 1..n : m[i] = data[i]) /\ m[n + 1] = Mark
  <2> DEFINE one == <<Mark>>
  <2>1. IsSeq(one) /\ Len(one) = 1 /\ one[1] = Mark
    BY OneSeq
  <2> HIDE DEF one
  <2>2. /\ IsSeq(data \o one) /\ Len(data \o one) = n + 1 /\ (\A i \in 1..n : (data \o one)[i] = data[i])
        /\ \A i \in 1..1 : (data \o one)[n + i] = one[i]
    BY <2>1, CatSeq
  <2>3. 1 \in 1..1
    OBVIOUS
  <2> QED
    BY <2>1, <2>2, <2>3 DEF one
<1> HIDE DEF q, r
<1>5. z \in Nat /\ n + 1 + z = q * BlockLen + BlockLen /\ q * BlockLen \in Nat
  <2>1. q * BlockLen \in Nat
    BY <1>1, <1>2
  <2> QED
    BY <1>1, <1>2, <2>1
<1> HIDE DEF m, z
<1>6. /\ IsSeq(p) /\ Len(p) = n + 1 + z /\ (\A i \in 1..(n + 1) : p[i] = m[i])
      /\ \A i \in 1..z : p[(n + 1) + i] = {}
  <2> DEFINE zs == Zeroes(z)
  <2>1. IsSeq(zs) /\ Len(zs) = z /\ \A i \in 1..z : zs[i] = {}
    BY <1>5, ZeroesAre
  <2> HIDE DEF zs
  <2>2. /\ IsSeq(m \o zs) /\ Len(m \o zs) = n + 1 + z /\ (\A i \in 1..(n + 1) : (m \o zs)[i] = m[i])
        /\ \A i \in 1..z : (m \o zs)[(n + 1) + i] = zs[i]
    BY <1>4, <2>1, CatSeq
  <2> QED
    BY <2>1, <2>2 DEF zs
<1>7. (q + 1) * BlockLen = q * BlockLen + BlockLen
  BY <1>1, <1>2
<1> HIDE DEF p
<1>8. (\A i \in 1..n : p[i] = data[i]) /\ p[n + 1] = Mark
  BY <1>1, <1>4, <1>6
<1>9. ASSUME NEW i \in (n + 2)..Len(p) PROVE p[i] = {}
  <2>1. i - (n + 1) \in 1..z /\ (n + 1) + (i - (n + 1)) = i
    BY <1>1, <1>5, <1>6
  <2> QED
    BY <1>6, <2>1
<1>10. Len(p) = (q + 1) * BlockLen /\ n < Len(p) /\ Len(p) <= n + BlockLen
  <2>1. n + 1 + z <= n + BlockLen
    BY <1>1, <1>2 DEF z
  <2> QED
    BY <1>1, <1>5, <1>6, <1>7, <2>1
<1> QED
  BY <1>3, <1>6, <1>8, <1>9, <1>10 DEF q

LEMMA MarkNotEmpty == Mark # {}
<1>1. (128 \div 128) % 2 = 1
  OBVIOUS
<1>2. Bit(7) \in ToByte(128)
  BY <1>1, BitsOf
<1> QED
  BY <1>2 DEF Mark

LEMMA PaddingRemoved ==
    ASSUME NEW data, IsSeq(data)
    PROVE  removePadding(appendPadding(data)) = data
<1> DEFINE p == appendPadding(data)
           n == Len(data)
           N == Len(p)
           first == N - BlockLen + 1
           marks == {i \in (first + 1)..N : p[i] = Mark} \cup {first}
           mark == CHOOSE i \in marks : \A j \in marks : j <= i
<1>1. /\ IsSeq(p) /\ n < N /\ N <= n + BlockLen /\ (\A i \in 1..n : p[i] = data[i])
      /\ p[n + 1] = Mark /\ \A i \in (n + 2)..N : p[i] = {}
  BY PaddingOf
<1>2. n \in Nat /\ N \in Nat /\ BlockLen \in Nat \ {0}
  BY <1>1, LengthsOfBlocks, SeqFacts
<1> HIDE DEF p, n, N
<1>3. n + 1 \in marks
  BY <1>1, <1>2
<1>4. \A j \in marks : j <= n + 1
  <2> SUFFICES ASSUME NEW j \in marks, n + 1 < j PROVE FALSE
    BY <1>2
  <2>1. j # first
    BY <1>1, <1>2
  <2>2. j \in (n + 2)..N /\ p[j] = Mark
    BY <1>2, <2>1
  <2> QED
    BY <1>1, <2>2, MarkNotEmpty
<1>5. mark = n + 1
  <2>1. mark \in marks /\ \A j \in marks : j <= mark
    BY <1>3, <1>4
  <2>2. mark <= n + 1 /\ n + 1 <= mark
    BY <1>3, <1>4, <2>1
  <2>3. mark \in Int
    BY <1>2, <2>1
  <2> HIDE DEF mark
  <2> QED
    BY <1>2, <2>2, <2>3
<1>6. removePadding(p) = SubSeq(p, 1, mark - 1)
  BY DEF removePadding, N
<1> HIDE DEF mark
<1>7. removePadding(p) = SubSeq(p, 1, n)
  <2>1. mark - 1 = n
    BY <1>2, <1>5
  <2> QED
    BY <1>6, <2>1
<1>8. IsSeq(SubSeq(p, 1, n)) /\ Len(SubSeq(p, 1, n)) = n /\ \A i \in 1..n : SubSeq(p, 1, n)[i] = data[i]
  <2>1. 1 \in Nat \ {0} /\ n <= Len(p) /\ 1 <= n + 1 /\ n - 1 + 1 = n /\ \A i \in 1..n : (1 - 1) + i = i
    BY <1>1, <1>2 DEF N
  <2>2. \A i \in 1..n : SubSeq(p, 1, n)[i] = p[(1 - 1) + i]
    BY <1>1, <1>2, <2>1, PartSeq
  <2> QED
    BY <1>1, <1>2, <2>1, <2>2, PartSeq
<1>9. SubSeq(p, 1, n) = data
  BY <1>8, SameSeq DEF n
<1> QED
  BY <1>7, <1>9 DEF p

\* What EncryptData makes of data: the chain, block after block.
Cbc(data, key, v) == Chain(key, v, Blocks(appendPadding(data)))

LEMMA Encrypted ==
    ASSUME NEW data, IsSeq(data), NEW key, NEW v, IsBlock(v),
           NEW n, n = (Len(data) \div BlockLen) + 1
    PROVE  /\ n \in Nat \ {0} /\ n * BlockLen \in Nat
           /\ NumBlocks(appendPadding(data)) = n
           /\ IsSeq(EncryptData(data, key, v)) /\ Len(EncryptData(data, key, v)) = n * BlockLen
           /\ Cbc(data, key, v)[0] = v
           /\ \A j \in 0..n : IsBlock(Cbc(data, key, v)[j])
           /\ \A j \in 1..n : Cbc(data, key, v)[j] =
                 Encrypt(key, XorInto(Cbc(data, key, v)[j - 1], Block(appendPadding(data), j)))
           /\ \A j \in 1..n : Block(EncryptData(data, key, v), j) = Cbc(data, key, v)[j]
           /\ \A j \in 1..n, k \in 1..BlockLen :
                 EncryptData(data, key, v)[(j - 1) * BlockLen + k] = Cbc(data, key, v)[j][k]
<1> DEFINE p == appendPadding(data)
           blocks == Blocks(p)
           c == Chain(key, v, blocks)
           x == EncryptData(data, key, v)
<1>1. Len(data) \in Nat /\ BlockLen \in Nat \ {0}
  BY LengthsOfBlocks, SeqFacts
<1>2. n \in Nat \ {0}
  <2>1. Len(data) \div BlockLen \in Nat
    BY <1>1, Quotient
  <2> QED
    BY <2>1
<1>3. IsSeq(p) /\ Len(p) = n * BlockLen
  BY PaddingOf
<1>4. n * BlockLen \in Nat
  BY <1>1, <1>2
<1> HIDE DEF p
<1>5. NumBlocks(p) = n
  BY <1>2, <1>3, CountBlocks
<1>6. Len(blocks) = n /\ \A j \in 1..n : blocks[j] = Block(p, j)
  BY <1>3, <1>5, BlocksOf
<1>7. /\ c[0] = v /\ (\A j \in 0..n : IsBlock(c[j]))
      /\ \A j \in 1..n : c[j] = Encrypt(key, XorInto(c[j - 1], blocks[j]))
  <2> HIDE DEF blocks
  <2> QED
    BY <1>2, <1>6, ChainSteps, ChainIsBlocks
<1>8. x = [i \in 1..(n * BlockLen) |-> c[BlockOf(i)][ByteOf(i)]]
  BY <1>6 DEF EncryptData, p
<1> HIDE DEF c, x, blocks
<1>9. IsSeq(x) /\ Len(x) = n * BlockLen
  <2>1. x = [i \in 1..(n * BlockLen) |-> x[i]]
    BY <1>8
  <2> QED
    BY <1>4, <2>1, MadeSeq
<1>10. ASSUME NEW j \in 1..n
       PROVE  /\ j \in Nat \ {0} /\ (j - 1) * BlockLen < Len(x) /\ j * BlockLen <= Len(x)
              /\ \A k \in 1..BlockLen : x[(j - 1) * BlockLen + k] = c[j][k]
  <2>1. j \in Nat \ {0} /\ j <= n
    BY <1>2
  <2>2. j * BlockLen <= n * BlockLen /\ j * BlockLen = (j - 1) * BlockLen + BlockLen /\ (j - 1) * BlockLen \in Nat
    BY <1>1, <1>2, <2>1
  <2>3. (j - 1) * BlockLen < n * BlockLen
    BY <1>1, <1>4, <2>2
  <2>4. ASSUME NEW k \in 1..BlockLen PROVE x[(j - 1) * BlockLen + k] = c[j][k]
    <3> DEFINE i == (j - 1) * BlockLen + k
    <3>1. BlockOf(i) = j /\ ByteOf(i) = k
      BY <2>1, PlaceIn
    <3>2. i \in 1..(n * BlockLen)
      BY <1>1, <1>4, <2>2
    <3> HIDE DEF i
    <3>3. x[i] = c[j][k]
      BY <1>8, <3>1, <3>2
    <3> QED
      BY <3>3 DEF i
  <2> QED
    BY <1>9, <2>1, <2>2, <2>3, <2>4
<1>11. ASSUME NEW j \in 1..n PROVE Block(x, j) = c[j]
  <2>1. IsBlock(Block(x, j)) /\ \A k \in 1..BlockLen : Block(x, j)[k] = x[(j - 1) * BlockLen + k]
    BY <1>9, <1>10, BlockInside
  <2>2. IsBlock(c[j])
    BY <1>2, <1>7
  <2> QED
    BY <1>10, <2>1, <2>2, SameBlock
<1> QED
  BY <1>2, <1>4, <1>5, <1>6, <1>7, <1>9, <1>10, <1>11 DEF Cbc, p, c, x, blocks

LEMMA DecryptsEncrypted ==
    ASSUME NEW data, IsSeq(data), NEW key, NEW v, IsBlock(v)
    PROVE  DecryptData(EncryptData(data, key, v), key, v) = Plain(data)
<1> DEFINE n == (Len(data) \div BlockLen) + 1
           p == appendPadding(data)
           c == Cbc(data, key, v)
           x == EncryptData(data, key, v)
           before == v \o x
           byte(i) == Xor(Decrypt(key, Block(x, BlockOf(i)))[ByteOf(i)], before[i])
<1>1. /\ n \in Nat \ {0} /\ n * BlockLen \in Nat /\ NumBlocks(p) = n
      /\ IsSeq(x) /\ Len(x) = n * BlockLen
      /\ c[0] = v /\ (\A j \in 0..n : IsBlock(c[j]))
      /\ \A j \in 1..n : c[j] = Encrypt(key, XorInto(c[j - 1], Block(p, j)))
      /\ \A j \in 1..n : Block(x, j) = c[j]
      /\ \A j \in 1..n, k \in 1..BlockLen : x[(j - 1) * BlockLen + k] = c[j][k]
  BY Encrypted
<1>2. IsSeq(p) /\ Len(p) = n * BlockLen
  BY PaddingOf
<1>3. removePadding(p) = data
  BY PaddingRemoved
<1> HIDE DEF n, p, c, x
<1>4. BlockLen \in Nat \ {0}
  BY LengthsOfBlocks
<1>5. /\ \A i \in 1..BlockLen : before[i] = v[i]
      /\ \A i \in 1..(n * BlockLen) : before[BlockLen + i] = x[i]
  BY <1>1, BlockIsSeq, CatSeq
<1> HIDE DEF before
<1>6. ASSUME NEW i \in 1..(n * BlockLen) PROVE byte(i) = p[i]
  <2> DEFINE j == BlockOf(i)
             k == ByteOf(i)
             m == (j - 1) * BlockLen
             b == Block(p, j)
  <2>1. i \in Nat \ {0}
    BY <1>1
  <2>2. j \in 1..n /\ k \in 1..Len(b) /\ p[i] = b[k]
    BY <1>1, <1>2, CountBlocks, BlocksOf
  <2>3. j \in Nat \ {0} /\ k \in 1..BlockLen /\ i = m + k
    BY <2>1, PlaceOf
  <2> HIDE DEF j, k
  <2>4. m \in Nat /\ j * BlockLen <= n * BlockLen /\ j * BlockLen = m + BlockLen /\ m < n * BlockLen
    <3>1. j <= n
      BY <1>1, <2>2
    <3>2. m \in Nat /\ j * BlockLen <= n * BlockLen /\ j * BlockLen = m + BlockLen
      BY <1>1, <1>4, <2>3, <3>1
    <3> HIDE DEF m
    <3> QED
      BY <1>1, <1>4, <3>2
  <2>5. Len(b) = BlockLen
    BY <1>2, <2>3, <2>4, BlockInside
  <2>6. c[j] = Encrypt(key, XorInto(c[j - 1], b)) /\ IsBlock(c[j - 1]) /\ Block(x, j) = c[j]
    <3>1. j - 1 \in 0..n
      BY <1>1, <2>2
    <3> QED
      BY <1>1, <2>2, <3>1
  <2>7. Decrypt(key, Block(x, j)) = XorInto(c[j - 1], b)
    BY <2>6, XorIntoBlock, DecryptEncrypt
  <2>8. Decrypt(key, Block(x, j))[k] = Xor(c[j - 1][k], b[k])
    <3>1. k <= Len(b)
      BY <1>4, <2>3, <2>5
    <3> QED
      BY <2>3, <2>6, <2>7, <3>1, XorIntoBlock
  <2>9. before[i] = c[j - 1][k]
    <3>1. CASE j = 1
      <4>1. m = 0 /\ i = k
        BY <1>4, <2>3, <3>1
      <4> QED
        BY <1>1, <1>5, <2>3, <3>1, <4>1
    <3>2. CASE j # 1
      <4> DEFINE h == j - 1
      <4>1. h \in 1..n /\ h \in Nat \ {0}
        BY <1>1, <2>2, <3>2
      <4>2. m = (h - 1) * BlockLen + BlockLen /\ (h - 1) * BlockLen \in Nat
        BY <1>4, <4>1
      <4>3. (h - 1) * BlockLen + k \in 1..(n * BlockLen) /\ i = BlockLen + ((h - 1) * BlockLen + k)
        <5> DEFINE w == (h - 1) * BlockLen
                   N == n * BlockLen
        <5>1. m = w + BlockLen /\ w \in Nat /\ m + BlockLen <= N /\ N \in Nat /\ i = m + k
          BY <1>1, <2>3, <2>4, <4>2
        <5> HIDE DEF m, w, N
        <5>2. w + k \in 1..N /\ i = BlockLen + (w + k)
          BY <1>4, <2>3, <5>1
        <5> QED
          BY <5>2 DEF w, N
      <4>4. before[i] = x[(h - 1) * BlockLen + k]
        <5> HIDE DEF h, m
        <5> QED
          BY <1>5, <4>3
      <4> HIDE DEF h
      <4>5. before[i] = c[h][k]
        BY <1>1, <2>3, <4>1, <4>4
      <4> QED
        BY <4>5 DEF h
    <3> QED
      BY <3>1, <3>2
  <2>10. byte(i) = Xor(Xor(c[j - 1][k], b[k]), c[j - 1][k])
    BY <2>8, <2>9 DEF j, k
  <2> QED
    BY <2>2, <2>10, XorFacts
<1>7. [i \in 1..Len(x) |-> byte(i)] = p
  <2>1. p = [i \in 1..(n * BlockLen) |-> p[i]]
    BY <1>2, SeqFacts
  <2>2. [i \in 1..(n * BlockLen) |-> byte(i)] = [i \in 1..(n * BlockLen) |-> p[i]]
    BY <1>6
  <2> QED
    BY <1>1, <2>1, <2>2
<1>8. x # <<>> /\ Len(x) % BlockLen = 0
  <2>1. n * BlockLen \in Nat \ {0}
    BY <1>1, <1>4
  <2>2. (n * BlockLen) % BlockLen = 0
    <3> DEFINE w == n * BlockLen
    <3>1. w = (w \div BlockLen) * BlockLen + (w % BlockLen)
      BY <1>4, <2>1, Quotient
    <3>2. w \div BlockLen = n
      <4>1. n * BlockLen <= w /\ w < (n + 1) * BlockLen
        BY <1>1, <1>4
      <4> HIDE DEF w
      <4> QED
        BY <1>1, <1>4, <2>1, <4>1, Quotient DEF w
    <3>3. w % BlockLen \in 0..(BlockLen - 1)
      BY <1>4, <2>1, Quotient
    <3>4. w = w + (w % BlockLen)
      BY <3>1, <3>2
    <3> HIDE DEF w
    <3>5. w \in Nat
      BY <2>1 DEF w
    <3> QED
      BY <3>3, <3>4, <3>5 DEF w
  <2>3. Len(<<>>) = 0
    OBVIOUS
  <2> QED
    BY <1>1, <2>1, <2>2, <2>3
<1>9. DecryptData(x, key, v) = Plain(removePadding([i \in 1..Len(x) |-> byte(i)]))
  BY <1>8 DEF DecryptData, before
<1> QED
  BY <1>3, <1>7, <1>9 DEF x

-----------------------------------------------------------------------------
(* A chain tells what went into it *)

\* What the cipher makes of a block.
Term(key, b) == <<key, TermsIn(b), Rest(b)>>

\* No byte of a block encrypted under this key went into x, but for the blocks given.
Free(key, given, x) == \A b, i : IsBlock(b) /\ <<Term(key, b), i>> \in x => b \in given

\* A byte of a chunk, which may be shorter than a block.
ByteIn(chunk, k) == IF k <= Len(chunk) THEN chunk[k] ELSE {}
FreeChunk(key, given, chunk) == \A k \in 1..BlockLen : Free(key, given, ByteIn(chunk, k))

\* f is the chain from zeroes through the n blocks x, none of which is a block given.
IsChain(key, given, f, x, n) ==
    /\ f[0] = Zeroes(BlockLen)
    /\ \A c \in given : c[1] \in Octet
    /\ XorInto(f[0], x[1]) \notin given
    /\ \A j \in 1..n :
          f[j] = Encrypt(key, XorInto(f[j - 1], x[j])) /\ FreeChunk(key, given, x[j])

LEMMA PairInjective == \A s, t, i, j : <<s, i>> = <<t, j>> => s = t /\ i = j
  OBVIOUS

LEMMA TermInjective ==
    ASSUME NEW key, NEW other, NEW a, NEW b, IsBlock(a), IsBlock(b), Term(key, a) = Term(other, b)
    PROVE  key = other /\ a = b
<1>1. \A p, q, r, u, v, w : <<p, q, r>> = <<u, v, w>> => p = u /\ q = v /\ r = w
  OBVIOUS
<1>2. key = other /\ TermsIn(a) = TermsIn(b) /\ Rest(a) = Rest(b)
  BY <1>1 DEF Term
<1> QED
  BY <1>2, BlockMadeOf

LEMMA EncryptBytes ==
    ASSUME NEW key, NEW b, NEW i \in 1..BlockLen
    PROVE  Encrypt(key, b)[i] = {<<Term(key, b), i>>}
<1> DEFINE s == Term(key, b)
<1>1. Encrypt(key, b) = Unknown(s)
  BY DEF Encrypt, Term
<1> HIDE DEF s
<1> QED
  BY <1>1, UnknownIsBlock DEF s

LEMMA OctetFree ==
    ASSUME NEW key, NEW given, NEW x \in Octet
    PROVE  Free(key, given, x)
<1> SUFFICES ASSUME NEW t, NEW i, <<t, i>> \in x PROVE FALSE
  BY DEF Free
<1>1. PICK k \in 0..7 : <<t, i>> = Bit(k)
  BY DEF Octet
<1> DEFINE p == <<t, i>>
           q == <<k>>
<1>2. Len(p) = 2 /\ Len(q) = 1 /\ p = q
  BY <1>1 DEF Bit
<1> HIDE DEF p, q
<1> QED
  BY <1>2

LEMMA EmptyFree == \A key, given : Free(key, given, {})
  BY DEF Free

LEMMA XorFree ==
    ASSUME NEW key, NEW given, NEW x, NEW y, Free(key, given, x), Free(key, given, y)
    PROVE  Free(key, given, Xor(x, y))
  BY DEF Free, Xor

\* What another key made, or this key of a block given.
LEMMA EncryptedFree ==
    ASSUME NEW key, NEW other, NEW given, NEW b, IsBlock(b), key # other \/ b \in given,
           NEW i \in 1..BlockLen
    PROVE  Free(other, given, Encrypt(key, b)[i])
<1> SUFFICES ASSUME NEW c, NEW j, IsBlock(c), <<Term(other, c), j>> \in Encrypt(key, b)[i]
             PROVE  c \in given
  BY DEF Free
<1>1. <<Term(other, c), j>> = <<Term(key, b), i>>
  BY EncryptBytes
<1>2. Term(other, c) = Term(key, b)
  BY <1>1, PairInjective
<1> QED
  BY <1>2, TermInjective

\* What an encrypted block adds shows.
LEMMA EncryptedStays ==
    ASSUME NEW key, NEW given, NEW a, IsBlock(a), a \notin given,
           NEW i \in 1..BlockLen, NEW x, Free(key, given, x)
    PROVE  /\ <<Term(key, a), i>> \in Xor(Encrypt(key, a)[i], x)
           /\ \A y : Free(key, given, y) => Xor(Encrypt(key, a)[i], x) # y
<1> DEFINE p == <<Term(key, a), i>>
<1>1. Encrypt(key, a)[i] = {p}
  BY EncryptBytes
<1>2. \A y : Free(key, given, y) => p \notin y
  BY DEF Free
<1> HIDE DEF p
<1>3. p \in Xor({p}, x)
  BY <1>2 DEF Xor
<1> QED
  BY <1>1, <1>2, <1>3 DEF p

LEMMA EncryptedShows ==
    ASSUME NEW key, NEW given, NEW a, NEW b, IsBlock(a), IsBlock(b), a \notin given, b \notin given,
           NEW i \in 1..BlockLen, NEW x, NEW y, Free(key, given, x), Free(key, given, y),
           Xor(Encrypt(key, a)[i], x) = Xor(Encrypt(key, b)[i], y)
    PROVE  a = b /\ x = y
<1> DEFINE p == <<Term(key, a), i>>
           q == <<Term(key, b), i>>
<1>1. Encrypt(key, a)[i] = {p} /\ Encrypt(key, b)[i] = {q}
  BY EncryptBytes
<1>2. p \notin x /\ p \notin y /\ q \notin y
  BY DEF Free
<1>3. p = q => a = b
  BY PairInjective, TermInjective
<1> HIDE DEF p, q
<1>4. p \in Xor({q}, y)
  BY <1>1, <1>2 DEF Xor
<1>5. p = q
  BY <1>2, <1>4 DEF Xor
<1>6. Xor(x, {p}) = Xor(y, {p})
  BY <1>1, <1>5, XorFacts
<1>7. x = y
  BY <1>6, XorFacts
<1> QED
  BY <1>3, <1>5, <1>7

LEMMA XorIntoAt ==
    ASSUME NEW b, IsBlock(b), NEW c
    PROVE  IsBlock(XorInto(b, c)) /\ \A k \in 1..BlockLen : XorInto(b, c)[k] = Xor(b[k], ByteIn(c, k))
<1>1. ASSUME NEW k \in 1..BlockLen PROVE XorInto(b, c)[k] = Xor(b[k], ByteIn(c, k))
  <2>1. CASE k <= Len(c)
    BY <2>1, XorIntoBlock DEF ByteIn
  <2>2. CASE ~(k <= Len(c))
    <3>1. XorInto(b, c)[k] = b[k] /\ ByteIn(c, k) = {}
      BY <2>2, XorIntoBlock DEF ByteIn
    <3> QED
      BY <3>1, XorFacts
  <2> QED
    BY <2>1, <2>2
<1> QED
  BY <1>1, XorIntoBlock

LEMMA ChainBlocks ==
    ASSUME NEW key, NEW given, NEW f, NEW x, NEW n \in Nat, IsChain(key, given, f, x, n)
    PROVE  \A j \in 0..n : IsBlock(f[j])
<1>1. ASSUME NEW j \in 0..n PROVE IsBlock(f[j])
  <2>1. CASE j = 0
    BY <2>1, ZeroBlock DEF IsChain
  <2>2. CASE j # 0
    <3>1. j \in 1..n
      BY <2>2
    <3> QED
      BY <3>1, EncryptIsBlock DEF IsChain
  <2> QED
    BY <2>1, <2>2
<1> QED
  BY <1>1

\* No block that is encrypted in the chain is a block given.
LEMMA ChainNotGiven ==
    ASSUME NEW key, NEW given, NEW f, NEW x, NEW n \in Nat, IsChain(key, given, f, x, n)
    PROVE  \A j \in 1..n : /\ XorInto(f[j - 1], x[j]) \notin given
                          /\ IsBlock(XorInto(f[j - 1], x[j]))
                          /\ \A k \in 1..BlockLen :
                                XorInto(f[j - 1], x[j])[k] = Xor(f[j - 1][k], ByteIn(x[j], k))
<1> DEFINE b(j) == XorInto(f[j - 1], x[j])
           T == {j \in Nat : j + 1 <= n => b(j + 1) \notin given}
<1>1. ASSUME NEW j \in 1..n
      PROVE  IsBlock(b(j)) /\ \A k \in 1..BlockLen : b(j)[k] = Xor(f[j - 1][k], ByteIn(x[j], k))
  <2>1. j - 1 \in 0..n
    OBVIOUS
  <2>2. IsBlock(f[j - 1])
    BY <2>1, ChainBlocks
  <2> QED
    BY <2>2, XorIntoAt
<1>2. 0 \in T
  BY DEF IsChain
<1>3. ASSUME NEW j \in Nat, j \in T PROVE j + 1 \in T
  <2> SUFFICES ASSUME (j + 1) + 1 <= n, b((j + 1) + 1) \in given PROVE FALSE
    OBVIOUS
  <2> DEFINE h == j + 1
             i == h + 1
  <2>1. h \in 1..n /\ i \in 1..n /\ i - 1 = h /\ h - 1 = j
    OBVIOUS
  <2>2. b(h) \notin given /\ b(i) \in given
    BY <1>3, <2>1
  <2>3. f[h] = Encrypt(key, b(h)) /\ FreeChunk(key, given, x[i])
    BY <2>1 DEF IsChain
  <2>4. IsBlock(b(h)) /\ b(i)[1] = Xor(f[h][1], ByteIn(x[i], 1)) /\ 1 \in 1..BlockLen
    BY <1>1, <2>1, LengthsOfBlocks
  <2>5. b(i)[1] \in Octet
    BY <2>2 DEF IsChain
  <2>6. Free(key, given, ByteIn(x[i], 1))
    BY <2>3, <2>4 DEF FreeChunk
  <2> HIDE DEF b, h, i
  <2>7. <<Term(key, b(h)), 1>> \in b(i)[1]
    BY <2>2, <2>3, <2>4, <2>6, EncryptedStays
  <2>8. Free(key, {}, b(i)[1])
    BY <2>5, OctetFree
  <2> QED
    BY <2>4, <2>7, <2>8 DEF Free
<1>4. Nat \subseteq T
  <2> HIDE DEF T
  <2> QED
    BY <1>2, <1>3, InductionOnNat
<1>5. ASSUME NEW j \in 1..n PROVE b(j) \notin given
  <2>1. j - 1 \in Nat /\ (j - 1) + 1 = j
    OBVIOUS
  <2> QED
    BY <1>4, <2>1
<1> QED
  BY <1>1, <1>5

SameChunks(x, y, n) == \A j \in 1..n, k \in 1..BlockLen : ByteIn(x[j], k) = ByteIn(y[j], k)

\* The last blocks of two chains have a byte in common.
Meet(key, given, f, g, x, y, m, n, i) ==
    /\ m \in Nat \ {0} /\ n \in Nat \ {0} /\ i \in 1..BlockLen
    /\ IsChain(key, given, f, x, m) /\ IsChain(key, given, g, y, n)
    /\ f[m][i] = g[n][i]

\* Two chains of the same last byte are of the same blocks.
LEMMA ChainInjective ==
    ASSUME NEW key, NEW given, NEW f, NEW g, NEW x, NEW y, NEW m, NEW n, NEW i,
           Meet(key, given, f, g, x, y, m, n, i), n <= m
    PROVE  m = n /\ SameChunks(x, y, m)
<1> SUFFICES ASSUME m \in Nat \ {0}, n \in Nat \ {0}, i \in 1..BlockLen,
                    IsChain(key, given, f, x, m), IsChain(key, given, g, y, n),
                    f[m][i] = g[n][i]
             PROVE  m = n /\ \A j \in 1..m, k \in 1..BlockLen : ByteIn(x[j], k) = ByteIn(y[j], k)
  BY DEF Meet, SameChunks
<1> DEFINE d == m - n
           Same(j) == XorInto(f[(d + j) - 1], x[d + j]) = XorInto(g[j - 1], y[j])
           T == {h \in Nat : h < n => Same(n - h)}
<1>1. d \in Nat /\ d + n = m
  OBVIOUS
<1> HIDE DEF d
<1>2. ASSUME NEW j \in 1..n
      PROVE  /\ d + j \in 1..m /\ (d + j) - 1 \in 0..m /\ j - 1 \in 0..n
             /\ f[d + j] = Encrypt(key, XorInto(f[(d + j) - 1], x[d + j]))
             /\ g[j] = Encrypt(key, XorInto(g[j - 1], y[j]))
             /\ FreeChunk(key, given, x[d + j]) /\ FreeChunk(key, given, y[j])
             /\ IsBlock(f[(d + j) - 1]) /\ IsBlock(g[j - 1])
             /\ IsBlock(XorInto(f[(d + j) - 1], x[d + j])) /\ IsBlock(XorInto(g[j - 1], y[j]))
             /\ XorInto(f[(d + j) - 1], x[d + j]) \notin given /\ XorInto(g[j - 1], y[j]) \notin given
  <2>1. d + j \in 1..m /\ (d + j) - 1 \in 0..m /\ j - 1 \in 0..n
    BY <1>1
  <2>2. IsBlock(f[(d + j) - 1]) /\ IsBlock(g[j - 1])
    BY <2>1, ChainBlocks
  <2> QED
    BY <2>1, <2>2, ChainNotGiven DEF IsChain
<1>3. 0 \in T
  <2>1. n \in 1..n /\ n - 0 = n
    OBVIOUS
  <2>2. f[d + n][i] = g[n][i]
    BY <1>1
  <2>3. XorInto(f[(d + n) - 1], x[d + n]) = XorInto(g[n - 1], y[n])
    BY <1>2, <2>1, <2>2, EncryptInjective
  <2> QED
    BY <2>1, <2>3
<1>4. ASSUME NEW j \in 1..n, NEW k \in 1..BlockLen, Same(j)
      PROVE  Xor(f[(d + j) - 1][k], ByteIn(x[d + j], k)) = Xor(g[j - 1][k], ByteIn(y[j], k))
  BY <1>2, <1>4, XorIntoAt
<1>5. ASSUME NEW j \in 1..n, j # 1, Same(j)
      PROVE  /\ Same(j - 1)
             /\ \A k \in 1..BlockLen : ByteIn(x[d + j], k) = ByteIn(y[j], k)
  <2> DEFINE h == j - 1
  <2>1. h \in 1..n /\ d + h = (d + j) - 1
    BY <1>1, <1>5
  <2>2. /\ f[d + h] = Encrypt(key, XorInto(f[(d + h) - 1], x[d + h]))
        /\ g[h] = Encrypt(key, XorInto(g[h - 1], y[h]))
        /\ IsBlock(XorInto(f[(d + h) - 1], x[d + h])) /\ IsBlock(XorInto(g[h - 1], y[h]))
        /\ XorInto(f[(d + h) - 1], x[d + h]) \notin given /\ XorInto(g[h - 1], y[h]) \notin given
    BY <1>2, <2>1
  <2>3. \A k \in 1..BlockLen : Xor(f[d + h][k], ByteIn(x[d + j], k)) = Xor(g[h][k], ByteIn(y[j], k))
    BY <1>4, <1>5, <2>1
  <2>4. \A k \in 1..BlockLen : Free(key, given, ByteIn(x[d + j], k)) /\ Free(key, given, ByteIn(y[j], k))
    BY <1>2 DEF FreeChunk
  <2> HIDE DEF h
  <2>5. ASSUME NEW k \in 1..BlockLen PROVE Same(h) /\ ByteIn(x[d + j], k) = ByteIn(y[j], k)
    <3> DEFINE a == XorInto(f[(d + h) - 1], x[d + h])
               b == XorInto(g[h - 1], y[h])
    <3>1. IsBlock(a) /\ IsBlock(b) /\ a \notin given /\ b \notin given
      BY <2>2
    <3>2. Xor(Encrypt(key, a)[k], ByteIn(x[d + j], k)) = Xor(Encrypt(key, b)[k], ByteIn(y[j], k))
      BY <2>2, <2>3
    <3> HIDE DEF a, b
    <3>3. a = b /\ ByteIn(x[d + j], k) = ByteIn(y[j], k)
      BY <2>4, <3>1, <3>2, EncryptedShows
    <3> QED
      BY <3>3 DEF a, b
  <2>6. 1 \in 1..BlockLen
    BY LengthsOfBlocks
  <2> QED
    BY <2>5, <2>6 DEF h
<1>6. ASSUME NEW h \in Nat, h \in T PROVE h + 1 \in T
  <2> SUFFICES ASSUME h + 1 < n PROVE Same(n - (h + 1))
    OBVIOUS
  <2>1. n - h \in 1..n /\ n - h # 1 /\ (n - h) - 1 = n - (h + 1)
    OBVIOUS
  <2>2. Same(n - h)
    BY <1>6
  <2> HIDE DEF Same
  <2> QED
    BY <1>5, <2>1, <2>2
<1>7. ASSUME NEW j \in 1..n PROVE Same(j)
  <2>1. Nat \subseteq T
    <3> HIDE DEF T
    <3> QED
      BY <1>3, <1>6, InductionOnNat
  <2>2. n - j \in Nat /\ n - j < n /\ n - (n - j) = j
    OBVIOUS
  <2> HIDE DEF Same
  <2> QED
    BY <2>1, <2>2
<1>8. 1 \in 1..n /\ Same(1)
  BY <1>7
<1>9. g[1 - 1] = Zeroes(BlockLen) /\ \A k \in 1..BlockLen : Zeroes(BlockLen)[k] = {}
  BY LengthsOfBlocks, ZeroesAre DEF IsChain
<1>10. ASSUME NEW k \in 1..BlockLen PROVE Xor(f[d][k], ByteIn(x[d + 1], k)) = ByteIn(y[1], k)
  <2>1. Xor(f[(d + 1) - 1][k], ByteIn(x[d + 1], k)) = Xor({}, ByteIn(y[1], k))
    BY <1>4, <1>8, <1>9
  <2>2. (d + 1) - 1 = d
    BY <1>1
  <2> QED
    BY <2>1, <2>2, XorFacts
<1>11. d = 0
  <2> SUFFICES ASSUME d # 0 PROVE FALSE
    OBVIOUS
  <2>1. d \in 1..m /\ d - 1 \in 0..m
    BY <1>1
  <2>2. /\ f[d] = Encrypt(key, XorInto(f[d - 1], x[d])) /\ IsBlock(XorInto(f[d - 1], x[d]))
        /\ XorInto(f[d - 1], x[d]) \notin given
    BY <2>1, ChainNotGiven DEF IsChain
  <2>3. 1 \in 1..BlockLen
    BY LengthsOfBlocks
  <2>4. Free(key, given, ByteIn(x[d + 1], 1)) /\ Free(key, given, ByteIn(y[1], 1))
    BY <1>2, <1>8, <2>3 DEF FreeChunk
  <2> DEFINE a == XorInto(f[d - 1], x[d])
  <2>5. Xor(Encrypt(key, a)[1], ByteIn(x[d + 1], 1)) = ByteIn(y[1], 1)
    BY <1>10, <2>2, <2>3
  <2>6. IsBlock(a) /\ a \notin given
    BY <2>2
  <2> HIDE DEF a
  <2> QED
    BY <2>3, <2>4, <2>5, <2>6, EncryptedStays
<1>12. m = n
  BY <1>1, <1>11
<1>13. ASSUME NEW j \in 1..m, NEW k \in 1..BlockLen PROVE ByteIn(x[j], k) = ByteIn(y[j], k)
  <2>1. j \in 1..n /\ d + j = j
    BY <1>1, <1>11
  <2>2. CASE j = 1
    <3>1. f[d][k] = {}
      BY <1>9, <1>11 DEF IsChain
    <3>2. Xor({}, ByteIn(x[1], k)) = ByteIn(y[1], k)
      BY <1>10, <2>1, <2>2, <3>1
    <3> QED
      BY <2>2, <3>2, XorFacts
  <2>3. CASE j # 1
    <3>1. Same(j)
      BY <1>7, <2>1
    <3> HIDE DEF Same
    <3>2. ByteIn(x[d + j], k) = ByteIn(y[j], k)
      BY <1>5, <2>1, <2>3, <3>1
    <3> QED
      BY <2>1, <3>2
  <2> QED
    BY <2>2, <2>3
<1> QED
  BY <1>12, <1>13

-----------------------------------------------------------------------------
(* The MAC of V1 *)

FreeSeq(key, given, s) == IsSeq(s) /\ \A i \in 1..Len(s) : Free(key, given, s[i])

LEMMA Product ==
    ASSUME NEW a \in Nat, NEW b \in Nat, NEW c \in Nat
    PROVE  /\ a * c \in Nat /\ (a + b) * c = a * c + b * c
           /\ (a + 1) * c = a * c + c
           /\ a = 0 => a * c = 0
  OBVIOUS

\* Counted in blocks, with what is left of the last one.
LEMMA InBlocks ==
    ASSUME NEW n \in Nat, NEW q, q = n \div BlockLen
    PROVE  /\ q \in Nat
           /\ \E r \in 0..(BlockLen - 1) : n = q * BlockLen + r /\ (n % BlockLen = 0 <=> r = 0)
<1>1. BlockLen \in Nat \ {0}
  BY LengthsOfBlocks
<1>2. n \div BlockLen \in Nat /\ n % BlockLen \in 0..(BlockLen - 1)
      /\ n = (n \div BlockLen) * BlockLen + (n % BlockLen)
  BY <1>1, Quotient
<1> DEFINE r == n % BlockLen
<1>3. r \in 0..(BlockLen - 1) /\ n = q * BlockLen + r /\ (n % BlockLen = 0 <=> r = 0)
  BY <1>2
<1> HIDE DEF r
<1> QED
  BY <1>2, <1>3

LEMMA WholeOf ==
    ASSUME NEW n \in Nat, NEW q \in Nat
    PROVE  n = q * BlockLen => n \div BlockLen = q /\ n % BlockLen = 0
<1> SUFFICES ASSUME n = q * BlockLen PROVE n \div BlockLen = q /\ n % BlockLen = 0
  OBVIOUS
<1>1. BlockLen \in Nat \ {0}
  BY LengthsOfBlocks
<1>2. (q + 1) * BlockLen = q * BlockLen + BlockLen
  BY <1>1, Product
<1>3. q * BlockLen <= n /\ n < (q + 1) * BlockLen
  <2> DEFINE m == q * BlockLen
  <2> HIDE DEF m
  <2> QED
    BY <1>1, <1>2 DEF m
<1>4. n \div BlockLen = q
  BY <1>1, <1>3, Quotient
<1>5. PICK r \in 0..(BlockLen - 1) : n = q * BlockLen + r /\ (n % BlockLen = 0 <=> r = 0)
  BY <1>4, InBlocks
<1>6. r = 0
  <2> DEFINE m == q * BlockLen
  <2>1. m = m + r /\ m \in Nat
    BY <1>5
  <2> HIDE DEF m
  <2> QED
    BY <1>1, <2>1
<1> QED
  BY <1>4, <1>5, <1>6

LEMMA WholeBlocks ==
    ASSUME NEW c, IsSeq(c), NEW n, n = Len(c) \div BlockLen
    PROVE  /\ n \in Nat /\ n * BlockLen \in Nat /\ n * BlockLen <= Len(c)
           /\ Len(c) % BlockLen = 0 => n * BlockLen = Len(c)
           /\ Len(c) >= BlockLen => n # 0
           /\ \A j \in 1..n : /\ IsBlock(Block(c, j)) /\ Len(Block(c, j)) = BlockLen
                              /\ \A k \in 1..BlockLen :
                                    /\ (j - 1) * BlockLen + k \in 1..Len(c)
                                    /\ Block(c, j)[k] = c[(j - 1) * BlockLen + k]
<1>1. Len(c) \in Nat /\ BlockLen \in Nat \ {0}
  BY SeqFacts, LengthsOfBlocks
<1>2. n \in Nat
      /\ \E r \in 0..(BlockLen - 1) : Len(c) = n * BlockLen + r /\ (Len(c) % BlockLen = 0 <=> r = 0)
  BY <1>1, InBlocks
<1> PICK r \in 0..(BlockLen - 1) : Len(c) = n * BlockLen + r /\ (Len(c) % BlockLen = 0 <=> r = 0)
  BY <1>2
<1> DEFINE w == n * BlockLen
<1>3. w \in Nat /\ (n = 0 => w = 0)
  BY <1>1, <1>2, Product
<1>6. w <= Len(c) /\ (Len(c) % BlockLen = 0 => w = Len(c)) /\ (Len(c) >= BlockLen => n # 0)
  <2> DEFINE z == Len(c) % BlockLen
             m == Len(c)
  <2>1. m = w + r /\ (z = 0 <=> r = 0) /\ m \in Nat
    BY <1>1
  <2> HIDE DEF w, z, m
  <2>2. w <= m /\ (z = 0 => w = m) /\ (m >= BlockLen => n # 0)
    BY <1>1, <1>3, <2>1
  <2> QED
    BY <2>2 DEF z, m
<1>4. ASSUME NEW j \in 1..n
      PROVE  /\ (j - 1) * BlockLen \in Nat /\ (j - 1) * BlockLen < Len(c) /\ j * BlockLen <= Len(c)
             /\ (j - 1) * BlockLen + BlockLen <= Len(c)
  <2> DEFINE i == j - 1
             h == n - j
  <2>1. i \in Nat /\ h \in Nat /\ j = i + 1 /\ n = (i + 1) + h /\ i + 1 \in Nat
    BY <1>2
  <2> HIDE DEF i, h
  <2>2. /\ i * BlockLen \in Nat /\ h * BlockLen \in Nat
        /\ (i + 1) * BlockLen = i * BlockLen + BlockLen
        /\ w = (i + 1) * BlockLen + h * BlockLen
    BY <1>1, <2>1, Product
  <2> DEFINE x == i * BlockLen
             y == h * BlockLen
             z == (i + 1) * BlockLen
  <2>3. x \in Nat /\ y \in Nat /\ z = x + BlockLen /\ w = z + y
    BY <2>2
  <2> HIDE DEF x, y, z, w
  <2>4. x < Len(c) /\ z <= Len(c) /\ x + BlockLen <= Len(c)
    BY <1>1, <1>3, <1>6, <2>3
  <2> QED
    BY <2>1, <2>3, <2>4 DEF x, z, i
<1>5. ASSUME NEW j \in 1..n
      PROVE  /\ IsBlock(Block(c, j)) /\ Len(Block(c, j)) = BlockLen
             /\ \A k \in 1..BlockLen :
                   /\ (j - 1) * BlockLen + k \in 1..Len(c)
                   /\ Block(c, j)[k] = c[(j - 1) * BlockLen + k]
  <2>1. j \in Nat \ {0}
    BY <1>2
  <2>2. /\ Len(Block(c, j)) = BlockLen /\ IsBlock(Block(c, j))
        /\ \A k \in 1..Len(Block(c, j)) : Block(c, j)[k] = c[(j - 1) * BlockLen + k]
    BY <1>4, <2>1, BlockInside
  <2> DEFINE x == (j - 1) * BlockLen
  <2>3. x \in Nat /\ x + BlockLen <= Len(c)
    BY <1>4
  <2> HIDE DEF x
  <2>4. \A k \in 1..BlockLen : x + k \in 1..Len(c)
    BY <1>1, <2>3
  <2> QED
    BY <2>2, <2>4 DEF x
<1> QED
  BY <1>2, <1>3, <1>5, <1>6

MacBlocks(meta, data) ==
    [j \in 1..(Len(meta \o data) \div BlockLen) |-> Block(meta \o data, j)]
MacChain(meta, data, key) == Chain(key, Zeroes(BlockLen), MacBlocks(meta, data))

LEMMA MacIsChain ==
    ASSUME NEW key, NEW meta, IsBlock(meta), NEW data, FreeSeq(key, {}, meta), FreeSeq(key, {}, data),
           Len(data) % BlockLen = 0,
           NEW n, n = Len(meta \o data) \div BlockLen
    PROVE  /\ n \in Nat \ {0} /\ n * BlockLen = BlockLen + Len(data)
           /\ IsChain(key, {}, MacChain(meta, data, key), MacBlocks(meta, data), n)
           /\ CalculateMAC(meta, data, key) = MacChain(meta, data, key)[n]
           /\ \A k \in 1..BlockLen : ByteIn(MacBlocks(meta, data)[1], k) = meta[k]
           /\ \A j \in 1..n, k \in 1..BlockLen :
                 j > 1 => ByteIn(MacBlocks(meta, data)[j], k) = data[(j - 2) * BlockLen + k]
<1> DEFINE c == meta \o data
           x == MacBlocks(meta, data)
           f == MacChain(meta, data, key)
<1>1. IsSeq(meta) /\ Len(meta) = BlockLen /\ IsSeq(data) /\ Len(data) \in Nat /\ BlockLen \in Nat \ {0}
  BY BlockIsSeq, SeqFacts, LengthsOfBlocks DEF FreeSeq
<1>2. /\ IsSeq(c) /\ Len(c) = BlockLen + Len(data)
      /\ \A i \in 1..BlockLen : c[i] = meta[i]
      /\ \A i \in 1..Len(data) : c[BlockLen + i] = data[i]
  BY <1>1, CatSeq
<1>3. n = Len(c) \div BlockLen
  OBVIOUS
<1>4. Len(c) % BlockLen = 0 /\ Len(c) >= BlockLen
  <2>1. PICK q \in Nat : Len(data) = q * BlockLen
    <3> DEFINE q == Len(data) \div BlockLen
    <3>1. q \in Nat /\ \E r \in 0..(BlockLen - 1) :
             Len(data) = q * BlockLen + r /\ (Len(data) % BlockLen = 0 <=> r = 0)
      BY <1>1, InBlocks
    <3>2. Len(data) = q * BlockLen + 0
      BY <3>1
    <3> HIDE DEF q
    <3>3. Len(data) = q * BlockLen
      BY <1>1, <3>1, <3>2
    <3> QED
      BY <3>1, <3>3
  <2>2. (q + 1) * BlockLen = q * BlockLen + BlockLen
    BY <1>1, Product
  <2>3. Len(c) = (q + 1) * BlockLen /\ Len(c) >= BlockLen /\ Len(c) \in Nat
    <3> HIDE DEF c
    <3> QED
      BY <1>1, <1>2, <2>1, <2>2
  <2> HIDE DEF c
  <2> QED
    BY <2>3, WholeOf
<1> HIDE DEF c
<1>5. /\ n \in Nat \ {0} /\ n * BlockLen = BlockLen + Len(data)
      /\ \A j \in 1..n : /\ IsBlock(Block(c, j)) /\ Len(Block(c, j)) = BlockLen
                         /\ \A k \in 1..BlockLen :
                               /\ (j - 1) * BlockLen + k \in 1..Len(c)
                               /\ Block(c, j)[k] = c[(j - 1) * BlockLen + k]
  BY <1>2, <1>3, <1>4, WholeBlocks
<1>6. /\ Len(x) = n /\ \A j \in 1..n : x[j] = Block(c, j)
  <2>1. x = [j \in 1..n |-> Block(c, j)]
    BY <1>3 DEF MacBlocks, c
  <2> QED
    BY <1>5, <2>1, MadeSeq
<1>7. \A j \in 1..n, k \in 1..BlockLen :
         ByteIn(x[j], k) = c[(j - 1) * BlockLen + k] /\ (j - 1) * BlockLen + k \in 1..Len(c)
  <2> SUFFICES ASSUME NEW j \in 1..n, NEW k \in 1..BlockLen
               PROVE  ByteIn(x[j], k) = c[(j - 1) * BlockLen + k] /\ (j - 1) * BlockLen + k \in 1..Len(c)
    OBVIOUS
  <2> DEFINE b == Block(c, j)
             p == (j - 1) * BlockLen + k
  <2>1. x[j] = b /\ Len(b) = BlockLen /\ p \in 1..Len(c) /\ b[k] = c[p]
    BY <1>5, <1>6
  <2> HIDE DEF b, p, x
  <2>2. ByteIn(x[j], k) = c[p]
    BY <1>1, <2>1 DEF ByteIn
  <2> QED
    BY <2>1, <2>2 DEF p
<1>8. \A i \in 1..Len(c) : Free(key, {}, c[i])
  <2> SUFFICES ASSUME NEW i \in 1..Len(c) PROVE Free(key, {}, c[i])
    OBVIOUS
  <2>1. CASE i <= BlockLen
    BY <1>1, <1>2, <2>1 DEF FreeSeq
  <2>2. CASE i > BlockLen
    <3>1. i - BlockLen \in 1..Len(data) /\ i = BlockLen + (i - BlockLen)
      BY <1>1, <1>2, <2>2
    <3> QED
      BY <1>2, <3>1 DEF FreeSeq
  <2> QED
    BY <1>1, <1>2, <2>1, <2>2
<1>9. f = Chain(key, Zeroes(BlockLen), x)
  BY DEF MacChain
<1> HIDE DEF x, f
<1>10. f[0] = Zeroes(BlockLen) /\ \A j \in 1..n : f[j] = Encrypt(key, XorInto(f[j - 1], x[j]))
  BY <1>5, <1>6, <1>9, ChainSteps
<1>11. \A j \in 1..n : FreeChunk(key, {}, x[j])
  BY <1>7, <1>8 DEF FreeChunk
<1>12. IsChain(key, {}, f, x, n)
  BY <1>10, <1>11 DEF IsChain
<1>13. CalculateMAC(meta, data, key) = f[n]
  <2>1. x = [j \in 1..n |-> Block(c, j)]
    BY <1>3 DEF MacBlocks, c, x
  <2> QED
    BY <1>3, <1>9, <2>1 DEF CalculateMAC, c
<1>14. \A k \in 1..BlockLen : ByteIn(x[1], k) = meta[k]
  <2> SUFFICES ASSUME NEW k \in 1..BlockLen PROVE ByteIn(x[1], k) = meta[k]
    OBVIOUS
  <2>1. 1 \in 1..n /\ (1 - 1) * BlockLen + k = k
    BY <1>1, <1>5
  <2> QED
    BY <1>2, <1>7, <2>1
<1>15. ASSUME NEW j \in 1..n, NEW k \in 1..BlockLen, j > 1
       PROVE  ByteIn(x[j], k) = data[(j - 2) * BlockLen + k]
  <2> DEFINE i == j - 2
             w == i * BlockLen
             v == (j - 1) * BlockLen
  <2>1. w \in Nat /\ v = w + BlockLen
    <3>1. i \in Nat /\ j - 1 = i + 1
      BY <1>5, <1>15
    <3> HIDE DEF i
    <3> QED
      BY <1>1, <3>1, Product
  <2>2. v + k \in 1..Len(c) /\ ByteIn(x[j], k) = c[v + k]
    BY <1>7
  <2> HIDE DEF w, v
  <2>3. w + k \in 1..Len(data) /\ v + k = BlockLen + (w + k)
    BY <1>1, <1>2, <2>1, <2>2
  <2> HIDE DEF w
  <2>4. ByteIn(x[j], k) = data[w + k]
    BY <1>2, <2>2, <2>3
  <2> QED
    BY <2>4 DEF w
<1> QED
  BY <1>5, <1>12, <1>13, <1>14, <1>15 DEF x, f

LEMMA ChainsAgree ==
    ASSUME NEW key, NEW given, NEW f, NEW g, NEW x, NEW y, NEW m, NEW n, NEW i,
           Meet(key, given, f, g, x, y, m, n, i)
    PROVE  m = n /\ SameChunks(x, y, m)
<1> SUFFICES ASSUME m \in Nat \ {0}, n \in Nat \ {0}, i \in 1..BlockLen,
                    IsChain(key, given, f, x, m), IsChain(key, given, g, y, n),
                    f[m][i] = g[n][i]
             PROVE  m = n /\ SameChunks(x, y, m)
  BY DEF Meet
<1>1. CASE n <= m
  BY <1>1, ChainInjective
<1>2. CASE m <= n
  <2>1. Meet(key, given, g, f, y, x, n, m, i)
    BY DEF Meet
  <2>2. n = m /\ SameChunks(y, x, n)
    BY <1>2, <2>1, ChainInjective
  <2> QED
    BY <2>2 DEF SameChunks
<1> QED
  BY <1>1, <1>2

LEMMA MacIsEncrypted ==
    ASSUME NEW key, NEW meta, IsBlock(meta), NEW data, FreeSeq(key, {}, meta), FreeSeq(key, {}, data),
           Len(data) % BlockLen = 0
    PROVE  \E b : IsBlock(b) /\ CalculateMAC(meta, data, key) = Encrypt(key, b)
<1> DEFINE n == Len(meta \o data) \div BlockLen
           f == MacChain(meta, data, key)
           x == MacBlocks(meta, data)
<1>1. n \in Nat \ {0} /\ IsChain(key, {}, f, x, n) /\ CalculateMAC(meta, data, key) = f[n]
  BY MacIsChain
<1> HIDE DEF n, f, x
<1>2. n \in 1..n
  BY <1>1
<1>3. IsBlock(XorInto(f[n - 1], x[n]))
  BY <1>1, <1>2, ChainNotGiven
<1>4. f[n] = Encrypt(key, XorInto(f[n - 1], x[n]))
  BY <1>1, <1>2 DEF IsChain
<1> QED
  BY <1>1, <1>3, <1>4

MacInput(key, meta, data) ==
    /\ IsBlock(meta) /\ FreeSeq(key, {}, meta)
    /\ FreeSeq(key, {}, data) /\ Len(data) % BlockLen = 0

\* One byte of a MAC tells what it is of, frame and data.
LEMMA MacTells ==
    ASSUME NEW key, NEW meta, NEW other, NEW data, NEW seen,
           MacInput(key, meta, data), MacInput(key, other, seen),
           NEW k \in 1..BlockLen,
           CalculateMAC(meta, data, key)[k] = CalculateMAC(other, seen, key)[k]
    PROVE  meta = other /\ data = seen
<1> DEFINE m == Len(meta \o data) \div BlockLen
           n == Len(other \o seen) \div BlockLen
           f == MacChain(meta, data, key)
           g == MacChain(other, seen, key)
           x == MacBlocks(meta, data)
           y == MacBlocks(other, seen)
<1>1. /\ m \in Nat \ {0} /\ m * BlockLen = BlockLen + Len(data)
      /\ IsChain(key, {}, f, x, m) /\ CalculateMAC(meta, data, key) = f[m]
      /\ \A b \in 1..BlockLen : ByteIn(x[1], b) = meta[b]
      /\ \A j \in 1..m, b \in 1..BlockLen : j > 1 => ByteIn(x[j], b) = data[(j - 2) * BlockLen + b]
  BY MacIsChain DEF MacInput
<1>2. /\ n \in Nat \ {0} /\ n * BlockLen = BlockLen + Len(seen)
      /\ IsChain(key, {}, g, y, n) /\ CalculateMAC(other, seen, key) = g[n]
      /\ \A b \in 1..BlockLen : ByteIn(y[1], b) = other[b]
      /\ \A j \in 1..n, b \in 1..BlockLen : j > 1 => ByteIn(y[j], b) = seen[(j - 2) * BlockLen + b]
  BY MacIsChain DEF MacInput
<1> HIDE DEF m, n, f, g, x, y
<1>3. m = n /\ \A j \in 1..m, b \in 1..BlockLen : ByteIn(x[j], b) = ByteIn(y[j], b)
  <2>1. f[m][k] = g[n][k]
    BY <1>1, <1>2
  <2>2. Meet(key, {}, f, g, x, y, m, n, k)
    BY <1>1, <1>2, <2>1 DEF Meet
  <2>3. m = n /\ SameChunks(x, y, m)
    BY <2>2, ChainsAgree
  <2> QED
    BY <2>3 DEF SameChunks
<1>4. meta = other
  <2>1. 1 \in 1..m
    BY <1>1
  <2> QED
    BY <1>1, <1>2, <1>3, <2>1, SameBlock DEF MacInput
<1>5. IsSeq(data) /\ IsSeq(seen) /\ Len(data) \in Nat /\ Len(seen) \in Nat /\ BlockLen \in Nat \ {0}
  BY SeqFacts, LengthsOfBlocks DEF FreeSeq, MacInput
<1>6. Len(data) = Len(seen)
  <2> DEFINE w == m * BlockLen
  <2>1. w = BlockLen + Len(data) /\ w = BlockLen + Len(seen)
    BY <1>1, <1>2, <1>3
  <2> HIDE DEF w
  <2> QED
    BY <1>5, <2>1
<1>7. ASSUME NEW i \in 1..Len(data) PROVE data[i] = seen[i]
  <2> DEFINE j == BlockOf(i)
             b == ByteOf(i)
             h == m - 1
             w == h * BlockLen
  <2>1. h \in Nat /\ w \in Nat /\ m * BlockLen = w + BlockLen
    <3>1. h \in Nat /\ m = h + 1
      BY <1>1
    <3> HIDE DEF h
    <3> QED
      BY <1>5, <3>1, Product
  <2>2. Len(data) = w
    <3> DEFINE v == m * BlockLen
    <3>1. v = w + BlockLen /\ v = BlockLen + Len(data)
      BY <1>1, <2>1
    <3> HIDE DEF v, w
    <3> QED
      BY <1>5, <2>1, <3>1
  <2>3. j \in 1..h /\ b \in 1..BlockLen /\ i = (j - 1) * BlockLen + b
    <3>1. i \in Nat \ {0}
      BY <1>5
    <3>2. NumBlocks(data) = h
      <4> HIDE DEF h
      <4> QED
        BY <1>5, <2>1, <2>2, CountBlocks
    <3> QED
      BY <1>5, <3>1, <3>2, PlaceOf, CountBlocks
  <2>4. j + 1 \in 1..m /\ j + 1 > 1 /\ (j + 1) - 2 = j - 1
    BY <1>1, <2>3
  <2> HIDE DEF j, b, h, w
  <2>5. /\ ByteIn(x[j + 1], b) = data[(j - 1) * BlockLen + b]
        /\ ByteIn(y[j + 1], b) = seen[(j - 1) * BlockLen + b]
        /\ ByteIn(x[j + 1], b) = ByteIn(y[j + 1], b)
    <3>1. j + 1 \in 1..n
      BY <1>3, <2>4
    <3>2. ByteIn(x[j + 1], b) = data[((j + 1) - 2) * BlockLen + b]
      BY <1>1, <2>3, <2>4
    <3>3. ByteIn(y[j + 1], b) = seen[((j + 1) - 2) * BlockLen + b]
      BY <1>2, <2>3, <2>4, <3>1
    <3> QED
      BY <1>3, <2>3, <2>4, <3>2, <3>3
  <2> QED
    BY <2>3, <2>5
<1> QED
  BY <1>4, <1>5, <1>6, <1>7, SameSeq

-----------------------------------------------------------------------------
(* The tag of V2 *)

\* The blocks the stream is made of.
Counters == {buildCtrBlock(m, c) : m \in Nat, c \in Nat}

CcmBlock(first, m, c) == <<ToByte(first)>> \o NonceBytes(m) \o <<ToByte(c \div 256), ToByte(c)>>

LEMMA BlocksOfCcm ==
    ASSUME NEW m \in Nat, NEW c \in Nat, NEW first \in Nat, NEW b, b = CcmBlock(first, m, c)
    PROVE  /\ IsBlock(b) /\ b[1] = ToByte(first) /\ b[BlockLen] = ToByte(c)
           /\ \A k \in 1..BlockLen : b[k] \in Octet
<1> DEFINE h == <<ToByte(first)>>
           z == NonceBytes(m)
           e == <<ToByte(c \div 256), ToByte(c)>>
           a == h \o z
<1>1. BlockLen \in Nat /\ BlockLen >= 5 /\ NonceLen = BlockLen - 3 /\ NonceLen \in Nat
  BY LengthsOfBlocks DEF NonceLen
<1>2. IsSeq(h) /\ Len(h) = 1 /\ h[1] = ToByte(first) /\ h[1] \in Octet
  BY OneSeq, BitOf
<1>3. IsSeq(z) /\ Len(z) = NonceLen /\ \A i \in 1..NonceLen : z[i] \in Octet
  <2>1. \A i \in 1..NonceLen : z[i] = IF i = NonceLen THEN ToByte(m) ELSE {}
    BY DEF NonceBytes
  <2>2. {} \in Octet /\ ToByte(m) \in Octet
    BY BitOf DEF Octet
  <2>3. IsSeq(z) /\ Len(z) = NonceLen
    BY <1>1, MadeSeq DEF NonceBytes
  <2> QED
    BY <2>1, <2>2, <2>3
<1>4. IsSeq(e) /\ Len(e) = 2 /\ e[1] \in Octet /\ e[2] \in Octet /\ e[2] = ToByte(c)
  <2>1. c \div 256 \in Nat
    BY Quotient
  <2>2. e = [i \in 1..2 |-> e[i]]
    OBVIOUS
  <2>3. IsSeq(e) /\ Len(e) = 2
    BY <2>2, MadeSeq
  <2> QED
    BY <2>1, <2>3, BitOf
<1> HIDE DEF h, z, e
<1>5. /\ IsSeq(a) /\ Len(a) = 1 + NonceLen /\ a[1] = h[1]
      /\ \A i \in 1..NonceLen : a[1 + i] = z[i]
  <2>0. IsSeq(h) /\ IsSeq(z)
    BY <1>2, <1>3
  <2>1. /\ IsSeq(a) /\ Len(a) = Len(h) + Len(z) /\ \A i \in 1..Len(h) : a[i] = h[i]
        /\ \A i \in 1..Len(z) : a[Len(h) + i] = z[i]
    BY <2>0, CatSeq
  <2>2. 1 \in 1..1
    OBVIOUS
  <2> HIDE DEF a
  <2> QED
    BY <1>2, <1>3, <2>1, <2>2
<1>6. \A i \in 1..(1 + NonceLen) : a[i] \in Octet
  <2> SUFFICES ASSUME NEW i \in 1..(1 + NonceLen), i # 1 PROVE a[i] \in Octet
    BY <1>2, <1>5
  <2>1. i - 1 \in 1..NonceLen /\ i = 1 + (i - 1)
    BY <1>1
  <2> QED
    BY <1>3, <1>5, <2>1
<1> HIDE DEF a
<1>7. b = a \o e
  BY DEF a, h, z, e, CcmBlock
<1>8. /\ IsSeq(b) /\ Len(b) = (1 + NonceLen) + 2
      /\ \A i \in 1..(1 + NonceLen) : b[i] = a[i]
      /\ b[(1 + NonceLen) + 1] = e[1] /\ b[(1 + NonceLen) + 2] = e[2]
  <2>0. IsSeq(a) /\ IsSeq(e)
    BY <1>4, <1>5
  <2>1. /\ IsSeq(b) /\ Len(b) = Len(a) + Len(e) /\ \A i \in 1..Len(a) : b[i] = a[i]
        /\ \A i \in 1..Len(e) : b[Len(a) + i] = e[i]
    BY <2>0, <1>7, CatSeq
  <2>2. 1 \in 1..2 /\ 2 \in 1..2
    OBVIOUS
  <2> QED
    BY <1>4, <1>5, <2>1, <2>2
<1>9. Len(b) = BlockLen /\ (1 + NonceLen) + 2 = BlockLen /\ (1 + NonceLen) + 1 = BlockLen - 1
  BY <1>1, <1>8
<1>10. IsBlock(b)
  <2>1. b = [i \in 1..Len(b) |-> b[i]]
    BY <1>8, SeqFacts
  <2> QED
    BY <1>9, <2>1 DEF IsBlock
<1>11. ASSUME NEW k \in 1..BlockLen PROVE b[k] \in Octet
  <2>1. k \in 1..(1 + NonceLen) \/ k = (1 + NonceLen) + 1 \/ k = (1 + NonceLen) + 2
    BY <1>1
  <2> QED
    BY <1>4, <1>6, <1>8, <2>1
<1>12. b[1] = ToByte(first) /\ b[BlockLen] = ToByte(c)
  <2>1. 1 \in 1..(1 + NonceLen)
    BY <1>1
  <2> QED
    BY <1>2, <1>4, <1>5, <1>8, <1>9, <2>1
<1> QED
  BY <1>10, <1>11, <1>12

LEMMA CounterBlock ==
    ASSUME NEW b \in Counters
    PROVE  IsBlock(b) /\ b[1] = ToByte(1) /\ \A k \in 1..BlockLen : b[k] \in Octet
<1> DEFINE first == 1
<1>1. PICK m \in Nat, d \in Nat : b = buildCtrBlock(m, d)
  BY DEF Counters
<1>2. b = CcmBlock(first, m, d)
  BY <1>1 DEF buildCtrBlock, CcmBlock
<1>3. first \in Nat
  OBVIOUS
<1> HIDE DEF first
<1>4. IsBlock(b) /\ b[1] = ToByte(first) /\ \A k \in 1..BlockLen : b[k] \in Octet
  BY <1>2, <1>3, BlocksOfCcm
<1> QED
  BY <1>4 DEF first

LEMMA FirstBlock ==
    ASSUME NEW m \in Nat, NEW c \in Nat
    PROVE  /\ IsBlock(buildB0(m, c)) /\ buildB0(m, c) \notin Counters
           /\ buildB0(m, c)[BlockLen] = ToByte(c)
           /\ \A k \in 1..BlockLen : buildB0(m, c)[k] \in Octet
<1>1. /\ IsBlock(buildB0(m, c)) /\ buildB0(m, c)[1] = ToByte(25)
      /\ buildB0(m, c)[BlockLen] = ToByte(c)
      /\ \A k \in 1..BlockLen : buildB0(m, c)[k] \in Octet
  <2> DEFINE b == buildB0(m, c)
             first == 25
  <2>1. b = CcmBlock(first, m, c)
    BY DEF buildB0, CcmBlock
  <2>2. first \in Nat
    OBVIOUS
  <2> HIDE DEF b, first
  <2>3. /\ IsBlock(b) /\ b[1] = ToByte(first) /\ b[BlockLen] = ToByte(c)
    BY <2>1, <2>2, BlocksOfCcm
  <2>4. \A k \in 1..BlockLen : b[k] \in Octet
    BY <2>1, <2>2, BlocksOfCcm
  <2> QED
    BY <2>3, <2>4 DEF b, first
<1>2. ToByte(25) # ToByte(1)
  <2>1. 25 \in 0..255 /\ 1 \in 0..255 /\ 25 # 1
    OBVIOUS
  <2> QED
    BY <2>1, ToByteInjective
<1> QED
  BY <1>1, <1>2, CounterBlock

CcmBlocks(b0, data) ==
    [j \in 1..(NumBlocks(data) + 1) |-> IF j = 1 THEN b0 ELSE Block(data, j - 1)]
CcmChain(key, b0, data) ==
    [j \in 0..(NumBlocks(data) + 1) |->
        IF j = 0 THEN Zeroes(BlockLen) ELSE Chain(key, Encrypt(key, b0), Blocks(data))[j - 1]]

TagChain(key, len, b0, data, f, x, n) ==
    /\ n \in Nat \ {0}
    /\ IsChain(key, Counters, f, x, n)
    /\ IsSeq(computeCBCMAC(key, data, b0)) /\ Len(computeCBCMAC(key, data, b0)) = TagLen
    /\ \A k \in 1..TagLen : computeCBCMAC(key, data, b0)[k] = f[n][k]
    /\ ByteIn(x[1], BlockLen) = ToByte(len)
    /\ \A i \in 1..Len(data) :
          /\ BlockOf(i) + 1 \in 1..n /\ ByteOf(i) \in 1..BlockLen
          /\ ByteIn(x[BlockOf(i) + 1], ByteOf(i)) = data[i]

\* The tag is a chain that begins with the block b0.
LEMMA TagIsChain ==
    ASSUME NEW key, NEW m \in Nat, NEW len \in Nat, NEW b0, b0 = buildB0(m, len),
           NEW data, FreeSeq(key, Counters, data), NEW n, n = NumBlocks(data) + 1
    PROVE  TagChain(key, len, b0, data, CcmChain(key, b0, data), CcmBlocks(b0, data), n)
<1> DEFINE f == CcmChain(key, b0, data)
           x == CcmBlocks(b0, data)
           N == NumBlocks(data)
           c == Chain(key, Encrypt(key, b0), Blocks(data))
<1>1. /\ IsSeq(data) /\ Len(data) \in Nat /\ N \in Nat /\ n = N + 1
      /\ BlockLen \in Nat \ {0} /\ TagLen \in 1..BlockLen
  BY SeqFacts, CountBlocks, LengthsOfBlocks DEF FreeSeq
<1>2. /\ IsBlock(b0) /\ b0 \notin Counters /\ b0[BlockLen] = ToByte(len)
      /\ \A k \in 1..BlockLen : b0[k] \in Octet
  BY FirstBlock
<1>3. /\ Len(Blocks(data)) = N /\ \A j \in 1..N : Blocks(data)[j] = Block(data, j)
  BY <1>1, BlocksOf
<1>4. /\ c[0] = Encrypt(key, b0)
      /\ \A j \in 1..N : c[j] = Encrypt(key, XorInto(c[j - 1], Block(data, j)))
      /\ \A j \in 0..N : IsBlock(c[j])
  <2>1. IsBlock(Encrypt(key, b0))
    BY EncryptIsBlock
  <2>2. Len(Blocks(data)) \in Nat
    BY <1>1, <1>3
  <2>3. c[0] = Encrypt(key, b0) /\ \A j \in 1..N : c[j] = Encrypt(key, XorInto(c[j - 1], Blocks(data)[j]))
    BY <1>3, <2>2, ChainSteps
  <2>4. \A j \in 0..N : IsBlock(c[j])
    BY <1>3, <2>1, <2>2, ChainIsBlocks
  <2> QED
    BY <1>3, <2>3, <2>4
<1>5. f[0] = Zeroes(BlockLen) /\ \A j \in 1..n : f[j] = c[j - 1]
  <2>1. \A j \in 0..(N + 1) : f[j] = IF j = 0 THEN Zeroes(BlockLen) ELSE c[j - 1]
    BY DEF CcmChain
  <2> HIDE DEF f, c
  <2> QED
    BY <1>1, <2>1
<1>6. x[1] = b0 /\ \A j \in 1..n : j # 1 => x[j] = Block(data, j - 1)
  <2>1. \A j \in 1..(N + 1) : x[j] = IF j = 1 THEN b0 ELSE Block(data, j - 1)
    BY DEF CcmBlocks
  <2> HIDE DEF x
  <2> QED
    BY <1>1, <2>1
<1> HIDE DEF f, x, c, N
<1>7. XorInto(f[0], x[1]) = b0
  <2>1. IsBlock(XorInto(Zeroes(BlockLen), b0))
        /\ \A k \in 1..BlockLen : XorInto(Zeroes(BlockLen), b0)[k] = Xor(Zeroes(BlockLen)[k], ByteIn(b0, k))
    BY ZeroBlock, XorIntoAt
  <2>2. \A k \in 1..BlockLen : Zeroes(BlockLen)[k] = {} /\ ByteIn(b0, k) = b0[k]
    <3>1. Len(b0) = BlockLen
      BY <1>2, BlockIsSeq
    <3> QED
      BY <1>1, <3>1, ZeroesAre DEF ByteIn
  <2>3. \A k \in 1..BlockLen : XorInto(Zeroes(BlockLen), b0)[k] = b0[k]
    <3> SUFFICES ASSUME NEW k \in 1..BlockLen PROVE XorInto(Zeroes(BlockLen), b0)[k] = b0[k]
      OBVIOUS
    <3>1. XorInto(Zeroes(BlockLen), b0)[k] = Xor({}, b0[k])
      BY <2>1, <2>2
    <3> QED
      BY <3>1, XorFacts
  <2>4. XorInto(Zeroes(BlockLen), b0) = b0
    BY <1>2, <2>1, <2>3, SameBlock
  <2> QED
    BY <1>5, <1>6, <2>4
<1>8. ASSUME NEW j \in 1..n PROVE f[j] = Encrypt(key, XorInto(f[j - 1], x[j]))
  <2>1. CASE j = 1
    <3>1. f[1] = c[0]
      BY <1>5, <2>1
    <3> QED
      BY <1>4, <1>7, <2>1, <3>1
  <2>2. CASE j # 1
    <3> DEFINE h == j - 1
    <3>1. h \in 1..N /\ h \in 1..n /\ j - 1 = h
      BY <1>1, <2>2
    <3>2. f[j] = c[h] /\ f[h] = c[h - 1] /\ x[j] = Block(data, h)
      BY <1>5, <1>6, <2>2, <3>1
    <3> HIDE DEF h
    <3> QED
      BY <1>4, <3>1, <3>2
  <2> QED
    BY <2>1, <2>2
<1>9. ASSUME NEW j \in 1..n PROVE FreeChunk(key, Counters, x[j])
  <2> SUFFICES ASSUME NEW k \in 1..BlockLen PROVE Free(key, Counters, ByteIn(x[j], k))
    BY DEF FreeChunk
  <2>1. CASE j = 1
    <3>1. b0[k] \in Octet /\ {} \in Octet
      BY <1>2 DEF Octet
    <3>2. ByteIn(x[j], k) \in Octet
      BY <1>6, <2>1, <3>1 DEF ByteIn
    <3> QED
      BY <3>2, OctetFree
  <2>2. CASE j # 1
    <3> DEFINE h == j - 1
               w == (h - 1) * BlockLen
    <3>1. h \in 1..N /\ h \in Nat \ {0} /\ w < Len(data)
      <4>1. h \in 1..N /\ h \in Nat \ {0}
        BY <1>1, <2>2
      <4> HIDE DEF h
      <4> QED
        BY <1>1, <4>1, CountBlocks DEF N
    <3>2. x[j] = Block(data, h)
      BY <1>6, <2>2
    <3>3. CASE k <= Len(x[j])
      <4>1. /\ w + Len(x[j]) <= Len(data) /\ Len(x[j]) \in Nat
            /\ \A i \in 1..Len(x[j]) : x[j][i] = data[w + i]
        <5> HIDE DEF h
        <5> QED
          BY <1>1, <3>1, <3>2, BlockInside
      <4>2. w \in Nat
        <5> DEFINE g == h - 1
        <5>1. g \in Nat
          BY <3>1
        <5> HIDE DEF g
        <5> QED
          BY <1>1, <5>1, Product DEF g
      <4> HIDE DEF w
      <4>3. w + k \in 1..Len(data) /\ x[j][k] = data[w + k]
        BY <1>1, <3>3, <4>1, <4>2
      <4> QED
        BY <3>3, <4>3 DEF ByteIn, FreeSeq
    <3>4. CASE ~(k <= Len(x[j]))
      BY <3>4, EmptyFree DEF ByteIn
    <3> QED
      BY <3>3, <3>4
  <2> QED
    BY <2>1, <2>2
<1>10. IsChain(key, Counters, f, x, n)
  <2>1. \A d \in Counters : d[1] \in Octet
    <3>1. 1 \in 1..BlockLen
      BY <1>1
    <3> QED
      BY <3>1, CounterBlock
  <2> QED
    BY <1>2, <1>5, <1>7, <1>8, <1>9, <2>1 DEF IsChain
<1>11. /\ IsSeq(computeCBCMAC(key, data, b0)) /\ Len(computeCBCMAC(key, data, b0)) = TagLen
       /\ \A k \in 1..TagLen : computeCBCMAC(key, data, b0)[k] = f[n][k]
  <2>1. computeCBCMAC(key, data, b0) = SubSeq(c[N], 1, TagLen) /\ f[n] = c[N] /\ IsBlock(c[N])
    <3>1. n \in 1..n /\ n - 1 = N /\ N \in 0..N
      BY <1>1
    <3> QED
      BY <1>4, <1>5, <3>1 DEF computeCBCMAC, c, N
  <2> DEFINE e == c[N]
  <2>2. IsSeq(e) /\ Len(e) = BlockLen
    BY <2>1, BlockIsSeq
  <2> HIDE DEF e
  <2>3. /\ IsSeq(SubSeq(e, 1, TagLen)) /\ Len(SubSeq(e, 1, TagLen)) = TagLen - 1 + 1
        /\ \A i \in 1..(TagLen - 1 + 1) : SubSeq(e, 1, TagLen)[i] = e[(1 - 1) + i]
    <3>1. 1 \in Nat \ {0} /\ TagLen \in Nat /\ TagLen <= Len(e) /\ 1 <= TagLen + 1
      BY <1>1, <2>2
    <3> QED
      BY <2>2, <3>1, PartSeq
  <2>4. TagLen - 1 + 1 = TagLen /\ \A i \in 1..TagLen : (1 - 1) + i = i
    BY <1>1
  <2> QED
    BY <2>1, <2>3, <2>4 DEF e
<1>12. ByteIn(x[1], BlockLen) = ToByte(len)
  <2>1. Len(b0) = BlockLen
    BY <1>2, BlockIsSeq
  <2> QED
    BY <1>1, <1>2, <1>6, <2>1 DEF ByteIn
<1>13. ASSUME NEW i \in 1..Len(data)
       PROVE  /\ BlockOf(i) + 1 \in 1..n /\ ByteOf(i) \in 1..BlockLen
              /\ ByteIn(x[BlockOf(i) + 1], ByteOf(i)) = data[i]
  <2> DEFINE j == BlockOf(i)
             k == ByteOf(i)
  <2>1. j \in 1..N /\ k \in 1..Len(Block(data, j)) /\ data[i] = Block(data, j)[k]
    BY <1>1, CountBlocks, BlocksOf DEF N
  <2>2. k \in 1..BlockLen
    <3>1. i \in Nat \ {0}
      BY <1>1
    <3> QED
      BY <3>1, PlaceOf
  <2> HIDE DEF j, k
  <2>3. j + 1 \in 1..n /\ j + 1 # 1 /\ (j + 1) - 1 = j
    BY <1>1, <2>1
  <2>4. x[j + 1] = Block(data, j)
    BY <1>6, <2>3
  <2>5. ByteIn(x[j + 1], k) = data[i]
    BY <2>1, <2>4 DEF ByteIn
  <2> QED
    BY <2>2, <2>3, <2>5 DEF j, k
<1> QED
  BY <1>1, <1>2, <1>10, <1>11, <1>12, <1>13 DEF f, x, TagChain

SameText(data, seen) ==
    /\ ToByte(Len(data)) = ToByte(Len(seen))
    /\ \A i \in 1..Len(data) : i <= Len(seen) => data[i] = seen[i]

\* One byte of a tag tells the data it is of, but for the length beyond one byte.
LEMMA TagTells ==
    ASSUME NEW key, NEW m \in Nat, NEW h \in Nat, NEW data, NEW seen,
           FreeSeq(key, Counters, data), FreeSeq(key, Counters, seen),
           NEW k \in 1..TagLen,
           computeCBCMAC(key, data, buildB0(m, Len(data)))[k] = computeCBCMAC(key, seen, buildB0(h, Len(seen)))[k]
    PROVE  SameText(data, seen)
<1> DEFINE a == buildB0(m, Len(data))
           b == buildB0(h, Len(seen))
           f == CcmChain(key, a, data)
           g == CcmChain(key, b, seen)
           x == CcmBlocks(a, data)
           y == CcmBlocks(b, seen)
           p == NumBlocks(data) + 1
           q == NumBlocks(seen) + 1
<1>1. Len(data) \in Nat /\ Len(seen) \in Nat /\ BlockLen \in Nat \ {0} /\ k \in 1..BlockLen
  BY SeqFacts, LengthsOfBlocks DEF FreeSeq
<1>2. a = buildB0(m, Len(data)) /\ b = buildB0(h, Len(seen)) /\ p = NumBlocks(data) + 1 /\ q = NumBlocks(seen) + 1
  OBVIOUS
<1> HIDE DEF a, b, p, q
<1>3. TagChain(key, Len(data), a, data, f, x, p)
  BY <1>1, <1>2, TagIsChain
<1>4. TagChain(key, Len(seen), b, seen, g, y, q)
  BY <1>1, <1>2, TagIsChain
<1> HIDE DEF f, g, x, y
<1>9. p \in Nat \ {0} /\ q \in Nat \ {0} /\ IsChain(key, Counters, f, x, p) /\ IsChain(key, Counters, g, y, q)
  BY <1>3, <1>4 DEF TagChain
<1>5. f[p][k] = g[q][k]
  BY <1>2, <1>3, <1>4 DEF TagChain
<1>6. p = q /\ \A j \in 1..p, i \in 1..BlockLen : ByteIn(x[j], i) = ByteIn(y[j], i)
  <2>1. k \in 1..BlockLen
    BY <1>1
  <2>2. Meet(key, Counters, f, g, x, y, p, q, k)
    BY <1>5, <1>9, <2>1 DEF Meet
  <2>3. p = q /\ SameChunks(x, y, p)
    BY <2>2, ChainsAgree
  <2> QED
    BY <2>3 DEF SameChunks
<1>7. 1 \in 1..p /\ BlockLen \in 1..BlockLen
  BY <1>1, <1>9
<1>8. ASSUME NEW i \in 1..Len(data), i <= Len(seen) PROVE data[i] = seen[i]
  <2>1. i \in 1..Len(seen)
    BY <1>1, <1>8
  <2> QED
    BY <1>3, <1>4, <1>6, <2>1 DEF TagChain
<1> QED
  BY <1>3, <1>4, <1>6, <1>7, <1>8 DEF TagChain, SameText

\* What the stream is made of does not make a byte of a tag.
LEMMA TagShows ==
    ASSUME NEW key, NEW m \in Nat, NEW len \in Nat, NEW data, FreeSeq(key, Counters, data),
           NEW k \in 1..TagLen, NEW y, Free(key, Counters, y)
    PROVE  computeCBCMAC(key, data, buildB0(m, len))[k] # y
<1> DEFINE b0 == buildB0(m, len)
           f == CcmChain(key, b0, data)
           x == CcmBlocks(b0, data)
           n == NumBlocks(data) + 1
           a == XorInto(f[n - 1], x[n])
<1>1. b0 = buildB0(m, len) /\ n = NumBlocks(data) + 1
  OBVIOUS
<1> HIDE DEF b0, n
<1>7. TagChain(key, len, b0, data, f, x, n)
  BY <1>1, TagIsChain
<1>2. n \in Nat \ {0} /\ IsChain(key, Counters, f, x, n) /\ computeCBCMAC(key, data, b0)[k] = f[n][k]
  BY <1>7 DEF TagChain
<1> HIDE DEF f, x
<1>3. n \in 1..n /\ k \in 1..BlockLen
  BY <1>2, LengthsOfBlocks
<1>4. IsBlock(a) /\ a \notin Counters
  BY <1>2, <1>3, ChainNotGiven
<1>5. f[n] = Encrypt(key, a)
  BY <1>2, <1>3 DEF IsChain
<1> HIDE DEF a
<1>6. Xor(Encrypt(key, a)[k], {}) # y
  BY <1>3, <1>4, EmptyFree, EncryptedStays
<1> QED
  BY <1>1, <1>2, <1>5, <1>6, XorFacts

-----------------------------------------------------------------------------
(* What V2 seals opens again *)

Stream(key, m, i) == Encrypt(key, buildCtrBlock(m, BlockOf(i) - 1))[ByteOf(i)]

LEMMA CtrOf ==
    ASSUME NEW key, NEW m \in Nat, NEW data, IsSeq(data)
    PROVE  /\ IsSeq(ctrCrypt(key, m, data)) /\ Len(ctrCrypt(key, m, data)) = Len(data)
           /\ \A i \in 1..Len(data) : ctrCrypt(key, m, data)[i] = Xor(data[i], Stream(key, m, i))
<1> DEFINE stream == [j \in 1..NumBlocks(data) |-> Encrypt(key, buildCtrBlock(m, j - 1))]
           c == ctrCrypt(key, m, data)
<1>1. c = [i \in 1..Len(data) |-> Xor(data[i], stream[BlockOf(i)][ByteOf(i)])]
  BY DEF ctrCrypt
<1>2. \A j \in 1..NumBlocks(data) : stream[j] = Encrypt(key, buildCtrBlock(m, j - 1))
  OBVIOUS
<1>3. \A i \in 1..Len(data) : BlockOf(i) \in 1..NumBlocks(data)
  BY CountBlocks
<1> HIDE DEF c, stream
<1>4. \A i \in 1..Len(data) : c[i] = Xor(data[i], stream[BlockOf(i)][ByteOf(i)])
  BY <1>1
<1>5. \A i \in 1..Len(data) : c[i] = Xor(data[i], Stream(key, m, i))
  BY <1>2, <1>3, <1>4 DEF Stream
<1>6. Len(data) \in Nat
  BY SeqFacts
<1>7. c = [i \in 1..Len(data) |-> c[i]]
  BY <1>1
<1>8. IsSeq(c) /\ Len(c) = Len(data)
  BY <1>6, <1>7, MadeSeq
<1> QED
  BY <1>5, <1>8 DEF c

LEMMA StreamFree ==
    ASSUME NEW key, NEW m \in Nat, NEW i \in Nat \ {0}, NEW other, NEW given,
           key # other \/ given = Counters
    PROVE  Free(other, given, Stream(key, m, i))
<1> DEFINE j == BlockOf(i) - 1
           k == ByteOf(i)
           b == buildCtrBlock(m, j)
<1>1. j \in Nat /\ k \in 1..BlockLen
  BY PlaceOf
<1> HIDE DEF j, k
<1>2. b \in Counters
  BY <1>1 DEF Counters
<1>3. IsBlock(b)
  BY <1>2, CounterBlock
<1> HIDE DEF b
<1>4. Free(other, given, Encrypt(key, b)[k])
  BY <1>1, <1>2, <1>3, EncryptedFree
<1> QED
  BY <1>4 DEF Stream, b, j, k

HasTagFirst(f, tag, data) ==
    /\ IsSeq(f) /\ Len(f) = BlockLen + Len(data)
    /\ \A k \in 1..TagLen : f[k] = tag[k]
    /\ \A i \in 1..Len(data) : f[BlockLen + i] = data[i]

LEMMA TagFirstOf ==
    ASSUME NEW tag, IsSeq(tag), Len(tag) = TagLen, NEW data, IsSeq(data)
    PROVE  HasTagFirst(TagFirst(tag, data), tag, data)
<1> DEFINE z == Zeroes(BlockLen - TagLen)
           a == tag \o z
           b == a \o data
<1>1. BlockLen - TagLen \in Nat /\ BlockLen \in Nat /\ TagLen \in 1..BlockLen
  BY LengthsOfBlocks
<1>2. IsSeq(z) /\ Len(z) = BlockLen - TagLen
  BY <1>1, ZeroesAre
<1> HIDE DEF z
<1>3. IsSeq(a) /\ Len(a) = Len(tag) + Len(z) /\ \A k \in 1..Len(tag) : a[k] = tag[k]
  BY <1>2, CatSeq
<1> HIDE DEF a
<1>4. /\ IsSeq(b) /\ Len(b) = Len(a) + Len(data)
      /\ \A k \in 1..Len(a) : b[k] = a[k]
      /\ \A i \in 1..Len(data) : b[Len(a) + i] = data[i]
  <2>1. IsSeq(a)
    BY <1>3
  <2> QED
    BY <2>1, CatSeq
<1>5. Len(a) = BlockLen
  BY <1>1, <1>2, <1>3
<1>6. TagFirst(tag, data) = b
  BY DEF TagFirst, a, z
<1> HIDE DEF b
<1>7. \A k \in 1..TagLen : b[k] = tag[k]
  BY <1>1, <1>3, <1>4, <1>5
<1> QED
  BY <1>4, <1>5, <1>6, <1>7 DEF HasTagFirst

TagOf(key, m, p) == computeCBCMAC(key, p, buildB0(m, Len(p)))

LEMMA TagIsSeq ==
    ASSUME NEW key, NEW m \in Nat, NEW len \in Nat, NEW data, FreeSeq(key, Counters, data)
    PROVE  IsSeq(computeCBCMAC(key, data, buildB0(m, len))) /\ Len(computeCBCMAC(key, data, buildB0(m, len))) = TagLen
<1> DEFINE b0 == buildB0(m, len)
           n == NumBlocks(data) + 1
<1>1. b0 = buildB0(m, len) /\ n = NumBlocks(data) + 1
  OBVIOUS
<1> HIDE DEF b0, n
<1>2. TagChain(key, len, b0, data, CcmChain(key, b0, data), CcmBlocks(b0, data), n)
  BY <1>1, TagIsChain
<1>3. IsSeq(computeCBCMAC(key, data, b0)) /\ Len(computeCBCMAC(key, data, b0)) = TagLen
  BY <1>2 DEF TagChain
<1> QED
  BY <1>1, <1>3

IsSealed(c, key, m, p) ==
    /\ IsSeq(c) /\ Len(c) = Len(p) + TagLen
    /\ \A i \in 1..Len(p) : c[i] = Xor(p[i], Stream(key, m, BlockLen + i))
    /\ \A k \in 1..TagLen : c[Len(p) + k] = Xor(TagOf(key, m, p)[k], Stream(key, m, k))

LEMMA SealedBytes ==
    ASSUME NEW key, NEW m \in Nat, NEW p, FreeSeq(key, Counters, p),
           NEW c, c = EncryptAndAuthenticate(key, m, p)
    PROVE  IsSealed(c, key, m, p)
<1> DEFINE tag == TagOf(key, m, p)
           first == TagFirst(tag, p)
           buf == ctrCrypt(key, m, first)
           a == SubSeq(buf, BlockLen + 1, Len(buf))
           b == SubSeq(buf, 1, TagLen)
           n == Len(p)
<1>1. IsSeq(p) /\ n \in Nat /\ BlockLen \in Nat \ {0} /\ TagLen \in 1..BlockLen
  BY SeqFacts, LengthsOfBlocks DEF FreeSeq
<1>2. IsSeq(tag) /\ Len(tag) = TagLen
  BY <1>1, TagIsSeq DEF TagOf
<1> HIDE DEF tag
<1>3. /\ IsSeq(first) /\ Len(first) = BlockLen + n
      /\ \A k \in 1..TagLen : first[k] = tag[k]
      /\ \A i \in 1..n : first[BlockLen + i] = p[i]
  <2>1. HasTagFirst(first, tag, p)
    BY <1>1, <1>2, TagFirstOf
  <2> HIDE DEF first
  <2> QED
    BY <2>1 DEF HasTagFirst
<1> HIDE DEF first
<1>4. /\ IsSeq(buf) /\ Len(buf) = BlockLen + n
      /\ \A i \in 1..(BlockLen + n) : buf[i] = Xor(first[i], Stream(key, m, i))
  BY <1>3, CtrOf
<1>5. c = a \o b
  BY DEF EncryptAndAuthenticate, buf, first, tag, TagOf
<1> HIDE DEF buf
<1>6. IsSeq(a) /\ Len(a) = n /\ \A i \in 1..n : a[i] = buf[BlockLen + i]
  <2> DEFINE u == BlockLen + 1
             v == Len(buf)
  <2>1. u \in Nat \ {0} /\ v \in Nat /\ v <= Len(buf) /\ u <= v + 1
    BY <1>1, <1>4
  <2>2. v - u + 1 = n /\ u - 1 = BlockLen
    BY <1>1, <1>4
  <2>3. a = SubSeq(buf, u, v)
    OBVIOUS
  <2> HIDE DEF a, u, v
  <2>4. IsSeq(a) /\ Len(a) = v - u + 1 /\ \A i \in 1..(v - u + 1) : a[i] = buf[(u - 1) + i]
    BY <1>4, <2>1, <2>3, PartSeq
  <2> QED
    BY <2>2, <2>4
<1>7. IsSeq(b) /\ Len(b) = TagLen /\ \A k \in 1..TagLen : b[k] = buf[k]
  <2> DEFINE u == 1
  <2>1. u \in Nat \ {0} /\ TagLen \in Nat /\ TagLen <= Len(buf) /\ u <= TagLen + 1
    BY <1>1, <1>4
  <2>2. TagLen - u + 1 = TagLen /\ \A k \in 1..TagLen : (u - 1) + k = k
    BY <1>1
  <2>3. b = SubSeq(buf, u, TagLen)
    OBVIOUS
  <2> HIDE DEF b, u
  <2>4. IsSeq(b) /\ Len(b) = TagLen - u + 1 /\ \A i \in 1..(TagLen - u + 1) : b[i] = buf[(u - 1) + i]
    BY <1>4, <2>1, <2>3, PartSeq
  <2> QED
    BY <2>2, <2>4
<1> HIDE DEF a, b
<1>8. /\ IsSeq(c) /\ Len(c) = Len(a) + Len(b)
      /\ \A i \in 1..Len(a) : c[i] = a[i]
      /\ \A k \in 1..Len(b) : c[Len(a) + k] = b[k]
  <2>1. IsSeq(a) /\ IsSeq(b)
    BY <1>6, <1>7
  <2> QED
    BY <1>5, <2>1, CatSeq
<1>9. ASSUME NEW i \in 1..n PROVE c[i] = Xor(p[i], Stream(key, m, BlockLen + i))
  <2>1. BlockLen + i \in 1..(BlockLen + n)
    BY <1>1
  <2> QED
    BY <1>3, <1>4, <1>6, <1>8, <2>1
<1>10. ASSUME NEW k \in 1..TagLen PROVE c[n + k] = Xor(tag[k], Stream(key, m, k))
  <2>1. k \in 1..(BlockLen + n)
    BY <1>1
  <2> QED
    BY <1>3, <1>4, <1>6, <1>7, <1>8, <2>1
<1> QED
  BY <1>6, <1>7, <1>8, <1>9, <1>10 DEF tag, IsSealed

\* The text and the tag that are decrypted.
OpenedText(key, m, c) ==
    [i \in 1..(Len(c) - TagLen) |-> Xor(c[i], Stream(key, m, BlockLen + i))]
OpenedTag(key, m, c) ==
    [k \in 1..TagLen |-> Xor(c[(Len(c) - TagLen) + k], Stream(key, m, k))]

LEMMA OpenedBytes ==
    ASSUME NEW key, NEW m \in Nat, NEW c, IsSeq(c), TagLen <= Len(c)
    PROVE  /\ IsSeq(OpenedText(key, m, c)) /\ Len(OpenedText(key, m, c)) = Len(c) - TagLen
           /\ DecryptAndAuthenticate(key, m, c) =
                 IF OpenedTag(key, m, c) = TagOf(key, m, OpenedText(key, m, c))
                 THEN Plain(OpenedText(key, m, c))
                 ELSE Failed
<1> DEFINE n == Len(c) - TagLen
           t == SubSeq(c, n + 1, n + TagLen)
           d == SubSeq(c, 1, n)
           first == TagFirst(t, d)
           buf == ctrCrypt(key, m, first)
           a == SubSeq(buf, BlockLen + 1, Len(buf))
           b == SubSeq(buf, 1, TagLen)
           p == OpenedText(key, m, c)
           tag == OpenedTag(key, m, c)
<1>1. n \in Nat /\ n + TagLen = Len(c) /\ BlockLen \in Nat \ {0} /\ TagLen \in 1..BlockLen
  BY SeqFacts, LengthsOfBlocks
<1>2. DecryptAndAuthenticate(key, m, c) = IF n >= 0 /\ b = computeCBCMAC(key, a, buildB0(m, n))
                                          THEN Plain(a) ELSE Failed
  BY DEF DecryptAndAuthenticate
<1>3. p = [i \in 1..n |-> Xor(c[i], Stream(key, m, BlockLen + i))]
      /\ tag = [k \in 1..TagLen |-> Xor(c[n + k], Stream(key, m, k))]
  BY DEF OpenedText, OpenedTag
<1> HIDE DEF n, p, tag
<1>4. IsSeq(t) /\ Len(t) = TagLen /\ \A k \in 1..TagLen : t[k] = c[n + k]
  <2> DEFINE u == n + 1
             v == n + TagLen
  <2>1. u \in Nat \ {0} /\ v \in Nat /\ v <= Len(c) /\ u <= v + 1 /\ v - u + 1 = TagLen /\ u - 1 = n
    BY <1>1
  <2>2. t = SubSeq(c, u, v)
    OBVIOUS
  <2> HIDE DEF t, u, v
  <2>3. IsSeq(t) /\ Len(t) = v - u + 1 /\ \A i \in 1..(v - u + 1) : t[i] = c[(u - 1) + i]
    BY <2>1, <2>2, PartSeq
  <2> QED
    BY <2>1, <2>3
<1>5. IsSeq(d) /\ Len(d) = n /\ \A i \in 1..n : d[i] = c[i]
  <2> DEFINE u == 1
  <2>1. u \in Nat \ {0} /\ n <= Len(c) /\ u <= n + 1 /\ n - u + 1 = n /\ \A i \in 1..n : (u - 1) + i = i
    BY <1>1
  <2>2. d = SubSeq(c, u, n)
    OBVIOUS
  <2> HIDE DEF d, u
  <2>3. IsSeq(d) /\ Len(d) = n - u + 1 /\ \A i \in 1..(n - u + 1) : d[i] = c[(u - 1) + i]
    BY <1>1, <2>1, <2>2, PartSeq
  <2> QED
    BY <2>1, <2>3
<1> HIDE DEF t, d
<1>6. /\ IsSeq(first) /\ Len(first) = BlockLen + n
      /\ \A k \in 1..TagLen : first[k] = t[k]
      /\ \A i \in 1..n : first[BlockLen + i] = d[i]
  <2>1. IsSeq(t) /\ Len(t) = TagLen /\ IsSeq(d)
    BY <1>4, <1>5
  <2>2. HasTagFirst(first, t, d)
    BY <2>1, TagFirstOf
  <2> HIDE DEF first
  <2> QED
    BY <1>5, <2>2 DEF HasTagFirst
<1> HIDE DEF first
<1>7. /\ IsSeq(buf) /\ Len(buf) = BlockLen + n
      /\ \A i \in 1..(BlockLen + n) : buf[i] = Xor(first[i], Stream(key, m, i))
  BY <1>6, CtrOf
<1> HIDE DEF buf
<1>8. IsSeq(a) /\ Len(a) = n /\ \A i \in 1..n : a[i] = buf[BlockLen + i]
  <2> DEFINE u == BlockLen + 1
             v == Len(buf)
  <2>1. u \in Nat \ {0} /\ v \in Nat /\ v <= Len(buf) /\ u <= v + 1
    BY <1>1, <1>7
  <2>2. v - u + 1 = n /\ u - 1 = BlockLen
    BY <1>1, <1>7
  <2>3. a = SubSeq(buf, u, v)
    OBVIOUS
  <2> HIDE DEF a, u, v
  <2>4. IsSeq(a) /\ Len(a) = v - u + 1 /\ \A i \in 1..(v - u + 1) : a[i] = buf[(u - 1) + i]
    BY <1>7, <2>1, <2>3, PartSeq
  <2> QED
    BY <2>2, <2>4
<1>9. IsSeq(b) /\ Len(b) = TagLen /\ \A k \in 1..TagLen : b[k] = buf[k]
  <2> DEFINE u == 1
  <2>1. u \in Nat \ {0} /\ TagLen \in Nat /\ TagLen <= Len(buf) /\ u <= TagLen + 1
    BY <1>1, <1>7
  <2>2. TagLen - u + 1 = TagLen /\ \A k \in 1..TagLen : (u - 1) + k = k
    BY <1>1
  <2>3. b = SubSeq(buf, u, TagLen)
    OBVIOUS
  <2> HIDE DEF b, u
  <2>4. IsSeq(b) /\ Len(b) = TagLen - u + 1 /\ \A i \in 1..(TagLen - u + 1) : b[i] = buf[(u - 1) + i]
    BY <1>7, <2>1, <2>3, PartSeq
  <2> QED
    BY <2>2, <2>4
<1> HIDE DEF a, b
<1>10. IsSeq(p) /\ Len(p) = n /\ \A i \in 1..n : p[i] = Xor(c[i], Stream(key, m, BlockLen + i))
  <2>1. p = [i \in 1..n |-> p[i]] /\ \A i \in 1..n : p[i] = Xor(c[i], Stream(key, m, BlockLen + i))
    BY <1>3
  <2> QED
    BY <1>1, <2>1, MadeSeq
<1>11. IsSeq(tag) /\ Len(tag) = TagLen /\ \A k \in 1..TagLen : tag[k] = Xor(c[n + k], Stream(key, m, k))
  <2>1. tag = [i \in 1..TagLen |-> tag[i]] /\ \A k \in 1..TagLen : tag[k] = Xor(c[n + k], Stream(key, m, k))
    BY <1>3
  <2> QED
    BY <1>1, <2>1, MadeSeq
<1>12. a = p
  <2>1. ASSUME NEW i \in 1..n PROVE a[i] = p[i]
    <3>1. BlockLen + i \in 1..(BlockLen + n)
      BY <1>1
    <3> QED
      BY <1>5, <1>6, <1>7, <1>8, <1>10, <3>1
  <2> QED
    BY <1>8, <1>10, <2>1, SameSeq
<1>13. b = tag
  <2>1. ASSUME NEW k \in 1..TagLen PROVE b[k] = tag[k]
    <3>1. k \in 1..(BlockLen + n)
      BY <1>1
    <3> QED
      BY <1>4, <1>6, <1>7, <1>9, <1>11, <3>1
  <2> QED
    BY <1>9, <1>11, <2>1, SameSeq
<1>14. n >= 0
  BY <1>1
<1> QED
  BY <1>2, <1>10, <1>12, <1>13, <1>14 DEF TagOf, n, p, tag

LEMMA OpensSealed ==
    ASSUME NEW key, NEW m \in Nat, NEW p, FreeSeq(key, Counters, p)
    PROVE  DecryptAndAuthenticate(key, m, EncryptAndAuthenticate(key, m, p)) = Plain(p)
<1> DEFINE c == EncryptAndAuthenticate(key, m, p)
           q == OpenedText(key, m, c)
           t == OpenedTag(key, m, c)
           n == Len(p)
           tag == TagOf(key, m, p)
<1>1. c = EncryptAndAuthenticate(key, m, p)
  OBVIOUS
<1>2. IsSeq(p) /\ n \in Nat /\ TagLen \in Nat
  BY SeqFacts, LengthsOfBlocks DEF FreeSeq
<1> HIDE DEF c
<1>3. /\ IsSeq(c) /\ Len(c) = n + TagLen
      /\ \A i \in 1..n : c[i] = Xor(p[i], Stream(key, m, BlockLen + i))
      /\ \A k \in 1..TagLen : c[n + k] = Xor(tag[k], Stream(key, m, k))
  <2>1. IsSealed(c, key, m, p)
    BY <1>1, SealedBytes
  <2> QED
    BY <2>1 DEF IsSealed
<1>4. TagLen <= Len(c) /\ Len(c) - TagLen = n
  BY <1>2, <1>3
<1>5. /\ IsSeq(q) /\ Len(q) = n
      /\ DecryptAndAuthenticate(key, m, c) = IF t = TagOf(key, m, q) THEN Plain(q) ELSE Failed
  BY <1>3, <1>4, OpenedBytes
<1>6. q = [i \in 1..n |-> Xor(c[i], Stream(key, m, BlockLen + i))]
      /\ t = [k \in 1..TagLen |-> Xor(c[n + k], Stream(key, m, k))]
  BY <1>4 DEF OpenedText, OpenedTag
<1>7. IsSeq(tag) /\ Len(tag) = TagLen
  BY <1>2, TagIsSeq DEF TagOf
<1> HIDE DEF q, t, tag
<1>8. q = p
  <2>1. ASSUME NEW i \in 1..n PROVE q[i] = p[i]
    <3>1. q[i] = Xor(Xor(p[i], Stream(key, m, BlockLen + i)), Stream(key, m, BlockLen + i))
      BY <1>3, <1>6
    <3> QED
      BY <3>1, XorFacts
  <2> QED
    BY <1>2, <1>5, <2>1, SameSeq
<1>9. t = tag
  <2>1. IsSeq(t) /\ Len(t) = TagLen
    <3>1. t = [k \in 1..TagLen |-> t[k]]
      BY <1>6
    <3> QED
      BY <1>2, <3>1, MadeSeq
  <2>2. ASSUME NEW k \in 1..TagLen PROVE t[k] = tag[k]
    <3>1. t[k] = Xor(Xor(tag[k], Stream(key, m, k)), Stream(key, m, k))
      BY <1>3, <1>6
    <3> QED
      BY <3>1, XorFacts
  <2> QED
    BY <1>7, <2>1, <2>2, SameSeq
<1> QED
  BY <1>1, <1>5, <1>8, <1>9 DEF tag

-----------------------------------------------------------------------------
(* Damage *)

Flipped(c, i) == [c EXCEPT ![i] = Xor(@, {Bit(0)})]
Without(c, i) == SubSeq(c, 1, i - 1) \o SubSeq(c, i + 1, Len(c))
Damaged(c, x) == \E i \in 1..Len(c) : x = Flipped(c, i) \/ x = Without(c, i)

IsFlipped(x, c, i) ==
    /\ IsSeq(x) /\ Len(x) = Len(c)
    /\ x[i] = Xor(c[i], {Bit(0)})
    /\ \A j \in 1..Len(c) : j # i => x[j] = c[j]

LEMMA FlippedIs ==
    ASSUME NEW c, IsSeq(c), NEW i \in 1..Len(c), NEW x, x = Flipped(c, i)
    PROVE  IsFlipped(x, c, i)
<1>1. Len(c) \in Nat /\ DOMAIN c = 1..Len(c)
  BY SeqFacts
<1>2. x = [j \in 1..Len(c) |-> IF j = i THEN Xor(c[i], {Bit(0)}) ELSE c[j]]
  BY <1>1 DEF Flipped
<1>3. x = [j \in 1..Len(c) |-> x[j]]
  BY <1>2
<1>4. IsSeq(x) /\ Len(x) = Len(c)
  BY <1>1, <1>3, MadeSeq
<1> QED
  BY <1>2, <1>4 DEF IsFlipped

IsWithout(x, c, i) ==
    /\ IsSeq(x) /\ Len(x) = Len(c) - 1
    /\ \A j \in 1..(i - 1) : x[j] = c[j]
    /\ \A j \in i..(Len(c) - 1) : x[j] = c[j + 1]

LEMMA WithoutIs ==
    ASSUME NEW c, IsSeq(c), NEW i \in 1..Len(c), NEW x, x = Without(c, i)
    PROVE  IsWithout(x, c, i)
<1> DEFINE n == Len(c)
           a == SubSeq(c, 1, i - 1)
           b == SubSeq(c, i + 1, Len(c))
<1>1. n \in Nat /\ n = Len(c)
  BY SeqFacts
<1>2. IsSeq(a) /\ Len(a) = i - 1 /\ \A j \in 1..(i - 1) : a[j] = c[j]
  <2> DEFINE u == 1
             v == i - 1
  <2>1. /\ u \in Nat \ {0} /\ v \in Nat /\ v <= Len(c) /\ u <= v + 1 /\ v - u + 1 = i - 1
        /\ \A j \in 1..(i - 1) : (u - 1) + j = j
    BY <1>1
  <2>2. a = SubSeq(c, u, v)
    OBVIOUS
  <2> HIDE DEF a, u, v
  <2>3. IsSeq(a) /\ Len(a) = v - u + 1 /\ \A j \in 1..(v - u + 1) : a[j] = c[(u - 1) + j]
    BY <2>1, <2>2, PartSeq
  <2> QED
    BY <2>1, <2>3
<1>3. IsSeq(b) /\ Len(b) = n - i /\ \A j \in 1..(n - i) : b[j] = c[i + j]
  <2> DEFINE u == i + 1
             v == n
  <2>1. u \in Nat \ {0} /\ v \in Nat /\ v <= Len(c) /\ u <= v + 1 /\ v - u + 1 = n - i /\ u - 1 = i
    BY <1>1
  <2>2. b = SubSeq(c, u, v)
    OBVIOUS
  <2> HIDE DEF b, u, v
  <2>3. IsSeq(b) /\ Len(b) = v - u + 1 /\ \A j \in 1..(v - u + 1) : b[j] = c[(u - 1) + j]
    BY <2>1, <2>2, PartSeq
  <2> QED
    BY <2>1, <2>3
<1>4. x = a \o b
  BY DEF Without
<1> HIDE DEF a, b, n
<1>5. /\ IsSeq(x) /\ Len(x) = Len(a) + Len(b)
      /\ \A j \in 1..Len(a) : x[j] = a[j]
      /\ \A j \in 1..Len(b) : x[Len(a) + j] = b[j]
  <2>1. IsSeq(a) /\ IsSeq(b)
    BY <1>2, <1>3
  <2> QED
    BY <1>4, <2>1, CatSeq
<1>6. Len(x) = n - 1 /\ \A j \in 1..(i - 1) : x[j] = c[j]
  BY <1>1, <1>2, <1>3, <1>5
<1>7. ASSUME NEW j \in i..(n - 1) PROVE x[j] = c[j + 1]
  <2> DEFINE h == j - (i - 1)
  <2>1. h \in 1..(n - i) /\ (i - 1) + h = j /\ i + h = j + 1
    BY <1>1
  <2> HIDE DEF h
  <2>2. b[h] = c[j + 1]
    BY <1>3, <2>1
  <2>3. x[(i - 1) + h] = b[h]
    BY <1>2, <1>3, <1>5, <2>1
  <2> QED
    BY <2>1, <2>2, <2>3
<1> QED
  BY <1>1, <1>5, <1>6, <1>7 DEF IsWithout

LEMMA Neighbours == \A n \in Nat \ {0} : ToByte(n) # ToByte(n - 1)
<1> SUFFICES ASSUME NEW n \in Nat \ {0}, ToByte(n) = ToByte(n - 1) PROVE FALSE
  OBVIOUS
<1>1. n - 1 \in Nat /\ n \in Nat
  OBVIOUS
<1>2. n % 2 = 1 <=> (n - 1) % 2 = 1
  BY <1>1, BitsOf
<1> QED
  BY <1>2

LEMMA OctetsFree ==
    ASSUME NEW key, NEW given, NEW p, IsSeq(p), \A i \in 1..Len(p) : p[i] \in Octet
    PROVE  FreeSeq(key, given, p)
  BY OctetFree DEF FreeSeq

\* The text that opens from bytes the stream and octets made.
LEMMA OpenedFree ==
    ASSUME NEW key, NEW m \in Nat, NEW x, IsSeq(x), TagLen <= Len(x),
           \A i \in 1..(Len(x) - TagLen) : Free(key, Counters, x[i])
    PROVE  FreeSeq(key, Counters, OpenedText(key, m, x))
<1> DEFINE q == OpenedText(key, m, x)
           n == Len(x) - TagLen
<1>1. IsSeq(q) /\ Len(q) = n
  BY OpenedBytes
<1>2. q = [i \in 1..n |-> Xor(x[i], Stream(key, m, BlockLen + i))]
  BY DEF OpenedText
<1> HIDE DEF q, n
<1>3. ASSUME NEW i \in 1..n PROVE Free(key, Counters, q[i])
  <2>1. BlockLen + i \in Nat \ {0} /\ i \in 1..(Len(x) - TagLen)
    BY LengthsOfBlocks DEF n
  <2>2. Free(key, Counters, Stream(key, m, BlockLen + i)) /\ Free(key, Counters, x[i])
    BY <2>1, StreamFree
  <2>3. Free(key, Counters, Xor(x[i], Stream(key, m, BlockLen + i)))
    BY <2>2, XorFree
  <2> QED
    BY <1>2, <2>3
<1> QED
  BY <1>1, <1>3 DEF FreeSeq, q

\* An answer that was damaged does not open to something else.
LEMMA OpensDamaged ==
    ASSUME NEW key, NEW m \in Nat, NEW p, IsSeq(p), Len(p) # 0,
           \A i \in 1..Len(p) : p[i] \in Octet,
           NEW x, Damaged(EncryptAndAuthenticate(key, m, p), x),
           DecryptAndAuthenticate(key, m, x).ok
    PROVE  DecryptAndAuthenticate(key, m, x).data = p
<1> DEFINE c == EncryptAndAuthenticate(key, m, p)
           q == OpenedText(key, m, x)
           t == OpenedTag(key, m, x)
           n == Len(p)
           tag == TagOf(key, m, p)
<1>1. c = EncryptAndAuthenticate(key, m, p) /\ Damaged(c, x)
  OBVIOUS
<1>2. n \in Nat \ {0} /\ TagLen \in Nat \ {0} /\ BlockLen \in Nat \ {0} /\ TagLen <= BlockLen
  BY SeqFacts, LengthsOfBlocks
<1>3. FreeSeq(key, Counters, p)
  BY OctetsFree
<1> HIDE DEF c
<1>4. /\ IsSeq(c) /\ Len(c) = n + TagLen
      /\ \A i \in 1..n : c[i] = Xor(p[i], Stream(key, m, BlockLen + i))
      /\ \A k \in 1..TagLen : c[n + k] = Xor(tag[k], Stream(key, m, k))
  <2>1. IsSealed(c, key, m, p)
    BY <1>1, <1>3, SealedBytes
  <2> QED
    BY <2>1 DEF IsSealed
<1>5. PICK i \in 1..Len(c) : x = Flipped(c, i) \/ x = Without(c, i)
  BY <1>1 DEF Damaged
<1>6. IsSeq(x) /\ TagLen <= Len(x) /\ Len(x) - TagLen \in Nat
  <2>1. CASE x = Flipped(c, i)
    <3>1. IsSeq(x) /\ Len(x) = Len(c)
      BY <1>4, <2>1, FlippedIs DEF IsFlipped
    <3> QED
      BY <1>2, <1>4, <3>1
  <2>2. CASE x = Without(c, i)
    <3>1. IsSeq(x) /\ Len(x) = Len(c) - 1
      BY <1>4, <2>2, WithoutIs DEF IsWithout
    <3> QED
      BY <1>2, <1>4, <3>1
  <2> QED
    BY <1>5, <2>1, <2>2
<1>7. /\ IsSeq(q) /\ Len(q) = Len(x) - TagLen
      /\ DecryptAndAuthenticate(key, m, x) = IF t = TagOf(key, m, q) THEN Plain(q) ELSE Failed
  BY <1>6, OpenedBytes
<1>8. /\ \A j \in 1..(Len(x) - TagLen) : q[j] = Xor(x[j], Stream(key, m, BlockLen + j))
      /\ \A k \in 1..TagLen : t[k] = Xor(x[(Len(x) - TagLen) + k], Stream(key, m, k))
  BY DEF OpenedText, OpenedTag
<1>9. \A j \in 1..n : Free(key, Counters, c[j])
  <2> SUFFICES ASSUME NEW j \in 1..n PROVE Free(key, Counters, c[j])
    OBVIOUS
  <2>1. BlockLen + j \in Nat \ {0}
    BY <1>2
  <2>2. Free(key, Counters, Stream(key, m, BlockLen + j)) /\ Free(key, Counters, p[j])
    BY <1>3, <2>1, StreamFree DEF FreeSeq
  <2>3. Free(key, Counters, Xor(p[j], Stream(key, m, BlockLen + j)))
    BY <2>2, XorFree
  <2> QED
    BY <1>4, <2>3
<1> HIDE DEF q, t, tag
<1>10. t = TagOf(key, m, q) /\ DecryptAndAuthenticate(key, m, x).data = q
  <2>1. DecryptAndAuthenticate(key, m, x).ok
    OBVIOUS
  <2>2. t = TagOf(key, m, q)
    BY <1>7, <2>1 DEF Failed
  <2> QED
    BY <1>7, <2>2 DEF Plain
<1>11. FreeSeq(key, Counters, q)
       <=> \A j \in 1..(Len(x) - TagLen) : Free(key, Counters, x[j])
  <2>1. ASSUME \A j \in 1..(Len(x) - TagLen) : Free(key, Counters, x[j]) PROVE FreeSeq(key, Counters, q)
    BY <1>6, <2>1, OpenedFree DEF q
  <2>2. ASSUME FreeSeq(key, Counters, q), NEW j \in 1..(Len(x) - TagLen) PROVE Free(key, Counters, x[j])
    <3>1. BlockLen + j \in Nat \ {0}
      BY <1>2
    <3>2. Free(key, Counters, Stream(key, m, BlockLen + j)) /\ Free(key, Counters, q[j])
      BY <1>7, <2>2, <3>1, StreamFree DEF FreeSeq
    <3>3. Free(key, Counters, Xor(q[j], Stream(key, m, BlockLen + j)))
      BY <3>2, XorFree
    <3>4. x[j] = Xor(q[j], Stream(key, m, BlockLen + j))
      BY <1>8, XorFacts
    <3> QED
      BY <3>3, <3>4
  <2> QED
    BY <2>1, <2>2
<1>12. 1 \in 1..TagLen
  BY <1>2
<1>13. ASSUME \A j \in 1..(Len(x) - TagLen) : Free(key, Counters, x[j]), t[1] = tag[1]
       PROVE  SameText(p, q)
  <2>1. FreeSeq(key, Counters, q)
    BY <1>11, <1>13
  <2>2. computeCBCMAC(key, p, buildB0(m, Len(p)))[1] = computeCBCMAC(key, q, buildB0(m, Len(q)))[1]
    BY <1>10, <1>13 DEF TagOf, tag
  <2> QED
    BY <1>3, <1>12, <2>1, <2>2, TagTells
<1>14. CASE x = Flipped(c, i)
  <2>1. Len(x) = Len(c) /\ x[i] = Xor(c[i], {Bit(0)}) /\ \A j \in 1..Len(c) : j # i => x[j] = c[j]
    <3>1. IsFlipped(x, c, i)
      BY <1>4, <1>14, FlippedIs
    <3> QED
      BY <3>1 DEF IsFlipped
  <2>2. Len(x) - TagLen = n /\ Len(q) = n
    BY <1>2, <1>4, <1>7, <2>1
  <2>3. CASE i > n
    <3>1. ASSUME NEW j \in 1..n PROVE q[j] = p[j]
      <4>1. x[j] = c[j]
        BY <1>2, <1>4, <2>1, <2>3
      <4>2. q[j] = Xor(Xor(p[j], Stream(key, m, BlockLen + j)), Stream(key, m, BlockLen + j))
        BY <1>4, <1>8, <2>2, <4>1
      <4> QED
        BY <4>2, XorFacts
    <3>2. q = p
      BY <1>7, <2>2, <3>1, SameSeq
    <3> QED
      BY <1>10, <3>2
  <2>4. CASE ~(i > n)
    <3>1. ASSUME NEW j \in 1..(Len(x) - TagLen) PROVE Free(key, Counters, x[j])
      <4>1. j \in 1..n /\ j \in 1..Len(c)
        BY <1>2, <1>4, <2>2
      <4>2. CASE j = i
        <5>1. {Bit(0)} \in Octet
          BY DEF Octet
        <5>2. Free(key, Counters, {Bit(0)})
          BY <5>1, OctetFree
        <5>3. Free(key, Counters, Xor(c[i], {Bit(0)}))
          BY <1>9, <4>1, <4>2, <5>2, XorFree
        <5> QED
          BY <2>1, <4>2, <5>3
      <4>3. CASE j # i
        BY <1>9, <2>1, <4>1, <4>3
      <4> QED
        BY <4>2, <4>3
    <3>2. t[1] = tag[1]
      <4>1. n + 1 \in 1..Len(c) /\ n + 1 # i
        BY <1>2, <1>4, <2>4
      <4>2. x[n + 1] = Xor(tag[1], Stream(key, m, 1))
        BY <1>4, <1>12, <2>1, <4>1
      <4>3. t[1] = Xor(Xor(tag[1], Stream(key, m, 1)), Stream(key, m, 1))
        BY <1>8, <1>12, <2>2, <4>2
      <4> QED
        BY <4>3, XorFacts
    <3>3. \A j \in 1..n : j <= Len(q) => p[j] = q[j]
      BY <1>13, <3>1, <3>2 DEF SameText
    <3>4. \A j \in 1..Len(q) : q[j] = p[j]
      BY <1>2, <2>2, <3>3
    <3>5. q = p
      BY <1>7, <2>2, <3>4, SameSeq
    <3> QED
      BY <1>10, <3>5
  <2> QED
    BY <2>3, <2>4
<1>15. CASE x = Without(c, i)
  <2>1. /\ Len(x) = Len(c) - 1
        /\ \A j \in 1..(i - 1) : x[j] = c[j]
        /\ \A j \in i..(Len(c) - 1) : x[j] = c[j + 1]
    <3>1. IsWithout(x, c, i)
      BY <1>4, <1>15, WithoutIs
    <3> QED
      BY <3>1 DEF IsWithout
  <2>2. Len(x) - TagLen = n - 1 /\ Len(q) = n - 1
    BY <1>2, <1>4, <1>7, <2>1
  <2>3. ASSUME NEW j \in 1..(Len(x) - TagLen) PROVE Free(key, Counters, x[j])
    <3>1. j \in 1..n /\ j + 1 \in 1..n /\ j \in 1..(Len(c) - 1)
      BY <1>2, <1>4, <2>2
    <3>2. CASE j < i
      <4>1. x[j] = c[j]
        BY <2>1, <3>1, <3>2
      <4> QED
        BY <1>9, <3>1, <4>1
    <3>3. CASE ~(j < i)
      <4>1. x[j] = c[j + 1]
        BY <2>1, <3>1, <3>3
      <4> QED
        BY <1>9, <3>1, <4>1
    <3> QED
      BY <3>2, <3>3
  <2>4. t[1] = Xor(x[n], Stream(key, m, 1))
    <3>1. (n - 1) + 1 = n
      BY <1>2
    <3> QED
      BY <1>8, <1>12, <2>2, <3>1
  <2>5. CASE i <= n
    <3>1. x[n] = c[n + 1]
      <4>1. n \in i..(Len(c) - 1)
        BY <1>2, <1>4, <2>5
      <4> QED
        BY <2>1, <4>1
    <3>2. t[1] = Xor(Xor(tag[1], Stream(key, m, 1)), Stream(key, m, 1))
      BY <1>4, <1>12, <2>4, <3>1
    <3>3. t[1] = tag[1]
      BY <3>2, XorFacts
    <3>4. ToByte(n) = ToByte(n - 1)
      BY <1>13, <2>2, <2>3, <3>3 DEF SameText
    <3> QED
      BY <1>2, <3>4, Neighbours
  <2>6. CASE i > n
    <3>1. x[n] = c[n]
      <4>1. n \in 1..(i - 1)
        BY <1>2, <1>4, <2>6
      <4> QED
        BY <2>1, <4>1
    <3>2. Free(key, Counters, Stream(key, m, 1))
      BY StreamFree
    <3>3. Free(key, Counters, t[1])
      <4>1. Free(key, Counters, c[n])
        BY <1>2, <1>9
      <4>2. Free(key, Counters, Xor(c[n], Stream(key, m, 1)))
        BY <3>2, <4>1, XorFree
      <4> QED
        BY <2>4, <3>1, <4>2
    <3>4. FreeSeq(key, Counters, q)
      BY <1>11, <2>3
    <3>5. Len(q) \in Nat
      BY <1>2, <2>2
    <3>6. computeCBCMAC(key, q, buildB0(m, Len(q)))[1] # t[1]
      BY <1>12, <3>3, <3>4, <3>5, TagShows
    <3> QED
      BY <1>10, <3>6 DEF TagOf
  <2> QED
    BY <1>2, <2>5, <2>6
<1> QED
  BY <1>5, <1>14, <1>15

-----------------------------------------------------------------------------
(* The answers V1 takes *)

LEMMA MacIsBlock ==
    ASSUME NEW key, NEW meta, IsSeq(meta), NEW data, IsSeq(data)
    PROVE  IsBlock(CalculateMAC(meta, data, key))
<1> DEFINE c == meta \o data
           n == Len(c) \div BlockLen
           blocks == [j \in 1..n |-> Block(c, j)]
<1>1. CalculateMAC(meta, data, key) = Chain(key, Zeroes(BlockLen), blocks)[n]
  BY DEF CalculateMAC
<1>2. IsSeq(c)
  BY CatSeq
<1>3. n \in Nat
  <2> HIDE DEF c
  <2> QED
    BY <1>2, WholeBlocks
<1>4. Len(blocks) = n
  <2> HIDE DEF n
  <2>1. blocks = [j \in 1..n |-> blocks[j]]
    OBVIOUS
  <2> HIDE DEF blocks
  <2> QED
    BY <1>3, <2>1, MadeSeq
<1> HIDE DEF n, blocks
<1>5. n \in 0..Len(blocks) /\ Len(blocks) \in Nat
  BY <1>3, <1>4
<1>6. IsBlock(Chain(key, Zeroes(BlockLen), blocks)[n])
  BY <1>5, ZeroBlock, ChainIsBlocks
<1> QED
  BY <1>1, <1>6 DEF n, blocks

LEMMA AnswerMeta ==
    ASSUME NEW length \in Nat
    PROVE  IsBlock(answerMeta(length)) /\ FreeSeq("mac", {}, answerMeta(length))
<1> DEFINE h == <<Length(length)>>
           z == Zeroes(BlockLen - 1)
           m == h \o z
<1>1. BlockLen - 1 \in Nat /\ BlockLen \in Nat \ {0}
  BY LengthsOfBlocks
<1>2. IsSeq(h) /\ Len(h) = 1 /\ h[1] \in Octet
  BY OneSeq, LengthOf
<1>3. IsSeq(z) /\ Len(z) = BlockLen - 1 /\ \A i \in 1..(BlockLen - 1) : z[i] \in Octet
  <2>1. {} \in Octet
    BY DEF Octet
  <2> QED
    BY <1>1, <2>1, ZeroesAre
<1>4. answerMeta(length) = m
  BY DEF answerMeta
<1> HIDE DEF h, z
<1>5. /\ IsSeq(m) /\ Len(m) = Len(h) + Len(z)
      /\ \A i \in 1..Len(h) : m[i] = h[i]
      /\ \A i \in 1..Len(z) : m[Len(h) + i] = z[i]
  <2>1. IsSeq(h) /\ IsSeq(z)
    BY <1>2, <1>3
  <2> QED
    BY <2>1, CatSeq
<1> HIDE DEF m
<1>6. Len(m) = BlockLen
  BY <1>1, <1>2, <1>3, <1>5
<1>7. ASSUME NEW i \in 1..BlockLen PROVE m[i] \in Octet
  <2>1. CASE i = 1
    BY <1>2, <1>5, <2>1
  <2>2. CASE i # 1
    <3>1. i - 1 \in 1..(BlockLen - 1) /\ 1 + (i - 1) = i
      BY <1>1, <2>2
    <3>2. m[1 + (i - 1)] = z[i - 1]
      BY <1>2, <1>3, <1>5, <3>1
    <3> QED
      BY <1>3, <3>1, <3>2
  <2> QED
    BY <2>1, <2>2
<1>8. m = [i \in 1..Len(m) |-> m[i]]
  BY <1>5, SeqFacts
<1>9. IsBlock(m)
  BY <1>6, <1>8 DEF IsBlock
<1>10. FreeSeq("mac", {}, m)
  BY <1>5, <1>6, <1>7, OctetsFree
<1> QED
  BY <1>4, <1>9, <1>10

\* Every byte of encrypted data is a byte of an encrypted block.
Made(key, x) == \E b : IsBlock(b) /\ \E k \in 1..BlockLen : x = Encrypt(key, b)[k]

LEMMA EncryptedMade ==
    ASSUME NEW p, IsSeq(p), NEW key, NEW v, IsBlock(v), NEW e, e = EncryptData(p, key, v)
    PROVE  /\ IsSeq(e) /\ Len(e) \in Nat \ {0} /\ Len(e) % BlockLen = 0
           /\ \A i \in 1..Len(e) : Made(key, e[i])
<1> DEFINE n == (Len(p) \div BlockLen) + 1
           c == Cbc(p, key, v)
           x == appendPadding(p)
<1>1. n = (Len(p) \div BlockLen) + 1 /\ BlockLen \in Nat \ {0}
  BY LengthsOfBlocks
<1> HIDE DEF n
<1>2. /\ n \in Nat \ {0} /\ n * BlockLen \in Nat /\ IsSeq(e) /\ Len(e) = n * BlockLen
      /\ \A j \in 0..n : IsBlock(c[j])
      /\ \A j \in 1..n : c[j] = Encrypt(key, XorInto(c[j - 1], Block(x, j)))
      /\ \A j \in 1..n, k \in 1..BlockLen : e[(j - 1) * BlockLen + k] = c[j][k]
  BY <1>1, Encrypted
<1> HIDE DEF c, x
<1>3. Len(e) % BlockLen = 0
  BY <1>2, WholeOf
<1>4. Len(e) \in Nat \ {0}
  <2> DEFINE h == n - 1
             w == h * BlockLen
  <2>1. h \in Nat /\ n = h + 1
    BY <1>2
  <2> HIDE DEF h
  <2>2. w \in Nat /\ n * BlockLen = w + BlockLen
    BY <1>1, <2>1, Product
  <2> HIDE DEF w
  <2> QED
    BY <1>1, <1>2, <2>2
<1>5. ASSUME NEW i \in 1..Len(e) PROVE Made(key, e[i])
  <2> DEFINE j == BlockOf(i)
             k == ByteOf(i)
  <2>1. i \in Nat \ {0}
    BY <1>4
  <2>2. NumBlocks(e) = n
    BY <1>2, CountBlocks
  <2>3. j \in 1..n /\ k \in 1..BlockLen /\ i = (j - 1) * BlockLen + k
    BY <1>2, <2>1, <2>2, CountBlocks, PlaceOf
  <2> HIDE DEF j, k
  <2>4. e[i] = c[j][k]
    BY <1>2, <2>3
  <2>5. j - 1 \in 0..n
    BY <1>2, <2>3
  <2> DEFINE b == XorInto(c[j - 1], Block(x, j))
  <2>6. IsBlock(b) /\ c[j] = Encrypt(key, b)
    BY <1>2, <2>3, <2>5, XorIntoAt
  <2> HIDE DEF b
  <2> QED
    BY <2>3, <2>4, <2>6 DEF Made
<1> QED
  BY <1>2, <1>3, <1>4, <1>5

LEMMA MadeFree ==
    ASSUME NEW key, NEW other, key # other, NEW x, Made(key, x), NEW given
    PROVE  Free(other, given, x)
  BY EncryptedFree DEF Made

\* The part of an answer that comes after the MAC has no byte of a MAC, and what
\* stands for the MAC is the card's or is the MAC of nothing.
ShapedV1(d, mac) ==
    /\ IsSeq(d)
    /\ Len(d) >= BlockLen =>
          /\ \A i \in (BlockLen + 1)..Len(d) : Free("mac", {}, d[i])
          /\ \/ \A k \in 1..BlockLen : d[k] = mac[k]
             \/ \E k \in 1..BlockLen : \A b : IsBlock(b) => d[k] # Encrypt("mac", b)[k]

\* d is where s begins.
Begins(d, s) == IsSeq(d) /\ Len(d) <= Len(s) /\ \A i \in 1..Len(d) : d[i] = s[i]

LEMMA BeginsShaped ==
    ASSUME NEW mac, IsBlock(mac), NEW e, IsSeq(e), \A i \in 1..Len(e) : Made("enc", e[i]),
           NEW d, Begins(d, mac \o e)
    PROVE  /\ \A i \in (BlockLen + 1)..Len(d) : Made("enc", d[i])
           /\ Len(d) >= BlockLen => \A k \in 1..BlockLen : d[k] = mac[k]
           /\ ShapedV1(d, mac)
<1> DEFINE s == mac \o e
<1>1. BlockLen \in Nat \ {0} /\ Len(e) \in Nat /\ Len(d) \in Nat /\ IsSeq(mac) /\ Len(mac) = BlockLen
  BY LengthsOfBlocks, SeqFacts, BlockIsSeq DEF Begins
<1>2. /\ Len(s) = BlockLen + Len(e)
      /\ \A i \in 1..BlockLen : s[i] = mac[i]
      /\ \A i \in 1..Len(e) : s[BlockLen + i] = e[i]
  BY <1>1, CatSeq
<1> HIDE DEF s
<1>3. IsSeq(d) /\ Len(d) <= Len(s) /\ \A i \in 1..Len(d) : d[i] = s[i]
  BY DEF Begins, s
<1>4. ASSUME NEW i \in (BlockLen + 1)..Len(d) PROVE Made("enc", d[i])
  <2> DEFINE h == i - BlockLen
  <2>1. h \in 1..Len(e) /\ i = BlockLen + h /\ i \in 1..Len(d)
    BY <1>1, <1>2, <1>3
  <2> HIDE DEF h
  <2>2. d[i] = e[h]
    BY <1>2, <1>3, <2>1
  <2> QED
    BY <2>1, <2>2
<1>5. Len(d) >= BlockLen => \A k \in 1..BlockLen : d[k] = mac[k]
  BY <1>1, <1>2, <1>3
<1>6. \A i \in (BlockLen + 1)..Len(d) : Free("mac", {}, d[i])
  BY <1>4, MadeFree
<1>7. ShapedV1(d, mac)
  BY <1>3, <1>5, <1>6 DEF ShapedV1
<1> QED
  BY <1>4, <1>5, <1>7

LEMMA DamagedShaped ==
    ASSUME NEW mac, IsBlock(mac), NEW a, IsBlock(a), mac = Encrypt("mac", a),
           NEW e, IsSeq(e), \A i \in 1..Len(e) : Made("enc", e[i]),
           NEW d, Begins(d, mac \o e), NEW x, Damaged(d, x)
    PROVE  ShapedV1(x, mac)
<1>1. BlockLen \in Nat \ {0} /\ Len(d) \in Nat /\ IsSeq(d)
  BY LengthsOfBlocks, SeqFacts DEF Begins
<1>2. /\ \A i \in (BlockLen + 1)..Len(d) : Made("enc", d[i])
      /\ Len(d) >= BlockLen => \A k \in 1..BlockLen : d[k] = mac[k]
  BY BeginsShaped
<1>3. PICK i \in 1..Len(d) : x = Flipped(d, i) \/ x = Without(d, i)
  BY DEF Damaged
<1>4. \A j \in (BlockLen + 1)..Len(d) : Free("mac", {}, d[j])
  BY <1>2, MadeFree
<1>5. CASE x = Flipped(d, i)
  <2>1. IsFlipped(x, d, i)
    BY <1>1, <1>5, FlippedIs
  <2>2. /\ IsSeq(x) /\ Len(x) = Len(d) /\ x[i] = Xor(d[i], {Bit(0)})
        /\ \A j \in 1..Len(d) : j # i => x[j] = d[j]
    BY <2>1 DEF IsFlipped
  <2>3. {Bit(0)} \in Octet
    BY DEF Octet
  <2>4. Free("mac", {}, {Bit(0)})
    BY <2>3, OctetFree
  <2>5. ASSUME NEW j \in (BlockLen + 1)..Len(d) PROVE Free("mac", {}, x[j])
    <3>1. j \in 1..Len(d)
      BY <1>1
    <3>2. CASE j = i
      BY <1>4, <2>2, <2>4, <3>2, XorFree
    <3>3. CASE j # i
      BY <1>4, <2>2, <3>1, <3>3
    <3> QED
      BY <3>2, <3>3
  <2>6. ASSUME Len(d) >= BlockLen, i <= BlockLen, NEW b, IsBlock(b)
        PROVE  x[i] # Encrypt("mac", b)[i]
    <3>1. i \in 1..BlockLen
      BY <1>1, <2>6
    <3>2. x[i] = Xor(Encrypt("mac", a)[i], {Bit(0)})
      BY <1>2, <2>2, <2>6, <3>1
    <3>3. ASSUME x[i] = Encrypt("mac", b)[i] PROVE FALSE
      <4>1. Xor(Encrypt("mac", a)[i], {Bit(0)}) = Xor(Encrypt("mac", b)[i], {})
        BY <3>2, <3>3, XorFacts
      <4>2. Free("mac", {}, {})
        BY EmptyFree
      <4>3. {Bit(0)} = {}
        <5> DEFINE y == {Bit(0)}
        <5>1. a \notin {} /\ b \notin {} /\ IsBlock(b)
          BY <2>6
        <5>2. Xor(Encrypt("mac", a)[i], y) = Xor(Encrypt("mac", b)[i], {}) /\ Free("mac", {}, y)
          BY <2>4, <4>1
        <5> HIDE DEF y
        <5>3. y = {}
          BY <3>1, <4>2, <5>1, <5>2, EncryptedShows
        <5> QED
          BY <5>3 DEF y
      <4> QED
        BY <4>3
    <3> QED
      BY <3>3
  <2>7. ASSUME Len(d) >= BlockLen, ~(i <= BlockLen), NEW k \in 1..BlockLen PROVE x[k] = mac[k]
    <3>1. k \in 1..Len(d) /\ k # i
      BY <1>1, <2>7
    <3> QED
      BY <1>2, <2>2, <2>7, <3>1
  <2>8. Len(d) >= BlockLen => \/ \A k \in 1..BlockLen : x[k] = mac[k]
                              \/ \E k \in 1..BlockLen : \A b : IsBlock(b) => x[k] # Encrypt("mac", b)[k]
    <3>1. CASE i <= BlockLen
      <4>1. i \in 1..BlockLen
        BY <1>1, <3>1
      <4> QED
        BY <2>6, <3>1, <4>1
    <3>2. CASE ~(i <= BlockLen)
      BY <2>7, <3>2
    <3> QED
      BY <3>1, <3>2
  <2> QED
    BY <2>2, <2>5, <2>8 DEF ShapedV1
<1>6. CASE x = Without(d, i)
  <2>1. IsWithout(x, d, i)
    BY <1>1, <1>6, WithoutIs
  <2>2. /\ IsSeq(x) /\ Len(x) = Len(d) - 1
        /\ \A j \in 1..(i - 1) : x[j] = d[j]
        /\ \A j \in i..(Len(d) - 1) : x[j] = d[j + 1]
    BY <2>1 DEF IsWithout
  <2>3. ASSUME NEW j \in (BlockLen + 1)..Len(x) PROVE Free("mac", {}, x[j])
    <3>1. j \in (BlockLen + 1)..Len(d) /\ j + 1 \in (BlockLen + 1)..Len(d)
      BY <1>1, <2>2
    <3>2. CASE j < i
      <4>1. j \in 1..(i - 1)
        BY <1>1, <3>2
      <4> QED
        BY <1>4, <2>2, <3>1, <4>1
    <3>3. CASE ~(j < i)
      <4>1. j \in i..(Len(d) - 1)
        BY <1>1, <2>2, <3>3
      <4> QED
        BY <1>4, <2>2, <3>1, <4>1
    <3> QED
      BY <3>2, <3>3
  <2>4. ASSUME Len(x) >= BlockLen, i <= BlockLen, NEW b, IsBlock(b)
        PROVE  x[BlockLen] # Encrypt("mac", b)[BlockLen]
    <3>1. BlockLen \in i..(Len(d) - 1) /\ BlockLen + 1 \in (BlockLen + 1)..Len(d) /\ BlockLen \in 1..BlockLen
      BY <1>1, <2>2, <2>4
    <3>2. x[BlockLen] = d[BlockLen + 1] /\ Free("mac", {}, d[BlockLen + 1])
      BY <1>4, <2>2, <3>1
    <3>3. b \notin {} /\ Free("mac", {}, {})
      BY EmptyFree
    <3>4. Xor(Encrypt("mac", b)[BlockLen], {}) # x[BlockLen]
      BY <2>4, <3>1, <3>2, <3>3, EncryptedStays
    <3> QED
      BY <3>4, XorFacts
  <2>5. ASSUME Len(x) >= BlockLen, ~(i <= BlockLen), NEW k \in 1..BlockLen PROVE x[k] = mac[k]
    <3>1. k \in 1..(i - 1) /\ Len(d) >= BlockLen
      BY <1>1, <2>2, <2>5
    <3> QED
      BY <1>2, <2>2, <3>1
  <2>6. Len(x) >= BlockLen => \/ \A k \in 1..BlockLen : x[k] = mac[k]
                              \/ \E k \in 1..BlockLen : \A b : IsBlock(b) => x[k] # Encrypt("mac", b)[k]
    <3>1. CASE i <= BlockLen
      <4>1. BlockLen \in 1..BlockLen
        BY <1>1
      <4> QED
        BY <2>4, <3>1, <4>1
    <3>2. CASE ~(i <= BlockLen)
      BY <2>5, <3>2
    <3> QED
      BY <3>1, <3>2
  <2> QED
    BY <2>2, <2>3, <2>6 DEF ShapedV1
<1> QED
  BY <1>3, <1>5, <1>6

MacOf(e) == CalculateMAC(answerMeta(BlockLen + Len(e)), e, "mac")

LEMMA MacOfIs ==
    ASSUME NEW p, IsSeq(p), NEW v, IsBlock(v), NEW e, e = EncryptData(p, "enc", v)
    PROVE  /\ FreeSeq("mac", {}, e) /\ Len(e) % BlockLen = 0 /\ IsBlock(MacOf(e))
           /\ \E b : IsBlock(b) /\ MacOf(e) = Encrypt("mac", b)
<1> DEFINE m == answerMeta(BlockLen + Len(e))
<1>1. /\ IsSeq(e) /\ Len(e) \in Nat \ {0} /\ Len(e) % BlockLen = 0
      /\ \A i \in 1..Len(e) : Made("enc", e[i])
  BY EncryptedMade
<1>2. FreeSeq("mac", {}, e)
  BY <1>1, MadeFree DEF FreeSeq
<1>3. BlockLen + Len(e) \in Nat
  BY <1>1, LengthsOfBlocks
<1>4. IsBlock(m) /\ FreeSeq("mac", {}, m)
  BY <1>3, AnswerMeta
<1>5. MacOf(e) = CalculateMAC(m, e, "mac")
  BY DEF MacOf
<1> HIDE DEF m
<1>6. PICK b : IsBlock(b) /\ CalculateMAC(m, e, "mac") = Encrypt("mac", b)
  BY <1>1, <1>2, <1>4, MacIsEncrypted
<1>7. IsBlock(MacOf(e))
  BY <1>5, <1>6, EncryptIsBlock
<1> QED
  BY <1>1, <1>2, <1>5, <1>6, <1>7

\* What the host finds before it takes an answer, and what it has then.
Opens(p, v, e, d, rmac, rdata) ==
    /\ IsSeq(p) /\ IsBlock(v) /\ e = EncryptData(p, "enc", v)
    /\ ShapedV1(d, MacOf(e)) /\ Len(d) >= BlockLen
    /\ rmac = SubSeq(d, 1, BlockLen) /\ rdata = SubSeq(d, BlockLen + 1, Len(d))
    /\ DecryptData(rdata, "enc", v).ok
    /\ CalculateMAC(answerMeta(Len(d)), rdata, "mac") = rmac
Opened(p, v, e, rmac, rdata) == rmac = MacOf(e) /\ DecryptData(rdata, "enc", v) = Plain(p)

\* V1 takes no answer but the card's.
LEMMA TakesWhole ==
    ASSUME NEW p, NEW v, NEW e, NEW d, NEW rmac, NEW rdata, Opens(p, v, e, d, rmac, rdata)
    PROVE  Opened(p, v, e, rmac, rdata)
<1> SUFFICES ASSUME IsSeq(p), IsBlock(v), e = EncryptData(p, "enc", v),
                    ShapedV1(d, MacOf(e)), Len(d) >= BlockLen,
                    rmac = SubSeq(d, 1, BlockLen), rdata = SubSeq(d, BlockLen + 1, Len(d)),
                    DecryptData(rdata, "enc", v).ok,
                    CalculateMAC(answerMeta(Len(d)), rdata, "mac") = rmac
             PROVE  rmac = MacOf(e) /\ DecryptData(rdata, "enc", v) = Plain(p)
  BY DEF Opens, Opened
<1> DEFINE m == answerMeta(BlockLen + Len(e))
           w == answerMeta(Len(d))
           n == Len(d)
<1>1. BlockLen \in Nat \ {0} /\ n \in Nat /\ IsSeq(d) /\ n = Len(d) /\ n >= BlockLen
  BY LengthsOfBlocks, SeqFacts DEF ShapedV1
<1>2. /\ FreeSeq("mac", {}, e) /\ Len(e) % BlockLen = 0 /\ IsBlock(MacOf(e))
  BY MacOfIs
<1>3. IsSeq(rmac) /\ Len(rmac) = BlockLen /\ \A k \in 1..BlockLen : rmac[k] = d[k]
  <2> DEFINE u == 1
  <2>1. /\ u \in Nat \ {0} /\ BlockLen \in Nat /\ BlockLen <= Len(d) /\ u <= BlockLen + 1
        /\ BlockLen - u + 1 = BlockLen /\ \A k \in 1..BlockLen : (u - 1) + k = k
    BY <1>1
  <2>2. rmac = SubSeq(d, u, BlockLen)
    OBVIOUS
  <2> HIDE DEF u
  <2>3. IsSeq(rmac) /\ Len(rmac) = BlockLen - u + 1 /\ \A j \in 1..(BlockLen - u + 1) : rmac[j] = d[(u - 1) + j]
    BY <1>1, <2>1, <2>2, PartSeq
  <2> QED
    BY <2>1, <2>3
<1>4. IsSeq(rdata) /\ Len(rdata) = n - BlockLen /\ \A j \in 1..(n - BlockLen) : rdata[j] = d[BlockLen + j]
  <2> DEFINE u == BlockLen + 1
  <2>1. u \in Nat \ {0} /\ n <= Len(d) /\ u <= n + 1 /\ n - u + 1 = n - BlockLen /\ u - 1 = BlockLen
    BY <1>1
  <2>2. rdata = SubSeq(d, u, n)
    OBVIOUS
  <2> HIDE DEF u
  <2>3. IsSeq(rdata) /\ Len(rdata) = n - u + 1 /\ \A j \in 1..(n - u + 1) : rdata[j] = d[(u - 1) + j]
    BY <1>1, <2>1, <2>2, PartSeq
  <2> QED
    BY <2>1, <2>3
<1> HIDE DEF n
<1>5. Len(rdata) % BlockLen = 0
  BY DEF DecryptData, Failed
<1>6. FreeSeq("mac", {}, rdata)
  <2>1. ASSUME NEW j \in 1..Len(rdata) PROVE Free("mac", {}, rdata[j])
    <3>1. BlockLen + j \in (BlockLen + 1)..Len(d) /\ rdata[j] = d[BlockLen + j]
      BY <1>1, <1>4
    <3> QED
      BY <1>1, <3>1 DEF ShapedV1
  <2> QED
    BY <1>4, <2>1 DEF FreeSeq
<1>7. IsBlock(w) /\ FreeSeq("mac", {}, w) /\ IsBlock(m) /\ FreeSeq("mac", {}, m)
  <2>1. BlockLen + Len(e) \in Nat /\ Len(d) \in Nat
    BY <1>1, <1>2, SeqFacts DEF FreeSeq
  <2> QED
    BY <2>1, AnswerMeta
<1> HIDE DEF w
<1>8. PICK b : IsBlock(b) /\ CalculateMAC(w, rdata, "mac") = Encrypt("mac", b)
  BY <1>5, <1>6, <1>7, MacIsEncrypted
<1>9. rmac = Encrypt("mac", b)
  BY <1>8 DEF w
<1>10. \A k \in 1..BlockLen : d[k] = MacOf(e)[k]
  BY <1>1, <1>3, <1>8, <1>9 DEF ShapedV1
<1>11. rmac = MacOf(e)
  <2>1. IsBlock(rmac)
    BY <1>9, EncryptIsBlock
  <2>2. \A k \in 1..BlockLen : rmac[k] = MacOf(e)[k]
    BY <1>3, <1>10
  <2>3. IsBlock(MacOf(e))
    BY <1>2
  <2> QED
    BY <2>1, <2>2, <2>3, SameBlock
<1>12. rdata = e
  <2>1. CalculateMAC(m, e, "mac")[1] = CalculateMAC(w, rdata, "mac")[1]
    BY <1>11 DEF MacOf, w
  <2>2. 1 \in 1..BlockLen
    BY <1>1
  <2> HIDE DEF m
  <2>3. MacInput("mac", m, e) /\ MacInput("mac", w, rdata)
    BY <1>2, <1>5, <1>6, <1>7 DEF MacInput
  <2>4. ASSUME NEW s, NEW t, NEW f, NEW g, MacInput("mac", f, s), MacInput("mac", g, t),
               CalculateMAC(f, s, "mac")[1] = CalculateMAC(g, t, "mac")[1]
        PROVE  t = s
    BY <2>2, <2>4, MacTells
  <2> QED
    BY <2>1, <2>3, <2>4
<1> QED
  BY <1>11, <1>12, DecryptsEncrypted

-----------------------------------------------------------------------------
(* Classes, instructions and status words *)

Names == {"VerifyPIN", "ChangePIN", "UnblockPIN", "StoreData", "GetData"}

LEMMA Instructions ==
    /\ ClaGp # ClaISO7816
    /\ \A name \in Names : InsOf[name] # InsSecuredAPDU
    /\ \A name, other \in Names : InsOf[name] = InsOf[other] => name = other
<1>1. /\ 0 \in 0..255 /\ 24 \in 0..255 /\ 32 \in 0..255 /\ 33 \in 0..255 /\ 34 \in 0..255
      /\ 128 \in 0..255 /\ 202 \in 0..255 /\ 226 \in 0..255
  OBVIOUS
<1>2. /\ ToNumber(ToByte(0)) = 0 /\ ToNumber(ToByte(24)) = 24 /\ ToNumber(ToByte(32)) = 32
      /\ ToNumber(ToByte(33)) = 33 /\ ToNumber(ToByte(34)) = 34 /\ ToNumber(ToByte(128)) = 128
      /\ ToNumber(ToByte(202)) = 202 /\ ToNumber(ToByte(226)) = 226
  BY <1>1, ToNumberOf
<1>3. /\ InsOf["VerifyPIN"] = ToByte(32) /\ InsOf["ChangePIN"] = ToByte(33)
      /\ InsOf["UnblockPIN"] = ToByte(34) /\ InsOf["StoreData"] = ToByte(226)
      /\ InsOf["GetData"] = ToByte(202)
  BY DEF InsOf
<1>4. ClaGp # ClaISO7816
  BY <1>2 DEF ClaGp, ClaISO7816
<1>5. \A name \in Names : InsOf[name] # InsSecuredAPDU
  BY <1>2, <1>3 DEF InsSecuredAPDU, Names
<1>6. \A name, other \in Names : InsOf[name] = InsOf[other] => name = other
  BY <1>2, <1>3 DEF Names
<1> QED
  BY <1>4, <1>5, <1>6

\* No answer but a wrong PIN's or PUK's is taken for one.
NoTries(w) == w # SwOK /\ ~Masked(w, SwWrongPINMask)
Rejections == {SwWrongLength, SwConditionsOfUseNotSatisfied, SwSecurityConditionNotSatisfied}

LEMMA Words ==
    /\ SwOK = <<ToByte(144), ToByte(0)>>
    /\ SwWrongLength = <<ToByte(103), ToByte(0)>>
    /\ SwConditionsOfUseNotSatisfied = <<ToByte(105), ToByte(133)>>
    /\ SwSecurityConditionNotSatisfied = <<ToByte(105), ToByte(130)>>
    /\ SwWrongData = <<ToByte(106), ToByte(128)>>
    /\ SwWrongPINMask = <<ToByte(99), ToByte(192)>>
    /\ \A n \in 0..15 : SwTriesLeft(n) = <<ToByte(99), ToByte(192 + n)>>
<1>1. /\ 36864 \div 256 = 144 /\ 36864 % 256 = 0 /\ 26368 \div 256 = 103 /\ 26368 % 256 = 0
      /\ 27013 \div 256 = 105 /\ 27013 % 256 = 133 /\ 27010 \div 256 = 105 /\ 27010 % 256 = 130
      /\ 27264 \div 256 = 106 /\ 27264 % 256 = 128 /\ 25536 \div 256 = 99 /\ 25536 % 256 = 192
  OBVIOUS
<1>2. \A n \in 0..15 : (25536 + n) \div 256 = 99 /\ (25536 + n) % 256 = 192 + n
  OBVIOUS
<1>3. \A n \in 0..15 : SwTriesLeft(n) = <<ToByte(99), ToByte(192 + n)>>
  BY <1>2 DEF SwTriesLeft, SwBytes
<1> QED
  BY <1>1, <1>3 DEF SwOK, SwWrongLength, SwConditionsOfUseNotSatisfied, SwSecurityConditionNotSatisfied,
     SwWrongData, SwWrongPINMask, SwBytes

LEMMA Distinct ==
    /\ \A x : NoTries(<<Sw1ResponseDataIncomplete, x>>)
    /\ \A w \in Rejections \cup {SwWrongData} : NoTries(w) /\ w[1] # Sw1ResponseDataIncomplete
    /\ SwOK[1] # Sw1ResponseDataIncomplete
    /\ \A n \in 0..15 : SwTriesLeft(n)[1] # Sw1ResponseDataIncomplete /\ SwTriesLeft(n) # SwOK
<1> DEFINE a == ToByte(97)
           b == ToByte(99)
           c == ToByte(192)
           e == ToByte(103)
           f == ToByte(105)
           g == ToByte(106)
           h == ToByte(144)
           z == ToByte(0)
<1>1. /\ 0 \in 0..255 /\ 97 \in 0..255 /\ 99 \in 0..255 /\ 103 \in 0..255
      /\ 105 \in 0..255 /\ 106 \in 0..255 /\ 144 \in 0..255
  OBVIOUS
<1>2. /\ ToNumber(ToByte(0)) = 0 /\ ToNumber(ToByte(97)) = 97 /\ ToNumber(ToByte(99)) = 99
      /\ ToNumber(ToByte(103)) = 103 /\ ToNumber(ToByte(105)) = 105
      /\ ToNumber(ToByte(106)) = 106 /\ ToNumber(ToByte(144)) = 144
  BY <1>1, ToNumberOf
<1>3. a # b /\ a # e /\ a # f /\ a # g /\ a # h /\ h # b /\ h # e /\ h # f /\ h # g
  BY <1>2
<1>4. 99 \in Nat /\ 97 \in Nat /\ 105 \in Nat /\ 106 \in Nat /\ 192 \in Nat /\ 0 \in Nat
  OBVIOUS
<1>5. Bit(0) \in b /\ Bit(1) \in b
  <2>1. 99 % 2 = 1 /\ (99 \div 2) % 2 = 1
    OBVIOUS
  <2> QED
    BY <1>4, <2>1, BitsOf
<1>6. Bit(1) \notin a /\ Bit(1) \notin f /\ Bit(0) \notin g
  <2>1. (97 \div 2) % 2 = 0 /\ (105 \div 2) % 2 = 0 /\ 106 % 2 = 0
    OBVIOUS
  <2> QED
    BY <1>4, <2>1, BitsOf
<1>7. Bit(7) \in c /\ Bit(7) \notin z
  <2>1. (192 \div 128) % 2 = 1 /\ (0 \div 128) % 2 = 0
    OBVIOUS
  <2> QED
    BY <1>4, <2>1, BitsOf
<1>8. Sw1ResponseDataIncomplete = a
  BY DEF Sw1ResponseDataIncomplete
<1> DEFINE u == ToByte(133)
           v == ToByte(130)
           y == ToByte(128)
<1>9. /\ SwOK = <<h, z>> /\ SwWrongPINMask = <<b, c>> /\ SwWrongLength = <<e, z>>
      /\ SwConditionsOfUseNotSatisfied = <<f, u>> /\ SwSecurityConditionNotSatisfied = <<f, v>>
      /\ SwWrongData = <<g, y>>
      /\ \A n \in 0..15 : SwTriesLeft(n) = <<b, ToByte(192 + n)>>
  BY Words
<1> HIDE DEF a, b, c, e, f, g, h, z, u, v, y
<1>10. \A p, q : NoTries(<<p, q>>) <=> <<p, q>> # <<h, z>> /\ ~(b \subseteq p /\ c \subseteq q)
  BY <1>9 DEF NoTries, Masked
<1>11. \A x : NoTries(<<a, x>>)
  BY <1>3, <1>5, <1>6, <1>10
<1>12. NoTries(<<e, z>>) /\ NoTries(<<f, u>>) /\ NoTries(<<f, v>>) /\ NoTries(<<g, y>>)
  BY <1>3, <1>5, <1>6, <1>7, <1>10
<1>13. \A w \in Rejections \cup {SwWrongData} : NoTries(w) /\ w[1] # a
  BY <1>3, <1>9, <1>12 DEF Rejections
<1>14. \A n \in 0..15 : SwTriesLeft(n)[1] # a /\ SwTriesLeft(n) # SwOK
  BY <1>3, <1>9
<1> QED
  BY <1>3, <1>8, <1>9, <1>11, <1>13, <1>14

LEMMA TriesIn ==
    ASSUME NEW n \in 0..15
    PROVE  ToNumber(SwTriesLeft(n)[2] \cap ToByte(15)) = n
<1>1. SwTriesLeft(n)[2] = ToByte(192 + n)
  BY Words
<1>2. n \in Nat /\ 15 \in Nat /\ 192 + n \in Nat /\ n \in 0..255
  OBVIOUS
<1> DEFINE t == 192 + n
<1>3. /\ t % 2 = n % 2 /\ (t \div 2) % 2 = (n \div 2) % 2 /\ (t \div 4) % 2 = (n \div 4) % 2
      /\ (t \div 8) % 2 = (n \div 8) % 2
      /\ (n \div 16) % 2 = 0 /\ (n \div 32) % 2 = 0 /\ (n \div 64) % 2 = 0 /\ (n \div 128) % 2 = 0
  OBVIOUS
<1>4. /\ 15 % 2 = 1 /\ (15 \div 2) % 2 = 1 /\ (15 \div 4) % 2 = 1 /\ (15 \div 8) % 2 = 1
      /\ (15 \div 16) % 2 = 0 /\ (15 \div 32) % 2 = 0 /\ (15 \div 64) % 2 = 0 /\ (15 \div 128) % 2 = 0
  OBVIOUS
<1>5. t \in Nat
  OBVIOUS
<1> HIDE DEF t
<1> DEFINE a == ToByte(t)
           b == ToByte(15)
           c == ToByte(n)
<1>6. /\ a \in Octet /\ b \in Octet /\ c \in Octet
  BY <1>2, <1>5, BitOf
<1>7. \A k \in 0..7 : Bit(k) \in a \cap b <=> Bit(k) \in c
  <2>1. Bit(0) \in a \cap b <=> Bit(0) \in c
    BY <1>2, <1>3, <1>4, <1>5, BitsOf
  <2>2. Bit(1) \in a \cap b <=> Bit(1) \in c
    BY <1>2, <1>3, <1>4, <1>5, BitsOf
  <2>3. Bit(2) \in a \cap b <=> Bit(2) \in c
    BY <1>2, <1>3, <1>4, <1>5, BitsOf
  <2>4. Bit(3) \in a \cap b <=> Bit(3) \in c
    BY <1>2, <1>3, <1>4, <1>5, BitsOf
  <2>5. Bit(4) \in a \cap b <=> Bit(4) \in c
    BY <1>2, <1>3, <1>4, <1>5, BitsOf
  <2>6. Bit(5) \in a \cap b <=> Bit(5) \in c
    BY <1>2, <1>3, <1>4, <1>5, BitsOf
  <2>7. Bit(6) \in a \cap b <=> Bit(6) \in c
    BY <1>2, <1>3, <1>4, <1>5, BitsOf
  <2>8. Bit(7) \in a \cap b <=> Bit(7) \in c
    BY <1>2, <1>3, <1>4, <1>5, BitsOf
  <2> QED
    BY <2>1, <2>2, <2>3, <2>4, <2>5, <2>6, <2>7, <2>8
<1>8. a \cap b = c
  <2> HIDE DEF a, b, c
  <2> QED
    BY <1>6, <1>7 DEF Octet
<1>9. ToNumber(c) = n
  BY <1>2, ToNumberOf
<1> QED
  BY <1>1, <1>8, <1>9 DEF t

-----------------------------------------------------------------------------
(* Frames and responses *)

LEMMA NoBytes == IsSeq(<<>>) /\ Len(<<>>) = 0
<1>1. Len(<<>>) = 0 /\ <<>> = [i \in 1..0 |-> <<>>[i]]
  OBVIOUS
<1> QED
  BY <1>1, MadeSeq

LEMMA PairSeq == \A a, b : IsSeq(<<a, b>>) /\ Len(<<a, b>>) = 2 /\ <<a, b>>[1] = a /\ <<a, b>>[2] = b
<1> TAKE a, b
<1>1. <<a, b>> \in Seq({a, b})
  OBVIOUS
<1>2. IsSeq(<<a, b>>)
  BY <1>1, SeqIsSeq
<1> QED
  BY <1>2

Joins(f, s, t) ==
    /\ IsSeq(f) /\ Len(f) = Len(s) + Len(t)
    /\ \A i \in 1..Len(s) : f[i] = s[i]
    /\ \A i \in 1..Len(t) : f[Len(s) + i] = t[i]

LEMMA Joined ==
    ASSUME NEW s, NEW t, IsSeq(s), IsSeq(t)
    PROVE  Joins(s \o t, s, t)
  BY CatSeq DEF Joins

\* Response bytes that are data and then a status word.
ParsesTo(f, d, w) ==
    /\ IsSeq(f) /\ Len(f) = Len(d) + 2
    /\ ParseResponse(f) = [ok |-> TRUE, data |-> d, sw1 |-> w[1], sw2 |-> w[2]]
    /\ Sw(ParseResponse(f)) = <<w[1], w[2]>>

LEMMA Parsed ==
    ASSUME NEW d, IsSeq(d), NEW w, IsSeq(w), Len(w) = 2
    PROVE  ParsesTo(d \o w, d, w)
<1> DEFINE g == d \o w
<1>2. Len(d) \in Nat
  BY SeqFacts
<1>4. /\ IsSeq(g) /\ Len(g) = Len(d) + Len(w)
      /\ \A i \in 1..Len(w) : g[Len(d) + i] = w[i]
  <2>1. Joins(g, d, w)
    BY Joined
  <2> HIDE DEF g
  <2> QED
    BY <2>1 DEF Joins
<1>5. SubSeq(g, 1, Len(d)) = d
  BY PartsOfCat
<1> HIDE DEF g
<1> DEFINE n == Len(g)
<1>6. n = Len(d) + 2 /\ n - 2 = Len(d) /\ n - 1 = Len(d) + 1 /\ ~(n < 2)
  BY <1>2, <1>4
<1>7. g[Len(d) + 1] = w[1] /\ g[Len(d) + 2] = w[2]
  BY <1>4
<1>8. ParseResponse(g) = [ok |-> TRUE, data |-> SubSeq(g, 1, n - 2), sw1 |-> g[n - 1], sw2 |-> g[n]]
  <2>1. ~(Len(g) < 2)
    BY <1>6
  <2> QED
    BY <2>1 DEF ParseResponse
<1>9. ParseResponse(g) = [ok |-> TRUE, data |-> d, sw1 |-> w[1], sw2 |-> w[2]]
  BY <1>5, <1>6, <1>7, <1>8
<1>10. Sw(ParseResponse(g)) = <<w[1], w[2]>>
  BY <1>9 DEF Sw
<1> QED
  BY <1>4, <1>6, <1>9, <1>10 DEF ParsesTo, g

LEMMA ParsedOf ==
    ASSUME NEW f, IsSeq(f), NEW r, r = ParseResponse(f)
    PROVE  /\ r.ok <=> Len(f) >= 2
           /\ r.ok => /\ IsSeq(r.data) /\ Len(r.data) = Len(f) - 2 /\ f = r.data \o Sw(r)
                      /\ r.data = SubSeq(f, 1, Len(f) - 2) /\ r.sw1 = f[Len(f) - 1] /\ r.sw2 = f[Len(f)]
<1> DEFINE n == Len(f)
<1>1. n \in Nat
  BY SeqFacts
<1>2. r.ok <=> n >= 2
  BY <1>1 DEF ParseResponse, BadRawResponse
<1>3. ASSUME n >= 2
      PROVE  /\ r.data = SubSeq(f, 1, n - 2) /\ r.sw1 = f[n - 1] /\ r.sw2 = f[n]
  BY <1>1, <1>3 DEF ParseResponse
<1>4. ASSUME n >= 2
      PROVE  IsSeq(r.data) /\ Len(r.data) = n - 2 /\ f = r.data \o Sw(r)
  <2> DEFINE d == SubSeq(f, 1, n - 2)
             w == <<r.sw1, r.sw2>>
             g == d \o w
             u == 1
             t == n - 2
  <2>1. /\ u \in Nat \ {0} /\ t \in Nat /\ t <= Len(f) /\ u <= t + 1 /\ t - u + 1 = t
        /\ \A i \in 1..t : (u - 1) + i = i
    BY <1>1, <1>4
  <2>2. d = SubSeq(f, u, t)
    OBVIOUS
  <2> HIDE DEF u, t, d
  <2>3. IsSeq(d) /\ Len(d) = t - u + 1 /\ \A i \in 1..(t - u + 1) : d[i] = f[(u - 1) + i]
    BY <2>1, <2>2, PartSeq
  <2>4. IsSeq(d) /\ Len(d) = t /\ \A i \in 1..t : d[i] = f[i]
    BY <2>1, <2>3
  <2>5. IsSeq(w) /\ Len(w) = 2 /\ w[1] = r.sw1 /\ w[2] = r.sw2
    BY PairSeq
  <2>6. Sw(r) = w
    BY DEF Sw
  <2> HIDE DEF w
  <2>7. /\ IsSeq(g) /\ Len(g) = Len(d) + Len(w)
        /\ \A i \in 1..Len(d) : g[i] = d[i]
        /\ \A i \in 1..Len(w) : g[Len(d) + i] = w[i]
    <3>1. IsSeq(d) /\ IsSeq(w)
      BY <2>4, <2>5
    <3> QED
      BY <3>1, CatSeq
  <2> HIDE DEF g
  <2>8. t + 2 = n /\ t + 1 = n - 1
    BY <1>1, <1>4 DEF t
  <2>9. ASSUME NEW i \in 1..Len(f) PROVE f[i] = g[i]
    <3>1. CASE i \in 1..t
      BY <2>4, <2>7, <3>1
    <3>2. CASE i = t + 1
      BY <1>3, <1>4, <2>1, <2>4, <2>5, <2>7, <2>8, <3>2
    <3>3. CASE i = t + 2
      BY <1>3, <1>4, <2>1, <2>4, <2>5, <2>7, <2>8, <3>3
    <3> QED
      BY <1>1, <2>1, <2>8, <3>1, <3>2, <3>3
  <2>10. f = g
    BY <1>1, <2>4, <2>5, <2>7, <2>8, <2>9, SameSeq
  <2> QED
    BY <1>3, <1>4, <2>4, <2>6, <2>8, <2>10 DEF g, d, t
<1> QED
  BY <1>2, <1>3, <1>4

LEMMA Empty ==
    ASSUME NEW s, IsSeq(s), Len(s) = 0
    PROVE  s = <<>>
<1>1. IsSeq(<<>>) /\ Len(<<>>) = 0
  BY NoBytes
<1> DEFINE e == <<>>
<1>2. IsSeq(e) /\ Len(e) = Len(s)
  BY <1>1
<1> HIDE DEF e
<1>3. \A i \in 1..Len(s) : s[i] = e[i]
  OBVIOUS
<1>4. s = e
  BY <1>2, <1>3, SameSeq
<1> QED
  BY <1>4 DEF e

\* A length that comes to the same in one byte, or to one less, is that length.
LEMMA SaysIts ==
    ASSUME NEW n \in Nat, NEW r, r = n % LcSpace, n - r \in 0..1
    PROVE  r = n
<1> DEFINE q == n \div LcSpace
           p == q - 1
           w == p * LcSpace
<1>1. LcSpace \in Nat \ {0} /\ LcSpace >= 2
  BY LengthsOfBlocks
<1>2. /\ n \div LcSpace \in Nat /\ n % LcSpace \in 0..(LcSpace - 1)
      /\ n = (n \div LcSpace) * LcSpace + (n % LcSpace)
  BY <1>1, Quotient
<1>3. q \in Nat /\ r \in 0..(LcSpace - 1) /\ n = q * LcSpace + r
  BY <1>2
<1> HIDE DEF q
<1>4. CASE q = 0
  <2>1. q * LcSpace = 0
    BY <1>1, <1>3, <1>4, Product
  <2> DEFINE z == q * LcSpace
  <2>2. z = 0 /\ n = z + r
    BY <1>3, <2>1
  <2> HIDE DEF z
  <2> QED
    BY <1>1, <1>3, <2>2
<1>5. CASE q # 0
  <2>1. p \in Nat /\ q = p + 1
    BY <1>3, <1>5
  <2> HIDE DEF p
  <2>2. w \in Nat /\ (p + 1) * LcSpace = w + LcSpace
    BY <1>1, <2>1, Product
  <2>3. n = w + LcSpace + r
    <3>1. q * LcSpace = w + LcSpace
      BY <2>1, <2>2
    <3> HIDE DEF w
    <3> DEFINE z == q * LcSpace
    <3>2. z = w + LcSpace /\ n = z + r
      BY <1>3, <3>1
    <3> HIDE DEF z
    <3> QED
      BY <3>2
  <2> HIDE DEF w
  <2> QED
    BY <1>1, <1>3, <2>2, <2>3
<1> QED
  BY <1>4, <1>5

LEMMA QuadSeq ==
    ASSUME NEW c, NEW h, h = Head4(c)
    PROVE  /\ IsSeq(h) /\ Len(h) = 4
           /\ h[1] = c.cla /\ h[2] = c.ins /\ h[3] = c.p1 /\ h[4] = c.p2
<1>1. h \in Seq({c.cla, c.ins, c.p1, c.p2})
  BY DEF Head4
<1>2. IsSeq(h)
  BY <1>1, SeqIsSeq
<1> QED
  BY <1>2 DEF Head4

\* The bytes of a frame.
IsFrame(f, c) ==
    /\ IsSeq(f) /\ f[1] = c.cla /\ f[2] = c.ins /\ f[3] = c.p1 /\ f[4] = c.p2
    /\ Len(c.data) = 0 => Len(f) = 4 + Len(c.le)
    /\ Len(c.data) # 0 =>
          /\ Len(f) = 5 + Len(c.data) + Len(c.le)
          /\ f[5] = Length(Len(c.data))
          /\ \A i \in 1..Len(c.data) : f[5 + i] = c.data[i]

LEMMA FrameOf ==
    ASSUME NEW c, IsSeq(c.data), IsSeq(c.le)
    PROVE  IsFrame(Serialize(c), c)
<1> DEFINE h == Head4(c)
           l == <<Length(Len(c.data))>>
           m == IF c.data = <<>> THEN <<>> ELSE l \o c.data
           g == h \o m
           f == g \o c.le
<1>1. IsSeq(h) /\ Len(h) = 4 /\ h[1] = c.cla /\ h[2] = c.ins /\ h[3] = c.p1 /\ h[4] = c.p2
  BY QuadSeq
<1>2. IsSeq(l) /\ Len(l) = 1 /\ l[1] = Length(Len(c.data))
  BY OneSeq
<1>3. Len(c.data) \in Nat /\ Len(c.le) \in Nat
  BY SeqFacts
<1>4. Serialize(c) = f
  BY DEF Serialize
<1> HIDE DEF h, l
<1>5. /\ IsSeq(m)
      /\ Len(c.data) = 0 => Len(m) = 0
      /\ Len(c.data) # 0 => /\ Len(m) = 1 + Len(c.data) /\ m[1] = Length(Len(c.data))
                          /\ \A i \in 1..Len(c.data) : m[1 + i] = c.data[i]
  <2>1. CASE c.data = <<>>
    <3>1. m = <<>> /\ Len(c.data) = 0
      BY <2>1, NoBytes
    <3> HIDE DEF m
    <3> QED
      BY <3>1, NoBytes
  <2>2. CASE c.data # <<>>
    <3> DEFINE n == l \o c.data
    <3>1. IsSeq(l) /\ IsSeq(c.data)
      BY <1>2
    <3>2. /\ IsSeq(n) /\ Len(n) = Len(l) + Len(c.data)
          /\ \A i \in 1..Len(l) : n[i] = l[i]
          /\ \A i \in 1..Len(c.data) : n[Len(l) + i] = c.data[i]
      BY <3>1, CatSeq
    <3>3. m = n
      BY <2>2
    <3> HIDE DEF n, m
    <3>4. Len(c.data) # 0
      BY <2>2, Empty
    <3> QED
      BY <1>2, <1>3, <3>2, <3>3, <3>4
  <2> QED
    BY <2>1, <2>2
<1> HIDE DEF m
<1>6. /\ IsSeq(g) /\ Len(g) = 4 + Len(m)
      /\ \A i \in 1..4 : g[i] = h[i]
      /\ \A i \in 1..Len(m) : g[4 + i] = m[i]
  <2>1. IsSeq(h) /\ IsSeq(m)
    BY <1>1, <1>5
  <2>2. /\ IsSeq(g) /\ Len(g) = Len(h) + Len(m)
        /\ \A i \in 1..Len(h) : g[i] = h[i]
        /\ \A i \in 1..Len(m) : g[Len(h) + i] = m[i]
    BY <2>1, CatSeq
  <2> HIDE DEF g
  <2> QED
    BY <1>1, <2>2
<1> HIDE DEF g
<1>7. /\ IsSeq(f) /\ Len(f) = Len(g) + Len(c.le)
      /\ \A i \in 1..Len(g) : f[i] = g[i]
  <2>1. IsSeq(g) /\ IsSeq(c.le)
    BY <1>6
  <2> QED
    BY <2>1, CatSeq
<1> HIDE DEF f
<1>8. Len(m) \in Nat
  BY <1>5, SeqFacts
<1>9. f[1] = c.cla /\ f[2] = c.ins /\ f[3] = c.p1 /\ f[4] = c.p2
  <2>1. 1 \in 1..4 /\ 2 \in 1..4 /\ 3 \in 1..4 /\ 4 \in 1..4
    OBVIOUS
  <2>2. 1 \in 1..Len(g) /\ 2 \in 1..Len(g) /\ 3 \in 1..Len(g) /\ 4 \in 1..Len(g)
    BY <1>6, <1>8
  <2> QED
    BY <1>1, <1>6, <1>7, <2>1, <2>2
<1>10. Len(c.data) = 0 => Len(f) = 4 + Len(c.le)
  BY <1>3, <1>5, <1>6, <1>7
<1>11. ASSUME Len(c.data) # 0
       PROVE  /\ Len(f) = 5 + Len(c.data) + Len(c.le)
              /\ f[5] = Length(Len(c.data))
              /\ \A i \in 1..Len(c.data) : f[5 + i] = c.data[i]
  <2>1. Len(m) = 1 + Len(c.data) /\ m[1] = Length(Len(c.data))
    BY <1>5, <1>11
  <2>2. 5 \in 1..Len(g) /\ 1 \in 1..Len(m) /\ 4 + 1 = 5
    BY <1>3, <1>6, <2>1
  <2>3. f[5] = m[1]
    <3>1. f[5] = g[5]
      BY <1>7, <2>2
    <3>2. g[4 + 1] = m[1]
      BY <1>6, <2>2
    <3> QED
      BY <2>2, <3>1, <3>2
  <2>4. ASSUME NEW i \in 1..Len(c.data) PROVE f[5 + i] = c.data[i]
    <3>1. 1 + i \in 1..Len(m) /\ 5 + i \in 1..Len(g) /\ 4 + (1 + i) = 5 + i
      BY <1>3, <1>6, <2>1
    <3>2. g[4 + (1 + i)] = m[1 + i]
      BY <1>6, <3>1
    <3>3. m[1 + i] = c.data[i]
      BY <1>5, <1>11
    <3> QED
      BY <1>7, <3>1, <3>2, <3>3
  <2>5. Len(f) = 5 + Len(c.data) + Len(c.le)
    <3>1. Len(f) = 4 + (1 + Len(c.data)) + Len(c.le)
      BY <1>6, <1>7, <2>1
    <3> DEFINE x == Len(c.data)
               y == Len(c.le)
    <3>2. x \in Nat /\ y \in Nat /\ Len(f) = 4 + (1 + x) + y
      BY <1>3, <3>1
    <3> HIDE DEF x, y
    <3>3. Len(f) = 5 + x + y
      BY <3>2
    <3> QED
      BY <3>3 DEF x, y
  <2> QED
    BY <2>1, <2>3, <2>4, <2>5
<1> QED
  BY <1>4, <1>7, <1>9, <1>10, <1>11 DEF IsFrame

LEMMA SameCut ==
    ASSUME NEW s, IsSeq(s), NEW n \in Nat, n <= Len(s), NEW t, IsSeq(t), Len(t) = n,
           \A i \in 1..n : t[i] = s[i]
    PROVE  SubSeq(s, 1, n) = t
<1> DEFINE u == 1
           d == SubSeq(s, u, n)
<1>1. u \in Nat \ {0} /\ u <= n + 1 /\ n - u + 1 = n /\ \A i \in 1..n : (u - 1) + i = i
  OBVIOUS
<1> HIDE DEF u
<1>2. IsSeq(d) /\ Len(d) = n - u + 1 /\ \A i \in 1..(n - u + 1) : d[i] = s[(u - 1) + i]
  BY <1>1, PartSeq
<1> HIDE DEF d
<1>3. d = t
  BY <1>1, <1>2, SameSeq
<1> QED
  BY <1>3 DEF d, u

\* The card takes a frame for what it was: one that says a wrong length is not
\* well formed.
LEMMA TakenFrame ==
    ASSUME NEW c, IsSeq(c.data), c.le = <<>>, raw = Serialize(c)
    PROVE  /\ FrameHead = Head4(c)
           /\ FrameHead[1] = c.cla /\ FrameHead[2] = c.ins
           /\ WellFormed => FrameData = c.data
<1> DEFINE n == Len(c.data)
           h == Head4(c)
<1>1. Len(c.le) = 0 /\ IsSeq(c.le)
  BY NoBytes
<1>2. n \in Nat
  BY SeqFacts
<1>3. IsFrame(raw, c)
  BY <1>1, FrameOf
<1>4. /\ IsSeq(raw) /\ raw[1] = c.cla /\ raw[2] = c.ins /\ raw[3] = c.p1 /\ raw[4] = c.p2
      /\ n = 0 => Len(raw) = 4
      /\ n # 0 => /\ Len(raw) = 5 + n /\ raw[5] = Length(n)
                          /\ \A i \in 1..n : raw[5 + i] = c.data[i]
  BY <1>1, <1>2, <1>3 DEF IsFrame
<1>5. IsSeq(h) /\ Len(h) = 4 /\ h[1] = c.cla /\ h[2] = c.ins /\ h[3] = c.p1 /\ h[4] = c.p2
  BY QuadSeq
<1> HIDE DEF h
<1>6. c.data = <<>> <=> n = 0
  BY <1>1, Empty, NoBytes
<1>7. FrameHead = h
  <2>1. Len(raw) >= 4 /\ 4 <= Len(raw) /\ 4 \in Nat
    BY <1>2, <1>4
  <2>2. \A i \in 1..4 : h[i] = raw[i]
    <3>1. \A i \in 1..4 : i = 1 \/ i = 2 \/ i = 3 \/ i = 4
      OBVIOUS
    <3> QED
      BY <1>4, <1>5, <3>1
  <2>3. SubSeq(raw, 1, 4) = h
    BY <1>4, <1>5, <2>1, <2>2, SameCut
  <2> QED
    BY <2>3 DEF FrameHead
<1>8. ASSUME WellFormed PROVE FrameData = c.data
  <2>1. CASE c.data = <<>>
    <3>1. Lc = 0
      <4>1. Len(raw) = 4
        BY <1>4, <1>6, <2>1
      <4>2. Len(raw) <= 5
        BY <4>1
      <4> QED
        BY <4>2 DEF Lc
    <3>2. SubSeq(raw, 6, 5) = <<>>
      BY SubSeqEmpty
    <3>3. 5 + 0 = 5
      OBVIOUS
    <3> QED
      BY <2>1, <3>1, <3>2, <3>3 DEF FrameData
  <2>2. CASE c.data # <<>>
    <3>1. n # 0 /\ Len(raw) = 5 + n /\ raw[5] = Length(n)
      BY <1>4, <1>6, <2>2
    <3>2. Lc = n % LcSpace
      <4>1. ToNumber(Length(n)) = n % LcSpace
        BY <1>2, LengthOf
      <4>2. ~(Len(raw) <= 5)
        <5> HIDE DEF n
        <5> QED
          BY <1>2, <3>1
      <4> QED
        BY <3>1, <4>1, <4>2 DEF Lc
    <3>3. /\ LcSpace \in Nat /\ LcSpace >= 2
          /\ n % LcSpace \in 0..255
          /\ n < LcSpace => n % LcSpace = n
      BY <1>2, LengthOf
    <3>4. n % LcSpace = n
      <4> DEFINE r == n % LcSpace
      <4>1. r \in Nat /\ Lc = r
        <5>1. r \in 0..255 /\ Lc = r
          BY <3>2, <3>3
        <5> HIDE DEF r
        <5> QED
          BY <5>1
      <4>2. ~(Len(raw) \in 4..5)
        <5> HIDE DEF n
        <5> QED
          BY <1>2, <3>1
      <4>3. Len(raw) - 5 - r \in 0..1
        BY <1>8, <4>1, <4>2 DEF WellFormed
      <4>4. n - r \in 0..1
        <5> HIDE DEF r
        <5> QED
          BY <1>2, <3>1, <4>1, <4>3
      <4>5. r = n % LcSpace
        OBVIOUS
      <4> HIDE DEF r
      <4>6. r = n
        BY <1>2, <4>4, <4>5, SaysIts
      <4> QED
        BY <4>5, <4>6
    <3> DEFINE u == 6
               t == 5 + n
               d == SubSeq(raw, u, t)
    <3>5. FrameData = d
      BY <3>2, <3>4 DEF FrameData
    <3>6. u \in Nat \ {0} /\ t \in Nat /\ t <= Len(raw) /\ u <= t + 1 /\ t - u + 1 = n /\ u - 1 = 5
      BY <1>2, <3>1
    <3> HIDE DEF u, t
    <3>7. IsSeq(d) /\ Len(d) = t - u + 1 /\ \A i \in 1..(t - u + 1) : d[i] = raw[(u - 1) + i]
      BY <1>4, <3>6, PartSeq
    <3> HIDE DEF d
    <3>8. IsSeq(d) /\ Len(d) = n /\ \A i \in 1..n : d[i] = c.data[i]
      BY <1>4, <3>1, <3>6, <3>7
    <3>9. d = c.data
      BY <3>8, SameSeq
    <3> QED
      BY <3>5, <3>9
  <2> QED
    BY <2>1, <2>2
<1> QED
  BY <1>5, <1>7, <1>8 DEF h

LEMMA TakenGetResponse ==
    ASSUME NEW le, raw = Serialize(NewCommandGetResponse(le))
    PROVE  IsGetResponse
<1> DEFINE c == NewCommandGetResponse(le)
<1>1. c.data = <<>> /\ c.le = <<le>> /\ c.cla = ClaISO7816 /\ c.ins = InsGetResponse
  BY DEF NewCommandGetResponse, SetLe, NewCommand
<1>2. IsSeq(c.le) /\ Len(c.le) = 1 /\ IsSeq(c.data)
  BY <1>1, OneSeq, NoBytes
<1> HIDE DEF c
<1>3. IsFrame(raw, c)
  BY <1>2, FrameOf DEF c
<1>4. IsSeq(raw) /\ Len(raw) = 5 /\ raw[1] = ClaISO7816 /\ raw[2] = InsGetResponse
  BY <1>1, <1>2, <1>3 DEF IsFrame
<1>5. FrameHead[1] = raw[1] /\ FrameHead[2] = raw[2]
  <2> DEFINE u == 1
             t == 4
             d == SubSeq(raw, u, t)
  <2>1. /\ u \in Nat \ {0} /\ t \in Nat /\ t <= Len(raw) /\ u <= t + 1
        /\ 1 \in 1..(t - u + 1) /\ 2 \in 1..(t - u + 1) /\ (u - 1) + 1 = 1 /\ (u - 1) + 2 = 2
    BY <1>4
  <2>2. FrameHead = d
    BY DEF FrameHead
  <2> HIDE DEF u, t
  <2>3. \A i \in 1..(t - u + 1) : d[i] = raw[(u - 1) + i]
    BY <1>4, <2>1, PartSeq
  <2> QED
    BY <2>1, <2>2, <2>3
<1> QED
  BY <1>4, <1>5 DEF IsGetResponse

-----------------------------------------------------------------------------
(* The invariant *)

Octets(s) == IsSeq(s) /\ \A i \in 1..Len(s) : s[i] \in Octet

\* The status words of the card.
IsStatus(w) ==
    \/ w \in {SwOK, SwConditionsOfUseNotSatisfied, SwWrongData}
    \/ \E n \in 0..15 : w = SwTriesLeft(n)

\* Answer a, sealed by channel w at place v or n: what comes before the status
\* word, and that.
AnswerText(a) == a.data \o a.sw
SealedText(a, v) == EncryptData(AnswerText(a), "enc", v)
SealedData(a, w, v, n) ==
    IF w = "clear" THEN a.data
    ELSE IF w = "V1" THEN MacOf(SealedText(a, v)) \o SealedText(a, v)
    ELSE EncryptAndAuthenticate("c2h", n, AnswerText(a))
SealedSw(a, w) == IF w = "clear" THEN a.sw ELSE SwOK

OwnData == SealedData(answer, ver, iv, nonce)
OwnSw == SealedSw(answer, ver)

Types ==
    /\ ver \in {"V1", "V2", "clear"}
    /\ open \in BOOLEAN /\ session \in BOOLEAN
    /\ nonce \in Nat /\ cardNonce \in Nat
    /\ IsBlock(cardIv) /\ (open => IsBlock(iv))
    /\ pc \in {"idle", "sent", "answered"}
    /\ pc # "idle" => call \in Requests
    /\ pinLeft \in 0..MaxTries /\ pukLeft \in 0..MaxTries
    /\ Octets(stored)
    /\ ver = "clear" => ~open /\ ~session
    /\ ver = "V1" /\ pc # "idle" => open

\* Between two calls both ends are at the same place.
Together ==
    pc = "idle" /\ open /\ session =>
        /\ ver = "V1" => iv = cardIv
        /\ ver = "V2" => nonce = cardNonce

\* The frame of a call, before the card has it.
FrameV1 ==
    /\ cmd.cla = ClaGp /\ cmd.ins = InsOf[call.name] /\ cmd.p1 = {} /\ cmd.p2 = {} /\ cmd.le = <<>>
    /\ IsSeq(cmd.data)
    /\ session =>
          LET encrypted == EncryptData(call.data, "enc", cardIv)
              length == Len(encrypted) + BlockLen
          IN  /\ iv = CalculateMAC(commandMeta(Head4(CommandOf(call)), length), encrypted, "mac")
              /\ cmd.data = iv \o encrypted
Inner(c) == Head4(c) \o <<Length(Len(c.data))>> \o c.data
FrameV2 ==
    /\ cmd = NewCommand(ClaGp, InsSecuredAPDU, {}, {},
                 EncryptAndAuthenticate("h2c", nonce, Inner(CommandOf(call))))
    /\ session => nonce = cardNonce
Frames ==
    pc = "sent" =>
        /\ raw = Serialize(cmd)
        /\ executed = <<>> =>
              /\ ~open => cmd = CommandOf(call)
              /\ open /\ ver = "V1" => FrameV1
              /\ open /\ ver = "V2" => FrameV2
        /\ executed # <<>> =>
              cmd = NewCommandGetResponse(cmd.le[1]) /\ pending \in {<<>>, OwnData \o OwnSw}

\* What came of bytes e of an answer: it is damaged once.
Came(e, d) == d = e \/ (open /\ ~intact /\ Damaged(e, d))
FollowsUp(c) == c.cla = ClaISO7816 /\ c.ins = InsGetResponse

\* The answer in the reader: too short; a refusal outside any sealing; its length,
\* while the answer waits in the card; or the first n bytes of the card's data,
\* all of them unless GET RESPONSE fetched them.
Rejected == resp.ok /\ resp.data = <<>> /\ Sw(resp) \in Rejections
Waits ==
    /\ resp.ok /\ executed # <<>>
    /\ resp.data = <<>> /\ resp.sw1 = Sw1ResponseDataIncomplete
    /\ pending \in {<<>>, OwnData \o OwnSw}
Answered ==
    /\ resp.ok /\ executed # <<>>
    /\ \E n \in 0..Len(OwnData) :
          /\ Came(SubSeq(OwnData, 1, n), resp.data)
          /\ \/ n = Len(OwnData) /\ Sw(resp) = OwnSw
             \/ resp.sw1 = Sw1ResponseDataIncomplete /\ FollowsUp(cmd)
Replies ==
    pc = "answered" =>
        /\ IsSeq(raw)
        /\ \/ ~resp.ok /\ ~intact
           \/ Rejected
           \/ Waits
           \/ Answered

\* What the card did for the call.
Did ==
    /\ executed = <<[ins |-> InsOf[call.name], data |-> call.data]>>
    /\ answer = Answer(answer.data, answer.sw)
    /\ Octets(answer.data)
    /\ \/ answer.sw \in {SwOK, SwConditionsOfUseNotSatisfied, SwWrongData}
       \/ call.name = "VerifyPIN" /\ answer.sw = SwTriesLeft(pinLeft)
       \/ call.name = "UnblockPIN" /\ answer.sw = SwTriesLeft(pukLeft)
Executed ==
    executed # <<>> =>
        /\ Did
        /\ pc # "idle" /\ ver = "V1" => cardIv = MacOf(SealedText(answer, iv))
        /\ pc # "idle" /\ ver = "V2" => open /\ cardNonce = nonce + 1

ExchangeInv == Types /\ Together /\ Frames /\ Replies /\ Executed /\ TellsCardsAnswer

-----------------------------------------------------------------------------
(* What a call sends and what the card does with it *)

LEMMA OctetSeq ==
    ASSUME NEW s \in Seq(Octet)
    PROVE  Octets(s)
<1>1. IsSeq(s)
  BY SeqIsSeq
<1>2. \A i \in 1..Len(s) : s[i] \in Octet
  OBVIOUS
<1> QED
  BY <1>1, <1>2 DEF Octets

LEMMA CatOctets ==
    ASSUME NEW s, NEW t, Octets(s), Octets(t)
    PROVE  Octets(s \o t) /\ Len(s \o t) = Len(s) + Len(t)
<1> DEFINE f == s \o t
<1>1. /\ IsSeq(s) /\ \A i \in 1..Len(s) : s[i] \in Octet
      /\ IsSeq(t) /\ \A i \in 1..Len(t) : t[i] \in Octet
  BY DEF Octets
<1>2. /\ IsSeq(f) /\ Len(f) = Len(s) + Len(t)
      /\ \A i \in 1..Len(s) : f[i] = s[i]
      /\ \A i \in 1..Len(t) : f[Len(s) + i] = t[i]
  <2>1. IsSeq(s) /\ IsSeq(t)
    BY <1>1
  <2> QED
    BY <2>1, CatSeq
<1>3. Len(s) \in Nat /\ Len(t) \in Nat
  BY <1>1, SeqFacts
<1> HIDE DEF f
<1>4. ASSUME NEW i \in 1..Len(f) PROVE f[i] \in Octet
  <2>1. CASE i <= Len(s)
    <3>1. i \in 1..Len(s)
      BY <1>3, <2>1
    <3> QED
      BY <1>1, <1>2, <3>1
  <2>2. CASE ~(i <= Len(s))
    <3> DEFINE j == i - Len(s)
    <3>1. j \in 1..Len(t) /\ Len(s) + j = i
      BY <1>2, <1>3, <2>2
    <3> HIDE DEF j
    <3>2. f[i] = t[j]
      BY <1>2, <3>1
    <3> QED
      BY <1>1, <3>1, <3>2
  <2> QED
    BY <2>1, <2>2
<1> QED
  BY <1>2, <1>4 DEF Octets, f

LEMMA OctetsMade ==
    ASSUME NEW n \in Nat
    PROVE  ToByte(n) \in Octet /\ {} \in Octet /\ Length(n) \in Octet
<1>1. {} \in Octet
  BY DEF Octet
<1> QED
  BY <1>1, BitOf, LengthOf

LEMMA OneOctet ==
    ASSUME NEW x \in Octet
    PROVE  Octets(<<x>>)
<1>1. <<x>> \in Seq(Octet)
  OBVIOUS
<1> QED
  BY <1>1, OctetSeq

LEMMA TwoOctets ==
    ASSUME NEW x \in Octet, NEW y \in Octet
    PROVE  Octets(<<x, y>>)
<1>1. <<x, y>> \in Seq(Octet)
  OBVIOUS
<1> QED
  BY <1>1, OctetSeq

LEMMA RequestOf ==
    ASSUME NEW c \in Requests
    PROVE  c.name \in Names /\ Octets(c.data)
<1>1. \A p \in Pins \cup Puks \cup Records : Octets(p)
  <2>1. Pins \cup Puks \cup Records \subseteq Seq(Octet)
    BY ExchangeAssumption DEF Octet
  <2> QED
    BY <2>1, OctetSeq
<1>2. Octets(<<>>)
  <2>1. <<>> \in Seq(Octet)
    OBVIOUS
  <2> QED
    BY <2>1, OctetSeq
<1>3. \A k \in Puks, p \in Pins : Octets(k \o p)
  BY <1>1, CatOctets
<1>4. CASE c \in {Call(name, p) : name \in {"VerifyPIN", "ChangePIN"}, p \in Pins}
  <2>1. PICK name \in {"VerifyPIN", "ChangePIN"}, p \in Pins : c = Call(name, p)
    BY <1>4
  <2>2. c.name = name /\ c.data = p
    BY <2>1 DEF Call
  <2> QED
    BY <1>1, <2>2 DEF Names
<1>5. CASE c \in {Call("UnblockPIN", k \o p) : k \in Puks, p \in Pins}
  <2>1. PICK k \in Puks, p \in Pins : c = Call("UnblockPIN", k \o p)
    BY <1>5
  <2>2. c.name = "UnblockPIN" /\ c.data = k \o p
    BY <2>1 DEF Call
  <2> QED
    BY <1>3, <2>1, <2>2 DEF Names
<1>6. CASE c \in {Call("StoreData", r) : r \in Records}
  BY <1>1, <1>6 DEF Call, Names
<1>7. CASE c \in {Call("GetData", <<>>)}
  BY <1>2, <1>7 DEF Call, Names
<1> QED
  BY <1>4, <1>5, <1>6, <1>7 DEF Requests

LEMMA CommandIs ==
    ASSUME NEW c \in Requests
    PROVE  /\ CommandOf(c).cla = ClaGp /\ CommandOf(c).ins = InsOf[c.name]
           /\ CommandOf(c).p1 = {} /\ CommandOf(c).p2 = {}
           /\ CommandOf(c).data = c.data /\ CommandOf(c).le = <<>>
           /\ IsSeq(c.data) /\ Head4(CommandOf(c)) = <<ClaGp, InsOf[c.name], {}, {}>>
  BY RequestOf DEF CommandOf, NewCommand, Head4, Octets

LEMMA InnerIs ==
    ASSUME NEW c \in Requests, NEW s, s = Inner(CommandOf(c))
    PROVE  /\ Octets(s) /\ s[5] = Length(Len(s) - 5)
           /\ SubSeq(s, 1, 4) = Head4(CommandOf(c))
           /\ SubSeq(s, 6, Len(s)) = c.data
<1> DEFINE h == Head4(CommandOf(c))
           l == <<Length(Len(c.data))>>
           g == h \o l
           f == g \o c.data
<1>1. /\ Octets(c.data) /\ c.name \in Names /\ h = <<ClaGp, InsOf[c.name], {}, {}>>
      /\ CommandOf(c).data = c.data /\ IsSeq(c.data)
  BY RequestOf, CommandIs
<1>2. Len(c.data) \in Nat
  BY <1>1, SeqFacts
<1>3. Octets(l) /\ Len(l) = 1 /\ l[1] = Length(Len(c.data)) /\ IsSeq(l)
  BY <1>2, OctetsMade, OneOctet, OneSeq
<1>4. Octets(h) /\ Len(h) = 4 /\ IsSeq(h)
  <2>1. ClaGp \in Octet /\ InsOf[c.name] \in Octet /\ {} \in Octet
    <3>1. \A n \in Nat : ToByte(n) \in Octet /\ {} \in Octet
      BY OctetsMade
    <3>2. 128 \in Nat /\ 32 \in Nat /\ 33 \in Nat /\ 34 \in Nat /\ 226 \in Nat /\ 202 \in Nat
      OBVIOUS
    <3> QED
      BY <1>1, <3>1, <3>2 DEF ClaGp, InsOf, Names
  <2>2. h \in Seq(Octet) /\ Len(h) = 4
    BY <1>1, <2>1
  <2> HIDE DEF h
  <2> QED
    BY <2>2, OctetSeq, SeqIsSeq
<1>5. s = f
  BY <1>1 DEF Inner
<1> HIDE DEF h, l
<1>6. Octets(g) /\ Len(g) = 5 /\ IsSeq(g)
  <2>1. Octets(g) /\ Len(g) = Len(h) + Len(l)
    BY <1>3, <1>4, CatOctets
  <2> HIDE DEF g
  <2> QED
    BY <1>3, <1>4, <2>1 DEF Octets
<1>7. (\A i \in 1..Len(h) : g[i] = h[i]) /\ (\A i \in 1..Len(l) : g[Len(h) + i] = l[i])
  <2>1. IsSeq(h) /\ IsSeq(l)
    BY <1>3, <1>4
  <2> QED
    BY <2>1, CatSeq
<1> HIDE DEF g
<1>8. Octets(f) /\ Len(f) = 5 + Len(c.data)
  <2>1. Octets(f) /\ Len(f) = Len(g) + Len(c.data)
    BY <1>1, <1>6, CatOctets
  <2> HIDE DEF f
  <2> QED
    BY <1>6, <2>1
<1>9. /\ \A i \in 1..Len(g) : f[i] = g[i]
      /\ SubSeq(f, Len(g) + 1, Len(g) + Len(c.data)) = c.data
  <2>1. IsSeq(g) /\ IsSeq(c.data)
    BY <1>1, <1>6
  <2> QED
    BY <2>1, CatSeq, PartsOfCat
<1> HIDE DEF f
<1>10. f[5] = Length(Len(f) - 5)
  <2>1. f[5] = g[5] /\ g[5] = l[1] /\ Len(f) - 5 = Len(c.data)
    <3>1. 5 \in 1..5 /\ 1 \in 1..1 /\ 4 + 1 = 5
      OBVIOUS
    <3>2. f[5] = g[5]
      BY <1>6, <1>9, <3>1
    <3>3. g[4 + 1] = l[1]
      BY <1>3, <1>4, <1>7, <3>1
    <3> QED
      BY <1>2, <1>8, <3>1, <3>2, <3>3
  <2> QED
    BY <1>3, <2>1
<1>11. SubSeq(f, 1, 4) = h
  <2>1. IsSeq(f) /\ 4 \in Nat /\ 4 <= Len(f) /\ IsSeq(h) /\ Len(h) = 4
    BY <1>2, <1>4, <1>8 DEF Octets
  <2>2. \A i \in 1..4 : h[i] = f[i]
    BY <1>4, <1>6, <1>7, <1>9
  <2> QED
    BY <2>1, <2>2, SameCut
<1>12. SubSeq(f, 6, Len(f)) = c.data
  <2>1. Len(g) + 1 = 6 /\ Len(g) + Len(c.data) = Len(f)
    BY <1>6, <1>8
  <2> QED
    BY <1>9, <2>1
<1> QED
  BY <1>5, <1>8, <1>10, <1>11, <1>12 DEF h

LEMMA DamagedRaw ==
    ASSUME NEW f, IsSeq(f), NEW r, r = ParseResponse(f), r.ok, NEW i \in 1..(Len(f) - 2),
           NEW x, x = Flipped(f, i) \/ x = Without(f, i),
           NEW y, y = ParseResponse(x)
    PROVE  IsSeq(x) /\ y.ok /\ Damaged(r.data, y.data) /\ Sw(y) = Sw(r) /\ y.sw1 = r.sw1
<1> DEFINE d == r.data
           w == Sw(r)
           n == Len(d)
<1>1. /\ IsSeq(d) /\ n = Len(f) - 2 /\ f = d \o w /\ n \in Nat
  BY ParsedOf, SeqFacts
<1>2. IsSeq(w) /\ Len(w) = 2 /\ w = <<r.sw1, r.sw2>>
  BY PairSeq DEF Sw
<1>3. Len(f) = n + 2 /\ i \in 1..n /\ i \in 1..Len(f)
  <2>1. Len(f) \in Nat
    BY SeqFacts
  <2> HIDE DEF n
  <2> QED
    BY <1>1, <2>1
<1>4. /\ \A j \in 1..n : f[j] = d[j]
      /\ \A j \in 1..2 : f[n + j] = w[j]
  <2>1. IsSeq(d) /\ IsSeq(w)
    BY <1>1, <1>2
  <2> HIDE DEF d, w
  <2>2. /\ \A j \in 1..Len(d) : (d \o w)[j] = d[j]
        /\ \A j \in 1..Len(w) : (d \o w)[Len(d) + j] = w[j]
    BY <2>1, CatSeq
  <2> QED
    BY <1>1, <1>2, <2>2
<1> HIDE DEF n, w
<1> DEFINE e == IF x = Flipped(f, i) THEN Flipped(d, i) ELSE Without(d, i)
           g == e \o w
<1>5. ASSUME x = Flipped(f, i) PROVE IsSeq(e) /\ IsSeq(x) /\ x = g
  <2>1. IsFlipped(x, f, i)
    BY <1>3, <1>5, FlippedIs
  <2>2. IsFlipped(e, d, i)
    <3>1. i \in 1..Len(d) /\ e = Flipped(d, i)
      BY <1>3, <1>5 DEF n
    <3> HIDE DEF e, d
    <3> QED
      BY <1>1, <3>1, FlippedIs
  <2> HIDE DEF e, d
  <2>3. /\ IsSeq(x) /\ Len(x) = n + 2
        /\ x[i] = Xor(f[i], {Bit(0)})
        /\ \A j \in 1..(n + 2) : j # i => x[j] = f[j]
    BY <1>3, <2>1 DEF IsFlipped
  <2>4. /\ IsSeq(e) /\ Len(e) = n
        /\ e[i] = Xor(d[i], {Bit(0)})
        /\ \A j \in 1..n : j # i => e[j] = d[j]
    BY <2>2 DEF IsFlipped, n
  <2>5. /\ IsSeq(g) /\ Len(g) = n + 2
        /\ \A j \in 1..n : g[j] = e[j]
        /\ \A j \in 1..2 : g[n + j] = w[j]
    <3>1. IsSeq(e) /\ IsSeq(w)
      BY <1>2, <2>4
    <3>2. /\ IsSeq(g) /\ Len(g) = Len(e) + Len(w)
          /\ \A j \in 1..Len(e) : g[j] = e[j]
          /\ \A j \in 1..Len(w) : g[Len(e) + j] = w[j]
      BY <3>1, CatSeq
    <3> QED
      BY <1>2, <2>4, <3>2
  <2> HIDE DEF g
  <2>6. ASSUME NEW j \in 1..Len(x) PROVE x[j] = g[j]
    <3>1. CASE j = i
      BY <1>3, <1>4, <2>3, <2>4, <2>5, <3>1
    <3>2. CASE j # i /\ j <= n
      <4>1. j \in 1..n /\ j \in 1..(n + 2)
        BY <1>1, <2>3, <3>2 DEF n
      <4> QED
        BY <1>4, <2>3, <2>4, <2>5, <3>2, <4>1
    <3>3. CASE ~(j <= n)
      <4> DEFINE k == j - n
      <4>1. n \in Nat
        BY <1>1 DEF n
      <4>2. k \in 1..2 /\ j = n + k /\ j \in 1..(n + 2) /\ j # i
        BY <1>3, <2>3, <3>3, <4>1
      <4> HIDE DEF k
      <4>3. f[n + k] = w[k] /\ g[n + k] = w[k]
        BY <1>4, <2>5, <4>2
      <4> QED
        BY <2>3, <4>2, <4>3
    <3> QED
      BY <3>1, <3>2, <3>3
  <2>7. x = g
    BY <2>3, <2>5, <2>6, SameSeq
  <2> QED
    BY <2>3, <2>4, <2>7
<1>6. ASSUME x # Flipped(f, i) PROVE IsSeq(e) /\ IsSeq(x) /\ x = g
  <2>1. IsWithout(x, f, i)
    BY <1>3, <1>6, WithoutIs
  <2>2. IsWithout(e, d, i)
    <3>1. i \in 1..Len(d) /\ e = Without(d, i)
      BY <1>3, <1>6 DEF n
    <3> HIDE DEF e, d
    <3> QED
      BY <1>1, <3>1, WithoutIs
  <2> HIDE DEF e, d
  <2>3. /\ IsSeq(x) /\ Len(x) = n + 1
        /\ \A j \in 1..(i - 1) : x[j] = f[j]
        /\ \A j \in i..(n + 1) : x[j] = f[j + 1]
    <3>1. n \in Nat /\ (n + 2) - 1 = n + 1
      BY <1>1 DEF n
    <3> QED
      BY <1>3, <2>1, <3>1 DEF IsWithout
  <2>4. /\ IsSeq(e) /\ Len(e) = n - 1
        /\ \A j \in 1..(i - 1) : e[j] = d[j]
        /\ \A j \in i..(n - 1) : e[j] = d[j + 1]
    BY <2>2 DEF IsWithout, n
  <2>5. /\ IsSeq(g) /\ Len(g) = n + 1
        /\ \A j \in 1..(n - 1) : g[j] = e[j]
        /\ \A j \in 1..2 : g[(n - 1) + j] = w[j]
    <3>1. IsSeq(e) /\ IsSeq(w)
      BY <1>2, <2>4
    <3>2. /\ IsSeq(g) /\ Len(g) = Len(e) + Len(w)
          /\ \A j \in 1..Len(e) : g[j] = e[j]
          /\ \A j \in 1..Len(w) : g[Len(e) + j] = w[j]
      BY <3>1, CatSeq
    <3>3. n \in Nat /\ (n - 1) + 2 = n + 1
      BY <1>1 DEF n
    <3> QED
      BY <1>2, <2>4, <3>2, <3>3
  <2> HIDE DEF g
  <2>0. n \in Nat
    BY <1>1 DEF n
  <2>6. ASSUME NEW j \in 1..Len(x) PROVE x[j] = g[j]
    <3>1. CASE j < i
      <4>1. j \in 1..(i - 1) /\ j \in 1..n /\ j \in 1..(n - 1)
        BY <1>3, <2>0, <3>1
      <4> QED
        BY <1>4, <2>3, <2>4, <2>5, <4>1
    <3>2. CASE ~(j < i) /\ j <= n - 1
      <4>1. j \in i..(n - 1) /\ j \in i..(n + 1) /\ j + 1 \in 1..n /\ j \in 1..(n - 1)
        BY <1>3, <2>0, <3>2
      <4> QED
        BY <1>4, <2>3, <2>4, <2>5, <4>1
    <3>3. CASE ~(j < i) /\ ~(j <= n - 1)
      <4> DEFINE k == j - (n - 1)
      <4>1. k \in 1..2 /\ j = (n - 1) + k /\ j + 1 = n + k /\ j \in i..(n + 1)
        BY <1>3, <2>0, <2>3, <3>3
      <4> HIDE DEF k
      <4>2. f[n + k] = w[k] /\ g[(n - 1) + k] = w[k]
        BY <1>4, <2>5, <4>1
      <4> QED
        BY <2>3, <4>1, <4>2
    <3> QED
      BY <3>1, <3>2, <3>3
  <2>7. x = g
    BY <2>3, <2>5, <2>6, SameSeq
  <2> QED
    BY <2>3, <2>4, <2>7
<1>7. IsSeq(e) /\ IsSeq(x) /\ x = e \o <<r.sw1, r.sw2>>
  BY <1>2, <1>5, <1>6
<1>8. Damaged(d, e)
  BY <1>3 DEF Damaged, n
<1> HIDE DEF e, d
<1>9. y = [ok |-> TRUE, data |-> e, sw1 |-> r.sw1, sw2 |-> r.sw2] /\ Sw(y) = <<r.sw1, r.sw2>>
  <2>1. IsSeq(e) /\ IsSeq(w) /\ Len(w) = 2
    BY <1>2, <1>7
  <2>2. w[1] = r.sw1 /\ w[2] = r.sw2 /\ x = e \o w
    BY <1>2, <1>7
  <2>3. ParsesTo(e \o w, e, w)
    BY <2>1, Parsed
  <2> HIDE DEF w
  <2> QED
    BY <2>2, <2>3 DEF ParsesTo
<1>10. y.ok /\ y.data = e /\ y.sw1 = r.sw1
  BY <1>9
<1>11. Sw(y) = Sw(r)
  BY <1>9 DEF Sw
<1> QED
  BY <1>7, <1>8, <1>10, <1>11 DEF d

\* One execution, of a request whose command the head names.
LEMMA ExecutesCall ==
    ASSUME Types, executed = <<>>, pc # "idle", call' = call,
           NEW head, NEW data, Executes(head, data),
           head[2] = InsOf[call.name], data = call.data
    PROVE  /\ Did' /\ executed' # <<>>
           /\ Octets(stored') /\ pinLeft' \in 0..MaxTries /\ pukLeft' \in 0..MaxTries
<1>1. /\ call.name \in Names /\ Octets(call.data) /\ Octets(stored)
      /\ pinLeft \in 0..MaxTries /\ pukLeft \in 0..MaxTries /\ MaxTries \in 1..15
  BY RequestOf, ExchangeAssumption DEF Types
<1>2. executed' = <<[ins |-> InsOf[call.name], data |-> call.data]>> /\ executed' # <<>>
  BY DEF Executes
<1>3. Octets(<<>>)
  BY NoBytes DEF Octets
<1>4. \A other \in Names : InsOf[other] = head[2] => other = call.name
  BY <1>1, Instructions
<1>5. /\ InsOf.VerifyPIN = InsOf["VerifyPIN"] /\ InsOf.ChangePIN = InsOf["ChangePIN"]
      /\ InsOf.UnblockPIN = InsOf["UnblockPIN"] /\ InsOf.StoreData = InsOf["StoreData"]
      /\ InsOf.GetData = InsOf["GetData"]
      /\ "VerifyPIN" \in Names /\ "ChangePIN" \in Names /\ "UnblockPIN" \in Names
      /\ "StoreData" \in Names /\ "GetData" \in Names
  BY DEF Names
<1> DEFINE Good == /\ answer' = Answer(answer'.data, answer'.sw)
                   /\ Octets(answer'.data)
                   /\ \/ answer'.sw \in {SwOK, SwConditionsOfUseNotSatisfied, SwWrongData}
                      \/ call.name = "VerifyPIN" /\ answer'.sw = SwTriesLeft(pinLeft')
                      \/ call.name = "UnblockPIN" /\ answer'.sw = SwTriesLeft(pukLeft')
                   /\ Octets(stored') /\ pinLeft' \in 0..MaxTries /\ pukLeft' \in 0..MaxTries
<1>6. ASSUME head[2] = InsOf.VerifyPIN, CardVerifiesPIN(data) PROVE Good
  <2>1. call.name = "VerifyPIN"
    BY <1>4, <1>5, <1>6
  <2> QED
    <3> DEFINE right == pinLeft > 0 /\ data = pin
               left == IF right THEN MaxTries ELSE IF pinLeft = 0 THEN 0 ELSE pinLeft - 1
    <3>1. /\ pinLeft' = left
          /\ answer' = Answer(<<>>, IF right THEN SwOK ELSE SwTriesLeft(left))
          /\ pukLeft' = pukLeft /\ stored' = stored
      BY <1>6 DEF CardVerifiesPIN
    <3>2. left \in 0..MaxTries
      BY <1>1
    <3> HIDE DEF right, left
    <3>3. answer'.data = <<>> /\ answer'.sw = IF right THEN SwOK ELSE SwTriesLeft(left)
      BY <3>1 DEF Answer
    <3>4. answer' = Answer(answer'.data, answer'.sw)
      BY <3>1, <3>3
    <3> QED
      BY <1>1, <1>3, <2>1, <3>1, <3>2, <3>3, <3>4
<1>7. ASSUME head[2] = InsOf.ChangePIN, CardChangesPIN(data) PROVE Good
  BY <1>1, <1>3, <1>7 DEF CardChangesPIN, Answer
<1>8. ASSUME head[2] = InsOf.UnblockPIN, CardUnblocksPIN(data) PROVE Good
  <2>1. call.name = "UnblockPIN"
    BY <1>4, <1>5, <1>8
  <2> QED
    <3> DEFINE right == pukLeft > 0 /\ SubSeq(data, 1, Len(puk)) = puk
               left == IF right THEN MaxTries ELSE IF pukLeft = 0 THEN 0 ELSE pukLeft - 1
    <3>1. /\ \/ /\ answer' = Answer(<<>>, SwConditionsOfUseNotSatisfied)
                /\ pinLeft' = pinLeft /\ pukLeft' = pukLeft
             \/ /\ pukLeft' = left
                /\ pinLeft' = IF right THEN MaxTries ELSE pinLeft
                /\ answer' = Answer(<<>>, IF right THEN SwOK ELSE SwTriesLeft(left))
          /\ stored' = stored
      BY <1>8 DEF CardUnblocksPIN
    <3>2. left \in 0..MaxTries /\ MaxTries \in 0..MaxTries
      BY <1>1
    <3> HIDE DEF right, left
    <3>3. CASE /\ answer' = Answer(<<>>, SwConditionsOfUseNotSatisfied)
               /\ pinLeft' = pinLeft /\ pukLeft' = pukLeft
      <4>1. answer'.data = <<>> /\ answer'.sw = SwConditionsOfUseNotSatisfied
        BY <3>3 DEF Answer
      <4>2. answer' = Answer(answer'.data, answer'.sw)
        BY <3>3, <4>1
      <4> QED
        BY <1>1, <1>3, <3>1, <3>3, <4>1, <4>2
    <3>4. CASE /\ pukLeft' = left
               /\ pinLeft' = IF right THEN MaxTries ELSE pinLeft
               /\ answer' = Answer(<<>>, IF right THEN SwOK ELSE SwTriesLeft(left))
      <4>1. answer'.data = <<>> /\ answer'.sw = IF right THEN SwOK ELSE SwTriesLeft(left)
        BY <3>4 DEF Answer
      <4>2. answer' = Answer(answer'.data, answer'.sw)
        BY <3>4, <4>1
      <4>3. answer'.sw \in {SwOK} \/ answer'.sw = SwTriesLeft(pukLeft')
        BY <3>4, <4>1
      <4> QED
        BY <1>1, <1>3, <2>1, <3>1, <3>2, <3>4, <4>1, <4>2, <4>3
    <3> QED
      BY <3>1, <3>3, <3>4
<1>9. ASSUME head[2] = InsOf.StoreData, CardStoresData(data) PROVE Good
  BY <1>1, <1>3, <1>9 DEF CardStoresData, Answer
<1>10. ASSUME head[2] = InsOf.GetData, CardGetsData PROVE Good
  BY <1>1, <1>10 DEF CardGetsData, Answer, wallet
<1>11. Good
  BY <1>6, <1>7, <1>8, <1>9, <1>10 DEF Executes
<1> QED
  BY <1>2, <1>11 DEF Did

-----------------------------------------------------------------------------
(* The card's answers *)

LEMMA StatusIs ==
    ASSUME NEW w, IsStatus(w)
    PROVE  /\ Octets(w) /\ IsSeq(w) /\ Len(w) = 2 /\ w = <<w[1], w[2]>>
           /\ w[1] # Sw1ResponseDataIncomplete
<1>1. \E m, n \in Nat : w = <<ToByte(m), ToByte(n)>>
  <2>1. 144 \in Nat /\ 0 \in Nat /\ 105 \in Nat /\ 133 \in Nat /\ 106 \in Nat /\ 128 \in Nat /\ 99 \in Nat
    OBVIOUS
  <2>2. CASE w = SwOK
    BY <2>1, <2>2, Words
  <2>3. CASE w = SwConditionsOfUseNotSatisfied
    BY <2>1, <2>3, Words
  <2>4. CASE w = SwWrongData
    BY <2>1, <2>4, Words
  <2>5. ASSUME NEW t \in 0..15, w = SwTriesLeft(t) PROVE \E m, n \in Nat : w = <<ToByte(m), ToByte(n)>>
    <3>1. 192 + t \in Nat /\ w = <<ToByte(99), ToByte(192 + t)>>
      BY <2>5, Words
    <3> QED
      BY <2>1, <3>1
  <2> QED
    BY <2>2, <2>3, <2>4, <2>5 DEF IsStatus
<1>2. PICK m \in Nat, n \in Nat : w = <<ToByte(m), ToByte(n)>>
  BY <1>1
<1>3. ToByte(m) \in Octet /\ ToByte(n) \in Octet
  BY OctetsMade
<1>4. Octets(w)
  BY <1>2, <1>3, TwoOctets
<1>5. w[1] # Sw1ResponseDataIncomplete
  <2>1. SwConditionsOfUseNotSatisfied \in Rejections
    BY DEF Rejections
  <2> QED
    BY <2>1, Distinct DEF IsStatus
<1>6. Len(w) = 2 /\ w = <<w[1], w[2]>>
  BY <1>2
<1> QED
  BY <1>4, <1>5, <1>6 DEF Octets

LEMMA TextIs ==
    ASSUME NEW a, Octets(a.data), IsStatus(a.sw)
    PROVE  /\ Octets(AnswerText(a)) /\ IsSeq(AnswerText(a)) /\ Len(AnswerText(a)) # 0
           /\ ParsesTo(AnswerText(a), a.data, a.sw)
<1> DEFINE f == a.data \o a.sw
<1>1. Octets(a.sw) /\ IsSeq(a.sw) /\ Len(a.sw) = 2
  BY StatusIs
<1>2. IsSeq(a.data)
  BY DEF Octets
<1>3. Len(a.data) \in Nat
  BY <1>2, SeqFacts
<1>4. Octets(f) /\ Len(f) = Len(a.data) + Len(a.sw)
  BY <1>1, CatOctets
<1>5. ParsesTo(f, a.data, a.sw)
  BY <1>1, <1>2, Parsed
<1> HIDE DEF f
<1>6. Len(f) # 0
  BY <1>1, <1>3, <1>4
<1>7. AnswerText(a) = f
  BY DEF AnswerText, f
<1> QED
  BY <1>4, <1>5, <1>6, <1>7 DEF Octets

LEMMA SealedIs ==
    ASSUME NEW a, Octets(a.data), IsStatus(a.sw), NEW w \in {"V1", "V2", "clear"},
           NEW v, w = "V1" => IsBlock(v), NEW n \in Nat
    PROVE  IsSeq(SealedData(a, w, v, n)) /\ IsStatus(SealedSw(a, w))
<1>1. Octets(AnswerText(a)) /\ IsSeq(AnswerText(a))
  BY TextIs
<1>2. IsStatus(SealedSw(a, w))
  BY DEF SealedSw, IsStatus
<1>3. CASE w = "clear"
  BY <1>2, <1>3 DEF SealedData, Octets
<1>4. CASE w = "V1"
  <2> DEFINE e == SealedText(a, v)
  <2>1. e = EncryptData(AnswerText(a), "enc", v) /\ IsBlock(v)
    BY <1>4 DEF SealedText
  <2> HIDE DEF e
  <2>2. IsSeq(e)
    BY <1>1, <2>1, EncryptedMade
  <2>3. IsBlock(MacOf(e))
    BY <1>1, <2>1, MacOfIs
  <2>4. IsSeq(MacOf(e))
    BY <2>3, BlockIsSeq
  <2>5. IsSeq(MacOf(e) \o e)
    BY <2>2, <2>4, CatSeq
  <2>6. SealedData(a, w, v, n) = MacOf(e) \o e
    BY <1>4 DEF SealedData, e
  <2> QED
    BY <1>2, <2>5, <2>6
<1>5. CASE w = "V2"
  <2> DEFINE c == EncryptAndAuthenticate("c2h", n, AnswerText(a))
  <2>1. FreeSeq("c2h", Counters, AnswerText(a))
    BY <1>1, OctetsFree DEF Octets
  <2>2. IsSealed(c, "c2h", n, AnswerText(a))
    BY <2>1, SealedBytes
  <2>3. SealedData(a, w, v, n) = c
    BY <1>5 DEF SealedData
  <2> QED
    BY <1>2, <2>2, <2>3 DEF IsSealed
<1> QED
  BY <1>3, <1>4, <1>5

\* What the invariant says of the answer.
LEMMA OwnAnswer ==
    ASSUME Types, Executed, executed # <<>>, pc # "idle"
    PROVE  /\ Octets(answer.data) /\ IsStatus(answer.sw) /\ Did
           /\ IsSeq(OwnData) /\ IsStatus(OwnSw)
<1>1. Did
  BY DEF Executed
<1>2. pinLeft \in 0..15 /\ pukLeft \in 0..15
  BY ExchangeAssumption DEF Types
<1>3. Octets(answer.data) /\ IsStatus(answer.sw)
  BY <1>1, <1>2 DEF Did, IsStatus
<1>4. ver \in {"V1", "V2", "clear"} /\ nonce \in Nat /\ (ver = "V1" => IsBlock(iv))
  BY DEF Types
<1>5. IsSeq(OwnData) /\ IsStatus(OwnSw)
  BY <1>3, <1>4, SealedIs DEF OwnData, OwnSw
<1> QED
  BY <1>1, <1>3, <1>5

LEMMA PartOfData ==
    ASSUME NEW d, IsSeq(d), NEW w, IsSeq(w), NEW n \in 0..Len(d)
    PROVE  /\ IsSeq(SubSeq(d, 1, n)) /\ Len(SubSeq(d, 1, n)) = n
           /\ SubSeq(d \o w, 1, n) = SubSeq(d, 1, n)
           /\ Begins(SubSeq(d, 1, n), d)
<1> DEFINE u == 1
           f == d \o w
           p == SubSeq(d, u, n)
<1>1. Len(d) \in Nat /\ Len(w) \in Nat
  BY SeqFacts
<1>2. u \in Nat \ {0} /\ n \in Nat /\ n <= Len(d) /\ u <= n + 1 /\ n - u + 1 = n /\ \A i \in 1..n : (u - 1) + i = i
  BY <1>1
<1> HIDE DEF u
<1>3. IsSeq(p) /\ Len(p) = n - u + 1 /\ \A i \in 1..(n - u + 1) : p[i] = d[(u - 1) + i]
  BY <1>2, PartSeq
<1> HIDE DEF p
<1>4. Len(p) = n /\ \A i \in 1..n : p[i] = d[i]
  BY <1>2, <1>3
<1>5. IsSeq(f) /\ Len(f) = Len(d) + Len(w) /\ \A i \in 1..Len(d) : f[i] = d[i]
  BY CatSeq
<1> HIDE DEF f
<1>6. n <= Len(f) /\ \A i \in 1..n : p[i] = f[i]
  BY <1>1, <1>2, <1>4, <1>5
<1>7. SubSeq(f, 1, n) = p
  BY <1>2, <1>3, <1>4, <1>5, <1>6, SameCut
<1>8. Begins(p, d)
  BY <1>2, <1>3, <1>4 DEF Begins
<1> QED
  BY <1>3, <1>4, <1>7, <1>8 DEF p, f, u

-----------------------------------------------------------------------------
(* The card's turn keeps the invariant *)

\* Response bytes x, with the rest left in the card: d and the status word w, or a
\* part of d.
Arrives(x, rest, d, w, parts) ==
    /\ IsSeq(x) /\ ParseResponse(x).ok
    /\ \/ ParseResponse(x).data = d /\ Sw(ParseResponse(x)) = w
       \/ \E n \in parts :
             /\ n \in 0..Len(d) /\ ParseResponse(x).data = SubSeq(d, 1, n)
             /\ ParseResponse(x).sw1 = Sw1ResponseDataIncomplete
             /\ rest = SubSeq(d \o w, n + 1, Len(d \o w))

LEMMA DeliversPart ==
    ASSUME NEW d, IsSeq(d), NEW w, IsStatus(w), NEW f, f = d \o w,
           NEW parts, parts \subseteq Nat, Delivers(f, parts)
    PROVE  Arrives(raw', pending', d, w, parts)
<1>1. IsSeq(w) /\ Len(w) = 2 /\ w = <<w[1], w[2]>> /\ Len(d) \in Nat
  BY StatusIs, SeqFacts
<1>2. ParsesTo(f, d, w)
  BY <1>1, Parsed
<1>3. IsSeq(f) /\ Len(f) = Len(d) + 2
  BY <1>2 DEF ParsesTo
<1>4. CASE raw' = f
  <2> DEFINE r == ParseResponse(raw')
  <2>1. r = ParseResponse(f)
    BY <1>4
  <2>2. r.ok /\ r.data = d /\ Sw(r) = w
    BY <1>1, <1>2, <2>1 DEF ParsesTo
  <2> QED
    BY <1>3, <1>4, <2>2 DEF Arrives
<1>5. ASSUME NEW n \in parts, n < Len(f) - 2, NEW x, raw' = SubSeq(f, 1, n) \o <<Sw1ResponseDataIncomplete, x>>,
             pending' = SubSeq(f, n + 1, Len(f))
      PROVE  Arrives(raw', pending', d, w, parts)
  <2> DEFINE a == Sw1ResponseDataIncomplete
             v == <<a, x>>
             p == SubSeq(d, 1, n)
  <2>1. n \in 0..Len(d)
    BY <1>1, <1>3, <1>5
  <2>2. IsSeq(p) /\ SubSeq(f, 1, n) = p
    BY <1>1, <2>1, PartOfData
  <2>3. raw' = p \o v
    BY <1>5, <2>2
  <2>4. IsSeq(v) /\ Len(v) = 2 /\ v[1] = a
    BY PairSeq
  <2> HIDE DEF v, p, a
  <2>5. ParsesTo(p \o v, p, v)
    BY <2>2, <2>4, Parsed
  <2> DEFINE r == ParseResponse(raw')
  <2>6. r = ParseResponse(p \o v)
    BY <2>3
  <2>7. r.ok /\ r.data = p /\ r.sw1 = v[1]
    BY <2>5, <2>6 DEF ParsesTo
  <2>8. IsSeq(raw')
    BY <2>3, <2>5 DEF ParsesTo
  <2> QED
    BY <1>5, <2>1, <2>4, <2>7, <2>8 DEF Arrives, p, a
<1>6. \/ raw' = f
      \/ \E n \in parts :
            /\ n < Len(f) - 2
            /\ raw' = SubSeq(f, 1, n) \o <<Sw1ResponseDataIncomplete, Length(Len(f) - 2 - n)>>
            /\ pending' = SubSeq(f, n + 1, Len(f))
  BY DEF Delivers
<1>7. CASE raw' # f
  <2>1. PICK n \in parts :
            /\ n < Len(f) - 2
            /\ raw' = SubSeq(f, 1, n) \o <<Sw1ResponseDataIncomplete, Length(Len(f) - 2 - n)>>
            /\ pending' = SubSeq(f, n + 1, Len(f))
    BY <1>6, <1>7
  <2> QED
    BY <1>5, <2>1
<1> QED
  BY <1>4, <1>7

LEMMA AnswerComes ==
    ASSUME executed' # <<>>, IsSeq(OwnData'), IsStatus(OwnSw'), Answers(OwnData' \o OwnSw')
    PROVE  Replies'
<1> DEFINE d == OwnData'
           w == OwnSw'
           f == d \o w
           parts == {0}
<1>1. IsSeq(d) /\ IsStatus(w) /\ parts \subseteq Nat /\ Delivers(f, parts) /\ Len(d) \in Nat
  BY SeqFacts DEF Answers
<1>2. Arrives(raw', pending', d, w, parts)
  <2>1. f = d \o w
    OBVIOUS
  <2> HIDE DEF d, w, f, parts
  <2> QED
    BY <1>1, <2>1, DeliversPart
<1>3. /\ IsSeq(raw') /\ resp.ok'
      /\ \/ resp.data' = d /\ Sw(resp)' = w
         \/ \E n \in parts :
               /\ n \in 0..Len(d) /\ resp.data' = SubSeq(d, 1, n)
               /\ resp.sw1' = Sw1ResponseDataIncomplete
               /\ pending' = SubSeq(f, n + 1, Len(f))
  BY <1>2 DEF Arrives, resp
<1>4. CASE resp.data' = d /\ Sw(resp)' = w
  <2>1. SubSeq(d, 1, Len(d)) = d /\ Len(d) \in 0..Len(d)
    BY <1>1, SubSeqWhole
  <2>2. Came(SubSeq(OwnData, 1, Len(OwnData)), resp.data)'
    BY <1>4, <2>1 DEF Came
  <2>3. Answered'
    BY <1>3, <1>4, <2>1, <2>2 DEF Answered
  <2> QED
    BY <1>3, <2>3 DEF Replies
<1>5. CASE /\ 0 \in 0..Len(d) /\ resp.data' = SubSeq(d, 1, 0)
           /\ resp.sw1' = Sw1ResponseDataIncomplete
           /\ pending' = SubSeq(f, 0 + 1, Len(f))
  <2>1. resp.data' = <<>>
    BY <1>5, SubSeqEmpty
  <2>2. pending' = f
    <3>1. IsSeq(w)
      BY <1>1, StatusIs
    <3>2. IsSeq(f)
      <4> HIDE DEF d, w
      <4> QED
        BY <1>1, <3>1, CatSeq
    <3>3. SubSeq(f, 1, Len(f)) = f
      <4> HIDE DEF f
      <4> QED
        BY <3>2, SubSeqWhole
    <3> QED
      BY <1>5, <3>3
  <2>3. Waits'
    BY <1>3, <1>5, <2>1, <2>2 DEF Waits
  <2> QED
    BY <1>3, <2>3 DEF Replies
<1> QED
  BY <1>3, <1>4, <1>5

LEMMA RestComes ==
    ASSUME executed' # <<>>, IsSeq(OwnData'), IsStatus(OwnSw'), FollowsUp(cmd'),
           Delivers(OwnData' \o OwnSw', Pieces)
    PROVE  Replies'
<1> DEFINE d == OwnData'
           w == OwnSw'
           f == d \o w
<1>1. IsSeq(d) /\ IsStatus(w) /\ Pieces \subseteq Nat /\ Delivers(f, Pieces) /\ Len(d) \in Nat
  BY SeqFacts, ExchangeAssumption
<1>2. Arrives(raw', pending', d, w, Pieces)
  <2>1. f = d \o w
    OBVIOUS
  <2> HIDE DEF d, w, f
  <2> QED
    BY <1>1, <2>1, DeliversPart
<1>3. /\ IsSeq(raw') /\ resp.ok'
      /\ \/ resp.data' = d /\ Sw(resp)' = w
         \/ \E n \in Pieces :
               /\ n \in 0..Len(d) /\ resp.data' = SubSeq(d, 1, n)
               /\ resp.sw1' = Sw1ResponseDataIncomplete
               /\ pending' = SubSeq(f, n + 1, Len(f))
  BY <1>2 DEF Arrives, resp
<1>4. CASE resp.data' = d /\ Sw(resp)' = w
  <2>1. SubSeq(d, 1, Len(d)) = d /\ Len(d) \in 0..Len(d)
    BY <1>1, SubSeqWhole
  <2>2. Came(SubSeq(OwnData, 1, Len(OwnData)), resp.data)'
    BY <1>4, <2>1 DEF Came
  <2>3. Answered'
    BY <1>3, <1>4, <2>1, <2>2 DEF Answered
  <2> QED
    BY <1>3, <2>3 DEF Replies
<1>5. ASSUME NEW n \in 0..Len(d), resp.data' = SubSeq(d, 1, n), resp.sw1' = Sw1ResponseDataIncomplete
      PROVE  Replies'
  <2>1. Came(SubSeq(OwnData, 1, n), resp.data)'
    BY <1>5 DEF Came
  <2>2. Answered'
    BY <1>3, <1>5, <2>1 DEF Answered
  <2> QED
    BY <1>3, <2>2 DEF Replies
<1> QED
  BY <1>3, <1>4, <1>5

LEMMA RejectionComes ==
    ASSUME NEW w \in Rejections, raw' = w
    PROVE  Replies'
<1>1. w = <<w[1], w[2]>> /\ IsSeq(w) /\ Len(w) = 2
  <2>1. \E a, b : w = <<a, b>>
    BY Words DEF Rejections
  <2> QED
    BY <2>1, PairSeq
<1> DEFINE r == ParseResponse(w)
<1>2. r.ok /\ IsSeq(r.data) /\ Len(r.data) = 0 /\ r.sw1 = w[1] /\ r.sw2 = w[2]
  <2>1. r = ParseResponse(w) /\ Len(w) - 2 = 0 /\ Len(w) - 1 = 1 /\ Len(w) >= 2
    BY <1>1
  <2> HIDE DEF r
  <2>2. r.ok /\ IsSeq(r.data) /\ Len(r.data) = Len(w) - 2 /\ r.sw1 = w[Len(w) - 1] /\ r.sw2 = w[Len(w)]
    BY <1>1, <2>1, ParsedOf
  <2> QED
    BY <1>1, <2>1, <2>2
<1>3. r.data = <<>>
  <2> HIDE DEF r
  <2> QED
    BY <1>2, Empty
<1>4. Sw(r) = w
  BY <1>1, <1>2 DEF Sw
<1>5. resp' = r
  BY DEF resp
<1> HIDE DEF r
<1>6. Rejected'
  BY <1>2, <1>3, <1>4, <1>5 DEF Rejected
<1> QED
  BY <1>1, <1>6 DEF Replies

LEMMA CardRejectsKeeps ==
    ASSUME ExchangeInv, pc = "sent", NEW w \in Rejections, NEW drops \in BOOLEAN, CardRejects(w, drops)
    PROVE  ExchangeInv'
<1> USE DEF CardRejects, host, wallet, hist
<1>1. /\ pc' = "answered" /\ session' = (session /\ ~drops) /\ raw' = w
      /\ ver' = ver /\ open' = open /\ nonce' = nonce /\ iv' = iv /\ call' = call /\ cmd' = cmd
      /\ cardNonce' = cardNonce /\ cardIv' = cardIv
      /\ pinLeft' = pinLeft /\ pukLeft' = pukLeft /\ stored' = stored
      /\ executed' = executed /\ answer' = answer
  OBVIOUS
<1>2. Types'
  BY <1>1 DEF ExchangeInv, Types
<1>3. Together' /\ Frames' /\ TellsCardsAnswer'
  BY <1>1 DEF Together, Frames, TellsCardsAnswer
<1>4. Replies'
  BY <1>1, RejectionComes
<1>5. Executed'
  BY <1>1 DEF ExchangeInv, Executed, Did
<1> QED
  BY <1>2, <1>3, <1>4, <1>5 DEF ExchangeInv

\* A frame that is none of GET RESPONSE's is the call's own, and the first one.
LEMMA FrameIsCalls ==
    ASSUME ExchangeInv, pc = "sent"
    PROVE  /\ executed = <<>> => ~IsGetResponse /\ cmd.cla = ClaGp
           /\ executed # <<>> => IsGetResponse /\ FollowsUp(cmd)
<1>1. ASSUME executed # <<>> PROVE IsGetResponse /\ FollowsUp(cmd)
  <2>1. raw = Serialize(cmd) /\ cmd = NewCommandGetResponse(cmd.le[1])
    BY <1>1 DEF ExchangeInv, Frames
  <2>2. raw = Serialize(NewCommandGetResponse(cmd.le[1]))
    BY <2>1
  <2>3. NewCommandGetResponse(cmd.le[1]).cla = ClaISO7816 /\ NewCommandGetResponse(cmd.le[1]).ins = InsGetResponse
    BY DEF NewCommandGetResponse, SetLe, NewCommand
  <2>4. FollowsUp(cmd)
    BY <2>1, <2>3 DEF FollowsUp
  <2> QED
    BY <2>2, <2>4, TakenGetResponse
<1>2. ASSUME executed = <<>> PROVE ~IsGetResponse /\ cmd.cla = ClaGp
  <2>1. /\ raw = Serialize(cmd)
        /\ ~open => cmd = CommandOf(call)
        /\ open /\ ver = "V1" => FrameV1
        /\ open /\ ver = "V2" => FrameV2
        /\ call \in Requests /\ nonce \in Nat /\ ver \in {"V1", "V2", "clear"} /\ (open => ver # "clear")
    BY <1>2 DEF ExchangeInv, Frames, Types
  <2>2. IsSeq(cmd.data) /\ cmd.le = <<>> /\ cmd.cla = ClaGp
    <3>1. CASE ~open
      BY <2>1, <3>1, CommandIs
    <3>2. CASE open /\ ver = "V1"
      BY <2>1, <3>2 DEF FrameV1
    <3>3. CASE open /\ ver = "V2"
      <4> DEFINE p == Inner(CommandOf(call))
                 c == EncryptAndAuthenticate("h2c", nonce, p)
      <4>1. cmd = NewCommand(ClaGp, InsSecuredAPDU, {}, {}, c)
        BY <2>1, <3>3 DEF FrameV2
      <4>2. Octets(p)
        BY <2>1, InnerIs
      <4> HIDE DEF p
      <4>3. FreeSeq("h2c", Counters, p)
        BY <4>2, OctetsFree DEF Octets
      <4>4. IsSealed(c, "h2c", nonce, p)
        BY <2>1, <4>3, SealedBytes
      <4>5. IsSeq(c)
        BY <4>4 DEF IsSealed
      <4> HIDE DEF c
      <4> QED
        BY <4>1, <4>5 DEF NewCommand
    <3> QED
      BY <2>1, <3>1, <3>2, <3>3
  <2>3. FrameHead[1] = cmd.cla
    BY <2>1, <2>2, TakenFrame
  <2>4. FrameHead[1] # ClaISO7816
    BY <2>2, <2>3, Instructions
  <2> QED
    BY <2>2, <2>4 DEF IsGetResponse
<1> QED
  BY <1>1, <1>2

LEMMA CardContinuesKeeps ==
    ASSUME ExchangeInv, CardContinues
    PROVE  ExchangeInv'
<1>1. pc = "sent" /\ IsGetResponse
  BY DEF CardContinues, CardTurn
<1>2. executed # <<>> /\ FollowsUp(cmd)
  BY <1>1, FrameIsCalls
<1>3. pending \in {<<>>, OwnData \o OwnSw}
  BY <1>1, <1>2 DEF ExchangeInv, Frames
<1>4. CASE pending = <<>>
  <2>1. CardRejects(SwConditionsOfUseNotSatisfied, FALSE)
    BY <1>4 DEF CardContinues
  <2>2. SwConditionsOfUseNotSatisfied \in Rejections
    BY DEF Rejections
  <2> QED
    BY <1>1, <2>1, <2>2, CardRejectsKeeps
<1>5. CASE pending # <<>>
  <2>1. Delivers(pending, Pieces) /\ UNCHANGED <<session, cardNonce, cardIv, wallet, hist>>
    BY <1>5 DEF CardContinues
  <2>2. /\ pc' = "answered" /\ ver' = ver /\ open' = open /\ nonce' = nonce /\ iv' = iv
        /\ call' = call /\ cmd' = cmd /\ session' = session /\ cardNonce' = cardNonce /\ cardIv' = cardIv
        /\ pinLeft' = pinLeft /\ pukLeft' = pukLeft /\ stored' = stored
        /\ executed' = executed /\ answer' = answer
    BY <2>1 DEF Delivers, host, wallet, hist
  <2>3. OwnData' = OwnData /\ OwnSw' = OwnSw
    BY <2>2 DEF OwnData, OwnSw
  <2>4. IsSeq(OwnData') /\ IsStatus(OwnSw')
    BY <1>1, <1>2, <2>3, OwnAnswer DEF ExchangeInv
  <2>5. Delivers(OwnData' \o OwnSw', Pieces) /\ executed' # <<>> /\ FollowsUp(cmd')
    BY <1>2, <1>3, <1>5, <2>1, <2>2, <2>3
  <2>6. Replies'
    BY <2>4, <2>5, RestComes
  <2>7. Types'
    BY <1>1, <2>2 DEF ExchangeInv, Types
  <2>8. Together' /\ Frames' /\ TellsCardsAnswer'
    BY <2>2 DEF Together, Frames, TellsCardsAnswer
  <2>9. Executed'
    BY <1>1, <2>2 DEF ExchangeInv, Executed, Did
  <2> QED
    BY <2>6, <2>7, <2>8, <2>9 DEF ExchangeInv
<1> QED
  BY <1>4, <1>5

\* The card executes the call's command and answers to it, sealed as its data is.
LEMMA ExecutesKeeps ==
    ASSUME ExchangeInv, pc = "sent", executed = <<>>,
           NEW head, NEW data, Executes(head, data), head[2] = InsOf[call.name], data = call.data,
           Answers(OwnData' \o OwnSw'), session' = session,
           cardNonce' \in Nat, IsBlock(cardIv'),
           ver = "V1" => cardIv' = MacOf(SealedText(answer', iv)),
           ver = "V2" => open /\ cardNonce' = nonce + 1
    PROVE  ExchangeInv'
<1>1. /\ pc' = "answered" /\ ver' = ver /\ open' = open /\ nonce' = nonce /\ iv' = iv
      /\ call' = call /\ cmd' = cmd
  BY DEF Answers, Delivers, host
<1>2. Types
  BY DEF ExchangeInv
<1>3. /\ Did' /\ executed' # <<>>
      /\ Octets(stored') /\ pinLeft' \in 0..MaxTries /\ pukLeft' \in 0..MaxTries
  BY <1>1, <1>2, ExecutesCall
<1>4. Types'
  BY <1>1, <1>2, <1>3 DEF Types
<1>5. Executed'
  BY <1>1, <1>3 DEF Executed
<1>6. pc' # "idle" /\ executed' # <<>>
  BY <1>1, <1>3
<1>7. IsSeq(OwnData') /\ IsStatus(OwnSw')
  <2>1. pinLeft' \in 0..15 /\ pukLeft' \in 0..15
    BY <1>3, ExchangeAssumption
  <2>2. Octets(answer'.data) /\ IsStatus(answer'.sw)
    BY <1>3, <2>1 DEF Did, IsStatus
  <2>3. ver' \in {"V1", "V2", "clear"} /\ nonce' \in Nat /\ (ver' = "V1" => IsBlock(iv'))
    BY <1>4, <1>6 DEF Types
  <2>4. IsSeq(SealedData(answer', ver', iv', nonce')) /\ IsStatus(SealedSw(answer', ver'))
    BY <2>2, <2>3, SealedIs
  <2> QED
    BY <2>4 DEF OwnData, OwnSw
<1>8. Replies'
  BY <1>6, <1>7, AnswerComes
<1>9. Together' /\ Frames' /\ TellsCardsAnswer'
  BY <1>1 DEF Together, Frames, TellsCardsAnswer
<1> QED
  BY <1>4, <1>5, <1>8, <1>9 DEF ExchangeInv

LEMMA CardTakesClearKeeps ==
    ASSUME ExchangeInv, CardTakesClear
    PROVE  ExchangeInv'
<1>1. pc = "sent" /\ WellFormed /\ ~IsGetResponse
  BY DEF CardTakesClear, CardTurn
<1>2. executed = <<>>
  BY <1>1, FrameIsCalls
<1>3. CASE ver # "clear"
  <2>1. CardRejects(SwConditionsOfUseNotSatisfied, FALSE)
    BY <1>3 DEF CardTakesClear
  <2>2. SwConditionsOfUseNotSatisfied \in Rejections
    BY DEF Rejections
  <2> QED
    BY <1>1, <2>1, <2>2, CardRejectsKeeps
<1>4. CASE ver = "clear"
  <2>1. /\ Executes(FrameHead, FrameData)
        /\ Answers(answer'.data \o answer'.sw)
        /\ session' = session /\ cardNonce' = cardNonce /\ cardIv' = cardIv
    BY <1>4 DEF CardTakesClear
  <2>2. /\ ~open /\ call \in Requests /\ cardNonce \in Nat /\ IsBlock(cardIv)
        /\ raw = Serialize(cmd) /\ cmd = CommandOf(call)
    BY <1>1, <1>2, <1>4 DEF ExchangeInv, Types, Frames
  <2>3. /\ cmd.ins = InsOf[call.name] /\ cmd.data = call.data /\ cmd.le = <<>> /\ IsSeq(cmd.data)
    BY <2>2, CommandIs
  <2>4. FrameHead[2] = InsOf[call.name] /\ FrameData = call.data
    BY <1>1, <2>2, <2>3, TakenFrame
  <2>5. OwnData' = answer'.data /\ OwnSw' = answer'.sw
    <3>1. ver' = ver
      BY <2>1 DEF Answers, Delivers, host
    <3> QED
      BY <1>4, <3>1 DEF OwnData, OwnSw, SealedData, SealedSw
  <2>6. Answers(OwnData' \o OwnSw')
    BY <2>1, <2>5
  <2> DEFINE head == FrameHead
             data == FrameData
  <2>7. Executes(head, data) /\ head[2] = InsOf[call.name] /\ data = call.data
    BY <2>1, <2>4
  <2> HIDE DEF head, data
  <2> QED
    BY <1>1, <1>2, <1>4, <2>1, <2>2, <2>6, <2>7, ExecutesKeeps
<1> QED
  BY <1>3, <1>4

LEMMA CardTakesV1Keeps ==
    ASSUME ExchangeInv, CardTakesV1
    PROVE  ExchangeInv'
<1> DEFINE mac == SubSeq(FrameData, 1, BlockLen)
           rest == SubSeq(FrameData, BlockLen + 1, Len(FrameData))
           plain == DecryptData(rest, "enc", cardIv)
           sealed == EncryptData(answer'.data \o answer'.sw, "enc", mac)
           taken == plain.ok /\ mac = CalculateMAC(commandMeta(FrameHead, Len(FrameData)), rest, "mac")
<1>1. pc = "sent" /\ WellFormed /\ ~IsGetResponse /\ session /\ ver = "V1"
  BY DEF CardTakesV1, CardTurn
<1>2. executed = <<>>
  BY <1>1, FrameIsCalls
<1>3. IF taken
      THEN /\ Executes(FrameHead, plain.data)
           /\ cardIv' = CalculateMAC(answerMeta(BlockLen + Len(sealed)), sealed, "mac")
           /\ Answers(cardIv' \o sealed \o SwOK)
           /\ UNCHANGED <<session, cardNonce>>
      ELSE CardRejects(SwSecurityConditionNotSatisfied, TRUE)
  BY DEF CardTakesV1
<1>4. CASE ~taken
  <2>1. CardRejects(SwSecurityConditionNotSatisfied, TRUE)
    BY <1>3, <1>4
  <2>2. SwSecurityConditionNotSatisfied \in Rejections
    BY DEF Rejections
  <2> HIDE DEF taken
  <2> QED
    BY <1>1, <2>1, <2>2, CardRejectsKeeps
<1>5. CASE taken
  <2>1. /\ Executes(FrameHead, plain.data)
        /\ cardIv' = CalculateMAC(answerMeta(BlockLen + Len(sealed)), sealed, "mac")
        /\ Answers(cardIv' \o sealed \o SwOK)
        /\ session' = session /\ cardNonce' = cardNonce
    BY <1>3, <1>5
  <2> DEFINE encrypted == EncryptData(call.data, "enc", cardIv)
  <2>2. /\ open /\ call \in Requests /\ cardNonce \in Nat /\ IsBlock(cardIv) /\ IsBlock(iv)
        /\ raw = Serialize(cmd) /\ FrameV1
    BY <1>1, <1>2 DEF ExchangeInv, Types, Frames
  <2>3. /\ cmd.cla = ClaGp /\ cmd.ins = InsOf[call.name] /\ cmd.le = <<>>
        /\ IsSeq(cmd.data) /\ cmd.data = iv \o encrypted
    BY <1>1, <2>2 DEF FrameV1
  <2>4. FrameHead[2] = InsOf[call.name] /\ FrameData = iv \o encrypted
    BY <1>1, <2>2, <2>3, TakenFrame
  <2>5. IsSeq(call.data) /\ Octets(call.data)
    BY <2>2, CommandIs, RequestOf
  <2>6. IsSeq(encrypted)
    BY <2>2, <2>5, EncryptedMade
  <2>7. mac = iv /\ rest = encrypted
    <3>1. IsSeq(iv) /\ Len(iv) = BlockLen
      BY <2>2, BlockIsSeq
    <3> DEFINE f == iv \o encrypted
    <3>2. /\ SubSeq(f, 1, Len(iv)) = iv
          /\ SubSeq(f, Len(iv) + 1, Len(iv) + Len(encrypted)) = encrypted
          /\ Len(f) = Len(iv) + Len(encrypted)
      <4> HIDE DEF encrypted
      <4> QED
        BY <2>6, <3>1, PartsOfCat, CatSeq
    <3>3. FrameData = f
      BY <2>4
    <3> HIDE DEF f, encrypted
    <3> QED
      BY <3>1, <3>2, <3>3
  <2>8. plain.data = call.data
    <3>1. plain = Plain(call.data)
      BY <2>2, <2>5, <2>7, DecryptsEncrypted
    <3> QED
      BY <3>1 DEF Plain
  <2> DEFINE head == FrameHead
             data == plain.data
  <2>9. Executes(head, data) /\ head[2] = InsOf[call.name] /\ data = call.data
    BY <2>1, <2>4, <2>8
  <2>10. sealed = SealedText(answer', iv)
    BY <2>7 DEF SealedText, AnswerText
  <2>11. cardIv' = MacOf(SealedText(answer', iv))
    BY <2>1, <2>10 DEF MacOf
  <2>12. ver' = ver /\ iv' = iv /\ call' = call
    BY <2>1 DEF Answers, Delivers, host
  <2>13. OwnData' = cardIv' \o sealed /\ OwnSw' = SwOK
    BY <1>1, <2>10, <2>11, <2>12 DEF OwnData, OwnSw, SealedData, SealedSw
  <2> HIDE DEF head, data, sealed, taken, plain, mac, rest
  <2>14. Answers(OwnData' \o OwnSw')
    BY <2>1, <2>13
  <2>15. IsBlock(cardIv')
    <3>1. Types
      BY DEF ExchangeInv
    <3>2. Did' /\ pinLeft' \in 0..MaxTries /\ pukLeft' \in 0..MaxTries
      BY <1>1, <1>2, <2>9, <2>12, <3>1, ExecutesCall
    <3>3. pinLeft' \in 0..15 /\ pukLeft' \in 0..15
      BY <3>2, ExchangeAssumption
    <3>4. Octets(answer'.data) /\ IsStatus(answer'.sw)
      BY <3>2, <3>3 DEF Did, IsStatus
    <3>5. IsSeq(AnswerText(answer'))
      BY <3>4, TextIs
    <3> DEFINE p == AnswerText(answer')
               e == EncryptData(p, "enc", iv)
    <3>6. e = SealedText(answer', iv)
      BY DEF SealedText
    <3>7. IsSeq(p) /\ e = EncryptData(p, "enc", iv)
      BY <3>5
    <3> HIDE DEF p, e
    <3>8. IsBlock(MacOf(e))
      BY <2>2, <3>7, MacOfIs
    <3> QED
      BY <2>11, <3>6, <3>8
  <2> QED
    BY <1>1, <1>2, <2>1, <2>2, <2>9, <2>11, <2>14, <2>15, ExecutesKeeps
<1> QED
  BY <1>4, <1>5

LEMMA CardTakesV2Keeps ==
    ASSUME ExchangeInv, CardTakesV2
    PROVE  ExchangeInv'
<1> DEFINE plain == DecryptAndAuthenticate("h2c", cardNonce, FrameData)
           inner == plain.data
           taken == plain.ok /\ inner[5] = Length(Len(inner) - 5)
<1>1. /\ pc = "sent" /\ WellFormed /\ ~IsGetResponse /\ session /\ ver = "V2"
      /\ FrameHead[2] = InsSecuredAPDU
  BY DEF CardTakesV2, CardTurn
<1>2. executed = <<>>
  BY <1>1, FrameIsCalls
<1>3. IF taken
      THEN /\ Executes(SubSeq(inner, 1, 4), SubSeq(inner, 6, Len(inner)))
           /\ Answers(EncryptAndAuthenticate("c2h", cardNonce, answer'.data \o answer'.sw) \o SwOK)
           /\ cardNonce' = cardNonce + 1
           /\ UNCHANGED <<session, cardIv>>
      ELSE CardRejects(SwSecurityConditionNotSatisfied, TRUE)
  BY DEF CardTakesV2
<1>4. CASE ~taken
  <2>1. CardRejects(SwSecurityConditionNotSatisfied, TRUE)
    BY <1>3, <1>4
  <2>2. SwSecurityConditionNotSatisfied \in Rejections
    BY DEF Rejections
  <2> HIDE DEF taken
  <2> QED
    BY <1>1, <2>1, <2>2, CardRejectsKeeps
<1>5. CASE taken
  <2>1. /\ Executes(SubSeq(inner, 1, 4), SubSeq(inner, 6, Len(inner)))
        /\ Answers(EncryptAndAuthenticate("c2h", cardNonce, answer'.data \o answer'.sw) \o SwOK)
        /\ cardNonce' = cardNonce + 1
        /\ session' = session /\ cardIv' = cardIv
    BY <1>3, <1>5
  <2>2. /\ call \in Requests /\ cardNonce \in Nat /\ nonce \in Nat /\ IsBlock(cardIv)
        /\ raw = Serialize(cmd) /\ (~open => cmd = CommandOf(call)) /\ (open => FrameV2)
    BY <1>1, <1>2 DEF ExchangeInv, Types, Frames
  <2>3. call.name \in Names
    BY <2>2, RequestOf
  <2>4. open
    <3>1. ASSUME ~open PROVE FALSE
      <4>1. /\ cmd.ins = InsOf[call.name] /\ cmd.le = <<>> /\ IsSeq(cmd.data)
        BY <2>2, <3>1, CommandIs
      <4>2. FrameHead[2] = InsOf[call.name]
        BY <2>2, <4>1, TakenFrame
      <4> QED
        BY <1>1, <2>3, <4>2, Instructions
    <3> QED
      BY <3>1
  <2> DEFINE p == Inner(CommandOf(call))
             c == EncryptAndAuthenticate("h2c", cardNonce, p)
  <2>5. cmd = NewCommand(ClaGp, InsSecuredAPDU, {}, {}, c) /\ nonce = cardNonce
    BY <1>1, <2>2, <2>4 DEF FrameV2
  <2>6. /\ Octets(p) /\ p[5] = Length(Len(p) - 5)
        /\ SubSeq(p, 1, 4) = Head4(CommandOf(call)) /\ SubSeq(p, 6, Len(p)) = call.data
    BY <2>2, InnerIs
  <2>7. Head4(CommandOf(call))[2] = InsOf[call.name]
    BY <2>2, CommandIs
  <2> HIDE DEF p
  <2>8. FreeSeq("h2c", Counters, p)
    BY <2>6, OctetsFree DEF Octets
  <2>9. IsSeq(c)
    <3>1. IsSealed(c, "h2c", cardNonce, p)
      BY <2>2, <2>8, SealedBytes
    <3> QED
      BY <3>1 DEF IsSealed
  <2>10. DecryptAndAuthenticate("h2c", cardNonce, c) = Plain(p)
    BY <2>2, <2>8, OpensSealed
  <2> HIDE DEF c
  <2>11. FrameData = c
    <3>1. cmd.data = c /\ cmd.le = <<>>
      BY <2>5 DEF NewCommand
    <3> QED
      BY <1>1, <2>2, <2>9, <3>1, TakenFrame
  <2>12. inner = p
    BY <2>10, <2>11 DEF Plain
  <2> HIDE DEF taken, inner
  <2> DEFINE head == SubSeq(inner, 1, 4)
             data == SubSeq(inner, 6, Len(inner))
  <2>13. Executes(head, data) /\ head[2] = InsOf[call.name] /\ data = call.data
    BY <2>1, <2>6, <2>7, <2>12
  <2> HIDE DEF head, data
  <2>14. ver' = ver /\ nonce' = nonce
    BY <2>1 DEF Answers, Delivers, host
  <2>15. OwnData' = EncryptAndAuthenticate("c2h", cardNonce, answer'.data \o answer'.sw) /\ OwnSw' = SwOK
    BY <1>1, <2>5, <2>14 DEF OwnData, OwnSw, SealedData, SealedSw, AnswerText
  <2>16. Answers(OwnData' \o OwnSw')
    BY <2>1, <2>15
  <2>17. cardNonce' \in Nat /\ cardNonce' = nonce + 1 /\ IsBlock(cardIv')
    BY <2>1, <2>2, <2>5
  <2> QED
    BY <1>1, <1>2, <2>1, <2>4, <2>13, <2>16, <2>17, ExecutesKeeps
<1> QED
  BY <1>4, <1>5

LEMMA CardRejectsFrameKeeps ==
    ASSUME ExchangeInv, CardRejectsFrame
    PROVE  ExchangeInv'
<1>1. pc = "sent" /\ CardRejects(SwWrongLength, FALSE)
  BY DEF CardRejectsFrame
<1>2. SwWrongLength \in Rejections
  BY DEF Rejections
<1> QED
  BY <1>1, <1>2, CardRejectsKeeps

LEMMA CardResetKeeps ==
    ASSUME ExchangeInv, CardReset
    PROVE  ExchangeInv'
<1>1. /\ session' = FALSE /\ pending' = <<>>
      /\ ver' = ver /\ open' = open /\ nonce' = nonce /\ iv' = iv
      /\ pc' = pc /\ call' = call /\ cmd' = cmd /\ raw' = raw /\ intact' = intact /\ result' = result
      /\ cardNonce' = cardNonce /\ cardIv' = cardIv
      /\ pinLeft' = pinLeft /\ pukLeft' = pukLeft /\ stored' = stored
      /\ executed' = executed /\ answer' = answer
  BY DEF CardReset, host, hist
<1>2. Types'
  BY <1>1 DEF ExchangeInv, Types
<1>3. Together'
  BY <1>1 DEF Together
<1>4. Frames'
  <2>1. FrameV1 => FrameV1'
    BY <1>1 DEF FrameV1
  <2>2. FrameV2 => FrameV2'
    BY <1>1 DEF FrameV2
  <2> QED
    BY <1>1, <2>1, <2>2 DEF ExchangeInv, Frames
<1>5. Replies'
  <2>1. resp' = resp /\ OwnData' = OwnData /\ OwnSw' = OwnSw
    BY <1>1 DEF resp, OwnData, OwnSw
  <2>2. Rejected => Rejected'
    BY <2>1 DEF Rejected
  <2>3. Waits => Waits'
    BY <1>1, <2>1 DEF Waits
  <2>4. Answered => Answered'
    <3>1. \A e, d : Came(e, d) => Came(e, d)'
      BY <1>1 DEF Came
    <3> QED
      BY <1>1, <2>1, <3>1 DEF Answered, Came
  <2> QED
    BY <1>1, <2>1, <2>2, <2>3, <2>4 DEF ExchangeInv, Replies
<1>6. Executed'
  BY <1>1 DEF ExchangeInv, Executed, Did
<1>7. TellsCardsAnswer'
  BY <1>1 DEF ExchangeInv, TellsCardsAnswer
<1> QED
  BY <1>2, <1>3, <1>4, <1>5, <1>6, <1>7 DEF ExchangeInv

-----------------------------------------------------------------------------
(* The reader keeps the invariant *)

\* A call that returns leaves the card and the history alone.
LEMMA ReturnsKeeps ==
    ASSUME ExchangeInv, NEW r, Returns(r), ver' = ver, open' \in BOOLEAN, open' => open,
           nonce' \in Nat, open' => IsBlock(iv'), Together', TellsCardsAnswer'
    PROVE  ExchangeInv'
<1>1. /\ pc' = "idle" /\ call' = call /\ session' = session
      /\ cardNonce' = cardNonce /\ cardIv' = cardIv
      /\ pinLeft' = pinLeft /\ pukLeft' = pukLeft /\ stored' = stored
      /\ executed' = executed /\ answer' = answer
  BY DEF Returns, card, wallet, hist
<1>2. Types'
  BY <1>1 DEF ExchangeInv, Types
<1>3. Frames' /\ Replies'
  BY <1>1 DEF Frames, Replies
<1>4. Executed'
  BY <1>1 DEF ExchangeInv, Executed, Did
<1> QED
  BY <1>2, <1>3, <1>4 DEF ExchangeInv

LEMMA ClosesKeeps ==
    ASSUME ExchangeInv, NEW r, Closes(r), r.kind \in {"error", "refused"}
    PROVE  ExchangeInv'
<1>1. /\ open' = FALSE /\ ver' = ver /\ nonce' = nonce /\ iv' = iv /\ Returns(r) /\ result' = r
  BY DEF Closes, Returns
<1>2. Together' /\ TellsCardsAnswer'
  BY <1>1 DEF Together, TellsCardsAnswer
<1>3. nonce' \in Nat
  BY <1>1 DEF ExchangeInv, Types
<1> QED
  BY <1>1, <1>2, <1>3, ReturnsKeeps

LEMMA ReaderFailsKeeps ==
    ASSUME ExchangeInv, ReaderFails
    PROVE  ExchangeInv'
<1>1. Closes(Error)
  BY DEF ReaderFails, Closes
<1>2. Error.kind \in {"error", "refused"}
  BY DEF Error, Result
<1> QED
  BY <1>1, <1>2, ClosesKeeps

LEMMA AnswerCutShortKeeps ==
    ASSUME ExchangeInv, AnswerCutShort
    PROVE  ExchangeInv'
<1>1. /\ pc = "answered" /\ intact /\ intact' = FALSE /\ raw' = SubSeq(raw, 1, 1)
      /\ ver' = ver /\ open' = open /\ nonce' = nonce /\ iv' = iv
      /\ pc' = pc /\ call' = call /\ cmd' = cmd /\ result' = result /\ session' = session
      /\ cardNonce' = cardNonce /\ cardIv' = cardIv
      /\ pinLeft' = pinLeft /\ pukLeft' = pukLeft /\ stored' = stored
      /\ executed' = executed /\ answer' = answer
  BY DEF AnswerCutShort, host, card, wallet, hist
<1>2. Types'
  BY <1>1 DEF ExchangeInv, Types
<1>3. Together' /\ Frames' /\ TellsCardsAnswer'
  BY <1>1 DEF Together, Frames, TellsCardsAnswer
<1>4. Replies'
  <2>1. IsSeq(raw) /\ resp.ok
    BY <1>1 DEF ExchangeInv, Replies, Rejected, Waits, Answered
  <2>2. Len(raw) >= 2 /\ Len(raw) \in Nat
    BY <2>1, ParsedOf, SeqFacts DEF resp
  <2> DEFINE u == 1
             f == SubSeq(raw, u, u)
  <2>3. u \in Nat \ {0} /\ u \in Nat /\ u <= Len(raw) /\ u <= u + 1 /\ u - u + 1 = 1
    BY <2>2
  <2> HIDE DEF u
  <2>4. IsSeq(f) /\ Len(f) = u - u + 1
    BY <2>1, <2>3, PartSeq
  <2> HIDE DEF f
  <2>5. IsSeq(f) /\ Len(f) = 1 /\ ~(Len(f) >= 2)
    BY <2>3, <2>4
  <2>6. ~ParseResponse(f).ok
    BY <2>5, ParsedOf
  <2>7. raw' = f
    BY <1>1 DEF f, u
  <2>8. ~resp.ok' /\ ~intact' /\ IsSeq(raw')
    BY <1>1, <2>5, <2>6, <2>7 DEF resp
  <2> QED
    BY <2>8 DEF Replies
<1>5. Executed'
  BY <1>1 DEF ExchangeInv, Executed, Did
<1> QED
  BY <1>2, <1>3, <1>4, <1>5 DEF ExchangeInv

LEMMA AnswerDamagedKeeps ==
    ASSUME ExchangeInv, AnswerDamaged
    PROVE  ExchangeInv'
<1>1. /\ pc = "answered" /\ open /\ intact /\ intact' = FALSE
      /\ ver' = ver /\ open' = open /\ nonce' = nonce /\ iv' = iv
      /\ pc' = pc /\ call' = call /\ cmd' = cmd /\ result' = result /\ session' = session
      /\ cardNonce' = cardNonce /\ cardIv' = cardIv /\ pending' = pending
      /\ pinLeft' = pinLeft /\ pukLeft' = pukLeft /\ stored' = stored
      /\ executed' = executed /\ answer' = answer
  BY DEF AnswerDamaged, host, card, wallet, hist
<1>2. PICK i \in 1..(Len(raw) - 2) : raw' = Flipped(raw, i) \/ raw' = Without(raw, i)
  BY DEF AnswerDamaged, Flipped, Without
<1>3. Types'
  BY <1>1 DEF ExchangeInv, Types
<1>4. Together' /\ Frames' /\ TellsCardsAnswer'
  BY <1>1 DEF Together, Frames, TellsCardsAnswer
<1>5. Executed'
  BY <1>1 DEF ExchangeInv, Executed, Did
<1>6. IsSeq(raw) /\ resp.ok /\ (Rejected \/ Waits \/ Answered)
  BY <1>1 DEF ExchangeInv, Replies, Rejected, Waits, Answered
<1>7. Len(resp.data) = Len(raw) - 2 /\ Len(raw) \in Nat
  BY <1>6, ParsedOf, SeqFacts DEF resp
<1>8. resp.data # <<>>
  <2>1. Len(resp.data) # 0
    <3> DEFINE d == Len(resp.data)
    <3>1. d = Len(raw) - 2
      BY <1>7
    <3> HIDE DEF d
    <3>2. d # 0
      BY <1>2, <1>7, <3>1
    <3> QED
      BY <3>2 DEF d
  <2> QED
    BY <2>1, NoBytes
<1>9. Answered
  BY <1>6, <1>8 DEF Rejected, Waits
<1>10. /\ IsSeq(raw') /\ resp.ok' /\ Damaged(resp.data, resp.data')
       /\ Sw(resp)' = Sw(resp) /\ resp.sw1' = resp.sw1
  <2> DEFINE f == raw
             x == raw'
             r == ParseResponse(f)
             y == ParseResponse(x)
  <2>1. /\ IsSeq(f) /\ r = ParseResponse(f) /\ r.ok /\ y = ParseResponse(x)
        /\ i \in 1..(Len(f) - 2) /\ (x = Flipped(f, i) \/ x = Without(f, i))
    BY <1>2, <1>6 DEF resp
  <2>2. resp = r /\ resp' = y
    BY DEF resp
  <2> HIDE DEF f, x, r, y
  <2>3. IsSeq(x) /\ y.ok /\ Damaged(r.data, y.data) /\ Sw(y) = Sw(r) /\ y.sw1 = r.sw1
    BY <2>1, DamagedRaw
  <2> QED
    BY <2>2, <2>3 DEF x
<1>11. PICK n \in 0..Len(OwnData) :
          /\ Came(SubSeq(OwnData, 1, n), resp.data)
          /\ \/ n = Len(OwnData) /\ Sw(resp) = OwnSw
             \/ resp.sw1 = Sw1ResponseDataIncomplete /\ FollowsUp(cmd)
  BY <1>9 DEF Answered
<1>12. resp.data = SubSeq(OwnData, 1, n)
  BY <1>1, <1>11 DEF Came
<1>13. OwnData' = OwnData /\ OwnSw' = OwnSw
  BY <1>1 DEF OwnData, OwnSw
<1>14. Came(SubSeq(OwnData, 1, n), resp.data)'
  BY <1>1, <1>10, <1>12, <1>13 DEF Came
<1>15. executed' # <<>> /\ resp.ok'
  BY <1>1, <1>9, <1>10 DEF Answered
<1>16. Answered'
  BY <1>1, <1>10, <1>11, <1>13, <1>14, <1>15 DEF Answered
<1>17. Replies'
  BY <1>10, <1>16 DEF Replies
<1> QED
  BY <1>3, <1>4, <1>5, <1>17 DEF ExchangeInv

-----------------------------------------------------------------------------
(* The library's turn keeps the invariant *)

LEMMA Refused ==
    ASSUME NEW r, r.ok, NoTries(Sw(r))
    PROVE  CheckOK(r).kind = "refused"
  BY DEF CheckOK, NoTries, Result

LEMMA RefusedWaiting ==
    ASSUME NEW r, r.ok, r.sw1 = Sw1ResponseDataIncomplete
    PROVE  CheckOK(r).kind = "refused"
<1>1. NoTries(Sw(r))
  BY Distinct DEF Sw
<1> QED
  BY <1>1, Refused

LEMMA RefusedRejected ==
    ASSUME Rejected
    PROVE  CheckOK(resp).kind = "refused"
<1>1. resp.ok /\ NoTries(Sw(resp))
  BY Distinct DEF Rejected
<1> QED
  BY <1>1, Refused

\* What is read in the card's own answer is what the card said.
LEMMA Tells ==
    ASSUME ExchangeInv, executed # <<>>, pc # "idle",
           NEW r, r.ok, r.data = answer.data, Sw(r) = answer.sw, Returns(CheckOK(r))
    PROVE  TellsCardsAnswer'
<1>1. Did /\ IsStatus(answer.sw)
  BY OwnAnswer DEF ExchangeInv
<1>2. /\ result' = CheckOK(r) /\ call' = call /\ executed' = executed /\ answer' = answer
      /\ pinLeft' = pinLeft /\ pukLeft' = pukLeft
  BY DEF Returns, card, wallet, hist
<1>3. pinLeft \in 0..15 /\ pukLeft \in 0..15
  BY ExchangeAssumption DEF ExchangeInv, Types
<1>4. CASE Sw(r) = SwOK
  <2>1. result' = Result("ok", r.data, 0)
    BY <1>2, <1>4 DEF CheckOK
  <2>2. result'.kind = "ok" /\ result'.data = answer.data
    BY <2>1 DEF Result
  <2>3. answer = Answer(answer.data, SwOK)
    BY <1>1, <1>4 DEF Did
  <2> QED
    BY <1>2, <2>2, <2>3 DEF TellsCardsAnswer
<1>5. CASE Sw(r) # SwOK /\ call.name \in {"VerifyPIN", "UnblockPIN"} /\ Masked(Sw(r), SwWrongPINMask)
  <2> DEFINE n == ToNumber(r.sw2 \cap ToByte(15))
  <2>1. result' = Result("wrong", <<>>, n)
    BY <1>2, <1>5 DEF CheckOK
  <2>2. result'.kind = "wrong" /\ result'.left = n
    BY <2>1 DEF Result
  <2>3. answer.sw \notin {SwOK, SwConditionsOfUseNotSatisfied, SwWrongData}
    <3>1. ~NoTries(answer.sw) /\ answer.sw # SwOK
      BY <1>5 DEF NoTries
    <3>2. SwConditionsOfUseNotSatisfied \in Rejections
      BY DEF Rejections
    <3> QED
      BY <3>1, <3>2, Distinct
  <2>4. r.sw2 = answer.sw[2]
    BY DEF Sw
  <2>5. CASE call.name = "VerifyPIN" /\ answer.sw = SwTriesLeft(pinLeft)
    <3>1. n = pinLeft
      BY <1>3, <2>4, <2>5, TriesIn
    <3> HIDE DEF n
    <3> QED
      BY <1>2, <2>2, <2>5, <3>1 DEF TellsCardsAnswer
  <2>6. CASE call.name = "UnblockPIN" /\ answer.sw = SwTriesLeft(pukLeft)
    <3>1. n = pukLeft
      BY <1>3, <2>4, <2>6, TriesIn
    <3> HIDE DEF n
    <3> QED
      BY <1>2, <2>2, <2>6, <3>1 DEF TellsCardsAnswer
  <2> QED
    BY <1>1, <2>3, <2>5, <2>6 DEF Did
<1>6. CASE Sw(r) # SwOK /\ ~(call.name \in {"VerifyPIN", "UnblockPIN"} /\ Masked(Sw(r), SwWrongPINMask))
  <2>1. result' = Result("refused", <<>>, 0)
    BY <1>2, <1>6 DEF CheckOK
  <2>2. result'.kind = "refused"
    BY <2>1 DEF Result
  <2> QED
    BY <2>2 DEF TellsCardsAnswer
<1> QED
  BY <1>4, <1>5, <1>6

LEMMA TransmitFailsKeeps ==
    ASSUME ExchangeInv, TransmitFails
    PROVE  ExchangeInv'
<1>1. Error.kind \in {"error", "refused"}
  BY DEF Error, Result
<1> QED
  BY <1>1, ClosesKeeps DEF TransmitFails

LEMMA TransmitClearKeeps ==
    ASSUME ExchangeInv, TransmitClear
    PROVE  ExchangeInv'
<1>1. pc = "answered" /\ resp.ok /\ ~open /\ Returns(CheckOK(resp))
  BY DEF TransmitClear, Received
<1>2. ver' = ver /\ open' = open /\ nonce' = nonce /\ iv' = iv /\ result' = CheckOK(resp) /\ open = FALSE
  BY <1>1 DEF TransmitClear, host, Returns, ExchangeInv, Types
<1>3. TellsCardsAnswer'
  <2>1. ASSUME CheckOK(resp).kind = "refused" PROVE TellsCardsAnswer'
    BY <1>2, <2>1 DEF TellsCardsAnswer
  <2>2. CASE Rejected
    BY <2>1, <2>2, RefusedRejected
  <2>3. CASE Waits
    BY <2>1, <2>3, RefusedWaiting DEF Waits
  <2>4. CASE Answered
    <3>1. PICK n \in 0..Len(OwnData) :
            /\ Came(SubSeq(OwnData, 1, n), resp.data)
            /\ \/ n = Len(OwnData) /\ Sw(resp) = OwnSw
               \/ resp.sw1 = Sw1ResponseDataIncomplete /\ FollowsUp(cmd)
      BY <2>4 DEF Answered
    <3>2. CASE resp.sw1 = Sw1ResponseDataIncomplete
      BY <1>1, <2>1, <3>2, RefusedWaiting
    <3>3. CASE n = Len(OwnData) /\ Sw(resp) = OwnSw
      <4>1. executed # <<>> /\ pc # "idle"
        BY <1>1, <2>4 DEF Answered
      <4>2. ver = "clear"
        BY <1>1, <4>1 DEF ExchangeInv, Types, Executed
      <4>3. IsSeq(OwnData)
        BY <4>1, OwnAnswer DEF ExchangeInv
      <4>4. SubSeq(OwnData, 1, n) = OwnData
        BY <3>3, <4>3, SubSeqWhole
      <4>5. resp.data = OwnData
        BY <1>1, <3>1, <4>4 DEF Came
      <4>6. OwnData = answer.data /\ OwnSw = answer.sw
        BY <4>2 DEF OwnData, OwnSw, SealedData, SealedSw
      <4> QED
        BY <1>1, <3>3, <4>1, <4>5, <4>6, Tells
    <3> QED
      BY <3>1, <3>2, <3>3
  <2> QED
    BY <1>1, <2>2, <2>3, <2>4 DEF ExchangeInv, Replies
<1>4. Together'
  BY <1>2 DEF Together
<1>5. nonce' \in Nat /\ open' \in BOOLEAN /\ (open' => open)
  BY <1>2 DEF ExchangeInv, Types
<1> QED
  BY <1>1, <1>2, <1>3, <1>4, <1>5, ReturnsKeeps

\* The card's answer, or part of it, even damaged, is shaped for TakesWhole.
LEMMA AnsweredShaped ==
    ASSUME ExchangeInv, pc = "answered", ver = "V1", Answered,
           NEW e, e = SealedText(answer, iv)
    PROVE  /\ ShapedV1(resp.data, MacOf(e)) /\ executed # <<>> /\ cardIv = MacOf(e)
           /\ IsBlock(iv) /\ IsSeq(AnswerText(answer)) /\ e = EncryptData(AnswerText(answer), "enc", iv)
           /\ IsBlock(MacOf(e))
<1>1. executed # <<>> /\ pc # "idle"
  BY DEF Answered
<1>2. /\ Octets(answer.data) /\ IsStatus(answer.sw) /\ IsSeq(OwnData)
  BY <1>1, OwnAnswer DEF ExchangeInv
<1>3. IsBlock(iv) /\ cardIv = MacOf(e)
  BY <1>1 DEF ExchangeInv, Types, Executed
<1> DEFINE p == AnswerText(answer)
<1>4. IsSeq(p)
  BY <1>2, TextIs
<1>5. e = EncryptData(p, "enc", iv)
  BY DEF SealedText
<1> HIDE DEF p
<1>6. IsSeq(e) /\ \A i \in 1..Len(e) : Made("enc", e[i])
  BY <1>3, <1>4, <1>5, EncryptedMade
<1>7. IsBlock(MacOf(e)) /\ \E b : IsBlock(b) /\ MacOf(e) = Encrypt("mac", b)
  BY <1>3, <1>4, <1>5, MacOfIs
<1>8. OwnData = MacOf(e) \o e
  BY DEF OwnData, SealedData
<1>9. PICK n \in 0..Len(OwnData) : Came(SubSeq(OwnData, 1, n), resp.data)
  BY DEF Answered
<1> DEFINE d == SubSeq(OwnData, 1, n)
           m == MacOf(e)
<1>10. Begins(d, m \o e)
  <2>1. IsSeq(<<>>)
    BY NoBytes
  <2>2. Begins(d, OwnData)
    BY <1>2, <2>1, PartOfData
  <2> QED
    BY <1>8, <2>2
<1>11. PICK b : IsBlock(b) /\ m = Encrypt("mac", b)
  BY <1>7
<1>12. resp.data = d \/ Damaged(d, resp.data)
  BY <1>9 DEF Came
<1> DEFINE x == resp.data
<1>13. ShapedV1(x, m)
  <2>1. IsBlock(m) /\ (x = d \/ Damaged(d, x))
    BY <1>7, <1>12
  <2> HIDE DEF d, m, x
  <2>2. CASE x = d
    BY <1>6, <1>10, <2>1, <2>2, BeginsShaped
  <2>3. CASE Damaged(d, x)
    BY <1>6, <1>10, <1>11, <2>1, <2>3, DamagedShaped
  <2> QED
    BY <2>1, <2>2, <2>3
<1> QED
  BY <1>1, <1>3, <1>4, <1>5, <1>7, <1>13 DEF p

LEMMA TransmitV1Keeps ==
    ASSUME ExchangeInv, TransmitV1
    PROVE  ExchangeInv'
<1> DEFINE rmac == SubSeq(resp.data, 1, BlockLen)
           rdata == SubSeq(resp.data, BlockLen + 1, Len(resp.data))
           plain == DecryptData(rdata, "enc", iv)
           mac == CalculateMAC(answerMeta(Len(resp.data)), rdata, "mac")
<1>1. pc = "answered" /\ resp.ok /\ open /\ ver = "V1"
  BY DEF TransmitV1, Received
<1>2. IF Sw(resp) = SwSecurityConditionNotSatisfied THEN Closes(CheckOK(resp))
      ELSE IF Len(resp.data) < BlockLen \/ ~plain.ok THEN Closes(Error)
      ELSE IF mac # rmac
      THEN iv' = mac /\ open' = FALSE /\ UNCHANGED <<ver, nonce>> /\ Returns(Error)
      ELSE /\ iv' = mac
           /\ UNCHANGED <<ver, open, nonce>>
           /\ Returns(CheckOK(ParseResponse(plain.data)))
  BY DEF TransmitV1
<1>3. Error.kind = "error"
  BY DEF Error, Result
<1>4. nonce \in Nat
  BY DEF ExchangeInv, Types
<1> DEFINE short == Len(resp.data) < BlockLen \/ ~plain.ok
<1>5. CASE Sw(resp) = SwSecurityConditionNotSatisfied
  <2>1. Closes(CheckOK(resp))
    BY <1>2, <1>5
  <2>2. NoTries(Sw(resp))
    BY <1>5, Distinct DEF Rejections
  <2>3. CheckOK(resp).kind = "refused"
    BY <1>1, <2>2, Refused
  <2> QED
    BY <2>1, <2>3, ClosesKeeps
<1>6. CASE Sw(resp) # SwSecurityConditionNotSatisfied /\ short
  <2>1. Closes(Error)
    BY <1>2, <1>6
  <2> QED
    BY <1>3, <2>1, ClosesKeeps
<1>7. CASE Sw(resp) # SwSecurityConditionNotSatisfied /\ ~short /\ mac # rmac
  <2>1. open' = FALSE /\ ver' = ver /\ nonce' = nonce /\ Returns(Error)
    BY <1>2, <1>7
  <2>2. result' = Error
    BY <2>1 DEF Returns
  <2>3. Together' /\ TellsCardsAnswer'
    BY <1>3, <2>1, <2>2 DEF Together, TellsCardsAnswer
  <2>4. nonce' \in Nat
    BY <1>4, <2>1
  <2> QED
    BY <2>1, <2>3, <2>4, ReturnsKeeps
<1>8. CASE Sw(resp) # SwSecurityConditionNotSatisfied /\ ~short /\ mac = rmac
  <2> DEFINE e == SealedText(answer, iv)
             p == AnswerText(answer)
             d == resp.data
  <2>1. /\ iv' = mac /\ ver' = ver /\ open' = open /\ nonce' = nonce
        /\ Returns(CheckOK(ParseResponse(plain.data)))
    BY <1>2, <1>8
  <2>2. Len(d) >= BlockLen /\ plain.ok
    <3>1. BlockLen \in Nat /\ BlockLen >= 5
      BY LengthsOfBlocks
    <3>2. Len(d) \in Nat
      <4>1. IsSeq(raw)
        BY <1>1 DEF ExchangeInv, Replies
      <4>2. IsSeq(d)
        BY <1>1, <4>1, ParsedOf DEF resp
      <4> QED
        BY <4>2, SeqFacts
    <3> QED
      BY <1>8, <3>1, <3>2
  <2>3. Answered
    <3>1. d # <<>>
      <4>1. Len(d) # 0
        <5> HIDE DEF d
        <5> QED
          BY <2>2, LengthsOfBlocks
      <4> QED
        BY <4>1, NoBytes
    <3> QED
      BY <1>1, <3>1 DEF ExchangeInv, Replies, Rejected, Waits
  <2>4. /\ ShapedV1(d, MacOf(e)) /\ executed # <<>> /\ cardIv = MacOf(e)
        /\ IsBlock(iv) /\ IsSeq(p) /\ e = EncryptData(p, "enc", iv) /\ IsBlock(MacOf(e))
    BY <1>1, <2>3, AnsweredShaped
  <2>5. rmac = MacOf(e) /\ plain = Plain(p)
    <3>1. /\ rmac = SubSeq(d, 1, BlockLen) /\ rdata = SubSeq(d, BlockLen + 1, Len(d))
          /\ DecryptData(rdata, "enc", iv).ok
          /\ CalculateMAC(answerMeta(Len(d)), rdata, "mac") = rmac
      BY <1>8, <2>2
    <3> DEFINE v == iv
    <3>2. IsBlock(v) /\ e = EncryptData(p, "enc", v) /\ DecryptData(rdata, "enc", v).ok
      BY <2>4, <3>1
    <3>3. IsSeq(p) /\ ShapedV1(d, MacOf(e)) /\ Len(d) >= BlockLen
      BY <2>2, <2>4
    <3> HIDE DEF rmac, rdata, d, e, p, v
    <3>4. Opens(p, v, e, d, rmac, rdata)
      BY <3>1, <3>2, <3>3 DEF Opens
    <3>5. Opened(p, v, e, rmac, rdata)
      BY <3>4, TakesWhole
    <3>6. rmac = MacOf(e) /\ DecryptData(rdata, "enc", v) = Plain(p)
      BY <3>5 DEF Opened
    <3> QED
      BY <3>6 DEF v
  <2> DEFINE r == ParseResponse(p)
  <2>6. Octets(answer.data) /\ IsStatus(answer.sw)
    BY <1>1, <2>4, OwnAnswer DEF ExchangeInv
  <2>7. r.ok /\ r.data = answer.data /\ Sw(r) = answer.sw
    <3>1. ParsesTo(p, answer.data, answer.sw)
      BY <2>6, TextIs
    <3>2. answer.sw = <<answer.sw[1], answer.sw[2]>>
      BY <2>6, StatusIs
    <3> QED
      BY <3>1, <3>2 DEF ParsesTo
  <2>8. plain.data = p
    BY <2>5 DEF Plain
  <2>9. Returns(CheckOK(r))
    BY <2>1, <2>8
  <2>10. iv' = MacOf(e)
    BY <1>8, <2>1, <2>5
  <2> HIDE DEF r, e, mac, rmac, plain, rdata, d, p
  <2>11. TellsCardsAnswer'
    BY <1>1, <2>4, <2>7, <2>9, Tells
  <2>12. Together'
    <3>1. cardIv' = cardIv
      BY <2>9 DEF Returns, card
    <3> QED
      BY <1>1, <2>1, <2>4, <2>10, <3>1 DEF Together
  <2>13. nonce' \in Nat /\ open' \in BOOLEAN /\ (open' => open) /\ IsBlock(iv')
    BY <1>4, <2>1, <2>4, <2>10 DEF ExchangeInv, Types
  <2> QED
    BY <2>1, <2>9, <2>11, <2>12, <2>13, ReturnsKeeps
<1> QED
  BY <1>5, <1>6, <1>7, <1>8

LEMMA TransmitV2Keeps ==
    ASSUME ExchangeInv, TransmitV2
    PROVE  ExchangeInv'
<1> DEFINE plain == DecryptAndAuthenticate("c2h", nonce, resp.data)
<1>1. pc = "answered" /\ resp.ok /\ open /\ ver = "V2"
  BY DEF TransmitV2, Received
<1>2. IF Sw(resp) # SwOK THEN Closes(CheckOK(resp))
      ELSE IF ~plain.ok THEN Closes(Error)
      ELSE /\ nonce' = nonce + 1
           /\ UNCHANGED <<ver, open, iv>>
           /\ Returns(CheckOK(ParseResponse(plain.data)))
  BY DEF TransmitV2
<1>3. Error.kind = "error"
  BY DEF Error, Result
<1>4. nonce \in Nat /\ IsBlock(iv)
  BY <1>1 DEF ExchangeInv, Types
<1>5. Rejected \/ Waits \/ Answered
  BY <1>1 DEF ExchangeInv, Replies
<1>6. CASE Sw(resp) # SwOK
  <2>1. Closes(CheckOK(resp))
    BY <1>2, <1>6
  <2>2. CheckOK(resp).kind = "refused"
    <3>1. CASE Rejected
      BY <3>1, RefusedRejected
    <3>2. CASE resp.sw1 = Sw1ResponseDataIncomplete
      BY <1>1, <3>2, RefusedWaiting
    <3>3. Answered => resp.sw1 = Sw1ResponseDataIncomplete \/ Sw(resp) = SwOK
      BY <1>1 DEF Answered, OwnSw, SealedSw
    <3> QED
      BY <1>5, <1>6, <3>1, <3>2, <3>3 DEF Waits
  <2> QED
    BY <2>1, <2>2, ClosesKeeps
<1>7. CASE Sw(resp) = SwOK /\ ~plain.ok
  <2>1. Closes(Error)
    BY <1>2, <1>7
  <2> QED
    BY <1>3, <2>1, ClosesKeeps
<1>8. CASE Sw(resp) = SwOK /\ plain.ok
  <2> DEFINE p == AnswerText(answer)
             d == resp.data
             c == EncryptAndAuthenticate("c2h", nonce, p)
  <2>1. /\ nonce' = nonce + 1 /\ ver' = ver /\ open' = open /\ iv' = iv
        /\ Returns(CheckOK(ParseResponse(plain.data)))
    BY <1>2, <1>8
  <2>2. resp.sw1 # Sw1ResponseDataIncomplete
    <3>1. Sw(resp)[1] = resp.sw1
      BY DEF Sw
    <3> QED
      BY <1>8, <3>1, Distinct
  <2>3. Answered
    <3>1. SwOK \notin Rejections
      BY Distinct DEF NoTries
    <3> QED
      BY <1>5, <1>8, <2>2, <3>1 DEF Rejected, Waits
  <2>4. executed # <<>> /\ pc # "idle"
    BY <1>1, <2>3 DEF Answered
  <2>5. Octets(answer.data) /\ IsStatus(answer.sw) /\ IsSeq(OwnData)
    BY <2>4, OwnAnswer DEF ExchangeInv
  <2>6. cardNonce = nonce + 1
    BY <1>1, <2>4 DEF ExchangeInv, Executed
  <2>7. Octets(p) /\ IsSeq(p) /\ Len(p) # 0 /\ ParsesTo(p, answer.data, answer.sw)
    BY <2>5, TextIs
  <2>8. OwnData = c
    BY <1>1 DEF OwnData, SealedData
  <2>9. d = c \/ Damaged(c, d)
    <3>1. PICK n \in 0..Len(OwnData) :
            /\ Came(SubSeq(OwnData, 1, n), resp.data)
            /\ \/ n = Len(OwnData)
               \/ resp.sw1 = Sw1ResponseDataIncomplete
      BY <2>3 DEF Answered
    <3>2. SubSeq(OwnData, 1, n) = OwnData
      BY <2>2, <2>5, <3>1, SubSeqWhole
    <3> QED
      BY <2>8, <3>1, <3>2 DEF Came
  <2>10. plain.data = p
    <3> HIDE DEF p, d
    <3>1. CASE d = c
      <4>1. FreeSeq("c2h", Counters, p)
        BY <2>7, OctetsFree DEF Octets
      <4>2. DecryptAndAuthenticate("c2h", nonce, c) = Plain(p)
        BY <1>4, <4>1, OpensSealed
      <4> QED
        BY <3>1, <4>2 DEF Plain, d
    <3>2. CASE Damaged(c, d)
      <4>1. DecryptAndAuthenticate("c2h", nonce, d).ok
        BY <1>8 DEF d
      <4>2. \A i \in 1..Len(p) : p[i] \in Octet
        BY <2>7 DEF Octets
      <4>3. DecryptAndAuthenticate("c2h", nonce, d).data = p
        BY <1>4, <2>7, <3>2, <4>1, <4>2, OpensDamaged
      <4> QED
        BY <4>3 DEF d
    <3> QED
      BY <2>9, <3>1, <3>2
  <2> DEFINE r == ParseResponse(p)
  <2>11. r.ok /\ r.data = answer.data /\ Sw(r) = answer.sw
    <3>1. answer.sw = <<answer.sw[1], answer.sw[2]>>
      BY <2>5, StatusIs
    <3> QED
      BY <2>7, <3>1 DEF ParsesTo
  <2>12. Returns(CheckOK(r))
    BY <2>1, <2>10
  <2> HIDE DEF r, p, c, d, plain
  <2>13. TellsCardsAnswer'
    BY <2>4, <2>11, <2>12, Tells
  <2>14. Together'
    <3>1. cardNonce' = cardNonce
      BY <2>12 DEF Returns, card
    <3> QED
      BY <1>1, <2>1, <2>6, <3>1 DEF Together
  <2>15. nonce' \in Nat /\ open' \in BOOLEAN /\ (open' => open) /\ IsBlock(iv')
    BY <1>4, <2>1 DEF ExchangeInv, Types
  <2> QED
    BY <2>1, <2>12, <2>13, <2>14, <2>15, ReturnsKeeps
<1> QED
  BY <1>6, <1>7, <1>8

-----------------------------------------------------------------------------
(* A call begins, and goes on *)

\* Only an answer that waits in the card is followed up.
LEMMA SendsGetResponseKeeps ==
    ASSUME ExchangeInv, SendsGetResponse
    PROVE  ExchangeInv'
<1>1. /\ pc = "answered" /\ resp.ok /\ resp.sw1 = Sw1ResponseDataIncomplete
      /\ ~FollowsUp(cmd)
  BY DEF SendsGetResponse, WantsMore, FollowsUp
<1>2. Transmits(NewCommandGetResponse(resp.sw2))
  BY DEF SendsGetResponse
<1>3. /\ ver' = ver /\ open' = open /\ nonce' = nonce /\ iv' = iv
      /\ call' = call /\ result' = result /\ session' = session
      /\ cardNonce' = cardNonce /\ cardIv' = cardIv /\ pending' = pending
      /\ pinLeft' = pinLeft /\ pukLeft' = pukLeft /\ stored' = stored
      /\ executed' = executed /\ answer' = answer
  BY DEF SendsGetResponse, host, card, wallet, hist
<1>4. pc' = "sent" /\ raw' = Serialize(cmd') /\ cmd' = NewCommandGetResponse(cmd'.le[1])
  BY <1>2 DEF Transmits, NewCommandGetResponse, SetLe, NewCommand
<1>5. Waits
  <2>1. Rejected \/ Waits \/ Answered
    BY <1>1 DEF ExchangeInv, Replies
  <2>2. Sw(resp)[1] = Sw1ResponseDataIncomplete
    BY <1>1 DEF Sw
  <2>3. ~Rejected
    BY <2>2, Distinct DEF Rejected
  <2>4. ASSUME Answered PROVE FALSE
    <3>1. executed # <<>> /\ Sw(resp) = OwnSw
      BY <1>1, <2>4 DEF Answered
    <3>2. IsStatus(OwnSw)
      BY <1>1, <3>1, OwnAnswer DEF ExchangeInv
    <3> QED
      BY <2>2, <3>1, <3>2, StatusIs
  <2> QED
    BY <2>1, <2>3, <2>4
<1>6. executed # <<>> /\ pending \in {<<>>, OwnData \o OwnSw}
  BY <1>5 DEF Waits
<1>7. OwnData' = OwnData /\ OwnSw' = OwnSw
  BY <1>3 DEF OwnData, OwnSw
<1>8. Types'
  BY <1>1, <1>3, <1>4 DEF ExchangeInv, Types
<1>9. Frames'
  BY <1>3, <1>4, <1>6, <1>7 DEF Frames
<1>10. Executed'
  BY <1>1, <1>3, <1>4 DEF ExchangeInv, Executed, Did
<1>11. Together' /\ Replies' /\ TellsCardsAnswer'
  BY <1>4 DEF Together, Replies, TellsCardsAnswer
<1> QED
  BY <1>8, <1>9, <1>10, <1>11 DEF ExchangeInv

LEMMA CommandMetaIs ==
    ASSUME NEW h, IsSeq(h), NEW length
    PROVE  IsSeq(commandMeta(h, length))
<1> DEFINE l == <<Length(length)>>
           z == Zeroes(BlockLen - 5)
           m == h \o l
<1>1. IsSeq(l)
  BY OneSeq
<1>2. IsSeq(z)
  BY LengthsOfBlocks, ZeroesAre
<1>3. IsSeq(m)
  <2> HIDE DEF l
  <2> QED
    BY <1>1, CatSeq
<1>4. commandMeta(h, length) = m \o z
  BY DEF commandMeta
<1> HIDE DEF m, z
<1>5. IsSeq(m \o z)
  BY <1>2, <1>3, CatSeq
<1> QED
  BY <1>4, <1>5

\* The MAC of a command goes first, and its place is the card's.
LEMMA SendsV1 ==
    ASSUME ExchangeInv, NEW c \in Requests, Sends(c), open, ver = "V1"
    PROVE  IsBlock(iv') /\ FrameV1'
<1> DEFINE command == CommandOf(c)
           encrypted == EncryptData(command.data, "enc", iv)
           length == Len(encrypted) + BlockLen
           meta == commandMeta(Head4(command), length)
           mac == CalculateMAC(meta, encrypted, "mac")
           sent == [command EXCEPT !.data = mac \o encrypted]
<1>1. ProtectedV1(command) /\ Begin(c)
  BY DEF Sends
<1>2. call' = c /\ pc = "idle" /\ session' = session /\ cardIv' = cardIv
  BY <1>1 DEF Begin, card
<1>3. iv' = mac /\ cmd' = sent
  BY <1>1 DEF ProtectedV1, Transmits
<1>4. /\ command.cla = ClaGp /\ command.ins = InsOf[c.name]
      /\ command.p1 = {} /\ command.p2 = {}
      /\ command.data = c.data /\ command.le = <<>> /\ IsSeq(c.data)
  BY CommandIs
<1>5. IsBlock(iv) /\ (session => iv = cardIv)
  BY <1>2 DEF ExchangeInv, Types, Together
<1>6. IsSeq(encrypted)
  BY <1>4, <1>5, EncryptedMade
<1>7. IsBlock(mac)
  <2>1. IsSeq(Head4(command))
    BY QuadSeq
  <2> HIDE DEF command
  <2>2. IsSeq(meta)
    BY <2>1, CommandMetaIs
  <2> HIDE DEF meta, encrypted
  <2> QED
    BY <1>6, <2>2, MacIsBlock
<1>8. IsSeq(mac \o encrypted)
  <2>1. IsSeq(mac)
    BY <1>7, BlockIsSeq
  <2> HIDE DEF mac, encrypted
  <2> QED
    BY <1>6, <2>1, CatSeq
<1>9. /\ sent.cla = ClaGp /\ sent.ins = InsOf[c.name] /\ sent.p1 = {} /\ sent.p2 = {}
      /\ sent.le = <<>> /\ sent.data = mac \o encrypted
  <2> HIDE DEF mac, encrypted
  <2> QED
    BY <1>4 DEF CommandOf, NewCommand
<1>10. session' =>
          LET e == EncryptData(call'.data, "enc", cardIv')
              n == Len(e) + BlockLen
          IN  /\ iv' = CalculateMAC(commandMeta(Head4(CommandOf(call')), n), e, "mac")
              /\ cmd'.data = iv' \o e
  <2>1. ASSUME session' PROVE EncryptData(call'.data, "enc", cardIv') = encrypted
    BY <1>2, <1>4, <1>5, <2>1
  <2>2. CommandOf(call') = command
    BY <1>2
  <2> HIDE DEF encrypted, command
  <2> QED
    BY <1>3, <1>9, <2>1, <2>2
<1> HIDE DEF mac, encrypted, command, sent
<1> QED
  BY <1>2, <1>3, <1>7, <1>8, <1>9, <1>10 DEF FrameV1

LEMMA SendsKeeps ==
    ASSUME ExchangeInv, NEW c \in Requests, Sends(c)
    PROVE  ExchangeInv'
<1> DEFINE command == CommandOf(c)
<1>1. /\ pc = "idle" /\ call' = c /\ executed' = <<>>
      /\ ver' = ver /\ open' = open /\ session' = session
      /\ cardNonce' = cardNonce /\ cardIv' = cardIv
      /\ pinLeft' = pinLeft /\ pukLeft' = pukLeft /\ stored' = stored
  BY DEF Sends, Begin, card, wallet
<1>2. \/ open /\ ver = "V1" /\ ProtectedV1(command)
      \/ open /\ ver = "V2" /\ ProtectedV2(command)
      \/ ~open /\ ver # "V1" /\ Transmits(command) /\ UNCHANGED <<nonce, iv>>
  BY DEF Sends
<1>3. pc' = "sent" /\ raw' = Serialize(cmd') /\ nonce' = nonce
  BY <1>2 DEF ProtectedV1, ProtectedV2, Transmits
<1>4. ver = "V1" => open
  BY <1>2
<1>5. ver = "V1" => IsBlock(iv') /\ FrameV1'
  BY <1>4, SendsV1
<1>6. ver # "V1" => iv' = iv
  BY <1>2 DEF ProtectedV2
<1>7. open /\ ver = "V2" => FrameV2'
  <2> SUFFICES ASSUME open, ver = "V2" PROVE FrameV2'
    OBVIOUS
  <2>1. ProtectedV2(command)
    BY <1>2
  <2>2. cmd' = NewCommand(ClaGp, InsSecuredAPDU, {}, {},
                   EncryptAndAuthenticate("h2c", nonce, Inner(command)))
    BY <2>1 DEF ProtectedV2, Transmits, Inner
  <2>3. session => nonce = cardNonce
    BY <1>1 DEF ExchangeInv, Together
  <2> QED
    BY <1>1, <1>3, <2>2, <2>3 DEF FrameV2
<1>8. ~open => cmd' = CommandOf(call')
  BY <1>1, <1>2 DEF Transmits
<1>9. Types'
  BY <1>1, <1>3, <1>4, <1>5, <1>6 DEF ExchangeInv, Types
<1>10. Frames'
  BY <1>1, <1>3, <1>5, <1>7, <1>8 DEF Frames
<1>11. Together' /\ Replies' /\ Executed' /\ TellsCardsAnswer'
  BY <1>1, <1>3 DEF Together, Replies, Executed, TellsCardsAnswer
<1> QED
  BY <1>9, <1>10, <1>11 DEF ExchangeInv

LEMMA RefusesKeeps ==
    ASSUME ExchangeInv, NEW c \in Requests, Refuses(c)
    PROVE  ExchangeInv'
<1>1. /\ pc = "idle" /\ pc' = "idle" /\ executed' = <<>> /\ result' = Error
      /\ ver' = ver /\ open' = open /\ nonce' = nonce /\ iv' = iv /\ session' = session
      /\ cardNonce' = cardNonce /\ cardIv' = cardIv
      /\ pinLeft' = pinLeft /\ pukLeft' = pukLeft /\ stored' = stored
  BY DEF Refuses, Begin, card, wallet
<1>2. Types' /\ Together'
  BY <1>1 DEF ExchangeInv, Types, Together
<1>3. Error.kind = "error"
  BY DEF Error, Result
<1>4. Frames' /\ Replies' /\ Executed' /\ TellsCardsAnswer'
  BY <1>1, <1>3 DEF Frames, Replies, Executed, TellsCardsAnswer
<1> QED
  BY <1>2, <1>4 DEF ExchangeInv

-----------------------------------------------------------------------------
(* Every behaviour *)

LEMMA ExchangeInitKeeps ==
    ASSUME ExchangeInit
    PROVE  ExchangeInv
<1>1. IsBlock(iv) /\ cardIv = iv
  <2>1. IsBlock(Encrypt("salt", Zeroes(BlockLen)))
    BY EncryptIsBlock
  <2> QED
    BY <2>1 DEF ExchangeInit
<1>2. /\ ver \in {"V1", "V2", "clear"} /\ open = (ver # "clear") /\ session = open
      /\ nonce = 0 /\ cardNonce = nonce /\ pc = "idle" /\ executed = <<>>
      /\ pinLeft \in 0..MaxTries /\ pukLeft = MaxTries /\ stored = <<>>
      /\ result = Result("none", <<>>, 0)
  BY DEF ExchangeInit
<1>3. MaxTries \in 0..MaxTries
  BY ExchangeAssumption
<1>4. Octets(stored)
  <2>1. Octets(<<>>)
    BY NoBytes DEF Octets
  <2> QED
    BY <1>2, <2>1
<1>5. Types /\ Together
  BY <1>1, <1>2, <1>3, <1>4 DEF Types, Together
<1>6. result.kind = "none"
  BY <1>2 DEF Result
<1>7. Frames /\ Replies /\ Executed /\ TellsCardsAnswer
  BY <1>2, <1>6 DEF Frames, Replies, Executed, TellsCardsAnswer
<1> QED
  BY <1>5, <1>7 DEF ExchangeInv

LEMMA ExchangeStutterKeeps ==
    ASSUME ExchangeInv, UNCHANGED exchangeVars
    PROVE  ExchangeInv'
<1>1. /\ ver' = ver /\ open' = open /\ nonce' = nonce /\ iv' = iv
      /\ pc' = pc /\ call' = call /\ cmd' = cmd /\ raw' = raw /\ intact' = intact
      /\ result' = result /\ session' = session
      /\ cardNonce' = cardNonce /\ cardIv' = cardIv /\ pending' = pending
      /\ pinLeft' = pinLeft /\ pukLeft' = pukLeft /\ stored' = stored
      /\ executed' = executed /\ answer' = answer
  BY DEF exchangeVars, host, card, wallet, hist
<1>2. Types' /\ Together'
  BY <1>1 DEF ExchangeInv, Types, Together
<1>3. OwnData' = OwnData /\ OwnSw' = OwnSw /\ resp' = resp
  BY <1>1 DEF OwnData, OwnSw, resp
<1>4. FrameV1' = FrameV1 /\ FrameV2' = FrameV2
  BY <1>1 DEF FrameV1, FrameV2
<1>5. Frames'
  BY <1>1, <1>3, <1>4 DEF ExchangeInv, Frames
<1>6. Rejected' = Rejected /\ Waits' = Waits /\ Answered' = Answered
  BY <1>1, <1>3 DEF Rejected, Waits, Answered, Came
<1>7. Replies'
  BY <1>1, <1>3, <1>6 DEF ExchangeInv, Replies
<1>8. Executed' /\ TellsCardsAnswer'
  BY <1>1 DEF ExchangeInv, Executed, Did, TellsCardsAnswer
<1> QED
  BY <1>2, <1>5, <1>7, <1>8 DEF ExchangeInv

LEMMA ExchangeNextKeeps ==
    ASSUME ExchangeInv, [ExchangeNext]_exchangeVars
    PROVE  ExchangeInv'
<1>1. CASE \E c \in Requests : Sends(c)
  BY <1>1, SendsKeeps
<1>2. CASE \E c \in Requests : Refuses(c)
  BY <1>2, RefusesKeeps
<1>3. CASE Library
  BY <1>3, SendsGetResponseKeeps, TransmitFailsKeeps, TransmitClearKeeps, TransmitV1Keeps,
     TransmitV2Keeps DEF Library
<1>4. CASE Card
  BY <1>4, CardRejectsFrameKeeps, CardContinuesKeeps, CardTakesClearKeeps, CardTakesV1Keeps,
     CardTakesV2Keeps DEF Card
<1>5. CASE CardReset
  BY <1>5, CardResetKeeps
<1>6. CASE ReaderFails
  BY <1>6, ReaderFailsKeeps
<1>7. CASE AnswerCutShort
  BY <1>7, AnswerCutShortKeeps
<1>8. CASE AnswerDamaged
  BY <1>8, AnswerDamagedKeeps
<1>9. CASE UNCHANGED exchangeVars
  BY <1>9, ExchangeStutterKeeps
<1> QED
  BY <1>1, <1>2, <1>3, <1>4, <1>5, <1>6, <1>7, <1>8, <1>9 DEF ExchangeNext

\* The invariant of the exchange between host, reader and card: it says where
\* each of the two ends is, what frame is under way, and what the answer in the
\* reader may be after it was cut, split or damaged.
THEOREM ExchangeInvariance == ExchangeSpec => []ExchangeInv
<1>1. ExchangeInit => ExchangeInv
  BY ExchangeInitKeeps
<1>2. ExchangeInv /\ [ExchangeNext]_exchangeVars => ExchangeInv'
  BY ExchangeNextKeeps
<1> QED
  BY <1>1, <1>2, PTL DEF ExchangeSpec

\* Whatever is lost, cut or damaged on the way, the card executes the command of a
\* call once at most, and with the data the caller gave (Serialize cuts a length to
\* one byte, apdu/command.go:67; Send follows up with GET RESPONSE).
THEOREM ExecutedSafety == ExchangeSpec => []ExecutedAsBuilt
<1>1. ExchangeInv => ExecutedAsBuilt
  BY DEF ExchangeInv, Executed, Did, ExecutedAsBuilt
<1> QED
  BY <1>1, ExchangeInvariance, PTL

\* What a call returns is the card's own answer to it, the tries left included:
\* no damaged, stale or partial answer passes the MAC of V1 or the tag of V2, or is
\* taken for one (Transmit of secure_channel.go and secure_channel_v2.go, CheckOK).
THEOREM TellsSafety == ExchangeSpec => []TellsCardsAnswer
<1>1. ExchangeInv => TellsCardsAnswer
  BY DEF ExchangeInv
<1> QED
  BY <1>1, ExchangeInvariance, PTL

=============================================================================
