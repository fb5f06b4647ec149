------------------------------ MODULE CJsonSteps ------------------------------
(***************************************************************************)
(* What CJson's recursive functions are at each place: that the function   *)
(* each definition describes exists, so that it may be unfolded one step.  *)
(* Every proof builds the function up to a bound, by induction on the      *)
(* bound.  Induction itself comes from the least element every set of      *)
(* naturals has, which the library states of a set and not of an operator. *)
(*                                                                         *)
(* The proofs of one shape are repeated for each function, since the step  *)
(* of a recursion is an operator, and a lemma cannot take one.             *)
(*                                                                         *)
(* Then what they do to a text: where texts stand in other texts, and that *)
(* escapes, strings and numbers are read back from where they are printed; *)
(* what is read of one that is cut lies behind the end of the text.        *)
(***************************************************************************)
EXTENDS CJson, SequenceTheorems, FiniteSetTheorems, WellFoundedInduction, TLAPS

\* A set of naturals has a least element.
LEMMA Least ==
  ASSUME NEW T, T \subseteq Nat, T # {}
  PROVE  \E x \in T : \A y \in T : x <= y
<1>1. IsWellFoundedOn(OpToRel(<, Nat), Nat)
  BY NatLessThanWellFounded
<1>2. PICK x \in T : \A y \in T : ~ (<<y, x>> \in OpToRel(<, Nat))
  BY <1>1, WFMin
<1>3. \A y \in T : ~(y < x)
  BY <1>2 DEF OpToRel
<1> QED
  BY <1>3

\* Induction on the naturals, for membership of a set.
LEMMA Induction ==
  ASSUME NEW S, 0 \in S, \A n \in Nat : n \in S => n + 1 \in S
  PROVE  Nat \subseteq S
<1> SUFFICES ASSUME NEW m \in Nat, m \notin S
             PROVE  FALSE
  OBVIOUS
<1> DEFINE T == {n \in Nat : n \notin S}
<1>1. PICK x \in T : \A y \in T : x <= y
  BY Least
<1>2. x - 1 \in Nat /\ x - 1 \notin T
  BY <1>1
<1> QED
  BY <1>2, <1>1

\* As Induction, up to a bound.
LEMMA BoundedInduction ==
  ASSUME NEW m \in Nat, NEW S, 0 \in S, \A n \in 0..m - 1 : n \in S => n + 1 \in S
  PROVE  0..m \subseteq S
<1> DEFINE T == {n \in Nat : n <= m => n \in S}
<1>1. 0 \in T
  OBVIOUS
<1>2. \A n \in Nat : n \in T => n + 1 \in T
  OBVIOUS
<1>3. Nat \subseteq T
  <2> HIDE DEF T
  <2> QED BY <1>1, <1>2, Induction
<1> QED
  BY <1>3

-----------------------------------------------------------------------------
\* The number of a sequence of digits, from the left.
LEMMA NumeralSteps ==
  ASSUME NEW d \in Seq(Int)
  PROVE  \E u \in [0..Len(d) -> Int] :
            /\ u[0] = 0
            /\ \A k \in 1..Len(d) : u[k] = 10 * u[k - 1] + (d[k] - Zero)
            /\ Numeral(d) = u[Len(d)]
<1> DEFINE n == Len(d)
<1> DEFINE F(k, v) == 10 * v + (d[k] - Zero)
<1> DEFINE Def(w) == w = [k \in 0..n |-> IF k = 0 THEN 0 ELSE F(k, w[k - 1])]
<1> DEFINE w == CHOOSE w : Def(w)
<1>1. n \in Nat /\ n >= 0 /\ n \in Nat /\ 0 \in Int
  OBVIOUS
<1>2. \A k \in 1..n, v \in Int : F(k, v) \in Int
  BY DEF Zero
<1>3. Numeral(d) = w[n]
  BY DEF Numeral
<1> HIDE DEF F, n
<1> DEFINE Upto(u, m) == u[0] = 0 /\ \A k \in 1..m : u[k] = F(k, u[k - 1])
<1> DEFINE S == {m \in 0..n : \E u \in [0..n -> Int] : Upto(u, m)}
<1>4. 0 \in S
  <2> DEFINE u == [k \in 0..n |-> 0]
  <2>1. u \in [0..n -> Int] /\ Upto(u, 0)
    BY <1>1
  <2> HIDE DEF u, Upto
  <2> QED
    BY <1>1, <2>1
<1>5. ASSUME NEW m \in 0..n - 1, m \in S
      PROVE  m + 1 \in S
  <2>1. PICK u \in [0..n -> Int] : Upto(u, m)
    BY <1>5
  <2> DEFINE x == F(m + 1, u[m])
  <2> DEFINE g == [k \in 0..n |-> IF k = m + 1 THEN x ELSE u[k]]
  <2>2. x \in Int
    <3>1. u[m] \in Int /\ m + 1 \in 1..n
      BY <1>1
    <3> QED
      BY <1>2, <3>1
  <2>3. g \in [0..n -> Int]
    <3> HIDE DEF x
    <3> QED
      BY <2>2
  <2>4. g[0] = 0
    BY <1>1, <2>1
  <2>5. ASSUME NEW k \in 1..m + 1
        PROVE  g[k] = F(k, g[k - 1])
    <3>1. g[k - 1] = u[k - 1] /\ k \in 0..n
      BY <1>1
    <3>2. CASE k = m + 1
      BY <3>1, <3>2
    <3>3. CASE k \in 1..m
      BY <2>1, <3>1, <3>3
    <3> QED
      BY <3>2, <3>3
  <2>6. Upto(g, m + 1)
    BY <2>4, <2>5
  <2> HIDE DEF g, Upto
  <2> QED
    BY <1>1, <2>3, <2>6
<1>6. 0..n \subseteq S
  <2> HIDE DEF S
  <2> QED
    BY <1>1, <1>4, <1>5, BoundedInduction
<1>7. PICK u \in [0..n -> Int] : Upto(u, n)
  <2> HIDE DEF Upto
  <2>1. n \in S /\ n + 0 = n
    <3> HIDE DEF S
    <3> QED
      BY <1>1, <1>6
  <2> QED
    BY <1>1, <2>1
<1>8. Def(u)
  BY <1>1, <1>7
<1>9. Def(w)
  <2> HIDE DEF Def
  <2> QED
    BY <1>8
<1> HIDE DEF w
<1>10. w[0] = 0 /\ \A k \in 1..n : w[k] = F(k, w[k - 1])
  BY <1>1, <1>9
<1>11. w = u
  <2> DEFINE T == {k \in 0..n : w[k + 0] = u[k + 0]}
  <2>1. 0 \in T
    BY <1>1, <1>7, <1>10
  <2>2. \A k \in 0..n - 1 : k \in T => k + 1 \in T
    BY <1>1, <1>7, <1>10
  <2>3. 0..n \subseteq T
    <3> HIDE DEF T
    <3> QED
      BY <1>1, <2>1, <2>2, BoundedInduction
  <2>4. ASSUME NEW k \in 0..n
        PROVE  w[k] = u[k]
    <3>1. k - 0 \in T /\ (k - 0) + 0 = k
      <4> HIDE DEF T
      <4> QED
        BY <1>1, <2>3
    <3> QED
      BY <3>1
  <2> QED
    BY <2>4, <1>8, <1>9
<1>12. \A k \in 1..n : u[k] = 10 * u[k - 1] + (d[k] - Zero)
  BY <1>7 DEF F
<1> QED
  BY <1>3, <1>7, <1>11, <1>12 DEF n

\* The sum of a sequence of lengths.
LEMMA TotalSteps ==
  ASSUME NEW d \in Seq(Int)
  PROVE  \E u \in [0..Len(d) -> Int] :
            /\ u[0] = 0
            /\ \A k \in 1..Len(d) : u[k] = u[k - 1] + d[k]
            /\ Total(d) = u[Len(d)]
<1> DEFINE n == Len(d)
<1> DEFINE F(k, v) == v + d[k]
<1> DEFINE Def(w) == w = [k \in 0..n |-> IF k = 0 THEN 0 ELSE F(k, w[k - 1])]
<1> DEFINE w == CHOOSE w : Def(w)
<1>1. n \in Nat /\ n >= 0 /\ n \in Nat /\ 0 \in Int
  OBVIOUS
<1>2. \A k \in 1..n, v \in Int : F(k, v) \in Int
  OBVIOUS
<1>3. Total(d) = w[n]
  BY DEF Total
<1> HIDE DEF F, n
<1> DEFINE Upto(u, m) == u[0] = 0 /\ \A k \in 1..m : u[k] = F(k, u[k - 1])
<1> DEFINE S == {m \in 0..n : \E u \in [0..n -> Int] : Upto(u, m)}
<1>4. 0 \in S
  <2> DEFINE u == [k \in 0..n |-> 0]
  <2>1. u \in [0..n -> Int] /\ Upto(u, 0)
    BY <1>1
  <2> HIDE DEF u, Upto
  <2> QED
    BY <1>1, <2>1
<1>5. ASSUME NEW m \in 0..n - 1, m \in S
      PROVE  m + 1 \in S
  <2>1. PICK u \in [0..n -> Int] : Upto(u, m)
    BY <1>5
  <2> DEFINE x == F(m + 1, u[m])
  <2> DEFINE g == [k \in 0..n |-> IF k = m + 1 THEN x ELSE u[k]]
  <2>2. x \in Int
    <3>1. u[m] \in Int /\ m + 1 \in 1..n
      BY <1>1
    <3> QED
      BY <1>2, <3>1
  <2>3. g \in [0..n -> Int]
    <3> HIDE DEF x
    <3> QED
      BY <2>2
  <2>4. g[0] = 0
    BY <1>1, <2>1
  <2>5. ASSUME NEW k \in 1..m + 1
        PROVE  g[k] = F(k, g[k - 1])
    <3>1. g[k - 1] = u[k - 1] /\ k \in 0..n
      BY <1>1
    <3>2. CASE k = m + 1
      BY <3>1, <3>2
    <3>3. CASE k \in 1..m
      BY <2>1, <3>1, <3>3
    <3> QED
      BY <3>2, <3>3
  <2>6. Upto(g, m + 1)
    BY <2>4, <2>5
  <2> HIDE DEF g, Upto
  <2> QED
    BY <1>1, <2>3, <2>6
<1>6. 0..n \subseteq S
  <2> HIDE DEF S
  <2> QED
    BY <1>1, <1>4, <1>5, BoundedInduction
<1>7. PICK u \in [0..n -> Int] : Upto(u, n)
  <2> HIDE DEF Upto
  <2>1. n \in S /\ n + 0 = n
    <3> HIDE DEF S
    <3> QED
      BY <1>1, <1>6
  <2> QED
    BY <1>1, <2>1
<1>8. Def(u)
  BY <1>1, <1>7
<1>9. Def(w)
  <2> HIDE DEF Def
  <2> QED
    BY <1>8
<1> HIDE DEF w
<1>10. w[0] = 0 /\ \A k \in 1..n : w[k] = F(k, w[k - 1])
  BY <1>1, <1>9
<1>11. w = u
  <2> DEFINE T == {k \in 0..n : w[k + 0] = u[k + 0]}
  <2>1. 0 \in T
    BY <1>1, <1>7, <1>10
  <2>2. \A k \in 0..n - 1 : k \in T => k + 1 \in T
    BY <1>1, <1>7, <1>10
  <2>3. 0..n \subseteq T
    <3> HIDE DEF T
    <3> QED
      BY <1>1, <2>1, <2>2, BoundedInduction
  <2>4. ASSUME NEW k \in 0..n
        PROVE  w[k] = u[k]
    <3>1. k - 0 \in T /\ (k - 0) + 0 = k
      <4> HIDE DEF T
      <4> QED
        BY <1>1, <2>3
    <3> QED
      BY <3>1
  <2> QED
    BY <2>4, <1>8, <1>9
<1>12. \A k \in 1..n : u[k] = u[k - 1] + d[k]
  BY <1>7 DEF F
<1> QED
  BY <1>3, <1>7, <1>11, <1>12 DEF n

\* A sum of lengths that are at most w.
LEMMA TotalAtMost ==
  ASSUME NEW d \in Seq(Int), NEW w \in Int, \A k \in 1..Len(d) : d[k] <= w
  PROVE  Total(d) \in Int /\ Total(d) <= Len(d) * w
<1> DEFINE n == Len(d)
<1>1. n \in Nat /\ \A k \in 1..n : d[k] \in Int /\ d[k] <= w
  OBVIOUS
<1>2. PICK u \in [0..n -> Int] :
        u[0] = 0 /\ (\A k \in 1..n : u[k] = u[k - 1] + d[k]) /\ Total(d) = u[n]
  BY TotalSteps
<1> HIDE DEF n
<1> DEFINE T == {k \in 0..n : u[k] <= k * w}
<1>3. 0 \in T
  BY <1>1, <1>2
<1>4. ASSUME NEW k \in 0..n - 1, k \in T
      PROVE  k + 1 \in T
  <2>1. k + 1 \in 1..n /\ k + 1 - 1 = k /\ k + 1 \in 0..n
    BY <1>1
  <2> DEFINE p == k * w
  <2> DEFINE q == (k + 1) * w
  <2> DEFINE uk == u[k]
  <2> DEFINE dk == d[k + 1]
  <2>2. p \in Int /\ q = p + w
    OBVIOUS
  <2>3. uk \in Int /\ uk <= p /\ dk \in Int /\ dk <= w /\ u[k + 1] = uk + dk
    BY <1>1, <1>2, <1>4, <2>1
  <2> HIDE DEF p, q, uk, dk
  <2>4. u[k + 1] <= q
    BY <2>2, <2>3
  <2> QED
    BY <2>1, <2>4 DEF q
<1>5. 0..n \subseteq T
  <2> HIDE DEF T
  <2> QED
    BY <1>1, <1>3, <1>4, BoundedInduction
<1>6. n \in 0..n /\ u[n] \in Int
  BY <1>1
<1> QED
  BY <1>2, <1>5, <1>6 DEF n

\* What does not repeat itself is no longer than there are things to choose from.
LEMMA NoRepeats ==
  ASSUME NEW S, IsFiniteSet(S), NEW n \in Nat, NEW f \in [1..n -> S],
         \A j, k \in 1..n : f[j] = f[k] => j = k
  PROVE  Cardinality(S) \in Nat /\ n <= Cardinality(S)
<1>1. f \in Injection(1..n, S)
  BY DEF Injection, IsInjective
<1>2. Cardinality(1..n) <= Cardinality(S)
  BY <1>1, FS_Injection
<1>3. Cardinality(1..n) = n
  <2>1. 1 \in Int /\ n \in Int /\ n - 1 + 1 = n
    OBVIOUS
  <2>2. Cardinality(1..n) = IF 1 > n THEN 0 ELSE n - 1 + 1
    BY <2>1, FS_Interval
  <2> QED
    BY <2>1, <2>2
<1>4. Cardinality(S) \in Nat
  BY FS_CardinalityType
<1> QED
  BY <1>2, <1>3, <1>4

\* FlattenSeq appends the sequences from the left.
LEMMA FlattenSteps ==
  ASSUME NEW C, NEW ss \in Seq(Seq(C)), ss # <<>>
  PROVE  \E u \in [1..Len(ss) -> Seq(C)] :
            /\ u[1] = ss[1]
            /\ \A k \in 2..Len(ss) : u[k] = u[k - 1] \o ss[k]
            /\ FlattenSeq(ss) = u[Len(ss)]
<1> DEFINE n == Len(ss)
<1> DEFINE F(k, v) == v \o ss[k]
<1> DEFINE Def(w) == w = [k \in 1..n |-> IF k = 1 THEN ss[k] ELSE F(k, w[k - 1])]
<1> DEFINE w == CHOOSE w : Def(w)
<1>1. n \in Nat /\ n >= 1 /\ n - 1 \in Nat /\ ss[1] \in Seq(C)
  OBVIOUS
<1>2. \A k \in 2..n, v \in Seq(C) : F(k, v) \in Seq(C)
  OBVIOUS
<1>3. FlattenSeq(ss) = w[n]
  BY DEF FlattenSeq
<1> HIDE DEF F, n
<1> DEFINE Upto(u, m) == u[1] = ss[1] /\ \A k \in 2..m : u[k] = F(k, u[k - 1])
<1> DEFINE S == {m \in 0..n - 1 : \E u \in [1..n -> Seq(C)] : Upto(u, m + 1)}
<1>4. 0 \in S
  <2> DEFINE u == [k \in 1..n |-> ss[1]]
  <2>1. u \in [1..n -> Seq(C)] /\ Upto(u, 1)
    BY <1>1
  <2> HIDE DEF u, Upto
  <2> QED
    BY <1>1, <2>1
<1>5. ASSUME NEW m \in 0..n - 1 - 1, m \in S
      PROVE  m + 1 \in S
  <2>1. PICK u \in [1..n -> Seq(C)] : Upto(u, m + 1)
    BY <1>5
  <2> DEFINE x == F(m + 2, u[m + 1])
  <2> DEFINE g == [k \in 1..n |-> IF k = m + 2 THEN x ELSE u[k]]
  <2>2. x \in Seq(C)
    <3>1. u[m + 1] \in Seq(C) /\ m + 2 \in 2..n
      BY <1>1
    <3> QED
      BY <1>2, <3>1
  <2>3. g \in [1..n -> Seq(C)]
    <3> HIDE DEF x
    <3> QED
      BY <2>2
  <2>4. g[1] = ss[1]
    BY <1>1, <2>1
  <2>5. ASSUME NEW k \in 2..m + 2
        PROVE  g[k] = F(k, g[k - 1])
    <3>1. g[k - 1] = u[k - 1] /\ k \in 1..n
      BY <1>1
    <3>2. CASE k = m + 2
      BY <3>1, <3>2
    <3>3. CASE k \in 2..m + 1
      BY <2>1, <3>1, <3>3
    <3> QED
      BY <3>2, <3>3
  <2>6. Upto(g, m + 2)
    BY <2>4, <2>5
  <2> HIDE DEF g, Upto
  <2> QED
    BY <1>1, <2>3, <2>6
<1>6. 0..n - 1 \subseteq S
  <2> HIDE DEF S
  <2> QED
    BY <1>1, <1>4, <1>5, BoundedInduction
<1>7. PICK u \in [1..n -> Seq(C)] : Upto(u, n)
  <2> HIDE DEF Upto
  <2>1. n - 1 \in S /\ n - 1 + 1 = n
    <3> HIDE DEF S
    <3> QED
      BY <1>1, <1>6
  <2> QED
    BY <1>1, <2>1
<1>8. Def(u)
  BY <1>1, <1>7
<1>9. Def(w)
  <2> HIDE DEF Def
  <2> QED
    BY <1>8
<1> HIDE DEF w
<1>10. w[1] = ss[1] /\ \A k \in 2..n : w[k] = F(k, w[k - 1])
  BY <1>1, <1>9
<1>11. w = u
  <2> DEFINE T == {k \in 0..n - 1 : w[k + 1] = u[k + 1]}
  <2>1. 0 \in T
    BY <1>1, <1>7, <1>10
  <2>2. \A k \in 0..n - 1 - 1 : k \in T => k + 1 \in T
    BY <1>1, <1>7, <1>10
  <2>3. 0..n - 1 \subseteq T
    <3> HIDE DEF T
    <3> QED
      BY <1>1, <2>1, <2>2, BoundedInduction
  <2>4. ASSUME NEW k \in 1..n
        PROVE  w[k] = u[k]
    <3>1. k - 1 \in T /\ (k - 1) + 1 = k
      <4> HIDE DEF T
      <4> QED
        BY <1>1, <2>3
    <3> QED
      BY <3>1
  <2> QED
    BY <2>4, <1>8, <1>9
<1>12. \A k \in 2..n : u[k] = u[k - 1] \o ss[k]
  BY <1>7 DEF F
<1> QED
  BY <1>3, <1>7, <1>11, <1>12 DEF n

\* The digits of a number are those of its tenth, and the last one.
LEMMA DigitsSteps ==
  ASSUME NEW n \in Nat
  PROVE  Digits(n) = IF n < 10 THEN <<Zero + n>>
                     ELSE Append(Digits(n \div 10), Zero + (n % 10))
<1> DEFINE E(k, v) == IF k < 10 THEN <<Zero + k>> ELSE Append(v, Zero + (k % 10))
<1> DEFINE Def(f, m) == f = [k \in 0..m |-> E(k, f[k \div 10])]
<1> DEFINE W(m) == CHOOSE f : Def(f, m)
<1>1. \A m : Digits(m) = W(m)[m]
  BY DEF Digits
<1>2. \A k \in Nat : k >= 10 => k \div 10 \in 0..k - 1
  OBVIOUS
<1>3. \A k \in Nat : k < 10 => \A u, v : E(k, u) = E(k, v)
  OBVIOUS
<1>4. \A v : E(n, v) = IF n < 10 THEN <<Zero + n>> ELSE Append(v, Zero + (n % 10))
  OBVIOUS
<1> HIDE DEF E
<1>5. ASSUME NEW m \in Nat
      PROVE  \E f : Def(f, m)
  <2> DEFINE Upto(g, a) == \A k \in Nat : k < a => g[k] = E(k, g[k \div 10])
  <2> DEFINE S == {a \in Nat : \E g : Upto(g, a)}
  <2>1. 0 \in S
    OBVIOUS
  <2>2. ASSUME NEW a \in Nat, a \in S
        PROVE  a + 1 \in S
    <3>1. PICK g : Upto(g, a)
      BY <2>2
    <3> DEFINE x == E(a, g[a \div 10])
    <3> DEFINE h == [k \in Nat |-> IF k = a THEN x ELSE g[k]]
    <3>2. ASSUME NEW k \in Nat, k < a + 1
          PROVE  h[k] = E(k, h[k \div 10])
      <4>1. h[k] = E(k, g[k \div 10])
        BY <3>1, <3>2
      <4>2. CASE k < 10
        BY <1>3, <4>1, <4>2
      <4>3. CASE k >= 10
        <5>1. k \div 10 \in Nat /\ k \div 10 # a
          BY <1>2, <3>2, <4>3
        <5> QED
          BY <4>1, <5>1
      <4> QED
        BY <4>2, <4>3
    <3>3. Upto(h, a + 1)
      BY <3>2
    <3> HIDE DEF h, Upto
    <3> QED
      BY <3>3
  <2>3. m + 1 \in S
    <3>1. Nat \subseteq S
      <4> HIDE DEF S
      <4> QED
        BY <2>1, <2>2, Induction
    <3> HIDE DEF S
    <3> QED
      BY <3>1
  <2>4. PICK g : Upto(g, m + 1)
    BY <2>3
  <2> DEFINE f == [k \in 0..m |-> g[k]]
  <2>5. ASSUME NEW k \in 0..m
        PROVE  f[k] = E(k, f[k \div 10])
    <3>1. f[k] = E(k, g[k \div 10])
      BY <2>4
    <3>2. CASE k < 10
      BY <1>3, <3>1, <3>2
    <3>3. CASE k >= 10
      <4>1. k \div 10 \in 0..m
        BY <1>2, <3>3
      <4> QED
        BY <3>1, <4>1
    <3> QED
      BY <3>2, <3>3
  <2>6. Def(f, m)
    <3>1. f = [k \in 0..m |-> f[k]]
      OBVIOUS
    <3> HIDE DEF f
    <3> QED
      BY <2>5, <3>1
  <2> HIDE DEF Def, f
  <2> QED
    BY <2>6
<1>6. \A m \in Nat : Def(W(m), m)
  <2> HIDE DEF Def
  <2> QED
    BY <1>5
<1> HIDE DEF W
<1>7. \A m \in Nat : \A k \in 0..m : W(m)[k] = E(k, W(m)[k \div 10])
  BY <1>6
<1> HIDE DEF Def
<1>8. ASSUME NEW m \in Nat, NEW a \in 0..m
      PROVE  W(a)[a] = W(m)[a]
  <2> DEFINE T == {k \in 0..a : W(a)[k] # W(m)[k]}
  <2>1. ASSUME NEW k \in T, \A y \in T : k <= y
        PROVE  FALSE
    <3>1. W(a)[k] = E(k, W(a)[k \div 10]) /\ W(m)[k] = E(k, W(m)[k \div 10])
      BY <1>7
    <3>2. CASE k < 10
      BY <1>3, <3>1, <3>2
    <3>3. CASE k >= 10
      <4>1. k \div 10 \in 0..a /\ ~(k <= k \div 10)
        BY <1>2, <3>3
      <4>2. W(a)[k \div 10] = W(m)[k \div 10]
        BY <2>1, <4>1
      <4> QED
        BY <3>1, <4>2
    <3> QED
      BY <3>2, <3>3
  <2>2. T = {}
    <3>1. T \subseteq Nat
      OBVIOUS
    <3> HIDE DEF T
    <3> QED
      BY <2>1, <3>1, Least
  <2> QED
    BY <2>2
<1>9. W(n)[n] = E(n, W(n)[n \div 10])
  BY <1>7
<1>10. n \div 10 \in 0..n
  OBVIOUS
<1>11. W(n)[n \div 10] = Digits(n \div 10)
  BY <1>1, <1>8, <1>10
<1> QED
  BY <1>1, <1>4, <1>9, <1>11

-----------------------------------------------------------------------------
\* Items at most n + 1 deep are made of items at most n deep.
LEMMA NestedSteps ==
  /\ Nested[0] = {}
  /\ \A n \in Nat : Nested[n + 1] = Items(Nested[n])
<1> DEFINE St(k, v) == Items(v)
<1> DEFINE start == {}
<1> DEFINE Def(f) == f = [n \in Nat |-> IF n = 0 THEN start ELSE St(n, f[n - 1])]
<1> DEFINE w == CHOOSE f : Def(f)
<1>1. Nested = w
  BY DEF Nested
<1> HIDE DEF St, start
<1> DEFINE Upto(g, m) == g[0] = start /\ \A k \in 1..m : g[k] = St(k, g[k - 1])
<1> DEFINE S == {m \in Nat : \E g : Upto(g, m)}
<1>2. 0 \in S
  <2> DEFINE g == [k \in Nat |-> start]
  <2>1. Upto(g, 0)
    OBVIOUS
  <2> HIDE DEF g, Upto
  <2> QED
    BY <2>1
<1>3. ASSUME NEW m \in Nat, m \in S
      PROVE  m + 1 \in S
  <2>1. PICK g : Upto(g, m)
    BY <1>3
  <2> DEFINE x == St(m + 1, g[m])
  <2> DEFINE h == [k \in Nat |-> IF k = m + 1 THEN x ELSE g[k]]
  <2>2. h[0] = start
    BY <2>1
  <2>3. ASSUME NEW k \in 1..m + 1
        PROVE  h[k] = St(k, h[k - 1])
    <3>1. h[k - 1] = g[k - 1]
      OBVIOUS
    <3>2. CASE k = m + 1
      BY <3>1, <3>2
    <3>3. CASE k \in 1..m
      BY <2>1, <3>1, <3>3
    <3> QED
      BY <3>2, <3>3
  <2>4. Upto(h, m + 1)
    BY <2>2, <2>3
  <2> HIDE DEF h, Upto
  <2> QED
    BY <2>4
<1>4. \A m \in Nat : \E g : Upto(g, m)
  <2>1. Nat \subseteq S
    <3> HIDE DEF S
    <3> QED
      BY <1>2, <1>3, Induction
  <2> QED
    BY <2>1
<1> DEFINE G(m) == CHOOSE g : Upto(g, m)
<1>5. \A m \in Nat : Upto(G(m), m)
  <2> HIDE DEF Upto
  <2> QED
    BY <1>4
<1> HIDE DEF G
<1>6. ASSUME NEW m \in Nat
      PROVE  \A k \in 0..m : G(m + 1)[k] = G(m)[k]
  <2> DEFINE T == {k \in 0..m : G(m + 1)[k] = G(m)[k]}
  <2>1. Upto(G(m), m) /\ Upto(G(m + 1), m + 1)
    BY <1>5
  <2>2. 0 \in T
    BY <2>1
  <2>3. \A k \in 0..m - 1 : k \in T => k + 1 \in T
    BY <2>1
  <2>4. 0..m \subseteq T
    <3> HIDE DEF T
    <3> QED
      BY <2>2, <2>3, BoundedInduction
  <2> QED
    BY <2>4
<1> DEFINE o == [m \in Nat |-> G(m)[m]]
<1>7. o[0] = start
  BY <1>5
<1>8. ASSUME NEW m \in Nat
      PROVE  o[m + 1] = St(m + 1, o[m])
  <2>1. Upto(G(m + 1), m + 1)
    BY <1>5
  <2>2. G(m + 1)[m + 1] = St(m + 1, G(m + 1)[m])
    BY <2>1
  <2>3. G(m + 1)[m] = G(m)[m]
    BY <1>6
  <2> QED
    BY <2>2, <2>3
<1>9. Def(o)
  <2>1. ASSUME NEW n \in Nat
        PROVE  o[n] = IF n = 0 THEN start ELSE St(n, o[n - 1])
    <3>1. CASE n = 0
      BY <1>7, <3>1
    <3>2. CASE n # 0
      <4>1. n - 1 \in Nat /\ n - 1 + 1 = n
        BY <3>2
      <4> HIDE DEF o
      <4>2. o[n - 1 + 1] = St(n - 1 + 1, o[n - 1])
        BY <1>8, <4>1
      <4> QED
        BY <3>2, <4>1, <4>2
    <3> QED
      BY <3>1, <3>2
  <2>2. o = [n \in Nat |-> o[n]]
    OBVIOUS
  <2> HIDE DEF o
  <2> QED
    BY <2>1, <2>2
<1>10. Def(w)
  <2> HIDE DEF Def, o
  <2> QED
    BY <1>9
<1> HIDE DEF w
<1>11. w[0] = start
  BY <1>10
<1>12. \A n \in Nat : w[n + 1] = St(n + 1, w[n])
  <2>1. ASSUME NEW n \in Nat
        PROVE  w[n + 1] = St(n + 1, w[n])
    <3>1. n + 1 \in Nat /\ n + 1 # 0 /\ n + 1 - 1 = n
      OBVIOUS
    <3> QED
      BY <1>10, <3>1
  <2> QED
    BY <2>1
<1>13. \A n \in Nat : w[n + 1] = Items(w[n])
  BY <1>12 DEF St
<1> QED
  BY <1>1, <1>11, <1>13 DEF start

\* Their texts are made of the texts of what is in them.
LEMMA PrintedSteps ==
  /\ Printed[0] = <<>>
  /\ \A n \in Nat :
       Printed[n + 1] =
         [item \in Nested[n + 1] |-> [depth \in Nat |-> PrintItem(item, depth, Printed[n])]]
<1> DEFINE St(k, v) == [item \in Nested[k] |-> [depth \in Nat |-> PrintItem(item, depth, v)]]
<1> DEFINE start == <<>>
<1> DEFINE Def(f) == f = [n \in Nat |-> IF n = 0 THEN start ELSE St(n, f[n - 1])]
<1> DEFINE w == CHOOSE f : Def(f)
<1>1. Printed = w
  BY DEF Printed
<1> HIDE DEF St, start
<1> DEFINE Upto(g, m) == g[0] = start /\ \A k \in 1..m : g[k] = St(k, g[k - 1])
<1> DEFINE S == {m \in Nat : \E g : Upto(g, m)}
<1>2. 0 \in S
  <2> DEFINE g == [k \in Nat |-> start]
  <2>1. Upto(g, 0)
    OBVIOUS
  <2> HIDE DEF g, Upto
  <2> QED
    BY <2>1
<1>3. ASSUME NEW m \in Nat, m \in S
      PROVE  m + 1 \in S
  <2>1. PICK g : Upto(g, m)
    BY <1>3
  <2> DEFINE x == St(m + 1, g[m])
  <2> DEFINE h == [k \in Nat |-> IF k = m + 1 THEN x ELSE g[k]]
  <2>2. h[0] = start
    BY <2>1
  <2>3. ASSUME NEW k \in 1..m + 1
        PROVE  h[k] = St(k, h[k - 1])
    <3>1. h[k - 1] = g[k - 1]
      OBVIOUS
    <3>2. CASE k = m + 1
      BY <3>1, <3>2
    <3>3. CASE k \in 1..m
      BY <2>1, <3>1, <3>3
    <3> QED
      BY <3>2, <3>3
  <2>4. Upto(h, m + 1)
    BY <2>2, <2>3
  <2> HIDE DEF h, Upto
  <2> QED
    BY <2>4
<1>4. \A m \in Nat : \E g : Upto(g, m)
  <2>1. Nat \subseteq S
    <3> HIDE DEF S
    <3> QED
      BY <1>2, <1>3, Induction
  <2> QED
    BY <2>1
<1> DEFINE G(m) == CHOOSE g : Upto(g, m)
<1>5. \A m \in Nat : Upto(G(m), m)
  <2> HIDE DEF Upto
  <2> QED
    BY <1>4
<1> HIDE DEF G
<1>6. ASSUME NEW m \in Nat
      PROVE  \A k \in 0..m : G(m + 1)[k] = G(m)[k]
  <2> DEFINE T == {k \in 0..m : G(m + 1)[k] = G(m)[k]}
  <2>1. Upto(G(m), m) /\ Upto(G(m + 1), m + 1)
    BY <1>5
  <2>2. 0 \in T
    BY <2>1
  <2>3. \A k \in 0..m - 1 : k \in T => k + 1 \in T
    BY <2>1
  <2>4. 0..m \subseteq T
    <3> HIDE DEF T
    <3> QED
      BY <2>2, <2>3, BoundedInduction
  <2> QED
    BY <2>4
<1> DEFINE o == [m \in Nat |-> G(m)[m]]
<1>7. o[0] = start
  BY <1>5
<1>8. ASSUME NEW m \in Nat
      PROVE  o[m + 1] = St(m + 1, o[m])
  <2>1. Upto(G(m + 1), m + 1)
    BY <1>5
  <2>2. G(m + 1)[m + 1] = St(m + 1, G(m + 1)[m])
    BY <2>1
  <2>3. G(m + 1)[m] = G(m)[m]
    BY <1>6
  <2> QED
    BY <2>2, <2>3
<1>9. Def(o)
  <2>1. ASSUME NEW n \in Nat
        PROVE  o[n] = IF n = 0 THEN start ELSE St(n, o[n - 1])
    <3>1. CASE n = 0
      BY <1>7, <3>1
    <3>2. CASE n # 0
      <4>1. n - 1 \in Nat /\ n - 1 + 1 = n
        BY <3>2
      <4> HIDE DEF o
      <4>2. o[n - 1 + 1] = St(n - 1 + 1, o[n - 1])
        BY <1>8, <4>1
      <4> QED
        BY <3>2, <4>1, <4>2
    <3> QED
      BY <3>1, <3>2
  <2>2. o = [n \in Nat |-> o[n]]
    OBVIOUS
  <2> HIDE DEF o
  <2> QED
    BY <2>1, <2>2
<1>10. Def(w)
  <2> HIDE DEF Def, o
  <2> QED
    BY <1>9
<1> HIDE DEF w
<1>11. w[0] = start
  BY <1>10
<1>12. \A n \in Nat : w[n + 1] = St(n + 1, w[n])
  <2>1. ASSUME NEW n \in Nat
        PROVE  w[n + 1] = St(n + 1, w[n])
    <3>1. n + 1 \in Nat /\ n + 1 # 0 /\ n + 1 - 1 = n
      OBVIOUS
    <3> QED
      BY <1>10, <3>1
  <2> QED
    BY <2>1
<1>13. \A n \in Nat :
         w[n + 1] = [item \in Nested[n + 1] |-> [depth \in Nat |-> PrintItem(item, depth, w[n])]]
  BY <1>12 DEF St
<1> QED
  BY <1>1, <1>11, <1>13 DEF start

\* They fit when what is in them does.
LEMMA FitsSteps ==
  /\ Fits[0] = <<>>
  /\ \A n \in Nat : Fits[n + 1] = [item \in Nested[n + 1] |-> [depth \in Nat |->
              FitsItem(item, depth, Printed[n + 1 - 1], Fits[n])]]
<1> DEFINE St(k, v) == [item \in Nested[k] |-> [depth \in Nat |->
              FitsItem(item, depth, Printed[k - 1], v)]]
<1> DEFINE start == <<>>
<1> DEFINE Def(f) == f = [n \in Nat |-> IF n = 0 THEN start ELSE St(n, f[n - 1])]
<1> DEFINE w == CHOOSE f : Def(f)
<1>1. Fits = w
  BY DEF Fits
<1> HIDE DEF St, start
<1> DEFINE Upto(g, m) == g[0] = start /\ \A k \in 1..m : g[k] = St(k, g[k - 1])
<1> DEFINE S == {m \in Nat : \E g : Upto(g, m)}
<1>2. 0 \in S
  <2> DEFINE g == [k \in Nat |-> start]
  <2>1. Upto(g, 0)
    OBVIOUS
  <2> HIDE DEF g, Upto
  <2> QED
    BY <2>1
<1>3. ASSUME NEW m \in Nat, m \in S
      PROVE  m + 1 \in S
  <2>1. PICK g : Upto(g, m)
    BY <1>3
  <2> DEFINE x == St(m + 1, g[m])
  <2> DEFINE h == [k \in Nat |-> IF k = m + 1 THEN x ELSE g[k]]
  <2>2. h[0] = start
    BY <2>1
  <2>3. ASSUME NEW k \in 1..m + 1
        PROVE  h[k] = St(k, h[k - 1])
    <3>1. h[k - 1] = g[k - 1]
      OBVIOUS
    <3>2. CASE k = m + 1
      BY <3>1, <3>2
    <3>3. CASE k \in 1..m
      BY <2>1, <3>1, <3>3
    <3> QED
      BY <3>2, <3>3
  <2>4. Upto(h, m + 1)
    BY <2>2, <2>3
  <2> HIDE DEF h, Upto
  <2> QED
    BY <2>4
<1>4. \A m \in Nat : \E g : Upto(g, m)
  <2>1. Nat \subseteq S
    <3> HIDE DEF S
    <3> QED
      BY <1>2, <1>3, Induction
  <2> QED
    BY <2>1
<1> DEFINE G(m) == CHOOSE g : Upto(g, m)
<1>5. \A m \in Nat : Upto(G(m), m)
  <2> HIDE DEF Upto
  <2> QED
    BY <1>4
<1> HIDE DEF G
<1>6. ASSUME NEW m \in Nat
      PROVE  \A k \in 0..m : G(m + 1)[k] = G(m)[k]
  <2> DEFINE T == {k \in 0..m : G(m + 1)[k] = G(m)[k]}
  <2>1. Upto(G(m), m) /\ Upto(G(m + 1), m + 1)
    BY <1>5
  <2>2. 0 \in T
    BY <2>1
  <2>3. \A k \in 0..m - 1 : k \in T => k + 1 \in T
    BY <2>1
  <2>4. 0..m \subseteq T
    <3> HIDE DEF T
    <3> QED
      BY <2>2, <2>3, BoundedInduction
  <2> QED
    BY <2>4
<1> DEFINE o == [m \in Nat |-> G(m)[m]]
<1>7. o[0] = start
  BY <1>5
<1>8. ASSUME NEW m \in Nat
      PROVE  o[m + 1] = St(m + 1, o[m])
  <2>1. Upto(G(m + 1), m + 1)
    BY <1>5
  <2>2. G(m + 1)[m + 1] = St(m + 1, G(m + 1)[m])
    BY <2>1
  <2>3. G(m + 1)[m] = G(m)[m]
    BY <1>6
  <2> QED
    BY <2>2, <2>3
<1>9. Def(o)
  <2>1. ASSUME NEW n \in Nat
        PROVE  o[n] = IF n = 0 THEN start ELSE St(n, o[n - 1])
    <3>1. CASE n = 0
      BY <1>7, <3>1
    <3>2. CASE n # 0
      <4>1. n - 1 \in Nat /\ n - 1 + 1 = n
        BY <3>2
      <4> HIDE DEF o
      <4>2. o[n - 1 + 1] = St(n - 1 + 1, o[n - 1])
        BY <1>8, <4>1
      <4> QED
        BY <3>2, <4>1, <4>2
    <3> QED
      BY <3>1, <3>2
  <2>2. o = [n \in Nat |-> o[n]]
    OBVIOUS
  <2> HIDE DEF o
  <2> QED
    BY <2>1, <2>2
<1>10. Def(w)
  <2> HIDE DEF Def, o
  <2> QED
    BY <1>9
<1> HIDE DEF w
<1>11. w[0] = start
  BY <1>10
<1>12. \A n \in Nat : w[n + 1] = St(n + 1, w[n])
  <2>1. ASSUME NEW n \in Nat
        PROVE  w[n + 1] = St(n + 1, w[n])
    <3>1. n + 1 \in Nat /\ n + 1 # 0 /\ n + 1 - 1 = n
      OBVIOUS
    <3> QED
      BY <1>10, <3>1
  <2> QED
    BY <2>1
<1>13. \A n \in Nat : w[n + 1] = [item \in Nested[n + 1] |-> [depth \in Nat |->
              FitsItem(item, depth, Printed[n + 1 - 1], w[n])]]
  BY <1>12 DEF St
<1> QED
  BY <1>1, <1>11, <1>13 DEF start

\* Values at most n + 1 deep are parsed with values at most n deep.
LEMMA ValuesSteps ==
  ASSUME NEW t
  PROVE  /\ ParseValues(t)[0] = [i \in Nat |-> Failed]
         /\ \A n \in Nat :
              ParseValues(t)[n + 1] = [i \in Nat |-> ParseValue(t, i, ParseValues(t)[n])]
<1> DEFINE St(k, v) == [i \in Nat |-> ParseValue(t, i, v)]
<1> DEFINE start == [i \in Nat |-> Failed]
<1> DEFINE Def(f) == f = [n \in Nat |-> IF n = 0 THEN start ELSE St(n, f[n - 1])]
<1> DEFINE w == CHOOSE f : Def(f)
<1>1. ParseValues(t) = w
  BY DEF ParseValues
<1> HIDE DEF St, start
<1> DEFINE Upto(g, m) == g[0] = start /\ \A k \in 1..m : g[k] = St(k, g[k - 1])
<1> DEFINE S == {m \in Nat : \E g : Upto(g, m)}
<1>2. 0 \in S
  <2> DEFINE g == [k \in Nat |-> start]
  <2>1. Upto(g, 0)
    OBVIOUS
  <2> HIDE DEF g, Upto
  <2> QED
    BY <2>1
<1>3. ASSUME NEW m \in Nat, m \in S
      PROVE  m + 1 \in S
  <2>1. PICK g : Upto(g, m)
    BY <1>3
  <2> DEFINE x == St(m + 1, g[m])
  <2> DEFINE h == [k \in Nat |-> IF k = m + 1 THEN x ELSE g[k]]
  <2>2. h[0] = start
    BY <2>1
  <2>3. ASSUME NEW k \in 1..m + 1
        PROVE  h[k] = St(k, h[k - 1])
    <3>1. h[k - 1] = g[k - 1]
      OBVIOUS
    <3>2. CASE k = m + 1
      BY <3>1, <3>2
    <3>3. CASE k \in 1..m
      BY <2>1, <3>1, <3>3
    <3> QED
      BY <3>2, <3>3
  <2>4. Upto(h, m + 1)
    BY <2>2, <2>3
  <2> HIDE DEF h, Upto
  <2> QED
    BY <2>4
<1>4. \A m \in Nat : \E g : Upto(g, m)
  <2>1. Nat \subseteq S
    <3> HIDE DEF S
    <3> QED
      BY <1>2, <1>3, Induction
  <2> QED
    BY <2>1
<1> DEFINE G(m) == CHOOSE g : Upto(g, m)
<1>5. \A m \in Nat : Upto(G(m), m)
  <2> HIDE DEF Upto
  <2> QED
    BY <1>4
<1> HIDE DEF G
<1>6. ASSUME NEW m \in Nat
      PROVE  \A k \in 0..m : G(m + 1)[k] = G(m)[k]
  <2> DEFINE T == {k \in 0..m : G(m + 1)[k] = G(m)[k]}
  <2>1. Upto(G(m), m) /\ Upto(G(m + 1), m + 1)
    BY <1>5
  <2>2. 0 \in T
    BY <2>1
  <2>3. \A k \in 0..m - 1 : k \in T => k + 1 \in T
    BY <2>1
  <2>4. 0..m \subseteq T
    <3> HIDE DEF T
    <3> QED
      BY <2>2, <2>3, BoundedInduction
  <2> QED
    BY <2>4
<1> DEFINE o == [m \in Nat |-> G(m)[m]]
<1>7. o[0] = start
  BY <1>5
<1>8. ASSUME NEW m \in Nat
      PROVE  o[m + 1] = St(m + 1, o[m])
  <2>1. Upto(G(m + 1), m + 1)
    BY <1>5
  <2>2. G(m + 1)[m + 1] = St(m + 1, G(m + 1)[m])
    BY <2>1
  <2>3. G(m + 1)[m] = G(m)[m]
    BY <1>6
  <2> QED
    BY <2>2, <2>3
<1>9. Def(o)
  <2>1. ASSUME NEW n \in Nat
        PROVE  o[n] = IF n = 0 THEN start ELSE St(n, o[n - 1])
    <3>1. CASE n = 0
      BY <1>7, <3>1
    <3>2. CASE n # 0
      <4>1. n - 1 \in Nat /\ n - 1 + 1 = n
        BY <3>2
      <4> HIDE DEF o
      <4>2. o[n - 1 + 1] = St(n - 1 + 1, o[n - 1])
        BY <1>8, <4>1
      <4> QED
        BY <3>2, <4>1, <4>2
    <3> QED
      BY <3>1, <3>2
  <2>2. o = [n \in Nat |-> o[n]]
    OBVIOUS
  <2> HIDE DEF o
  <2> QED
    BY <2>1, <2>2
<1>10. Def(w)
  <2> HIDE DEF Def, o
  <2> QED
    BY <1>9
<1> HIDE DEF w
<1>11. w[0] = start
  BY <1>10
<1>12. \A n \in Nat : w[n + 1] = St(n + 1, w[n])
  <2>1. ASSUME NEW n \in Nat
        PROVE  w[n + 1] = St(n + 1, w[n])
    <3>1. n + 1 \in Nat /\ n + 1 # 0 /\ n + 1 - 1 = n
      OBVIOUS
    <3> QED
      BY <1>10, <3>1
  <2> QED
    BY <2>1
<1>13. \A n \in Nat : w[n + 1] = [i \in Nat |-> ParseValue(t, i, w[n])]
  BY <1>12 DEF St
<1> QED
  BY <1>1, <1>11, <1>13 DEF start

-----------------------------------------------------------------------------
\* Past finds the first place, which lies within the text or right behind it.
LEMMA PastFound ==
  ASSUME NEW t \in Seq(Char), NEW i \in Nat, NEW cs, End \notin cs
  PROVE  /\ Past(t, i, cs) \in i..i + Len(t)
         /\ At(t, Past(t, i, cs)) \notin cs
         /\ \A k \in i..Past(t, i, cs) - 1 : At(t, k) \in cs
<1> DEFINE n == Len(t)
<1> DEFINE T == {j \in Nat : j >= i /\ At(t, j) \notin cs}
<1>1. n \in Nat
  OBVIOUS
<1>2. \E j \in i..i + n : j \in T
  <2>1. CASE i = 0
    <3>1. At(t, 0) = End /\ 0 \in 0..0 + n
      BY <1>1 DEF At
    <3> QED
      BY <2>1, <3>1
  <2>2. CASE i > 0
    <3>1. At(t, i + n) = End /\ i + n \in i..i + n
      BY <1>1, <2>2 DEF At
    <3> QED
      BY <1>1, <3>1
  <2> QED
    BY <2>1, <2>2
<1>3. PICK j \in T : \A y \in T : j <= y
  <2> HIDE DEF T
  <2>1. T \subseteq Nat
    BY DEF T
  <2> QED
    BY <1>2, <2>1, Least
<1>4. j \in i..i + n /\ At(t, j) \notin cs
  BY <1>1, <1>2, <1>3
<1>5. \A k \in i..j - 1 : At(t, k) \in cs
  BY <1>3
<1> HIDE DEF n, T
<1>6. \E a \in i..i + n : At(t, a) \notin cs /\ \A k \in i..a - 1 : At(t, k) \in cs
  BY <1>4, <1>5
<1> QED
  BY <1>6 DEF Past, n

\* Skip takes whitespace only, and all of it.
LEMMA SkipFound ==
  ASSUME NEW t \in Seq(Char), NEW i \in Nat
  PROVE  /\ Skip(t, i) \in i..i + Len(t)
         /\ At(t, Skip(t, i)) \notin 1..Space
         /\ \A k \in i..Skip(t, i) - 1 : At(t, k) \in 1..Space
<1>1. End \notin 1..Space
  BY DEF End, Space
<1> QED
  BY <1>1, PastFound DEF Skip

\* A string is one piece and the string behind that piece.
LEMMA UnescapeSteps ==
  ASSUME NEW t \in Seq(Char)
  PROVE  \A i \in Nat :
           Unescape(t)[i] =
             CASE At(t, i) = End -> Parsed(i, <<>>)
               [] At(t, i) = Quote -> Parsed(i + 1, <<>>)
               [] OTHER -> Parsed(Unescape(t)[i + Width(t, i)].next,
                                  Piece(t, i) \o Unescape(t)[i + Width(t, i)].item)
<1> DEFINE E(i, v) == CASE At(t, i) = End -> Parsed(i, <<>>)
                [] At(t, i) = Quote -> Parsed(i + 1, <<>>)
                [] OTHER -> Parsed(v.next, Piece(t, i) \o v.item)
<1> DEFINE w(i) == i + Width(t, i)
<1> DEFINE n == Len(t)
<1> DEFINE Def(f) == f = [i \in Nat |-> E(i, f[w(i)])]
<1> DEFINE o == CHOOSE f : Def(f)
<1>1. Unescape(t) = o
  BY DEF Unescape
<1>2. n \in Nat
  OBVIOUS
<1>3. \A i \in Nat : (w(i) \in Nat /\ w(i) > i) \/ (\A u, v : E(i, u) = E(i, v))
  BY DEF Width
<1>4. \A i \in Nat : i > n => \A u, v : E(i, u) = E(i, v)
  BY DEF At, End
<1> HIDE DEF E, w, n
<1> DEFINE From(g, m) == \A i \in Nat : i > n - m => g[i] = E(i, g[w(i)])
<1> DEFINE S == {m \in Nat : \E g : From(g, m)}
<1>5. 0 \in S
  <2> DEFINE g == [i \in Nat |-> E(i, 0)]
  <2>1. From(g, 0)
    BY <1>2, <1>4
  <2> HIDE DEF g, From
  <2> QED
    BY <2>1
<1>6. ASSUME NEW m \in Nat, m \in S
      PROVE  m + 1 \in S
  <2>1. PICK g : From(g, m)
    BY <1>6
  <2> DEFINE x == E(n - m, g[w(n - m)])
  <2> DEFINE h == [i \in Nat |-> IF i = n - m THEN x ELSE g[i]]
  <2>2. ASSUME NEW i \in Nat, i > n - (m + 1)
        PROVE  h[i] = E(i, h[w(i)])
    <3>1. i >= n - m
      BY <1>2, <2>2
    <3>2. h[i] = E(i, g[w(i)])
      BY <1>2, <2>1, <3>1
    <3>3. CASE \A u, v : E(i, u) = E(i, v)
      BY <3>2, <3>3
    <3>4. CASE w(i) \in Nat /\ w(i) > i
      <4>1. w(i) # n - m
        BY <1>2, <3>1, <3>4
      <4>2. h[w(i)] = g[w(i)]
        BY <3>4, <4>1
      <4> QED
        BY <3>2, <4>2
    <3> QED
      BY <1>3, <3>3, <3>4
  <2>3. From(h, m + 1)
    BY <2>2
  <2> HIDE DEF h, From
  <2> QED
    BY <2>3
<1>7. n + 1 \in S
  <2>1. Nat \subseteq S
    <3> HIDE DEF S
    <3> QED
      BY <1>5, <1>6, Induction
  <2> HIDE DEF S
  <2> QED
    BY <1>2, <2>1
<1>8. PICK g : From(g, n + 1)
  BY <1>7
<1> DEFINE f == [i \in Nat |-> g[i]]
<1>9. ASSUME NEW i \in Nat
      PROVE  f[i] = E(i, f[w(i)])
  <2>1. g[i] = E(i, g[w(i)])
    BY <1>2, <1>8
  <2>2. CASE \A u, v : E(i, u) = E(i, v)
    BY <2>1, <2>2
  <2>3. CASE w(i) \in Nat
    BY <2>1, <2>3
  <2> QED
    BY <1>3, <2>2, <2>3
<1>10. Def(f)
  <2>1. f = [i \in Nat |-> f[i]]
    OBVIOUS
  <2> HIDE DEF f
  <2> QED
    BY <1>9, <2>1
<1>11. Def(o)
  <2> HIDE DEF Def, f
  <2> QED
    BY <1>10
<1> HIDE DEF o
<1>12. \A i \in Nat : o[i] = E(i, o[w(i)])
  BY <1>11
<1> QED
  BY <1>1, <1>12 DEF E, w

\* The length of a string is counted the same way.
LEMMA RawLengthSteps ==
  ASSUME NEW t \in Seq(Char)
  PROVE  \A i \in Nat :
           RawLength(t)[i] = IF At(t, i) \in {Quote, End} THEN 0
                             ELSE 1 + RawLength(t)[(IF Escape(t, i) THEN i + 2 ELSE i + 1)]
<1> DEFINE E(i, v) == IF At(t, i) \in {Quote, End} THEN 0 ELSE 1 + v
<1> DEFINE w(i) == (IF Escape(t, i) THEN i + 2 ELSE i + 1)
<1> DEFINE n == Len(t)
<1> DEFINE Def(f) == f = [i \in Nat |-> E(i, f[w(i)])]
<1> DEFINE o == CHOOSE f : Def(f)
<1>1. RawLength(t) = o
  BY DEF RawLength
<1>2. n \in Nat
  OBVIOUS
<1>3. \A i \in Nat : (w(i) \in Nat /\ w(i) > i) \/ (\A u, v : E(i, u) = E(i, v))
  OBVIOUS
<1>4. \A i \in Nat : i > n => \A u, v : E(i, u) = E(i, v)
  BY DEF At, End
<1> HIDE DEF E, w, n
<1> DEFINE From(g, m) == \A i \in Nat : i > n - m => g[i] = E(i, g[w(i)])
<1> DEFINE S == {m \in Nat : \E g : From(g, m)}
<1>5. 0 \in S
  <2> DEFINE g == [i \in Nat |-> E(i, 0)]
  <2>1. From(g, 0)
    BY <1>2, <1>4
  <2> HIDE DEF g, From
  <2> QED
    BY <2>1
<1>6. ASSUME NEW m \in Nat, m \in S
      PROVE  m + 1 \in S
  <2>1. PICK g : From(g, m)
    BY <1>6
  <2> DEFINE x == E(n - m, g[w(n - m)])
  <2> DEFINE h == [i \in Nat |-> IF i = n - m THEN x ELSE g[i]]
  <2>2. ASSUME NEW i \in Nat, i > n - (m + 1)
        PROVE  h[i] = E(i, h[w(i)])
    <3>1. i >= n - m
      BY <1>2, <2>2
    <3>2. h[i] = E(i, g[w(i)])
      BY <1>2, <2>1, <3>1
    <3>3. CASE \A u, v : E(i, u) = E(i, v)
      BY <3>2, <3>3
    <3>4. CASE w(i) \in Nat /\ w(i) > i
      <4>1. w(i) # n - m
        BY <1>2, <3>1, <3>4
      <4>2. h[w(i)] = g[w(i)]
        BY <3>4, <4>1
      <4> QED
        BY <3>2, <4>2
    <3> QED
      BY <1>3, <3>3, <3>4
  <2>3. From(h, m + 1)
    BY <2>2
  <2> HIDE DEF h, From
  <2> QED
    BY <2>3
<1>7. n + 1 \in S
  <2>1. Nat \subseteq S
    <3> HIDE DEF S
    <3> QED
      BY <1>5, <1>6, Induction
  <2> HIDE DEF S
  <2> QED
    BY <1>2, <2>1
<1>8. PICK g : From(g, n + 1)
  BY <1>7
<1> DEFINE f == [i \in Nat |-> g[i]]
<1>9. ASSUME NEW i \in Nat
      PROVE  f[i] = E(i, f[w(i)])
  <2>1. g[i] = E(i, g[w(i)])
    BY <1>2, <1>8
  <2>2. CASE \A u, v : E(i, u) = E(i, v)
    BY <2>1, <2>2
  <2>3. CASE w(i) \in Nat
    BY <2>1, <2>3
  <2> QED
    BY <1>3, <2>2, <2>3
<1>10. Def(f)
  <2>1. f = [i \in Nat |-> f[i]]
    OBVIOUS
  <2> HIDE DEF f
  <2> QED
    BY <1>9, <2>1
<1>11. Def(o)
  <2> HIDE DEF Def, f
  <2> QED
    BY <1>10
<1> HIDE DEF o
<1>12. \A i \in Nat : o[i] = E(i, o[w(i)])
  BY <1>11
<1> QED
  BY <1>1, <1>12 DEF E, w

\* A result that takes some of the text, or fails, as every result behind the text does.
Advances(t, i, r) ==
    /\ r.next \in Nat
    /\ r.next = 0 \/ (r.next > i /\ i <= Len(t))

\* The place of what follows the element at i.
Behind(t, i, kind, value) == Skip(t, ParseElement(t, i, kind, value).next)

\* Elements are one element and the elements behind the comma that follows it.
LEMMA ElementsSteps ==
  ASSUME NEW t \in Seq(Char), NEW kind \in {"array", "object"}, NEW value,
         \A i \in Nat : Advances(t, i, ParseElement(t, i, kind, value))
  PROVE  \A i \in Nat :
           ParseElements(t, kind, value)[i] =
             CASE ParseElement(t, i, kind, value).next # 0
                  /\ At(t, Behind(t, i, kind, value)) = Comma
                  /\ ParseElements(t, kind, value)[Skip(t, Behind(t, i, kind, value) + 1)].next
                       # 0 ->
                    Parsed(ParseElements(t, kind, value)
                             [Skip(t, Behind(t, i, kind, value) + 1)].next,
                           <<ParseElement(t, i, kind, value).item>>
                           \o ParseElements(t, kind, value)
                               [Skip(t, Behind(t, i, kind, value) + 1)].item)
               [] ParseElement(t, i, kind, value).next # 0
                  /\ At(t, Behind(t, i, kind, value)) = Closing(kind) ->
                    Parsed(Behind(t, i, kind, value) + 1,
                           <<ParseElement(t, i, kind, value).item>>)
               [] OTHER -> Failed
<1> DEFINE E(i, v) ==
             CASE ParseElement(t, i, kind, value).next # 0
                  /\ At(t, Behind(t, i, kind, value)) = Comma
                  /\ v.next # 0 ->
                    Parsed(v.next, <<ParseElement(t, i, kind, value).item>> \o v.item)
               [] ParseElement(t, i, kind, value).next # 0
                  /\ At(t, Behind(t, i, kind, value)) = Closing(kind) ->
                    Parsed(Behind(t, i, kind, value) + 1,
                           <<ParseElement(t, i, kind, value).item>>)
               [] OTHER -> Failed
<1> DEFINE w(i) == Skip(t, Behind(t, i, kind, value) + 1)
<1> DEFINE n == Len(t)
<1> DEFINE Def(f) == f = [i \in Nat |-> E(i, f[w(i)])]
<1> DEFINE o == CHOOSE f : Def(f)
<1>1. ParseElements(t, kind, value) = o
  BY DEF ParseElements, Elements, Behind
<1>2. n \in Nat
  OBVIOUS
<1>3. \A i \in Nat : (w(i) \in Nat /\ w(i) > i) \/ (\A u, v : E(i, u) = E(i, v))
  <2>1. ASSUME NEW i \in Nat, ParseElement(t, i, kind, value).next # 0
        PROVE  w(i) \in Nat /\ w(i) > i
    <3>1. ParseElement(t, i, kind, value).next \in Nat
          /\ ParseElement(t, i, kind, value).next > i
      BY <2>1 DEF Advances
    <3>2. Behind(t, i, kind, value) \in Nat /\ Behind(t, i, kind, value) > i
      <4> DEFINE j == ParseElement(t, i, kind, value).next
      <4>1. Skip(t, j) \in j..j + Len(t)
        BY <3>1, SkipFound
      <4> QED
        BY <3>1, <4>1 DEF Behind
    <3>3. w(i) \in Behind(t, i, kind, value) + 1..Behind(t, i, kind, value) + 1 + Len(t)
      <4>1. Behind(t, i, kind, value) + 1 \in Nat
        BY <3>2
      <4> QED
        BY <4>1, SkipFound DEF w
    <3> QED
      BY <3>2, <3>3
  <2> HIDE DEF w
  <2> QED
    BY <2>1
<1>4. \A i \in Nat : i > n => \A u, v : E(i, u) = E(i, v)
  BY DEF Advances
<1> HIDE DEF E, w, n
<1> DEFINE From(g, m) == \A i \in Nat : i > n - m => g[i] = E(i, g[w(i)])
<1> DEFINE S == {m \in Nat : \E g : From(g, m)}
<1>5. 0 \in S
  <2> DEFINE g == [i \in Nat |-> E(i, 0)]
  <2>1. From(g, 0)
    BY <1>2, <1>4
  <2> HIDE DEF g, From
  <2> QED
    BY <2>1
<1>6. ASSUME NEW m \in Nat, m \in S
      PROVE  m + 1 \in S
  <2>1. PICK g : From(g, m)
    BY <1>6
  <2> DEFINE x == E(n - m, g[w(n - m)])
  <2> DEFINE h == [i \in Nat |-> IF i = n - m THEN x ELSE g[i]]
  <2>2. ASSUME NEW i \in Nat, i > n - (m + 1)
        PROVE  h[i] = E(i, h[w(i)])
    <3>1. i >= n - m
      BY <1>2, <2>2
    <3>2. h[i] = E(i, g[w(i)])
      BY <1>2, <2>1, <3>1
    <3>3. CASE \A u, v : E(i, u) = E(i, v)
      BY <3>2, <3>3
    <3>4. CASE w(i) \in Nat /\ w(i) > i
      <4>1. w(i) # n - m
        BY <1>2, <3>1, <3>4
      <4>2. h[w(i)] = g[w(i)]
        BY <3>4, <4>1
      <4> QED
        BY <3>2, <4>2
    <3> QED
      BY <1>3, <3>3, <3>4
  <2>3. From(h, m + 1)
    BY <2>2
  <2> HIDE DEF h, From
  <2> QED
    BY <2>3
<1>7. n + 1 \in S
  <2>1. Nat \subseteq S
    <3> HIDE DEF S
    <3> QED
      BY <1>5, <1>6, Induction
  <2> HIDE DEF S
  <2> QED
    BY <1>2, <2>1
<1>8. PICK g : From(g, n + 1)
  BY <1>7
<1> DEFINE f == [i \in Nat |-> g[i]]
<1>9. ASSUME NEW i \in Nat
      PROVE  f[i] = E(i, f[w(i)])
  <2>1. g[i] = E(i, g[w(i)])
    BY <1>2, <1>8
  <2>2. CASE \A u, v : E(i, u) = E(i, v)
    BY <2>1, <2>2
  <2>3. CASE w(i) \in Nat
    BY <2>1, <2>3
  <2> QED
    BY <1>3, <2>2, <2>3
<1>10. Def(f)
  <2>1. f = [i \in Nat |-> f[i]]
    OBVIOUS
  <2> HIDE DEF f
  <2> QED
    BY <1>9, <2>1
<1>11. Def(o)
  <2> HIDE DEF Def, f
  <2> QED
    BY <1>10
<1> HIDE DEF o
<1>12. \A i \in Nat : o[i] = E(i, o[w(i)])
  BY <1>11
<1> QED
  BY <1>1, <1>12 DEF E, w

-----------------------------------------------------------------------------
(* Texts, and where they stand in a text.                                  *)

\* s stands at place i of t, or as much of it as there is before the end of t.
StandsAt(t, i, s) == \A k \in 1..Len(s) : i + k - 1 <= Len(t) => t[i + k - 1] = s[k]

\* The end of t comes after it.
Whole(t, i, s) == i + Len(s) - 1 <= Len(t)

\* Two texts in a row stand one behind the other.
LEMMA StandsConcat ==
  ASSUME NEW t \in Seq(Char), NEW i \in Nat \ {0}, NEW a \in Seq(Char), NEW b \in Seq(Char),
         StandsAt(t, i, a \o b)
  PROVE  StandsAt(t, i, a) /\ StandsAt(t, i + Len(a), b)
<1>1. \A k \in 1..Len(a) : (a \o b)[k] = a[k]
  OBVIOUS
<1>2. \A k \in 1..Len(b) : (a \o b)[Len(a) + k] = b[k]
  OBVIOUS
<1>3. Len(a) \in Nat /\ Len(b) \in Nat /\ Len(a \o b) = Len(a) + Len(b)
  OBVIOUS
<1>4. StandsAt(t, i, a)
  BY <1>1, <1>3 DEF StandsAt
<1>5. ASSUME NEW k \in 1..Len(b), i + Len(a) + k - 1 <= Len(t)
      PROVE  t[i + Len(a) + k - 1] = b[k]
  <2>1. Len(a) + k \in 1..Len(a \o b) /\ i + (Len(a) + k) - 1 <= Len(t)
    BY <1>3, <1>5
  <2>2. t[i + (Len(a) + k) - 1] = (a \o b)[Len(a) + k]
    BY <2>1 DEF StandsAt
  <2>3. i + (Len(a) + k) - 1 = i + Len(a) + k - 1
    BY <1>3
  <2> QED
    BY <1>2, <2>2, <2>3
<1> QED
  BY <1>4, <1>5 DEF StandsAt

\* The first character of what stands somewhere.
LEMMA StandsFirst ==
  ASSUME NEW t \in Seq(Char), NEW i \in Nat \ {0}, NEW s \in Seq(Char), Len(s) >= 1,
         StandsAt(t, i, s)
  PROVE  At(t, i) = IF i <= Len(t) THEN s[1] ELSE End
<1>1. Len(t) \in Nat /\ Len(s) \in Nat
  OBVIOUS
<1>2. i <= Len(t) => t[i] = s[1]
  <2>1. 1 \in 1..Len(s) /\ i + 1 - 1 = i
    BY <1>1
  <2> QED
    BY <2>1 DEF StandsAt
<1> QED
  BY <1>1, <1>2 DEF At

\* The places of two sequences in a row.
LEMMA ConcatPlaces ==
  ASSUME NEW C, NEW a \in Seq(C), NEW b \in Seq(C)
  PROVE  /\ a \o b \in Seq(C)
         /\ Len(a) \in Nat /\ Len(b) \in Nat /\ Len(a \o b) = Len(a) + Len(b)
         /\ \A k \in 1..Len(a) : (a \o b)[k] = a[k]
         /\ \A k \in 1..Len(b) : (a \o b)[Len(a) + k] = b[k]
         /\ Len(a) >= 1 => (a \o b)[1] = a[1]
OBVIOUS

\* Where each of the sequences that FlattenSeq appends begins in the whole.
LEMMA FlattenOffsets ==
  ASSUME NEW C, NEW ss \in Seq(Seq(C))
  PROVE  \E o \in [0..Len(ss) -> Nat] :
            /\ o[0] = 0
            /\ \A k \in 1..Len(ss) : o[k] = o[k - 1] + Len(ss[k])
            /\ FlattenSeq(ss) \in Seq(C)
            /\ Len(FlattenSeq(ss)) = o[Len(ss)]
            /\ \A k \in 1..Len(ss) : \A j \in 1..Len(ss[k]) :
                 o[k - 1] + j \in 1..o[Len(ss)] /\ FlattenSeq(ss)[o[k - 1] + j] = ss[k][j]
<1> DEFINE n == Len(ss)
<1>1. n \in Nat
  OBVIOUS
<1>2. CASE ss = <<>>
  <2> DEFINE o == [k \in 0..0 |-> 0]
  <2>1. n = 0 /\ FlattenSeq(ss) = <<>>
    BY <1>2 DEF FlattenSeq
  <2>2. o \in [0..n -> Nat] /\ o[0] = 0
    BY <2>1
  <2>3. \A k \in 1..n : FALSE
    BY <2>1
  <2>4. <<>> \in Seq(C) /\ Len(<<>>) = 0
    OBVIOUS
  <2> HIDE DEF o
  <2> QED
    BY <2>1, <2>2, <2>3, <2>4
<1>3. CASE ss # <<>>
  <2>1. PICK u \in [1..n -> Seq(C)] :
          /\ u[1] = ss[1]
          /\ \A k \in 2..n : u[k] = u[k - 1] \o ss[k]
          /\ FlattenSeq(ss) = u[n]
    BY <1>3, FlattenSteps
  <2>2. n >= 1 /\ \A k \in 1..n : ss[k] \in Seq(C) /\ u[k] \in Seq(C)
    <3>1. n >= 1
      BY <1>3, EmptySeq
    <3>2. \A k \in 1..n : ss[k] \in Seq(C)
      OBVIOUS
    <3> QED
      BY <2>1, <3>1, <3>2
  <2>3. \A k \in 1..n : Len(ss[k]) \in Nat /\ Len(u[k]) \in Nat
    BY <2>2
  <2> HIDE DEF n
  <2> DEFINE o == [k \in 0..n |-> IF k = 0 THEN 0 ELSE Len(u[k])]
  <2>4. o \in [0..n -> Nat] /\ o[0] = 0 /\ o[n] = Len(u[n])
    BY <1>1, <2>2, <2>3
  <2>5. ASSUME NEW k \in 1..n
        PROVE  o[k] = o[k - 1] + Len(ss[k])
    <3>1. CASE k = 1
      <4>1. o[1] = Len(ss[1]) /\ Len(ss[1]) \in Nat
        BY <1>1, <2>1, <2>2, <2>3
      <4> QED
        BY <2>4, <3>1, <4>1
    <3>2. CASE k # 1
      <4>1. k \in 2..n /\ k - 1 \in 1..n
        BY <1>1, <3>2
      <4>2. Len(u[k - 1] \o ss[k]) = Len(u[k - 1]) + Len(ss[k])
        BY <2>2, <4>1
      <4>3. o[k] = Len(u[k]) /\ o[k - 1] = Len(u[k - 1])
        BY <1>1, <4>1
      <4>4. u[k] = u[k - 1] \o ss[k]
        BY <2>1, <4>1
      <4> HIDE DEF o
      <4> QED
        BY <4>2, <4>3, <4>4
    <3> QED
      BY <3>1, <3>2
  <2>11. \A k \in 1..n : o[k] = Len(u[k])
    BY <1>1
  <2> HIDE DEF o
  <2> DEFINE Step(k) == u[k] = u[k - 1] \o ss[k]
  <2>12. \A k \in 2..n : Step(k)
    BY <2>1
  <2> DEFINE T == {m \in 0..n : \A k \in 1..m : \A j \in 1..Len(ss[k]) :
                     o[k - 1] + j \in 1..o[m] /\ u[m][o[k - 1] + j] = ss[k][j]}
  <2>6. 0 \in T
    BY <1>1
  <2>7. ASSUME NEW m \in 0..n - 1, m \in T
        PROVE  m + 1 \in T
    <3>1. m + 1 \in 1..n /\ m + 1 - 1 = m
      BY <1>1
    <3>2. \A k \in 1..m : \A j \in 1..Len(ss[k]) :
             o[k - 1] + j \in 1..o[m] /\ u[m][o[k - 1] + j] = ss[k][j]
      BY <2>7
    <3> HIDE DEF T
    <3>3. o[m] \in Nat /\ o[m + 1] \in Nat /\ o[m + 1] = o[m] + Len(ss[m + 1])
          /\ Len(ss[m + 1]) \in Nat
      <4>1. o[m + 1] = o[m] + Len(ss[m + 1])
        BY <2>5, <3>1
      <4> QED
        BY <1>1, <2>3, <2>4, <3>1, <4>1
    <3>4. m # 0 => /\ \A j \in 1..o[m] : u[m + 1][j] = u[m][j]
                   /\ \A j \in 1..Len(ss[m + 1]) : u[m + 1][o[m] + j] = ss[m + 1][j]
      <4> SUFFICES ASSUME m # 0
                   PROVE  /\ \A j \in 1..o[m] : u[m + 1][j] = u[m][j]
                          /\ \A j \in 1..Len(ss[m + 1]) : u[m + 1][o[m] + j] = ss[m + 1][j]
        OBVIOUS
      <4>1. m \in 1..n /\ m + 1 \in 2..n
        BY <1>1
      <4>2. Step(m + 1)
        <5> HIDE DEF Step
        <5> QED
          BY <2>12, <4>1
      <4> DEFINE a == u[m]
      <4> DEFINE b == ss[m + 1]
      <4>3. a \in Seq(C) /\ b \in Seq(C) /\ o[m] = Len(a) /\ u[m + 1] = a \o b
        BY <2>2, <2>11, <3>1, <4>1, <4>2
      <4>4. /\ \A j \in 1..Len(a) : (a \o b)[j] = a[j]
            /\ \A j \in 1..Len(b) : (a \o b)[Len(a) + j] = b[j]
        <5> HIDE DEF a, b
        <5> QED
          BY <4>3, ConcatPlaces
      <4>5. /\ \A j \in 1..o[m] : u[m + 1][j] = a[j]
            /\ \A j \in 1..Len(b) : u[m + 1][o[m] + j] = b[j]
        <5> HIDE DEF a, b
        <5> QED
          BY <4>3, <4>4
      <4> QED
        BY <4>5
    <3>5. ASSUME NEW k \in 1..m + 1, NEW j \in 1..Len(ss[k])
          PROVE  o[k - 1] + j \in 1..o[m + 1] /\ u[m + 1][o[k - 1] + j] = ss[k][j]
      <4>1. CASE k = m + 1 /\ m = 0
        <5>1. o[k - 1] = 0 /\ o[m] = 0 /\ u[m + 1] = ss[k]
          BY <2>1, <2>4, <4>1
        <5>2. j \in 1..o[m + 1]
          BY <3>3, <4>1, <5>1
        <5> QED
          BY <5>1, <5>2
      <4>2. CASE k = m + 1 /\ m # 0
        <5>1. k - 1 = m /\ j \in 1..Len(ss[m + 1])
          BY <4>2
        <5>2. o[m] + j \in 1..o[m + 1]
          BY <3>3, <5>1, SMTT(30)
        <5>3. u[m + 1][o[m] + j] = ss[k][j]
          BY <3>4, <4>2, <5>1
        <5> QED
          BY <5>1, <5>2, <5>3
      <4>3. CASE k \in 1..m
        <5>1. o[k - 1] + j \in 1..o[m] /\ u[m][o[k - 1] + j] = ss[k][j] /\ m # 0
          BY <3>2, <4>3
        <5>2. u[m + 1][o[k - 1] + j] = u[m][o[k - 1] + j]
          BY <3>4, <5>1
        <5>3. o[m] <= o[m + 1]
          BY <3>3
        <5> QED
          BY <3>3, <5>1, <5>2, <5>3, SMTT(30)
      <4> QED
        BY <4>1, <4>2, <4>3
    <3> QED
      BY <1>1, <3>1, <3>5 DEF T
  <2>8. n \in T
    <3>1. 0..n \subseteq T
      <4> HIDE DEF T
      <4> QED
        BY <1>1, <2>6, <2>7, BoundedInduction
    <3> HIDE DEF T
    <3> QED
      BY <1>1, <3>1
  <2>9. FlattenSeq(ss) \in Seq(C) /\ Len(FlattenSeq(ss)) = o[n]
    <3>1. n \in 1..n
      BY <1>1, <2>2
    <3> QED
      BY <2>1, <2>2, <2>11, <3>1
  <2>10. \A k \in 1..n : \A j \in 1..Len(ss[k]) :
            o[k - 1] + j \in 1..o[n] /\ FlattenSeq(ss)[o[k - 1] + j] = ss[k][j]
    BY <2>1, <2>8
  <2> QED
    BY <2>4, <2>5, <2>9, <2>10 DEF n
<1> QED
  BY <1>2, <1>3

\* Where the sequences are no longer than the lengths summed up, nor is the whole.
LEMMA TotalBound ==
  ASSUME NEW d \in Seq(Int), NEW o \in [0..Len(d) -> Nat], o[0] = 0,
         \A k \in 1..Len(d) : o[k] - o[k - 1] <= d[k]
  PROVE  Total(d) \in Int /\ o[Len(d)] <= Total(d)
<1> DEFINE n == Len(d)
<1>1. n \in Nat /\ \A k \in 1..n : d[k] \in Int
  OBVIOUS
<1>2. PICK u \in [0..n -> Int] :
        u[0] = 0 /\ (\A k \in 1..n : u[k] = u[k - 1] + d[k]) /\ Total(d) = u[n]
  BY TotalSteps
<1>3. \A k \in 1..n : o[k] - o[k - 1] <= d[k]
  OBVIOUS
<1>4. o \in [0..n -> Nat]
  OBVIOUS
<1> HIDE DEF n
<1> DEFINE T == {k \in 0..n : o[k] <= u[k]}
<1>5. 0 \in T
  BY <1>1, <1>2
<1>6. ASSUME NEW k \in 0..n - 1, k \in T
      PROVE  k + 1 \in T
  <2>1. k + 1 \in 1..n /\ k + 1 - 1 = k /\ k + 1 \in 0..n
    BY <1>1
  <2>2. u[k + 1] = u[k] + d[k + 1] /\ o[k + 1] - o[k] <= d[k + 1]
    BY <1>2, <1>3, <2>1
  <2>3. u[k] \in Int /\ u[k + 1] \in Int
    BY <1>1, <1>2, <2>1
  <2>4. o[k] \in Nat /\ o[k + 1] \in Nat /\ d[k + 1] \in Int
    BY <1>1, <1>4, <2>1
  <2> QED
    BY <1>6, <2>1, <2>2, <2>3, <2>4, SMTT(30)
<1>7. n \in T
  <2>1. 0..n \subseteq T
    <3> HIDE DEF T
    <3> QED
      BY <1>1, <1>5, <1>6, BoundedInduction
  <2> HIDE DEF T
  <2> QED
    BY <1>1, <2>1
<1> QED
  BY <1>1, <1>2, <1>7 DEF n

\* What stands somewhere stands there sequence by sequence.
LEMMA StandsFlat ==
  ASSUME NEW t \in Seq(Char), NEW i \in Nat \ {0}, NEW ss \in Seq(Seq(Char)),
         NEW o \in [0..Len(ss) -> Nat],
         \A k \in 1..Len(ss) : \A j \in 1..Len(ss[k]) :
            o[k - 1] + j \in 1..o[Len(ss)] /\ FlattenSeq(ss)[o[k - 1] + j] = ss[k][j],
         Len(FlattenSeq(ss)) = o[Len(ss)],
         StandsAt(t, i, FlattenSeq(ss))
  PROVE  \A k \in 1..Len(ss) : StandsAt(t, i + o[k - 1], ss[k])
<1> SUFFICES ASSUME NEW k \in 1..Len(ss), NEW j \in 1..Len(ss[k]),
                    i + o[k - 1] + j - 1 <= Len(t)
             PROVE  t[i + o[k - 1] + j - 1] = ss[k][j]
  BY DEF StandsAt
<1>1. o[k - 1] \in Nat /\ Len(ss[k]) \in Nat
  <2>1. Len(ss) \in Nat /\ ss[k] \in Seq(Char)
    OBVIOUS
  <2>2. k - 1 \in 0..Len(ss)
    BY <2>1
  <2>3. Len(ss[k]) \in Nat
    BY <2>1
  <2> QED
    BY <2>2, <2>3
<1>2. i + (o[k - 1] + j) - 1 = i + o[k - 1] + j - 1
  BY <1>1
<1>3. o[k - 1] + j \in 1..Len(FlattenSeq(ss)) /\ FlattenSeq(ss)[o[k - 1] + j] = ss[k][j]
  OBVIOUS
<1> QED
  BY <1>2, <1>3 DEF StandsAt

-----------------------------------------------------------------------------
(* Escapes.                                                                *)

\* The letters of the escapes are letters, each of one character.
LEMMA LetterShape ==
  /\ DOMAIN Letter = {8, 9, 10, 12, 13}
  /\ Letter[8] = 98 /\ Letter[9] = 116 /\ Letter[10] = 110 /\ Letter[12] = 102 /\ Letter[13] = 114
BY DEF Letter

\* The letter of an escape stands for the character it was written for.
LEMMA UnescapedLetter ==
  /\ \A c \in DOMAIN Letter : Letter[c] \in Char /\ Letter[c] # LetterU /\ Unescaped(Letter[c]) = c
  /\ \A c \in {Quote, Backslash} : Unescaped(c) = c
<1>1. ASSUME NEW c \in DOMAIN Letter, NEW d \in DOMAIN Letter, Letter[c] = Letter[d]
      PROVE  c = d
  BY <1>1, LetterShape
<1>2. \A c \in {Quote, Backslash} : \A d \in DOMAIN Letter : Letter[d] # c
  BY LetterShape DEF Quote, Backslash
<1>3. \A c \in DOMAIN Letter : Letter[c] \in Char /\ Letter[c] # LetterU
  BY LetterShape DEF Char, LetterU
<1>4. ASSUME NEW c \in DOMAIN Letter
      PROVE  Unescaped(Letter[c]) = c
  <2>1. \E d \in DOMAIN Letter : Letter[d] = Letter[c]
    OBVIOUS
  <2>2. (CHOOSE d \in DOMAIN Letter : Letter[d] = Letter[c]) = c
    BY <1>1
  <2> QED
    BY <2>1, <2>2 DEF Unescaped
<1> QED
  BY <1>2, <1>3, <1>4 DEF Unescaped

\* An escaped character is text, and does not look like the end of a string.
LEMMA EscapedShape ==
  ASSUME NEW c \in Char
  PROVE  /\ Escaped(c) \in Seq(Char)
         /\ Len(Escaped(c)) = IF c \in DOMAIN Letter \union {Quote, Backslash} THEN 2
                              ELSE IF c < Space THEN 6 ELSE 1
         /\ Escaped(c)[1] \notin {Quote, End}
<1>1. CASE c \in {Quote, Backslash}
  <2>1. Escaped(c) = <<Backslash, c>>
    BY <1>1, LetterShape DEF Escaped, Quote, Backslash, Space
  <2> QED
    BY <1>1, <2>1 DEF Char, Quote, Backslash, End
<1>2. CASE c \in DOMAIN Letter
  <2>1. Escaped(c) = <<Backslash, Letter[c]>>
    BY <1>2, LetterShape DEF Escaped, Quote, Backslash
  <2>2. Letter[c] \in Char
    BY <1>2, UnescapedLetter
  <2> QED
    BY <1>2, <2>1, <2>2 DEF Char, Quote, Backslash, End
<1>3. CASE c < Space /\ c \notin DOMAIN Letter
  <2>1. Escaped(c) = <<Backslash, LetterU, Zero, Zero, HexDigit(c \div 16), HexDigit(c % 16)>>
    BY <1>3 DEF Escaped, Quote, Backslash, Space, Char
  <2>2. HexDigit(c \div 16) \in Char /\ HexDigit(c % 16) \in Char
    BY <1>3 DEF Char, Space, HexDigit, Zero
  <2> QED
    BY <1>3, <2>1, <2>2 DEF Char, Quote, Backslash, LetterU, Zero, Space, End
<1>4. CASE c \notin {Quote, Backslash} /\ c \notin DOMAIN Letter /\ ~(c < Space)
  <2>1. Escaped(c) = <<c>>
    BY <1>4 DEF Escaped
  <2> QED
    BY <1>4, <2>1 DEF Char, End
<1> QED
  BY <1>1, <1>2, <1>3, <1>4

\* The characters of two hexadecimal digits stand for the number they were made from.
LEMMA HexRead ==
  ASSUME NEW c \in 1..31
  PROVE  /\ Hex(HexDigit(c \div 16)) = c \div 16 /\ Hex(HexDigit(c % 16)) = c % 16
         /\ 16 * (c \div 16) + (c % 16) = c
<1>1. c \div 16 \in 0..1 /\ c % 16 \in 0..15 /\ 16 * (c \div 16) + (c % 16) = c
  OBVIOUS
<1>2. \A d \in 0..15 : Hex(HexDigit(d)) = d
  BY DEF Hex, HexDigit, Zero, Digit
<1> QED
  BY <1>1, <1>2

\* An escaped character is read back as one piece.
LEMMA PieceRead ==
  ASSUME NEW t \in Seq(Char), NEW i \in Nat \ {0}, NEW c \in Char,
         StandsAt(t, i, Escaped(c)), Whole(t, i, Escaped(c))
  PROVE  Piece(t, i) = <<c>> /\ Width(t, i) = Len(Escaped(c))
<1>1. ASSUME NEW k \in 1..Len(Escaped(c))
      PROVE  At(t, i + k - 1) = Escaped(c)[k]
  <2>1. i + k - 1 \in 1..Len(t) /\ t[i + k - 1] = Escaped(c)[k]
    BY EscapedShape DEF StandsAt, Whole
  <2> QED
    BY <2>1 DEF At
<1>2. CASE c \in {Quote, Backslash}
  <2>1. Escaped(c) = <<Backslash, c>>
    BY <1>2, LetterShape, SMTT(30) DEF Escaped, Quote, Backslash, Space
  <2>2. At(t, i) = Backslash /\ At(t, i + 1) = c
    BY <1>1, <2>1, SMTT(30)
  <2> QED
    BY <1>2, <2>1, <2>2, UnescapedLetter DEF Piece, Width, Escape, Quote, Backslash, LetterU
<1>3. CASE c \in DOMAIN Letter
  <2>1. Escaped(c) = <<Backslash, Letter[c]>>
    BY <1>3, LetterShape DEF Escaped, Quote, Backslash
  <2>2. At(t, i) = Backslash /\ At(t, i + 1) = Letter[c]
    <3>1. Len(Escaped(c)) = 2 /\ Escaped(c)[1] = Backslash /\ Escaped(c)[2] = Letter[c]
      BY <2>1
    <3>2. At(t, i + 1 - 1) = Escaped(c)[1] /\ At(t, i + 2 - 1) = Escaped(c)[2]
      BY <1>1, <3>1
    <3> QED
      BY <3>1, <3>2
  <2> QED
    BY <1>3, <2>1, <2>2, UnescapedLetter DEF Piece, Width, Escape
<1>4. CASE c < Space /\ c \notin DOMAIN Letter
  <2>1. Escaped(c) = <<Backslash, LetterU, Zero, Zero, HexDigit(c \div 16), HexDigit(c % 16)>>
    BY <1>4 DEF Escaped, Quote, Backslash, Space, Char
  <2> DEFINE e == Escaped(c)
  <2>2. Len(e) = 6 /\ e[1] = Backslash /\ e[2] = LetterU /\ e[3] = Zero /\ e[4] = Zero
        /\ e[5] = HexDigit(c \div 16) /\ e[6] = HexDigit(c % 16)
    BY <2>1
  <2>3. /\ At(t, i) = e[1] /\ At(t, i + 1) = e[2] /\ At(t, i + 2 + 0) = e[3]
        /\ At(t, i + 2 + 1) = e[4] /\ At(t, i + 2 + 2) = e[5] /\ At(t, i + 2 + 3) = e[6]
    <3>1. \A k \in 1..6 : At(t, i + k - 1) = e[k]
      BY <1>1, <2>2
    <3> HIDE DEF e
    <3> QED
      BY <3>1
  <2>4. c \in 1..31
    BY <1>4 DEF Space, Char
  <2>5. Hex(Zero) = 0
    BY DEF Hex, Zero, Digit
  <2> DEFINE h == [k \in 0..3 |-> Hex(At(t, i + 2 + k))]
  <2>6. h[0] = 0 /\ h[1] = 0 /\ h[2] = c \div 16 /\ h[3] = c % 16
    <3>1. h[0] = Hex(At(t, i + 2 + 0)) /\ h[1] = Hex(At(t, i + 2 + 1))
          /\ h[2] = Hex(At(t, i + 2 + 2)) /\ h[3] = Hex(At(t, i + 2 + 3))
      OBVIOUS
    <3> HIDE DEF h, e
    <3> QED
      <4>1. Hex(HexDigit(c \div 16)) = c \div 16 /\ Hex(HexDigit(c % 16)) = c % 16
        BY <2>4, HexRead
      <4> QED
        BY <2>2, <2>3, <2>5, <3>1, <4>1
  <2>7. c \div 16 \in 0..15 /\ c % 16 \in 0..15
    BY <2>4
  <2>8. \A k \in 0..3 : k = 0 \/ k = 1 \/ k = 2 \/ k = 3
    OBVIOUS
  <2>9. Hex4(t, i + 2) = IF \E k \in 0..3 : h[k] = 16 THEN 0
                         ELSE 4096 * h[0] + 256 * h[1] + 16 * h[2] + h[3]
    BY DEF Hex4
  <2> HIDE DEF h
  <2>10. Hex4(t, i + 2) = c
    <3>1. h[0] # 16 /\ h[1] # 16 /\ h[2] # 16 /\ h[3] # 16
      BY <2>6, <2>7, SMTT(30)
    <3>2. ~ \E k \in 0..3 : h[k] = 16
      BY <2>8, <3>1
    <3> QED
      BY <2>4, <2>6, <2>7, <2>9, <3>2, HexRead
  <2>11. Utf8(c) = <<c>>
    <3>1. c # 0 /\ c \in 1..127 /\ c \notin 128..2047
      BY <2>4, SMTT(30)
    <3> QED
      BY <3>1 DEF Utf8
  <2> QED
    BY <2>1, <2>2, <2>3, <2>10, <2>11 DEF Piece, Width, Escape
<1>5. CASE c \notin {Quote, Backslash} /\ c \notin DOMAIN Letter /\ ~(c < Space)
  <2>1. Escaped(c) = <<c>>
    BY <1>5 DEF Escaped
  <2>2. At(t, i) = c
    BY <1>1, <2>1
  <2> QED
    BY <1>5, <2>1, <2>2 DEF Piece, Width, Escape
<1> QED
  BY <1>2, <1>3, <1>4, <1>5

-----------------------------------------------------------------------------
(* Strings.                                                                *)

\* Induction from the end of a text to its beginning.
LEMMA FromTheEnd ==
  ASSUME NEW m \in Nat, NEW S, \A i \in Nat : i > m => i \in S,
         \A i \in 0..m : (\A j \in Nat : j > i => j \in S) => i \in S
  PROVE  Nat \subseteq S
<1> DEFINE T == {x \in Nat : \A j \in Nat : j > m - x => j \in S}
<1>1. 0 \in T
  OBVIOUS
<1>2. ASSUME NEW x \in Nat, x \in T
      PROVE  x + 1 \in T
  <2>1. ASSUME NEW j \in Nat, j > m - (x + 1)
        PROVE  j \in S
    <3>1. CASE j > m - x
      BY <1>2, <3>1
    <3>2. CASE j = m - x
      BY <1>2, <3>2
    <3> QED
      BY <2>1, <3>1, <3>2
  <2> QED
    BY <2>1
<1>3. m + 1 \in T
  <2>1. Nat \subseteq T
    <3> HIDE DEF T
    <3> QED
      BY <1>1, <1>2, Induction
  <2> HIDE DEF T
  <2> QED
    BY <2>1
<1> QED
  BY <1>3

\* Offsets never decrease.
LEMMA OffsetsGrow ==
  ASSUME NEW n \in Nat, NEW o \in [0..n -> Nat], \A k \in 1..n : o[k - 1] <= o[k]
  PROVE  \A k \in 0..n : o[k] <= o[n]
<1> DEFINE T == {x \in 0..n : o[n - x] <= o[n]}
<1>1. 0 \in T
  OBVIOUS
<1>2. ASSUME NEW x \in 0..n - 1, x \in T
      PROVE  x + 1 \in T
  <2>1. n - x \in 1..n /\ n - x - 1 = n - (x + 1) /\ n - (x + 1) \in 0..n /\ x + 1 \in 0..n
    OBVIOUS
  <2>2. o[n - x - 1] <= o[n - x]
    BY <2>1
  <2> QED
    BY <1>2, <2>1, <2>2
<1>3. 0..n \subseteq T
  <2> HIDE DEF T
  <2> QED
    BY <1>1, <1>2, BoundedInduction
<1> SUFFICES ASSUME NEW k \in 0..n
             PROVE  o[k] <= o[n]
  OBVIOUS
<1>4. n - k \in T
  <2> HIDE DEF T
  <2> QED
    BY <1>3
<1>5. n - (n - k) = k
  OBVIOUS
<1> QED
  BY <1>4, <1>5

\* The places of the characters of a string in its text.
LEMMA StringPlaces ==
  ASSUME NEW s \in Seq(Char)
  PROVE  \E o \in [0..Len(s) -> Nat] :
            /\ o[0] = 0
            /\ \A k \in 1..Len(s) : o[k] = o[k - 1] + Len(Escaped(s[k]))
            /\ PrintString(s) \in Seq(Char) /\ PrintString(s)[1] = Quote
            /\ Len(PrintString(s)) = o[Len(s)] + 2
            /\ \A t \in Seq(Char), i \in Nat \ {0} : StandsAt(t, i, PrintString(s)) =>
                 /\ \A k \in 1..Len(s) : StandsAt(t, i + 1 + o[k - 1], Escaped(s[k]))
                 /\ StandsAt(t, i + 1 + o[Len(s)], <<Quote>>)
<1> DEFINE ss == [k \in DOMAIN s |-> Escaped(s[k])]
<1>1. ss \in Seq(Seq(Char)) /\ Len(ss) = Len(s) /\ \A k \in 1..Len(s) : ss[k] = Escaped(s[k])
  <2>1. \A k \in 1..Len(s) : Escaped(s[k]) \in Seq(Char)
    BY EscapedShape
  <2> QED
    BY <2>1
<1>2. PrintString(s) = <<Quote>> \o FlattenSeq(ss) \o <<Quote>>
  BY DEF PrintString
<1> HIDE DEF ss
<1>3. PICK o \in [0..Len(ss) -> Nat] :
        /\ o[0] = 0
        /\ \A k \in 1..Len(ss) : o[k] = o[k - 1] + Len(ss[k])
        /\ FlattenSeq(ss) \in Seq(Char)
        /\ Len(FlattenSeq(ss)) = o[Len(ss)]
        /\ \A k \in 1..Len(ss) : \A j \in 1..Len(ss[k]) :
             o[k - 1] + j \in 1..o[Len(ss)] /\ FlattenSeq(ss)[o[k - 1] + j] = ss[k][j]
  BY <1>1, FlattenOffsets
<1> DEFINE q == <<Quote>>
<1> DEFINE f == FlattenSeq(ss)
<1>4. q \in Seq(Char) /\ Len(q) = 1 /\ q[1] = Quote
  BY DEF Quote, Char
<1>5. f \in Seq(Char) /\ Len(f) = o[Len(s)] /\ o[Len(s)] \in Nat
  BY <1>1, <1>3
<1> DEFINE g == q \o f
<1>6. PrintString(s) = g \o q
  BY <1>2
<1> HIDE DEF q, f
<1>7. g \in Seq(Char) /\ Len(g) = Len(q) + Len(f) /\ (Len(q) >= 1 => g[1] = q[1])
  BY <1>4, <1>5, ConcatPlaces, ZenonT(60) DEF g
<1>11. Len(q) = 1 /\ o[Len(s)] \in Nat /\ Len(g) = 1 + o[Len(s)]
  <2>1. Len(q) = 1 /\ Len(f) = o[Len(s)] /\ o[Len(s)] \in Nat
    BY <1>4, <1>5
  <2>2. Len(g) = Len(q) + Len(f)
    BY <1>7
  <2> QED
    BY <2>1, <2>2
<1> HIDE DEF g
<1>8. PrintString(s) \in Seq(Char) /\ Len(PrintString(s)) = o[Len(s)] + 2
      /\ PrintString(s)[1] = Quote
  <2>1. g \o q \in Seq(Char) /\ Len(g \o q) = Len(g) + Len(q)
        /\ (Len(g) >= 1 => (g \o q)[1] = g[1])
    <3>1. g \in Seq(Char) /\ q \in Seq(Char)
      BY <1>4, <1>7
    <3> QED
      BY <3>1, ConcatPlaces
  <2>2. Len(g) >= 1 /\ Len(q) >= 1 /\ Len(g) + Len(q) = o[Len(s)] + 2
    BY <1>11
  <2> QED
    BY <1>4, <1>6, <1>7, <2>1, <2>2
<1>9. ASSUME NEW t \in Seq(Char), NEW i \in Nat \ {0}, StandsAt(t, i, PrintString(s))
      PROVE  /\ \A k \in 1..Len(s) : StandsAt(t, i + 1 + o[k - 1], Escaped(s[k]))
             /\ StandsAt(t, i + 1 + o[Len(s)], q)
  <2>1. StandsAt(t, i, g) /\ StandsAt(t, i + Len(g), q)
    BY <1>4, <1>6, <1>7, <1>9, StandsConcat
  <2>2. StandsAt(t, i + Len(q), f)
    BY <1>4, <1>5, <2>1, StandsConcat DEF g
  <2>3. i + Len(g) = i + 1 + o[Len(s)]
    <3> DEFINE x == o[Len(s)]
    <3> DEFINE y == Len(g)
    <3>1. x \in Nat /\ y = 1 + x
      BY <1>11
    <3> HIDE DEF x, y
    <3>2. i + y = i + 1 + x
      BY <3>1
    <3> QED
      BY <3>2 DEF x, y
  <2>5. i + Len(q) = i + 1 /\ i + 1 \in Nat \ {0}
    BY <1>11
  <2>4. \A k \in 1..Len(ss) : StandsAt(t, i + 1 + o[k - 1], ss[k])
    BY <1>1, <1>3, <2>2, <2>5, StandsFlat DEF f
  <2> QED
    BY <1>1, <2>1, <2>3, <2>4
<1>10. o \in [0..Len(s) -> Nat] /\ \A k \in 1..Len(s) : o[k] = o[k - 1] + Len(Escaped(s[k]))
  BY <1>1, <1>3
<1> QED
  BY <1>3, <1>8, <1>9, <1>10 DEF q

\* Wherever reading a string begins, it ends at that place or behind.
LEMMA UnescapeForward ==
  ASSUME NEW t \in Seq(Char)
  PROVE  \A i \in Nat : Unescape(t)[i].next \in Nat /\ Unescape(t)[i].next >= i
<1> DEFINE S == {i \in Nat : Unescape(t)[i].next \in Nat /\ Unescape(t)[i].next >= i}
<1>1. Len(t) \in Nat
  OBVIOUS
<1>2. ASSUME NEW i \in Nat, i > Len(t)
      PROVE  i \in S
  <2>1. At(t, i) = End
    BY <1>1, <1>2 DEF At
  <2>2. Unescape(t)[i] = Parsed(i, <<>>)
    BY <2>1, UnescapeSteps DEF End, Quote
  <2> QED
    BY <2>2 DEF Parsed
<1>3. ASSUME NEW i \in 0..Len(t), \A j \in Nat : j > i => j \in S
      PROVE  i \in S
  <2>1. i + Width(t, i) \in Nat /\ i + Width(t, i) > i
    BY <1>1 DEF Width
  <2>2. Unescape(t)[i + Width(t, i)].next \in Nat /\ Unescape(t)[i + Width(t, i)].next >= i
    BY <1>3, <2>1
  <2>3. Unescape(t)[i] = CASE At(t, i) = End -> Parsed(i, <<>>)
           [] At(t, i) = Quote -> Parsed(i + 1, <<>>)
           [] OTHER -> Parsed(Unescape(t)[i + Width(t, i)].next,
                              Piece(t, i) \o Unescape(t)[i + Width(t, i)].item)
    BY <1>1, UnescapeSteps
  <2>4. CASE At(t, i) = End
    BY <1>1, <2>3, <2>4 DEF End, Quote, Parsed
  <2>5. CASE At(t, i) = Quote
    BY <1>1, <2>3, <2>5 DEF End, Quote, Parsed
  <2>6. CASE At(t, i) # End /\ At(t, i) # Quote
    <3>1. Unescape(t)[i].next = Unescape(t)[i + Width(t, i)].next
      BY <2>3, <2>6 DEF Parsed
    <3> QED
      BY <1>1, <2>2, <3>1
  <2> QED
    BY <2>4, <2>5, <2>6
<1>4. Nat \subseteq S
  <2> HIDE DEF S
  <2> QED
    BY <1>1, <1>2, <1>3, FromTheEnd
<1> QED
  BY <1>4

\* A piece that is cut reaches the end of the text.
LEMMA PieceCut ==
  ASSUME NEW t \in Seq(Char), NEW i \in Nat \ {0}, NEW c \in Char, i <= Len(t),
         StandsAt(t, i, Escaped(c)), ~Whole(t, i, Escaped(c))
  PROVE  i + Width(t, i) > Len(t)
<1> DEFINE e == Escaped(c)
<1>1. Len(t) \in Nat
  OBVIOUS
<1>2. Len(e) \in {1, 2, 6}
  BY EscapedShape
<1>4. ~(i + Len(e) - 1 <= Len(t))
  BY DEF Whole
<1>3. Len(e) # 1
  <2> HIDE DEF e
  <2> QED
    <3>1. Len(e) = 1 => i + Len(e) - 1 = i
      OBVIOUS
    <3> QED
      BY <1>4, <3>1
<1>5. e[1] = Backslash
  <2>1. CASE c \in {Quote, Backslash}
    BY <2>1, LetterShape DEF Escaped, Quote, Backslash, Space
  <2>2. CASE c \in DOMAIN Letter
    BY <2>2, LetterShape DEF Escaped, Quote, Backslash
  <2>3. CASE c < Space /\ c \notin DOMAIN Letter
    BY <2>3 DEF Escaped, Quote, Backslash, Space, Char
  <2>4. CASE c \notin {Quote, Backslash} /\ c \notin DOMAIN Letter /\ ~(c < Space)
    BY <2>4, <1>3 DEF Escaped
  <2> QED
    BY <2>1, <2>2, <2>3, <2>4
<1>6. At(t, i) = Backslash
  <2>1. e \in Seq(Char) /\ Len(e) >= 1
    BY <1>2, EscapedShape
  <2> QED
    BY <1>5, <2>1, StandsFirst
<1>7. Width(t, i) \in {2, 6} /\ (At(t, i + 1) = LetterU => Width(t, i) = 6)
  BY <1>6 DEF Width, Escape
<1>8. CASE Len(e) = 2
  BY <1>1, <1>4, <1>7, <1>8
<1>9. CASE Len(e) = 6
  <2>1. CASE i + 1 > Len(t)
    BY <1>1, <1>7, <2>1
  <2>2. CASE i + 1 <= Len(t)
    <3>1. c < Space /\ c \notin DOMAIN Letter /\ c \notin {Quote, Backslash}
      <4>1. Len(e) # 2
        BY <1>9
      <4>2. c \notin DOMAIN Letter \union {Quote, Backslash}
        BY <4>1, EscapedShape
      <4>3. Len(e) = IF c < Space THEN 6 ELSE 1
        BY <4>2, EscapedShape
      <4> QED
        BY <1>9, <4>2, <4>3
    <3>2. e[2] = LetterU
      BY <3>1 DEF Escaped, Quote, Backslash, Space, Char
    <3>3. t[i + 1] = LetterU
      <4>1. 2 \in 1..Len(e) /\ i + 2 - 1 = i + 1
        BY <1>9
      <4>2. t[i + 2 - 1] = e[2]
        BY <2>2, <4>1 DEF StandsAt
      <4> QED
        BY <3>2, <4>1, <4>2
    <3>4. At(t, i + 1) = LetterU
      BY <1>1, <2>2, <3>3 DEF At
    <3> QED
      BY <1>1, <1>4, <1>7, <1>9, <3>4
  <2> QED
    BY <1>1, <2>1, <2>2
<1> QED
  BY <1>2, <1>3, <1>8, <1>9

\* Reading a string at a character that is not its end.
LEMMA UnescapeOn ==
  ASSUME NEW t \in Seq(Char), NEW i \in Nat, At(t, i) \notin {Quote, End}
  PROVE  Unescape(t)[i] = Parsed(Unescape(t)[i + Width(t, i)].next,
                                 Piece(t, i) \o Unescape(t)[i + Width(t, i)].item)
BY UnescapeSteps

\* A printed string is read back, and one that is cut is read to the end of the text.
LEMMA StringRead ==
  ASSUME NEW t \in Seq(Char), NEW i \in Nat \ {0}, NEW s \in Seq(Char),
         StandsAt(t, i, PrintString(s))
  PROVE  /\ Whole(t, i, PrintString(s)) =>
              ParseString(t, i) = Parsed(i + Len(PrintString(s)), String(s))
         /\ ~Whole(t, i, PrintString(s)) =>
              ParseString(t, i).next \in Nat
              /\ (ParseString(t, i).next = 0 \/ ParseString(t, i).next > Len(t))
<1>1. PICK o \in [0..Len(s) -> Nat] :
        /\ o[0] = 0
        /\ \A k \in 1..Len(s) : o[k] = o[k - 1] + Len(Escaped(s[k]))
        /\ PrintString(s) \in Seq(Char) /\ PrintString(s)[1] = Quote
        /\ Len(PrintString(s)) = o[Len(s)] + 2
        /\ \A u \in Seq(Char), j \in Nat \ {0} : StandsAt(u, j, PrintString(s)) =>
             /\ \A k \in 1..Len(s) : StandsAt(u, j + 1 + o[k - 1], Escaped(s[k]))
             /\ StandsAt(u, j + 1 + o[Len(s)], <<Quote>>)
  BY StringPlaces
<1> DEFINE n == Len(s)
<1> DEFINE l == Len(t)
<1> DEFINE p(k) == i + 1 + o[k]
<1> DEFINE U == Unescape(t)
<1>2. n \in Nat /\ l \in Nat /\ \A k \in 1..n : s[k] \in Char
  OBVIOUS
<1>3. o \in [0..n -> Nat] /\ PrintString(s) \in Seq(Char) /\ Len(PrintString(s)) = o[n] + 2
      /\ PrintString(s)[1] = Quote /\ o[0] = 0
  BY <1>1
<1>4. /\ \A k \in 1..n : o[k] = o[k - 1] + Len(Escaped(s[k]))
      /\ \A k \in 1..n : StandsAt(t, p(k - 1), Escaped(s[k]))
      /\ StandsAt(t, p(n), <<Quote>>)
  BY <1>1
<1>19. \A k : p(k) = i + 1 + o[k]
  OBVIOUS
<1> HIDE DEF n, l, p, U
<1>20. \A k \in 0..n : o[k] \in Nat /\ p(k) \in Nat \ {0}
  <2> SUFFICES ASSUME NEW k \in 0..n
               PROVE  o[k] \in Nat /\ p(k) \in Nat \ {0}
    OBVIOUS
  <2>1. o[k] \in Nat
    BY <1>3
  <2> QED
    BY <1>19, <2>1
<1>21. \A k \in 1..n : Len(Escaped(s[k])) \in 1..6 /\ Escaped(s[k]) \in Seq(Char)
                       /\ Escaped(s[k])[1] \notin {Quote, End}
  BY <1>2, EscapedShape
<1>22. \A k \in 1..n : k - 1 \in 0..n
  BY <1>2
<1>23. ASSUME NEW k \in 1..n
       PROVE  p(k) = p(k - 1) + Len(Escaped(s[k])) /\ o[k - 1] <= o[k]
  <2> DEFINE d == Len(Escaped(s[k]))
  <2>1. o[k - 1] \in Nat /\ Len(Escaped(s[k])) \in 1..6
    BY <1>20, <1>21, <1>22
  <2>2. o[k] = o[k - 1] + Len(Escaped(s[k]))
    BY <1>4
  <2>3. p(k) = i + 1 + o[k] /\ p(k - 1) = i + 1 + o[k - 1]
    BY <1>19
  <2> HIDE DEF d
  <2> QED
    BY <2>1, <2>2, <2>3
<1>5. \A k \in 0..n : o[k] <= o[n]
  BY <1>2, <1>3, <1>23, OffsetsGrow
<1>24. n \in 0..n /\ 0 \in 0..n
  BY <1>2
<1>7. Whole(t, i, PrintString(s)) <=> p(n) <= l
  <2>1. o[n] \in Nat
    BY <1>20, <1>24
  <2>2. Whole(t, i, PrintString(s)) <=> i + (o[n] + 2) - 1 <= l
    BY <1>3 DEF Whole, l
  <2>3. p(n) = i + 1 + o[n] /\ i + (o[n] + 2) - 1 = i + 1 + o[n]
    BY <1>19, <2>1
  <2> QED
    BY <2>2, <2>3
<1>8. At(t, i) = IF i <= l THEN Quote ELSE End
  <2>1. Len(PrintString(s)) >= 1
    BY <1>3, <1>20, <1>24
  <2> QED
    BY <1>3, <2>1, StandsFirst DEF l
<1>9. At(t, p(n)) = IF p(n) <= l THEN Quote ELSE End
  <2>1. <<Quote>> \in Seq(Char) /\ Len(<<Quote>>) >= 1 /\ <<Quote>>[1] = Quote
    BY DEF Quote, Char
  <2>2. p(n) \in Nat \ {0}
    BY <1>20, <1>24
  <2> QED
    BY <1>4, <2>1, <2>2, StandsFirst DEF l
<1>10. ASSUME NEW k \in 1..n, p(k - 1) <= l
       PROVE  At(t, p(k - 1)) \notin {Quote, End}
  <2>3. Len(Escaped(s[k])) \in 1..6
    BY <1>21
  <2>1. p(k - 1) \in Nat \ {0} /\ Len(Escaped(s[k])) >= 1
    <3>1. p(k - 1) \in Nat \ {0}
      BY <1>20, <1>22
    <3> DEFINE d == Len(Escaped(s[k]))
    <3>2. d \in 1..6
      BY <2>3
    <3> HIDE DEF d
    <3>3. d >= 1
      BY <3>2
    <3> QED
      BY <3>1, <3>3 DEF d
  <2>2. At(t, p(k - 1)) = Escaped(s[k])[1]
    BY <1>4, <1>10, <1>21, <2>1, StandsFirst DEF l
  <2> QED
    BY <1>21, <2>2
<1>11. ASSUME p(n) <= l
       PROVE  U[p(0)] = Parsed(p(n) + 1, s)
  <2> DEFINE T == {x \in 0..n : U[p(n - x)] = Parsed(p(n) + 1, SubSeq(s, n - x + 1, n))}
  <2>1. 0 \in T
    <3>1. U[p(n)] = Parsed(p(n) + 1, <<>>)
      BY <1>9, <1>11, <1>20, <1>24, UnescapeSteps DEF U, Quote, End
    <3>2. SubSeq(s, n + 1, n) = <<>>
      BY <1>2
    <3> QED
      BY <1>2, <3>1, <3>2, SMTT(30)
  <2>2. ASSUME NEW x \in 0..n - 1, x \in T
        PROVE  x + 1 \in T
    <3> DEFINE k == n - x
    <3>1. k \in 1..n /\ k - 1 = n - (x + 1) /\ n - (x + 1) + 1 = k /\ x + 1 \in 0..n
      BY <1>2
    <3>2. U[p(k)] = Parsed(p(n) + 1, SubSeq(s, k + 1, n))
      BY <2>2
    <3> HIDE DEF k, T
    <3>3. p(k) <= p(n) /\ p(k) \in Nat /\ p(k - 1) \in Nat \ {0} /\ p(n) \in Nat
      <4>1. k \in 0..n /\ k - 1 \in 0..n
        BY <1>2, <3>1
      <4>2. o[k] <= o[n] /\ o[k] \in Nat /\ o[n] \in Nat
        BY <1>5, <1>20, <1>24, <4>1
      <4>3. p(k) = i + 1 + o[k] /\ p(n) = i + 1 + o[n]
        BY <1>19
      <4>4. p(k) <= p(n)
        BY <4>2, <4>3
      <4> QED
        BY <1>20, <1>24, <4>1, <4>4
    <3>8. p(k) = p(k - 1) + Len(Escaped(s[k])) /\ Len(Escaped(s[k])) \in 1..6
      BY <1>21, <1>23, <3>1
    <3>4. Whole(t, p(k - 1), Escaped(s[k])) /\ p(k - 1) <= l
      BY <1>2, <1>11, <3>3, <3>8 DEF Whole, l
    <3>5. Piece(t, p(k - 1)) = <<s[k]>> /\ p(k - 1) + Width(t, p(k - 1)) = p(k)
      <4>1. StandsAt(t, p(k - 1), Escaped(s[k])) /\ s[k] \in Char
        BY <1>2, <1>4, <3>1
      <4> QED
        BY <3>3, <3>4, <3>8, <4>1, PieceRead
    <3>6. U[p(k - 1)] = Parsed(p(n) + 1, <<s[k]>> \o SubSeq(s, k + 1, n))
      <4>1. At(t, p(k - 1)) \notin {Quote, End}
        BY <1>10, <3>1, <3>4
      <4>2. U[p(k - 1)] = Parsed(U[p(k)].next, <<s[k]>> \o U[p(k)].item)
        BY <3>3, <3>5, <4>1, UnescapeOn DEF U
      <4> QED
        BY <3>2, <4>2 DEF Parsed
    <3>7. <<s[k]>> \o SubSeq(s, k + 1, n) = SubSeq(s, k, n)
      BY <1>2, <3>1, SubSeqRecursiveFirst DEF n
    <3> QED
      BY <3>1, <3>6, <3>7 DEF T
  <2>3. n \in T
    <3>1. 0..n \subseteq T
      <4> HIDE DEF T
      <4> QED
        BY <1>2, <2>1, <2>2, BoundedInduction
    <3> HIDE DEF T
    <3> QED
      BY <1>2, <3>1
  <2>4. n - n = 0 /\ n - n + 1 = 1 /\ SubSeq(s, 1, n) = s
    BY <1>2, SubSeqFull DEF n
  <2> QED
    BY <2>3, <2>4
<1>12. ASSUME p(n) > l
       PROVE  U[p(0)].next \in Nat /\ U[p(0)].next > l
  <2> DEFINE T == {x \in 0..n : U[p(n - x)].next > l}
  <2>1. \A k \in 0..n : U[p(k)].next \in Nat /\ U[p(k)].next >= p(k)
    BY <1>20, UnescapeForward DEF U
  <2>2. \A k \in 0..n : p(k) > l => U[p(k)].next > l
    BY <1>2, <1>20, <2>1
  <2>3. 0 \in T
    BY <1>2, <1>12, <1>24, <2>2
  <2>4. ASSUME NEW x \in 0..n - 1, x \in T
        PROVE  x + 1 \in T
    <3> DEFINE k == n - x
    <3>1. k \in 1..n /\ k - 1 = n - (x + 1) /\ x + 1 \in 0..n
      BY <1>2
    <3>2. U[p(k)].next > l
      BY <2>4
    <3> HIDE DEF k, T
    <3>5. p(k - 1) \in Nat \ {0} /\ p(k) = p(k - 1) + Len(Escaped(s[k]))
          /\ StandsAt(t, p(k - 1), Escaped(s[k])) /\ s[k] \in Char
      BY <1>2, <1>4, <1>20, <1>22, <1>23, <3>1
    <3>3. ASSUME p(k - 1) <= l
          PROVE  U[p(k - 1)].next > l
      <4> DEFINE j == p(k - 1) + Width(t, p(k - 1))
      <4>1. U[p(k - 1)].next = U[j].next
        <5>1. At(t, p(k - 1)) \notin {Quote, End}
          BY <1>10, <3>1, <3>3
        <5>2. U[p(k - 1)] = Parsed(U[j].next, Piece(t, p(k - 1)) \o U[j].item)
          BY <3>5, <5>1, UnescapeOn DEF U
        <5> QED
          BY <5>2 DEF Parsed
      <4>2. CASE Whole(t, p(k - 1), Escaped(s[k]))
        <5>1. j = p(k)
          BY <3>5, <4>2, PieceRead
        <5> QED
          BY <3>2, <4>1, <5>1
      <4>3. CASE ~Whole(t, p(k - 1), Escaped(s[k]))
        <5>1. j > l
          BY <3>3, <3>5, <4>3, PieceCut DEF l
        <5>2. j \in Nat
          BY <3>5 DEF Width
        <5> HIDE DEF j
        <5>3. U[j].next \in Nat /\ U[j].next >= j
          BY <5>2, UnescapeForward DEF U
        <5> QED
          BY <1>2, <4>1, <5>1, <5>2, <5>3
      <4> QED
        BY <4>2, <4>3
    <3>4. U[p(k - 1)].next > l
      BY <1>2, <1>22, <2>2, <3>1, <3>3, <3>5
    <3> QED
      BY <3>1, <3>4 DEF T
  <2>5. n \in T
    <3>1. 0..n \subseteq T
      <4> HIDE DEF T
      <4> QED
        BY <1>2, <2>3, <2>4, BoundedInduction
    <3> HIDE DEF T
    <3> QED
      BY <1>2, <3>1
  <2> QED
    BY <1>2, <1>24, <2>1, <2>5
<1>13. p(0) = i + 1 /\ p(n) + 1 = i + Len(PrintString(s)) /\ p(n) >= i + 1 /\ p(n) \in Nat
  <2>1. o[n] \in Nat /\ o[0] = 0
    BY <1>3, <1>20, <1>24
  <2>2. i + Len(PrintString(s)) = i + (o[n] + 2)
    BY <1>3
  <2>3. p(n) = i + 1 + o[n] /\ p(0) = i + 1 + o[0]
    BY <1>19
  <2> QED
    BY <2>1, <2>2, <2>3
<1>14. ParseString(t, i) = IF At(t, i) = Quote THEN Parsed(U[i + 1].next, String(U[i + 1].item))
                           ELSE Failed
  BY DEF ParseString, U
<1>15. Failed.next = 0
  BY DEF Failed, Parsed
<1>16. p(n) <= l => i <= l
  BY <1>2, <1>13
<1>17. CASE p(n) <= l
  BY <1>7, <1>8, <1>11, <1>13, <1>14, <1>16, <1>17 DEF Parsed
<1>18. CASE ~(p(n) <= l)
  <2>1. U[p(0)].next \in Nat /\ U[p(0)].next > l
    BY <1>2, <1>12, <1>13, <1>18
  <2> QED
    BY <1>7, <1>13, <1>14, <1>15, <1>18, <2>1 DEF Parsed, l
<1> QED
  BY <1>17, <1>18

-----------------------------------------------------------------------------
(* Numbers.                                                                *)

\* One more digit.
LEMMA NumeralAppend ==
  ASSUME NEW d \in Seq(Int), NEW x \in Int
  PROVE  Numeral(d) \in Int /\ Numeral(Append(d, x)) = 10 * Numeral(d) + (x - Zero)
<1> DEFINE n == Len(d)
<1> DEFINE e == Append(d, x)
<1>1. n \in Nat /\ e \in Seq(Int) /\ Len(e) = n + 1 /\ e[n + 1] = x /\ \A k \in 1..n : e[k] = d[k]
  OBVIOUS
<1>2. PICK u \in [0..n -> Int] :
        /\ u[0] = 0
        /\ \A k \in 1..n : u[k] = 10 * u[k - 1] + (d[k] - Zero)
        /\ Numeral(d) = u[n]
  BY NumeralSteps
<1> HIDE DEF e
<1>3. PICK v \in [0..Len(e) -> Int] :
        /\ v[0] = 0
        /\ \A k \in 1..Len(e) : v[k] = 10 * v[k - 1] + (e[k] - Zero)
        /\ Numeral(e) = v[Len(e)]
  BY <1>1, NumeralSteps
<1> HIDE DEF n
<1> DEFINE T == {k \in 0..n : u[k] = v[k]}
<1>4. 0 \in T
  BY <1>1, <1>2, <1>3
<1>5. ASSUME NEW k \in 0..n - 1, k \in T
      PROVE  k + 1 \in T
  <2>1. k + 1 \in 1..n /\ k + 1 \in 1..Len(e) /\ k + 1 - 1 = k /\ k + 1 \in 0..n
    BY <1>1
  <2>2. u[k + 1] = 10 * u[k] + (d[k + 1] - Zero) /\ v[k + 1] = 10 * v[k] + (e[k + 1] - Zero)
    BY <1>2, <1>3, <2>1
  <2> QED
    BY <1>1, <1>5, <2>1, <2>2
<1>6. n \in T
  <2>1. 0..n \subseteq T
    <3> HIDE DEF T
    <3> QED
      BY <1>1, <1>4, <1>5, BoundedInduction
  <2> HIDE DEF T
  <2> QED
    BY <1>1, <2>1
<1>7. n + 1 \in 1..Len(e) /\ n + 1 - 1 = n /\ n \in 0..n
  BY <1>1
<1>8. v[n + 1] = 10 * v[n] + (e[n + 1] - Zero)
  BY <1>3, <1>7
<1>9. Numeral(d) = v[n] /\ Numeral(e) = v[n + 1] /\ u[n] \in Int
  BY <1>1, <1>2, <1>3, <1>6, <1>7
<1> QED
  BY <1>1, <1>2, <1>8, <1>9 DEF e

\* No digits.
LEMMA NumeralNone == Numeral(<<>>) = 0
<1>1. <<>> \in Seq(Int) /\ Len(<<>>) = 0
  OBVIOUS
<1> QED
  BY <1>1, NumeralSteps

\* The digits of a number stand for it, and begin with a zero for zero alone.
LEMMA DigitsShape ==
  ASSUME NEW n \in Nat
  PROVE  /\ Digits(n) \in Seq(Digit) /\ Len(Digits(n)) >= 1
         /\ Numeral(Digits(n)) = n
         /\ IF n = 0 THEN Digits(n) = <<Zero>> ELSE Digits(n)[1] # Zero
<1> DEFINE P(m) == /\ Digits(m) \in Seq(Digit) /\ Len(Digits(m)) >= 1
                   /\ Numeral(Digits(m)) = m
                   /\ IF m = 0 THEN Digits(m) = <<Zero>> ELSE Digits(m)[1] # Zero
<1> DEFINE T == {m \in Nat : ~P(m)}
<1>1. ASSUME NEW m \in Nat, \A y \in T : m <= y
      PROVE  P(m)
  <2>1. CASE m < 10
    <3> DEFINE x == Zero + m
    <3>1. Digits(m) = <<x>>
      BY <2>1, DigitsSteps
    <3>2. x \in Digit /\ x \in Int /\ x - Zero = m /\ (m # 0 => x # Zero)
      BY <2>1 DEF Digit, Zero
    <3>3. m = 0 => x = Zero
      BY DEF Zero
    <3> HIDE DEF x
    <3>4. <<x>> \in Seq(Digit) /\ Len(<<x>>) = 1 /\ <<x>>[1] = x /\ <<x>> = Append(<<>>, x)
      BY <3>2
    <3>5. <<>> \in Seq(Int)
      OBVIOUS
    <3>6. Numeral(Append(<<>>, x)) = 10 * Numeral(<<>>) + (x - Zero)
      BY <3>2, <3>5, NumeralAppend
    <3>7. Numeral(<<x>>) = m
      BY <3>2, <3>4, <3>6, NumeralNone
    <3> QED
      BY <3>1, <3>2, <3>3, <3>4, <3>7
  <2>2. CASE m >= 10
    <3> DEFINE a == m \div 10
    <3> DEFINE x == Zero + (m % 10)
    <3>1. a \in Nat /\ a < m /\ a # 0 /\ x \in Digit /\ x \in Int /\ 10 * a + (x - Zero) = m
      BY <2>2 DEF Digit, Zero
    <3>2. Digits(m) = Append(Digits(a), x)
      BY <2>2, DigitsSteps
    <3> HIDE DEF a, x
    <3>3. P(a)
      BY <1>1, <3>1
    <3> DEFINE d == Digits(a)
    <3>4. d \in Seq(Digit) /\ Len(d) >= 1 /\ Numeral(d) = a /\ d[1] # Zero
      BY <3>1, <3>3
    <3> HIDE DEF d
    <3>5. d \in Seq(Int)
      BY <3>4 DEF Digit, Zero
    <3>6. Numeral(Append(d, x)) = m
      BY <3>1, <3>4, <3>5, NumeralAppend
    <3>7. Append(d, x) \in Seq(Digit) /\ Len(Append(d, x)) >= 1 /\ Append(d, x)[1] = d[1]
      BY <3>1, <3>4, AppendProperties
    <3>8. m # 0
      BY <2>2
    <3> QED
      BY <3>2, <3>4, <3>6, <3>7, <3>8 DEF d
  <2> QED
    BY <2>1, <2>2
<1>2. T = {}
  <2>1. T \subseteq Nat
    OBVIOUS
  <2>2. \A m \in T : ~P(m)
    OBVIOUS
  <2> HIDE DEF T, P
  <2> QED
    BY <1>1, <2>1, <2>2, Least
<1>3. P(n)
  <2> HIDE DEF P
  <2> QED
    BY <1>2
<1> QED
  BY <1>3

\* A sequence of digits is passed over, and one that is cut to the end of the text.
LEMMA DigitsRead ==
  ASSUME NEW t \in Seq(Char), NEW i \in Nat \ {0}, NEW d \in Seq(Digit), StandsAt(t, i, d)
  PROVE  /\ Whole(t, i, d) /\ At(t, i + Len(d)) \notin Digit =>
              Past(t, i, Digit) = i + Len(d) /\ SubSeq(t, i, i + Len(d) - 1) = d
         /\ ~Whole(t, i, d) => Past(t, i, Digit) \in Nat /\ Past(t, i, Digit) > Len(t)
<1> DEFINE n == Len(d)
<1> DEFINE l == Len(t)
<1> DEFINE j == Past(t, i, Digit)
<1>1. n \in Nat /\ l \in Nat /\ \A k \in 1..n : d[k] \in Digit
  OBVIOUS
<1>2. End \notin Digit
  BY DEF End, Digit, Zero
<1>3. j \in i..i + l /\ At(t, j) \notin Digit /\ \A k \in i..j - 1 : At(t, k) \in Digit
  BY <1>2, PastFound
<1>4. Whole(t, i, d) <=> i + n - 1 <= l
  BY DEF Whole
<1>5. ASSUME NEW k \in 1..n, i + k - 1 <= l
      PROVE  t[i + k - 1] = d[k] /\ At(t, i + k - 1) = d[k]
  <2>1. t[i + k - 1] = d[k]
    BY <1>5 DEF StandsAt
  <2>2. i + k - 1 \in 1..l
    BY <1>1, <1>5
  <2> QED
    BY <2>1, <2>2 DEF At
<1>6. j \in Nat
  BY <1>1, <1>3
<1> HIDE DEF n, j, l
<1>7. ASSUME j < i + n, j <= l
      PROVE  FALSE
  <2>1. j - i + 1 \in 1..n /\ i + (j - i + 1) - 1 = j
    BY <1>1, <1>3, <1>6, <1>7
  <2>2. At(t, j) = d[j - i + 1]
    BY <1>5, <1>7, <2>1
  <2> QED
    BY <1>1, <1>3, <2>1, <2>2
<1>8. ASSUME i + n - 1 <= l, At(t, i + n) \notin Digit
      PROVE  j = i + n
  <2>1. j >= i + n
    BY <1>1, <1>6, <1>7, <1>8
  <2>2. ~(j > i + n)
    BY <1>1, <1>3, <1>6, <1>8
  <2> QED
    BY <1>1, <1>6, <2>1, <2>2
<1>9. ASSUME i + n - 1 <= l
      PROVE  SubSeq(t, i, i + n - 1) = d
  <2> DEFINE b == SubSeq(t, i, i + n - 1)
  <2>1. \A k \in i..i + n - 1 : t[k] \in Char
    BY <1>1, <1>9 DEF l
  <2>2. b \in Seq(Char) /\ Len(b) = n /\ \A k \in 1..n : b[k] = t[i + k - 1]
    <3>1. i \in Int /\ i + n - 1 \in Int /\ (i + n - 1) - i + 1 = n /\ (i <= i + n - 1 <=> n >= 1)
      BY <1>1
    <3> QED
      BY <1>1, <2>1, <3>1, SubSeqProperties
  <2>3. \A k \in 1..n : b[k] = d[k]
    BY <1>1, <1>5, <1>9, <2>2
  <2>4. d \in Seq(Char)
    BY DEF Digit, Zero, Char
  <2> HIDE DEF b
  <2> QED
    BY <2>2, <2>3, <2>4, SeqEqual DEF n, b
<1> QED
  BY <1>1, <1>4, <1>6, <1>7, <1>8, <1>9 DEF n, l, j

\* A number is text, and begins with a minus or a digit.
LEMMA NumberShape ==
  ASSUME NEW n \in Int
  PROVE  /\ PrintNumber(n) \in Seq(Char) /\ Len(PrintNumber(n)) >= 1
         /\ PrintNumber(n)[1] \in Digit \union {Minus}
<1>1. Digit \subseteq Char
  BY DEF Digit, Zero, Char
<1>2. CASE n < 0
  <2> DEFINE d == Digits(-n)
  <2> DEFINE m == <<Minus>>
  <2>1. -n \in Nat
    BY <1>2
  <2>2. d \in Seq(Digit)
    BY <2>1, DigitsShape
  <2> HIDE DEF d
  <2>3. d \in Seq(Char)
    BY <1>1, <2>2, SeqMonotonic
  <2>4. m \in Seq(Char) /\ Len(m) = 1 /\ m[1] = Minus
    BY DEF Minus, Char
  <2>5. PrintNumber(n) = m \o d
    BY <1>2 DEF PrintNumber, d
  <2> HIDE DEF m
  <2>6. /\ m \o d \in Seq(Char) /\ Len(m \o d) = Len(m) + Len(d)
        /\ Len(d) \in Nat /\ (m \o d)[1] = m[1]
    BY <2>3, <2>4, ConcatPlaces, SMTT(30)
  <2> QED
    BY <2>4, <2>5, <2>6
<1>3. CASE n >= 0
  <2> DEFINE d == Digits(n)
  <2>1. d \in Seq(Digit) /\ Len(d) >= 1
    BY <1>3, DigitsShape
  <2>2. PrintNumber(n) = d
    BY <1>3 DEF PrintNumber
  <2> HIDE DEF d
  <2>3. d \in Seq(Char)
    BY <1>1, <2>1, SeqMonotonic
  <2>4. d[1] \in Digit
    BY <2>1
  <2> QED
    BY <2>1, <2>2, <2>3, <2>4
<1> QED
  BY <1>2, <1>3

\* The place digits begin at decides whether a zero is taken first.
LEMMA ParseNumberAt ==
  ASSUME NEW t, NEW i \in Nat
  PROVE  /\ At(t, i) # Minus /\ At(t, i) # Zero =>
              ParseNumber(t, i) = Parsed(Past(t, i, Digit),
                                    Number(Numeral(SubSeq(t, i, Past(t, i, Digit) - 1))))
         /\ At(t, i) = Minus /\ At(t, i + 1) # Zero =>
              ParseNumber(t, i) = Parsed(Past(t, i + 1, Digit),
                                    Number(-Numeral(SubSeq(t, i + 1, Past(t, i + 1, Digit) - 1))))
         /\ At(t, i) = Zero /\ At(t, i + 1) # Zero =>
              ParseNumber(t, i) = Parsed(Past(t, i + 1, Digit),
                                    Number(Numeral(SubSeq(t, i + 1, Past(t, i + 1, Digit) - 1))))
<1>1. Minus # Zero
  BY DEF Minus, Zero
<1>2. i + 1 > i /\ ~(i > i)
  OBVIOUS
<1> QED
  BY <1>1, <1>2 DEF ParseNumber

\* A printed number is read back when no digit follows it, and one that is cut is read to
\* the end of the text.
LEMMA NumberRead ==
  ASSUME NEW t \in Seq(Char), NEW i \in Nat \ {0}, NEW n \in Int,
         StandsAt(t, i, PrintNumber(n))
  PROVE  /\ Whole(t, i, PrintNumber(n)) /\ At(t, i + Len(PrintNumber(n))) \notin Digit =>
              ParseNumber(t, i) = Parsed(i + Len(PrintNumber(n)), Number(n))
         /\ ~Whole(t, i, PrintNumber(n)) /\ i <= Len(t) =>
              ParseNumber(t, i).next \in Nat /\ ParseNumber(t, i).next > Len(t)
<1> DEFINE s == PrintNumber(n)
<1>1. s \in Seq(Char) /\ Len(s) >= 1 /\ Len(t) \in Nat
  BY NumberShape
<1>2. At(t, i) = IF i <= Len(t) THEN s[1] ELSE End
  BY <1>1, StandsFirst
<1>3. /\ Minus # Zero /\ Minus # End /\ Minus \notin Digit
      /\ Zero \in Digit /\ End # Zero /\ End \notin Digit
  BY DEF Minus, Zero, End, Digit
<1>4. \A k \in Nat : \A item : Parsed(k, item).next = k
  BY DEF Parsed
<1>5. CASE n = 0
  <2>1. s = <<Zero>> /\ Len(s) = 1 /\ s[1] = Zero
    BY <1>5, DigitsShape DEF PrintNumber
  <2>2. Whole(t, i, s) <=> i <= Len(t)
    BY <1>1, <2>1 DEF Whole
  <2> HIDE DEF s
  <2>3. ASSUME i <= Len(t), At(t, i + 1) \notin Digit
        PROVE  ParseNumber(t, i) = Parsed(i + 1, Number(0))
    <3>1. At(t, i) = Zero /\ At(t, i + 1) # Zero
      BY <1>2, <1>3, <2>1, <2>3
    <3>2. Past(t, i + 1, Digit) = i + 1
      <4>1. i + 1 \in Nat
        OBVIOUS
      <4>2. /\ Past(t, i + 1, Digit) \in i + 1..i + 1 + Len(t)
            /\ \A k \in i + 1..Past(t, i + 1, Digit) - 1 : At(t, k) \in Digit
        BY <1>3, <4>1, PastFound
      <4> QED
        BY <1>1, <2>3, <4>2
    <3>3. SubSeq(t, i + 1, i + 1 - 1) = <<>>
      BY SubSeqEmpty
    <3> QED
      <4>1. ParseNumber(t, i) = Parsed(Past(t, i + 1, Digit),
                                  Number(Numeral(SubSeq(t, i + 1, Past(t, i + 1, Digit) - 1))))
        BY <3>1, ParseNumberAt
      <4>2. SubSeq(t, i + 1, Past(t, i + 1, Digit) - 1) = <<>>
        BY <3>2, <3>3
      <4> QED
        BY <3>2, <4>1, <4>2, NumeralNone
  <2> QED
    BY <1>5, <2>1, <2>2, <2>3 DEF s
<1>6. CASE n > 0
  <2>1. s = Digits(n) /\ s \in Seq(Digit) /\ Numeral(s) = n /\ s[1] # Zero
    BY <1>6, DigitsShape DEF PrintNumber
  <2>2. s[1] \in Digit
    BY <1>1, <2>1
  <2>3. At(t, i) # Minus /\ At(t, i) # Zero
    BY <1>2, <1>3, <2>1, <2>2
  <2>4. StandsAt(t, i, s)
    OBVIOUS
  <2>6. i + Len(s) \in Nat
    BY <1>1
  <2> HIDE DEF s
  <2>5. ParseNumber(t, i) = Parsed(Past(t, i, Digit),
                                   Number(Numeral(SubSeq(t, i, Past(t, i, Digit) - 1))))
    BY <2>3, ParseNumberAt
  <2>7. ASSUME Whole(t, i, s), At(t, i + Len(s)) \notin Digit
        PROVE  ParseNumber(t, i) = Parsed(i + Len(s), Number(n))
    <3>1. Past(t, i, Digit) = i + Len(s) /\ SubSeq(t, i, i + Len(s) - 1) = s
      BY <2>1, <2>4, <2>7, DigitsRead
    <3>2. SubSeq(t, i, Past(t, i, Digit) - 1) = s
      BY <3>1
    <3> QED
      BY <2>1, <2>5, <3>1, <3>2
  <2>8. ASSUME ~Whole(t, i, s)
        PROVE  ParseNumber(t, i).next \in Nat /\ ParseNumber(t, i).next > Len(t)
    BY <1>4, <2>1, <2>4, <2>5, <2>8, DigitsRead
  <2> QED
    BY <2>7, <2>8 DEF s
<1>7. CASE n < 0
  <2> DEFINE d == Digits(-n)
  <2> DEFINE m == <<Minus>>
  <2>1. -n \in Nat /\ -n # 0 /\ -(-n) = n
    BY <1>7
  <2>2. d \in Seq(Digit) /\ Numeral(d) = -n /\ d[1] # Zero /\ Len(d) >= 1
    BY <2>1, DigitsShape
  <2>3. s = m \o d
    BY <1>7 DEF PrintNumber
  <2>4. m \in Seq(Char) /\ Len(m) = 1 /\ m[1] = Minus
    BY DEF Minus, Char
  <2>5. StandsAt(t, i, s)
    OBVIOUS
  <2> HIDE DEF s, d, m
  <2>6. d \in Seq(Char) /\ d[1] \in Digit /\ Len(d) \in Nat
    <3>1. Digit \subseteq Char
      BY DEF Digit, Zero, Char
    <3> QED
      BY <2>2, <3>1, SeqMonotonic
  <2>7. s[1] = Minus /\ Len(s) = 1 + Len(d)
    <3>1. m \in Seq(Char) /\ d \in Seq(Char)
      BY <2>4, <2>6
    <3>2. Len(m \o d) = Len(m) + Len(d) /\ (Len(m) >= 1 => (m \o d)[1] = m[1])
      BY <3>1, ConcatPlaces
    <3> QED
      BY <2>3, <2>4, <3>2
  <2>8. StandsAt(t, i + 1, d)
    BY <2>3, <2>4, <2>5, <2>6, StandsConcat
  <2>9. Whole(t, i, s) <=> Whole(t, i + 1, d)
    BY <1>1, <2>6, <2>7 DEF Whole
  <2>10. i + Len(s) = i + 1 + Len(d)
    BY <2>6, <2>7
  <2>11. At(t, i + 1) # Zero
    BY <1>3, <2>2, <2>6, <2>8, StandsFirst
  <2>12. ASSUME i <= Len(t)
         PROVE  ParseNumber(t, i) = Parsed(Past(t, i + 1, Digit),
                                    Number(-Numeral(SubSeq(t, i + 1, Past(t, i + 1, Digit) - 1))))
    BY <1>2, <2>7, <2>11, <2>12, ParseNumberAt
  <2>13. ASSUME Whole(t, i, s), At(t, i + Len(s)) \notin Digit
         PROVE  ParseNumber(t, i) = Parsed(i + Len(s), Number(n))
    <3>1. i <= Len(t)
      BY <1>1, <2>6, <2>7, <2>13 DEF Whole
    <3>2. Past(t, i + 1, Digit) = i + 1 + Len(d) /\ SubSeq(t, i + 1, i + 1 + Len(d) - 1) = d
      BY <2>2, <2>8, <2>9, <2>10, <2>13, DigitsRead
    <3>3. ParseNumber(t, i) = Parsed(i + 1 + Len(d), Number(-Numeral(d)))
      <4>1. SubSeq(t, i + 1, Past(t, i + 1, Digit) - 1) = d
        BY <3>2
      <4> QED
        BY <2>12, <3>1, <3>2, <4>1
    <3> QED
      BY <2>1, <2>2, <2>10, <3>3
  <2>14. ASSUME ~Whole(t, i, s), i <= Len(t)
         PROVE  ParseNumber(t, i).next \in Nat /\ ParseNumber(t, i).next > Len(t)
    BY <1>4, <2>2, <2>8, <2>9, <2>12, <2>14, DigitsRead
  <2> QED
    BY <2>13, <2>14 DEF s
<1> QED
  BY <1>5, <1>6, <1>7

-----------------------------------------------------------------------------
(* A value ends behind where it begins, and in the text.                    *)

\* A character that is not the end is within the text.
LEMMA AtWithin ==
  ASSUME NEW t \in Seq(Char), NEW i \in Nat, At(t, i) # End
  PROVE  i \in 1..Len(t) /\ At(t, i) = t[i] /\ At(t, i) \in Char
BY DEF At

\* The brackets, and the characters that follow an element, are no whitespace.
LEMMA Signs ==
  /\ \A kind \in {"array", "object"} :
       /\ Opening(kind) \in Char /\ Closing(kind) \in Char
       /\ Opening(kind) \notin 1..Space /\ Closing(kind) \notin 1..Space \union {End, Quote, Comma}
       /\ Opening(kind) # Closing(kind) /\ Closing(kind) \notin Digit \union {Minus, 91, 123}
       /\ Opening(kind) \notin Digit \union {Minus, Quote, End}
  /\ {Comma, Colon, Quote, Minus} \intersect (1..Space \union {End}) = {}
  /\ Digit \intersect (1..Space \union {End, Minus, Quote}) = {}
  /\ {Comma, Colon, Quote, Minus, Space, NewLine, Tab} \union Digit \subseteq Char
  /\ {Space, NewLine, Tab} \subseteq 1..Space
  /\ End \notin 1..Space /\ End \notin Char /\ {Comma, Space, NewLine, Tab} \intersect Digit = {}
  /\ Quote # Minus /\ Comma # Colon
BY DEF Opening, Closing, Char, Space, Comma, Colon, Quote, Minus, Digit, Zero, End, NewLine, Tab

\* What fails takes nothing.
LEMMA FailedAdvances ==
  /\ Failed.next = 0
  /\ \A t, i : Advances(t, i, Failed)
BY DEF Failed, Parsed, Advances

\* A string that is read ends behind where it begins (cJSON.c:192-249).
LEMMA StringAdvances ==
  ASSUME NEW t \in Seq(Char), NEW i \in Nat
  PROVE  Advances(t, i, ParseString(t, i))
<1>1. CASE At(t, i) = Quote
  <2>1. i <= Len(t)
    BY <1>1, AtWithin, Signs
  <2> DEFINE r == Unescape(t)[i + 1]
  <2>2. r.next \in Nat /\ r.next >= i + 1
    BY UnescapeForward
  <2>3. ParseString(t, i) = Parsed(r.next, String(r.item))
    BY <1>1 DEF ParseString
  <2> HIDE DEF r
  <2> QED
    BY <2>1, <2>2, <2>3 DEF Advances, Parsed
<1>2. CASE At(t, i) # Quote
  BY <1>2, FailedAdvances DEF ParseString
<1> QED
  BY <1>1, <1>2

\* So does a number (cJSON.c:96-114).
LEMMA NumberAdvances ==
  ASSUME NEW t \in Seq(Char), NEW i \in Nat, At(t, i) \in Digit \union {Minus}
  PROVE  Advances(t, i, ParseNumber(t, i))
<1> DEFINE start == IF At(t, i) = Minus THEN i + 1 ELSE i
<1> DEFINE whole == IF At(t, start) = Zero THEN start + 1 ELSE start
<1> DEFINE last == IF At(t, whole) = Zero THEN whole ELSE Past(t, whole, Digit)
<1>1. i <= Len(t)
  BY AtWithin, Signs
<1>2. ParseNumber(t, i).next = last
  BY DEF ParseNumber, Parsed
<1>3. End \notin Digit /\ Zero \in Digit
  BY DEF End, Digit, Zero
<1>4. ASSUME NEW j \in Nat
      PROVE  /\ Past(t, j, Digit) \in Nat /\ Past(t, j, Digit) >= j
             /\ At(t, Past(t, j, Digit)) \notin Digit
  <2>1. Past(t, j, Digit) \in j..j + Len(t) /\ At(t, Past(t, j, Digit)) \notin Digit
    BY <1>3, PastFound
  <2> QED
    BY <2>1
<1>5. CASE At(t, i) = Minus
  <2>1. start = i + 1
    BY <1>5
  <2>2. whole \in Nat /\ whole >= i + 1
    BY <2>1
  <2> HIDE DEF whole, start
  <2>3. last \in Nat /\ last >= i + 1
    <3>1. Past(t, whole, Digit) \in Nat /\ Past(t, whole, Digit) >= whole
      BY <1>4, <2>2
    <3>2. last = whole \/ last = Past(t, whole, Digit)
      OBVIOUS
    <3> HIDE DEF last
    <3> QED
      BY <2>2, <3>1, <3>2
  <2> QED
    BY <1>1, <1>2, <2>3 DEF Advances
<1>6. CASE At(t, i) # Minus /\ At(t, i) = Zero
  <2>1. start = i
    BY <1>6
  <2>2. whole = i + 1
    BY <1>6, <2>1
  <2> HIDE DEF whole, start
  <2>3. last \in Nat /\ last >= i + 1
    <3>1. Past(t, whole, Digit) \in Nat /\ Past(t, whole, Digit) >= whole
      BY <1>4, <2>2, SMTT(30)
    <3>2. last = whole \/ last = Past(t, whole, Digit)
      OBVIOUS
    <3> HIDE DEF last
    <3> QED
      BY <2>2, <3>1, <3>2
  <2> QED
    BY <1>1, <1>2, <2>3 DEF Advances
<1>7. CASE At(t, i) # Minus /\ At(t, i) # Zero
  <2>1. start = i
    BY <1>7
  <2>2. whole = i
    BY <1>7, <2>1
  <2> HIDE DEF whole, start
  <2>3. last = Past(t, i, Digit)
    BY <1>7, <2>2
  <2>4. At(t, i) \in Digit
    BY <1>7
  <2>5. last \in Nat /\ last >= i /\ last # i
    BY <1>4, <2>3, <2>4
  <2> HIDE DEF last
  <2> QED
    BY <1>1, <1>2, <2>5 DEF Advances
<1> QED
  BY <1>5, <1>6, <1>7

\* A value function that takes some of the text at each place where it does not fail.
Advancing(t, value) == \A i \in Nat : Advances(t, i, value[i])

\* So does an element, when values do (cJSON.c:417, 525-530).
LEMMA ElementAdvances ==
  ASSUME NEW t \in Seq(Char), NEW i \in Nat, NEW kind, NEW value, Advancing(t, value)
  PROVE  Advances(t, i, ParseElement(t, i, kind, value))
<1>1. CASE kind = "array"
  BY <1>1 DEF ParseElement, Advancing
<1>2. CASE kind # "array"
  <2> DEFINE name == ParseString(t, i)
  <2> DEFINE colon == Skip(t, name.next)
  <2> DEFINE v == value[Skip(t, colon + 1)]
  <2>1. ParseElement(t, i, kind, value) =
          IF name.next = 0 \/ At(t, colon) # Colon \/ v.next = 0 THEN Failed
          ELSE Parsed(v.next, Member(name.item.text, v.item))
    BY <1>2 DEF ParseElement, ParseMember, ValueAfter
  <2>2. Advances(t, i, name)
    BY StringAdvances
  <2> HIDE DEF name
  <2>3. name.next \in Nat
    BY <2>2 DEF Advances
  <2>4. colon \in Nat /\ colon >= name.next
    <3>1. colon \in name.next..name.next + Len(t)
      BY <2>3, SkipFound
    <3> HIDE DEF colon
    <3> QED
      BY <2>3, <3>1
  <2> HIDE DEF colon
  <2>5. Skip(t, colon + 1) \in Nat /\ Skip(t, colon + 1) >= colon + 1
    <3>1. colon + 1 \in Nat
      BY <2>4
    <3>2. Skip(t, colon + 1) \in colon + 1..colon + 1 + Len(t)
      BY <3>1, SkipFound
    <3> QED
      BY <2>4, <3>2
  <2>6. Advances(t, Skip(t, colon + 1), v)
    BY <2>5 DEF Advancing
  <2>7. v.next \in Nat /\ (v.next = 0 \/ v.next > Skip(t, colon + 1))
    BY <2>6 DEF Advances
  <2> HIDE DEF v
  <2>8. name.next # 0 => name.next > i /\ i <= Len(t)
    BY <2>2 DEF Advances
  <2>9. CASE name.next = 0 \/ At(t, colon) # Colon \/ v.next = 0
    BY <2>1, <2>9, FailedAdvances
  <2>10. CASE ~(name.next = 0 \/ At(t, colon) # Colon \/ v.next = 0)
    <3>1. ParseElement(t, i, kind, value).next = v.next
      BY <2>1, <2>10 DEF Parsed
    <3>2. v.next > i /\ i <= Len(t)
      BY <2>3, <2>4, <2>5, <2>7, <2>8, <2>10
    <3> QED
      BY <2>7, <3>1, <3>2 DEF Advances
  <2> QED
    BY <2>9, <2>10
<1> QED
  BY <1>1, <1>2

\* So do elements, up to the closing bracket (cJSON.c:417-429).
LEMMA ElementsAdvance ==
  ASSUME NEW t \in Seq(Char), NEW kind \in {"array", "object"}, NEW value, Advancing(t, value)
  PROVE  \A i \in Nat : Advances(t, i, ParseElements(t, kind, value)[i])
<1> DEFINE F == ParseElements(t, kind, value)
<1> DEFINE S == {i \in Nat : Advances(t, i, F[i])}
<1>1. \A i \in Nat : Advances(t, i, ParseElement(t, i, kind, value))
  BY ElementAdvances
<1>2. ASSUME NEW i \in Nat, \A j \in Nat : j > i => j \in S
      PROVE  i \in S
  <2> DEFINE e == ParseElement(t, i, kind, value)
  <2> DEFINE b == Behind(t, i, kind, value)
  <2> DEFINE j == Skip(t, b + 1)
  <2>1. F[i] = CASE e.next # 0 /\ At(t, b) = Comma /\ F[j].next # 0 ->
                      Parsed(F[j].next, <<e.item>> \o F[j].item)
                 [] e.next # 0 /\ At(t, b) = Closing(kind) -> Parsed(b + 1, <<e.item>>)
                 [] OTHER -> Failed
    BY <1>1, ElementsSteps
  <2>2. Advances(t, i, e)
    BY <1>1
  <2>3. b = Skip(t, e.next)
    BY DEF Behind
  <2> HIDE DEF e, F
  <2>4. e.next \in Nat /\ (e.next # 0 => e.next > i /\ i <= Len(t))
    BY <2>2 DEF Advances
  <2>5. b \in Nat /\ b >= e.next
    <3>1. b \in e.next..e.next + Len(t)
      BY <2>3, <2>4, SkipFound
    <3> HIDE DEF b
    <3> QED
      BY <2>4, <3>1
  <2> HIDE DEF b
  <2>6. j \in Nat /\ j > b
    <3>1. j \in b + 1..b + 1 + Len(t)
      <4>1. b + 1 \in Nat
        BY <2>5
      <4> QED
        BY <4>1, SkipFound
    <3> HIDE DEF j
    <3> QED
      BY <2>5, <3>1
  <2> HIDE DEF j
  <2>7. CASE e.next = 0
    <3>1. F[i] = Failed
      BY <2>1, <2>7
    <3> QED
      BY <3>1, FailedAdvances DEF F
  <2>8. CASE e.next # 0
    <3>1. F[j].next \in Nat /\ (F[j].next = 0 \/ F[j].next > j)
      <4>1. j > i
        BY <2>4, <2>5, <2>6, <2>8
      <4>2. Advances(t, j, F[j])
        BY <1>2, <2>6, <4>1
      <4> QED
        BY <4>2 DEF Advances
    <3>2. CASE At(t, b) = Comma /\ F[j].next # 0
      <4>1. At(t, b) # Closing(kind)
        BY <3>2, Signs
      <4>2. F[i].next = F[j].next
        BY <2>1, <2>8, <3>2, <4>1 DEF Parsed
      <4>3. F[i].next \in Nat /\ F[i].next > i /\ i <= Len(t)
        BY <2>4, <2>5, <2>6, <2>8, <3>1, <3>2, <4>2
      <4> QED
        BY <4>3 DEF Advances, F
    <3>3. CASE ~(At(t, b) = Comma /\ F[j].next # 0) /\ At(t, b) = Closing(kind)
      <4>1. F[i] = Parsed(b + 1, <<e.item>>)
        BY <2>1, <2>8, <3>3
      <4>2. F[i].next = b + 1
        BY <4>1 DEF Parsed
      <4>3. F[i].next \in Nat /\ F[i].next > i /\ i <= Len(t)
        BY <2>4, <2>5, <2>8, <4>2
      <4> QED
        BY <4>3 DEF Advances, F
    <3>4. CASE ~(At(t, b) = Comma /\ F[j].next # 0) /\ At(t, b) # Closing(kind)
      <4>1. F[i] = Failed
        BY <2>1, <3>4
      <4> QED
        BY <4>1, FailedAdvances DEF F
    <3> QED
      BY <3>2, <3>3, <3>4
  <2> QED
    BY <2>7, <2>8
<1>3. ASSUME NEW i \in Nat, i > Len(t)
      PROVE  i \in S
  <2>1. ParseElement(t, i, kind, value).next = 0
    BY <1>1, <1>3 DEF Advances
  <2>2. F[i] = Failed
    BY <1>1, <2>1, ElementsSteps, ZenonT(60)
  <2> QED
    BY <2>2, FailedAdvances
<1>4. Nat \subseteq S
  <2> HIDE DEF S
  <2>1. Len(t) \in Nat /\ \A i \in 0..Len(t) : i \in Nat
    OBVIOUS
  <2> QED
    BY <1>2, <1>3, <2>1, FromTheEnd
<1> QED
  BY <1>4

\* So does what is in brackets (cJSON.c:406-431, 514-547).
LEMMA NestedAdvances ==
  ASSUME NEW t \in Seq(Char), NEW i \in Nat, NEW kind \in {"array", "object"}, NEW value,
         Advancing(t, value), At(t, i) # End
  PROVE  Advances(t, i, ParseNested(t, i, kind, value))
<1> DEFINE first == Skip(t, i + 1)
<1> DEFINE r == ParseElements(t, kind, value)[first]
<1>1. i <= Len(t)
  BY AtWithin
<1>2. first \in Nat /\ first >= i + 1
  <2>1. first \in i + 1..i + 1 + Len(t)
    <3>1. i + 1 \in Nat
      OBVIOUS
    <3> QED
      BY <3>1, SkipFound
  <2> HIDE DEF first
  <2> QED
    BY <2>1
<1>3. Advances(t, first, r)
  BY <1>2, ElementsAdvance
<1>4. ParseNested(t, i, kind, value) =
        CASE At(t, first) = Closing(kind) -> Parsed(first + 1, [type |-> kind, children |-> <<>>])
          [] At(t, first) # Closing(kind) /\ r.next # 0 ->
               Parsed(r.next, [type |-> kind, children |-> r.item])
          [] OTHER -> Failed
  BY DEF ParseNested, Enclosed
<1> HIDE DEF first, r
<1>5. r.next \in Nat /\ (r.next = 0 \/ r.next > first)
  BY <1>3 DEF Advances
<1>6. CASE At(t, first) = Closing(kind)
  <2>1. ParseNested(t, i, kind, value).next = first + 1
    BY <1>4, <1>6 DEF Parsed
  <2> QED
    BY <1>1, <1>2, <2>1 DEF Advances
<1>7. CASE At(t, first) # Closing(kind) /\ r.next # 0
  <2>1. ParseNested(t, i, kind, value).next = r.next
    BY <1>4, <1>7 DEF Parsed
  <2> QED
    BY <1>1, <1>2, <1>5, <1>7, <2>1 DEF Advances
<1>8. CASE At(t, first) # Closing(kind) /\ r.next = 0
  BY <1>4, <1>8, FailedAdvances
<1> QED
  BY <1>6, <1>7, <1>8

\* However deep values may be, reading one takes some of the text or fails.
LEMMA ValuesAdvance ==
  ASSUME NEW t \in Seq(Char), NEW n \in Nat
  PROVE  Advancing(t, ParseValues(t)[n])
<1> DEFINE S == {m \in Nat : Advancing(t, ParseValues(t)[m])}
<1>1. 0 \in S
  <2>1. \A i \in Nat : ParseValues(t)[0][i] = Failed
    BY ValuesSteps
  <2> QED
    BY <2>1, FailedAdvances DEF Advancing
<1>2. ASSUME NEW m \in Nat, m \in S
      PROVE  m + 1 \in S
  <2> DEFINE value == ParseValues(t)[m]
  <2>1. Advancing(t, value)
    BY <1>2
  <2>2. \A i \in Nat : ParseValues(t)[m + 1][i] = ParseValue(t, i, value)
    <3>1. ParseValues(t)[m + 1] = [i \in Nat |-> ParseValue(t, i, ParseValues(t)[m])]
      BY ValuesSteps
    <3> HIDE DEF value
    <3>2. ParseValues(t)[m + 1] = [i \in Nat |-> ParseValue(t, i, value)]
      BY <3>1 DEF value
    <3> QED
      BY <3>2
  <2> HIDE DEF value
  <2>3. ASSUME NEW i \in Nat
        PROVE  Advances(t, i, ParseValue(t, i, value))
    <3>1. Advances(t, i, ParseString(t, i))
      BY StringAdvances
    <3>2. At(t, i) = Minus \/ At(t, i) \in Digit => Advances(t, i, ParseNumber(t, i))
      BY NumberAdvances
    <3>3. \A kind \in {"array", "object"} :
            At(t, i) = Opening(kind) => Advances(t, i, ParseNested(t, i, kind, value))
      BY <2>1, NestedAdvances, Signs
    <3>4. Advances(t, i, Failed)
      BY FailedAdvances
    <3> QED
      BY <3>1, <3>2, <3>3, <3>4, Signs DEF ParseValue
  <2> QED
    BY <2>2, <2>3 DEF Advancing
<1>3. Nat \subseteq S
  <2> HIDE DEF S
  <2> QED
    BY <1>1, <1>2, Induction
<1> QED
  BY <1>3
=============================================================================
