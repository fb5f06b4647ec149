----------------------------- MODULE CJsonProofs -----------------------------
(***************************************************************************)
(* Every item that is printed is read back, whatever follows it when it is *)
(* in brackets; it is refused when it is cut; and no buffer is too short   *)
(* for it.  The items are those nested to any depth, with any characters,  *)
(* any ints and any number of elements; each lemma about what is in        *)
(* brackets takes the reading and printing of what is in it for granted,   *)
(* and an induction over the nesting joins them.                           *)
(***************************************************************************)
EXTENDS CJsonSteps

-----------------------------------------------------------------------------
(* The elements of an array or object.                                     *)

\* What is read at an element e with the place b behind it, r for what is read behind a comma.
Joined(t, kind, e, b, r) ==
    CASE e.next # 0 /\ At(t, b) = Comma /\ r.next # 0 -> Parsed(r.next, <<e.item>> \o r.item)
      [] e.next # 0 /\ At(t, b) = Closing(kind) -> Parsed(b + 1, <<e.item>>)
      [] OTHER -> Failed

\* ParseElements() at a place: an element that fails or has nothing behind it, one with a
\* comma behind it, and one with the closing bracket.
LEMMA ElementsAt ==
  ASSUME NEW t \in Seq(Char), NEW kind \in {"array", "object"}, NEW value, Advancing(t, value),
         NEW i \in Nat
  PROVE  ParseElements(t, kind, value)[i] =
           Joined(t, kind, ParseElement(t, i, kind, value), Behind(t, i, kind, value),
                ParseElements(t, kind, value)[Skip(t, Behind(t, i, kind, value) + 1)])
<1>1. \A j \in Nat : Advances(t, j, ParseElement(t, j, kind, value))
  BY ElementAdvances
<1> QED
  BY <1>1, ElementsSteps DEF Joined

\* Elements are not read when the first of them is not.
LEMMA ReadFails ==
  ASSUME NEW t, NEW kind \in {"array", "object"}, NEW e, NEW b, NEW r,
         e.next = 0 \/ At(t, b) = End
  PROVE  Joined(t, kind, e, b, r) = Failed
<1>1. CASE e.next = 0
  BY <1>1 DEF Joined
<1>2. CASE At(t, b) = End
  <2>1. At(t, b) # Comma /\ At(t, b) # Closing(kind)
    BY <1>2, Signs
  <2> QED
    BY <2>1 DEF Joined
<1> QED
  BY <1>1, <1>2

\* An element that a comma follows is joined to those behind it (cJSON.c:420-427).
LEMMA ReadOn ==
  \A t, e, b, r : \A kind \in {"array", "object"} :
    e.next # 0 /\ At(t, b) = Comma =>
      Joined(t, kind, e, b, r) =
        IF r.next # 0 THEN Parsed(r.next, <<e.item>> \o r.item) ELSE Failed
  BY Signs DEF Joined

\* One that the closing bracket follows is the last (cJSON.c:429, 545).
LEMMA ReadLast ==
  \A t, e, b, r : \A kind \in {"array", "object"} :
    e.next # 0 /\ At(t, b) = Closing(kind) =>
      Joined(t, kind, e, b, r) = Parsed(b + 1, <<e.item>>)
  BY Signs DEF Joined

\* What is at a place, when it is at the end or before it.
Reaches(t, i, j) == IF j <= Len(t) THEN i = j ELSE i > Len(t)

\* Elements x that stand at the places p and end before the places q, with z for the place of
\* the closing bracket.  One that is nested too deep ("deep") may fail where it stands.
Laid(t, kind, value, x, deep, p, q, z) ==
    /\ p[1] <= z
    /\ \A k \in 1..Len(x) :
         0 < q[k] /\ q[k] <= z /\ (k < Len(x) => q[k] < p[k + 1] /\ p[k + 1] <= z)
    /\ \A k \in 1..Len(x) : q[k] <= Len(t) + 1 =>
          \/ ParseElement(t, p[k], kind, value) = Parsed(q[k], x[k])
          \/ deep /\ ParseElement(t, p[k], kind, value).next = 0
    /\ \A k \in 1..Len(x) : q[k] > Len(t) + 1 =>
          \/ ParseElement(t, p[k], kind, value).next = 0
          \/ ParseElement(t, p[k], kind, value).next > Len(t)
    /\ \A k \in 1..Len(x) - 1 : q[k] <= Len(t) =>
          Skip(t, q[k]) = q[k] /\ At(t, q[k]) = Comma /\ Reaches(t, Skip(t, q[k] + 1), p[k + 1])
    /\ q[Len(x)] <= Len(t) => Reaches(t, Skip(t, q[Len(x)]), z)
    /\ z <= Len(t) => At(t, z) = Closing(kind)

\* What is read up to the place z of a closing bracket: the item when the bracket is there, and
\* nothing when it is not.
Outcome(t, r, z, item, deep) ==
    /\ z <= Len(t) => r = Parsed(z + 1, item) \/ (deep /\ r.next = 0)
    /\ ~(z <= Len(t)) => r.next = 0

\* They are all read when the bracket is there, and nothing is when it is not.
LEMMA ElementsRead ==
  ASSUME NEW t \in Seq(Char), NEW kind \in {"array", "object"}, NEW value, Advancing(t, value),
         NEW X, NEW x \in Seq(X), x # <<>>, NEW deep \in BOOLEAN, NEW z \in Nat,
         NEW p \in [1..Len(x) -> Nat], NEW q \in [1..Len(x) -> Nat],
         Laid(t, kind, value, x, deep, p, q, z)
  PROVE  Outcome(t, ParseElements(t, kind, value)[p[1]], z, x, deep)
<1> DEFINE n == Len(x)
<1> DEFINE l == Len(t)
<1> DEFINE F == ParseElements(t, kind, value)
<1> DEFINE e(k) == ParseElement(t, p[k], kind, value)
<1> DEFINE b(k) == Behind(t, p[k], kind, value)
<1> DEFINE Good(k) == IF z <= l
                      THEN \/ F[p[k]] = Parsed(z + 1, SubSeq(x, k, n))
                           \/ deep /\ F[p[k]].next = 0
                      ELSE F[p[k]].next = 0
<1>1. n \in Nat /\ n >= 1 /\ l \in Nat
  BY EmptySeq
<1>2. \A k \in 1..n : p[k] \in Nat /\ q[k] \in Nat /\ q[k] <= z /\ q[k] # 0
  BY DEF Laid
<1>3. \A k \in 1..n - 1 : q[k] < p[k + 1] /\ p[k + 1] <= z
  <2> SUFFICES ASSUME NEW k \in 1..n - 1
               PROVE  q[k] < p[k + 1] /\ p[k + 1] <= z
    OBVIOUS
  <2>1. k \in 1..n /\ k < n
    BY <1>1
  <2> QED
    BY <2>1 DEF Laid
<1>4. \A k \in 1..n : q[k] <= l + 1 => e(k) = Parsed(q[k], x[k]) \/ (deep /\ e(k).next = 0)
  BY DEF Laid
<1>5. \A k \in 1..n : q[k] > l + 1 => e(k).next = 0 \/ e(k).next > l
  BY DEF Laid
<1>6. \A k \in 1..n - 1 : q[k] <= l =>
        Skip(t, q[k]) = q[k] /\ At(t, q[k]) = Comma /\ Reaches(t, Skip(t, q[k] + 1), p[k + 1])
  BY DEF Laid
<1>7. q[n] <= l => Reaches(t, Skip(t, q[n]), z)
  BY DEF Laid
<1>8. z <= l => At(t, z) = Closing(kind)
  BY DEF Laid
<1>10. \A k : b(k) = Skip(t, e(k).next)
  BY DEF Behind
<1>11. \A j \in Nat : j > l => At(t, j) = End
  BY <1>1 DEF At
<1>12. \A j \in Nat : F[j].next \in Nat /\ (F[j].next = 0 \/ j <= l)
  BY ElementsAdvance DEF Advances
<1> DEFINE r(k) == F[Skip(t, b(k) + 1)]
<1>27. \A k \in 1..n : F[p[k]] = Joined(t, kind, e(k), b(k), r(k))
  <2> SUFFICES ASSUME NEW k \in 1..n
               PROVE  F[p[k]] = Joined(t, kind, e(k), b(k), r(k))
    OBVIOUS
  <2>1. p[k] \in Nat
    BY <1>2
  <2> QED
    BY <2>1, ElementsAt
<1>28. \A k \in 1..n : e(k).next \in Nat
  <2>1. \A k \in 1..n : Advances(t, p[k], ParseElement(t, p[k], kind, value))
    BY <1>2, ElementAdvances
  <2> QED
    BY <2>1 DEF Advances
<1> HIDE DEF e, b, r
<1>9. ASSUME NEW k \in 1..n, e(k).next = 0 \/ e(k).next > l \/ At(t, b(k)) = End
      PROVE  F[p[k]].next = 0
  <2>1. ASSUME e(k).next > l
        PROVE  At(t, b(k)) = End
    <3>1. e(k).next \in Nat /\ b(k) = Skip(t, e(k).next)
      BY <1>10, <1>28
    <3>2. b(k) \in e(k).next..e(k).next + Len(t)
      BY <3>1, SkipFound
    <3>3. b(k) \in Nat /\ b(k) > l
      BY <1>1, <2>1, <3>1, <3>2
    <3> QED
      BY <1>11, <3>3
  <2>2. F[p[k]] = Failed
    BY <1>9, <1>27, <2>1, ReadFails
  <2> QED
    BY <2>2, FailedAdvances
<1>13. ASSUME NEW k \in 1..n, e(k).next # 0, At(t, b(k)) = Comma
       PROVE  F[p[k]] = IF r(k).next # 0 THEN Parsed(r(k).next, <<e(k).item>> \o r(k).item)
                        ELSE Failed
  <2>1. Joined(t, kind, e(k), b(k), r(k)) =
          IF r(k).next # 0 THEN Parsed(r(k).next, <<e(k).item>> \o r(k).item) ELSE Failed
    BY <1>13, ReadOn
  <2> QED
    BY <1>27, <2>1
<1>14. ASSUME NEW k \in 1..n, e(k).next # 0, At(t, b(k)) = Closing(kind)
       PROVE  F[p[k]] = Parsed(b(k) + 1, <<e(k).item>>)
  BY <1>14, <1>27, ReadLast
<1>15. \A k \in 1..n : SubSeq(x, k, n) = <<x[k]>> \o SubSeq(x, k + 1, n)
  BY <1>1, SubSeqRecursiveFirst
<1>16. SubSeq(x, n, n) = <<x[n]>> /\ SubSeq(x, 1, n) = x
  <2>1. n \in 1..n /\ n + 1 > n /\ n \in Int /\ n + 1 \in Int
    BY <1>1
  <2>2. SubSeq(x, n + 1, n) = <<>>
    BY <2>1, SubSeqEmpty
  <2>3. x[n] \in X
    BY <2>1
  <2>4. <<x[n]>> \in Seq(X) /\ <<x[n]>> \o <<>> = <<x[n]>>
    BY <2>3
  <2>5. SubSeq(x, n, n) = <<x[n]>>
    BY <1>15, <2>1, <2>2, <2>4
  <2> QED
    BY <2>5, SubSeqFull
<1>17. \A j, item : Parsed(j, item).next = j /\ Parsed(j, item).item = item
  BY DEF Parsed
<1> HIDE DEF n, l, F
<1>18. ASSUME NEW k \in 1..n, e(k).next = 0
       PROVE  Good(k)
  <2>1. F[p[k]].next = 0
    BY <1>9, <1>18
  <2>2. CASE q[k] <= l + 1
    <3>1. e(k) = Parsed(q[k], x[k]) \/ deep
      BY <1>4, <2>2
    <3>2. CASE deep
      BY <2>1, <3>2
    <3>3. CASE e(k) = Parsed(q[k], x[k])
      <4>1. q[k] = 0
        BY <1>17, <1>18, <3>3
      <4> QED
        BY <1>2, <4>1
    <3> QED
      BY <3>1, <3>2, <3>3
  <2>3. CASE q[k] > l + 1
    <3>1. ~(z <= l)
      BY <1>1, <1>2, <2>3
    <3> QED
      BY <2>1, <3>1
  <2> QED
    BY <1>1, <1>2, <2>2, <2>3
<1>19. \A k \in 1..n : q[k] > l => Good(k)
  <2> SUFFICES ASSUME NEW k \in 1..n, q[k] > l
               PROVE  Good(k)
    OBVIOUS
  <2>1. ~(z <= l)
    BY <1>1, <1>2
  <2>2. e(k).next = 0 \/ e(k).next > l
    BY <1>1, <1>2, <1>4, <1>5, <1>17
  <2> QED
    BY <1>9, <2>1, <2>2
<1>20. ASSUME NEW k \in 1..n, q[k] <= l, e(k).next # 0
       PROVE  e(k) = Parsed(q[k], x[k]) /\ e(k).next = q[k] /\ e(k).item = x[k]
              /\ b(k) = Skip(t, q[k])
  BY <1>1, <1>2, <1>4, <1>10, <1>17, <1>20, SMTT(30)
<1>21. ASSUME q[n] <= l, e(n).next # 0
       PROVE  Good(n)
  <2>1. n \in 1..n
    BY <1>1
  <2>2. e(n).item = x[n] /\ b(n) = Skip(t, q[n])
    BY <1>20, <1>21, <2>1
  <2>3. Reaches(t, b(n), z)
    BY <1>1, <1>2, <1>7, <1>21, <2>1, <2>2
  <2>4. CASE z <= l
    <3>1. b(n) = z
      BY <2>3, <2>4 DEF Reaches, l
    <3>2. F[p[n]] = Parsed(z + 1, <<x[n]>>)
      BY <1>8, <1>14, <1>21, <2>1, <2>2, <2>4, <3>1
    <3>3. F[p[n]] = Parsed(z + 1, SubSeq(x, n, n))
      BY <1>16, <3>2
    <3> QED
      BY <2>4, <3>3
  <2>5. CASE ~(z <= l)
    <3>1. b(n) \in Nat
      <4>1. b(n) \in q[n]..q[n] + Len(t)
        BY <1>2, <2>1, <2>2, SkipFound
      <4> QED
        BY <1>2, <2>1, <4>1
    <3>2. b(n) > l
      BY <2>3, <2>5 DEF Reaches, l
    <3> QED
      BY <1>9, <1>11, <2>1, <2>5, <3>1, <3>2
  <2> QED
    BY <2>4, <2>5
<1>22. ASSUME NEW k \in 1..n - 1, Good(k + 1), q[k] <= l, e(k).next # 0
       PROVE  Good(k)
  <2>1. k \in 1..n /\ k + 1 \in 1..n /\ k < n
    BY <1>1
  <2>2. e(k).item = x[k] /\ b(k) = q[k] /\ At(t, q[k]) = Comma
        /\ Reaches(t, Skip(t, q[k] + 1), p[k + 1])
    BY <1>6, <1>20, <1>22, <2>1
  <2>3. F[p[k]] = IF r(k).next # 0 THEN Parsed(r(k).next, <<x[k]>> \o r(k).item) ELSE Failed
    BY <1>13, <1>22, <2>1, <2>2
  <2>8. r(k) = F[Skip(t, q[k] + 1)]
    BY <2>2 DEF r
  <2>4. Skip(t, q[k] + 1) \in Nat
    <3>1. q[k] + 1 \in Nat
      BY <1>2, <2>1
    <3>2. Skip(t, q[k] + 1) \in q[k] + 1..q[k] + 1 + Len(t)
      BY <3>1, SkipFound
    <3> QED
      BY <3>1, <3>2
  <2>5. Failed.next = 0
    BY FailedAdvances
  <2>6. CASE p[k + 1] <= l
    <3>1. r(k) = F[p[k + 1]]
      BY <2>2, <2>6, <2>8 DEF Reaches, l
    <3>2. CASE z <= l
      <4>1. CASE r(k) = Parsed(z + 1, SubSeq(x, k + 1, n))
        <5>1. F[p[k]] = Parsed(z + 1, <<x[k]>> \o SubSeq(x, k + 1, n))
          BY <1>17, <2>3, <4>1
        <5>2. SubSeq(x, k, n) = <<x[k]>> \o SubSeq(x, k + 1, n)
          BY <1>15, <2>1
        <5>3. F[p[k]] = Parsed(z + 1, SubSeq(x, k, n))
          BY <5>1, <5>2
        <5> QED
          BY <3>2, <5>3
      <4>2. CASE deep /\ r(k).next = 0
        BY <2>3, <2>5, <3>2, <4>2
      <4> QED
        BY <1>22, <3>1, <3>2, <4>1, <4>2
    <3>3. CASE ~(z <= l)
      BY <1>22, <2>3, <2>5, <3>1, <3>3
    <3> QED
      BY <3>2, <3>3
  <2>7. CASE ~(p[k + 1] <= l)
    <3>1. ~(z <= l)
      <4>1. p[k + 1] \in Nat /\ p[k + 1] <= z
        BY <1>2, <1>3, <2>1
      <4> QED
        BY <1>1, <2>7, <4>1
    <3>2. Skip(t, q[k] + 1) > l
      BY <2>2, <2>7 DEF Reaches, l
    <3>3. r(k).next = 0
      BY <1>1, <1>12, <2>4, <2>8, <3>2
    <3> QED
      BY <2>3, <2>5, <3>1, <3>3
  <2> QED
    BY <2>6, <2>7
<1> HIDE DEF Good
<1> DEFINE T == {y \in 0..n - 1 : Good(n - y)}
<1>23. 0 \in T
  <2>1. n \in 1..n /\ n - 0 = n
    BY <1>1
  <2>2. Good(n)
    BY <1>1, <1>2, <1>18, <1>19, <1>21, <2>1
  <2> QED
    BY <1>1, <2>1, <2>2
<1>24. ASSUME NEW y \in 0..n - 1 - 1, y \in T
       PROVE  y + 1 \in T
  <2>1. n - (y + 1) \in 1..n - 1 /\ n - (y + 1) + 1 = n - y /\ y + 1 \in 0..n - 1
        /\ n - (y + 1) \in 1..n
    BY <1>1
  <2>2. Good(n - (y + 1) + 1)
    BY <1>24, <2>1
  <2> HIDE DEF T
  <2> DEFINE k == n - (y + 1)
  <2>3. k \in 1..n - 1 /\ k \in 1..n /\ Good(k + 1)
    BY <2>1, <2>2
  <2> HIDE DEF k
  <2>4. Good(k)
    <3>1. q[k] \in Nat
      BY <1>2, <2>3
    <3>2. CASE e(k).next = 0
      BY <1>18, <2>3, <3>2
    <3>3. CASE q[k] > l
      BY <1>19, <2>3, <3>3
    <3>4. CASE q[k] <= l /\ e(k).next # 0
      BY <1>22, <2>3, <3>4
    <3> QED
      BY <1>1, <3>1, <3>2, <3>3, <3>4
  <2> QED
    BY <2>1, <2>4 DEF T, k
<1>25. n - 1 \in T
  <2>1. n - 1 \in Nat
    BY <1>1
  <2>2. 0..n - 1 \subseteq T
    <3> HIDE DEF T
    <3> QED
      BY <2>1, <1>23, <1>24, BoundedInduction
  <2> HIDE DEF T
  <2> QED
    BY <2>1, <2>2
<1>26. Good(1)
  <2>1. n - (n - 1) = 1
    BY <1>1
  <2> QED
    BY <1>25, <2>1
<1> QED
  BY <1>16, <1>26 DEF Good, F, l, Outcome

-----------------------------------------------------------------------------
(* Blank space, and members.                                               *)

\* The characters between an element and a bracket or a comma.
Blank == {Tab, NewLine, Space}

\* A place that is not blank is skipped to at once.
LEMMA SkipNothing ==
  ASSUME NEW t \in Seq(Char), NEW i \in Nat, At(t, i) \notin 1..Space
  PROVE  Skip(t, i) = i
<1> DEFINE j == Skip(t, i)
<1>1. j \in i..i + Len(t) /\ \A k \in i..j - 1 : At(t, k) \in 1..Space
  BY SkipFound
<1> HIDE DEF j
<1>2. Len(t) \in Nat /\ j \in Nat /\ j >= i
  BY <1>1
<1>3. ~(j > i)
  <2> SUFFICES ASSUME j > i
               PROVE  FALSE
    OBVIOUS
  <2>1. i \in i..j - 1
    BY <1>2
  <2> QED
    BY <1>1, <2>1
<1> QED
  BY <1>2, <1>3 DEF j

\* Blanks are skipped, up to what follows them or beyond the end.
LEMMA SkipBlanks ==
  ASSUME NEW t \in Seq(Char), NEW i \in Nat \ {0}, NEW b \in Seq(Blank), StandsAt(t, i, b)
  PROVE  (i + Len(b) <= Len(t) => At(t, i + Len(b)) \notin 1..Space) =>
           Reaches(t, Skip(t, i), i + Len(b))
<1> DEFINE j == Skip(t, i)
<1> DEFINE l == Len(t)
<1> DEFINE m == Len(b)
<1>1. j \in i..i + l /\ \A k \in i..j - 1 : At(t, k) \in 1..Space
  BY SkipFound
<1>2. At(t, j) \notin 1..Space
  BY SkipFound
<1>3. l \in Nat /\ m \in Nat
  OBVIOUS
<1>4. j \in Nat /\ j >= i
  BY <1>1, <1>3
<1>5. ASSUME NEW k \in i..i + m - 1, k <= l
      PROVE  At(t, k) \in 1..Space
  <2>1. k - i + 1 \in 1..m /\ i + (k - i + 1) - 1 = k /\ k \in 1..l
    BY <1>3, <1>5
  <2>2. t[k] = b[k - i + 1]
    BY <1>5, <2>1 DEF StandsAt
  <2>3. b[k - i + 1] \in Blank
    BY <2>1
  <2> QED
    BY <2>1, <2>2, <2>3, Signs, SMTT(30) DEF At, Blank
<1>6. CASE i + m <= l /\ At(t, i + m) \notin 1..Space
  <2>1. ~(j < i + m)
    <3> SUFFICES ASSUME j < i + m
                 PROVE  FALSE
      OBVIOUS
    <3> HIDE DEF j, l, m
    <3>1. j \in i..i + m - 1 /\ j <= l
      BY <1>3, <1>4, <1>6
    <3> QED
      BY <1>2, <1>5, <3>1
  <2>2. ~(j > i + m)
    <3> SUFFICES ASSUME j > i + m
                 PROVE  FALSE
      OBVIOUS
    <3> HIDE DEF j, l, m
    <3>1. i + m \in i..j - 1
      BY <1>3, <1>4
    <3> QED
      BY <1>1, <1>6, <3>1
  <2>3. j = i + m
    <3> HIDE DEF j, l, m
    <3> QED
      BY <1>3, <1>4, <2>1, <2>2
  <2> QED
    BY <1>6, <2>3 DEF Reaches
<1>7. CASE i + m > l
  <2>1. ~(j <= l)
    <3> SUFFICES ASSUME j <= l
                 PROVE  FALSE
      OBVIOUS
    <3> HIDE DEF j, l, m
    <3>1. j \in i..i + m - 1
      BY <1>3, <1>4, <1>7
    <3> QED
      BY <1>2, <1>5, <3>1
  <2>2. ~(i + m <= l) /\ j > l
    <3> HIDE DEF j, l, m
    <3> QED
      BY <1>3, <1>4, <1>7, <2>1
  <2> QED
    BY <2>2 DEF Reaches
<1>8. i + m <= l \/ i + m > l
  <2> HIDE DEF j, l, m
  <2> QED
    BY <1>3
<1> QED
  BY <1>6, <1>7, <1>8

\* A text v is read as the item by a function, wherever it stands: when it is all there and no
\* digit follows it, the item is read to its end, and when it is cut nothing is read, or all
\* up to the end of the text.  An item that is nested too deep ("deep") may fail.
Reads(t, value, v, item, deep) ==
    \A j \in Nat \ {0} : StandsAt(t, j, v) =>
      /\ Whole(t, j, v) /\ At(t, j + Len(v)) \notin Digit =>
           value[j] = Parsed(j + Len(v), item) \/ (deep /\ value[j].next = 0)
      /\ ~Whole(t, j, v) => value[j].next = 0 \/ value[j].next > Len(t)

\* The member of an object is read when its value is.
LEMMA MemberRead ==
  ASSUME NEW t \in Seq(Char), NEW value, Advancing(t, value), NEW name \in Seq(Char),
         NEW v \in Seq(Char), Len(v) >= 1, v[1] \notin 1..Space, NEW item, NEW deep \in BOOLEAN,
         Reads(t, value, v, item, deep)
  PROVE  Reads(t, [j \in Nat |-> ParseMember(t, j, value)],
               PrintString(name) \o <<Colon, Tab>> \o v, Member(name, item), deep)
<1> DEFINE f == [j \in Nat |-> ParseMember(t, j, value)]
<1> DEFINE a == PrintString(name)
<1> DEFINE c == <<Colon, Tab>>
<1> DEFINE ac == a \o c
<1> DEFINE s == ac \o v
<1> DEFINE l == Len(t)
<1> DEFINE m == Member(name, item)
<1>1. a \in Seq(Char)
  BY StringPlaces
<1>2. c \in Seq(Char) /\ Len(c) = 2 /\ c = <<Colon>> \o <<Tab>>
      /\ <<Colon>> \in Seq(Char) /\ <<Tab>> \in Seq(Char) /\ Len(<<Colon>>) = 1
      /\ Len(<<Tab>>) = 1 /\ <<Colon>>[1] = Colon /\ <<Tab>>[1] = Tab /\ <<Tab>> \in Seq(Blank)
  BY Signs DEF Blank
<1>3. ac \in Seq(Char) /\ Len(ac) = Len(a) + 2
  <2> HIDE DEF a, c
  <2>1. ac \in Seq(Char) /\ Len(ac) = Len(a) + Len(c)
    BY <1>1, <1>2, ConcatPlaces
  <2> QED
    BY <1>2, <2>1
<1> DEFINE n == Len(a)
<1>4. s \in Seq(Char) /\ Len(s) = n + 2 + Len(v) /\ n \in Nat /\ Len(v) \in Nat /\ l \in Nat
  <2> HIDE DEF a, ac
  <2>1. s \in Seq(Char) /\ Len(s) = Len(ac) + Len(v)
    BY <1>3, ConcatPlaces, ZenonT(60)
  <2> QED
    BY <1>1, <1>3, <2>1
<1> SUFFICES ASSUME NEW j \in Nat \ {0}, StandsAt(t, j, s)
             PROVE  /\ Whole(t, j, s) /\ At(t, j + Len(s)) \notin Digit =>
                         f[j] = Parsed(j + Len(s), m) \/ (deep /\ f[j].next = 0)
                    /\ ~Whole(t, j, s) => f[j].next = 0 \/ f[j].next > Len(t)
  BY DEF Reads
<1> HIDE DEF s, ac, c
<1>5. StandsAt(t, j, ac) /\ StandsAt(t, j + n + 2, v)
  <2>1. StandsAt(t, j, ac) /\ StandsAt(t, j + Len(ac), v)
    BY <1>3, StandsConcat DEF s
  <2>2. j + Len(ac) = j + n + 2
    BY <1>3, <1>4
  <2> QED
    BY <2>1, <2>2
<1>6. StandsAt(t, j, a) /\ StandsAt(t, j + n, c)
  BY <1>1, <1>2, <1>5, StandsConcat DEF ac
<1>7. j + n \in Nat \ {0} /\ j + n + 1 \in Nat \ {0} /\ j + n + 2 \in Nat \ {0}
  <2> HIDE DEF a, n
  <2> QED
    BY <1>4
<1>8. StandsAt(t, j + n, <<Colon>>) /\ StandsAt(t, j + n + 1, <<Tab>>)
  BY <1>2, <1>6, <1>7, StandsConcat
<1>9. At(t, j + n) = IF j + n <= l THEN Colon ELSE End
  <2>1. <<Colon>> \in Seq(Char) /\ Len(<<Colon>>) >= 1
    BY <1>2
  <2>2. At(t, j + n) = IF j + n <= Len(t) THEN <<Colon>>[1] ELSE End
    BY <1>7, <1>8, <2>1, StandsFirst
  <2> QED
    BY <1>2, <2>2
<1>10. At(t, j + n + 2) = IF j + n + 2 <= l THEN v[1] ELSE End
  BY <1>5, <1>7, StandsFirst
<1> DEFINE r == ParseString(t, j)
<1> DEFINE w == Skip(t, r.next)
<1> DEFINE y == Skip(t, w + 1)
<1> DEFINE e == value[y]
<1>11. f[j] = IF r.next = 0 \/ At(t, w) # Colon \/ e.next = 0 THEN Failed
              ELSE Parsed(e.next, Member(r.item.text, e.item))
  BY DEF ParseMember, ValueAfter
<1>12. Whole(t, j, a) => r = Parsed(j + n, String(name))
  BY <1>6, StringRead
<1>13. ~Whole(t, j, a) => r.next \in Nat /\ (r.next = 0 \/ r.next > l)
  BY <1>6, StringRead
<1>14. Failed.next = 0
  BY FailedAdvances
<1>15. \A i : i \in Nat => value[i].next \in Nat /\ (value[i].next = 0 \/ i <= l)
  BY DEF Advancing, Advances
<1>16. \A i, g : Parsed(i, g).next = i /\ Parsed(i, g).item = g
  BY DEF Parsed
<1>17. Whole(t, j, a) <=> j + n - 1 <= l
  BY DEF Whole
<1>18. Whole(t, j, s) <=> j + n + 2 + Len(v) - 1 <= l
  <2> HIDE DEF a, n
  <2> QED
    BY <1>4 DEF Whole
<1>19. Whole(t, j + n + 2, v) <=> j + n + 2 + Len(v) - 1 <= l
  BY DEF Whole
<1>20. j + Len(s) = j + n + 2 + Len(v)
  <2> HIDE DEF a, n
  <2> QED
    BY <1>4
<1>21. \A i \in Nat : i > l => At(t, i) = End
  BY <1>4 DEF At
<1>22. String(name).text = name
  BY DEF String
<1> HIDE DEF f, r, w, y, e, n, a, l, m
<1>23. CASE ~(j + n <= l)
  <2>1. r.next \in Nat /\ (r.next = 0 \/ r.next > l)
    <3>1. CASE Whole(t, j, a)
      <4>1. r.next = j + n
        BY <1>12, <1>16, <3>1
      <4> QED
        BY <1>4, <1>7, <1>23, <4>1
    <3> QED
      BY <1>13, <3>1
  <2>2. ASSUME r.next > l
        PROVE  f[j].next = 0
    <3>1. w \in r.next..r.next + Len(t)
      BY <2>1, SkipFound DEF w
    <3>2. w \in Nat /\ w > l
      BY <1>4, <2>1, <2>2, <3>1 DEF l
    <3>3. At(t, w) # Colon
      BY <1>21, <3>2, Signs
    <3> QED
      BY <1>11, <1>14, <3>3
  <2>3. f[j].next = 0
    BY <1>11, <1>14, <2>1, <2>2
  <2>4. ~Whole(t, j, s)
    BY <1>4, <1>7, <1>18, <1>23
  <2> QED
    BY <2>3, <2>4
<1>24. CASE j + n <= l
  <2>1. Whole(t, j, a)
    BY <1>4, <1>7, <1>17, <1>24
  <2>2. r.next = j + n /\ r.item = String(name)
    BY <1>12, <1>16, <2>1
  <2>3. At(t, j + n) = Colon
    BY <1>9, <1>24
  <2>4. w = j + n
    <3>1. At(t, j + n) \notin 1..Space
      BY <2>3, Signs
    <3> QED
      BY <1>7, <2>2, <3>1, SkipNothing DEF w
  <2>5. y = Skip(t, j + n + 1)
    BY <2>4 DEF y
  <2>6. Reaches(t, y, j + n + 2)
    <3>1. j + n + 1 + Len(<<Tab>>) = j + n + 2
      BY <1>2, <1>7
    <3>2. j + n + 2 <= Len(t) => At(t, j + n + 2) \notin 1..Space
      BY <1>10 DEF l
    <3>3. Reaches(t, Skip(t, j + n + 1), j + n + 1 + Len(<<Tab>>))
      BY <1>2, <1>7, <1>8, <3>1, <3>2, SkipBlanks
    <3> QED
      BY <2>5, <3>1, <3>3
  <2>7. y \in Nat
    <3>1. y \in j + n + 1..j + n + 1 + Len(t)
      BY <1>7, <2>5, SkipFound
    <3> QED
      BY <1>7, <3>1
  <2>8. f[j] = IF e.next = 0 THEN Failed ELSE Parsed(e.next, Member(name, e.item))
    <3>1. r.next # 0
      BY <1>7, <2>2
    <3> QED
      BY <1>11, <1>22, <2>2, <2>3, <2>4, <3>1
  <2>9. f[j].next = e.next
    BY <1>14, <1>16, <2>8
  <2>10. CASE j + n + 2 <= l
    <3>1. e = value[j + n + 2]
      BY <2>6, <2>10 DEF Reaches, l, e
    <3>2. Whole(t, j + n + 2, v) /\ At(t, j + n + 2 + Len(v)) \notin Digit =>
            e = Parsed(j + n + 2 + Len(v), item) \/ (deep /\ e.next = 0)
      BY <1>5, <1>7, <3>1 DEF Reads
    <3>3. ~Whole(t, j + n + 2, v) => e.next = 0 \/ e.next > l
      BY <1>5, <1>7, <3>1 DEF Reads, l
    <3>4. ~Whole(t, j, s) => f[j].next = 0 \/ f[j].next > l
      BY <1>18, <1>19, <2>9, <3>3
    <3>5. ASSUME Whole(t, j, s), At(t, j + Len(s)) \notin Digit
          PROVE  f[j] = Parsed(j + Len(s), m) \/ (deep /\ f[j].next = 0)
      <4>1. e = Parsed(j + n + 2 + Len(v), item) \/ (deep /\ e.next = 0)
        BY <1>18, <1>19, <1>20, <3>2, <3>5
      <4>2. CASE deep /\ e.next = 0
        BY <2>9, <4>2
      <4>3. CASE e = Parsed(j + n + 2 + Len(v), item)
        <5>1. e.next = j + n + 2 + Len(v) /\ e.item = item
          BY <1>16, <4>3
        <5>2. e.next # 0
          BY <1>4, <1>7, <5>1
        <5> QED
          BY <1>20, <2>8, <5>1, <5>2 DEF m
      <4> QED
        BY <4>1, <4>2, <4>3
    <3> QED
      BY <3>4, <3>5 DEF l
  <2>11. CASE ~(j + n + 2 <= l)
    <3>1. y > l
      BY <2>6, <2>11 DEF Reaches, l
    <3>2. e.next = 0
      <4>1. e.next = 0 \/ y <= l
        BY <1>15, <2>7 DEF e
      <4> QED
        BY <1>4, <2>7, <3>1, <4>1
    <3>3. ~Whole(t, j, s)
      BY <1>4, <1>7, <1>18, <2>11
    <3> QED
      BY <2>9, <3>2, <3>3
  <2> QED
    BY <2>10, <2>11
<1> QED
  BY <1>23, <1>24

-----------------------------------------------------------------------------
(* How a text in brackets lies.                                            *)

\* Two texts that stand one behind the other.
LEMMA StandsBoth ==
  ASSUME NEW t \in Seq(Char), NEW i \in Nat \ {0}, NEW a \in Seq(Char), NEW b \in Seq(Char),
         StandsAt(t, i, a), StandsAt(t, i + Len(a), b)
  PROVE  StandsAt(t, i, a \o b)
<1> DEFINE s == a \o b
<1> DEFINE n == Len(a)
<1>1. /\ n \in Nat /\ Len(b) \in Nat /\ Len(s) = n + Len(b)
      /\ \A k \in 1..n : s[k] = a[k]
      /\ \A k \in 1..Len(b) : s[n + k] = b[k]
  BY ConcatPlaces
<1> HIDE DEF s
<1> SUFFICES ASSUME NEW k \in 1..Len(s), i + k - 1 <= Len(t)
             PROVE  t[i + k - 1] = s[k]
  BY DEF StandsAt, s
<1>2. CASE k <= n
  <2>1. k \in 1..n
    BY <1>1, <1>2
  <2> QED
    BY <1>1, <2>1 DEF StandsAt
<1>3. CASE k > n
  <2>1. k - n \in 1..Len(b) /\ n + (k - n) = k /\ i + n + (k - n) - 1 = i + k - 1
    <3> HIDE DEF n
    <3> QED
      BY <1>1, <1>3
  <2>2. t[i + n + (k - n) - 1] = b[k - n]
    BY <2>1 DEF StandsAt
  <2>3. s[k] = b[k - n]
    BY <1>1, <2>1
  <2> QED
    BY <2>1, <2>2, <2>3
<1> QED
  BY <1>1, <1>2, <1>3

\* Blank space is text.
LEMMA BlankChars ==
  ASSUME NEW b \in Seq(Blank)
  PROVE  b \in Seq(Char) /\ Len(b) \in Nat
  BY Signs DEF Blank

\* The text of an array or an object: what stands between its brackets are the texts u, with a
\* before each of them, a comma and a blank behind all but the last, and blanks at both ends.
Filling(a, u, sp, last) ==
    [k \in 1..Len(u) |-> a \o u[k] \o (IF k < Len(u) THEN <<Comma, sp>> ELSE last)]
Bracketed(kind, lead, a, u, sp, last, tail) ==
    <<Opening(kind)>> \o lead \o FlattenSeq(Filling(a, u, sp, last)) \o tail \o <<Closing(kind)>>

\* One of the texts with what is before and behind it.
FilledAt(t, i, a, u, sp, last, k) ==
    /\ StandsAt(t, i, a)
    /\ StandsAt(t, i + Len(a), u[k])
    /\ k < Len(u) => /\ StandsAt(t, i + Len(a) + Len(u[k]), <<Comma>>)
                     /\ StandsAt(t, i + Len(a) + Len(u[k]) + 1, <<sp>>)
    /\ k = Len(u) => StandsAt(t, i + Len(a) + Len(u[k]), last)

Filled(a, u, sp, last, d) ==
    /\ d \in Seq(Seq(Char)) /\ Len(d) = Len(u)
    /\ \A k \in 1..Len(u) : Len(d[k]) = Len(a) + Len(u[k]) + (IF k < Len(u) THEN 2 ELSE Len(last))
    /\ \A k \in 1..Len(u) : \A t \in Seq(Char), i \in Nat \ {0} :
          StandsAt(t, i, d[k]) => FilledAt(t, i, a, u, sp, last, k)

\* The places of texts with commas and blank space between them.
LEMMA FillingPlaces ==
  ASSUME NEW a \in Seq(Blank), NEW u \in Seq(Seq(Char)), NEW sp \in Blank, NEW last \in Seq(Blank)
  PROVE  Filled(a, u, sp, last, Filling(a, u, sp, last))
<1> DEFINE d == Filling(a, u, sp, last)
<1> DEFINE n == Len(u)
<1> DEFINE e(k) == IF k < n THEN <<Comma, sp>> ELSE last
<1>1. a \in Seq(Char) /\ last \in Seq(Char) /\ Len(a) \in Nat /\ Len(last) \in Nat
  BY BlankChars
<1>2. sp \in Char /\ Comma \in Char
  BY Signs DEF Blank
<1>3. /\ <<Comma>> \in Seq(Char) /\ <<sp>> \in Seq(Char) /\ <<Comma, sp>> \in Seq(Char)
      /\ Len(<<Comma>>) = 1 /\ Len(<<Comma, sp>>) = 2 /\ <<Comma, sp>> = <<Comma>> \o <<sp>>
  BY <1>2
<1>4. n \in Nat /\ \A k \in 1..n : u[k] \in Seq(Char) /\ Len(u[k]) \in Nat
  OBVIOUS
<1>5. \A k \in 1..n : e(k) \in Seq(Char) /\ Len(e(k)) = IF k < n THEN 2 ELSE Len(last)
  BY <1>1, <1>3
<1>6. d = [k \in 1..n |-> a \o u[k] \o e(k)]
  BY DEF Filling
<1>7. \A k \in 1..n : d[k] = a \o u[k] \o e(k)
  BY <1>6
<1> HIDE DEF e
<1> DEFINE au(k) == a \o u[k]
<1>8. \A k \in 1..n : au(k) \in Seq(Char) /\ Len(au(k)) = Len(a) + Len(u[k])
  BY <1>1, <1>4, ConcatPlaces
<1>9. \A k \in 1..n : d[k] = au(k) \o e(k)
  BY <1>7
<1>10. \A k \in 1..n : d[k] \in Seq(Char) /\ Len(d[k]) = Len(au(k)) + Len(e(k))
  <2> HIDE DEF au, d
  <2> SUFFICES ASSUME NEW k \in 1..n
               PROVE  d[k] \in Seq(Char) /\ Len(d[k]) = Len(au(k)) + Len(e(k))
    OBVIOUS
  <2>1. au(k) \in Seq(Char) /\ e(k) \in Seq(Char) /\ d[k] = au(k) \o e(k)
    BY <1>5, <1>8, <1>9
  <2> QED
    BY <2>1, ConcatPlaces
<1>11. d \in Seq(Seq(Char)) /\ Len(d) = n
  <2>1. DOMAIN d = 1..n /\ d = [k \in 1..n |-> d[k]]
    BY <1>6
  <2> HIDE DEF d
  <2> QED
    BY <1>4, <1>10, <2>1
<1>12. \A k \in 1..n : Len(d[k]) = Len(a) + Len(u[k]) + (IF k < n THEN 2 ELSE Len(last))
  BY <1>5, <1>8, <1>10
<1> HIDE DEF d
<1>13. ASSUME NEW k \in 1..n, NEW t \in Seq(Char), NEW i \in Nat \ {0}, StandsAt(t, i, d[k])
       PROVE  FilledAt(t, i, a, u, sp, last, k)
  <2> DEFINE b == au(k)
  <2>1. b \in Seq(Char) /\ e(k) \in Seq(Char) /\ StandsAt(t, i, b \o e(k))
    BY <1>5, <1>8, <1>9, <1>13
  <2>2. Len(b) = Len(a) + Len(u[k]) /\ b = a \o u[k] /\ u[k] \in Seq(Char)
    BY <1>4, <1>8
  <2> HIDE DEF b, au
  <2>3. StandsAt(t, i, b) /\ StandsAt(t, i + Len(b), e(k))
    BY <2>1, StandsConcat
  <2>4. StandsAt(t, i, a) /\ StandsAt(t, i + Len(a), u[k])
    BY <1>1, <2>2, <2>3, StandsConcat
  <2>10. Len(u[k]) \in Nat /\ Len(a) \in Nat
    BY <1>1, <1>4
  <2> DEFINE x == Len(a)
  <2> DEFINE y == Len(u[k])
  <2>11. x \in Nat /\ y \in Nat /\ Len(b) = x + y
    BY <2>2, <2>10
  <2>12. i + Len(b) = i + x + y /\ i + x + y \in Nat \ {0}
    <3> HIDE DEF x, y
    <3> QED
      BY <2>11
  <2>5. i + Len(b) = i + Len(a) + Len(u[k])
    BY <2>12
  <2>6. StandsAt(t, i + Len(a) + Len(u[k]), e(k))
    BY <2>3, <2>5
  <2>7. i + Len(a) + Len(u[k]) \in Nat \ {0}
    BY <2>12
  <2>8. ASSUME k < n
        PROVE  /\ StandsAt(t, i + Len(a) + Len(u[k]), <<Comma>>)
               /\ StandsAt(t, i + Len(a) + Len(u[k]) + 1, <<sp>>)
    <3> DEFINE v == i + Len(a) + Len(u[k])
    <3>1. v \in Nat \ {0}
      BY <2>7
    <3> HIDE DEF v
    <3>2. StandsAt(t, v, <<Comma>> \o <<sp>>)
      BY <1>3, <2>6, <2>8 DEF e, v
    <3>3. StandsAt(t, v, <<Comma>>) /\ StandsAt(t, v + Len(<<Comma>>), <<sp>>)
      BY <1>3, <3>1, <3>2, StandsConcat
    <3> QED
      BY <1>3, <3>3 DEF v
  <2>9. ASSUME k = n
        PROVE  StandsAt(t, i + Len(a) + Len(u[k]), last)
    <3>1. e(k) = last
      BY <1>4, <2>9 DEF e
    <3> QED
      BY <2>6, <3>1
  <2> QED
    BY <2>4, <2>8, <2>9 DEF FilledAt
<1> QED
  BY <1>11, <1>12, <1>13 DEF d, Filled

\* Where the texts stand that FlattenSeq() puts together, counted from the first.
FlatLies(ss, o) ==
    /\ o[0] = 0 /\ \A k \in 1..Len(ss) : o[k] = o[k - 1] + Len(ss[k])
    /\ FlattenSeq(ss) \in Seq(Char) /\ Len(FlattenSeq(ss)) = o[Len(ss)]
    /\ \A t \in Seq(Char), i \in Nat \ {0} : StandsAt(t, i, FlattenSeq(ss)) =>
         \A k \in 1..Len(ss) : StandsAt(t, i + o[k - 1], ss[k])

\* The places of texts in a row.
LEMMA FlatPlaces ==
  ASSUME NEW ss \in Seq(Seq(Char))
  PROVE  \E o \in [0..Len(ss) -> Nat] : FlatLies(ss, o)
<1>1. PICK o \in [0..Len(ss) -> Nat] :
        /\ o[0] = 0
        /\ \A k \in 1..Len(ss) : o[k] = o[k - 1] + Len(ss[k])
        /\ FlattenSeq(ss) \in Seq(Char)
        /\ Len(FlattenSeq(ss)) = o[Len(ss)]
        /\ \A k \in 1..Len(ss) : \A j \in 1..Len(ss[k]) :
             o[k - 1] + j \in 1..o[Len(ss)] /\ FlattenSeq(ss)[o[k - 1] + j] = ss[k][j]
  BY FlattenOffsets
<1>2. ASSUME NEW t \in Seq(Char), NEW i \in Nat \ {0}, StandsAt(t, i, FlattenSeq(ss))
      PROVE  \A k \in 1..Len(ss) : StandsAt(t, i + o[k - 1], ss[k])
  BY <1>1, <1>2, StandsFlat
<1> QED
  BY <1>1, <1>2 DEF FlatLies

\* Two texts in a row are a text that begins as the first does.
LEMMA TextConcat ==
  \A a, b \in Seq(Char) : /\ a \o b \in Seq(Char)
                          /\ Len(a \o b) = Len(a) + Len(b)
                          /\ Len(a) >= 1 => (a \o b)[1] = a[1]
  BY ConcatPlaces

\* The places of what a bracketed text is made of.
OuterLies(kind, lead, f, tail, s) ==
    /\ s \in Seq(Char) /\ Len(s) = 1 + Len(lead) + Len(f) + Len(tail) + 1
    /\ s[1] = Opening(kind)
    /\ \A t \in Seq(Char), i \in Nat \ {0} : StandsAt(t, i, s) =>
         /\ StandsAt(t, i + 1, lead)
         /\ StandsAt(t, i + 1 + Len(lead), f)
         /\ StandsAt(t, i + 1 + Len(lead) + Len(f), tail)
         /\ StandsAt(t, i + 1 + Len(lead) + Len(f) + Len(tail), <<Closing(kind)>>)

\* The places of an opening bracket, what follows it and a closing bracket.
LEMMA OuterPlaces ==
  ASSUME NEW kind \in {"array", "object"}, NEW lead \in Seq(Blank), NEW f \in Seq(Char),
         NEW tail \in Seq(Blank)
  PROVE  OuterLies(kind, lead, f, tail,
                   <<Opening(kind)>> \o lead \o f \o tail \o <<Closing(kind)>>)
<1> DEFINE op == <<Opening(kind)>>
<1> DEFINE cl == <<Closing(kind)>>
<1> DEFINE b1 == op \o lead
<1> DEFINE b2 == b1 \o f
<1> DEFINE b3 == b2 \o tail
<1> DEFINE s == b3 \o cl
<1> DEFINE x == Len(lead)
<1> DEFINE y == Len(f)
<1> DEFINE z == Len(tail)
<1>1. lead \in Seq(Char) /\ x \in Nat /\ tail \in Seq(Char) /\ z \in Nat /\ y \in Nat
  BY BlankChars
<1>2. op \in Seq(Char) /\ Len(op) = 1 /\ op[1] = Opening(kind)
      /\ cl \in Seq(Char) /\ Len(cl) = 1
  BY Signs
<1> HIDE DEF op, cl
<1>3. b1 \in Seq(Char) /\ Len(b1) = 1 + x /\ b1[1] = op[1]
  BY <1>1, <1>2, ConcatPlaces, SMTT(30)
<1> HIDE DEF b1
<1>4. b2 \in Seq(Char) /\ Len(b2) = 1 + x + y /\ b2[1] = b1[1]
  <2>1. b2 \in Seq(Char) /\ Len(b2) = Len(b1) + y /\ (Len(b1) >= 1 => b2[1] = b1[1])
    BY <1>3, TextConcat
  <2> QED
    BY <1>1, <1>3, <2>1
<1> HIDE DEF b2
<1>5. b3 \in Seq(Char) /\ Len(b3) = 1 + x + y + z /\ b3[1] = b2[1]
  <2>1. b3 \in Seq(Char) /\ Len(b3) = Len(b2) + z /\ (Len(b2) >= 1 => b3[1] = b2[1])
    BY <1>1, <1>4, TextConcat
  <2> QED
    BY <1>1, <1>4, <2>1
<1> HIDE DEF b3
<1>6. s \in Seq(Char) /\ Len(s) = 1 + x + y + z + 1 /\ s[1] = b3[1]
  <2>1. s \in Seq(Char) /\ Len(s) = Len(b3) + Len(cl) /\ (Len(b3) >= 1 => s[1] = b3[1])
    BY <1>2, <1>5, TextConcat
  <2> QED
    BY <1>1, <1>2, <1>5, <2>1
<1>7. s = <<Opening(kind)>> \o lead \o f \o tail \o <<Closing(kind)>>
  BY DEF op, cl, b1, b2, b3
<1> HIDE DEF s
<1>8. ASSUME NEW t \in Seq(Char), NEW i \in Nat \ {0}, StandsAt(t, i, s)
      PROVE  /\ StandsAt(t, i + 1, lead)
             /\ StandsAt(t, i + 1 + x, f)
             /\ StandsAt(t, i + 1 + x + y, tail)
             /\ StandsAt(t, i + 1 + x + y + z, cl)
  <2>1. StandsAt(t, i, b3) /\ StandsAt(t, i + Len(b3), cl)
    BY <1>2, <1>5, <1>8, StandsConcat DEF s
  <2>2. StandsAt(t, i, b2) /\ StandsAt(t, i + Len(b2), tail)
    BY <1>1, <1>4, <2>1, StandsConcat DEF b3
  <2>3. StandsAt(t, i, b1) /\ StandsAt(t, i + Len(b1), f)
    BY <1>3, <2>2, StandsConcat DEF b2
  <2>4. StandsAt(t, i, op) /\ StandsAt(t, i + Len(op), lead)
    BY <1>1, <1>2, <2>3, StandsConcat DEF b1
  <2>5. i + Len(b3) = i + 1 + x + y + z /\ i + Len(b2) = i + 1 + x + y
        /\ i + Len(b1) = i + 1 + x /\ i + Len(op) = i + 1
    <3> HIDE DEF x, y, z
    <3> QED
      BY <1>1, <1>2, <1>3, <1>4, <1>5
  <2> QED
    BY <2>1, <2>2, <2>3, <2>4, <2>5
<1>9. s[1] = Opening(kind)
  BY <1>2, <1>3, <1>4, <1>5, <1>6
<1> HIDE DEF x, y, z
<1>10. \A t \in Seq(Char), i \in Nat \ {0} : StandsAt(t, i, s) =>
             /\ StandsAt(t, i + 1, lead)
             /\ StandsAt(t, i + 1 + x, f)
             /\ StandsAt(t, i + 1 + x + y, tail)
             /\ StandsAt(t, i + 1 + x + y + z, cl)
  BY <1>8
<1> QED
  <2>1. OuterLies(kind, lead, f, tail, s)
    BY <1>6, <1>9, <1>10 DEF OuterLies, x, y, z, cl
  <2> QED
    BY <1>7, <2>1

\* How a text lies that is bracketed: the texts u stand at the places g, each ends before its
\* place in h, and z is the place of the closing bracket (counted from the opening one).
Lies(kind, lead, a, u, sp, last, tail, s, g, h, z) ==
    /\ s \in Seq(Char) /\ Len(s) = z + 1 /\ s[1] = Opening(kind)
    /\ g[1] = 1 + Len(lead \o a)
    /\ h[Len(u)] + Len(last \o tail) = z
    /\ \A k \in 1..Len(u) : h[k] = g[k] + Len(u[k]) /\ h[k] <= z
    /\ \A k \in 1..Len(u) - 1 : g[k + 1] = h[k] + 1 + Len(<<sp>> \o a)
    /\ \A t \in Seq(Char), i \in Nat \ {0} : StandsAt(t, i, s) =>
         /\ StandsAt(t, i + 1, lead \o a)
         /\ \A k \in 1..Len(u) : StandsAt(t, i + g[k], u[k])
         /\ \A k \in 1..Len(u) - 1 : StandsAt(t, i + h[k], <<Comma>>)
                                     /\ StandsAt(t, i + h[k] + 1, <<sp>> \o a)
         /\ StandsAt(t, i + h[Len(u)], last \o tail)
         /\ StandsAt(t, i + z, <<Closing(kind)>>)

\* The places of what a bracketed text is made of.
LEMMA BracketPlaces ==
  ASSUME NEW kind \in {"array", "object"}, NEW lead \in Seq(Blank), NEW a \in Seq(Blank),
         NEW u \in Seq(Seq(Char)), u # <<>>, NEW sp \in Blank, NEW last \in Seq(Blank),
         NEW tail \in Seq(Blank)
  PROVE  \E g \in [1..Len(u) -> Nat], h \in [1..Len(u) -> Nat], z \in Nat :
            Lies(kind, lead, a, u, sp, last, tail,
                 Bracketed(kind, lead, a, u, sp, last, tail), g, h, z)
<1> DEFINE d == Filling(a, u, sp, last)
<1> DEFINE f == FlattenSeq(d)
<1> DEFINE s == Bracketed(kind, lead, a, u, sp, last, tail)
<1> DEFINE n == Len(u)
<1> DEFINE x == Len(lead)
<1> DEFINE y == Len(a)
<1> DEFINE w == Len(last)
<1> DEFINE v == Len(tail)
<1> HIDE DEF d
<1>0. Filled(a, u, sp, last, d)
  BY FillingPlaces DEF d
<1>1. d \in Seq(Seq(Char)) /\ Len(d) = n
  BY <1>0 DEF Filled
<1>2. \A k \in 1..n : Len(d[k]) = y + Len(u[k]) + (IF k < n THEN 2 ELSE w)
  BY <1>0 DEF Filled
<1>3. \A k \in 1..n : \A t \in Seq(Char), i \in Nat \ {0} :
        StandsAt(t, i, d[k]) => FilledAt(t, i, a, u, sp, last, k)
  BY <1>0 DEF Filled
<1>4. x \in Nat /\ y \in Nat /\ w \in Nat /\ v \in Nat /\ n \in Nat
  BY BlankChars
<1>5. \A k \in 1..n : Len(u[k]) \in Nat
  OBVIOUS
<1>6. n >= 1
  BY EmptySeq
<1>7. /\ lead \in Seq(Char) /\ a \in Seq(Char) /\ last \in Seq(Char) /\ tail \in Seq(Char)
      /\ <<sp>> \in Seq(Char) /\ Len(<<sp>>) = 1
  BY BlankChars, Signs, SMTT(30) DEF Blank
<1>8. PICK o \in [0..n -> Nat] : FlatLies(d, o)
  <2>1. \E o \in [0..Len(d) -> Nat] : FlatLies(d, o)
    BY <1>1, FlatPlaces
  <2> QED
    BY <1>1, <2>1
<1>9. \A t \in Seq(Char), i \in Nat \ {0} : StandsAt(t, i, f) =>
         \A k \in 1..n : StandsAt(t, i + o[k - 1], d[k])
  BY <1>1, <1>8 DEF FlatLies
<1>10. o[0] = 0 /\ f \in Seq(Char) /\ Len(f) = o[n]
  BY <1>1, <1>8 DEF FlatLies
<1>11. \A k \in 1..n : o[k] = o[k - 1] + Len(d[k])
  BY <1>1, <1>8 DEF FlatLies
<1>12. s = <<Opening(kind)>> \o lead \o f \o tail \o <<Closing(kind)>>
  BY DEF Bracketed, d
<1> HIDE DEF f, s, n
<1>13. OuterLies(kind, lead, f, tail, s)
  BY <1>10, <1>12, OuterPlaces
<1> HIDE DEF x, y, w, v
<1>14. s \in Seq(Char) /\ Len(s) = 1 + x + o[n] + v + 1 /\ s[1] = Opening(kind)
  BY <1>10, <1>13 DEF OuterLies, x, v
<1>15. ASSUME NEW t \in Seq(Char), NEW i \in Nat \ {0}, StandsAt(t, i, s)
       PROVE  /\ StandsAt(t, i + 1, lead)
              /\ StandsAt(t, i + 1 + x, f)
              /\ StandsAt(t, i + 1 + x + o[n], tail)
              /\ StandsAt(t, i + 1 + x + o[n] + v, <<Closing(kind)>>)
  BY <1>10, <1>13, <1>15 DEF OuterLies, x, v
<1> DEFINE g == [k \in 1..n |-> 1 + x + o[k - 1] + y]
<1> DEFINE h == [k \in 1..n |-> 1 + x + o[k - 1] + y + Len(u[k])]
<1> DEFINE z == 1 + x + o[n] + v
<1>16. \A k \in 1..n : k - 1 \in 0..n /\ o[k - 1] \in Nat /\ o[k] \in Nat
  <2> SUFFICES ASSUME NEW k \in 1..n
               PROVE  k - 1 \in 0..n /\ o[k - 1] \in Nat /\ o[k] \in Nat
    OBVIOUS
  <2>1. k - 1 \in 0..n /\ k \in 0..n
    BY <1>4
  <2> QED
    BY <2>1
<1>17. o[n] \in Nat
  BY <1>4, <1>6, <1>16
<1>18. \A k \in 1..n : /\ g[k] = 1 + x + o[k - 1] + y
                       /\ h[k] = 1 + x + o[k - 1] + y + Len(u[k])
  OBVIOUS
<1>19. \A k \in 1..n : g[k] \in Nat /\ h[k] \in Nat /\ h[k] = g[k] + Len(u[k])
  <2> SUFFICES ASSUME NEW k \in 1..n
               PROVE  g[k] \in Nat /\ h[k] \in Nat /\ h[k] = g[k] + Len(u[k])
    OBVIOUS
  <2> DEFINE l == Len(u[k])
  <2> DEFINE c == o[k - 1]
  <2>1. l \in Nat /\ c \in Nat /\ g[k] = 1 + x + c + y /\ h[k] = 1 + x + c + y + l
    BY <1>5, <1>16, <1>18 DEF n
  <2> HIDE DEF l, c, g, h
  <2>2. g[k] \in Nat /\ h[k] \in Nat /\ h[k] = g[k] + l
    BY <1>4, <2>1
  <2> QED
    BY <2>2 DEF l
<1>20. g \in [1..n -> Nat] /\ h \in [1..n -> Nat] /\ z \in Nat
  <2>1. g = [k \in 1..n |-> g[k]] /\ h = [k \in 1..n |-> h[k]]
    OBVIOUS
  <2>2. g \in [1..n -> Nat] /\ h \in [1..n -> Nat]
    <3> HIDE DEF g, h
    <3> QED
      BY <1>19, <2>1
  <2>3. z \in Nat
    BY <1>4, <1>17, SMTT(30)
  <2> HIDE DEF g, h, z
  <2> QED
    BY <2>2, <2>3
<1> HIDE DEF g, h
<1>21. \A k \in 1..n : /\ k < n => 1 + x + o[k] = h[k] + 2
                       /\ k = n => 1 + x + o[k] = h[k] + w
  <2> SUFFICES ASSUME NEW k \in 1..n
               PROVE  (k < n => 1 + x + o[k] = h[k] + 2) /\ (k = n => 1 + x + o[k] = h[k] + w)
    OBVIOUS
  <2> DEFINE l == Len(u[k])
  <2> DEFINE c == o[k - 1]
  <2> DEFINE e == o[k]
  <2> DEFINE m == Len(d[k])
  <2>1. l \in Nat /\ c \in Nat /\ e \in Nat /\ h[k] = 1 + x + c + y + l
    BY <1>5, <1>16, <1>18 DEF n
  <2>2. e = c + m /\ m = y + l + (IF k < n THEN 2 ELSE w)
    BY <1>2, <1>11
  <2> HIDE DEF l, c, e, m
  <2>3. (k < n => 1 + x + e = h[k] + 2) /\ (k = n => 1 + x + e = h[k] + w)
    BY <1>4, <2>1, <2>2
  <2> QED
    BY <2>3 DEF e
<1>22. \A k \in 0..n : o[k] <= o[n]
  <2>1. \A k \in 1..n : o[k - 1] <= o[k]
    <3> SUFFICES ASSUME NEW k \in 1..n
                 PROVE  o[k - 1] <= o[k]
      OBVIOUS
    <3>1. o[k] = o[k - 1] + Len(d[k]) /\ Len(d[k]) \in Nat
      BY <1>1, <1>11 DEF n
    <3> QED
      BY <1>16, <3>1, SMTT(30)
  <2> QED
    BY <1>4, <2>1, OffsetsGrow
<1>23. \A k \in 1..n : h[k] <= z
  <2> SUFFICES ASSUME NEW k \in 1..n
               PROVE  h[k] <= z
    OBVIOUS
  <2> DEFINE e == o[k]
  <2> DEFINE c == o[n]
  <2> DEFINE j == h[k]
  <2>1. e \in Nat /\ c \in Nat /\ j \in Nat /\ e <= c
    BY <1>4, <1>16, <1>17, <1>19, <1>22
  <2>2. 1 + x + e = j + 2 \/ 1 + x + e = j + w
    BY <1>4, <1>21
  <2>3. z = 1 + x + c + v
    OBVIOUS
  <2> HIDE DEF e, c, j, z
  <2>4. j <= z
    BY <1>4, <2>1, <2>2, <2>3
  <2> QED
    BY <2>4 DEF j
<1>24. /\ lead \o a \in Seq(Char) /\ Len(lead \o a) = x + y
       /\ last \o tail \in Seq(Char) /\ Len(last \o tail) = w + v
       /\ <<sp>> \o a \in Seq(Char) /\ Len(<<sp>> \o a) = 1 + y
  BY <1>7, TextConcat DEF x, y, w, v
<1>25. 1 \in 1..n /\ n \in 1..n
  BY <1>4, <1>6
<1>26. g[1] = 1 + Len(lead \o a)
  <2>1. g[1] = 1 + x + 0 + y
    BY <1>10, <1>18, <1>25
  <2> QED
    BY <1>4, <1>24, <2>1
<1>27. h[n] + Len(last \o tail) = z
  <2>1. 1 + x + o[n] = h[n] + w /\ h[n] \in Nat
    BY <1>19, <1>21, <1>25
  <2> DEFINE j == h[n]
  <2> DEFINE c == o[n]
  <2> DEFINE m == Len(last \o tail)
  <2>2. j \in Nat /\ c \in Nat /\ m = w + v /\ 1 + x + c = j + w /\ z = 1 + x + c + v
    BY <1>17, <1>24, <2>1
  <2> HIDE DEF j, c, m, z
  <2>3. j + m = z
    BY <1>4, <2>2
  <2> QED
    BY <2>3 DEF j, m
<1>28. \A k \in 1..n - 1 : g[k + 1] = h[k] + 1 + Len(<<sp>> \o a)
  <2> SUFFICES ASSUME NEW k \in 1..n - 1
               PROVE  g[k + 1] = h[k] + 1 + Len(<<sp>> \o a)
    OBVIOUS
  <2>1. k \in 1..n /\ k + 1 \in 1..n /\ k < n /\ k + 1 - 1 = k
    BY <1>4
  <2>2. g[k + 1] = 1 + x + o[k] + y /\ 1 + x + o[k] = h[k] + 2
    BY <1>18, <1>21, <2>1
  <2>3. h[k] \in Nat /\ o[k] \in Nat
    BY <1>16, <1>19, <2>1
  <2> DEFINE j == h[k]
  <2> DEFINE c == o[k]
  <2> DEFINE m == Len(<<sp>> \o a)
  <2> DEFINE e == g[k + 1]
  <2>4. j \in Nat /\ c \in Nat /\ m = 1 + y /\ 1 + x + c = j + 2 /\ e = 1 + x + c + y
    BY <1>24, <2>2, <2>3
  <2> HIDE DEF j, c, m, e
  <2>5. e = j + 1 + m
    BY <1>4, <2>4
  <2> QED
    BY <2>5 DEF j, m, e
<1>29. ASSUME NEW t \in Seq(Char), NEW i \in Nat \ {0}, StandsAt(t, i, s)
       PROVE  /\ StandsAt(t, i + 1, lead \o a)
              /\ \A k \in 1..n : StandsAt(t, i + g[k], u[k])
              /\ \A k \in 1..n - 1 : StandsAt(t, i + h[k], <<Comma>>)
                                     /\ StandsAt(t, i + h[k] + 1, <<sp>> \o a)
              /\ StandsAt(t, i + h[n], last \o tail)
              /\ StandsAt(t, i + z, <<Closing(kind)>>)
  <2>1. /\ StandsAt(t, i + 1, lead)
        /\ StandsAt(t, i + 1 + x, f)
        /\ StandsAt(t, i + 1 + x + o[n], tail)
        /\ StandsAt(t, i + 1 + x + o[n] + v, <<Closing(kind)>>)
    BY <1>15, <1>29
  <2>2. ASSUME NEW k \in 1..n
        PROVE  FilledAt(t, i + 1 + x + o[k - 1], a, u, sp, last, k)
    <3>1. i + 1 + x \in Nat \ {0}
      BY <1>4
    <3>2. StandsAt(t, i + 1 + x + o[k - 1], d[k])
      BY <1>9, <2>1, <3>1
    <3>3. i + 1 + x + o[k - 1] \in Nat \ {0}
      <4>1. o[k - 1] \in Nat
        BY <1>16
      <4> QED
        BY <3>1, <4>1, SMTT(30)
    <3> QED
      BY <1>3, <3>2, <3>3
  <2>3. ASSUME NEW k \in 1..n
        PROVE  /\ i + 1 + x + o[k - 1] + y = i + g[k]
               /\ i + 1 + x + o[k - 1] + y + Len(u[k]) = i + h[k]
    <3> DEFINE c == o[k - 1]
    <3> DEFINE l == Len(u[k])
    <3>1. c \in Nat /\ l \in Nat /\ g[k] = 1 + x + c + y /\ h[k] = 1 + x + c + y + l
      BY <1>5, <1>16, <1>18 DEF n
    <3> HIDE DEF c, l
    <3>2. i + 1 + x + c + y = i + g[k] /\ i + 1 + x + c + y + l = i + h[k]
      BY <1>4, <3>1
    <3> QED
      BY <3>2 DEF c, l
  <2>4. ASSUME NEW k \in 1..n
        PROVE  /\ StandsAt(t, i + 1 + x + o[k - 1], a)
               /\ StandsAt(t, i + g[k], u[k])
               /\ k < n => StandsAt(t, i + h[k], <<Comma>>) /\ StandsAt(t, i + h[k] + 1, <<sp>>)
               /\ k = n => StandsAt(t, i + h[k], last)
    BY <2>2, <2>3 DEF FilledAt, n, y
  <2>5. StandsAt(t, i + 1, lead \o a)
    <3>1. i + 1 + x + o[1 - 1] = i + 1 + Len(lead) /\ i + 1 \in Nat \ {0}
      BY <1>4, <1>10 DEF x
    <3>2. StandsAt(t, i + 1 + Len(lead), a)
      BY <1>25, <2>4, <3>1
    <3> QED
      BY <1>7, <2>1, <3>1, <3>2, StandsBoth
  <2>6. ASSUME NEW k \in 1..n - 1
        PROVE  StandsAt(t, i + h[k], <<Comma>>) /\ StandsAt(t, i + h[k] + 1, <<sp>> \o a)
    <3>1. k \in 1..n /\ k + 1 \in 1..n /\ k < n /\ k + 1 - 1 = k
      BY <1>4
    <3>2. StandsAt(t, i + h[k], <<Comma>>) /\ StandsAt(t, i + h[k] + 1, <<sp>>)
      BY <2>4, <3>1
    <3>3. StandsAt(t, i + 1 + x + o[k], a)
      BY <2>4, <3>1
    <3>4. i + 1 + x + o[k] = i + h[k] + 1 + 1 /\ i + h[k] + 1 \in Nat \ {0}
      <4> DEFINE j == h[k]
      <4> DEFINE c == o[k]
      <4>1. j \in Nat /\ c \in Nat /\ 1 + x + c = j + 2
        BY <1>16, <1>19, <1>21, <3>1
      <4> HIDE DEF j, c
      <4>2. i + 1 + x + c = i + j + 1 + 1 /\ i + j + 1 \in Nat \ {0}
        BY <1>4, <4>1
      <4> QED
        BY <4>2 DEF j, c
    <3>5. StandsAt(t, i + h[k] + 1 + Len(<<sp>>), a)
      BY <1>7, <3>3, <3>4
    <3>6. StandsAt(t, i + h[k] + 1, <<sp>> \o a)
      BY <1>7, <3>2, <3>4, <3>5, StandsBoth
    <3> QED
      BY <3>2, <3>6
  <2>7. StandsAt(t, i + h[n], last \o tail)
    <3>1. StandsAt(t, i + h[n], last)
      BY <1>25, <2>4
    <3>2. i + 1 + x + o[n] = i + h[n] + w /\ i + h[n] \in Nat \ {0}
      <4> DEFINE j == h[n]
      <4> DEFINE c == o[n]
      <4>1. j \in Nat /\ c \in Nat /\ 1 + x + c = j + w
        BY <1>17, <1>19, <1>21, <1>25
      <4> HIDE DEF j, c
      <4>2. i + 1 + x + c = i + j + w /\ i + j \in Nat \ {0}
        BY <1>4, <4>1
      <4> QED
        BY <4>2 DEF j, c
    <3>3. StandsAt(t, i + h[n] + Len(last), tail)
      BY <2>1, <3>2 DEF w
    <3> QED
      BY <1>7, <3>1, <3>2, <3>3, StandsBoth
  <2>8. i + 1 + x + o[n] + v = i + z
    BY <1>4, <1>17, SMTT(30)
  <2> HIDE DEF z
  <2>9. StandsAt(t, i + z, <<Closing(kind)>>)
    BY <2>1, <2>8
  <2> QED
    BY <2>4, <2>5, <2>6, <2>7, <2>9
<1> HIDE DEF z
<1>31. s \in Seq(Char) /\ Len(s) = z + 1 /\ s[1] = Opening(kind)
  <2>1. 1 + x + o[n] + v + 1 = z + 1
    BY DEF z
  <2> QED
    BY <1>14, <2>1
<1>30. Lies(kind, lead, a, u, sp, last, tail, s, g, h, z)
  BY <1>19, <1>23, <1>26, <1>27, <1>28, <1>29, <1>31 DEF Lies, n
<1> QED
  BY <1>20, <1>30 DEF s, n

-----------------------------------------------------------------------------
(* Reading what is in brackets.                                            *)

\* An array or an object is read when its elements are.
LEMMA NestedRead ==
  ASSUME NEW t \in Seq(Char), NEW kind \in {"array", "object"}, NEW value, Advancing(t, value),
         NEW X, NEW x \in Seq(X), x # <<>>, NEW deep \in BOOLEAN, NEW z \in Nat,
         NEW p \in [1..Len(x) -> Nat], NEW q \in [1..Len(x) -> Nat],
         Laid(t, kind, value, x, deep, p, q, z), NEW i \in Nat,
         Reaches(t, Skip(t, i + 1), p[1]), At(t, p[1]) # Closing(kind)
  PROVE  Outcome(t, ParseNested(t, i, kind, value), z, [type |-> kind, children |-> x], deep)
<1> DEFINE l == Len(t)
<1> DEFINE f == Skip(t, i + 1)
<1> DEFINE e == ParseElements(t, kind, value)[f]
<1> DEFINE r == ParseNested(t, i, kind, value)
<1> DEFINE item == [type |-> kind, children |-> x]
<1>1. l \in Nat /\ i + 1 \in Nat /\ Len(x) >= 1 /\ Len(x) \in Nat
  BY EmptySeq
<1>2. f \in Nat /\ f >= 1
  <2>1. f \in i + 1..i + 1 + Len(t)
    BY <1>1, SkipFound
  <2> QED
    BY <1>1, <2>1
<1>3. r = CASE At(t, f) = Closing(kind) -> Parsed(f + 1, [type |-> kind, children |-> <<>>])
            [] At(t, f) # Closing(kind) /\ e.next # 0 ->
                 Parsed(e.next, [type |-> kind, children |-> e.item])
            [] OTHER -> Failed
  BY DEF ParseNested, Enclosed
<1>4. At(t, f) # Closing(kind) =>
        /\ e.next = 0 => r = Failed
        /\ e.next # 0 => r = Parsed(e.next, [type |-> kind, children |-> e.item])
  <2> HIDE DEF e, f, r
  <2> QED
    BY <1>3
<1>5. Failed.next = 0
  BY FailedAdvances
<1>6. e.next = 0 \/ f <= l
  BY <1>2, ElementsAdvance DEF Advances
<1>7. \A j, g : Parsed(j, g).next = j /\ Parsed(j, g).item = g
  BY DEF Parsed
<1>8. p[1] <= z /\ p[1] \in Nat
  <2>1. 1 \in 1..Len(x)
    BY <1>1
  <2>2. p[1] \in Nat
    BY <2>1
  <2> QED
    BY <2>2 DEF Laid
<1>9. CASE p[1] <= l
  <2>1. f = p[1]
    BY <1>9 DEF Reaches
  <2>2. At(t, f) # Closing(kind)
    BY <2>1
  <2>3. IF z <= l THEN e = Parsed(z + 1, x) \/ (deep /\ e.next = 0) ELSE e.next = 0
    <3>1. Outcome(t, ParseElements(t, kind, value)[p[1]], z, x, deep)
      BY ElementsRead
    <3> QED
      BY <2>1, <3>1 DEF Outcome
  <2> HIDE DEF e, f, r
  <2>4. CASE e.next = 0
    <3>1. r.next = 0
      BY <1>4, <1>5, <2>2, <2>4
    <3>2. z <= l => deep
      <4> SUFFICES ASSUME z <= l
                   PROVE  deep
        OBVIOUS
      <4>1. CASE e = Parsed(z + 1, x)
        <5>1. e.next = z + 1 /\ z + 1 # 0
          BY <1>7, <4>1
        <5> QED
          BY <2>4, <5>1
      <4> QED
        BY <2>3, <4>1
    <3> QED
      BY <3>1, <3>2 DEF r, Outcome
  <2>5. CASE e.next # 0
    <3>1. z <= l /\ e = Parsed(z + 1, x)
      BY <2>3, <2>5
    <3>2. e.next = z + 1 /\ e.item = x
      BY <1>7, <3>1
    <3>3. r = Parsed(z + 1, item)
      BY <1>4, <2>2, <2>5, <3>2
    <3> QED
      BY <3>1, <3>3 DEF r, Outcome
  <2> QED
    BY <2>4, <2>5
<1>10. CASE ~(p[1] <= l)
  <2>1. f > l
    BY <1>10 DEF Reaches
  <2>2. e.next = 0
    BY <1>1, <1>2, <1>6, <2>1
  <2>3. At(t, f) = End
    BY <1>1, <1>2, <2>1 DEF At
  <2>4. At(t, f) # Closing(kind)
    BY <2>3, Signs
  <2>5. r.next = 0
    BY <1>4, <1>5, <2>2, <2>4
  <2>6. ~(z <= l)
    BY <1>1, <1>8, <1>10
  <2> QED
    BY <2>5, <2>6 DEF Outcome
<1> QED
  BY <1>9, <1>10

\* An empty array or object, with blanks between the brackets.
LEMMA EmptyRead ==
  ASSUME NEW t \in Seq(Char), NEW kind \in {"array", "object"}, NEW value, Advancing(t, value),
         NEW b \in Seq(Blank), NEW i \in Nat \ {0}, StandsAt(t, i + 1, b),
         StandsAt(t, i + 1 + Len(b), <<Closing(kind)>>)
  PROVE  /\ i + 1 + Len(b) <= Len(t) =>
              ParseNested(t, i, kind, value) =
                Parsed(i + Len(b) + 2, [type |-> kind, children |-> <<>>])
         /\ ~(i + 1 + Len(b) <= Len(t)) => ParseNested(t, i, kind, value).next = 0
<1> DEFINE l == Len(t)
<1> DEFINE f == Skip(t, i + 1)
<1> DEFINE e == ParseElements(t, kind, value)[f]
<1> DEFINE r == ParseNested(t, i, kind, value)
<1> DEFINE m == Len(b)
<1>1. l \in Nat /\ i + 1 \in Nat \ {0} /\ m \in Nat /\ i + 1 + m \in Nat \ {0}
  OBVIOUS
<1>2. f \in Nat
  <2>1. f \in i + 1..i + 1 + Len(t)
    BY <1>1, SkipFound
  <2> QED
    BY <1>1, <2>1
<1>3. r = CASE At(t, f) = Closing(kind) -> Parsed(f + 1, [type |-> kind, children |-> <<>>])
            [] At(t, f) # Closing(kind) /\ e.next # 0 ->
                 Parsed(e.next, [type |-> kind, children |-> e.item])
            [] OTHER -> Failed
  BY DEF ParseNested, Enclosed
<1>4. At(t, i + 1 + m) = IF i + 1 + m <= l THEN Closing(kind) ELSE End
  <2>1. <<Closing(kind)>> \in Seq(Char) /\ Len(<<Closing(kind)>>) >= 1
        /\ <<Closing(kind)>>[1] = Closing(kind)
    BY Signs
  <2>2. At(t, i + 1 + m) = IF i + 1 + m <= Len(t) THEN <<Closing(kind)>>[1] ELSE End
    BY <1>1, <2>1, StandsFirst
  <2> QED
    BY <2>1, <2>2
<1>5. Reaches(t, f, i + 1 + m)
  <2>1. At(t, i + 1 + m) \notin 1..Space
    BY <1>4, Signs
  <2> QED
    BY <1>1, <2>1, SkipBlanks
<1>6. e.next = 0 \/ f <= l
  BY <1>2, ElementsAdvance DEF Advances
<1>7. Failed.next = 0
  BY FailedAdvances
<1>8. CASE i + 1 + m <= l
  <2>1. f = i + 1 + m
    BY <1>5, <1>8 DEF Reaches
  <2>2. At(t, f) = Closing(kind)
    BY <1>4, <1>8, <2>1
  <2> HIDE DEF e, f, r
  <2>3. r = Parsed(f + 1, [type |-> kind, children |-> <<>>])
    BY <1>3, <2>2
  <2>4. f + 1 = i + m + 2
    <3> HIDE DEF m
    <3> QED
      BY <1>1, <2>1
  <2> QED
    BY <1>8, <2>3, <2>4 DEF r
<1>9. CASE ~(i + 1 + m <= l)
  <2>1. f > l
    BY <1>5, <1>9 DEF Reaches
  <2>2. e.next = 0
    BY <1>1, <1>2, <1>6, <2>1
  <2>3. At(t, f) = End
    BY <1>1, <1>2, <2>1 DEF At
  <2>4. At(t, f) # Closing(kind)
    BY <2>3, Signs
  <2> HIDE DEF e, f
  <2>5. r = Failed
    <3> HIDE DEF r
    <3> QED
      BY <1>3, <2>2, <2>4
  <2> QED
    BY <1>7, <1>9, <2>5
<1> QED
  BY <1>8, <1>9

\* The texts u are those of the elements x.
Texts(t, kind, value, u, x, deep) ==
    /\ Len(x) = Len(u)
    /\ \A k \in 1..Len(u) :
         /\ Len(u[k]) >= 1 /\ u[k][1] \notin 1..Space /\ u[k][1] # Closing(kind)
         /\ Reads(t, [j \in Nat |-> ParseElement(t, j, kind, value)], u[k], x[k], deep)

\* Blank space in a row is blank space.
LEMMA BlankConcat ==
  \A a, b \in Seq(Blank) : a \o b \in Seq(Blank) /\ Len(a \o b) \in Nat
OBVIOUS

\* What is read from i on, where the text s stands.
OutcomeAt(t, kind, value, i, s, x, deep) ==
    Outcome(t, ParseNested(t, i, kind, value), i + Len(s) - 1,
            [type |-> kind, children |-> x], deep)

\* A text in brackets with the texts u in it, and blank space.
IsBracketed(kind, s, u) ==
    \E lead, a, last, tail \in Seq(Blank), sp \in Blank :
       s = Bracketed(kind, lead, a, u, sp, last, tail)

\* A bracketed text is read when the texts in it are.
LEMMA BracketRead ==
  ASSUME NEW t \in Seq(Char), NEW kind \in {"array", "object"}, NEW value, Advancing(t, value),
         NEW u \in Seq(Seq(Char)), u # <<>>, NEW s, IsBracketed(kind, s, u),
         NEW X, NEW x \in Seq(X), NEW deep \in BOOLEAN, Texts(t, kind, value, u, x, deep),
         NEW i \in Nat \ {0}, StandsAt(t, i, s)
  PROVE  OutcomeAt(t, kind, value, i, s, x, deep)
<1>0. PICK lead, a, last, tail \in Seq(Blank), sp \in Blank :
        s = Bracketed(kind, lead, a, u, sp, last, tail)
  BY DEF IsBracketed
<1> DEFINE n == Len(u)
<1> DEFINE l == Len(t)
<1> DEFINE la == lead \o a
<1> DEFINE sa == <<sp>> \o a
<1> DEFINE lt == last \o tail
<1>1. PICK g \in [1..n -> Nat], h \in [1..n -> Nat], z \in Nat :
        Lies(kind, lead, a, u, sp, last, tail, s, g, h, z)
  BY <1>0, BracketPlaces
<1>2. n \in Nat /\ n >= 1 /\ l \in Nat /\ Len(x) = n
  BY EmptySeq DEF Texts
<1>3. \A k \in 1..n : u[k] \in Seq(Char) /\ Len(u[k]) \in Nat
  OBVIOUS
<1>4. \A k \in 1..n : Len(u[k]) >= 1 /\ u[k][1] \notin 1..Space /\ u[k][1] # Closing(kind)
  BY DEF Texts
<1>5. \A k \in 1..n : Reads(t, [j \in Nat |-> ParseElement(t, j, kind, value)], u[k], x[k], deep)
  BY DEF Texts
<1>6. la \in Seq(Blank) /\ sa \in Seq(Blank) /\ lt \in Seq(Blank)
      /\ Len(la) \in Nat /\ Len(sa) \in Nat /\ Len(lt) \in Nat
  <2>1. <<sp>> \in Seq(Blank)
    OBVIOUS
  <2> QED
    BY <2>1, BlankConcat
<1>7. StandsAt(t, i, s)
  OBVIOUS
<1> HIDE DEF la, sa, lt
<1>8. s \in Seq(Char) /\ Len(s) = z + 1
  BY <1>1 DEF Lies
<1>9. g[1] = 1 + Len(la) /\ h[n] + Len(lt) = z
  BY <1>1 DEF Lies, la, lt
<1>10. \A k \in 1..n : h[k] = g[k] + Len(u[k]) /\ h[k] <= z
  BY <1>1 DEF Lies
<1>11. \A k \in 1..n - 1 : g[k + 1] = h[k] + 1 + Len(sa)
  BY <1>1 DEF Lies, sa
<1>12. /\ StandsAt(t, i + 1, la)
       /\ \A k \in 1..n : StandsAt(t, i + g[k], u[k])
       /\ \A k \in 1..n - 1 : StandsAt(t, i + h[k], <<Comma>>) /\ StandsAt(t, i + h[k] + 1, sa)
       /\ StandsAt(t, i + h[n], lt)
       /\ StandsAt(t, i + z, <<Closing(kind)>>)
  BY <1>1, <1>7 DEF Lies, la, sa, lt
<1> DEFINE p == [k \in 1..n |-> i + g[k]]
<1> DEFINE q == [k \in 1..n |-> i + h[k]]
<1> DEFINE y == i + z
<1> HIDE DEF n, l
<1>13. \A k \in 1..n : p[k] = i + g[k] /\ q[k] = i + h[k] /\ g[k] \in Nat /\ h[k] \in Nat
  BY DEF n
<1>14. 1 \in 1..n /\ n \in 1..n
  BY <1>2
<1>15. p \in [1..n -> Nat] /\ q \in [1..n -> Nat] /\ y \in Nat \ {0}
  BY <1>13, SMTT(30)
<1> HIDE DEF p, q, y
<1>16. \A k \in 1..n : /\ p[k] \in Nat \ {0} /\ q[k] \in Nat \ {0}
                       /\ q[k] = p[k] + Len(u[k]) /\ q[k] <= y /\ p[k] < q[k]
  <2> SUFFICES ASSUME NEW k \in 1..n
               PROVE  /\ p[k] \in Nat \ {0} /\ q[k] \in Nat \ {0}
                      /\ q[k] = p[k] + Len(u[k]) /\ q[k] <= y /\ p[k] < q[k]
    OBVIOUS
  <2> DEFINE pk == p[k]
  <2> DEFINE qk == q[k]
  <2> DEFINE gk == g[k]
  <2> DEFINE hk == h[k]
  <2> DEFINE lk == Len(u[k])
  <2>1. pk = i + gk /\ qk = i + hk /\ gk \in Nat /\ hk \in Nat /\ lk \in Nat /\ lk >= 1
    BY <1>3, <1>4, <1>13 DEF n
  <2>2. hk = gk + lk /\ hk <= z /\ y = i + z
    BY <1>10 DEF y
  <2> HIDE DEF pk, qk, gk, hk, lk
  <2>3. /\ pk \in Nat \ {0} /\ qk \in Nat \ {0} /\ qk = pk + lk /\ qk <= y /\ pk < qk
    BY <2>1, <2>2
  <2> QED
    BY <2>3 DEF pk, qk, lk
<1>17. p[1] = i + 1 + Len(la) /\ q[n] + Len(lt) = y
  <2>1. g[1] \in Nat /\ h[n] \in Nat /\ p[1] = i + g[1] /\ q[n] = i + h[n]
    BY <1>13, <1>14
  <2>2. y = i + z
    BY DEF y
  <2> DEFINE p1 == p[1]
  <2> DEFINE g1 == g[1]
  <2> DEFINE qn == q[n]
  <2> DEFINE hn == h[n]
  <2> DEFINE m1 == Len(la)
  <2> DEFINE mn == Len(lt)
  <2>3. /\ g1 \in Nat /\ hn \in Nat /\ m1 \in Nat /\ mn \in Nat
        /\ p1 = i + g1 /\ qn = i + hn /\ g1 = 1 + m1 /\ hn + mn = z
    BY <1>6, <1>9, <2>1
  <2> HIDE DEF p1, g1, qn, hn, m1, mn
  <2>4. p1 = i + 1 + m1 /\ qn + mn = y
    BY <2>2, <2>3
  <2> QED
    BY <2>4 DEF p1, qn, m1, mn
<1>18. \A k \in 1..n - 1 : k \in 1..n /\ k + 1 \in 1..n /\ p[k + 1] = q[k] + 1 + Len(sa)
  <2> SUFFICES ASSUME NEW k \in 1..n - 1
               PROVE  k \in 1..n /\ k + 1 \in 1..n /\ p[k + 1] = q[k] + 1 + Len(sa)
    OBVIOUS
  <2>1. k \in 1..n /\ k + 1 \in 1..n
    BY <1>2
  <2>2. p[k + 1] = i + g[k + 1] /\ q[k] = i + h[k] /\ h[k] \in Nat /\ g[k + 1] \in Nat
    BY <1>13, <2>1
  <2>3. g[k + 1] = h[k] + 1 + Len(sa)
    BY <1>11
  <2> QED
    BY <1>6, <2>1, <2>2, <2>3, SMTT(30)
<1>19. \A k \in 1..n : StandsAt(t, p[k], u[k])
  BY <1>12, <1>13
<1>20. \A k \in 1..n - 1 : StandsAt(t, q[k], <<Comma>>) /\ StandsAt(t, q[k] + 1, sa)
  BY <1>12, <1>13, <1>18
<1>21. StandsAt(t, q[n], lt) /\ StandsAt(t, y, <<Closing(kind)>>)
  BY <1>12, <1>13, <1>14 DEF y
<1>22. \A k \in 1..n : At(t, p[k]) \notin 1..Space /\ At(t, p[k]) # Closing(kind)
  <2> SUFFICES ASSUME NEW k \in 1..n
               PROVE  At(t, p[k]) \notin 1..Space /\ At(t, p[k]) # Closing(kind)
    OBVIOUS
  <2> DEFINE v == u[k]
  <2>1. v \in Seq(Char) /\ Len(v) >= 1 /\ StandsAt(t, p[k], v) /\ p[k] \in Nat \ {0}
        /\ v[1] \notin 1..Space /\ v[1] # Closing(kind)
    BY <1>3, <1>4, <1>16, <1>19
  <2> HIDE DEF v
  <2>2. At(t, p[k]) = IF p[k] <= Len(t) THEN v[1] ELSE End
    BY <2>1, StandsFirst
  <2> QED
    BY <2>1, <2>2, Signs, SMTT(30)
<1>23. \A c \in Char : <<c>> \in Seq(Char) /\ Len(<<c>>) >= 1 /\ <<c>>[1] = c
  OBVIOUS
<1>24. \A k \in 1..n - 1 : At(t, q[k]) = IF q[k] <= l THEN Comma ELSE End
  <2> SUFFICES ASSUME NEW k \in 1..n - 1
               PROVE  At(t, q[k]) = IF q[k] <= l THEN Comma ELSE End
    OBVIOUS
  <2>1. q[k] \in Nat \ {0} /\ StandsAt(t, q[k], <<Comma>>)
    BY <1>16, <1>18, <1>20
  <2>2. <<Comma>> \in Seq(Char) /\ Len(<<Comma>>) >= 1 /\ <<Comma>>[1] = Comma
    BY <1>23, Signs
  <2>3. At(t, q[k]) = IF q[k] <= Len(t) THEN <<Comma>>[1] ELSE End
    BY <2>1, <2>2, StandsFirst
  <2> QED
    BY <2>2, <2>3 DEF l
<1>25. At(t, y) = IF y <= l THEN Closing(kind) ELSE End
  <2>2. <<Closing(kind)>> \in Seq(Char) /\ Len(<<Closing(kind)>>) >= 1
        /\ <<Closing(kind)>>[1] = Closing(kind)
    BY <1>23, Signs
  <2>3. At(t, y) = IF y <= Len(t) THEN <<Closing(kind)>>[1] ELSE End
    BY <1>15, <1>21, <2>2, StandsFirst
  <2> QED
    BY <2>2, <2>3 DEF l
<1>26. \A k \in 1..n - 1 : Reaches(t, Skip(t, q[k] + 1), p[k + 1])
  <2> SUFFICES ASSUME NEW k \in 1..n - 1
               PROVE  Reaches(t, Skip(t, q[k] + 1), p[k + 1])
    OBVIOUS
  <2>4. q[k] \in Nat
    BY <1>16, <1>18
  <2>5. q[k] + 1 \in Nat \ {0}
    BY <2>4, SMTT(30)
  <2>1. q[k] + 1 \in Nat \ {0} /\ StandsAt(t, q[k] + 1, sa) /\ p[k + 1] = q[k] + 1 + Len(sa)
    BY <1>18, <1>20, <2>5
  <2>2. At(t, q[k] + 1 + Len(sa)) \notin 1..Space
    BY <1>18, <1>22, <2>1
  <2>3. Reaches(t, Skip(t, q[k] + 1), q[k] + 1 + Len(sa))
    BY <1>6, <2>1, <2>2, SkipBlanks
  <2> QED
    BY <2>1, <2>3
<1>27. Reaches(t, Skip(t, q[n]), y)
  <2>1. q[n] \in Nat \ {0}
    BY <1>14, <1>16
  <2>2. At(t, q[n] + Len(lt)) \notin 1..Space
    BY <1>17, <1>25, Signs, ZenonT(60)
  <2>3. Reaches(t, Skip(t, q[n]), q[n] + Len(lt))
    BY <1>6, <1>21, <2>1, <2>2, SkipBlanks
  <2> QED
    BY <1>17, <2>3
<1>28. Reaches(t, Skip(t, i + 1), p[1])
  <2>1. i + 1 \in Nat \ {0}
    OBVIOUS
  <2>2. At(t, i + 1 + Len(la)) \notin 1..Space
    BY <1>14, <1>17, <1>22
  <2>3. Reaches(t, Skip(t, i + 1), i + 1 + Len(la))
    BY <1>6, <1>12, <2>1, <2>2, SkipBlanks
  <2> QED
    BY <1>17, <2>3
<1>29. At(t, q[n]) \notin Digit
  <2>1. q[n] \in Nat \ {0}
    BY <1>14, <1>16
  <2>2. CASE lt = <<>>
    <3>1. q[n] = y
      <4>1. Len(lt) = 0
        BY <2>2
      <4> QED
        BY <1>17, <2>1, <4>1
    <3> QED
      BY <1>25, <3>1, Signs, SMTT(30)
  <2>3. CASE lt # <<>>
    <3>1. Len(lt) >= 1 /\ lt \in Seq(Char)
      BY <1>6, <2>3, EmptySeq, BlankChars
    <3>2. lt[1] \in Blank
      BY <1>6, <3>1
    <3>3. At(t, q[n]) = IF q[n] <= Len(t) THEN lt[1] ELSE End
      BY <1>21, <2>1, <3>1, StandsFirst
    <3> QED
      BY <3>2, <3>3, Signs, SMTT(30) DEF Blank
  <2> QED
    BY <2>2, <2>3
<1>30. \A k \in 1..n : At(t, q[k]) \notin Digit
  <2> SUFFICES ASSUME NEW k \in 1..n
               PROVE  At(t, q[k]) \notin Digit
    OBVIOUS
  <2>1. k \in 1..n - 1 \/ k = n
    BY <1>2
  <2>2. CASE k \in 1..n - 1
    BY <1>24, <2>2, Signs
  <2> QED
    BY <1>29, <2>1, <2>2
<1>31. ASSUME NEW k \in 1..n
       PROVE  /\ q[k] <= l + 1 =>
                   \/ ParseElement(t, p[k], kind, value) = Parsed(q[k], x[k])
                   \/ deep /\ ParseElement(t, p[k], kind, value).next = 0
              /\ q[k] > l + 1 =>
                   \/ ParseElement(t, p[k], kind, value).next = 0
                   \/ ParseElement(t, p[k], kind, value).next > l
  <2> DEFINE e == ParseElement(t, p[k], kind, value)
  <2> DEFINE F == [j \in Nat |-> ParseElement(t, j, kind, value)]
  <2> DEFINE v == u[k]
  <2>1. p[k] \in Nat \ {0} /\ q[k] \in Nat /\ StandsAt(t, p[k], v) /\ q[k] = p[k] + Len(v)
        /\ At(t, q[k]) \notin Digit
    BY <1>16, <1>19, <1>30
  <2>2. F[p[k]] = e
    BY <2>1
  <2>3. Reads(t, F, v, x[k], deep)
    BY <1>5
  <2> HIDE DEF F, v, e
  <2>4. Whole(t, p[k], v) => e = Parsed(q[k], x[k]) \/ (deep /\ e.next = 0)
    BY <2>1, <2>2, <2>3 DEF Reads
  <2>5. ~Whole(t, p[k], v) => e.next = 0 \/ e.next > l
    BY <2>1, <2>2, <2>3 DEF Reads, l
  <2> DEFINE pk == p[k]
  <2> DEFINE qk == q[k]
  <2> DEFINE m == Len(v)
  <2>6. Whole(t, pk, v) <=> pk + m - 1 <= l
    BY DEF Whole, l
  <2>9. pk \in Nat /\ qk \in Nat /\ m \in Nat /\ qk = pk + m
    BY <1>3, <2>1 DEF v, n
  <2> HIDE DEF pk, qk, m
  <2>7. /\ qk <= l + 1 => Whole(t, pk, v)
        /\ qk > l + 1 => ~Whole(t, pk, v)
    BY <1>2, <2>6, <2>9
  <2>8. /\ q[k] <= l + 1 => Whole(t, p[k], v)
        /\ q[k] > l + 1 => ~Whole(t, p[k], v)
    BY <2>7 DEF pk, qk
  <2> QED
    BY <2>4, <2>5, <2>7, <2>8 DEF e
<1>32. Laid(t, kind, value, x, deep, p, q, y)
  <2>1. p[1] <= y
    <3>1. p[1] \in Nat /\ q[1] \in Nat /\ p[1] < q[1] /\ q[1] <= y
      BY <1>14, <1>16
    <3> QED
      BY <1>15, <3>1, SMTT(30)
  <2>2. ASSUME NEW k \in 1..n
        PROVE  0 < q[k] /\ q[k] <= y /\ (k < n => q[k] < p[k + 1] /\ p[k + 1] <= y)
    <3>1. q[k] \in Nat \ {0} /\ q[k] <= y
      BY <1>16
    <3>2. ASSUME k < n
          PROVE  q[k] < p[k + 1] /\ p[k + 1] <= y
      <4>1. k \in 1..n - 1
        BY <1>2, <3>2
      <4>2. k + 1 \in 1..n /\ p[k + 1] = q[k] + 1 + Len(sa)
        BY <1>18, <4>1
      <4>3. p[k + 1] \in Nat /\ q[k + 1] \in Nat /\ p[k + 1] < q[k + 1] /\ q[k + 1] <= y
        BY <1>16, <4>2
      <4> DEFINE e == p[k + 1]
      <4> DEFINE c == q[k + 1]
      <4> DEFINE j == q[k]
      <4> DEFINE m == Len(sa)
      <4>4. e \in Nat /\ c \in Nat /\ j \in Nat /\ m \in Nat /\ e = j + 1 + m /\ e < c /\ c <= y
        BY <1>6, <3>1, <4>2, <4>3
      <4> HIDE DEF e, c, j, m
      <4>5. j < e /\ e <= y
        BY <1>15, <4>4
      <4> QED
        BY <4>5 DEF e, j
    <3> QED
      BY <3>1, <3>2
  <2>3. \A k \in 1..n - 1 : q[k] <= l =>
          Skip(t, q[k]) = q[k] /\ At(t, q[k]) = Comma /\ Reaches(t, Skip(t, q[k] + 1), p[k + 1])
    <3> SUFFICES ASSUME NEW k \in 1..n - 1, q[k] <= l
                 PROVE  Skip(t, q[k]) = q[k] /\ At(t, q[k]) = Comma
                        /\ Reaches(t, Skip(t, q[k] + 1), p[k + 1])
      OBVIOUS
    <3>1. At(t, q[k]) = Comma
      BY <1>24
    <3>2. At(t, q[k]) \notin 1..Space /\ q[k] \in Nat
      BY <1>16, <1>18, <3>1, Signs
    <3> QED
      BY <1>26, <3>1, <3>2, SkipNothing
  <2>4. y <= l => At(t, y) = Closing(kind)
    BY <1>25
  <2> QED
    BY <1>2, <1>27, <1>31, <2>1, <2>2, <2>3, <2>4 DEF Laid, l
<1>33. At(t, p[1]) # Closing(kind)
  BY <1>14, <1>22
<1>34. x # <<>>
  BY <1>2
<1>35. Outcome(t, ParseNested(t, i, kind, value), y, [type |-> kind, children |-> x], deep)
  BY <1>2, <1>15, <1>28, <1>32, <1>33, <1>34, NestedRead, ZenonT(60)
<1>36. i + Len(s) - 1 = y
  BY <1>8 DEF y
<1> QED
  BY <1>35, <1>36 DEF OutcomeAt

-----------------------------------------------------------------------------
(* What is printed.                                                        *)

\* The four kinds of items.
Members(inner) == [name : Seq(Char), item : inner]

\* An item is a number, a string, an array or an object.
LEMMA ItemCases ==
  ASSUME NEW inner, NEW item \in Items(inner)
  PROVE  \/ \E n \in CInt : item = Number(n)
         \/ \E s \in Seq(Char) : item = String(s)
         \/ \E c \in Seq(inner) : item = Array(c)
         \/ \E c \in Seq(Members(inner)) : item = Object(c)
<1>1. CASE item \in [type : {"number"}, num : CInt]
  <2>1. item = Number(item.num) /\ item.num \in CInt
    BY <1>1 DEF Number
  <2> QED
    BY <2>1
<1>2. CASE item \in [type : {"string"}, text : Seq(Char)]
  <2>1. item = String(item.text) /\ item.text \in Seq(Char)
    BY <1>2 DEF String
  <2> QED
    BY <2>1
<1>3. CASE item \in [type : {"array"}, children : Seq(inner)]
  <2>1. item = Array(item.children) /\ item.children \in Seq(inner)
    BY <1>3 DEF Array
  <2> QED
    BY <2>1
<1>4. CASE item \in [type : {"object"}, children : Seq([name : Seq(Char), item : inner])]
  <2>1. item = Object(item.children) /\ item.children \in Seq(Members(inner))
    BY <1>4 DEF Object, Members
  <2> QED
    BY <2>1
<1> QED
  BY <1>1, <1>2, <1>3, <1>4 DEF Items

\* Each kind of item is printed by its own function (cJSON.c:396-399).
LEMMA PrintCases ==
  /\ \A n, depth, value : PrintItem(Number(n), depth, value) = PrintNumber(n)
  /\ \A s, depth, value : PrintItem(String(s), depth, value) = PrintString(s)
  /\ \A c, depth, value : PrintItem(Array(c), depth, value) = PrintArray(c, depth, value)
  /\ \A c, depth, value : PrintItem(Object(c), depth, value) = PrintObject(c, depth, value)
<1>1. \A n : Number(n).type = "number" /\ Number(n).num = n
  BY DEF Number
<1>2. \A s : String(s).type = "string" /\ String(s).text = s
  BY DEF String
<1>3. \A c : Array(c).type = "array" /\ Array(c).children = c
  BY DEF Array
<1>4. \A c : Object(c).type = "object" /\ Object(c).children = c
  BY DEF Object
<1>5. ASSUME NEW n, NEW depth, NEW value
      PROVE  PrintItem(Number(n), depth, value) = PrintNumber(n)
  BY <1>1 DEF PrintItem
<1>6. ASSUME NEW s, NEW depth, NEW value
      PROVE  PrintItem(String(s), depth, value) = PrintString(s)
  BY <1>2 DEF PrintItem
<1>7. ASSUME NEW c, NEW depth, NEW value
      PROVE  PrintItem(Array(c), depth, value) = PrintArray(c, depth, value)
  BY <1>3 DEF PrintItem
<1>8. ASSUME NEW c, NEW depth, NEW value
      PROVE  PrintItem(Object(c), depth, value) = PrintObject(c, depth, value)
  BY <1>4 DEF PrintItem
<1> QED
  BY <1>5, <1>6, <1>7, <1>8

\* Texts in a row may be taken together in any order.
LEMMA TextAssociative ==
  \A a, b, c \in Seq(Char) : (a \o b) \o c = a \o (b \o c)
  BY ConcatAssociative

\* The texts of the elements of an array, and of the members of an object.
ElementTexts(children, depth, value) ==
    [k \in 1..Len(children) |-> value[children[k]][depth + 1]]
MemberTexts(children, depth, value) ==
    [k \in 1..Len(children) |->
       PrintString(children[k].name) \o <<Colon, Tab>> \o value[children[k].item][depth + 1]]

\* The tabs before a member are blank space.
LEMMA TabsBlank ==
  ASSUME NEW n \in Nat
  PROVE  Tabs(n) \in Seq(Blank) /\ Tabs(n) \in Seq(Char) /\ Len(Tabs(n)) = n
  BY Signs DEF Tabs, Blank

\* The text of an array is a bracketed one (cJSON.c:434-511).
LEMMA ArrayText ==
  ASSUME NEW inner, NEW children \in Seq(inner), NEW depth \in Nat, NEW value,
         \A c \in inner : value[c][depth + 1] \in Seq(Char)
  PROVE  /\ ElementTexts(children, depth, value) \in Seq(Seq(Char))
         /\ Len(ElementTexts(children, depth, value)) = Len(children)
         /\ PrintArray(children, depth, value) =
              Bracketed("array", <<>>, <<>>, ElementTexts(children, depth, value), Space,
                        <<>>, <<>>)
<1> DEFINE u == ElementTexts(children, depth, value)
<1> DEFINE n == Len(children)
<1> DEFINE f == FlattenSeq(Filling(<<>>, u, Space, <<>>))
<1> DEFINE op == <<Opening("array")>>
<1>1. n \in Nat /\ DOMAIN children = 1..n /\ \A k \in 1..n : children[k] \in inner
  OBVIOUS
<1>2. u \in Seq(Seq(Char)) /\ Len(u) = n /\ DOMAIN u = 1..n
      /\ \A k \in 1..n : u[k] = value[children[k]][depth + 1] /\ u[k] \in Seq(Char)
  BY DEF ElementTexts
<1>3. <<>> \in Seq(Blank) /\ Space \in Blank /\ <<>> \in Seq(Char)
  BY DEF Blank
<1>4. Filling(<<>>, u, Space, <<>>) =
        [k \in DOMAIN children |-> value[children[k]][depth + 1]
                                   \o (IF k < Len(children) THEN <<Comma, Space>> ELSE <<>>)]
  <2>1. \A k \in 1..n : <<>> \o u[k] = value[children[k]][depth + 1]
    BY <1>2
  <2> HIDE DEF u
  <2>2. Filling(<<>>, u, Space, <<>>) =
          [k \in 1..n |-> <<>> \o u[k] \o (IF k < n THEN <<Comma, Space>> ELSE <<>>)]
    BY <1>2 DEF Filling
  <2>3. \A k \in 1..n : <<>> \o u[k] \o (IF k < n THEN <<Comma, Space>> ELSE <<>>) =
          value[children[k]][depth + 1] \o (IF k < n THEN <<Comma, Space>> ELSE <<>>)
    BY <2>1
  <2> QED
    BY <1>1, <2>2, <2>3
<1>5. f \in Seq(Char)
  <2> HIDE DEF u
  <2>1. Filling(<<>>, u, Space, <<>>) \in Seq(Seq(Char))
    BY <1>2, <1>3, FillingPlaces DEF Filled
  <2> QED
    BY <2>1, FlatPlaces DEF FlatLies
<1>6. op \in Seq(Char)
  BY Signs
<1>7. op \o <<>> = op
  BY <1>6, ConcatEmptySeq
<1> HIDE DEF u, f, op
<1>8. op \o f \o <<>> = op \o f
  <2>1. op \o f \in Seq(Char)
    BY <1>5, <1>6, TextConcat
  <2> QED
    BY <2>1, ConcatEmptySeq
<1>9. PrintArray(children, depth, value) = op \o f \o <<Closing("array")>>
  BY <1>4 DEF PrintArray, f, op
<1>10. Bracketed("array", <<>>, <<>>, u, Space, <<>>, <<>>) =
         op \o <<>> \o f \o <<>> \o <<Closing("array")>>
  BY DEF Bracketed, f, op
<1> QED
  BY <1>2, <1>7, <1>8, <1>9, <1>10 DEF u

\* So is the text of an object (cJSON.c:550-658).
LEMMA ObjectText ==
  ASSUME NEW inner, NEW children \in Seq(Members(inner)), children # <<>>, NEW depth \in Nat,
         NEW value, \A c \in inner : value[c][depth + 1] \in Seq(Char)
  PROVE  /\ MemberTexts(children, depth, value) \in Seq(Seq(Char))
         /\ Len(MemberTexts(children, depth, value)) = Len(children)
         /\ PrintObject(children, depth, value) =
              Bracketed("object", <<NewLine>>, Tabs(depth + 1),
                        MemberTexts(children, depth, value), NewLine, <<NewLine>>, Tabs(depth))
<1> DEFINE u == MemberTexts(children, depth, value)
<1> DEFINE n == Len(children)
<1> DEFINE a == Tabs(depth + 1)
<1> DEFINE f == FlattenSeq(Filling(a, u, NewLine, <<NewLine>>))
<1> DEFINE ps(k) == PrintString(children[k].name)
<1> DEFINE ct == <<Colon, Tab>>
<1> DEFINE v(k) == value[children[k].item][depth + 1]
<1> DEFINE e(k) == IF k < n THEN <<Comma, NewLine>> ELSE <<NewLine>>
<1>1. n \in Nat /\ DOMAIN children = 1..n
      /\ \A k \in 1..n : children[k].name \in Seq(Char) /\ children[k].item \in inner
  <2>1. \A k \in 1..n : children[k] \in Members(inner)
    OBVIOUS
  <2>2. \A m \in Members(inner) : m.name \in Seq(Char) /\ m.item \in inner
    BY DEF Members
  <2> QED
    BY <2>1, <2>2
<1>2. \A k \in 1..n : ps(k) \in Seq(Char) /\ v(k) \in Seq(Char)
  BY <1>1, StringPlaces
<1>3. ct \in Seq(Char) /\ a \in Seq(Char) /\ a \in Seq(Blank)
  BY TabsBlank, Signs
<1>4. u = [k \in 1..n |-> ps(k) \o ct \o v(k)]
  BY DEF MemberTexts
<1> HIDE DEF ps, ct, v, e, a, u
<1>5. \A k \in 1..n : u[k] = ps(k) \o ct \o v(k) /\ ps(k) \o ct \in Seq(Char)
  BY <1>2, <1>3, <1>4, TextConcat
<1>6. \A k \in 1..n : u[k] \in Seq(Char)
  BY <1>2, <1>5, TextConcat
<1>7. u \in Seq(Seq(Char)) /\ Len(u) = n
  <2>1. DOMAIN u = 1..n /\ u = [k \in 1..n |-> u[k]]
    BY <1>4
  <2> QED
    BY <1>1, <1>6, <2>1
<1>8. \A k \in 1..n : a \o ps(k) \o ct \o v(k) = a \o u[k]
  <2> SUFFICES ASSUME NEW k \in 1..n
               PROVE  a \o ps(k) \o ct \o v(k) = a \o u[k]
    OBVIOUS
  <2> DEFINE x == ps(k)
  <2> DEFINE y == v(k)
  <2>1. x \in Seq(Char) /\ y \in Seq(Char) /\ u[k] = (x \o ct) \o y /\ x \o ct \in Seq(Char)
    BY <1>2, <1>5
  <2> HIDE DEF x, y
  <2>2. (a \o x) \o ct = a \o (x \o ct)
    BY <1>3, <2>1, TextAssociative
  <2>3. (a \o (x \o ct)) \o y = a \o ((x \o ct) \o y)
    BY <1>3, <2>1, TextAssociative
  <2>4. a \o x \o ct \o y = a \o u[k]
    BY <2>1, <2>2, <2>3
  <2> QED
    BY <2>4 DEF x, y
<1>9. Filling(a, u, NewLine, <<NewLine>>) =
        [k \in DOMAIN children |-> a \o ps(k) \o ct \o v(k) \o e(k)]
  <2>1. Filling(a, u, NewLine, <<NewLine>>) = [k \in 1..n |-> a \o u[k] \o e(k)]
    BY <1>7 DEF Filling, e
  <2>2. \A k \in 1..n : a \o u[k] \o e(k) = a \o ps(k) \o ct \o v(k) \o e(k)
    BY <1>8
  <2> QED
    BY <1>1, <2>1, <2>2
<1>10. <<Opening("object"), NewLine>> = <<Opening("object")>> \o <<NewLine>>
  OBVIOUS
<1>11. PrintObject(children, depth, value) =
         <<Opening("object"), NewLine>> \o f \o Tabs(depth) \o <<Closing("object")>>
  <2>1. ~(children = <<>> /\ depth > 0)
    OBVIOUS
  <2> QED
    BY <1>9, <2>1 DEF PrintObject, f, ps, ct, v, e, a
<1>12. Bracketed("object", <<NewLine>>, a, u, NewLine, <<NewLine>>, Tabs(depth)) =
         <<Opening("object")>> \o <<NewLine>> \o f \o Tabs(depth) \o <<Closing("object")>>
  BY DEF Bracketed, f
<1> QED
  BY <1>7, <1>10, <1>11, <1>12 DEF u, a

\* An empty array or object.
LEMMA EmptyText ==
  ASSUME NEW depth \in Nat, NEW value
  PROVE  /\ PrintArray(<<>>, depth, value) = <<Opening("array")>> \o <<>> \o <<Closing("array")>>
         /\ \E b \in Seq(Blank) : Len(b) <= depth + 1 /\ PrintObject(<<>>, depth, value) =
              <<Opening("object")>> \o b \o <<Closing("object")>>
<1>1. FlattenSeq(<<>>) = <<>>
  <2>1. <<>> \in Seq(Seq(Char)) /\ Len(<<>>) = 0
    OBVIOUS
  <2>2. PICK o \in [0..Len(<<>>) -> Nat] : FlatLies(<<>>, o)
    BY <2>1, FlatPlaces
  <2>3. FlattenSeq(<<>>) \in Seq(Char) /\ Len(FlattenSeq(<<>>)) = 0
    BY <2>1, <2>2 DEF FlatLies
  <2> QED
    BY <2>3, EmptySeq
<1>2. \A g : DOMAIN g = {} /\ g = [k \in {} |-> g[k]] => g = <<>>
  OBVIOUS
<1>3. DOMAIN <<>> = {} /\ Len(<<>>) = 0
  OBVIOUS
<1>4. PrintArray(<<>>, depth, value) = <<Opening("array")>> \o <<>> \o <<Closing("array")>>
  <2> DEFINE g == [k \in DOMAIN <<>> |->
                     value[<<>>[k]][depth + 1]
                     \o (IF k < Len(<<>>) THEN <<Comma, Space>> ELSE <<>>)]
  <2>1. g = <<>>
    BY <1>2, <1>3
  <2> HIDE DEF g
  <2>2. PrintArray(<<>>, depth, value) =
          <<Opening("array")>> \o FlattenSeq(g) \o <<Closing("array")>>
    BY DEF PrintArray, g
  <2> QED
    BY <1>1, <2>1, <2>2
<1>5. \E b \in Seq(Blank) : Len(b) <= depth + 1 /\ PrintObject(<<>>, depth, value) =
        <<Opening("object")>> \o b \o <<Closing("object")>>
  <2> DEFINE g == [k \in DOMAIN <<>> |->
                     Tabs(depth + 1) \o PrintString(<<>>[k].name) \o <<Colon, Tab>>
                     \o value[<<>>[k].item][depth + 1]
                     \o (IF k < Len(<<>>) THEN <<Comma, NewLine>> ELSE <<NewLine>>)]
  <2> DEFINE m == IF depth > 0 THEN depth - 1 ELSE depth
  <2> DEFINE op == <<Opening("object")>>
  <2> DEFINE nl == <<NewLine>>
  <2>1. g = <<>>
    BY <1>2, <1>3
  <2>2. m \in Nat /\ m <= depth
    OBVIOUS
  <2>3. <<Opening("object"), NewLine>> = op \o nl
    OBVIOUS
  <2>4. op \in Seq(Char) /\ nl \in Seq(Char) /\ nl \in Seq(Blank) /\ Len(nl) = 1
    BY Signs DEF Blank
  <2> HIDE DEF g, m, op, nl
  <2>5. PrintObject(<<>>, depth, value) =
          <<Opening("object"), NewLine>> \o FlattenSeq(g) \o Tabs(m) \o <<Closing("object")>>
    BY DEF PrintObject, g, m
  <2>6. Tabs(m) \in Seq(Blank) /\ Tabs(m) \in Seq(Char) /\ Len(Tabs(m)) = m
    BY <2>2, TabsBlank
  <2> DEFINE tm == Tabs(m)
  <2> HIDE DEF tm
  <2>7. tm \in Seq(Blank) /\ tm \in Seq(Char) /\ Len(tm) = m
    BY <2>6 DEF tm
  <2>8. (op \o nl) \o <<>> = op \o nl
    <3>1. op \o nl \in Seq(Char)
      BY <2>4, TextConcat
    <3> QED
      BY <3>1, ConcatEmptySeq
  <2>9. (op \o nl) \o tm = op \o (nl \o tm)
    BY <2>4, <2>7, TextAssociative
  <2>10. PrintObject(<<>>, depth, value) = op \o (nl \o tm) \o <<Closing("object")>>
    BY <1>1, <2>1, <2>3, <2>5, <2>8, <2>9 DEF tm
  <2>11. nl \o tm \in Seq(Blank) /\ Len(nl \o tm) = 1 + m
    BY <2>4, <2>7, ConcatProperties, ZenonT(60)
  <2>12. Len(nl \o tm) <= depth + 1
    BY <2>2, <2>11
  <2> QED
    BY <2>10, <2>11, <2>12 DEF op
<1> QED
  BY <1>4, <1>5

\* What a printed item begins with.
Start == {Quote, Minus, 91, 123} \union Digit
Shaped(s) == s \in Seq(Char) /\ Len(s) >= 1 /\ s[1] \in Start

\* The range of an int, in numbers the provers can take.
LEMMA CIntegers ==
  /\ IntMax \in Nat /\ IntMax < 100000 * 100000
  /\ \A n \in CInt : n \in Int /\ -n \in Int /\ n <= IntMax /\ -n <= IntMax + 1
<1>1. IntMax \in Nat /\ IntMax < 100000 * 100000
  BY SMT DEF IntMax
<1> QED
  BY <1>1 DEF CInt

\* A bracketed text begins with its bracket, and is longer than what is in it.
LEMMA BracketShape ==
  ASSUME NEW kind \in {"array", "object"}, NEW lead \in Seq(Blank), NEW a \in Seq(Blank),
         NEW u \in Seq(Seq(Char)), u # <<>>, NEW sp \in Blank, NEW last \in Seq(Blank),
         NEW tail \in Seq(Blank)
  PROVE  /\ Shaped(Bracketed(kind, lead, a, u, sp, last, tail))
         /\ Bracketed(kind, lead, a, u, sp, last, tail)[1] = Opening(kind)
         /\ \A k \in 1..Len(u) : Len(u[k]) < Len(Bracketed(kind, lead, a, u, sp, last, tail))
<1> DEFINE s == Bracketed(kind, lead, a, u, sp, last, tail)
<1>1. PICK g \in [1..Len(u) -> Nat], h \in [1..Len(u) -> Nat], z \in Nat :
        Lies(kind, lead, a, u, sp, last, tail, s, g, h, z)
  BY BracketPlaces
<1> HIDE DEF s
<1>2. s \in Seq(Char) /\ Len(s) = z + 1 /\ s[1] = Opening(kind)
  BY <1>1 DEF Lies
<1>3. \A k \in 1..Len(u) : h[k] = g[k] + Len(u[k]) /\ h[k] <= z
  BY <1>1 DEF Lies
<1>4. ASSUME NEW k \in 1..Len(u)
      PROVE  Len(u[k]) < Len(s)
  <2> DEFINE gk == g[k]
  <2> DEFINE hk == h[k]
  <2> DEFINE lk == Len(u[k])
  <2> DEFINE n == Len(s)
  <2>1. gk \in Nat /\ hk \in Nat /\ lk \in Nat /\ hk = gk + lk /\ hk <= z /\ n = z + 1
    <3>1. gk \in Nat /\ hk \in Nat
      OBVIOUS
    <3>3. lk \in Nat
      <4>1. u[k] \in Seq(Char)
        OBVIOUS
      <4> QED
        BY <4>1
    <3>2. hk = gk + lk /\ hk <= z
      BY <1>3
    <3> QED
      BY <1>2, <3>1, <3>2, <3>3
  <2> HIDE DEF gk, hk, lk, n
  <2>2. lk < n
    BY <2>1
  <2> QED
    BY <2>2 DEF lk, n
<1>5. Opening(kind) \in Start
  BY DEF Opening, Start
<1>6. Len(s) >= 1
  BY <1>2
<1> QED
  BY <1>2, <1>4, <1>5, <1>6 DEF s, Shaped

\* The text of an empty array or object: two brackets with blank space between them.
LEMMA EmptyShape ==
  ASSUME NEW kind \in {"array", "object"}, NEW b \in Seq(Blank)
  PROVE  /\ Shaped(<<Opening(kind)>> \o b \o <<Closing(kind)>>)
         /\ (<<Opening(kind)>> \o b \o <<Closing(kind)>>)[1] = Opening(kind)
         /\ Len(<<Opening(kind)>> \o b \o <<Closing(kind)>>) = Len(b) + 2
         /\ \A t \in Seq(Char), i \in Nat \ {0} :
              StandsAt(t, i, <<Opening(kind)>> \o b \o <<Closing(kind)>>) =>
                StandsAt(t, i + 1, b) /\ StandsAt(t, i + 1 + Len(b), <<Closing(kind)>>)
<1> DEFINE op == <<Opening(kind)>>
<1> DEFINE cl == <<Closing(kind)>>
<1> DEFINE ob == op \o b
<1> DEFINE s == ob \o cl
<1>1. op \in Seq(Char) /\ Len(op) = 1 /\ op[1] = Opening(kind) /\ cl \in Seq(Char) /\ Len(cl) = 1
  BY Signs
<1>2. b \in Seq(Char) /\ Len(b) \in Nat
  BY BlankChars
<1>3. Opening(kind) \in Start
  BY DEF Opening, Start
<1> HIDE DEF op, cl
<1>4. ob \in Seq(Char) /\ Len(ob) = 1 + Len(b) /\ ob[1] = op[1]
  <2>1. ob \in Seq(Char) /\ Len(ob) = Len(op) + Len(b) /\ (Len(op) >= 1 => ob[1] = op[1])
    BY <1>1, <1>2, TextConcat
  <2> QED
    BY <1>1, <2>1
<1> HIDE DEF ob
<1>5. s \in Seq(Char) /\ Len(s) = Len(b) + 2 /\ s[1] = ob[1]
  <2>1. s \in Seq(Char) /\ Len(s) = Len(ob) + Len(cl) /\ (Len(ob) >= 1 => s[1] = ob[1])
    BY <1>1, <1>4, TextConcat
  <2> QED
    BY <1>1, <1>2, <1>4, <2>1
<1> HIDE DEF s
<1>6. ASSUME NEW t \in Seq(Char), NEW i \in Nat \ {0}, StandsAt(t, i, s)
      PROVE  StandsAt(t, i + 1, b) /\ StandsAt(t, i + 1 + Len(b), cl)
  <2>1. StandsAt(t, i, ob) /\ StandsAt(t, i + Len(ob), cl)
    BY <1>1, <1>4, <1>6, StandsConcat DEF s
  <2>2. StandsAt(t, i, op) /\ StandsAt(t, i + Len(op), b)
    BY <1>1, <1>2, <2>1, StandsConcat DEF ob
  <2>3. i + Len(ob) = i + 1 + Len(b) /\ i + Len(op) = i + 1
    <3>1. Len(ob) = 1 + Len(b) /\ Len(b) \in Nat
      BY <1>2, <1>4
    <3> QED
      BY <1>1, <3>1
  <2> QED
    BY <2>1, <2>2, <2>3
<1>7. Len(s) >= 1
  BY <1>2, <1>5
<1>8. s[1] = Opening(kind)
  BY <1>1, <1>4, <1>5
<1>9. Shaped(s)
  BY <1>3, <1>5, <1>7, <1>8 DEF Shaped
<1> QED
  BY <1>5, <1>6, <1>8, <1>9 DEF s, ob, op, cl

\* The text of an item, when the texts of what is in it are texts.
LEMMA ItemShape ==
  ASSUME NEW inner, NEW value, \A c \in inner, d \in Nat : value[c][d] \in Seq(Char),
         NEW item \in Items(inner), NEW depth \in Nat
  PROVE  Shaped(PrintItem(item, depth, value))
<1>1. depth + 1 \in Nat
  OBVIOUS
<1>2. \A c \in inner : value[c][depth + 1] \in Seq(Char)
  BY <1>1
<1>3. ASSUME NEW n \in CInt, item = Number(n)
      PROVE  Shaped(PrintItem(item, depth, value))
  <2>1. PrintItem(item, depth, value) = PrintNumber(n)
    BY <1>3, PrintCases
  <2>2. n \in Int
    BY CIntegers
  <2> QED
    BY <2>1, <2>2, NumberShape DEF Shaped, Start
<1>4. ASSUME NEW s \in Seq(Char), item = String(s)
      PROVE  Shaped(PrintItem(item, depth, value))
  <2>1. PrintItem(item, depth, value) = PrintString(s)
    BY <1>4, PrintCases
  <2>2. PICK o \in [0..Len(s) -> Nat] : PrintString(s) \in Seq(Char) /\ PrintString(s)[1] = Quote
                                       /\ Len(PrintString(s)) = o[Len(s)] + 2
    BY StringPlaces
  <2>3. Len(PrintString(s)) >= 1
    <3>1. Len(s) \in 0..Len(s)
      OBVIOUS
    <3>2. o[Len(s)] \in Nat
      BY <3>1
    <3> QED
      BY <2>2, <3>2
  <2> QED
    BY <2>1, <2>2, <2>3 DEF Shaped, Start
<1>5. ASSUME NEW c \in Seq(inner), item = Array(c)
      PROVE  Shaped(PrintItem(item, depth, value))
  <2>1. PrintItem(item, depth, value) = PrintArray(c, depth, value)
    BY <1>5, PrintCases
  <2>2. CASE c = <<>>
    <3>1. <<>> \in Seq(Blank)
      OBVIOUS
    <3> QED
      BY <2>1, <2>2, <3>1, EmptyText, EmptyShape
  <2>3. CASE c # <<>>
    <3> DEFINE u == ElementTexts(c, depth, value)
    <3>1. u \in Seq(Seq(Char)) /\ Len(u) = Len(c) /\ PrintArray(c, depth, value) =
            Bracketed("array", <<>>, <<>>, u, Space, <<>>, <<>>)
      BY <1>2, ArrayText
    <3>2. u # <<>> /\ <<>> \in Seq(Blank) /\ Space \in Blank
      BY <2>3, <3>1, EmptySeq DEF Blank
    <3> HIDE DEF u
    <3>3. Shaped(Bracketed("array", <<>>, <<>>, u, Space, <<>>, <<>>))
      BY <3>1, <3>2, BracketShape
    <3> QED
      BY <2>1, <3>1, <3>3
  <2> QED
    BY <2>2, <2>3
<1>6. ASSUME NEW c \in Seq(Members(inner)), item = Object(c)
      PROVE  Shaped(PrintItem(item, depth, value))
  <2>1. PrintItem(item, depth, value) = PrintObject(c, depth, value)
    BY <1>6, PrintCases
  <2>2. CASE c = <<>>
    BY <2>1, <2>2, EmptyText, EmptyShape
  <2>3. CASE c # <<>>
    <3> DEFINE u == MemberTexts(c, depth, value)
    <3> DEFINE s == Bracketed("object", <<NewLine>>, Tabs(depth + 1), u, NewLine, <<NewLine>>,
                              Tabs(depth))
    <3>1. u \in Seq(Seq(Char)) /\ Len(u) = Len(c) /\ PrintObject(c, depth, value) = s
      <4>1. c # <<>>
        BY <2>3
      <4>2. /\ MemberTexts(c, depth, value) \in Seq(Seq(Char))
            /\ Len(MemberTexts(c, depth, value)) = Len(c)
            /\ PrintObject(c, depth, value) =
                 Bracketed("object", <<NewLine>>, Tabs(depth + 1),
                           MemberTexts(c, depth, value), NewLine, <<NewLine>>, Tabs(depth))
        BY <1>2, <4>1, ObjectText
      <4> QED
        BY <4>2
    <3>2. u # <<>>
      BY <2>3, <3>1, EmptySeq
    <3>3. <<NewLine>> \in Seq(Blank) /\ NewLine \in Blank /\ Tabs(depth) \in Seq(Blank)
          /\ Tabs(depth + 1) \in Seq(Blank)
      BY <1>1, TabsBlank DEF Blank
    <3> HIDE DEF u
    <3>4. Shaped(s)
      BY <3>1, <3>2, <3>3, BracketShape
    <3> QED
      BY <2>1, <3>1, <3>4
  <2> QED
    BY <2>2, <2>3
<1> QED
  BY <1>3, <1>4, <1>5, <1>6, ItemCases

\* Every printed text.
LEMMA TextShape ==
  \A n \in Nat : \A item \in Nested[n], depth \in Nat : Shaped(Printed[n][item][depth])
<1> DEFINE S == {n \in Nat :
                   \A item \in Nested[n], depth \in Nat : Shaped(Printed[n][item][depth])}
<1>1. 0 \in S
  BY NestedSteps
<1>2. ASSUME NEW n \in Nat, n \in S
      PROVE  n + 1 \in S
  <2> SUFFICES ASSUME NEW item \in Nested[n + 1], NEW depth \in Nat
               PROVE  Shaped(Printed[n + 1][item][depth])
    OBVIOUS
  <2>1. item \in Items(Nested[n])
    BY NestedSteps
  <2>2. Printed[n + 1][item][depth] = PrintItem(item, depth, Printed[n])
    <3>1. Printed[n + 1] = [i \in Nested[n + 1] |-> [d \in Nat |-> PrintItem(i, d, Printed[n])]]
      BY PrintedSteps
    <3>2. Printed[n + 1][item] = [d \in Nat |-> PrintItem(item, d, Printed[n])]
      BY <3>1
    <3> QED
      BY <3>2
  <2>3. \A c \in Nested[n], d \in Nat : Printed[n][c][d] \in Seq(Char)
    BY <1>2 DEF Shaped
  <2> HIDE DEF S
  <2>4. Shaped(PrintItem(item, depth, Printed[n]))
    BY <2>1, <2>3, ItemShape
  <2> QED
    BY <2>2, <2>4
<1> HIDE DEF S
<1>3. Nat \subseteq S
  BY <1>1, <1>2, Induction
<1> QED
  BY <1>3 DEF S

-----------------------------------------------------------------------------
(* Reading what is printed.                                                *)

\* What ParseValue() does with the character it finds.
LEMMA ValueCases ==
  ASSUME NEW t \in Seq(Char), NEW i, NEW value
  PROVE  /\ At(t, i) = Quote => ParseValue(t, i, value) = ParseString(t, i)
         /\ At(t, i) \in Digit \union {Minus} => ParseValue(t, i, value) = ParseNumber(t, i)
         /\ \A kind \in {"array", "object"} : At(t, i) = Opening(kind) =>
              ParseValue(t, i, value) = ParseNested(t, i, kind, value)
         /\ At(t, i) = End => ParseValue(t, i, value) = Failed
<1> DEFINE c == At(t, i)
<1> DEFINE v == ParseValue(t, i, value)
<1>1. v = CASE c = Quote -> ParseString(t, i)
            [] c = Minus \/ c \in Digit -> ParseNumber(t, i)
            [] c = Opening("array") -> ParseNested(t, i, "array", value)
            [] c = Opening("object") -> ParseNested(t, i, "object", value)
            [] OTHER -> Failed
  BY DEF ParseValue
<1>2. /\ Quote \notin Digit \union {Minus, 91, 123, End}
      /\ Minus \notin Digit \union {Quote, 91, 123, End}
      /\ Digit \intersect {Quote, Minus, 91, 123, End} = {}
      /\ 91 # 123 /\ 91 # End /\ 123 # End
  BY DEF Quote, Digit, Minus, End, Zero
<1>3. Opening("array") = 91 /\ Opening("object") = 123
  BY DEF Opening
<1> HIDE DEF c, v
<1>4. c = Quote => v = ParseString(t, i)
  BY <1>1, <1>2, <1>3
<1>5. c \in Digit \union {Minus} => v = ParseNumber(t, i)
  BY <1>1, <1>2, <1>3
<1>6. c = Opening("array") => v = ParseNested(t, i, "array", value)
  BY <1>1, <1>2, <1>3
<1>7. c = Opening("object") => v = ParseNested(t, i, "object", value)
  BY <1>1, <1>2, <1>3
<1>8. c = End => v = Failed
  BY <1>1, <1>2, <1>3
<1> QED
  BY <1>4, <1>5, <1>6, <1>7, <1>8 DEF c, v

\* An item is read back; one in brackets whatever follows it, and refused when it is cut.
ReadsItem(t, value, s, item, deep) ==
    /\ Reads(t, value, s, item, deep)
    /\ item.type \in {"array", "object"} =>
         \A j \in Nat \ {0} : StandsAt(t, j, s) =>
           /\ Whole(t, j, s) => value[j] = Parsed(j + Len(s), item) \/ (deep /\ value[j].next = 0)
           /\ ~Whole(t, j, s) => value[j].next = 0

\* A reading that fails no more than another does is one wherever that is.
LEMMA ReadsWeaker ==
  ASSUME NEW t, NEW f, NEW g, NEW v, NEW item, NEW d \in BOOLEAN, NEW e \in BOOLEAN,
         Reads(t, f, v, item, d), d => e, \A j \in Nat : g[j] = f[j]
  PROVE  Reads(t, g, v, item, e)
BY DEF Reads

\* It is enough to look at places in the text.
LEMMA FromOutcome ==
  ASSUME NEW t \in Seq(Char), NEW value, NEW s \in Seq(Char), Len(s) >= 1, NEW item,
         NEW deep \in BOOLEAN,
         \A j \in Nat \ {0} : j > Len(t) => value[j].next = 0,
         \A j \in Nat \ {0} : StandsAt(t, j, s) /\ j <= Len(t) =>
           Outcome(t, value[j], j + Len(s) - 1, item, deep)
  PROVE  ReadsItem(t, value, s, item, deep)
<1> DEFINE l == Len(t)
<1> DEFINE m == Len(s)
<1>1. l \in Nat /\ m \in Nat /\ m >= 1
  OBVIOUS
<1>2. \A j \in Nat \ {0} : j > l => value[j].next = 0
  OBVIOUS
<1>3. \A j \in Nat \ {0} :
        StandsAt(t, j, s) /\ j <= l => Outcome(t, value[j], j + m - 1, item, deep)
  OBVIOUS
<1> HIDE DEF l, m
<1>4. ASSUME NEW j \in Nat \ {0}, StandsAt(t, j, s)
      PROVE  /\ Whole(t, j, s) => value[j] = Parsed(j + m, item) \/ (deep /\ value[j].next = 0)
             /\ ~Whole(t, j, s) => value[j].next = 0
  <2>1. Whole(t, j, s) <=> j + m - 1 <= l
    BY DEF Whole, l, m
  <2>2. j + m - 1 + 1 = j + m /\ j + m - 1 \in Nat
    BY <1>1
  <2>3. CASE j > l
    <3>1. ~(j + m - 1 <= l)
      BY <1>1, <2>3
    <3> QED
      BY <1>2, <2>1, <2>3, <3>1
  <2>4. CASE j <= l
    <3>1. Outcome(t, value[j], j + m - 1, item, deep)
      BY <1>3, <1>4, <2>4
    <3>2. /\ j + m - 1 <= l =>
               value[j] = Parsed(j + m - 1 + 1, item) \/ (deep /\ value[j].next = 0)
          /\ ~(j + m - 1 <= l) => value[j].next = 0
      BY <3>1 DEF Outcome, l
    <3> QED
      BY <2>1, <2>2, <3>2
  <2> QED
    BY <1>1, <2>3, <2>4
<1> QED
  BY <1>4 DEF ReadsItem, Reads, m

\* An array or object whose text is bracketed.
LEMMA BracketedRead ==
  ASSUME NEW t \in Seq(Char), NEW kind \in {"array", "object"}, NEW value, Advancing(t, value),
         NEW s \in Seq(Char), Len(s) >= 1, s[1] = Opening(kind), NEW item, NEW deep \in BOOLEAN,
         \A j \in Nat \ {0} : StandsAt(t, j, s) =>
           Outcome(t, ParseNested(t, j, kind, value), j + Len(s) - 1, item, deep)
  PROVE  ReadsItem(t, [j \in Nat |-> ParseValue(t, j, value)], s, item, deep)
<1> DEFINE f == [j \in Nat |-> ParseValue(t, j, value)]
<1>1. ASSUME NEW j \in Nat \ {0}, j > Len(t)
      PROVE  f[j].next = 0
  <2>1. At(t, j) = End
    BY <1>1 DEF At
  <2> QED
    BY <2>1, ValueCases, FailedAdvances
<1>2. ASSUME NEW j \in Nat \ {0}, StandsAt(t, j, s), j <= Len(t)
      PROVE  Outcome(t, f[j], j + Len(s) - 1, item, deep)
  <2>1. At(t, j) = IF j <= Len(t) THEN s[1] ELSE End
    BY <1>2, StandsFirst
  <2>2. At(t, j) = Opening(kind)
    BY <1>2, <2>1
  <2>3. f[j] = ParseNested(t, j, kind, value)
    BY <2>2, ValueCases
  <2> HIDE DEF f
  <2> QED
    BY <1>2, <2>3
<1> HIDE DEF f
<1>3. ReadsItem(t, f, s, item, deep)
  BY <1>1, <1>2, FromOutcome
<1> QED
  BY <1>3 DEF f

\* A number is read back (cJSON.c:96-114, 147-175).
LEMMA NumberItemRead ==
  ASSUME NEW t \in Seq(Char), NEW value, NEW n \in CInt, NEW deep \in BOOLEAN
  PROVE  ReadsItem(t, [j \in Nat |-> ParseValue(t, j, value)], PrintNumber(n), Number(n), deep)
<1> DEFINE f == [j \in Nat |-> ParseValue(t, j, value)]
<1> DEFINE s == PrintNumber(n)
<1>1. n \in Int
  BY CIntegers
<1>2. s \in Seq(Char) /\ Len(s) >= 1 /\ s[1] \in Digit \union {Minus}
  BY <1>1, NumberShape
<1>3. Number(n).type = "number"
  BY DEF Number
<1>4. ASSUME NEW j \in Nat \ {0}, StandsAt(t, j, s)
      PROVE  /\ Whole(t, j, s) /\ At(t, j + Len(s)) \notin Digit =>
                  f[j] = Parsed(j + Len(s), Number(n)) \/ (deep /\ f[j].next = 0)
             /\ ~Whole(t, j, s) => f[j].next = 0 \/ f[j].next > Len(t)
  <2>1. At(t, j) = IF j <= Len(t) THEN s[1] ELSE End
    BY <1>2, <1>4, StandsFirst
  <2>2. CASE j <= Len(t)
    <3>1. f[j] = ParseNumber(t, j)
      BY <1>2, <2>1, <2>2, ValueCases
    <3>2. Whole(t, j, s) /\ At(t, j + Len(s)) \notin Digit =>
            ParseNumber(t, j) = Parsed(j + Len(s), Number(n))
      BY <1>1, <1>4, NumberRead
    <3>3. ~Whole(t, j, s) /\ j <= Len(t) => ParseNumber(t, j).next > Len(t)
      BY <1>1, <1>4, NumberRead
    <3> HIDE DEF f, s
    <3> QED
      BY <2>2, <3>1, <3>2, <3>3
  <2>3. CASE ~(j <= Len(t))
    <3>1. f[j] = Failed
      BY <2>1, <2>3, ValueCases
    <3>2. f[j].next = 0
      BY <3>1, FailedAdvances
    <3>3. ~Whole(t, j, s)
      <4> DEFINE m == Len(s)
      <4> DEFINE l == Len(t)
      <4>1. m \in Nat /\ m >= 1 /\ l \in Nat /\ ~(j <= l)
        BY <1>2, <2>3
      <4>2. Whole(t, j, s) => j + m - 1 <= l
        BY DEF Whole
      <4> HIDE DEF m, l
      <4> QED
        BY <4>1, <4>2
    <3> HIDE DEF f, s
    <3> QED
      BY <3>2, <3>3
  <2> QED
    BY <2>2, <2>3
<1> HIDE DEF f, s
<1>5. ReadsItem(t, f, s, Number(n), deep)
  BY <1>3, <1>4 DEF ReadsItem, Reads
<1> QED
  BY <1>5 DEF f, s

\* A string is read back (cJSON.c:192-307).
LEMMA StringItemRead ==
  ASSUME NEW t \in Seq(Char), NEW value, NEW w \in Seq(Char), NEW deep \in BOOLEAN
  PROVE  ReadsItem(t, [j \in Nat |-> ParseValue(t, j, value)], PrintString(w), String(w), deep)
<1> DEFINE f == [j \in Nat |-> ParseValue(t, j, value)]
<1> DEFINE s == PrintString(w)
<1>2. s \in Seq(Char) /\ s[1] = Quote
  BY StringPlaces
<1>6. Len(s) >= 1
  <2>1. s # <<>>
    <3>1. PICK o \in [0..Len(w) -> Nat] : Len(s) = o[Len(w)] + 2
      BY StringPlaces
    <3>2. o[Len(w)] \in Nat
      OBVIOUS
    <3> QED
      BY <3>1, <3>2
  <2> HIDE DEF s
  <2> QED
    BY <1>2, <2>1, EmptySeq
<1>3. String(w).type = "string"
  BY DEF String
<1>4. ASSUME NEW j \in Nat \ {0}, StandsAt(t, j, s)
      PROVE  /\ Whole(t, j, s) => f[j] = Parsed(j + Len(s), String(w))
             /\ ~Whole(t, j, s) => f[j].next = 0 \/ f[j].next > Len(t)
  <2>1. At(t, j) = IF j <= Len(t) THEN s[1] ELSE End
    BY <1>2, <1>4, <1>6, StandsFirst
  <2>2. CASE j <= Len(t)
    <3>1. f[j] = ParseString(t, j)
      BY <1>2, <2>1, <2>2, ValueCases
    <3>2. Whole(t, j, s) => ParseString(t, j) = Parsed(j + Len(s), String(w))
      BY <1>4, StringRead
    <3>3. ~Whole(t, j, s) => ParseString(t, j).next = 0 \/ ParseString(t, j).next > Len(t)
      BY <1>4, StringRead
    <3> HIDE DEF f, s
    <3> QED
      BY <3>1, <3>2, <3>3
  <2>3. CASE ~(j <= Len(t))
    <3>1. f[j] = Failed
      BY <2>1, <2>3, ValueCases
    <3>2. f[j].next = 0
      BY <3>1, FailedAdvances
    <3>3. ~Whole(t, j, s)
      <4> DEFINE m == Len(s)
      <4> DEFINE l == Len(t)
      <4>1. m \in Nat /\ m >= 1 /\ l \in Nat /\ ~(j <= l)
        BY <1>2, <1>6, <2>3
      <4>2. Whole(t, j, s) => j + m - 1 <= l
        BY DEF Whole
      <4> HIDE DEF m, l
      <4> QED
        BY <4>1, <4>2
    <3> HIDE DEF f, s
    <3> QED
      BY <3>2, <3>3
  <2> QED
    BY <2>2, <2>3
<1> HIDE DEF f, s
<1>5. ReadsItem(t, f, s, String(w), deep)
  BY <1>3, <1>4 DEF ReadsItem, Reads
<1> QED
  BY <1>5 DEF f, s

\* An empty array or object is read back.
LEMMA EmptyItemRead ==
  ASSUME NEW t \in Seq(Char), NEW kind \in {"array", "object"}, NEW value, Advancing(t, value),
         NEW b \in Seq(Blank), NEW deep \in BOOLEAN
  PROVE  ReadsItem(t, [j \in Nat |-> ParseValue(t, j, value)],
                   <<Opening(kind)>> \o b \o <<Closing(kind)>>,
                   [type |-> kind, children |-> <<>>], deep)
<1> DEFINE s == <<Opening(kind)>> \o b \o <<Closing(kind)>>
<1> DEFINE item == [type |-> kind, children |-> <<>>]
<1>1. Shaped(s) /\ s[1] = Opening(kind) /\ Len(s) = Len(b) + 2
  BY EmptyShape
<1>2. \A i \in Nat \ {0} : StandsAt(t, i, s) =>
                StandsAt(t, i + 1, b) /\ StandsAt(t, i + 1 + Len(b), <<Closing(kind)>>)
  BY EmptyShape
<1> HIDE DEF s
<1>3. s \in Seq(Char) /\ Len(s) >= 1
  BY <1>1 DEF Shaped
<1>4. ASSUME NEW j \in Nat \ {0}, StandsAt(t, j, s)
      PROVE  Outcome(t, ParseNested(t, j, kind, value), j + Len(s) - 1, item, deep)
  <2> DEFINE m == Len(b)
  <2>1. /\ j + 1 + m <= Len(t) => ParseNested(t, j, kind, value) = Parsed(j + m + 2, item)
        /\ ~(j + 1 + m <= Len(t)) => ParseNested(t, j, kind, value).next = 0
    BY <1>2, <1>4, EmptyRead, ZenonT(60)
  <2>2. j + Len(s) - 1 = j + 1 + m /\ j + 1 + m + 1 = j + m + 2
    <3>1. Len(s) = m + 2 /\ m \in Nat
      BY <1>1
    <3> HIDE DEF m
    <3> QED
      BY <3>1
  <2> HIDE DEF m, item
  <2> QED
    BY <2>1, <2>2 DEF Outcome
<1> HIDE DEF item
<1>5. ReadsItem(t, [j \in Nat |-> ParseValue(t, j, value)], s, item, deep)
  BY <1>1, <1>3, <1>4, BracketedRead
<1> QED
  BY <1>5 DEF s, item

\* The values "value" reads are those whose texts "printed" holds; one may fail whose text is
\* longer than m.
ReadsAll(t, value, inner, printed, m) ==
    \A c \in inner, d \in Nat :
      /\ Shaped(printed[c][d])
      /\ Reads(t, value, printed[c][d], c, m < Len(printed[c][d]))

\* An array is read back when its elements are (cJSON.c:406-511).
LEMMA ArrayItemRead ==
  ASSUME NEW t \in Seq(Char), NEW value, Advancing(t, value), NEW inner, NEW printed,
         NEW m \in Nat, ReadsAll(t, value, inner, printed, m),
         NEW c \in Seq(inner), NEW depth \in Nat
  PROVE  ReadsItem(t, [j \in Nat |-> ParseValue(t, j, value)], PrintArray(c, depth, printed),
                   Array(c), m + 1 < Len(PrintArray(c, depth, printed)))
<1> DEFINE s == PrintArray(c, depth, printed)
<1> DEFINE deep == m + 1 < Len(s)
<1> DEFINE u == ElementTexts(c, depth, printed)
<1> DEFINE f == [j \in Nat |-> ParseElement(t, j, "array", value)]
<1>1. Array(c) = [type |-> "array", children |-> c]
  BY DEF Array
<1>2. \A d \in inner : /\ Shaped(printed[d][depth + 1])
                       /\ Reads(t, value, printed[d][depth + 1], d, m < Len(printed[d][depth + 1]))
  <2>1. depth + 1 \in Nat
    OBVIOUS
  <2> QED
    BY <2>1 DEF ReadsAll
<1>3. deep \in BOOLEAN
  OBVIOUS
<1>4. CASE c = <<>>
  <2>1. s = <<Opening("array")>> \o <<>> \o <<Closing("array")>>
    BY <1>4, EmptyText
  <2>2. <<>> \in Seq(Blank)
    OBVIOUS
  <2> HIDE DEF s
  <2>3. ReadsItem(t, [j \in Nat |-> ParseValue(t, j, value)],
                  <<Opening("array")>> \o <<>> \o <<Closing("array")>>,
                  [type |-> "array", children |-> <<>>], deep)
    BY <1>3, <2>2, EmptyItemRead
  <2> QED
    BY <1>1, <1>4, <2>1, <2>3 DEF s
<1>5. CASE c # <<>>
  <2> DEFINE b == Bracketed("array", <<>>, <<>>, u, Space, <<>>, <<>>)
  <2>1. u \in Seq(Seq(Char)) /\ Len(u) = Len(c) /\ s = b
    <3>1. \A d \in inner : printed[d][depth + 1] \in Seq(Char)
      BY <1>2 DEF Shaped
    <3> QED
      BY <3>1, ArrayText
  <2>2. u # <<>> /\ <<>> \in Seq(Blank) /\ Space \in Blank
    BY <1>5, <2>1, EmptySeq DEF Blank
  <2>3. \A k \in 1..Len(u) : c[k] \in inner /\ u[k] = printed[c[k]][depth + 1]
    BY <2>1 DEF ElementTexts
  <2>4. \A j \in Nat : f[j] = value[j]
    BY DEF ParseElement
  <2> HIDE DEF u, f, s, b
  <2>5. Shaped(b) /\ b[1] = Opening("array") /\ \A k \in 1..Len(u) : Len(u[k]) < Len(b)
    BY <2>1, <2>2, BracketShape DEF b
  <2>6. s \in Seq(Char) /\ Len(s) >= 1 /\ s[1] = Opening("array")
    BY <2>1, <2>5 DEF Shaped
  <2>7. ASSUME NEW k \in 1..Len(u)
        PROVE  /\ Len(u[k]) >= 1 /\ u[k][1] \notin 1..Space /\ u[k][1] # Closing("array")
               /\ Reads(t, f, u[k], c[k], deep)
    <3> DEFINE v == u[k]
    <3>1. Shaped(v) /\ Reads(t, value, v, c[k], m < Len(v))
      BY <1>2, <2>3
    <3>2. v \in Seq(Char) /\ Len(v) >= 1 /\ v[1] \in Start
      BY <3>1 DEF Shaped
    <3>3. v[1] \notin 1..Space /\ v[1] # Closing("array")
      <4>1. 91 \notin 1..Space /\ 123 \notin 1..Space
        BY DEF Space
      <4> QED
        BY <3>2, <4>1, Signs DEF Start
    <3>4. Len(v) < Len(s) /\ Len(v) \in Nat /\ Len(s) \in Nat
      BY <2>1, <2>5, <2>6, <3>2
    <3> HIDE DEF v
    <3>5. m < Len(v) => deep
      BY <3>4
    <3>6. (m < Len(v)) \in BOOLEAN
      OBVIOUS
    <3> HIDE DEF deep
    <3>7. Reads(t, f, v, c[k], deep)
      BY <1>3, <2>4, <3>1, <3>5, <3>6, ReadsWeaker
    <3> QED
      BY <3>2, <3>3, <3>7 DEF v
  <2>8. Texts(t, "array", value, u, c, deep)
    BY <2>1, <2>7 DEF Texts, f
  <2>9. ASSUME NEW j \in Nat \ {0}, StandsAt(t, j, s)
        PROVE  Outcome(t, ParseNested(t, j, "array", value), j + Len(s) - 1, Array(c), deep)
    <3>1. IsBracketed("array", s, u)
      BY <2>1, <2>2 DEF IsBracketed, b
    <3> HIDE DEF deep
    <3>2. OutcomeAt(t, "array", value, j, s, c, deep)
      BY <1>3, <2>1, <2>2, <2>8, <2>9, <3>1, BracketRead
    <3> QED
      BY <1>1, <3>2 DEF OutcomeAt
  <2> HIDE DEF deep
  <2>10. ReadsItem(t, [j \in Nat |-> ParseValue(t, j, value)], s, Array(c), deep)
    BY <1>3, <2>6, <2>9, BracketedRead
  <2> QED
    BY <2>10 DEF s, deep
<1> QED
  BY <1>4, <1>5

\* The texts of the members of an object.
LEMMA MemberTextRead ==
  ASSUME NEW t \in Seq(Char), NEW value, Advancing(t, value), NEW name \in Seq(Char),
         NEW v, Shaped(v), NEW item, NEW deep \in BOOLEAN, Reads(t, value, v, item, deep)
  PROVE  LET u == PrintString(name) \o <<Colon, Tab>> \o v
         IN  /\ u \in Seq(Char) /\ Len(v) < Len(u) /\ u[1] = Quote
             /\ Reads(t, [j \in Nat |-> ParseMember(t, j, value)], u, Member(name, item), deep)
<1> DEFINE p == PrintString(name)
<1> DEFINE ct == <<Colon, Tab>>
<1> DEFINE pc == p \o ct
<1>1. v \in Seq(Char) /\ Len(v) >= 1 /\ v[1] \in Start /\ Len(v) \in Nat
  BY DEF Shaped
<1>2. v[1] \notin 1..Space
  <2>1. 91 \notin 1..Space /\ 123 \notin 1..Space
    BY DEF Space
  <2> QED
    BY <1>1, <2>1, Signs DEF Start
<1>3. p \in Seq(Char) /\ p[1] = Quote /\ Len(p) >= 1
  <2>1. PICK o \in [0..Len(name) -> Nat] : p \in Seq(Char) /\ p[1] = Quote
                                           /\ Len(p) = o[Len(name)] + 2
    BY StringPlaces
  <2>2. o[Len(name)] \in Nat
    OBVIOUS
  <2> HIDE DEF p
  <2> QED
    BY <2>1, <2>2
<1>4. ct \in Seq(Char) /\ Len(ct) = 2
  BY Signs
<1> HIDE DEF p, ct
<1>6. pc \in Seq(Char) /\ Len(pc) = Len(p) + 2 /\ pc[1] = Quote /\ Len(pc) >= 1
  <2>1. pc \in Seq(Char) /\ Len(pc) = Len(p) + Len(ct) /\ (Len(p) >= 1 => pc[1] = p[1])
    BY <1>3, <1>4, TextConcat
  <2>2. Len(p) \in Nat
    BY <1>3
  <2> QED
    BY <1>3, <1>4, <2>1, <2>2
<1> HIDE DEF pc
<1> DEFINE u == pc \o v
<1>7. u \in Seq(Char) /\ Len(u) = Len(pc) + Len(v) /\ u[1] = Quote
  <2>1. pc \o v \in Seq(Char) /\ Len(pc \o v) = Len(pc) + Len(v)
        /\ (Len(pc) >= 1 => (pc \o v)[1] = pc[1])
    BY <1>1, <1>6, TextConcat
  <2> QED
    BY <1>6, <2>1
<1>8. Len(v) < Len(u)
  <2>1. Len(pc) \in Nat /\ Len(pc) >= 1
    BY <1>6
  <2> HIDE DEF u
  <2> QED
    BY <1>1, <1>7, <2>1
<1>9. Reads(t, [j \in Nat |-> ParseMember(t, j, value)], PrintString(name) \o <<Colon, Tab>> \o v,
            Member(name, item), deep)
  BY <1>1, <1>2, MemberRead
<1> QED
  BY <1>7, <1>8, <1>9 DEF u, pc, p, ct

\* An object is read back when the values of its members are (cJSON.c:514-658).
LEMMA ObjectItemRead ==
  ASSUME NEW t \in Seq(Char), NEW value, Advancing(t, value), NEW inner, NEW printed,
         NEW m \in Nat, ReadsAll(t, value, inner, printed, m),
         NEW c \in Seq(Members(inner)), NEW depth \in Nat
  PROVE  ReadsItem(t, [j \in Nat |-> ParseValue(t, j, value)], PrintObject(c, depth, printed),
                   Object(c), m + 1 < Len(PrintObject(c, depth, printed)))
<1> DEFINE s == PrintObject(c, depth, printed)
<1> DEFINE deep == m + 1 < Len(s)
<1> DEFINE u == MemberTexts(c, depth, printed)
<1> DEFINE f == [j \in Nat |-> ParseElement(t, j, "object", value)]
<1> DEFINE g == [j \in Nat |-> ParseMember(t, j, value)]
<1>1. Object(c) = [type |-> "object", children |-> c]
  BY DEF Object
<1>2. \A d \in inner : /\ Shaped(printed[d][depth + 1])
                       /\ Reads(t, value, printed[d][depth + 1], d, m < Len(printed[d][depth + 1]))
  <2>1. depth + 1 \in Nat
    OBVIOUS
  <2> QED
    BY <2>1 DEF ReadsAll
<1>3. deep \in BOOLEAN
  OBVIOUS
<1>4. CASE c = <<>>
  <2>1. PICK b \in Seq(Blank) : s = <<Opening("object")>> \o b \o <<Closing("object")>>
    BY <1>4, EmptyText
  <2> HIDE DEF s
  <2>3. ReadsItem(t, [j \in Nat |-> ParseValue(t, j, value)],
                  <<Opening("object")>> \o b \o <<Closing("object")>>,
                  [type |-> "object", children |-> <<>>], deep)
    BY <1>3, EmptyItemRead
  <2> QED
    BY <1>1, <1>4, <2>1, <2>3 DEF s
<1>5. CASE c # <<>>
  <2> DEFINE nl == <<NewLine>>
  <2> DEFINE a == Tabs(depth + 1)
  <2> DEFINE tail == Tabs(depth)
  <2> DEFINE b == Bracketed("object", nl, a, u, NewLine, nl, tail)
  <2>0. nl \in Seq(Blank) /\ NewLine \in Blank /\ tail \in Seq(Blank) /\ a \in Seq(Blank)
    <3>1. depth + 1 \in Nat
      OBVIOUS
    <3> QED
      BY <3>1, TabsBlank DEF Blank
  <2>1. u \in Seq(Seq(Char)) /\ Len(u) = Len(c) /\ s = b
    <3>1. \A d \in inner : printed[d][depth + 1] \in Seq(Char)
      BY <1>2 DEF Shaped
    <3>2. c # <<>>
      BY <1>5
    <3>3. /\ MemberTexts(c, depth, printed) \in Seq(Seq(Char))
          /\ Len(MemberTexts(c, depth, printed)) = Len(c)
          /\ PrintObject(c, depth, printed) =
               Bracketed("object", <<NewLine>>, Tabs(depth + 1),
                         MemberTexts(c, depth, printed), NewLine, <<NewLine>>, Tabs(depth))
      BY <3>1, <3>2, ObjectText
    <3> QED
      BY <3>3
  <2>2. u # <<>>
    BY <1>5, <2>1, EmptySeq
  <2>3. \A k \in 1..Len(u) :
          /\ c[k].name \in Seq(Char) /\ c[k].item \in inner /\ c[k] = Member(c[k].name, c[k].item)
          /\ u[k] = PrintString(c[k].name) \o <<Colon, Tab>> \o printed[c[k].item][depth + 1]
    <3>1. \A d \in Members(inner) : /\ d.name \in Seq(Char) /\ d.item \in inner
                                    /\ d = Member(d.name, d.item)
      BY DEF Members, Member
    <3>2. \A k \in 1..Len(u) : c[k] \in Members(inner)
      BY <2>1
    <3>3. \A k \in 1..Len(c) :
            u[k] = PrintString(c[k].name) \o <<Colon, Tab>> \o printed[c[k].item][depth + 1]
      BY DEF MemberTexts
    <3> HIDE DEF u
    <3> QED
      BY <2>1, <3>1, <3>2, <3>3
  <2>4. f = g
    BY DEF ParseElement
  <2> HIDE DEF u, f, g, s, b, nl, a, tail
  <2>5. Shaped(b) /\ b[1] = Opening("object") /\ \A k \in 1..Len(u) : Len(u[k]) < Len(b)
    BY <2>0, <2>1, <2>2, BracketShape, SMTT(30) DEF b
  <2>6. s \in Seq(Char) /\ Len(s) >= 1 /\ s[1] = Opening("object")
    BY <2>1, <2>5 DEF Shaped
  <2>7. ASSUME NEW k \in 1..Len(u)
        PROVE  /\ Len(u[k]) >= 1 /\ u[k][1] \notin 1..Space /\ u[k][1] # Closing("object")
               /\ Reads(t, f, u[k], c[k], deep)
    <3> DEFINE v == printed[c[k].item][depth + 1]
    <3> DEFINE name == c[k].name
    <3> DEFINE item == c[k].item
    <3> DEFINE d == m < Len(v)
    <3> DEFINE w == u[k]
    <3>1. Shaped(v) /\ Reads(t, value, v, item, d) /\ d \in BOOLEAN
      <4>1. item \in inner
        BY <2>3
      <4>2. Shaped(v) /\ Reads(t, value, v, item, m < Len(v))
        BY <1>2, <4>1
      <4>3. d \in BOOLEAN
        OBVIOUS
      <4> QED
        BY <4>2, <4>3
    <3>2. name \in Seq(Char) /\ c[k] = Member(name, item)
          /\ w = PrintString(name) \o <<Colon, Tab>> \o v
      BY <2>3
    <3>3. v \in Seq(Char) /\ Len(v) >= 1
      BY <3>1 DEF Shaped
    <3>4. Len(w) < Len(s)
      BY <2>1, <2>5
    <3> HIDE DEF v, name, item, d, w
    <3>5. /\ w \in Seq(Char) /\ Len(v) < Len(w) /\ w[1] = Quote
          /\ Reads(t, g, w, Member(name, item), d)
      BY <3>1, <3>2, MemberTextRead DEF g
    <3> DEFINE lv == Len(v)
    <3> DEFINE lw == Len(w)
    <3> DEFINE ls == Len(s)
    <3>6. lv \in Nat /\ lw \in Nat /\ ls \in Nat /\ lv >= 1 /\ lv < lw /\ lw < ls
      BY <2>6, <3>3, <3>4, <3>5
    <3>7. (d <=> m < lv) /\ (deep <=> m + 1 < ls)
      BY DEF d
    <3> HIDE DEF lv, lw, ls, deep
    <3>8. (d => deep) /\ lw >= 1
      BY <3>6, <3>7
    <3>9. Reads(t, f, w, Member(name, item), deep)
      BY <1>3, <2>4, <3>1, <3>5, <3>8, ReadsWeaker
    <3>10. Quote \notin 1..Space /\ Quote # Closing("object")
      BY DEF Quote, Space, Closing
    <3> QED
      BY <3>2, <3>5, <3>8, <3>9, <3>10 DEF w, lw
  <2>8. Texts(t, "object", value, u, c, deep)
    BY <2>1, <2>7 DEF Texts, f
  <2>9. ASSUME NEW j \in Nat \ {0}, StandsAt(t, j, s)
        PROVE  Outcome(t, ParseNested(t, j, "object", value), j + Len(s) - 1, Object(c), deep)
    <3>1. IsBracketed("object", s, u)
      BY <2>0, <2>1 DEF IsBracketed, b
    <3> HIDE DEF deep
    <3>2. OutcomeAt(t, "object", value, j, s, c, deep)
      BY <1>3, <2>1, <2>2, <2>8, <2>9, <3>1, BracketRead
    <3> QED
      BY <1>1, <3>2 DEF OutcomeAt
  <2> HIDE DEF deep
  <2>10. ReadsItem(t, [j \in Nat |-> ParseValue(t, j, value)], s, Object(c), deep)
    BY <1>3, <2>6, <2>9, BracketedRead
  <2> QED
    BY <2>10 DEF s, deep
<1> QED
  BY <1>4, <1>5

\* Every item that is at most n deep is read back, and fails at most where it is deeper
\* than the values that are read.
ReadsNested(t, n) ==
    \A m \in Nat, item \in Nested[n], depth \in Nat :
      ReadsItem(t, ParseValues(t)[m], Printed[n][item][depth], item,
                m < Len(Printed[n][item][depth]))

\* Where no values are read, all fail.
LEMMA NothingRead ==
  ASSUME NEW t, NEW value, \A j \in Nat : value[j].next = 0, NEW s, NEW item
  PROVE  ReadsItem(t, value, s, item, TRUE)
BY DEF ReadsItem, Reads

\* An item is read back when what is in it is.
LEMMA ItemRead ==
  ASSUME NEW t \in Seq(Char), NEW value, Advancing(t, value), NEW inner, NEW printed,
         NEW m \in Nat, ReadsAll(t, value, inner, printed, m),
         NEW item \in Items(inner), NEW depth \in Nat
  PROVE  ReadsItem(t, [j \in Nat |-> ParseValue(t, j, value)], PrintItem(item, depth, printed),
                   item, m + 1 < Len(PrintItem(item, depth, printed)))
<1> DEFINE f == [j \in Nat |-> ParseValue(t, j, value)]
<1>1. ASSUME NEW n \in CInt, item = Number(n)
      PROVE  ReadsItem(t, f, PrintItem(item, depth, printed), item,
                       m + 1 < Len(PrintItem(item, depth, printed)))
  <2> DEFINE s == PrintNumber(n)
  <2> DEFINE deep == m + 1 < Len(s)
  <2>1. PrintItem(item, depth, printed) = s
    BY <1>1, PrintCases
  <2>2. deep \in BOOLEAN
    OBVIOUS
  <2> HIDE DEF deep
  <2>3. ReadsItem(t, f, PrintNumber(n), Number(n), deep)
    BY <2>2, NumberItemRead
  <2> QED
    BY <1>1, <2>1, <2>3 DEF deep
<1>2. ASSUME NEW w \in Seq(Char), item = String(w)
      PROVE  ReadsItem(t, f, PrintItem(item, depth, printed), item,
                       m + 1 < Len(PrintItem(item, depth, printed)))
  <2> DEFINE s == PrintString(w)
  <2> DEFINE deep == m + 1 < Len(s)
  <2>1. PrintItem(item, depth, printed) = s
    BY <1>2, PrintCases
  <2>2. deep \in BOOLEAN
    OBVIOUS
  <2> HIDE DEF deep
  <2>3. ReadsItem(t, f, PrintString(w), String(w), deep)
    BY <2>2, StringItemRead
  <2> QED
    BY <1>2, <2>1, <2>3 DEF deep
<1>3. ASSUME NEW c \in Seq(inner), item = Array(c)
      PROVE  ReadsItem(t, f, PrintItem(item, depth, printed), item,
                       m + 1 < Len(PrintItem(item, depth, printed)))
  <2>1. PrintItem(item, depth, printed) = PrintArray(c, depth, printed)
    BY <1>3, PrintCases
  <2>2. ReadsItem(t, f, PrintArray(c, depth, printed), Array(c),
                  m + 1 < Len(PrintArray(c, depth, printed)))
    BY ArrayItemRead
  <2> QED
    BY <1>3, <2>1, <2>2
<1>4. ASSUME NEW c \in Seq(Members(inner)), item = Object(c)
      PROVE  ReadsItem(t, f, PrintItem(item, depth, printed), item,
                       m + 1 < Len(PrintItem(item, depth, printed)))
  <2>1. PrintItem(item, depth, printed) = PrintObject(c, depth, printed)
    BY <1>4, PrintCases
  <2>2. ReadsItem(t, f, PrintObject(c, depth, printed), Object(c),
                  m + 1 < Len(PrintObject(c, depth, printed)))
    BY ObjectItemRead
  <2> QED
    BY <1>4, <2>1, <2>2
<1> QED
  BY <1>1, <1>2, <1>3, <1>4, ItemCases

\* Every item is read back, by induction on how deep it is nested.
LEMMA ItemsRead ==
  ASSUME NEW t \in Seq(Char), NEW n \in Nat
  PROVE  ReadsNested(t, n)
<1> DEFINE S == {k \in Nat : ReadsNested(t, k)}
<1>1. 0 \in S
  BY NestedSteps DEF ReadsNested
<1>2. ASSUME NEW k \in Nat, k \in S
      PROVE  k + 1 \in S
  <2>1. ReadsNested(t, k)
    BY <1>2
  <2> HIDE DEF S
  <2>2. ASSUME NEW m \in Nat, NEW item \in Nested[k + 1], NEW depth \in Nat
        PROVE  ReadsItem(t, ParseValues(t)[m], Printed[k + 1][item][depth], item,
                         m < Len(Printed[k + 1][item][depth]))
    <3> DEFINE s == Printed[k + 1][item][depth]
    <3>1. item \in Items(Nested[k])
      BY NestedSteps
    <3>2. s = PrintItem(item, depth, Printed[k])
      <4>1. Printed[k + 1] = [i \in Nested[k + 1] |-> [d \in Nat |-> PrintItem(i, d, Printed[k])]]
        BY PrintedSteps
      <4>2. Printed[k + 1][item] = [d \in Nat |-> PrintItem(item, d, Printed[k])]
        BY <4>1
      <4> QED
        BY <4>2
    <3>3. k + 1 \in Nat
      OBVIOUS
    <3>4. Shaped(s)
      BY <3>3, TextShape
    <3> HIDE DEF s
    <3>5. CASE m = 0
      <4>1. \A j \in Nat : ParseValues(t)[m][j].next = 0
        <5>1. ParseValues(t)[0] = [i \in Nat |-> Failed]
          BY ValuesSteps
        <5>2. \A j \in Nat : ParseValues(t)[0][j] = Failed
          BY <5>1
        <5> QED
          BY <3>5, <5>2, FailedAdvances
      <4>2. ReadsItem(t, ParseValues(t)[m], s, item, TRUE)
        BY <4>1, NothingRead
      <4>3. (m < Len(s)) = TRUE
        <5>1. Len(s) >= 1 /\ Len(s) \in Nat
          BY <3>4 DEF Shaped
        <5> QED
          BY <3>5, <5>1
      <4> QED
        BY <4>2, <4>3 DEF s
    <3>6. CASE m # 0
      <4> DEFINE l == m - 1
      <4>1. l \in Nat /\ l + 1 = m
        BY <3>6
      <4> HIDE DEF l
      <4> DEFINE V == ParseValues(t)[l]
      <4>2. ParseValues(t)[m] = [j \in Nat |-> ParseValue(t, j, V)]
        <5>1. \A r \in Nat :
                ParseValues(t)[r + 1] = [i \in Nat |-> ParseValue(t, i, ParseValues(t)[r])]
          BY ValuesSteps
        <5>2. ParseValues(t)[l + 1] = [i \in Nat |-> ParseValue(t, i, ParseValues(t)[l])]
          BY <4>1, <5>1
        <5> QED
          BY <4>1, <5>2
      <4>3. Advancing(t, V)
        BY <4>1, ValuesAdvance
      <4>4. ReadsAll(t, V, Nested[k], Printed[k], l)
        <5> SUFFICES ASSUME NEW c \in Nested[k], NEW d \in Nat
                     PROVE  /\ Shaped(Printed[k][c][d])
                            /\ Reads(t, V, Printed[k][c][d], c, l < Len(Printed[k][c][d]))
          BY DEF ReadsAll
        <5>1. ReadsItem(t, V, Printed[k][c][d], c, l < Len(Printed[k][c][d]))
          BY <2>1, <4>1 DEF ReadsNested
        <5> QED
          BY <5>1, TextShape DEF ReadsItem
      <4> HIDE DEF V
      <4>5. ReadsItem(t, [j \in Nat |-> ParseValue(t, j, V)], PrintItem(item, depth, Printed[k]),
                      item, l + 1 < Len(PrintItem(item, depth, Printed[k])))
        BY <3>1, <4>1, <4>3, <4>4, ItemRead
      <4> QED
        BY <3>2, <4>1, <4>2, <4>5 DEF s
    <3> QED
      BY <3>5, <3>6
  <2>3. ReadsNested(t, k + 1)
    BY <2>2 DEF ReadsNested
  <2> QED
    BY <2>3 DEF S
<1> HIDE DEF S
<1>3. Nat \subseteq S
  BY <1>1, <1>2, Induction
<1> QED
  BY <1>3 DEF S

\* Where the text of an item stands first, whatever is behind it.
LEMMA ParseRead ==
  ASSUME NEW n \in Nat, NEW item \in Nested[n], NEW depth \in Nat, NEW t \in Seq(Char),
         StandsAt(t, 1, Printed[n][item][depth])
  PROVE  /\ /\ Whole(t, 1, Printed[n][item][depth])
            /\ \/ item.type \in {"array", "object"}
               \/ At(t, 1 + Len(Printed[n][item][depth])) \notin Digit
            => Parse(t) = Parsed(1 + Len(Printed[n][item][depth]), item)
         /\ item.type \in {"array", "object"} /\ ~Whole(t, 1, Printed[n][item][depth]) =>
              Parse(t).next = 0
<1> DEFINE s == Printed[n][item][depth]
<1> DEFINE V == ParseValues(t)[Len(t)]
<1> DEFINE deep == Len(t) < Len(s)
<1>1. Shaped(s)
  BY TextShape
<1>2. ReadsItem(t, V, s, item, deep)
  <2>1. ReadsNested(t, n)
    BY ItemsRead
  <2>2. Len(t) \in Nat
    OBVIOUS
  <2> QED
    BY <2>1, <2>2 DEF ReadsNested
<1>3. StandsAt(t, 1, s) /\ 1 \in Nat \ {0} /\ Len(t) \in Nat
  OBVIOUS
<1>4. Parse(t) = V[Skip(t, 1)]
  BY DEF Parse
<1> HIDE DEF s, V
<1>5. s \in Seq(Char) /\ Len(s) >= 1 /\ s[1] \in Start /\ Len(s) \in Nat
  BY <1>1 DEF Shaped
<1>6. Skip(t, 1) = 1
  <2>1. At(t, 1) = IF 1 <= Len(t) THEN s[1] ELSE End
    BY <1>3, <1>5, StandsFirst
  <2>2. 91 \notin 1..Space /\ 123 \notin 1..Space
    BY DEF Space
  <2>3. At(t, 1) \notin 1..Space
    BY <1>5, <2>1, <2>2, Signs DEF Start
  <2> QED
    BY <2>3, SkipNothing
<1>7. Whole(t, 1, s) => ~deep
  <2>1. Whole(t, 1, s) <=> 1 + Len(s) - 1 <= Len(t)
    BY DEF Whole
  <2> QED
    BY <1>3, <1>5, <2>1
<1> HIDE DEF deep
<1>8. Parse(t) = V[1]
  BY <1>4, <1>6
<1>9. /\ Whole(t, 1, s) /\ At(t, 1 + Len(s)) \notin Digit => V[1] = Parsed(1 + Len(s), item)
      /\ item.type \in {"array", "object"} =>
           /\ Whole(t, 1, s) => V[1] = Parsed(1 + Len(s), item)
           /\ ~Whole(t, 1, s) => V[1].next = 0
  BY <1>2, <1>3, <1>7 DEF ReadsItem, Reads
<1> QED
  BY <1>8, <1>9 DEF s

-----------------------------------------------------------------------------
(* The sizes of buffers.                                                   *)

\* The measure of a string that is read: one for every character that is not escaped.
LEMMA RawOn ==
  ASSUME NEW t \in Seq(Char), NEW i \in Nat, At(t, i) \notin {Quote, End}
  PROVE  /\ At(t, i) = Backslash => RawLength(t)[i] = 1 + RawLength(t)[i + 2]
         /\ At(t, i) # Backslash => RawLength(t)[i] = 1 + RawLength(t)[i + 1]
BY RawLengthSteps DEF Escape

\* An escaped character adds at least one to it.
LEMMA RawPiece ==
  ASSUME NEW t \in Seq(Char), NEW i \in Nat \ {0}, NEW c \in Char,
         StandsAt(t, i, Escaped(c)), Whole(t, i, Escaped(c)),
         RawLength(t)[i + Len(Escaped(c))] \in Nat
  PROVE  /\ RawLength(t)[i] \in Nat
         /\ RawLength(t)[i] > RawLength(t)[i + Len(Escaped(c))]
<1> DEFINE R == RawLength(t)
<1>1. ASSUME NEW k \in 1..Len(Escaped(c))
      PROVE  At(t, i + k - 1) = Escaped(c)[k]
  <2>1. i + k - 1 \in 1..Len(t) /\ t[i + k - 1] = Escaped(c)[k]
    BY EscapedShape DEF StandsAt, Whole
  <2> QED
    BY <2>1 DEF At
<1>2. \A j \in Nat : At(t, j) \notin {Quote, End} =>
        /\ At(t, j) = Backslash => R[j] = 1 + R[j + 2]
        /\ At(t, j) # Backslash => R[j] = 1 + R[j + 1]
  BY RawOn
<1>3. R[i + Len(Escaped(c))] \in Nat
  OBVIOUS
<1>4. Backslash \notin {Quote, End}
  BY DEF Backslash, Quote, End
<1> HIDE DEF R
<1> SUFFICES R[i] \in Nat /\ R[i] > R[i + Len(Escaped(c))]
  BY DEF R
<1>5. ASSUME NEW d, Escaped(c) = <<Backslash, d>>
      PROVE  R[i] \in Nat /\ R[i] > R[i + Len(Escaped(c))]
  <2>1. Len(Escaped(c)) = 2 /\ Escaped(c)[1] = Backslash
    BY <1>5
  <2>2. At(t, i + 1 - 1) = Escaped(c)[1]
    BY <1>1, <2>1
  <2>3. At(t, i) = Backslash
    BY <2>1, <2>2
  <2>4. R[i] = 1 + R[i + 2] /\ R[i + 2] \in Nat
    BY <1>2, <1>3, <1>4, <2>1, <2>3
  <2> QED
    BY <2>1, <2>4
<1>6. CASE c \in {Quote, Backslash}
  <2>1. Escaped(c) = <<Backslash, c>>
    BY <1>6, LetterShape, SMTT(30) DEF Escaped, Quote, Backslash, Space
  <2> QED
    BY <1>5, <2>1
<1>7. CASE c \in DOMAIN Letter
  <2>1. Escaped(c) = <<Backslash, Letter[c]>>
    BY <1>7, LetterShape DEF Escaped, Quote, Backslash
  <2> QED
    BY <1>5, <2>1
<1>8. CASE c < Space /\ c \notin DOMAIN Letter
  <2>1. Escaped(c) = <<Backslash, LetterU, Zero, Zero, HexDigit(c \div 16), HexDigit(c % 16)>>
    BY <1>8 DEF Escaped, Quote, Backslash, Space, Char
  <2> DEFINE e == Escaped(c)
  <2>2. Len(e) = 6 /\ e[1] = Backslash /\ e[3] = Zero /\ e[4] = Zero
        /\ e[5] = HexDigit(c \div 16) /\ e[6] = HexDigit(c % 16)
    BY <2>1
  <2>3. /\ At(t, i) = e[1] /\ At(t, i + 2) = e[3] /\ At(t, i + 3) = e[4]
        /\ At(t, i + 4) = e[5] /\ At(t, i + 5) = e[6]
    <3>1. \A k \in 1..6 : At(t, i + k - 1) = e[k]
      BY <1>1, <2>2
    <3> HIDE DEF e
    <3> QED
      BY <3>1
  <2>4. \A d \in 0..15 : HexDigit(d) \notin {Quote, End, Backslash}
    BY DEF HexDigit, Quote, End, Backslash, Zero
  <2>5. c \div 16 \in 0..15 /\ c % 16 \in 0..15
    BY <1>8, SMTT(30) DEF Space, Char
  <2>6. Zero \notin {Quote, End, Backslash}
    BY DEF Quote, End, Backslash, Zero
  <2> HIDE DEF e
  <2>7. R[i + 6] \in Nat
    BY <1>3, <2>2 DEF e
  <2>8. R[i + 5] = 1 + R[i + 6]
    <3>1. At(t, i + 5) \notin {Quote, End, Backslash} /\ i + 5 \in Nat /\ i + 5 + 1 = i + 6
      BY <2>2, <2>3, <2>4, <2>5, SMTT(30)
    <3> QED
      BY <1>2, <3>1
  <2>9. R[i + 4] = 1 + R[i + 5]
    <3>1. At(t, i + 4) \notin {Quote, End, Backslash} /\ i + 4 \in Nat /\ i + 4 + 1 = i + 5
      BY <2>2, <2>3, <2>4, <2>5, SMTT(30)
    <3> QED
      BY <1>2, <3>1
  <2>10. R[i + 3] = 1 + R[i + 4]
    <3>1. At(t, i + 3) \notin {Quote, End, Backslash} /\ i + 3 \in Nat /\ i + 3 + 1 = i + 4
      BY <2>2, <2>3, <2>6
    <3> QED
      BY <1>2, <3>1
  <2>11. R[i + 2] = 1 + R[i + 3]
    <3>1. At(t, i + 2) \notin {Quote, End, Backslash} /\ i + 2 \in Nat /\ i + 2 + 1 = i + 3
      BY <2>2, <2>3, <2>6
    <3> QED
      BY <1>2, <3>1
  <2>12. R[i] = 1 + R[i + 2]
    BY <1>2, <1>4, <2>2, <2>3
  <2>13. Len(Escaped(c)) = 6
    BY <2>2 DEF e
  <2>14. R[i] \in Nat /\ R[i] > R[i + 6]
    BY <2>7, <2>8, <2>9, <2>10, <2>11, <2>12, SMTT(30)
  <2> QED
    BY <2>13, <2>14
<1>9. CASE c \notin {Quote, Backslash} /\ c \notin DOMAIN Letter /\ ~(c < Space)
  <2>1. Escaped(c) = <<c>>
    BY <1>9 DEF Escaped
  <2>2. Len(Escaped(c)) = 1 /\ Escaped(c)[1] = c
    BY <2>1
  <2>3. At(t, i + 1 - 1) = c
    BY <1>1, <2>2
  <2>4. At(t, i) = c /\ c \notin {Quote, End, Backslash}
    BY <1>9, <2>3 DEF Char, End
  <2>5. R[i] = 1 + R[i + 1] /\ R[i + 1] \in Nat
    BY <1>2, <1>3, <2>2, <2>4
  <2> QED
    BY <2>2, <2>5
<1> QED
  BY <1>6, <1>7, <1>8, <1>9

\* What is allocated for a string that is read back is enough.
LEMMA RawString ==
  ASSUME NEW s \in Seq(Char)
  PROVE  Len(s) <= RawLength(PrintString(s))[2]
<1> DEFINE t == PrintString(s)
<1> DEFINE n == Len(s)
<1> DEFINE l == Len(t)
<1> DEFINE R == RawLength(t)
<1>1. PICK o \in [0..Len(s) -> Nat] :
        /\ o[0] = 0
        /\ \A k \in 1..Len(s) : o[k] = o[k - 1] + Len(Escaped(s[k]))
        /\ PrintString(s) \in Seq(Char) /\ PrintString(s)[1] = Quote
        /\ Len(PrintString(s)) = o[Len(s)] + 2
        /\ \A u \in Seq(Char), j \in Nat \ {0} : StandsAt(u, j, PrintString(s)) =>
             /\ \A k \in 1..Len(s) : StandsAt(u, j + 1 + o[k - 1], Escaped(s[k]))
             /\ StandsAt(u, j + 1 + o[Len(s)], <<Quote>>)
  BY StringPlaces
<1>2. t \in Seq(Char) /\ l = o[n] + 2 /\ n \in Nat /\ o[0] = 0
  BY <1>1
<1>3. /\ \A k \in 1..n : StandsAt(t, 1 + 1 + o[k - 1], Escaped(s[k]))
      /\ StandsAt(t, 1 + 1 + o[n], <<Quote>>)
  <2>1. StandsAt(t, 1, t)
    BY <1>2 DEF StandsAt
  <2> QED
    BY <1>1, <1>2, <2>1
<1>4. \A k \in 1..n : /\ s[k] \in Char /\ o[k] = o[k - 1] + Len(Escaped(s[k]))
                      /\ Len(Escaped(s[k])) \in 1..6 /\ o[k] \in Nat /\ o[k - 1] \in Nat
                      /\ Escaped(s[k]) \in Seq(Char)
  <2> SUFFICES ASSUME NEW k \in 1..n
               PROVE  /\ s[k] \in Char /\ o[k] = o[k - 1] + Len(Escaped(s[k]))
                      /\ Len(Escaped(s[k])) \in 1..6 /\ o[k] \in Nat /\ o[k - 1] \in Nat
                      /\ Escaped(s[k]) \in Seq(Char)
    OBVIOUS
  <2>1. s[k] \in Char /\ k \in 0..n /\ k - 1 \in 0..n
    BY <1>2
  <2>2. o[k] \in Nat /\ o[k - 1] \in Nat
    BY <2>1
  <2> QED
    BY <1>1, <2>1, <2>2, EscapedShape
<1>5. o \in [0..n -> Nat]
  OBVIOUS
<1> HIDE DEF t, l, R, n
<1>6. \A k \in 1..n : o[k - 1] <= o[k]
  <2> SUFFICES ASSUME NEW k \in 1..n
               PROVE  o[k - 1] <= o[k]
    OBVIOUS
  <2> DEFINE d == Len(Escaped(s[k]))
  <2>1. o[k] = o[k - 1] + d /\ d \in 1..6 /\ o[k - 1] \in Nat
    BY <1>4
  <2> HIDE DEF d
  <2> QED
    BY <2>1
<1>7. \A k \in 0..n : o[k] <= o[n]
  BY <1>2, <1>5, <1>6, OffsetsGrow
<1>8. n \in 0..n /\ o[n] \in Nat
  BY <1>2, <1>5
<1> DEFINE T == {x \in 0..n : R[2 + o[n - x]] \in Nat /\ R[2 + o[n - x]] >= x}
<1>9. 0 \in T
  <2>1. <<Quote>> \in Seq(Char) /\ Len(<<Quote>>) >= 1 /\ <<Quote>>[1] = Quote
    BY DEF Quote, Char
  <2>2. 2 + o[n] \in Nat \ {0} /\ 2 + o[n] <= l /\ 1 + 1 + o[n] = 2 + o[n]
    BY <1>2, <1>8
  <2>3. At(t, 2 + o[n]) = Quote
    BY <1>2, <1>3, <2>1, <2>2, StandsFirst DEF l
  <2>4. R[2 + o[n]] = 0
    BY <1>2, <2>2, <2>3, RawLengthSteps DEF R
  <2>5. n - 0 = n /\ 0 \in 0..n
    BY <1>2
  <2> QED
    BY <2>4, <2>5
<1>10. ASSUME NEW x \in 0..n - 1, x \in T
       PROVE  x + 1 \in T
  <2> DEFINE k == n - x
  <2>1. k \in 1..n /\ k - 1 = n - (x + 1) /\ x + 1 \in 0..n /\ k \in 0..n
    BY <1>2
  <2>2. R[2 + o[k]] \in Nat /\ R[2 + o[k]] >= x
    BY <1>10
  <2> HIDE DEF k, T
  <2> DEFINE i == 2 + o[k - 1]
  <2> DEFINE d == Len(Escaped(s[k]))
  <2>3. /\ i \in Nat \ {0} /\ d \in 1..6 /\ i + d = 2 + o[k] /\ i + d - 1 <= l
    <3>1. o[k] = o[k - 1] + d /\ d \in 1..6 /\ o[k - 1] \in Nat /\ o[k] \in Nat /\ o[k] <= o[n]
      BY <1>4, <1>7, <2>1
    <3> DEFINE x1 == o[k]
    <3> DEFINE x0 == o[k - 1]
    <3> DEFINE xn == o[n]
    <3>2. /\ x1 = x0 + d /\ d \in 1..6 /\ x0 \in Nat /\ x1 \in Nat /\ xn \in Nat /\ x1 <= xn
          /\ l = xn + 2
      BY <1>2, <1>8, <3>1
    <3> HIDE DEF d, x0, x1, xn
    <3>3. /\ 2 + x0 \in Nat \ {0} /\ 2 + x0 + d = 2 + x1 /\ 2 + x0 + d - 1 <= l
      BY <3>2
    <3> QED
      BY <3>2, <3>3 DEF x0, x1
  <2>4. Whole(t, i, Escaped(s[k]))
    BY <2>3 DEF Whole, l
  <2>5. 1 + 1 + o[k - 1] = i
    BY <1>4, <2>1
  <2>6. StandsAt(t, i, Escaped(s[k])) /\ s[k] \in Char
    BY <1>3, <1>4, <2>1, <2>5
  <2> HIDE DEF i
  <2>7. R[i + Len(Escaped(s[k]))] \in Nat
    BY <2>2, <2>3
  <2>8. R[i] \in Nat /\ R[i] > R[i + Len(Escaped(s[k]))]
    BY <1>2, <2>3, <2>4, <2>6, <2>7, RawPiece DEF R
  <2>9. R[i] \in Nat /\ R[i] >= x + 1
    BY <2>2, <2>3, <2>8, SMTT(30)
  <2> QED
    BY <2>1, <2>9 DEF T, i
<1>11. n \in T
  <2>1. 0..n \subseteq T
    <3> HIDE DEF T
    <3> QED
      BY <1>2, <1>9, <1>10, BoundedInduction
  <2> HIDE DEF T
  <2> QED
    BY <1>8, <2>1
<1>12. n - n = 0 /\ 2 + o[0] = 2
  BY <1>2
<1>13. R[2] >= n /\ R[2] \in Nat
  BY <1>11, <1>12
<1>14. n <= R[2]
  BY <1>2, <1>13
<1> QED
  BY <1>14 DEF n, R, t

\* The numbers below m have at most k digits.
Short(m, k) == \A n \in Nat : n < m => Digits(n) \in Seq(Char) /\ Len(Digits(n)) <= k

\* Ten times as many numbers have one digit more.
LEMMA DigitsLonger ==
  ASSUME NEW m \in Nat, NEW k \in Nat, Short(m, k)
  PROVE  Short(10 * m, k + 1)
<1> SUFFICES ASSUME NEW n \in Nat, n < 10 * m
             PROVE  Digits(n) \in Seq(Char) /\ Len(Digits(n)) <= k + 1
  BY DEF Short
<1>1. CASE n < 10
  <2>1. Digits(n) = <<Zero + n>>
    BY <1>1, DigitsSteps
  <2>2. Zero + n \in Char
    BY <1>1 DEF Zero, Char
  <2> QED
    BY <2>1, <2>2
<1>2. CASE ~(n < 10)
  <2> DEFINE q == n \div 10
  <2> DEFINE r == n % 10
  <2>1. q \in Nat /\ r \in 0..9 /\ q < m
    OBVIOUS
  <2>2. Digits(n) = Append(Digits(q), Zero + r)
    BY <1>2, DigitsSteps
  <2> HIDE DEF q, r
  <2>3. Digits(q) \in Seq(Char) /\ Len(Digits(q)) <= k
    BY <2>1 DEF Short
  <2>4. Zero + r \in Char
    BY <2>1 DEF Zero, Char
  <2> QED
    BY <2>2, <2>3, <2>4
<1> QED
  BY <1>1, <1>2

\* An int has at most ten digits.
LEMMA DigitsShort ==
  Short(100000 * 100000, 10)
<1>1. Short(10, 1)
  <2> SUFFICES ASSUME NEW n \in Nat, n < 10
               PROVE  Digits(n) \in Seq(Char) /\ Len(Digits(n)) <= 1
    BY DEF Short
  <2>1. Zero + n \in Char
    BY DEF Zero, Char
  <2>2. Digits(n) = <<Zero + n>>
    BY DigitsSteps
  <2> QED
    BY <2>1, <2>2
<1>2. Short(100, 2)
  <2>1. 10 * 10 = 100 /\ 1 + 1 = 2 /\ 10 \in Nat /\ 1 \in Nat
    OBVIOUS
  <2>2. Short(10 * 10, 1 + 1)
    BY <1>1, <2>1, DigitsLonger
  <2> QED
    BY <2>1, <2>2
<1>3. Short(1000, 3)
  <2>1. 10 * 100 = 1000 /\ 2 + 1 = 3 /\ 100 \in Nat /\ 2 \in Nat
    OBVIOUS
  <2>2. Short(10 * 100, 2 + 1)
    BY <1>2, <2>1, DigitsLonger
  <2> QED
    BY <2>1, <2>2
<1>4. Short(10000, 4)
  <2>1. 10 * 1000 = 10000 /\ 3 + 1 = 4 /\ 1000 \in Nat /\ 3 \in Nat
    OBVIOUS
  <2>2. Short(10 * 1000, 3 + 1)
    BY <1>3, <2>1, DigitsLonger
  <2> QED
    BY <2>1, <2>2
<1>5. Short(100000, 5)
  <2>1. 10 * 10000 = 100000 /\ 4 + 1 = 5 /\ 10000 \in Nat /\ 4 \in Nat
    OBVIOUS
  <2>2. Short(10 * 10000, 4 + 1)
    BY <1>4, <2>1, DigitsLonger
  <2> QED
    BY <2>1, <2>2
<1>6. Short(1000000, 6)
  <2>1. 10 * 100000 = 1000000 /\ 5 + 1 = 6 /\ 100000 \in Nat /\ 5 \in Nat
    OBVIOUS
  <2>2. Short(10 * 100000, 5 + 1)
    BY <1>5, <2>1, DigitsLonger
  <2> QED
    BY <2>1, <2>2
<1>7. Short(10000000, 7)
  <2>1. 10 * 1000000 = 10000000 /\ 6 + 1 = 7 /\ 1000000 \in Nat /\ 6 \in Nat
    OBVIOUS
  <2>2. Short(10 * 1000000, 6 + 1)
    BY <1>6, <2>1, DigitsLonger
  <2> QED
    BY <2>1, <2>2
<1>8. Short(100000000, 8)
  <2>1. 10 * 10000000 = 100000000 /\ 7 + 1 = 8 /\ 10000000 \in Nat /\ 7 \in Nat
    OBVIOUS
  <2>2. Short(10 * 10000000, 7 + 1)
    BY <1>7, <2>1, DigitsLonger
  <2> QED
    BY <2>1, <2>2
<1>9. Short(1000000000, 9)
  <2>1. 10 * 100000000 = 1000000000 /\ 8 + 1 = 9 /\ 100000000 \in Nat /\ 8 \in Nat
    OBVIOUS
  <2>2. Short(10 * 100000000, 8 + 1)
    BY <1>8, <2>1, DigitsLonger
  <2> QED
    BY <2>1, <2>2
<1> QED
  <2>1. 10 * 1000000000 = 100000 * 100000 /\ 9 + 1 = 10 /\ 1000000000 \in Nat /\ 9 \in Nat
    OBVIOUS
  <2>2. Short(10 * 1000000000, 9 + 1)
    BY <1>9, <2>1, DigitsLonger
  <2> QED
    BY <2>1, <2>2

\* A number fits what is allocated for it.
LEMMA NumberFits ==
  ASSUME NEW n \in CInt
  PROVE  IF n = 0 THEN Len(PrintNumber(n)) = 1 ELSE Len(PrintNumber(n)) < 21
<1>1. n \in Int /\ n <= IntMax /\ -n <= IntMax + 1 /\ IntMax \in Nat /\ IntMax < 100000 * 100000
  BY CIntegers
<1>2. \A k \in Nat : k <= IntMax + 1 => Digits(k) \in Seq(Char) /\ Len(Digits(k)) <= 10
  <2> DEFINE m == 100000 * 100000
  <2>1. IntMax + 1 < m
    BY SMT DEF IntMax
  <2>2. m \in Nat
    OBVIOUS
  <2>3. \A k \in Nat : k < m => Digits(k) \in Seq(Char) /\ Len(Digits(k)) <= 10
    BY DigitsShort DEF Short
  <2> HIDE DEF m
  <2> QED
    BY <1>1, <2>1, <2>2, <2>3
<1>3. CASE n = 0
  <2>1. PrintNumber(n) = <<Zero>>
    BY <1>3, DigitsShape DEF PrintNumber
  <2> QED
    BY <1>3, <2>1
<1>4. CASE n # 0 /\ n < 0
  <2>1. -n \in Nat
    BY <1>1, <1>4
  <2> DEFINE d == Digits(-n)
  <2>2. d \in Seq(Char) /\ Len(d) <= 10
    BY <1>1, <1>2, <2>1
  <2>3. PrintNumber(n) = <<Minus>> \o d
    BY <1>4 DEF PrintNumber
  <2>4. <<Minus>> \in Seq(Char) /\ Len(<<Minus>>) = 1
    BY DEF Minus, Char
  <2> HIDE DEF d
  <2>5. Len(<<Minus>> \o d) = 1 + Len(d) /\ Len(d) \in Nat
    BY <2>2, <2>4, ConcatPlaces
  <2> QED
    BY <1>4, <2>2, <2>3, <2>5
<1>5. CASE n # 0 /\ ~(n < 0)
  <2>1. n \in Nat /\ n <= IntMax + 1
    BY <1>1, <1>5
  <2>2. PrintNumber(n) = Digits(n)
    BY <1>5 DEF PrintNumber
  <2>3. Len(Digits(n)) <= 10 /\ Len(Digits(n)) \in Nat
    BY <1>2, <2>1
  <2> QED
    BY <1>5, <2>2, <2>3
<1> QED
  BY <1>3, <1>4, <1>5

\* A string fits what is allocated for it.
LEMMA StringFits ==
  ASSUME NEW s \in Seq(Char)
  PROVE  Len(PrintString(s)) < MallocString(s)
<1> DEFINE d == [k \in DOMAIN s |-> IF s[k] \in DOMAIN Letter \union {Quote, Backslash} THEN 2
                                  ELSE IF s[k] < Space THEN 6 ELSE 1]
<1> DEFINE n == Len(s)
<1>1. PICK o \in [0..n -> Nat] : /\ o[0] = 0
                                 /\ \A k \in 1..n : o[k] = o[k - 1] + Len(Escaped(s[k]))
                                 /\ Len(PrintString(s)) = o[n] + 2
  BY StringPlaces
<1>2. n \in Nat /\ DOMAIN s = 1..n
  OBVIOUS
<1>3. d \in Seq(Int) /\ Len(d) = n
  BY <1>2
<1>4. \A k \in 1..n : Len(Escaped(s[k])) = d[k] /\ d[k] \in Int
  <2> SUFFICES ASSUME NEW k \in 1..n
               PROVE  Len(Escaped(s[k])) = d[k] /\ d[k] \in Int
    OBVIOUS
  <2>1. s[k] \in Char
    BY <1>2
  <2>2. d[k] = IF s[k] \in DOMAIN Letter \union {Quote, Backslash} THEN 2
               ELSE IF s[k] < Space THEN 6 ELSE 1
    BY <1>2
  <2>3. Len(Escaped(s[k])) = IF s[k] \in DOMAIN Letter \union {Quote, Backslash} THEN 2
                             ELSE IF s[k] < Space THEN 6 ELSE 1
    BY <2>1, EscapedShape
  <2>4. d[k] \in Int
    BY <2>2
  <2> HIDE DEF d
  <2> QED
    BY <2>2, <2>3, <2>4
<1>5. MallocString(s) = 3 + Total(d)
  BY DEF MallocString
<1> HIDE DEF d
<1>6. \A k \in 1..n : o[k] - o[k - 1] <= d[k]
  <2> SUFFICES ASSUME NEW k \in 1..n
               PROVE  o[k] - o[k - 1] <= d[k]
    OBVIOUS
  <2>1. k \in 0..n /\ k - 1 \in 0..n
    BY <1>2
  <2>2. o[k] = o[k - 1] + d[k] /\ d[k] \in Int /\ o[k - 1] \in Nat /\ o[k] \in Nat
    BY <1>1, <1>4, <2>1
  <2> QED
    BY <2>2
<1>7. Total(d) \in Int /\ o[n] <= Total(d)
  <2>1. o \in [0..Len(d) -> Nat] /\ o[0] = 0 /\ \A k \in 1..Len(d) : o[k] - o[k - 1] <= d[k]
    BY <1>1, <1>3, <1>6
  <2>2. Total(d) \in Int /\ o[Len(d)] <= Total(d)
    BY <1>3, <2>1, TotalBound
  <2> QED
    BY <1>3, <2>2
<1>8. o[n] \in Nat
  BY <1>2
<1> QED
  BY <1>1, <1>5, <1>7, <1>8

\* What each of the texts u takes, with a comma and the blanks before it.
Taken(w, u, a) ==
    /\ w \in Seq(Int) /\ Len(w) = Len(u)
    /\ \A k \in 1..Len(u) : w[k] = Len(u[k]) + 2 + Len(a)

\* The length of a text in brackets, where w is what is taken by each thing in it.
Measured(s, w, lead, last, tail) ==
    /\ Total(w) \in Int
    /\ Len(s) = Total(w) + Len(lead) + Len(last) + Len(tail)

\* The length of a text in brackets: what is in them, a sign and a blank behind each of the
\* texts, and the blank space before it.
LEMMA BracketLength ==
  ASSUME NEW kind \in {"array", "object"}, NEW lead \in Seq(Blank), NEW a \in Seq(Blank),
         NEW u \in Seq(Seq(Char)), u # <<>>, NEW sp \in Blank, NEW last \in Seq(Blank),
         NEW tail \in Seq(Blank), NEW w, Taken(w, u, a)
  PROVE  Measured(Bracketed(kind, lead, a, u, sp, last, tail), w, lead, last, tail)
<1> DEFINE s == Bracketed(kind, lead, a, u, sp, last, tail)
<1> DEFINE n == Len(u)
<1> DEFINE x == Len(lead)
<1> DEFINE y == Len(a)
<1> DEFINE p == Len(last)
<1> DEFINE q == Len(tail)
<1>1. PICK g \in [1..n -> Nat], h \in [1..n -> Nat], z \in Nat :
        Lies(kind, lead, a, u, sp, last, tail, s, g, h, z)
  BY BracketPlaces
<1>2. n \in Nat /\ n >= 1 /\ \A k \in 1..n : u[k] \in Seq(Char) /\ Len(u[k]) \in Nat
  BY EmptySeq
<1>3. x \in Nat /\ y \in Nat /\ p \in Nat /\ q \in Nat
  OBVIOUS
<1>4. Len(lead \o a) = x + y /\ Len(<<sp>> \o a) = 1 + y /\ Len(last \o tail) = p + q
  <2>1. <<sp>> \in Seq(Blank) /\ Len(<<sp>>) = 1
    OBVIOUS
  <2> QED
    BY <2>1, ConcatPlaces
<1>5. w \in Seq(Int) /\ Len(w) = n /\ \A k \in 1..n : w[k] = Len(u[k]) + 2 + y
  BY DEF Taken
<1> HIDE DEF s, x, y, p, q
<1>6. Len(s) = z + 1 /\ g[1] = 1 + x + y /\ h[n] + (p + q) = z
  <2>1. Len(s) = z + 1 /\ g[1] = 1 + Len(lead \o a) /\ h[n] + Len(last \o tail) = z
    BY <1>1 DEF Lies
  <2> QED
    BY <1>3, <1>4, <2>1
<1>7. \A k \in 1..n : h[k] = g[k] + Len(u[k])
  BY <1>1 DEF Lies
<1>8. \A k \in 1..n - 1 : g[k + 1] = h[k] + 1 + (1 + y)
  BY <1>1, <1>4 DEF Lies
<1> HIDE DEF n
<1>9. 1 \in 1..n /\ n \in 1..n
  BY <1>2
<1>10. PICK v \in [0..n -> Int] :
         v[0] = 0 /\ (\A k \in 1..n : v[k] = v[k - 1] + w[k]) /\ Total(w) = v[n]
  BY <1>5, TotalSteps
<1>11. \A k \in 1..n :
         w[k] \in Int /\ v[k] \in Int /\ v[k - 1] \in Int /\ h[k] \in Nat /\ g[k] \in Nat
  <2> SUFFICES ASSUME NEW k \in 1..n
               PROVE  /\ w[k] \in Int /\ v[k] \in Int /\ v[k - 1] \in Int
                      /\ h[k] \in Nat /\ g[k] \in Nat
    OBVIOUS
  <2>1. k \in 0..n /\ k - 1 \in 0..n
    BY <1>2
  <2>2. w[k] \in Int
    BY <1>5
  <2>3. v[k] \in Int /\ v[k - 1] \in Int
    BY <2>1
  <2>4. h[k] \in Nat /\ g[k] \in Nat
    BY DEF n
  <2> QED
    BY <2>2, <2>3, <2>4
<1> DEFINE T == {k \in 0..n : k = 0 \/ h[k] + 1 = v[k] + x}
<1>12. 0 \in T
  BY <1>2
<1>13. ASSUME NEW k \in 0..n - 1, k \in T
       PROVE  k + 1 \in T
  <2> DEFINE e == k + 1
  <2>1. e \in 1..n /\ e \in 0..n /\ e - 1 = k
    BY <1>2
  <2>2. k = 0 \/ h[k] + 1 = v[k] + x
    BY <1>13
  <2>3. /\ h[e] = g[e] + Len(u[e]) /\ Len(u[e]) + 2 + y = w[e] /\ v[e] = v[k] + w[e]
        /\ w[e] \in Int /\ v[e] \in Int /\ v[k] \in Int /\ h[e] \in Nat /\ g[e] \in Nat
        /\ Len(u[e]) \in Nat
    BY <1>2, <1>5, <1>7, <1>10, <1>11, <2>1
  <2> DEFINE he == h[e]
  <2> DEFINE ge == g[e]
  <2> DEFINE we == w[e]
  <2> DEFINE ve == v[e]
  <2> DEFINE le == Len(u[e])
  <2>4. CASE k = 0
    <3>1. ge = 1 + x + y /\ v[k] = 0
      BY <1>6, <1>10, <2>4
    <3>2. he = ge + le /\ le + 2 + y = we /\ ve = 0 + we /\ we \in Int /\ le \in Nat /\ ge \in Nat
      BY <2>3, <3>1
    <3> HIDE DEF he, ge, we, ve, le, e
    <3>3. he + 1 = ve + x
      BY <1>3, <3>1, <3>2
    <3> QED
      BY <2>1, <3>3 DEF he, ve, e
  <2>5. CASE k # 0
    <3>1. k \in 1..n - 1 /\ k \in 1..n
      BY <1>2, <2>5
    <3> DEFINE hk == h[k]
    <3> DEFINE vk == v[k]
    <3>2. ge = hk + 1 + (1 + y) /\ hk + 1 = vk + x /\ hk \in Nat /\ vk \in Int
      BY <1>8, <1>11, <2>2, <2>5, <3>1
    <3>3. /\ he = ge + le /\ le + 2 + y = we /\ ve = vk + we
          /\ we \in Int /\ le \in Nat /\ ge \in Nat
      BY <2>3
    <3> HIDE DEF he, ge, we, ve, le, e, hk, vk
    <3>4. he + 1 = ve + x
      BY <1>3, <3>2, <3>3
    <3> QED
      BY <2>1, <3>4 DEF he, ve, e
  <2> QED
    BY <2>4, <2>5
<1>14. h[n] + 1 = v[n] + x
  <2>1. 0..n \subseteq T
    <3> HIDE DEF T
    <3> QED
      BY <1>2, <1>12, <1>13, BoundedInduction
  <2>2. n \in 0..n /\ n # 0
    BY <1>2
  <2>3. n \in T
    <3> HIDE DEF T
    <3> QED
      BY <2>1, <2>2
  <2> QED
    BY <2>2, <2>3
<1>15. h[n] \in Nat /\ v[n] \in Int
  BY <1>9, <1>11
<1> DEFINE t == Total(w)
<1> DEFINE r == Len(s)
<1> DEFINE hn == h[n]
<1>16. t \in Int /\ hn \in Nat /\ hn + 1 = t + x /\ r = z + 1 /\ hn + (p + q) = z
  BY <1>6, <1>10, <1>14, <1>15
<1> HIDE DEF t, r, hn
<1>17. r = t + x + p + q
  BY <1>3, <1>16
<1> QED
  BY <1>16, <1>17 DEF Measured, t, r, x, p, q, s

\* What is counted for each of the texts u is enough for it, a comma, and the blank before it.
Counted(w, u, a) ==
    /\ w \in Seq(Int) /\ Len(w) = Len(u)
    /\ \A k \in 1..Len(u) : Len(u[k]) + 2 + Len(a) <= w[k]

\* Where that much is counted for each, the sum is enough for the text in brackets.
LEMMA BracketFits ==
  ASSUME NEW kind \in {"array", "object"}, NEW lead \in Seq(Blank), NEW a \in Seq(Blank),
         NEW u \in Seq(Seq(Char)), u # <<>>, NEW sp \in Blank, NEW last \in Seq(Blank),
         NEW tail \in Seq(Blank), Len(lead) <= 1, NEW w, Counted(w, u, a)
  PROVE  /\ Total(w) \in Int
         /\ Len(Bracketed(kind, lead, a, u, sp, last, tail))
              <= Total(w) + Len(last) + Len(tail) + 1
<1> DEFINE n == Len(u)
<1> DEFINE y == Len(a)
<1> DEFINE e == [k \in 1..n |-> Len(u[k]) + 2 + y]
<1>1. n \in Nat /\ y \in Nat /\ \A k \in 1..n : Len(u[k]) \in Nat
  OBVIOUS
<1>2. w \in Seq(Int) /\ Len(w) = n /\ \A k \in 1..n : Len(u[k]) + 2 + y <= w[k]
  BY DEF Counted
<1>3. e \in Seq(Int) /\ Len(e) = n /\ \A k \in 1..n : e[k] = Len(u[k]) + 2 + y /\ e[k] \in Nat
  <2> HIDE DEF n, y
  <2>1. e \in [1..n -> Nat]
    BY <1>1
  <2> QED
    BY <1>1, <2>1
<1> HIDE DEF e
<1>22. Taken(e, u, a)
  BY <1>3 DEF Taken
<1>4. /\ Total(e) \in Int
      /\ Len(Bracketed(kind, lead, a, u, sp, last, tail))
           = Total(e) + Len(lead) + Len(last) + Len(tail)
  <2> HIDE DEF n, y
  <2>1. Measured(Bracketed(kind, lead, a, u, sp, last, tail), e, lead, last, tail)
    BY <1>22, BracketLength
  <2> QED
    BY <2>1 DEF Measured
<1>21. \A k \in 1..n : e[k] \in Nat /\ w[k] \in Int /\ e[k] <= w[k]
  <2> SUFFICES ASSUME NEW k \in 1..n
               PROVE  e[k] \in Nat /\ w[k] \in Int /\ e[k] <= w[k]
    OBVIOUS
  <2>1. w[k] \in Int
    BY <1>2
  <2>2. e[k] \in Nat /\ e[k] = Len(u[k]) + 2 + y
    BY <1>3
  <2>3. Len(u[k]) + 2 + y <= w[k]
    BY <1>2
  <2> DEFINE l == Len(u[k]) + 2 + y
  <2> HIDE DEF l
  <2>4. e[k] = l /\ l <= w[k]
    BY <2>2, <2>3 DEF l
  <2> QED
    BY <2>1, <2>2, <2>4
<1> HIDE DEF n, y
<1>5. PICK v \in [0..n -> Int] :
        v[0] = 0 /\ (\A k \in 1..n : v[k] = v[k - 1] + e[k]) /\ Total(e) = v[n]
  BY <1>3, TotalSteps
<1> DEFINE T == {k \in 0..n : v[k] \in Nat}
<1>6. 0 \in T
  BY <1>1, <1>5
<1>7. ASSUME NEW k \in 0..n - 1, k \in T
      PROVE  k + 1 \in T
  <2>1. k + 1 \in 1..n /\ k + 1 - 1 = k /\ k + 1 \in 0..n
    BY <1>1
  <2>2. v[k] \in Nat /\ e[k + 1] \in Nat /\ v[k + 1] = v[k] + e[k + 1]
    BY <1>3, <1>5, <1>7, <2>1
  <2> QED
    BY <2>1, <2>2
<1>8. 0..n \subseteq T
  <2> HIDE DEF T
  <2> QED
    BY <1>1, <1>6, <1>7, BoundedInduction
<1>9. v \in [0..n -> Nat]
  BY <1>5, <1>8
<1>10. \A k \in 1..n : v[k] - v[k - 1] <= w[k]
  <2> SUFFICES ASSUME NEW k \in 1..n
               PROVE  v[k] - v[k - 1] <= w[k]
    OBVIOUS
  <2>1. v[k] = v[k - 1] + e[k] /\ e[k] \in Nat /\ e[k] <= w[k] /\ k - 1 \in 0..n
    BY <1>1, <1>5, <1>21
  <2>2. v[k - 1] \in Nat /\ w[k] \in Int
    BY <1>9, <1>21, <2>1
  <2> QED
    BY <2>1, <2>2
<1>11. Total(w) \in Int /\ Total(e) <= Total(w)
  BY <1>2, <1>5, <1>9, <1>10, TotalBound
<1> DEFINE t == Total(e)
<1> DEFINE r == Total(w)
<1> DEFINE x == Len(lead)
<1> DEFINE p == Len(last)
<1> DEFINE q == Len(tail)
<1>12. t \in Int /\ r \in Int /\ t <= r /\ x \in Nat /\ x <= 1 /\ p \in Nat /\ q \in Nat
  BY <1>4, <1>11
<1>13. Len(Bracketed(kind, lead, a, u, sp, last, tail)) = t + x + p + q
  BY <1>4
<1> HIDE DEF t, r, x, p, q
<1>14. t + x + p + q <= r + p + q + 1
  BY <1>12
<1> QED
  BY <1>11, <1>13, <1>14 DEF r, p, q

\* The length of an empty array or object.
LEMMA EmptyLength ==
  ASSUME NEW kind \in {"array", "object"}, NEW b \in Seq(Blank)
  PROVE  Len(<<Opening(kind)>> \o b \o <<Closing(kind)>>) = Len(b) + 2
BY EmptyShape

\* An array fits what is allocated for it.
LEMMA ArrayFits ==
  ASSUME NEW inner, NEW c \in Seq(inner), NEW depth \in Nat, NEW value,
         \A d \in inner : value[d][depth + 1] \in Seq(Char)
  PROVE  Len(PrintArray(c, depth, value)) < MallocArray(c, depth, value)
<1>1. CASE c = <<>>
  <2>1. PrintArray(c, depth, value) = <<Opening("array")>> \o <<>> \o <<Closing("array")>>
    BY <1>1, EmptyText
  <2>2. <<>> \in Seq(Blank) /\ Len(<<>>) = 0
    OBVIOUS
  <2>3. Len(<<Opening("array")>> \o <<>> \o <<Closing("array")>>) = Len(<<>>) + 2
    BY <2>2, EmptyLength
  <2>4. MallocArray(c, depth, value) = 3
    BY <1>1 DEF MallocArray
  <2> QED
    BY <2>1, <2>2, <2>3, <2>4
<1>2. CASE c # <<>>
  <2> DEFINE u == ElementTexts(c, depth, value)
  <2> DEFINE w == [k \in DOMAIN c |-> Len(value[c[k]][depth + 1]) + 3]
  <2>1. u \in Seq(Seq(Char)) /\ Len(u) = Len(c) /\ PrintArray(c, depth, value) =
          Bracketed("array", <<>>, <<>>, u, Space, <<>>, <<>>)
    BY ArrayText
  <2>2. u # <<>> /\ <<>> \in Seq(Blank) /\ Space \in Blank /\ Len(<<>>) = 0
    BY <1>2, <2>1, EmptySeq DEF Blank
  <2>3. MallocArray(c, depth, value) = 5 + Total(w)
    BY <1>2 DEF MallocArray
  <2>4. Counted(w, u, <<>>)
    <3>1. Len(c) \in Nat /\ DOMAIN c = 1..Len(c)
      OBVIOUS
    <3>2. \A k \in 1..Len(c) : /\ value[c[k]][depth + 1] \in Seq(Char)
                               /\ Len(value[c[k]][depth + 1]) \in Nat
      OBVIOUS
    <3>3. w \in Seq(Int) /\ Len(w) = Len(c)
      BY <3>1, <3>2
    <3>4. \A k \in 1..Len(c) :
            u[k] = value[c[k]][depth + 1] /\ w[k] = Len(value[c[k]][depth + 1]) + 3
      BY <3>1 DEF ElementTexts
    <3> HIDE DEF u, w
    <3>5. ASSUME NEW k \in 1..Len(u)
          PROVE  Len(u[k]) + 2 + Len(<<>>) <= w[k]
      <4> DEFINE l == Len(u[k])
      <4> DEFINE wk == w[k]
      <4>1. l \in Nat /\ wk = l + 3
        BY <2>1, <3>2, <3>4
      <4> HIDE DEF l, wk
      <4>2. l + 2 + 0 <= wk
        BY <4>1
      <4> QED
        BY <2>2, <4>2 DEF l, wk
    <3> QED
      BY <2>1, <3>3, <3>5 DEF Counted
  <2> HIDE DEF u, w
  <2>5. /\ Total(w) \in Int
        /\ Len(Bracketed("array", <<>>, <<>>, u, Space, <<>>, <<>>))
             <= Total(w) + Len(<<>>) + Len(<<>>) + 1
    <3>1. Len(<<>>) <= 1
      BY <2>2
    <3> QED
      BY <2>1, <2>2, <2>4, <3>1, BracketFits
  <2>6. Len(PrintArray(c, depth, value)) \in Nat
    <3>1. Shaped(Bracketed("array", <<>>, <<>>, u, Space, <<>>, <<>>))
      BY <2>1, <2>2, BracketShape
    <3> QED
      BY <2>1, <3>1 DEF Shaped
  <2> DEFINE r == Len(PrintArray(c, depth, value))
  <2> DEFINE t == Total(w)
  <2>7. r \in Nat /\ t \in Int /\ r <= t + 0 + 0 + 1
    BY <2>1, <2>2, <2>5, <2>6
  <2> HIDE DEF r, t
  <2>8. r < 5 + t
    BY <2>7
  <2> QED
    BY <2>3, <2>8 DEF r, t
<1> QED
  BY <1>1, <1>2

\* What a member of an object takes of its text: its tabs, its name and value, and four signs.
MemberLength(m, depth, value) ==
    4 + (depth + 1) + Len(PrintString(m.name)) + Len(value[m.item][depth + 1])

\* The length of the text of an object with members (cJSON.c:626-646).
LEMMA ObjectLength ==
  ASSUME NEW inner, NEW c \in Seq(Members(inner)), c # <<>>, NEW depth \in Nat, NEW value,
         \A d \in inner : value[d][depth + 1] \in Seq(Char)
  PROVE  /\ Total([k \in DOMAIN c |-> MemberLength(c[k], depth, value)]) \in Int
         /\ Len(PrintObject(c, depth, value)) \in Nat
         /\ Len(PrintObject(c, depth, value))
              = 2 + depth + Total([k \in DOMAIN c |-> MemberLength(c[k], depth, value)])
         /\ [k \in DOMAIN c |-> MemberLength(c[k], depth, value)] \in Seq(Int)
<1> DEFINE u == MemberTexts(c, depth, value)
<1> DEFINE nl == <<NewLine>>
<1> DEFINE a == Tabs(depth + 1)
<1> DEFINE tail == Tabs(depth)
<1> DEFINE s == Bracketed("object", nl, a, u, NewLine, nl, tail)
<1> DEFINE w == [k \in DOMAIN c |-> MemberLength(c[k], depth, value)]
<1>1. u \in Seq(Seq(Char)) /\ Len(u) = Len(c) /\ PrintObject(c, depth, value) = s
  BY ObjectText, ZenonT(60)
<1>2. nl \in Seq(Blank) /\ Len(nl) = 1 /\ NewLine \in Blank
      /\ tail \in Seq(Blank) /\ Len(tail) = depth /\ a \in Seq(Blank) /\ Len(a) = depth + 1
  <2>1. depth + 1 \in Nat
    OBVIOUS
  <2>2. nl \in Seq(Blank) /\ Len(nl) = 1 /\ NewLine \in Blank
    <3>1. NewLine \in Blank
      BY DEF Blank
    <3> QED
      BY <3>1
  <2>3. \A n \in Nat : Tabs(n) \in Seq(Blank) /\ Len(Tabs(n)) = n
    BY TabsBlank
  <2>4. /\ Tabs(depth) \in Seq(Blank) /\ Len(Tabs(depth)) = depth
        /\ Tabs(depth + 1) \in Seq(Blank) /\ Len(Tabs(depth + 1)) = depth + 1
    BY <2>1, <2>3
  <2> QED
    BY <2>2, <2>4
<1>3. u # <<>>
  BY <1>1, EmptySeq
<1>4. Taken(w, u, a)
  <2> DEFINE ct == <<Colon, Tab>>
  <2> DEFINE ps(k) == PrintString(c[k].name)
  <2> DEFINE v(k) == value[c[k].item][depth + 1]
  <2>1. Len(c) \in Nat /\ DOMAIN c = 1..Len(c)
    OBVIOUS
  <2>2. \A k \in 1..Len(c) : c[k].name \in Seq(Char) /\ c[k].item \in inner
    <3>1. \A k \in 1..Len(c) : c[k] \in Members(inner)
      OBVIOUS
    <3>2. \A m \in Members(inner) : m.name \in Seq(Char) /\ m.item \in inner
      BY DEF Members
    <3> QED
      BY <3>1, <3>2
  <2>3. \A k \in 1..Len(c) : ps(k) \in Seq(Char) /\ v(k) \in Seq(Char)
    BY <2>2, StringPlaces
  <2>4. \A k \in 1..Len(c) : w[k] = 4 + (depth + 1) + Len(ps(k)) + Len(v(k))
    BY <2>1 DEF MemberLength
  <2>5. \A k \in 1..Len(c) : u[k] = ps(k) \o ct \o v(k)
    BY DEF MemberTexts
  <2>6. ct \in Seq(Char) /\ Len(ct) = 2
    BY Signs
  <2>7. w = [k \in 1..Len(c) |-> w[k]]
    BY <2>1
  <2> HIDE DEF ct, ps, v, w, u, a
  <2>8. \A k \in 1..Len(c) : Len(ps(k)) \in Nat /\ Len(v(k)) \in Nat
    BY <2>3
  <2>9. \A k \in 1..Len(c) : w[k] \in Int
    <3> SUFFICES ASSUME NEW k \in 1..Len(c)
                 PROVE  w[k] \in Int
      OBVIOUS
    <3> DEFINE x == Len(ps(k))
    <3> DEFINE y == Len(v(k))
    <3>1. x \in Nat /\ y \in Nat /\ w[k] = 4 + (depth + 1) + x + y
      BY <2>4, <2>8
    <3> HIDE DEF x, y
    <3> QED
      BY <3>1
  <2>10. w \in Seq(Int) /\ Len(w) = Len(c)
    BY <2>1, <2>7, <2>9
  <2>11. ASSUME NEW k \in 1..Len(u)
         PROVE  w[k] = Len(u[k]) + 2 + Len(a)
    <3> DEFINE x == ps(k)
    <3> DEFINE y == v(k)
    <3>1. x \in Seq(Char) /\ y \in Seq(Char) /\ u[k] = (x \o ct) \o y
          /\ w[k] = 4 + (depth + 1) + Len(x) + Len(y)
      BY <1>1, <2>3, <2>4, <2>5
    <3> HIDE DEF x, y
    <3>2. x \o ct \in Seq(Char) /\ Len(x \o ct) = Len(x) + 2 /\ Len(x) \in Nat
      <4>1. x \o ct \in Seq(Char) /\ Len(x \o ct) = Len(x) + Len(ct)
        BY <2>6, <3>1, TextConcat
      <4>2. Len(x) \in Nat
        BY <3>1
      <4> QED
        BY <2>6, <4>1, <4>2
    <3>3. Len(u[k]) = Len(x \o ct) + Len(y) /\ Len(y) \in Nat
      <4>1. Len((x \o ct) \o y) = Len(x \o ct) + Len(y)
        BY <3>1, <3>2, TextConcat
      <4> QED
        BY <3>1, <4>1
    <3> DEFINE lx == Len(x)
    <3> DEFINE ly == Len(y)
    <3> DEFINE lu == Len(u[k])
    <3> DEFINE wk == w[k]
    <3>4. lx \in Nat /\ ly \in Nat /\ lu = lx + 2 + ly /\ wk = 4 + (depth + 1) + lx + ly
      BY <3>1, <3>2, <3>3
    <3> HIDE DEF lx, ly, lu, wk
    <3>5. wk = lu + 2 + (depth + 1)
      BY <3>4, SMTT(30)
    <3> QED
      BY <1>2, <3>5 DEF lu, wk
  <2> QED
    BY <1>1, <2>10, <2>11 DEF Taken
<1> HIDE DEF u, w, nl, a, tail
<1>5. Measured(s, w, nl, nl, tail)
  BY <1>1, <1>2, <1>3, <1>4, BracketLength
<1>6. Len(s) \in Nat
  <2>1. Shaped(s)
    BY <1>1, <1>2, <1>3, BracketShape
  <2> QED
    BY <2>1 DEF Shaped
<1> DEFINE r == Len(s)
<1> DEFINE t == Total(w)
<1>7. r \in Nat /\ t \in Int /\ r = t + 1 + 1 + depth
  BY <1>2, <1>5, <1>6 DEF Measured
<1> HIDE DEF r, t
<1>8. r = 2 + depth + t
  BY <1>7
<1>9. w \in Seq(Int)
  BY <1>4 DEF Taken
<1> QED
  BY <1>1, <1>7, <1>8, <1>9 DEF r, t, w

\* An object fits what is allocated for it.
LEMMA ObjectFits ==
  ASSUME NEW inner, NEW c \in Seq(Members(inner)), NEW depth \in Nat, NEW value,
         \A d \in inner : value[d][depth + 1] \in Seq(Char)
  PROVE  Len(PrintObject(c, depth, value)) < MallocObject(c, depth, value)
<1>1. CASE c = <<>>
  <2>1. PICK b \in Seq(Blank) : Len(b) <= depth + 1 /\ PrintObject(c, depth, value) =
          <<Opening("object")>> \o b \o <<Closing("object")>>
    BY <1>1, EmptyText
  <2>3. Len(<<Opening("object")>> \o b \o <<Closing("object")>>) = Len(b) + 2
    BY EmptyLength
  <2>4. MallocObject(c, depth, value) = depth + 4
    BY <1>1 DEF MallocObject
  <2>5. Len(b) \in Nat
    OBVIOUS
  <2>6. Len(b) + 2 < depth + 4
    BY <2>1, <2>5
  <2> QED
    BY <2>1, <2>3, <2>4, <2>6
<1>2. CASE c # <<>>
  <2> DEFINE w == [k \in DOMAIN c |-> MemberLength(c[k], depth, value)]
  <2> DEFINE t == Total(w)
  <2> DEFINE r == Len(PrintObject(c, depth, value))
  <2>1. t \in Int /\ r \in Nat /\ r = 2 + depth + t
    BY <1>2, ObjectLength, ZenonT(60)
  <2>2. MallocObject(c, depth, value) = 7 + (depth + 1) + t
    BY <1>2 DEF MallocObject, MemberLength
  <2> HIDE DEF w, r, t
  <2>3. r < 7 + (depth + 1) + t
    BY <2>1
  <2> QED
    BY <2>2, <2>3 DEF r
<1> QED
  BY <1>1, <1>2

\* Each kind of item has its own buffer.
LEMMA MallocCases ==
  /\ \A n, depth, value : Malloc(Number(n), depth, value) = IF n = 0 THEN 2 ELSE 21
  /\ \A s, depth, value : Malloc(String(s), depth, value) = MallocString(s)
  /\ \A c, depth, value : Malloc(Array(c), depth, value) = MallocArray(c, depth, value)
  /\ \A c, depth, value : Malloc(Object(c), depth, value) = MallocObject(c, depth, value)
<1>1. \A n : Number(n).type = "number" /\ Number(n).num = n
  BY DEF Number
<1>2. \A s : String(s).type = "string" /\ String(s).text = s
  BY DEF String
<1>3. \A c : Array(c).type = "array" /\ Array(c).children = c
  BY DEF Array
<1>4. \A c : Object(c).type = "object" /\ Object(c).children = c
  BY DEF Object
<1>5. ASSUME NEW n, NEW depth, NEW value
      PROVE  Malloc(Number(n), depth, value) = IF n = 0 THEN 2 ELSE 21
  BY <1>1 DEF Malloc
<1>6. ASSUME NEW s, NEW depth, NEW value
      PROVE  Malloc(String(s), depth, value) = MallocString(s)
  BY <1>2 DEF Malloc
<1>7. ASSUME NEW c, NEW depth, NEW value
      PROVE  Malloc(Array(c), depth, value) = MallocArray(c, depth, value)
  BY <1>3 DEF Malloc
<1>8. ASSUME NEW c, NEW depth, NEW value
      PROVE  Malloc(Object(c), depth, value) = MallocObject(c, depth, value)
  BY <1>4 DEF Malloc
<1> QED
  BY <1>5, <1>6, <1>7, <1>8

\* What is in an item is nested less deeply, or is the name of a member.
LEMMA PartsCases ==
  ASSUME NEW inner, NEW item \in Items(inner), NEW part \in Parts(item)
  PROVE  part \in inner \/ (inner # {} /\ \E s \in Seq(Char) : part = String(s))
<1>1. ASSUME NEW n, item = Number(n)
      PROVE  FALSE
  BY <1>1 DEF Number, Parts
<1>2. ASSUME NEW s, item = String(s)
      PROVE  FALSE
  BY <1>2 DEF String, Parts
<1>3. ASSUME NEW c \in Seq(inner), item = Array(c)
      PROVE  part \in inner
  <2>1. Array(c).type = "array" /\ Array(c).children = c
    BY DEF Array
  <2>2. Parts(item) = {c[k] : k \in DOMAIN c}
    BY <1>3, <2>1 DEF Parts
  <2> QED
    BY <2>2
<1>4. ASSUME NEW c \in Seq(Members(inner)), item = Object(c)
      PROVE  part \in inner \/ (inner # {} /\ \E s \in Seq(Char) : part = String(s))
  <2>1. Object(c).type = "object" /\ Object(c).children = c
    BY DEF Object
  <2>2. Parts(item) = {c[k].item : k \in DOMAIN c} \union {String(c[k].name) : k \in DOMAIN c}
    BY <1>4, <2>1 DEF Parts
  <2>3. \A k \in DOMAIN c : c[k].name \in Seq(Char) /\ c[k].item \in inner
    <3>1. \A k \in DOMAIN c : c[k] \in Members(inner)
      OBVIOUS
    <3>2. \A m \in Members(inner) : m.name \in Seq(Char) /\ m.item \in inner
      BY DEF Members
    <3> QED
      BY <3>1, <3>2
  <2> QED
    BY <2>2, <2>3
<1> QED
  BY <1>1, <1>2, <1>3, <1>4, ItemCases

\* An item fits its buffer, and what is in it the buffers it is printed to.
LEMMA ItemFits ==
  ASSUME NEW inner, NEW value, \A c \in inner, d \in Nat : value[c][d] \in Seq(Char),
         NEW item \in Items(inner), NEW depth \in Nat
  PROVE  /\ Len(PrintItem(item, depth, value)) < Malloc(item, depth, value)
         /\ item.type = "string" => Len(item.text) <= RawLength(PrintString(item.text))[2]
<1>1. \A c \in inner : value[c][depth + 1] \in Seq(Char)
  <2>1. depth + 1 \in Nat
    OBVIOUS
  <2> QED
    BY <2>1
<1>2. ASSUME NEW n \in CInt, item = Number(n)
      PROVE  /\ Len(PrintItem(item, depth, value)) < Malloc(item, depth, value)
             /\ item.type # "string"
  <2>1. PrintItem(item, depth, value) = PrintNumber(n)
    BY <1>2, PrintCases
  <2>2. Malloc(item, depth, value) = IF n = 0 THEN 2 ELSE 21
    BY <1>2, MallocCases
  <2>3. item.type # "string"
    BY <1>2 DEF Number
  <2>4. IF n = 0 THEN Len(PrintNumber(n)) = 1 ELSE Len(PrintNumber(n)) < 21
    BY NumberFits
  <2>5. Len(PrintNumber(n)) < IF n = 0 THEN 2 ELSE 21
    <3> DEFINE r == Len(PrintNumber(n))
    <3>1. n = 0 => r = 1
      BY <2>4
    <3>2. n # 0 => r < 21
      BY <2>4
    <3> HIDE DEF r
    <3>3. CASE n = 0
      <4>1. r < 2
        BY <3>1, <3>3
      <4> QED
        BY <3>3, <4>1 DEF r
    <3>4. CASE n # 0
      BY <3>2, <3>4 DEF r
    <3> QED
      BY <3>3, <3>4
  <2> QED
    BY <2>1, <2>2, <2>3, <2>5
<1>3. ASSUME NEW s \in Seq(Char), item = String(s)
      PROVE  /\ Len(PrintItem(item, depth, value)) < Malloc(item, depth, value)
             /\ Len(item.text) <= RawLength(PrintString(item.text))[2]
  <2>1. PrintItem(item, depth, value) = PrintString(s)
    BY <1>3, PrintCases
  <2>2. Malloc(item, depth, value) = MallocString(s)
    BY <1>3, MallocCases
  <2>3. item.text = s
    BY <1>3 DEF String
  <2> QED
    BY <2>1, <2>2, <2>3, StringFits, RawString
<1>4. ASSUME NEW c \in Seq(inner), item = Array(c)
      PROVE  /\ Len(PrintItem(item, depth, value)) < Malloc(item, depth, value)
             /\ item.type # "string"
  <2>1. PrintItem(item, depth, value) = PrintArray(c, depth, value)
    BY <1>4, PrintCases
  <2>2. Malloc(item, depth, value) = MallocArray(c, depth, value)
    BY <1>4, MallocCases
  <2>3. item.type # "string"
    BY <1>4 DEF Array
  <2> QED
    BY <1>1, <2>1, <2>2, <2>3, ArrayFits
<1>5. ASSUME NEW c \in Seq(Members(inner)), item = Object(c)
      PROVE  /\ Len(PrintItem(item, depth, value)) < Malloc(item, depth, value)
             /\ item.type # "string"
  <2>1. PrintItem(item, depth, value) = PrintObject(c, depth, value)
    BY <1>5, PrintCases
  <2>2. Malloc(item, depth, value) = MallocObject(c, depth, value)
    BY <1>5, MallocCases
  <2>3. item.type # "string"
    BY <1>5 DEF Object
  <2> QED
    BY <1>1, <2>1, <2>2, <2>3, ObjectFits
<1> QED
  BY <1>2, <1>3, <1>4, <1>5, ItemCases

\* Every item fits its buffers, by induction on how deep it is nested.
LEMMA NestedFits ==
  \A n \in Nat : \A item \in Nested[n], depth \in Nat : Fits[n][item][depth]
<1> DEFINE S == {n \in Nat : \A item \in Nested[n], depth \in Nat : Fits[n][item][depth]}
<1>1. 0 \in S
  BY NestedSteps
<1>2. ASSUME NEW n \in Nat, n \in S
      PROVE  n + 1 \in S
  <2> SUFFICES ASSUME NEW item \in Nested[n + 1], NEW depth \in Nat
               PROVE  Fits[n + 1][item][depth]
    OBVIOUS
  <2>1. item \in Items(Nested[n])
    BY NestedSteps
  <2>2. Fits[n + 1][item][depth] = FitsItem(item, depth, Printed[n], Fits[n])
    <3>1. n + 1 - 1 = n
      OBVIOUS
    <3>2. Fits[n + 1] = [i \in Nested[n + 1] |-> [d \in Nat |->
                           FitsItem(i, d, Printed[n + 1 - 1], Fits[n])]]
      BY FitsSteps
    <3>3. Fits[n + 1][item] = [d \in Nat |-> FitsItem(item, d, Printed[n + 1 - 1], Fits[n])]
      BY <3>2
    <3> QED
      BY <3>1, <3>3
  <2>3. \A c \in Nested[n], d \in Nat : Printed[n][c][d] \in Seq(Char)
    BY TextShape DEF Shaped
  <2>4. \A part \in Nested[n] : Fits[n][part][depth + 1]
    <3>1. depth + 1 \in Nat
      OBVIOUS
    <3> QED
      BY <1>2, <3>1
  <2> HIDE DEF S
  <2>5. \A part \in Parts(item) : part \in Nested[n]
    <3> SUFFICES ASSUME NEW part \in Parts(item)
                 PROVE  part \in Nested[n]
      OBVIOUS
    <3>1. part \in Nested[n] \/ (Nested[n] # {} /\ \E s \in Seq(Char) : part = String(s))
      BY <2>1, PartsCases
    <3>2. ASSUME Nested[n] # {}, NEW s \in Seq(Char), part = String(s)
          PROVE  part \in Nested[n]
      <4> DEFINE m == n - 1
      <4>1. m \in Nat /\ m + 1 = n
        BY <3>2, NestedSteps
      <4>2. Nested[m + 1] = Items(Nested[m])
        BY <4>1, NestedSteps
      <4>3. String(s) \in Items(Nested[m])
        BY DEF String, Items
      <4> QED
        BY <3>2, <4>1, <4>2, <4>3
    <3> QED
      BY <3>1, <3>2
  <2>6. FitsItem(item, depth, Printed[n], Fits[n])
    BY <2>1, <2>3, <2>4, <2>5, ItemFits DEF FitsItem
  <2> QED
    BY <2>2, <2>6
<1> HIDE DEF S
<1>3. Nat \subseteq S
  BY <1>1, <1>2, Induction
<1> QED
  BY <1>3 DEF S

-----------------------------------------------------------------------------
(* The theorems.                                                           *)

\* Every item that is printed, however deep it is nested and at every depth, is read back: the
\* text says what it was printed from, escapes, numbers and brackets (cJSON.c:147-307, 406-658).
THEOREM PrintedReadsBack ==
  \A n \in Nat : \A item \in Nested[n], depth \in Nat :
    Parse(Printed[n][item][depth]) = Parsed(Len(Printed[n][item][depth]) + 1, item)
<1> SUFFICES ASSUME NEW n \in Nat, NEW item \in Nested[n], NEW depth \in Nat
             PROVE  Parse(Printed[n][item][depth]) = Parsed(Len(Printed[n][item][depth]) + 1, item)
  OBVIOUS
<1> DEFINE s == Printed[n][item][depth]
<1>1. s \in Seq(Char) /\ Len(s) \in Nat
  <2>1. Shaped(s)
    BY TextShape
  <2> HIDE DEF s
  <2> QED
    BY <2>1 DEF Shaped
<1>2. StandsAt(s, 1, s) /\ Whole(s, 1, s) /\ At(s, 1 + Len(s)) = End /\ 1 + Len(s) = Len(s) + 1
  <2> HIDE DEF s
  <2>1. StandsAt(s, 1, s)
    BY <1>1 DEF StandsAt
  <2>2. Whole(s, 1, s)
    BY <1>1 DEF Whole
  <2>3. At(s, 1 + Len(s)) = End
    BY <1>1 DEF At
  <2> QED
    BY <1>1, <2>1, <2>2, <2>3
<1>3. End \notin Digit
  BY Signs
<1>4. Parse(s) = Parsed(1 + Len(s), item)
  BY <1>1, <1>2, <1>3, ParseRead
<1> QED
  BY <1>2, <1>4

\* An array or an object is read back whatever text follows it (cJSON.c:406-431, 514-547).
THEOREM PrintedReadsFirst ==
  \A n \in Nat : \A item \in Nested[n], depth \in Nat, rest \in Seq(Char) :
    item.type \in {"array", "object"} =>
      Parse(Printed[n][item][depth] \o rest) = Parsed(Len(Printed[n][item][depth]) + 1, item)
<1> SUFFICES ASSUME NEW n \in Nat, NEW item \in Nested[n], NEW depth \in Nat,
                    NEW rest \in Seq(Char), item.type \in {"array", "object"}
             PROVE  Parse(Printed[n][item][depth] \o rest)
                      = Parsed(Len(Printed[n][item][depth]) + 1, item)
  OBVIOUS
<1> DEFINE s == Printed[n][item][depth]
<1> DEFINE t == s \o rest
<1>1. s \in Seq(Char) /\ Len(s) \in Nat
  <2>1. Shaped(s)
    BY TextShape
  <2> HIDE DEF s
  <2> QED
    BY <2>1 DEF Shaped
<1>2. StandsAt(t, 1, s) /\ Whole(t, 1, s) /\ t \in Seq(Char) /\ 1 + Len(s) = Len(s) + 1
  <2> HIDE DEF s
  <2>1. t \in Seq(Char) /\ Len(t) = Len(s) + Len(rest) /\ Len(rest) \in Nat
    BY <1>1, ConcatPlaces
  <2>2. \A k \in 1..Len(s) : t[k] = s[k]
    BY <1>1, ConcatPlaces
  <2> HIDE DEF t
  <2>3. StandsAt(t, 1, s)
    BY <1>1, <2>1, <2>2 DEF StandsAt
  <2>4. Whole(t, 1, s)
    BY <1>1, <2>1 DEF Whole
  <2> QED
    BY <1>1, <2>1, <2>3, <2>4
<1> HIDE DEF t
<1>3. Parse(t) = Parsed(1 + Len(s), item)
  BY <1>2, ParseRead
<1> QED
  BY <1>2, <1>3 DEF t

\* The text of an array or an object that is cut anywhere is refused (cJSON.c:429, 545).
THEOREM PrintedCutRefused ==
  \A n \in Nat : \A item \in Nested[n], depth \in Nat :
    item.type \in {"array", "object"} =>
      \A k \in 0..Len(Printed[n][item][depth]) - 1 :
        Parse(SubSeq(Printed[n][item][depth], 1, k)).next = 0
<1> SUFFICES ASSUME NEW n \in Nat, NEW item \in Nested[n], NEW depth \in Nat,
                    item.type \in {"array", "object"},
                    NEW k \in 0..Len(Printed[n][item][depth]) - 1
             PROVE  Parse(SubSeq(Printed[n][item][depth], 1, k)).next = 0
  OBVIOUS
<1> DEFINE s == Printed[n][item][depth]
<1> DEFINE t == SubSeq(s, 1, k)
<1>1. s \in Seq(Char) /\ Len(s) \in Nat
  <2>1. Shaped(s)
    BY TextShape
  <2> HIDE DEF s
  <2> QED
    BY <2>1 DEF Shaped
<1>2. StandsAt(t, 1, s) /\ ~Whole(t, 1, s) /\ t \in Seq(Char)
  <2>0. k \in 0..Len(s) - 1
    OBVIOUS
  <2> HIDE DEF s
  <2>1. t \in Seq(Char) /\ Len(t) = k /\ \A j \in 1..k : t[j] = s[j]
    BY <1>1, <2>0
  <2> HIDE DEF t
  <2>2. StandsAt(t, 1, s)
    BY <1>1, <2>0, <2>1 DEF StandsAt
  <2>3. ~Whole(t, 1, s)
    BY <1>1, <2>0, <2>1 DEF Whole
  <2> QED
    BY <2>1, <2>2, <2>3
<1> HIDE DEF t
<1>3. Parse(t).next = 0
  BY <1>2, ParseRead
<1> QED
  BY <1>3 DEF t

\* Every item fits the buffers it and what is in it are printed to, and the strings in it those
\* they are read back to (cJSON.c:199, 278, 481, 619-624).
THEOREM PrintedFits ==
  \A n \in Nat : \A item \in Nested[n], depth \in Nat : Fits[n][item][depth]
BY NestedFits
=============================================================================
