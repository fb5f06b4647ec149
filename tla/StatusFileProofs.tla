-------------------------- MODULE StatusFileProofs --------------------------
(***************************************************************************)
(* For any devices, values, read limit and results of torn writes: SInv is *)
(* inductive, the properties of StatusFile follow from it, and the file    *)
(* implements DurableStatus.  The lemmas before it are about cJSON objects *)
(* as sequences of members.                                                *)
(***************************************************************************)
EXTENDS StatusFile, SequenceTheorems, FiniteSetTheorems, WellFoundedInduction, TLAPS

Steps == INSTANCE CJsonSteps

Keys == Sids \union {TestSid}

\* A set of numbers that is not empty has a least one.
LEMMA Least ==
    ASSUME NEW T \in SUBSET Nat, T # {}
    PROVE  \E x \in T : \A y \in T : x <= y
<1> DEFINE R == OpToRel(<, Nat)
<1>1. IsWellFoundedOn(R, Nat) BY NatLessThanWellFounded
<1> HIDE DEF R
<1>2. PICK x \in T : \A y \in T : ~(<<y, x>> \in R) BY <1>1, WFMin
<1>3. \A y \in T : <<y, x>> \notin R => x <= y BY DEF R, OpToRel
<1> QED BY <1>2, <1>3

\* Position is the first place of a key, and 0 if there is none.
LEMMA PositionFacts ==
    ASSUME NEW o \in Seq(Member), NEW k
    PROVE  /\ Position(o, k) \in 0..Len(o)
           /\ Position(o, k) = 0 => \A i \in 1..Len(o) : o[i].key # k
           /\ Position(o, k) # 0 =>
                /\ o[Position(o, k)].key = k
                /\ \A i \in 1..Position(o, k) - 1 : o[i].key # k
<1> DEFINE I == {i \in 1..Len(o) : o[i].key = k}
<1>1. Position(o, k) = IF I # {} THEN Min(I) ELSE 0 BY DEF Position, SelectInSeq
<1>2. I \in SUBSET Nat /\ Len(o) \in Nat OBVIOUS
<1>3. CASE I = {} BY <1>1, <1>2, <1>3
<1>4. CASE I # {}
  <2>1. Position(o, k) = Min(I) BY <1>1, <1>4
  <2> DEFINE p == Position(o, k)
  <2> HIDE DEF I
  <2>2. p \in I /\ \A y \in I : p <= y BY <1>2, <1>4, <2>1, Least DEF Min
  <2> HIDE DEF p
  <2>3. p \in 1..Len(o) /\ o[p].key = k BY <2>2 DEF I
  <2>4. ASSUME NEW i \in 1..p - 1, o[i].key = k PROVE FALSE
    <3>1. i \in 1..Len(o) BY <1>2, <2>3
    <3>2. i \in I BY <3>1, <2>4 DEF I
    <3> QED BY <3>2, <2>2, <2>3, <1>2
  <2>5. p # 0 /\ p \in 0..Len(o) BY <2>3, <1>2
  <2> QED BY <2>3, <2>4, <2>5 DEF p
<1> QED BY <1>3, <1>4

\* It is the only such place.
LEMMA PositionIs ==
    ASSUME NEW o \in Seq(Member), NEW k, NEW p \in 1..Len(o), o[p].key = k,
           \A i \in 1..p - 1 : o[i].key # k
    PROVE  Position(o, k) = p /\ Has(o, k)
<1> DEFINE q == Position(o, k)
<1>1. Len(o) \in Nat OBVIOUS
<1>2. q \in 0..Len(o) /\ q # 0 /\ o[q].key = k /\ \A i \in 1..q - 1 : o[i].key # k
  BY PositionFacts
<1> HIDE DEF q
<1>3. ~(q < p) /\ ~(p < q) BY <1>1, <1>2
<1>4. q = p BY <1>1, <1>2, <1>3
<1> QED BY <1>2, <1>4 DEF q, Has

\* A key is absent when no member has it.
LEMMA AbsentIs ==
    ASSUME NEW o \in Seq(Member), NEW k, \A i \in 1..Len(o) : o[i].key # k
    PROVE  ~Has(o, k)
BY PositionFacts DEF Has

\* A member that is found has a value.
LEMMA GetItemFacts ==
    ASSUME NEW o \in Seq(Member), NEW k, Has(o, k)
    PROVE  GetItem(o, k) \in Values
<1>1. Position(o, k) \in 1..Len(o) BY PositionFacts DEF Has
<1>2. o[Position(o, k)] \in Member BY <1>1
<1> QED BY <1>2 DEF GetItem, Member

\* AddItem appends, and hides nothing.
LEMMA AddFacts ==
    ASSUME NEW o \in Seq(Member), NEW k \in Keys, NEW v \in Values
    PROVE  /\ AddItem(o, k, v) \in Seq(Member)
           /\ \A j : Has(o, j) => Has(AddItem(o, k, v), j)
                               /\ GetItem(AddItem(o, k, v), j) = GetItem(o, j)
           /\ \A j : j # k /\ ~Has(o, j) => ~Has(AddItem(o, k, v), j)
           /\ Has(AddItem(o, k, v), k)
           /\ ~Has(o, k) => GetItem(AddItem(o, k, v), k) = v
<1> DEFINE e == [key |-> k, val |-> v]
<1> DEFINE a == AddItem(o, k, v)
<1>1. e \in Member BY DEF Member, Keys
<1>2. /\ a \in Seq(Member) /\ Len(o) \in Nat /\ Len(a) = Len(o) + 1
      /\ \A i \in 1..Len(o) : a[i] = o[i]
      /\ a[Len(o) + 1] = e
  BY <1>1, AppendProperties DEF AddItem
<1>3. e.key = k /\ e.val = v OBVIOUS
<1> HIDE DEF a, e
<1>4. ASSUME NEW j, Has(o, j) PROVE Has(a, j) /\ GetItem(a, j) = GetItem(o, j)
  <2> DEFINE p == Position(o, j)
  <2>1. p \in 1..Len(o) /\ o[p].key = j /\ \A i \in 1..p - 1 : o[i].key # j
    BY <1>4, PositionFacts DEF Has
  <2> HIDE DEF p
  <2>2. p \in 1..Len(a) /\ a[p] = o[p] /\ \A i \in 1..p - 1 : a[i] = o[i] BY <1>2, <2>1
  <2>3. Position(a, j) = p /\ Has(a, j) BY <1>2, <2>1, <2>2, PositionIs
  <2> QED BY <2>2, <2>3 DEF GetItem, p
<1>5. ASSUME NEW j, j # k, ~Has(o, j) PROVE ~Has(a, j)
  <2>1. \A i \in 1..Len(o) : o[i].key # j BY <1>5, PositionFacts DEF Has
  <2>2. \A i \in 1..Len(a) : i \in 1..Len(o) \/ i = Len(o) + 1 BY <1>2
  <2>3. \A i \in 1..Len(a) : a[i].key # j BY <1>2, <1>3, <1>5, <2>1, <2>2
  <2> QED BY <1>2, <2>3, AbsentIs
<1>6. ASSUME ~Has(o, k) PROVE Has(a, k) /\ GetItem(a, k) = v
  <2>1. \A i \in 1..Len(o) : o[i].key # k BY <1>6, PositionFacts DEF Has
  <2>2. Len(o) + 1 \in 1..Len(a) /\ \A i \in 1..(Len(o) + 1) - 1 : i \in 1..Len(o) BY <1>2
  <2>3. Position(a, k) = Len(o) + 1 /\ Has(a, k) BY <1>2, <1>3, <2>1, <2>2, PositionIs
  <2> QED BY <1>2, <1>3, <2>3 DEF GetItem
<1>7. Has(a, k) BY <1>4, <1>6
<1> QED BY <1>2, <1>4, <1>5, <1>6, <1>7 DEF a

\* RemoveAt closes the gap.
LEMMA RemoveAtFacts ==
    ASSUME NEW o \in Seq(Member), NEW p \in 1..Len(o)
    PROVE  /\ RemoveAt(o, p) \in Seq(Member) /\ Len(RemoveAt(o, p)) = Len(o) - 1
           /\ \A i \in 1..p - 1 : RemoveAt(o, p)[i] = o[i]
           /\ \A i \in p..Len(o) - 1 : RemoveAt(o, p)[i] = o[i + 1]
<1> DEFINE a == SubSeq(o, 1, p - 1)
<1> DEFINE b == SubSeq(o, p + 1, Len(o))
<1>0. Len(o) \in Nat /\ p \in Int OBVIOUS
<1>1. a \in Seq(Member) /\ Len(a) = p - 1 /\ \A i \in 1..p - 1 : a[i] = o[i]
  <2>1. \A i \in 1..p - 1 : o[i] \in Member BY <1>0
  <2> QED BY <1>0, <2>1, SubSeqProperties
<1>2. b \in Seq(Member) /\ Len(b) = Len(o) - p /\ \A i \in 1..Len(o) - p : b[i] = o[p + i]
  <2>1. \A i \in p + 1..Len(o) : o[i] \in Member BY <1>0
  <2> QED BY <1>0, <2>1, SubSeqProperties
<1> HIDE DEF a, b
<1>3. /\ a \o b \in Seq(Member) /\ Len(a \o b) = Len(a) + Len(b)
      /\ \A i \in 1..Len(a) + Len(b) : (a \o b)[i] = IF i <= Len(a) THEN a[i] ELSE b[i - Len(a)]
  BY <1>1, <1>2, ConcatProperties
<1>4. \A i \in 1..p - 1 : (a \o b)[i] = o[i] BY <1>0, <1>1, <1>2, <1>3
<1>5. ASSUME NEW i \in p..Len(o) - 1 PROVE (a \o b)[i] = o[i + 1]
  <2>1. i \in 1..Len(a) + Len(b) /\ ~(i <= Len(a)) /\ i - Len(a) = i - p + 1
    BY <1>0, <1>1, <1>2
  <2>2. i - p + 1 \in 1..Len(o) - p /\ p + (i - p + 1) = i + 1 BY <1>0
  <2> QED BY <1>2, <1>3, <2>1, <2>2
<1>6. Len(a) + Len(b) = Len(o) - 1 BY <1>0, <1>1, <1>2
<1> QED BY <1>3, <1>4, <1>5, <1>6 DEF a, b, RemoveAt

\* DeleteItem takes away the first member of a key, and of no other.
LEMMA DeleteFacts ==
    ASSUME NEW o \in Seq(Member), NEW k
    PROVE  /\ DeleteItem(o, k) \in Seq(Member)
           /\ \A j : j # k /\ Has(o, j) => Has(DeleteItem(o, k), j)
                               /\ GetItem(DeleteItem(o, k), j) = GetItem(o, j)
           /\ \A j : j # k /\ ~Has(o, j) => ~Has(DeleteItem(o, k), j)
           /\ Unique(o) => ~Has(DeleteItem(o, k), k)
<1> DEFINE d == DeleteItem(o, k)
<1> DEFINE p == Position(o, k)
<1>1. CASE ~Has(o, k)
  <2>1. d = o BY <1>1 DEF DeleteItem
  <2> QED BY <1>1, <2>1
<1>2. CASE Has(o, k)
  <2>1. p \in 1..Len(o) /\ o[p].key = k BY <1>2, PositionFacts DEF Has
  <2>2. /\ Len(o) \in Nat /\ d \in Seq(Member) /\ Len(d) = Len(o) - 1
        /\ \A i \in 1..p - 1 : d[i] = o[i]
        /\ \A i \in p..Len(o) - 1 : d[i] = o[i + 1]
    <3>1. d = RemoveAt(o, p) BY <1>2 DEF DeleteItem
    <3> HIDE DEF d, p
    <3>2. Len(o) \in Nat OBVIOUS
    <3>3. /\ RemoveAt(o, p) \in Seq(Member) /\ Len(RemoveAt(o, p)) = Len(o) - 1
          /\ \A i \in 1..p - 1 : RemoveAt(o, p)[i] = o[i]
          /\ \A i \in p..Len(o) - 1 : RemoveAt(o, p)[i] = o[i + 1]
      BY <2>1, RemoveAtFacts
    <3> QED BY <3>1, <3>2, <3>3
  <2> HIDE DEF d, p
  <2>3. ASSUME NEW j, j # k, Has(o, j) PROVE Has(d, j) /\ GetItem(d, j) = GetItem(o, j)
    <3> DEFINE q == Position(o, j)
    <3>1. q \in 1..Len(o) /\ o[q].key = j /\ \A i \in 1..q - 1 : o[i].key # j
      BY <2>3, PositionFacts DEF Has
    <3>2. GetItem(o, j) = o[q].val BY DEF GetItem
    <3> HIDE DEF q
    <3>3. CASE q < p
      <4>1. q \in 1..Len(d) /\ d[q] = o[q] /\ \A i \in 1..q - 1 : d[i] = o[i]
        BY <2>1, <2>2, <3>1, <3>3
      <4>2. Position(d, j) = q /\ Has(d, j) BY <2>2, <3>1, <4>1, PositionIs
      <4> QED BY <3>2, <4>1, <4>2 DEF GetItem
    <3>4. CASE q > p
      <4>1. q - 1 \in 1..Len(d) /\ d[q - 1] = o[q] BY <2>1, <2>2, <3>1, <3>4
      <4>2. ASSUME NEW i \in 1..(q - 1) - 1 PROVE d[i].key # j
        <5>1. CASE i < p BY <2>1, <2>2, <3>1, <5>1
        <5>2. CASE i >= p
          <6>1. i \in p..Len(o) - 1 /\ i + 1 \in 1..q - 1 BY <2>1, <2>2, <3>1, <5>2
          <6> QED BY <2>2, <3>1, <6>1
        <5> QED BY <2>1, <5>1, <5>2
      <4>3. Position(d, j) = q - 1 /\ Has(d, j) BY <2>2, <3>1, <4>1, <4>2, PositionIs
      <4> QED BY <3>2, <4>1, <4>3 DEF GetItem
    <3>5. q # p BY <2>1, <2>3, <3>1
    <3> QED BY <2>1, <3>1, <3>3, <3>4, <3>5
  <2>4. \A i \in 1..Len(d) : \E n \in 1..Len(o) : n # p /\ d[i] = o[n]
    <3> SUFFICES ASSUME NEW i \in 1..Len(d) PROVE \E n \in 1..Len(o) : n # p /\ d[i] = o[n]
      OBVIOUS
    <3>1. CASE i < p
      <4>1. i \in 1..Len(o) /\ i # p /\ d[i] = o[i] BY <2>1, <2>2, <3>1
      <4> QED BY <4>1
    <3>2. CASE i >= p
      <4>1. i + 1 \in 1..Len(o) /\ i + 1 # p /\ d[i] = o[i + 1] BY <2>1, <2>2, <3>2
      <4> QED BY <4>1
    <3> QED BY <2>1, <2>2, <3>1, <3>2
  <2>5. ASSUME NEW j, j # k, ~Has(o, j) PROVE ~Has(d, j)
    <3>1. \A n \in 1..Len(o) : o[n].key # j BY <2>5, PositionFacts DEF Has
    <3> QED BY <2>2, <2>4, <3>1, AbsentIs
  <2>6. ASSUME Unique(o) PROVE ~Has(d, k)
    <3>1. \A n \in 1..Len(o) : n # p => o[n].key # k BY <2>1, <2>6 DEF Unique
    <3> QED BY <2>2, <2>4, <3>1, AbsentIs
  <2> QED BY <2>2, <2>3, <2>5, <2>6 DEF d
<1> QED BY <1>1, <1>2

\* Changing a member leaves at most one member for each device ...
LEMMA StaysUnique ==
    ASSUME NEW o \in Seq(Member), NEW k \in Keys, NEW v \in Values, Unique(o)
    PROVE  Unique(AddItem(DeleteItem(o, k), k, v))
<1> DEFINE d == DeleteItem(o, k)
<1>1. d \in Seq(Member) /\ ~Has(d, k) BY DeleteFacts
<1>2. Unique(d)
  <2>1. CASE ~Has(o, k) BY <2>1 DEF DeleteItem
  <2>2. CASE Has(o, k)
    <3> DEFINE p == Position(o, k)
    <3>1. p \in 1..Len(o) BY <2>2, PositionFacts DEF Has
    <3>2. d = RemoveAt(o, p) BY <2>2 DEF DeleteItem
    <3> HIDE DEF p, d
    <3>3. /\ Len(o) \in Nat /\ Len(d) = Len(o) - 1
          /\ \A i \in 1..p - 1 : d[i] = o[i]
          /\ \A i \in p..Len(o) - 1 : d[i] = o[i + 1]
      BY <3>1, <3>2, RemoveAtFacts
    <3> DEFINE At(i) == IF i < p THEN i ELSE i + 1
    <3>4. \A i \in 1..Len(d) : At(i) \in 1..Len(o) /\ d[i] = o[At(i)] BY <3>1, <3>3
    <3>5. \A i, j \in 1..Len(d) : At(i) = At(j) => i = j BY <3>1, <3>3
    <3> HIDE DEF At
    <3>6. DOMAIN d = 1..Len(d) /\ DOMAIN o = 1..Len(o) BY <1>1
    <3> QED BY <3>4, <3>5, <3>6 DEF Unique
  <2> QED BY <2>1, <2>2
<1> HIDE DEF d
<1>3. \A i \in 1..Len(d) : d[i].key # k BY <1>1, PositionFacts DEF Has
<1> DEFINE a == AddItem(d, k, v)
<1>4. /\ Len(d) \in Nat /\ Len(a) = Len(d) + 1 /\ a \in Seq(Member)
      /\ \A i \in 1..Len(d) : a[i] = d[i]
      /\ a[Len(d) + 1].key = k
  <2>1. [key |-> k, val |-> v] \in Member BY DEF Member, Keys
  <2> QED BY <1>1, <2>1, AppendProperties DEF AddItem
<1> HIDE DEF a
<1>5. DOMAIN d = 1..Len(d) /\ DOMAIN a = 1..Len(a) BY <1>1, <1>4
<1>6. ASSUME NEW i \in 1..Len(a), NEW j \in 1..Len(a), a[i].key = a[j].key PROVE i = j
  <2>1. (i \in 1..Len(d) \/ i = Len(d) + 1) /\ (j \in 1..Len(d) \/ j = Len(d) + 1) BY <1>4
  <2> QED BY <1>2, <1>3, <1>4, <1>5, <1>6, <2>1 DEF Unique
<1> QED BY <1>5, <1>6 DEF Unique, a, d

\* ... and if one is left for each afterwards, so it was before.
LEMMA WasUnique ==
    ASSUME NEW o \in Seq(Member), NEW k \in Keys, NEW v \in Values,
           Unique(AddItem(DeleteItem(o, k), k, v))
    PROVE  Unique(o)
<1> DEFINE d == DeleteItem(o, k)
<1> DEFINE a == AddItem(d, k, v)
<1>1. d \in Seq(Member) BY DeleteFacts
<1> HIDE DEF d
<1>2. /\ Len(d) \in Nat /\ Len(a) = Len(d) + 1 /\ a \in Seq(Member)
      /\ \A i \in 1..Len(d) : a[i] = d[i]
      /\ a[Len(d) + 1].key = k
  <2>1. [key |-> k, val |-> v] \in Member BY DEF Member, Keys
  <2> QED BY <1>1, <2>1, AppendProperties DEF AddItem
<1>3. Unique(a) BY DEF a, d
<1> HIDE DEF a
<1>4. DOMAIN d = 1..Len(d) /\ DOMAIN a = 1..Len(a) /\ DOMAIN o = 1..Len(o) /\ Len(o) \in Nat
  BY <1>1, <1>2
<1>5. \A i, j \in 1..Len(d) : d[i].key = d[j].key => i = j BY <1>2, <1>3, <1>4 DEF Unique
<1>6. \A i \in 1..Len(d) : d[i].key # k
  <2> SUFFICES ASSUME NEW i \in 1..Len(d), d[i].key = k PROVE FALSE OBVIOUS
  <2>1. i \in 1..Len(a) /\ Len(d) + 1 \in 1..Len(a) /\ i # Len(d) + 1 BY <1>2
  <2> QED BY <1>2, <1>3, <1>4, <2>1 DEF Unique
<1>7. CASE ~Has(o, k)
  <2>1. d = o BY <1>7 DEF DeleteItem, d
  <2> QED BY <1>4, <1>5, <2>1 DEF Unique
<1>8. CASE Has(o, k)
  <2> DEFINE p == Position(o, k)
  <2>1. p \in 1..Len(o) /\ o[p].key = k BY <1>8, PositionFacts DEF Has
  <2>2. d = RemoveAt(o, p) BY <1>8 DEF DeleteItem, d
  <2> HIDE DEF p
  <2>3. /\ Len(d) = Len(o) - 1
        /\ \A i \in 1..p - 1 : d[i] = o[i]
        /\ \A i \in p..Len(o) - 1 : d[i] = o[i + 1]
    BY <2>1, <2>2, RemoveAtFacts
  <2> DEFINE Back(i) == IF i < p THEN i ELSE i - 1
  <2>4. \A i \in 1..Len(o) : i # p => Back(i) \in 1..Len(d) /\ d[Back(i)] = o[i]
    <3> SUFFICES ASSUME NEW i \in 1..Len(o), i # p PROVE Back(i) \in 1..Len(d) /\ d[Back(i)] = o[i]
      OBVIOUS
    <3>1. CASE i < p BY <1>4, <2>1, <2>3, <3>1
    <3>2. CASE i > p
      <4>1. i - 1 \in p..Len(o) - 1 /\ (i - 1) + 1 = i /\ Back(i) = i - 1 BY <1>4, <2>1, <3>2
      <4> QED BY <1>4, <2>1, <2>3, <4>1
    <3> QED BY <2>1, <3>1, <3>2
  <2>5. \A i, j \in 1..Len(o) : i # p /\ j # p /\ Back(i) = Back(j) => i = j BY <2>1
  <2> HIDE DEF Back
  <2>6. ASSUME NEW i \in 1..Len(o), NEW j \in 1..Len(o), o[i].key = o[j].key PROVE i = j
    <3>1. (i = p \/ o[i].key # k) /\ (j = p \/ o[j].key # k) BY <1>6, <2>4
    <3>2. CASE i # p /\ j # p BY <1>5, <2>4, <2>5, <2>6, <3>2
    <3> QED BY <2>1, <2>6, <3>1, <3>2
  <2> QED BY <1>4, <2>6 DEF Unique
<1> QED BY <1>7, <1>8

\* The first object written has one member.
LEMMA FirstObject ==
    /\ AddItem(<<>>, TestSid, 0) \in Seq(Member)
    /\ Unique(AddItem(<<>>, TestSid, 0))
    /\ \A k : ~Has(<<>>, k)
    /\ \A k \in Sids : ~Has(AddItem(<<>>, TestSid, 0), k)
<1>1. <<>> \in Seq(Member) /\ Len(<<>>) = 0 OBVIOUS
<1>2. ASSUME NEW k PROVE ~Has(<<>>, k)
  <2>1. \A i \in 1..Len(<<>>) : <<>>[i].key # k BY <1>1
  <2>2. <<>> \in Seq(Member) OBVIOUS
  <2> QED BY <2>1, <2>2, AbsentIs
<1>3. TestSid \in Keys /\ 0 \in Values BY ValuesAssumption DEF Keys
<1>4. DeleteItem(<<>>, TestSid) = <<>> BY <1>2 DEF DeleteItem
<1>5. Unique(<<>>) BY <1>1 DEF Unique
<1> QED BY <1>1, <1>2, <1>3, <1>4, <1>5, AddFacts, StaysUnique, SidsAssumption

\* What is about to be written differs from what is there in the one device.
LEMMA WriteFacts ==
    ASSUME SInv, pc = "write"
    PROVE  /\ obj \in Seq(Member) /\ text = "object" /\ sid \in Sids
           /\ Has(obj, sid) /\ GetItem(obj, sid) \in Values
           /\ \A j : j # sid /\ Has(members, j) => Has(obj, j) /\ GetItem(obj, j) = GetItem(members, j)
           /\ \A j : j # sid /\ ~Has(members, j) => ~Has(obj, j)
           /\ Unique(members) <=> Unique(obj)
           /\ getting \/ Unique(members) => GetItem(obj, sid) = value
           /\ getting => ~Has(members, sid)
<1> DEFINE d == DeleteItem(members, sid)
<1>1. /\ members \in Seq(Member) /\ obj \in Seq(Member) /\ value \in Values
      /\ sid \in Sids /\ sid \in Keys /\ text = "object"
      /\ obj = AddItem(d, sid, value)
      /\ getting => ~Has(members, sid)
  BY DEF SInv, TypeOK, PlaceInv, Busy, Keys, Readable
<1>2. /\ d \in Seq(Member)
      /\ \A j : j # sid /\ Has(members, j) => Has(d, j) /\ GetItem(d, j) = GetItem(members, j)
      /\ \A j : j # sid /\ ~Has(members, j) => ~Has(d, j)
      /\ Unique(members) => ~Has(d, sid)
  BY <1>1, DeleteFacts
<1>3. getting => ~Has(d, sid) BY <1>1 DEF DeleteItem
<1>4. Unique(members) <=> Unique(obj) BY <1>1, StaysUnique, WasUnique
<1> HIDE DEF d
<1>5. /\ \A j : Has(d, j) => Has(obj, j) /\ GetItem(obj, j) = GetItem(d, j)
      /\ \A j : j # sid /\ ~Has(d, j) => ~Has(obj, j)
      /\ Has(obj, sid)
      /\ ~Has(d, sid) => GetItem(obj, sid) = value
  BY <1>1, <1>2, AddFacts
<1>6. GetItem(obj, sid) \in Values BY <1>1, <1>5, GetItemFacts
<1> QED BY <1>1, <1>2, <1>3, <1>4, <1>5, <1>6

\* The first process finds an empty file, or none.
LEMMA InitSInv == Init => SInv
<1> SUFFICES ASSUME Init PROVE SInv OBVIOUS
<1>1. TypeOK
  <2>1. torn \in BOOLEAN /\ getting \in BOOLEAN BY DEF Init
  <2>2. members \in Seq(Member) /\ obj \in Seq(Member) BY DEF Init
  <2> QED BY <2>1, <2>2, ValuesAssumption DEF Init, TypeOK, Nothing, Pcs
<1>2. Unique(<<>>)
  <2>1. <<>> \in Seq(Member) /\ Len(<<>>) = 0 OBVIOUS
  <2> QED BY <2>1 DEF Unique
<1>3. PlaceInv /\ UniqueInv /\ LoadInv /\ GreetInv /\ ServeInv /\ RefusesOnlyDamage
  BY <1>2 DEF Init, PlaceInv, UniqueInv, KeysUnique, LoadInv, GreetInv, ServeInv, RefusesOnlyDamage,
     Busy, Serving, Nothing
<1> QED BY <1>1, <1>3 DEF SInv

\* Members are devices with values, whatever a torn write left.
LEMMA TypeOKStep == SInv /\ [Next]_vars => TypeOK'
<1> SUFFICES ASSUME SInv, [Next]_vars PROVE TypeOK'
  OBVIOUS
<1> USE DEF SInv
<1>1. ASSUME NEW s \in Sids, LoadDevice(s) PROVE TypeOK'
  BY <1>1, ValuesAssumption DEF LoadDevice, Goto, fileVars, opVars, TypeOK, Pcs, Nothing
<1>2. ASSUME NEW s \in Sids, UploadInit(s) PROVE TypeOK'
  BY <1>2 DEF UploadInit, fileVars, opVars, TypeOK, Pcs, Nothing
<1>3. CASE LoadDone
  BY <1>3 DEF LoadDone, Goto, fileVars, opVars, TypeOK, Pcs, Nothing
<1>4. CASE Stat
  BY <1>4 DEF Stat, Goto, fileVars, opVars, TypeOK, Pcs, Nothing
<1>17. CASE StatMissing
  BY <1>17 DEF StatMissing, fileVars, opVars, TypeOK, Pcs, Nothing
<1>5. CASE CleanStatusFile
  BY <1>5 DEF CleanStatusFile, Goto, fileVars, opVars, TypeOK, Pcs, Nothing
<1>6. CASE InitStatusFile
  BY <1>6, FirstObject DEF InitStatusFile, Goto, fileVars, opVars, TypeOK, Pcs, Nothing
<1>7. CASE Found
  <2>1. GetItem(members, sid) \in Values BY <1>7, GetItemFacts DEF Found, TypeOK
  <2>2. loaded' \in [Sids -> Values \union {Unread}] BY <1>7, <2>1 DEF Found, Finish, TypeOK
  <2>3. pc' \in Pcs /\ pending' \subseteq Sids BY <1>7 DEF Found, Finish, TypeOK, Pcs
  <2> QED BY <1>7, <2>2, <2>3 DEF Found, fileVars, opVars, TypeOK
<1>8. CASE AddStatus
  <2>1. sid \in Keys /\ value \in Values BY DEF TypeOK, Keys
  <2>2. obj' \in Seq(Member) BY <1>8, <2>1, AddFacts DEF AddStatus, TypeOK
  <2> QED BY <1>8, <2>2 DEF AddStatus, Goto, fileVars, opVars, TypeOK, Pcs
<1>9. CASE ModifyStatus
  <2>1. sid \in Keys /\ value \in Values BY DEF TypeOK, Keys
  <2>2. DeleteItem(members, sid) \in Seq(Member) BY DeleteFacts DEF TypeOK
  <2>3. obj' \in Seq(Member) BY <1>9, <2>1, <2>2, AddFacts DEF ModifyStatus
  <2> QED BY <1>9, <2>3 DEF ModifyStatus, Goto, fileVars, opVars, TypeOK, Pcs
<1>10. CASE OverwriteStatusFile
  BY <1>10, WriteFacts DEF OverwriteStatusFile, Finish, fileVars, opVars, TypeOK, Pcs, Nothing
<1>11. CASE Unreadable
  BY <1>11 DEF Unreadable, fileVars, opVars, TypeOK, Pcs, Nothing
<1>12. ASSUME NEW s \in Sids, NEW v \in Values \ {0}, UploadStatus(s, v) PROVE TypeOK'
  BY <1>12 DEF UploadStatus, Goto, fileVars, opVars, TypeOK, Pcs, Nothing
<1>13. CASE Crash
  <2>1. /\ pc' = "load" /\ pending' = Sids /\ sid' = TestSid /\ value' = 0 /\ obj' = <<>>
        /\ loaded' = Nothing /\ UNCHANGED told /\ getting' = FALSE
    BY <1>13 DEF Crash, Forget
  <2>2. loaded' \in [Sids -> Values \union {Unread}] /\ obj' \in Seq(Member) /\ value' \in Values
    BY <2>1, ValuesAssumption DEF Nothing
  <2> QED BY <1>13, <2>1, <2>2 DEF Crash, fileVars, opVars, TypeOK, Pcs
<1>14. CASE CrashInWrite
  <2>1. /\ pc' = "load" /\ pending' = Sids /\ sid' = TestSid /\ value' = 0 /\ obj' = <<>>
        /\ loaded' = Nothing /\ UNCHANGED told /\ getting' = FALSE
    BY <1>14 DEF CrashInWrite, Forget
  <2>2. loaded' \in [Sids -> Values \union {Unread}] /\ obj' \in Seq(Member) /\ value' \in Values
    BY <2>1, ValuesAssumption DEF Nothing
  <2>3. members' \in Seq(Member) /\ text' \in {"broken", "object"} /\ torn' = TRUE /\ life' = "torn"
    BY <1>14, SplicesAssumption DEF CrashInWrite, TypeOK
  <2> QED BY <2>1, <2>2, <2>3 DEF TypeOK, Pcs
<1>15. CASE Restart
  <2>1. /\ pc' = "load" /\ pending' = Sids /\ sid' = TestSid /\ value' = 0 /\ obj' = <<>>
        /\ loaded' = Nothing /\ UNCHANGED told /\ getting' = FALSE
    BY <1>15 DEF Restart, Forget
  <2>2. loaded' \in [Sids -> Values \union {Unread}] /\ obj' \in Seq(Member) /\ value' \in Values
    BY <2>1, ValuesAssumption DEF Nothing
  <2> QED BY <1>15, <2>1, <2>2 DEF Restart, fileVars, opVars, TypeOK, Pcs
<1>16. CASE UNCHANGED vars
  BY <1>16 DEF vars, fileVars, opVars, TypeOK, Pcs, Nothing
<1> QED BY <1>1, <1>2, <1>3, <1>4, <1>5, <1>6, <1>7, <1>8, <1>9, <1>10, <1>11, <1>12, <1>13, <1>14, <1>15, <1>16,
  <1>17 DEF Next, Work

\* What each place says of the file and of what is about to be written.
LEMMA PlaceInvStep == SInv /\ [Next]_vars => PlaceInv'
<1> SUFFICES ASSUME SInv, [Next]_vars PROVE PlaceInv'
  OBVIOUS
<1> USE DEF SInv
<1>1. ASSUME NEW s \in Sids, LoadDevice(s) PROVE PlaceInv'
  BY <1>1 DEF LoadDevice, Goto, fileVars, opVars, PlaceInv, Busy, Readable, TypeOK
<1>2. ASSUME NEW s \in Sids, UploadInit(s) PROVE PlaceInv'
  BY <1>2 DEF UploadInit, fileVars, opVars, PlaceInv, GreetInv, Stored, Busy, Readable, TypeOK
<1>3. CASE LoadDone
  BY <1>3 DEF LoadDone, Goto, fileVars, opVars, PlaceInv, Busy, Readable, TypeOK
<1>4. CASE Stat
  BY <1>4 DEF Stat, Goto, fileVars, opVars, PlaceInv, Busy, Readable, TypeOK
<1>17. CASE StatMissing
  BY <1>17 DEF StatMissing, fileVars, opVars, PlaceInv, Busy, Readable, TypeOK
<1>5. CASE CleanStatusFile
  BY <1>5 DEF CleanStatusFile, Goto, fileVars, opVars, PlaceInv, Busy, Readable, TypeOK
<1>6. CASE InitStatusFile
  BY <1>6 DEF InitStatusFile, Goto, fileVars, opVars, PlaceInv, Busy, Readable, TypeOK
<1>7. CASE Found
  BY <1>7 DEF Found, Finish, fileVars, opVars, PlaceInv, Busy, Readable, TypeOK
<1>8. CASE AddStatus
  BY <1>8 DEF AddStatus, Goto, fileVars, opVars, PlaceInv, Busy, Readable, TypeOK, DeleteItem
<1>9. CASE ModifyStatus
  BY <1>9 DEF ModifyStatus, Goto, fileVars, opVars, PlaceInv, Busy, Readable, TypeOK
<1>10. CASE OverwriteStatusFile
  BY <1>10 DEF OverwriteStatusFile, Finish, fileVars, opVars, PlaceInv, Busy, Readable, TypeOK
<1>11. CASE Unreadable
  BY <1>11 DEF Unreadable, fileVars, opVars, PlaceInv, Busy, Readable, TypeOK
<1>12. ASSUME NEW s \in Sids, NEW v \in Values \ {0}, UploadStatus(s, v) PROVE PlaceInv'
  BY <1>12 DEF UploadStatus, Goto, fileVars, opVars, PlaceInv, Busy, Readable, TypeOK
<1>13. CASE Crash
  BY <1>13 DEF Crash, Forget, fileVars, opVars, PlaceInv, Busy, Readable, TypeOK
<1>14. CASE CrashInWrite
  BY <1>14 DEF CrashInWrite, Forget, fileVars, opVars, PlaceInv, Busy, Readable, TypeOK
<1>15. CASE Restart
  BY <1>15 DEF Restart, Forget, fileVars, opVars, PlaceInv, Busy, Readable, TypeOK
<1>16. CASE UNCHANGED vars
  BY <1>16 DEF vars, fileVars, opVars, PlaceInv, Busy, Readable, TypeOK
<1> QED BY <1>1, <1>2, <1>3, <1>4, <1>5, <1>6, <1>7, <1>8, <1>9, <1>10, <1>11, <1>12, <1>13, <1>14, <1>15, <1>16,
  <1>17 DEF Next, Work

\* A member is deleted before it is appended again.
LEMMA UniqueInvStep == SInv /\ [Next]_vars => UniqueInv'
<1> SUFFICES ASSUME SInv, [Next]_vars PROVE UniqueInv'
  OBVIOUS
<1> USE DEF SInv
<1>1. ASSUME NEW s \in Sids, LoadDevice(s) PROVE UniqueInv'
  BY <1>1 DEF LoadDevice, Goto, fileVars, opVars, UniqueInv, KeysUnique, TypeOK
<1>2. ASSUME NEW s \in Sids, UploadInit(s) PROVE UniqueInv'
  BY <1>2 DEF UploadInit, fileVars, opVars, UniqueInv, KeysUnique, TypeOK
<1>3. CASE LoadDone
  BY <1>3 DEF LoadDone, Goto, fileVars, opVars, UniqueInv, KeysUnique, TypeOK
<1>4. CASE Stat
  BY <1>4 DEF Stat, Goto, fileVars, opVars, UniqueInv, KeysUnique, TypeOK
<1>17. CASE StatMissing
  BY <1>17 DEF StatMissing, fileVars, opVars, UniqueInv, KeysUnique, TypeOK
<1>5. CASE CleanStatusFile
  BY <1>5 DEF CleanStatusFile, Goto, fileVars, opVars, UniqueInv, KeysUnique, TypeOK, Unique, PlaceInv
<1>6. CASE InitStatusFile
  BY <1>6, FirstObject DEF InitStatusFile, Goto, fileVars, opVars, UniqueInv, KeysUnique, TypeOK
<1>7. CASE Found
  BY <1>7 DEF Found, Finish, fileVars, opVars, UniqueInv, KeysUnique, TypeOK
<1>8. CASE AddStatus
  BY <1>8 DEF AddStatus, Goto, fileVars, opVars, UniqueInv, KeysUnique, TypeOK
<1>9. CASE ModifyStatus
  BY <1>9 DEF ModifyStatus, Goto, fileVars, opVars, UniqueInv, KeysUnique, TypeOK
<1>10. CASE OverwriteStatusFile
  BY <1>10, WriteFacts DEF OverwriteStatusFile, Finish, fileVars, opVars, UniqueInv, KeysUnique, TypeOK
<1>11. CASE Unreadable
  BY <1>11 DEF Unreadable, fileVars, opVars, UniqueInv, KeysUnique, TypeOK
<1>12. ASSUME NEW s \in Sids, NEW v \in Values \ {0}, UploadStatus(s, v) PROVE UniqueInv'
  BY <1>12 DEF UploadStatus, Goto, fileVars, opVars, UniqueInv, KeysUnique, TypeOK
<1>13. CASE Crash
  BY <1>13 DEF Crash, Forget, fileVars, opVars, UniqueInv, KeysUnique, TypeOK
<1>14. CASE CrashInWrite
  BY <1>14 DEF CrashInWrite, Forget, fileVars, opVars, UniqueInv, KeysUnique, TypeOK
<1>15. CASE Restart
  BY <1>15 DEF Restart, Forget, fileVars, opVars, UniqueInv, KeysUnique, TypeOK
<1>16. CASE UNCHANGED vars
  BY <1>16 DEF vars, fileVars, opVars, UniqueInv, KeysUnique, TypeOK
<1> QED BY <1>1, <1>2, <1>3, <1>4, <1>5, <1>6, <1>7, <1>8, <1>9, <1>10, <1>11, <1>12, <1>13, <1>14, <1>15, <1>16,
  <1>17 DEF Next, Work

\* What was loaded is what the file says.
LEMMA LoadInvStep == SInv /\ [Next]_vars => LoadInv'
<1> SUFFICES ASSUME SInv, [Next]_vars PROVE LoadInv'
  OBVIOUS
<1> USE DEF SInv
<1>1. ASSUME NEW s \in Sids, LoadDevice(s) PROVE LoadInv'
  BY <1>1 DEF LoadDevice, Goto, fileVars, opVars, LoadInv, Loading, Busy, Stored, PlaceInv, TypeOK
<1>2. ASSUME NEW s \in Sids, UploadInit(s) PROVE LoadInv'
  BY <1>2 DEF UploadInit, fileVars, opVars, LoadInv, Loading, Busy, Stored, PlaceInv, TypeOK
<1>3. CASE LoadDone
  BY <1>3 DEF LoadDone, Goto, fileVars, opVars, LoadInv, Loading, Busy, Stored, PlaceInv, TypeOK
<1>4. CASE Stat
  BY <1>4 DEF Stat, Goto, fileVars, opVars, LoadInv, Loading, Busy, Stored, PlaceInv, TypeOK
<1>17. CASE StatMissing
  BY <1>17 DEF StatMissing, fileVars, opVars, LoadInv, Loading, Busy, Stored, PlaceInv, TypeOK
<1>5. CASE CleanStatusFile
  BY <1>5 DEF CleanStatusFile, Goto, fileVars, opVars, LoadInv, Loading, Busy, Stored, PlaceInv, TypeOK
<1>6. CASE InitStatusFile
  BY <1>6 DEF InitStatusFile, Goto, fileVars, opVars, LoadInv, Loading, Busy, Stored, PlaceInv, TypeOK
<1>7. CASE Found
  BY <1>7 DEF Found, Finish, fileVars, opVars, LoadInv, Loading, Busy, Stored, PlaceInv, TypeOK, Readable
<1>8. CASE AddStatus
  BY <1>8 DEF AddStatus, Goto, fileVars, opVars, LoadInv, Loading, Busy, Stored, PlaceInv, TypeOK
<1>9. CASE ModifyStatus
  BY <1>9 DEF ModifyStatus, Goto, fileVars, opVars, LoadInv, Loading, Busy, Stored, PlaceInv, TypeOK
<1>10. CASE OverwriteStatusFile
  BY <1>10, WriteFacts DEF OverwriteStatusFile, Finish, fileVars, opVars, LoadInv, Loading, Busy, Stored, PlaceInv, TypeOK
<1>11. CASE Unreadable
  BY <1>11 DEF Unreadable, fileVars, opVars, LoadInv, Loading, Busy, Stored, PlaceInv, TypeOK
<1>12. ASSUME NEW s \in Sids, NEW v \in Values \ {0}, UploadStatus(s, v) PROVE LoadInv'
  BY <1>12 DEF UploadStatus, Goto, fileVars, opVars, LoadInv, Loading, Busy, Stored, PlaceInv, TypeOK
<1>13. CASE Crash
  BY <1>13 DEF Crash, Forget, fileVars, opVars, LoadInv, Loading, Busy, Stored, PlaceInv, TypeOK, Nothing
<1>14. CASE CrashInWrite
  BY <1>14 DEF CrashInWrite, Forget, fileVars, opVars, LoadInv, Loading, Busy, Stored, PlaceInv, TypeOK, Nothing
<1>15. CASE Restart
  BY <1>15 DEF Restart, Forget, fileVars, opVars, LoadInv, Loading, Busy, Stored, PlaceInv, TypeOK, Nothing
<1>16. CASE UNCHANGED vars
  BY <1>16 DEF vars, fileVars, opVars, LoadInv, Loading, Busy, Stored, PlaceInv, TypeOK
<1> QED BY <1>1, <1>2, <1>3, <1>4, <1>5, <1>6, <1>7, <1>8, <1>9, <1>10, <1>11, <1>12, <1>13, <1>14, <1>15, <1>16,
  <1>17 DEF Next, Work

\* What the gateway was told at the start is what was loaded.
LEMMA GreetInvStep == SInv /\ [Next]_vars => GreetInv'
<1> SUFFICES ASSUME SInv, [Next]_vars PROVE GreetInv'
  OBVIOUS
<1> USE DEF SInv
<1>1. ASSUME NEW s \in Sids, LoadDevice(s) PROVE GreetInv'
  BY <1>1 DEF LoadDevice, Goto, fileVars, opVars, GreetInv, LoadInv, Loading, Busy, Stored, PlaceInv, TypeOK
<1>2. ASSUME NEW s \in Sids, UploadInit(s) PROVE GreetInv'
  BY <1>2 DEF UploadInit, fileVars, opVars, GreetInv, LoadInv, Loading, Busy, Stored, PlaceInv, TypeOK
<1>3. CASE LoadDone
  BY <1>3 DEF LoadDone, Goto, fileVars, opVars, GreetInv, LoadInv, Loading, Busy, Stored, PlaceInv, TypeOK
<1>4. CASE Stat
  BY <1>4 DEF Stat, Goto, fileVars, opVars, GreetInv, LoadInv, Loading, Busy, Stored, PlaceInv, TypeOK
<1>17. CASE StatMissing
  BY <1>17 DEF StatMissing, fileVars, opVars, GreetInv, LoadInv, Loading, Busy, Stored, PlaceInv, TypeOK
<1>5. CASE CleanStatusFile
  BY <1>5 DEF CleanStatusFile, Goto, fileVars, opVars, GreetInv, LoadInv, Loading, Busy, Stored, PlaceInv, TypeOK
<1>6. CASE InitStatusFile
  BY <1>6 DEF InitStatusFile, Goto, fileVars, opVars, GreetInv, LoadInv, Loading, Busy, Stored, PlaceInv, TypeOK
<1>7. CASE Found
  BY <1>7 DEF Found, Finish, fileVars, opVars, GreetInv, LoadInv, Loading, Busy, Stored, PlaceInv, TypeOK
<1>8. CASE AddStatus
  BY <1>8 DEF AddStatus, Goto, fileVars, opVars, GreetInv, LoadInv, Loading, Busy, Stored, PlaceInv, TypeOK
<1>9. CASE ModifyStatus
  BY <1>9 DEF ModifyStatus, Goto, fileVars, opVars, GreetInv, LoadInv, Loading, Busy, Stored, PlaceInv, TypeOK
<1>10. CASE OverwriteStatusFile
  BY <1>10 DEF OverwriteStatusFile, Finish, fileVars, opVars, GreetInv, LoadInv, Loading, Busy, Stored, PlaceInv, TypeOK
<1>11. CASE Unreadable
  BY <1>11 DEF Unreadable, fileVars, opVars, GreetInv, LoadInv, Loading, Busy, Stored, PlaceInv, TypeOK
<1>12. ASSUME NEW s \in Sids, NEW v \in Values \ {0}, UploadStatus(s, v) PROVE GreetInv'
  BY <1>12 DEF UploadStatus, Goto, fileVars, opVars, GreetInv, LoadInv, Loading, Busy, Stored, PlaceInv, TypeOK
<1>13. CASE Crash
  BY <1>13 DEF Crash, Forget, fileVars, opVars, GreetInv, LoadInv, Loading, Busy, Stored, PlaceInv, TypeOK
<1>14. CASE CrashInWrite
  BY <1>14 DEF CrashInWrite, Forget, fileVars, opVars, GreetInv, LoadInv, Loading, Busy, Stored, PlaceInv, TypeOK
<1>15. CASE Restart
  BY <1>15 DEF Restart, Forget, fileVars, opVars, GreetInv, LoadInv, Loading, Busy, Stored, PlaceInv, TypeOK
<1>16. CASE UNCHANGED vars
  BY <1>16 DEF vars, fileVars, opVars, GreetInv, LoadInv, Loading, Busy, Stored, PlaceInv, TypeOK
<1> QED BY <1>1, <1>2, <1>3, <1>4, <1>5, <1>6, <1>7, <1>8, <1>9, <1>10, <1>11, <1>12, <1>13, <1>14, <1>15, <1>16,
  <1>17 DEF Next, Work

\* What it was told since is what is, or is being, recorded.
LEMMA ServeInvStep == SInv /\ [Next]_vars => ServeInv'
<1> SUFFICES ASSUME SInv, [Next]_vars PROVE ServeInv'
  OBVIOUS
<1> USE DEF SInv
<1>1. ASSUME NEW s \in Sids, LoadDevice(s) PROVE ServeInv'
  BY <1>1 DEF LoadDevice, Goto, fileVars, opVars, ServeInv, Serving, GreetInv, Busy, Stored, PlaceInv, TypeOK
<1>2. ASSUME NEW s \in Sids, UploadInit(s) PROVE ServeInv'
  BY <1>2 DEF UploadInit, fileVars, opVars, ServeInv, Serving, GreetInv, Busy, Stored, PlaceInv, TypeOK
<1>3. CASE LoadDone
  BY <1>3 DEF LoadDone, Goto, fileVars, opVars, ServeInv, Serving, GreetInv, Busy, Stored, PlaceInv, TypeOK
<1>4. CASE Stat
  BY <1>4 DEF Stat, Goto, fileVars, opVars, ServeInv, Serving, GreetInv, Busy, Stored, PlaceInv, TypeOK
<1>17. CASE StatMissing
  BY <1>17 DEF StatMissing, fileVars, opVars, ServeInv, Serving, GreetInv, Busy, Stored, PlaceInv, TypeOK
<1>5. CASE CleanStatusFile
  BY <1>5 DEF CleanStatusFile, Goto, fileVars, opVars, ServeInv, Serving, GreetInv, Busy, Stored, PlaceInv, TypeOK
<1>6. CASE InitStatusFile
  BY <1>6 DEF InitStatusFile, Goto, fileVars, opVars, ServeInv, Serving, GreetInv, Busy, Stored, PlaceInv, TypeOK
<1>7. CASE Found
  BY <1>7 DEF Found, Finish, fileVars, opVars, ServeInv, Serving, GreetInv, Busy, Stored, PlaceInv, TypeOK
<1>8. CASE AddStatus
  BY <1>8 DEF AddStatus, Goto, fileVars, opVars, ServeInv, Serving, GreetInv, Busy, Stored, PlaceInv, TypeOK
<1>9. CASE ModifyStatus
  BY <1>9 DEF ModifyStatus, Goto, fileVars, opVars, ServeInv, Serving, GreetInv, Busy, Stored, PlaceInv, TypeOK
<1>10. CASE OverwriteStatusFile
  BY <1>10, WriteFacts DEF OverwriteStatusFile, Finish, fileVars, opVars, ServeInv, Serving, GreetInv, Busy, Stored, PlaceInv, TypeOK
<1>11. CASE Unreadable
  BY <1>11 DEF Unreadable, fileVars, opVars, ServeInv, Serving, GreetInv, Busy, Stored, PlaceInv, TypeOK
<1>12. ASSUME NEW s \in Sids, NEW v \in Values \ {0}, UploadStatus(s, v) PROVE ServeInv'
  BY <1>12 DEF UploadStatus, Goto, fileVars, opVars, ServeInv, Serving, GreetInv, Busy, Stored, PlaceInv, TypeOK
<1>13. CASE Crash
  BY <1>13 DEF Crash, Forget, fileVars, opVars, ServeInv, Serving, GreetInv, Busy, Stored, PlaceInv, TypeOK
<1>14. CASE CrashInWrite
  BY <1>14 DEF CrashInWrite, Forget, fileVars, opVars, ServeInv, Serving, GreetInv, Busy, Stored, PlaceInv, TypeOK
<1>15. CASE Restart
  BY <1>15 DEF Restart, Forget, fileVars, opVars, ServeInv, Serving, GreetInv, Busy, Stored, PlaceInv, TypeOK
<1>16. CASE UNCHANGED vars
  BY <1>16 DEF vars, fileVars, opVars, ServeInv, Serving, GreetInv, Busy, Stored, PlaceInv, TypeOK
<1> QED BY <1>1, <1>2, <1>3, <1>4, <1>5, <1>6, <1>7, <1>8, <1>9, <1>10, <1>11, <1>12, <1>13, <1>14, <1>15, <1>16,
  <1>17 DEF Next, Work

\* The file is left as it is after it was refused.
LEMMA RefusesOnlyDamageStep == SInv /\ [Next]_vars => RefusesOnlyDamage'
<1> SUFFICES ASSUME SInv, [Next]_vars PROVE RefusesOnlyDamage'
  OBVIOUS
<1> USE DEF SInv
<1>1. ASSUME NEW s \in Sids, LoadDevice(s) PROVE RefusesOnlyDamage'
  BY <1>1 DEF LoadDevice, Goto, fileVars, opVars, RefusesOnlyDamage, PlaceInv, Readable, TypeOK
<1>2. ASSUME NEW s \in Sids, UploadInit(s) PROVE RefusesOnlyDamage'
  BY <1>2 DEF UploadInit, fileVars, opVars, RefusesOnlyDamage, PlaceInv, Readable, TypeOK
<1>3. CASE LoadDone
  BY <1>3 DEF LoadDone, Goto, fileVars, opVars, RefusesOnlyDamage, PlaceInv, Readable, TypeOK
<1>4. CASE Stat
  BY <1>4 DEF Stat, Goto, fileVars, opVars, RefusesOnlyDamage, PlaceInv, Readable, TypeOK
<1>17. CASE StatMissing
  BY <1>17 DEF StatMissing, fileVars, opVars, RefusesOnlyDamage, PlaceInv, Readable, TypeOK
<1>5. CASE CleanStatusFile
  BY <1>5 DEF CleanStatusFile, Goto, fileVars, opVars, RefusesOnlyDamage, PlaceInv, Readable, TypeOK
<1>6. CASE InitStatusFile
  BY <1>6 DEF InitStatusFile, Goto, fileVars, opVars, RefusesOnlyDamage, PlaceInv, Readable, TypeOK
<1>7. CASE Found
  BY <1>7 DEF Found, Finish, fileVars, opVars, RefusesOnlyDamage, PlaceInv, Readable, TypeOK
<1>8. CASE AddStatus
  BY <1>8 DEF AddStatus, Goto, fileVars, opVars, RefusesOnlyDamage, PlaceInv, Readable, TypeOK
<1>9. CASE ModifyStatus
  BY <1>9 DEF ModifyStatus, Goto, fileVars, opVars, RefusesOnlyDamage, PlaceInv, Readable, TypeOK
<1>10. CASE OverwriteStatusFile
  BY <1>10 DEF OverwriteStatusFile, Finish, fileVars, opVars, RefusesOnlyDamage, PlaceInv, Readable, TypeOK
<1>11. CASE Unreadable
  BY <1>11 DEF Unreadable, fileVars, opVars, RefusesOnlyDamage, PlaceInv, Readable, TypeOK
<1>12. ASSUME NEW s \in Sids, NEW v \in Values \ {0}, UploadStatus(s, v) PROVE RefusesOnlyDamage'
  BY <1>12 DEF UploadStatus, Goto, fileVars, opVars, RefusesOnlyDamage, PlaceInv, Readable, TypeOK
<1>13. CASE Crash
  BY <1>13 DEF Crash, Forget, fileVars, opVars, RefusesOnlyDamage, PlaceInv, Readable, TypeOK
<1>14. CASE CrashInWrite
  BY <1>14 DEF CrashInWrite, Forget, fileVars, opVars, RefusesOnlyDamage, PlaceInv, Readable, TypeOK
<1>15. CASE Restart
  BY <1>15 DEF Restart, Forget, fileVars, opVars, RefusesOnlyDamage, PlaceInv, Readable, TypeOK
<1>16. CASE UNCHANGED vars
  BY <1>16 DEF vars, fileVars, opVars, RefusesOnlyDamage, PlaceInv, Readable, TypeOK
<1> QED BY <1>1, <1>2, <1>3, <1>4, <1>5, <1>6, <1>7, <1>8, <1>9, <1>10, <1>11, <1>12, <1>13, <1>14, <1>15, <1>16,
  <1>17 DEF Next, Work

\* SInv holds over any number of processes.
THEOREM Invariance == Spec => []SInv
<1>1. SInv /\ [Next]_vars => SInv'
  BY TypeOKStep, PlaceInvStep, UniqueInvStep, LoadInvStep, GreetInvStep, ServeInvStep,
     RefusesOnlyDamageStep DEF SInv
<1> QED BY InitSInv, <1>1, PTL DEF Spec

\* Type correctness: no value but those of devices comes into the file or out of it.
THEOREM Typing == Spec => []TypeOK
BY Invariance, PTL DEF SInv

\* For any number of devices and of processes, one member for each device.
THEOREM OneMember == Spec => []KeysUnique
BY Invariance, PTL DEF SInv, UniqueInv

\* Ready for commands, the driver and the gateway agree with the file.
THEOREM Agreement == Spec => []GatewayAgrees
<1>1. SInv => GatewayAgrees
  BY DEF SInv, UniqueInv, KeysUnique, ServeInv, Serving, Busy, Stored, GatewayAgrees, TypeOK
<1> QED BY Invariance, <1>1, PTL

\* The driver does not refuse what a process that was not cut off in write() left.
THEOREM Refusal == Spec => []RefusesOnlyDamage
BY Invariance, PTL DEF SInv

\* Recorded values are never wiped.
THEOREM NothingWiped == Spec => NeverWiped
<1> DEFINE Kept == text # "empty" => text' # "empty"
<1>1. SInv /\ [Next]_vars => [Kept]_vars
  <2> SUFFICES ASSUME SInv, Next, text # "empty" PROVE text' # "empty"
    OBVIOUS
  <2> QED
    BY DEF Next, Work, LoadDevice, UploadInit, LoadDone, Stat, StatMissing, CleanStatusFile, InitStatusFile, Found, AddStatus,
       ModifyStatus, OverwriteStatusFile, Unreadable, UploadStatus, Crash, CrashInWrite, Restart, Goto, SInv, PlaceInv, fileVars
<1> QED BY Invariance, <1>1, PTL DEF Spec, NeverWiped

\* A file the driver cannot read is never written.
THEOREM DamageIsLeft == Spec => UnreadableIsLeft
<1> DEFINE Left == text # "empty" /\ ~Readable => UNCHANGED fileVars
<1>1. SInv /\ [Next]_vars => [Left]_vars
  <2> SUFFICES ASSUME SInv, Next, text # "empty", ~Readable PROVE UNCHANGED fileVars
    OBVIOUS
  <2> QED
    BY DEF Next, Work, LoadDevice, UploadInit, LoadDone, Stat, StatMissing, CleanStatusFile, InitStatusFile, Found, AddStatus,
       ModifyStatus, OverwriteStatusFile, Unreadable, UploadStatus, Crash, CrashInWrite, Restart, Goto, SInv, PlaceInv, fileVars
<1> QED BY Invariance, <1>1, PTL DEF Spec, UnreadableIsLeft

\* The file is one durable value per device: for any devices and values, and processes
\* that end at any statement.  Nothing but what the gateway was told of a device is recorded,
\* and nothing but a torn write is worse for what is recorded than no end of the process.
THEOREM Implementation == Spec => ImplementsDurableStatus
<1>1. Init => Durable!Init
  BY FirstObject DEF Init, Durable!Init, Recorded, Nothing, Durable!Nothing
<1>2. SInv /\ [Next]_vars => [Durable!Next]_(Durable!vars)
  <2> SUFFICES ASSUME SInv, [Next]_vars PROVE [Durable!Next]_(Durable!vars)
    OBVIOUS
  <2> USE DEF SInv
  <2>0. ASSUME UNCHANGED <<text, members>> PROVE Recorded' = Recorded
    BY <2>0 DEF Recorded
  <2>1. ASSUME NEW s \in Sids, LoadDevice(s) PROVE UNCHANGED Durable!vars
    BY <2>0, <2>1 DEF LoadDevice, fileVars, Durable!vars
  <2>2. ASSUME NEW s \in Sids, UploadInit(s) PROVE Durable!Next
    <3>1. Has(members, s) /\ loaded[s] = GetItem(members, s) BY <2>2 DEF UploadInit, GreetInv, Stored
    <3>2. loaded[s] \in Values BY <3>1, GetItemFacts DEF TypeOK
    <3>3. Durable!Tell(s, loaded[s]) BY <2>0, <2>2 DEF UploadInit, fileVars, Durable!Tell
    <3> QED BY <3>2, <3>3 DEF Durable!Next
  <2>3. ASSUME NEW s \in Sids, NEW v \in Values, UploadStatus(s, v) PROVE Durable!Next
    <3>1. Durable!Tell(s, v) BY <2>0, <2>3 DEF UploadStatus, Goto, fileVars, Durable!Tell
    <3> QED BY <3>1 DEF Durable!Next
  <2>4. CASE LoadDone \/ Stat \/ AddStatus \/ ModifyStatus
    BY <2>0, <2>4 DEF LoadDone, Stat, AddStatus, ModifyStatus, fileVars, Durable!vars
  <2>5. CASE CleanStatusFile
    <3>1. text = "empty" /\ members = <<>> BY <2>5 DEF CleanStatusFile, Goto, PlaceInv
    <3> QED BY <2>0, <2>5, <3>1 DEF CleanStatusFile, Durable!vars
  <2>6. CASE InitStatusFile
    <3>1. text = "empty" /\ members = <<>> BY <2>6 DEF InitStatusFile, Goto, PlaceInv
    <3>2. text' = "object" /\ members' = AddItem(<<>>, TestSid, 0) /\ UNCHANGED <<life, torn, loaded, told>>
      BY <2>6 DEF InitStatusFile
    <3>3. Recorded = [s \in Sids |-> 0] BY <3>1, FirstObject DEF Recorded
    <3>4. Recorded' = [s \in Sids |-> 0] BY <3>2, FirstObject DEF Recorded
    <3> QED BY <3>2, <3>3, <3>4 DEF Durable!vars
  <2>7. CASE Found
    <3>1. sid \in Sids /\ getting /\ sid \in pending BY <2>7 DEF Found, PlaceInv, Busy
    <3>2. loaded[sid] = Unread BY <2>7, <3>1 DEF Found, LoadInv, Loading, Busy
    <3>3. loaded' = [loaded EXCEPT ![sid] = Recorded[sid]]
      BY <2>7, <3>1 DEF Found, Finish, Readable, Recorded
    <3>4. Recorded' = Recorded /\ life = "up" /\ UNCHANGED <<life, torn, told>>
      BY <2>7 DEF Found, fileVars, Recorded
    <3> QED BY <3>1, <3>2, <3>3, <3>4 DEF Durable!Next, Durable!Load
  <2>8. CASE OverwriteStatusFile
    <3>1. /\ pc = "write" /\ members' = obj /\ text' = "object"
          /\ life = "up" /\ UNCHANGED <<life, torn, told>>
      BY <2>8 DEF OverwriteStatusFile
    <3>2. Recorded' = [Recorded EXCEPT ![sid] = GetItem(obj, sid)]
      BY <3>1, WriteFacts DEF Recorded
    <3>3. CASE getting
      <4>1. sid \in pending /\ value = 0 BY <3>1, <3>3 DEF PlaceInv, Busy
      <4>2. loaded[sid] = Unread BY <3>1, <3>3, <4>1, WriteFacts DEF LoadInv, Loading, Busy
      <4>3. Recorded[sid] = 0 /\ GetItem(obj, sid) = 0 BY <3>1, <3>3, <4>1, WriteFacts DEF Recorded
      <4>4. Recorded' = Recorded BY <3>1, <3>2, <4>3, WriteFacts DEF Recorded
      <4>5. loaded' = [loaded EXCEPT ![sid] = Recorded[sid]]
        BY <2>8, <3>3, <4>1, <4>3 DEF OverwriteStatusFile, Finish
      <4> QED BY <3>1, <4>2, <4>4, <4>5, WriteFacts DEF Durable!Next, Durable!Load
    <3>4. CASE ~getting
      <4>1. loaded' = loaded BY <2>8, <3>4 DEF OverwriteStatusFile, Finish
      <4>2. sid \in Sids /\ GetItem(obj, sid) \in Values BY <3>1, WriteFacts
      <4>3. told[sid] = value /\ value \in Values BY <3>1, <3>4, <4>2 DEF ServeInv, Serving, Busy, TypeOK
      <4>4. ~torn => GetItem(obj, sid) = told[sid]
        BY <3>1, <4>3, WriteFacts DEF UniqueInv, KeysUnique
      <4>5. told[sid] # Unread BY <4>3, ValuesAssumption
      <4>6. Durable!Record(sid, GetItem(obj, sid))
        BY <3>1, <3>2, <4>1, <4>4, <4>5 DEF Durable!Record
      <4> QED BY <4>2, <4>6 DEF Durable!Next
    <3> QED BY <3>3, <3>4
  <2>9. CASE Unreadable \/ StatMissing
    <3>1. Durable!Refuse BY <2>0, <2>9 DEF Unreadable, StatMissing, fileVars, Durable!Refuse
    <3> QED BY <3>1 DEF Durable!Next
  <2>10. CASE Crash
    <3>1. Durable!Crash
      BY <2>0, <2>10 DEF Crash, Forget, fileVars, Durable!Crash, Nothing, Durable!Nothing
    <3> QED BY <3>1 DEF Durable!Next
  <2>11. CASE Restart
    <3>1. Durable!Restart
      BY <2>0, <2>11 DEF Restart, Forget, fileVars, Durable!Restart, Nothing, Durable!Nothing
    <3> QED BY <3>1 DEF Durable!Next
  <2>12. CASE CrashInWrite
    <3>1. loaded' = Nothing /\ torn' = TRUE /\ life = "up" /\ life' = "torn" /\ told' = told
      BY <2>12 DEF CrashInWrite, Forget
    <3>2. members' \in Seq(Member) BY <2>12, SplicesAssumption DEF CrashInWrite, TypeOK
    <3>3. \A s \in Sids : Has(members', s) => GetItem(members', s) \in Values BY <3>2, GetItemFacts
    <3>4. Recorded' \in [Sids -> Values \union {Unread}]
      BY <3>3, ValuesAssumption DEF Recorded, Nothing
    <3> QED BY <3>1, <3>4 DEF Durable!Next, Durable!Damage, Nothing, Durable!Nothing
  <2>13. CASE UNCHANGED vars
    BY <2>0, <2>13 DEF vars, fileVars, Durable!vars
  <2> QED BY <2>1, <2>2, <2>3, <2>4, <2>5, <2>6, <2>7, <2>8, <2>9, <2>10, <2>11, <2>12, <2>13 DEF Next, Work
<1> QED BY Invariance, <1>1, <1>2, PTL DEF Spec, ImplementsDurableStatus, Durable!Spec

\* Each device once, the text is no longer than that many of the longest lines.
LEMMA RoomForAll ==
    ASSUME NEW o \in Seq(Member), Unique(o), IsFiniteSet(Sids), NEW w \in Nat,
           \A v \in Values : 23 + Digits(v) <= w
    PROVE  /\ Cardinality(Keys) \in Nat /\ Size(o) \in Int
           /\ Size(o) <= 2 + Cardinality(Keys) * w
<1> DEFINE n == Len(o)
<1> DEFINE c == Cardinality(Keys)
<1> DEFINE d == [k \in DOMAIN o |-> Line(o[k])]
<1> DEFINE f == [k \in 1..n |-> o[k].key]
<1>1. n \in Nat /\ DOMAIN o = 1..n /\ \A k \in 1..n : o[k].key \in Keys /\ o[k].val \in Values
  <2> DEFINE M == Member
  <2>1. \A m \in M : m.key \in Keys /\ m.val \in Values
    BY DEF Member, Keys
  <2> HIDE DEF M
  <2>2. n \in Nat /\ DOMAIN o = 1..n /\ \A k \in 1..n : o[k] \in M
    BY DEF M
  <2> QED
    BY <2>1, <2>2
<1>2. c \in Nat /\ n <= c
  <2>1. IsFiniteSet(Keys)
    BY FS_AddElement DEF Keys
  <2>2. f \in [1..n -> Keys] /\ \A j, k \in 1..n : f[j] = f[k] => j = k
    BY <1>1 DEF Unique
  <2> HIDE DEF f, n, c
  <2>3. \A S : (Steps!IsFiniteSet(S) <=> IsFiniteSet(S)) /\ Steps!Cardinality(S) = Cardinality(S)
    BY DEF Steps!IsFiniteSet, IsFiniteSet, Steps!Cardinality, Cardinality
  <2>4. Steps!Cardinality(Keys) \in Nat /\ n <= Steps!Cardinality(Keys)
    <3>1. n \in Nat /\ Steps!IsFiniteSet(Keys)
      BY <1>1, <2>1, <2>3
    <3> QED
      BY <2>2, <3>1, Steps!NoRepeats
  <2> QED
    BY <2>3, <2>4 DEF c
<1>3. \A v \in Values : Digits(v) \in Nat
  <2>1. \A x : Json!PrintNumber(x) = Steps!PrintNumber(x)
    BY DEF Json!PrintNumber, Steps!PrintNumber, Json!Digits, Steps!Digits, Json!Minus, Steps!Minus,
           Json!Zero, Steps!Zero
  <2>2. \A v \in Values : Steps!PrintNumber(v) \in Seq(Steps!Char)
    BY ValuesAssumption, Steps!NumberShape
  <2> QED
    BY <2>1, <2>2 DEF Digits
<1>4. ASSUME NEW k \in 1..n
      PROVE  d[k] \in Int /\ d[k] <= w
  <2> DEFINE x == Digits(o[k].val)
  <2>1. x \in Nat /\ 23 + x <= w
    BY <1>1, <1>3
  <2>2. d[k] = (IF o[k].key = TestSid THEN 15 ELSE 23) + x
    BY <1>1 DEF Line
  <2> HIDE DEF x, d
  <2> QED
    BY <2>1, <2>2
<1>5. d \in Seq(Int) /\ Len(d) = n
  BY <1>1, <1>4
<1> HIDE DEF d
<1>6. Json!Total(d) = Steps!Total(d)
  BY DEF Json!Total, Steps!Total
<1>7. Json!Total(d) \in Int /\ Json!Total(d) <= n * w
  <2>1. \A k \in 1..Len(d) : d[k] <= w
    BY <1>4, <1>5
  <2>2. Steps!Total(d) \in Int /\ Steps!Total(d) <= Len(d) * w
    <3>1. d \in Seq(Int) /\ w \in Int
      BY <1>5
    <3> HIDE DEF n, c
    <3> QED
      BY <2>1, <3>1, Steps!TotalAtMost
  <2> QED
    BY <1>5, <1>6, <2>2
<1>8. Size(o) = 2 + Json!Total(d)
  BY DEF Size, d
<1> DEFINE t == Json!Total(d)
<1> HIDE DEF n, c, t
<1>9. n * w <= c * w
  <2>1. c * w = n * w + (c - n) * w
    BY <1>1, <1>2
  <2>2. (c - n) * w >= 0
    BY <1>1, <1>2
  <2> QED
    BY <1>1, <1>2, <2>1, <2>2
<1>10. t \in Int /\ t <= n * w
  BY <1>7 DEF t
<1>11. 2 + t <= 2 + c * w
  BY <1>1, <1>2, <1>9, <1>10
<1> QED
  BY <1>2, <1>8, <1>10, <1>11 DEF t, c

\* Where all devices have room in what is read, w being the longest line, only a torn write
\* makes the driver refuse a file that is there, over any number of processes that end at any
\* statement (status_file.c:40-63).
THEOREM EnoughRoom ==
    ASSUME IsFiniteSet(Sids), NEW w \in Nat, \A v \in Values : 23 + Digits(v) <= w,
           2 + Cardinality(Sids \union {TestSid}) * w <= ReadLimit
    PROVE  Spec => [](life = "exited" => torn \/ text = "missing")
<1> DEFINE Whole == text = "broken" => torn
<1>1. Init => Whole
  BY DEF Init
<1>2. Whole /\ [Next]_vars => Whole'
  BY DEF Next, Work, LoadDevice, UploadInit, LoadDone, Stat, StatMissing, CleanStatusFile, InitStatusFile, Found, AddStatus,
     ModifyStatus, OverwriteStatusFile, Unreadable, UploadStatus, Crash, CrashInWrite, Restart, Goto, fileVars, vars
<1>3. SInv /\ Whole => (life = "exited" => torn \/ text = "missing")
  <2> SUFFICES ASSUME SInv, Whole, life = "exited", ~torn, text # "missing"
               PROVE  FALSE
    OBVIOUS
  <2>1. members \in Seq(Member) /\ Unique(members) /\ torn = FALSE
    BY DEF SInv, TypeOK, UniqueInv, KeysUnique
  <2>2. ~Fits(members)
    BY DEF SInv, RefusesOnlyDamage
  <2> DEFINE m == Cardinality(Keys) * w
  <2>3. Cardinality(Keys) \in Nat /\ Size(members) \in Int /\ Size(members) <= 2 + m
    BY <2>1, RoomForAll
  <2>4. 2 + m <= ReadLimit /\ m \in Nat
    BY <2>3 DEF Keys
  <2> HIDE DEF m
  <2> QED
    BY <2>2, <2>3, <2>4, SizeAssumption DEF Fits
<1> QED
  BY <1>1, <1>2, <1>3, Invariance, PTL DEF Spec
=============================================================================
