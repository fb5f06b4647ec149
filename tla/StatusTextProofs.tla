-------------------------- MODULE StatusTextProofs --------------------------
(***************************************************************************)
(* Theorems of StatusText, for any sids, values and read limit.  The file  *)
(* begins with the text of the object the driver holds, whatever is left   *)
(* of older texts behind it; what that text means when it is read is what  *)
(* CJsonProofs shows of every item.                                        *)
(***************************************************************************)
EXTENDS StatusText, CJsonProofs

\* The object is one of numbers, and its text is what the file begins with.
Flat(o) == \E c \in Seq(Members({Number(v) : v \in CInt})) : o = Object(c)

IInv ==
    /\ Flat(object)
    /\ file \in Seq(Char)
    /\ file # <<>> => /\ StandsAt(file, 1, PrintValue(object, 0))
                      /\ Whole(file, 1, PrintValue(object, 0))

\* What is in an item that is nested deeper, and what such items are made of.
LEMMA NestedItems ==
  ASSUME NEW n \in Nat
  PROVE  /\ \A v \in CInt : Number(v) \in Nested[n + 1]
         /\ \A s \in Seq(Char) : String(s) \in Nested[n + 1]
         /\ \A c \in Seq(Nested[n]) : Array(c) \in Nested[n + 1]
         /\ \A c \in Seq(Members(Nested[n])) : Object(c) \in Nested[n + 1]
<1>1. Nested[n + 1] = Items(Nested[n])
  BY NestedSteps
<1>2. \A v \in CInt : Number(v) \in Items(Nested[n])
  BY DEF Number, Items
<1>3. \A s \in Seq(Char) : String(s) \in Items(Nested[n])
  BY DEF String, Items
<1>4. \A c \in Seq(Nested[n]) : Array(c) \in Items(Nested[n])
  BY DEF Array, Items
<1>5. \A c \in Seq(Members(Nested[n])) : Object(c) \in Items(Nested[n])
  BY DEF Object, Items, Members
<1> QED
  BY <1>1, <1>2, <1>3, <1>4, <1>5

\* The object is an item, of one level with numbers in it.
LEMMA FlatNested ==
  ASSUME NEW o, Flat(o)
  PROVE  o \in Nested[Nesting] /\ o.type = "object"
<1>1. PICK c \in Seq(Members({Number(v) : v \in CInt})) : o = Object(c)
  BY DEF Flat
<1>2. \A v \in CInt : Number(v) \in Nested[4]
  <2>1. 3 \in Nat /\ 3 + 1 = 4
    OBVIOUS
  <2> QED
    BY <2>1, NestedItems
<1>3. {Number(v) : v \in CInt} \subseteq Nested[4]
  BY <1>2
<1>4. Members({Number(v) : v \in CInt}) \subseteq Members(Nested[4])
  BY <1>3 DEF Members
<1>5. c \in Seq(Members(Nested[4]))
  BY <1>4
<1>6. Object(c) \in Nested[5]
  <2>1. 4 \in Nat /\ 4 + 1 = 5
    OBVIOUS
  <2> QED
    BY <1>5, <2>1, NestedItems
<1>7. Object(c).type = "object"
  BY DEF Object
<1> QED
  BY <1>1, <1>6, <1>7 DEF Nesting

\* The text of an item.
LEMMA PrintedText ==
  ASSUME NEW o \in Nested[Nesting]
  PROVE  PrintValue(o, 0) \in Seq(Char) /\ Len(PrintValue(o, 0)) >= 1
<1>1. Nesting \in Nat /\ 0 \in Nat
  BY DEF Nesting
<1>2. Shaped(Printed[Nesting][o][0])
  BY <1>1, TextShape
<1> QED
  BY <1>2 DEF Shaped, PrintValue

\* What is read of a file, and what it means.
LEMMA ReadFile ==
  ASSUME NEW o, Flat(o), NEW text \in Seq(Char), NEW g \in Seq(Char), LimitAssumption,
         StandsAt(text, 1, PrintValue(o, 0)), Whole(text, 1, PrintValue(o, 0))
  PROVE  /\ Len(PrintValue(o, 0)) <= ReadLimit =>
              Read(text, g) = Parsed(1 + Len(PrintValue(o, 0)), o)
         /\ ~(Len(PrintValue(o, 0)) <= ReadLimit) => Read(text, <<>>).next = 0
<1> DEFINE s == PrintValue(o, 0)
<1> DEFINE l == IF Len(text) < ReadLimit THEN Len(text) ELSE ReadLimit
<1> DEFINE t(b) == IF Len(text) < ReadLimit THEN text ELSE SubSeq(text, 1, ReadLimit) \o b
<1>1. ReadLimit \in Nat /\ Len(text) \in Nat /\ l \in 0..Len(text) /\ l <= ReadLimit
  BY DEF LimitAssumption
<1>2. o \in Nested[Nesting] /\ o.type = "object"
  BY FlatNested
<1>3. s \in Seq(Char) /\ Len(s) \in Nat
  BY <1>2, PrintedText
<1>4. \A b : Read(text, b) = Parse(t(b))
  BY DEF Read
<1>5. \A k \in 1..Len(s) : 1 + k - 1 <= Len(text) => text[1 + k - 1] = s[k]
  BY DEF StandsAt
<1>6. 1 + Len(s) - 1 <= Len(text)
  BY DEF Whole
<1>7. l = Len(text) \/ l = ReadLimit
  OBVIOUS
<1>8. ASSUME NEW b \in Seq(Char)
      PROVE  /\ t(b) \in Seq(Char) /\ Len(t(b)) \in Nat /\ l <= Len(t(b))
             /\ b = <<>> => Len(t(b)) = l
             /\ \A j \in 1..l : t(b)[j] = text[j]
  <2>1. CASE Len(text) < ReadLimit
    BY <2>1
  <2>2. CASE ~(Len(text) < ReadLimit)
    <3> DEFINE c == SubSeq(text, 1, ReadLimit)
    <3>1. c \in Seq(Char) /\ Len(c) = ReadLimit /\ \A j \in 1..ReadLimit : c[j] = text[j]
      BY <1>1, <2>2
    <3>2. t(b) = c \o b /\ l = ReadLimit
      BY <2>2
    <3> HIDE DEF c, t, l
    <3>3. /\ c \o b \in Seq(Char) /\ Len(c \o b) = Len(c) + Len(b) /\ Len(b) \in Nat
          /\ \A j \in 1..Len(c) : (c \o b)[j] = c[j]
      <4>1. c \in Seq(Char) /\ b \in Seq(Char)
        BY <1>8, <3>1
      <4> QED
        BY <4>1, ConcatPlaces
    <3>4. b = <<>> => Len(b) = 0
      OBVIOUS
    <3> QED
      BY <1>1, <3>1, <3>2, <3>3, <3>4
  <2> QED
    BY <2>1, <2>2
<1> HIDE DEF s, l, t
<1>9. ASSUME NEW b \in Seq(Char), Len(s) <= ReadLimit \/ b = <<>>
      PROVE  StandsAt(t(b), 1, s) /\ (Whole(t(b), 1, s) <=> Len(s) <= ReadLimit)
  <2>1. CASE Len(s) <= ReadLimit
    <3>1. Len(s) <= l
      BY <1>1, <1>3, <1>6, <1>7, <2>1
    <3>2. StandsAt(t(b), 1, s)
      BY <1>1, <1>3, <1>5, <1>6, <1>8, <3>1 DEF StandsAt
    <3>3. Whole(t(b), 1, s)
      BY <1>1, <1>3, <1>8, <3>1 DEF Whole
    <3> QED
      BY <2>1, <3>2, <3>3
  <2>2. CASE ~(Len(s) <= ReadLimit)
    <3>1. Len(t(b)) = l /\ l < Len(s) /\ \A j \in 1..l : t(b)[j] = text[j]
      BY <1>1, <1>3, <1>8, <1>9, <2>2
    <3>2. StandsAt(t(b), 1, s)
      BY <1>1, <1>3, <1>5, <3>1 DEF StandsAt
    <3>3. ~Whole(t(b), 1, s)
      BY <1>1, <1>3, <3>1 DEF Whole
    <3> QED
      BY <2>2, <3>2, <3>3
  <2> QED
    BY <2>1, <2>2
<1>10. ASSUME NEW b \in Seq(Char), Len(s) <= ReadLimit \/ b = <<>>
       PROVE  /\ Len(s) <= ReadLimit => Parse(t(b)) = Parsed(1 + Len(s), o)
              /\ ~(Len(s) <= ReadLimit) => Parse(t(b)).next = 0
  <2>1. Nesting \in Nat /\ 0 \in Nat
    BY DEF Nesting
  <2>2. s = Printed[Nesting][o][0]
    BY DEF s, PrintValue
  <2>3. t(b) \in Seq(Char)
    BY <1>8
  <2>4. StandsAt(t(b), 1, s) /\ (Whole(t(b), 1, s) <=> Len(s) <= ReadLimit)
    BY <1>9, <1>10
  <2>5. /\ Whole(t(b), 1, s) => Parse(t(b)) = Parsed(1 + Len(s), o)
        /\ ~Whole(t(b), 1, s) => Parse(t(b)).next = 0
    BY <1>2, <2>1, <2>2, <2>3, <2>4, ParseRead
  <2> QED
    BY <2>4, <2>5
<1>11. <<>> \in Seq(Char)
  OBVIOUS
<1> QED
  BY <1>4, <1>10, <1>11 DEF s

\* What is written over a text stands first.
LEMMA Overwritten ==
  ASSUME NEW text \in Seq(Char), NEW s \in Seq(Char)
  PROVE  LET t == s \o SubSeq(text, Len(s) + 1, Len(text))
         IN  t \in Seq(Char) /\ StandsAt(t, 1, s) /\ Whole(t, 1, s)
<1> DEFINE r == SubSeq(text, Len(s) + 1, Len(text))
<1> DEFINE t == s \o r
<1>1. r \in Seq(Char) /\ Len(s) \in Nat
  OBVIOUS
<1> HIDE DEF r
<1>2. /\ t \in Seq(Char) /\ Len(t) = Len(s) + Len(r) /\ Len(r) \in Nat
      /\ \A k \in 1..Len(s) : t[k] = s[k]
  BY <1>1, ConcatPlaces
<1> HIDE DEF t
<1>3. StandsAt(t, 1, s)
  BY <1>1, <1>2 DEF StandsAt
<1>4. Whole(t, 1, s)
  BY <1>1, <1>2 DEF Whole
<1> QED
  BY <1>2, <1>3, <1>4 DEF t, r

\* Recording a status leaves an object of numbers.
LEMMA RecordedFlat ==
  ASSUME NEW o, Flat(o), NEW s \in Seq(Char), NEW v \in CInt
  PROVE  Flat(Recorded(o, s, v))
<1> DEFINE M == Members({Number(x) : x \in CInt})
<1>1. PICK c \in Seq(M) : o = Object(c)
  BY DEF Flat
<1>2. \A d : Object(d).children = d
  BY DEF Object
<1>3. Member(s, Number(v)) \in M
  BY DEF Member, Members
<1> HIDE DEF M
<1>4. ASSUME NEW d \in Seq(M)
      PROVE  Append(d, Member(s, Number(v))) \in Seq(M)
  BY <1>3
<1>5. \E d \in Seq(M) : DeleteItemFromObject(o, s) = Object(d)
  <2> DEFINE p == Position(o, s)
  <2>1. p = 0 \/ p \in 1..Len(c)
    <3> DEFINE I == {i \in 1..Len(c) : SameName(c[i].name, s)}
    <3>1. p = IF I # {} THEN CHOOSE x \in I : \A y \in I : x <= y ELSE 0
      <4>1. o.children = c
        BY <1>1, <1>2
      <4>2. p = SelectInSeq(c, LAMBDA m : SameName(m.name, s))
        BY <4>1 DEF Position
      <4> QED
        BY <4>2 DEF SelectInSeq, Min
    <3>2. ASSUME I # {}
          PROVE  \E x \in I : \A y \in I : x <= y
      <4>1. I \subseteq Nat
        OBVIOUS
      <4> HIDE DEF I
      <4> QED
        BY <3>2, <4>1, Least
    <3>3. I # {} => p \in I
      <4> HIDE DEF I, p
      <4> QED
        BY <3>1, <3>2
    <3> QED
      BY <3>1, <3>3
  <2>2. DeleteItemFromObject(o, s) = IF p = 0 THEN o ELSE Object(RemoveAt(c, p))
    BY <1>1, <1>2 DEF DeleteItemFromObject
  <2> HIDE DEF p
  <2>3. ASSUME p \in 1..Len(c)
        PROVE  RemoveAt(c, p) \in Seq(M)
    <3>1. SubSeq(c, 1, p - 1) \in Seq(M)
      BY <2>3
    <3>2. SubSeq(c, p + 1, Len(c)) \in Seq(M)
      BY <2>3
    <3> QED
      BY <3>1, <3>2 DEF RemoveAt
  <2>4. CASE p = 0
    BY <1>1, <2>2, <2>4
  <2>5. CASE p \in 1..Len(c)
    <3>1. p # 0
      BY <2>5
    <3> QED
      BY <2>2, <2>3, <2>5, <3>1
  <2> QED
    BY <2>1, <2>4, <2>5
<1>6. PICK d \in Seq(M) : DeleteItemFromObject(o, s) = Object(d)
  BY <1>5
<1>7. Recorded(o, s, v) = Object(Append(d, Member(s, Number(v))))
  BY <1>2, <1>6 DEF Recorded, AddItemToObject
<1> QED
  BY <1>4, <1>7 DEF Flat, M

\* No file is there at the start, and the object is empty.
LEMMA InitIInv ==
  ASSUME Init
  PROVE  IInv
<1>1. object = Object(<<>>) /\ file = <<>>
  BY DEF Init
<1>2. <<>> \in Seq(Members({Number(v) : v \in CInt})) /\ <<>> \in Seq(Char)
  OBVIOUS
<1> QED
  BY <1>1, <1>2 DEF IInv, Flat

\* What is written is the text of the object.
LEMMA Written ==
  ASSUME IInv, Flat(object'), Overwrite(object')
  PROVE  IInv'
<1> DEFINE s == PrintValue(object', 0)
<1>1. s \in Seq(Char)
  BY FlatNested, PrintedText
<1>2. file' = s \o SubSeq(file, Len(s) + 1, Len(file)) /\ file \in Seq(Char)
  BY DEF Overwrite, IInv
<1> HIDE DEF s
<1>3. file' \in Seq(Char) /\ StandsAt(file', 1, s) /\ Whole(file', 1, s)
  BY <1>1, <1>2, Overwritten
<1> QED
  BY <1>3 DEF IInv, s

\* Making the file, recording a status and a read that is refused keep the file's text that of
\* the object.
LEMMA NextIInv ==
  ASSUME IInv, [Next]_vars, NamesAssumption, ValuesAssumption, LimitAssumption
  PROVE  IInv'
<1>1. CASE InitStatusFile
  <2>1. object' = Object(<<Member(TestName, Number(0))>>)
    <3>1. Object(<<>>).children = <<>>
      BY DEF Object
    <3>2. object' = AddItemToObject(Object(<<>>), TestName, Number(0))
      BY <1>1 DEF InitStatusFile
    <3>3. \A m : Append(<<>>, m) = <<m>>
      OBVIOUS
    <3> QED
      BY <3>1, <3>2, <3>3 DEF AddItemToObject
  <2>2. Member(TestName, Number(0)) \in Members({Number(v) : v \in CInt})
    BY DEF NamesAssumption, ValuesAssumption, Member, Members
  <2>3. Flat(object')
    <3> DEFINE M == Members({Number(v) : v \in CInt})
    <3>1. <<Member(TestName, Number(0))>> \in Seq(M)
      BY <2>2
    <3> QED
      BY <2>1, <3>1 DEF Flat
  <2> QED
    BY <1>1, <2>3, Written DEF InitStatusFile
<1>2. ASSUME NEW s \in Names, NEW v \in Values, NEW g, Record(s, v, g)
      PROVE  IInv'
  <2>1. Flat(object) /\ s \in Seq(Char) /\ v \in CInt
    BY DEF IInv, NamesAssumption, ValuesAssumption
  <2>2. object' = Recorded(object, s, v) /\ Overwrite(object')
    <3> DEFINE read == Read(file, g).item
    <3>1. read = object /\ Overwrite(Recorded(read, s, v)) /\ object' = Recorded(object, s, v)
      BY <1>2 DEF Record, Found
    <3> HIDE DEF read
    <3> QED
      BY <3>1
  <2>3. Flat(object')
    BY <2>1, <2>2, RecordedFlat
  <2> QED
    BY <2>2, <2>3, Written
<1>3. ASSUME NEW g, Mistake(g) \/ Refuse(g)
      PROVE  IInv'
  BY <1>3 DEF Mistake, Refuse, IInv
<1>4. CASE UNCHANGED vars
  BY <1>4 DEF vars, IInv
<1> QED
  BY <1>1, <1>2, <1>3, <1>4 DEF Next

\* Whatever sids and values are recorded, the file begins with the text of the object.
THEOREM Invariance == Spec => []IInv
<1>1. NamesAssumption /\ ValuesAssumption /\ LimitAssumption
  BY NamesAssumption, ValuesAssumption, LimitAssumption
<1>2. Init => IInv
  BY InitIInv
<1>3. IInv /\ [Next]_vars => IInv'
  BY <1>1, NextIInv
<1> QED
  BY <1>2, <1>3, PTL DEF Spec

\* The documents are items, and objects.
LEMMA DocumentsNested ==
  ASSUME IInv, NEW d \in Documents
  PROVE  d \in Nested[Nesting] /\ d.type = "object"
<1>1. Flat(object) /\ \A x : Object(x).children = x /\ Object(x).type = "object"
  BY DEF IInv, Object
<1>2. PICK c \in Seq(Members({Number(v) : v \in CInt})) : object = Object(c)
  BY <1>1 DEF Flat
<1>3. object.children = c
  BY <1>1, <1>2
<1>4. \A k \in DOMAIN c : c[k].name \in Seq(Char) /\ c[k].item.num \in CInt
  <2>1. \A k \in DOMAIN c : c[k] \in Members({Number(v) : v \in CInt})
    OBVIOUS
  <2>2. \A m \in Members({Number(v) : v \in CInt}) : m.name \in Seq(Char) /\ m.item.num \in CInt
    BY DEF Members, Number
  <2> QED
    BY <2>1, <2>2
<1>5. /\ \A n \in 1..5 : /\ \A v \in CInt : Number(v) \in Nested[n]
                         /\ \A s \in Seq(Char) : String(s) \in Nested[n]
      /\ \A n \in 1..4 : /\ \A x \in Seq(Nested[n]) : Array(x) \in Nested[n + 1]
                         /\ \A x \in Seq(Members(Nested[n])) : Object(x) \in Nested[n + 1]
  <2>1. \A n \in 1..5 : n - 1 \in Nat /\ n - 1 + 1 = n
    OBVIOUS
  <2>2. \A n \in 1..4 : n \in Nat
    OBVIOUS
  <2> QED
    BY <2>1, <2>2, NestedItems
<1>6. /\ Cmd \in Seq(Char) /\ Device \in Seq(Char) /\ Objects \in Seq(Char) /\ Sid \in Seq(Char)
      /\ Value \in Seq(Char) /\ Uuid \in Seq(Char) /\ Ip \in Seq(Char) /\ <<>> \in Seq(Char)
  <2>1. \A x \in Char : <<x>> \in Seq(Char)
    OBVIOUS
  <2>2. {99, 100, 111, 115, 118, 117, 105} \subseteq Char
    BY DEF Char
  <2> QED
    BY <2>1, <2>2 DEF Cmd, Device, Objects, Sid, Value, Uuid, Ip
<1>7. \A n \in 1..5 : \A s \in Seq(Char), i \in Nested[n] : Member(s, i) \in Members(Nested[n])
  BY DEF Member, Members
<1>8. ASSUME NEW s \in Seq(Char), NEW v \in CInt
      PROVE  StatusUpload(s, v) \in Nested[5] /\ StatusUpload(s, v).type = "object"
  <2> DEFINE a == Object(<<Member(Sid, String(s)), Member(Value, Number(v))>>)
  <2> DEFINE b == Array(<<a>>)
  <2> DEFINE e == Object(<<Member(Objects, b)>>)
  <2>1. a \in Nested[2]
    <3>1. String(s) \in Nested[1] /\ Number(v) \in Nested[1]
      BY <1>5
    <3>2. /\ Member(Sid, String(s)) \in Members(Nested[1])
          /\ Member(Value, Number(v)) \in Members(Nested[1])
      BY <1>6, <1>7, <3>1
    <3>3. <<Member(Sid, String(s)), Member(Value, Number(v))>> \in Seq(Members(Nested[1]))
      BY <3>2
    <3>4. 1 \in 1..4 /\ 1 + 1 = 2
      OBVIOUS
    <3> QED
      BY <1>5, <3>3, <3>4
  <2> HIDE DEF a
  <2>2. b \in Nested[3]
    <3>1. <<a>> \in Seq(Nested[2])
      <4>1. \A S : \A x \in S : <<x>> \in Seq(S)
        OBVIOUS
      <4> QED
        BY <2>1, <4>1
    <3>2. 2 \in 1..4 /\ 2 + 1 = 3
      OBVIOUS
    <3> QED
      BY <1>5, <3>1, <3>2
  <2> HIDE DEF b
  <2>3. e \in Nested[4]
    <3>1. Member(Objects, b) \in Members(Nested[3])
      BY <1>6, <1>7, <2>2
    <3>2. <<Member(Objects, b)>> \in Seq(Members(Nested[3])) /\ 3 \in 1..4 /\ 3 + 1 = 4
      BY <3>1
    <3> QED
      BY <1>5, <3>2
  <2> HIDE DEF e
  <2>4. Object(<<Member(Cmd, String(Sid)), Member(Device, e)>>) \in Nested[5]
    <3>1. String(Sid) \in Nested[4]
      BY <1>5, <1>6
    <3>2. /\ Member(Cmd, String(Sid)) \in Members(Nested[4])
          /\ Member(Device, e) \in Members(Nested[4])
      BY <1>6, <1>7, <2>3, <3>1
    <3>3. <<Member(Cmd, String(Sid)), Member(Device, e)>> \in Seq(Members(Nested[4]))
          /\ 4 \in 1..4 /\ 4 + 1 = 5
      BY <3>2
    <3> QED
      BY <1>5, <3>3
  <2> QED
    BY <1>1, <2>4 DEF StatusUpload, e, b, a
<1>9. ASSUME NEW s \in Seq(Char)
      PROVE  Offline(s) \in Nested[5] /\ Offline(s).type = "object"
  <2>1. String(Cmd) \in Nested[4] /\ String(s) \in Nested[4] /\ String(<<>>) \in Nested[4]
    <3>1. 4 \in 1..5
      OBVIOUS
    <3>2. \A w \in Seq(Char) : String(w) \in Nested[4]
      BY <1>5, <3>1
    <3> QED
      BY <1>6, <3>2
  <2>2. /\ Member(Cmd, String(Cmd)) \in Members(Nested[4])
        /\ Member(Uuid, String(s)) \in Members(Nested[4])
        /\ Member(Value, String(<<>>)) \in Members(Nested[4])
    BY <1>6, <1>7, <2>1
  <2>3. <<Member(Cmd, String(Cmd)), Member(Uuid, String(s)), Member(Value, String(<<>>))>>
          \in Seq(Members(Nested[4])) /\ 4 \in 1..4 /\ 4 + 1 = 5
    BY <2>2
  <2> QED
    BY <1>1, <1>5, <2>3 DEF Offline
<1>10. ASSUME NEW u \in Seq(Seq(Char))
       PROVE  ItachsConfig(u) \in Nested[5] /\ ItachsConfig(u).type = "object"
  <2> DEFINE x(k) == Object(<<Member(Uuid, String(u[k])), Member(Ip, String(Ip))>>)
  <2> DEFINE a == Array([k \in DOMAIN u |-> x(k)])
  <2>1. ASSUME NEW k \in DOMAIN u
        PROVE  x(k) \in Nested[3]
    <3>1. u[k] \in Seq(Char)
      OBVIOUS
    <3>2. String(u[k]) \in Nested[2] /\ String(Ip) \in Nested[2]
      BY <1>5, <1>6, <3>1, SMTT(30)
    <3>3. /\ Member(Uuid, String(u[k])) \in Members(Nested[2])
          /\ Member(Ip, String(Ip)) \in Members(Nested[2])
      BY <1>6, <1>7, <3>2
    <3>4. <<Member(Uuid, String(u[k])), Member(Ip, String(Ip))>> \in Seq(Members(Nested[2]))
          /\ 2 \in 1..4 /\ 2 + 1 = 3
      BY <3>3
    <3> QED
      BY <1>5, <3>4
  <2> HIDE DEF x
  <2>2. [k \in DOMAIN u |-> x(k)] \in Seq(Nested[3])
    <3>1. DOMAIN u = 1..Len(u) /\ Len(u) \in Nat
      OBVIOUS
    <3> DEFINE N == Nested[3]
    <3> DEFINE n == Len(u)
    <3>2. n \in Nat /\ \A k \in 1..n : x(k) \in N
      BY <2>1, <3>1
    <3> HIDE DEF N, n
    <3>3. [k \in 1..n |-> x(k)] \in Seq(N)
      BY <3>2
    <3> QED
      BY <3>1, <3>3 DEF N, n
  <2>3. a \in Nested[4]
    <3>1. 3 \in 1..4 /\ 3 + 1 = 4
      OBVIOUS
    <3> QED
      BY <1>5, <2>2, <3>1
  <2> HIDE DEF a
  <2>4. Object(<<Member(Device, a)>>) \in Nested[5]
    <3>1. Member(Device, a) \in Members(Nested[4])
      BY <1>6, <1>7, <2>3
    <3>2. <<Member(Device, a)>> \in Seq(Members(Nested[4])) /\ 4 \in 1..4 /\ 4 + 1 = 5
      BY <3>1
    <3> QED
      BY <1>5, <3>2
  <2> QED
    BY <1>1, <2>4 DEF ItachsConfig, a, x
<1>11. CASE d = object
  BY <1>1, <1>11, FlatNested
<1>12. CASE d = ItachsConfig([k \in DOMAIN c |-> c[k].name])
  <2>1. DOMAIN c = 1..Len(c) /\ Len(c) \in Nat
    OBVIOUS
  <2>2. [k \in DOMAIN c |-> c[k].name] \in Seq(Seq(Char))
    BY <1>4, <2>1
  <2> QED
    BY <1>10, <1>12, <2>2 DEF Nesting
<1>13. ASSUME NEW k \in DOMAIN c,
              d \in {StatusUpload(c[k].name, c[k].item.num), Offline(c[k].name)}
       PROVE  d \in Nested[Nesting] /\ d.type = "object"
  BY <1>4, <1>8, <1>9, <1>13 DEF Nesting
<1> QED
  BY <1>3, <1>11, <1>12, <1>13 DEF Documents

\* A file that holds the text of an object means it when the text fits what is read, and is
\* refused when it does not and a zero follows.
LEMMA TextRead ==
  ASSUME IInv, LimitAssumption, BeyondAssumption
  PROVE  TextIsObject
<1> SUFFICES ASSUME file # <<>>
             PROVE  IF InLimit THEN \A g \in Beyond : Found(g) ELSE Refused(<<>>)
  BY DEF TextIsObject
<1>1. /\ Flat(object) /\ file \in Seq(Char) /\ StandsAt(file, 1, PrintValue(object, 0))
      /\ Whole(file, 1, PrintValue(object, 0))
  BY DEF IInv
<1>2. Beyond \subseteq Seq(Char) /\ <<>> \in Seq(Char)
  BY DEF BeyondAssumption
<1>3. Len(PrintValue(object, 0)) \in Nat
  BY <1>1, FlatNested, PrintedText
<1> DEFINE l == Len(PrintValue(object, 0))
<1>4. ASSUME NEW g \in Seq(Char)
      PROVE  /\ InLimit => Read(file, g) = Parsed(1 + l, object)
             /\ ~InLimit => Read(file, <<>>).next = 0
  BY <1>1, ReadFile DEF InLimit
<1> HIDE DEF l
<1>5. \A item : Parsed(1 + l, item).item = item /\ Parsed(1 + l, item).next # 0
  BY <1>3 DEF Parsed, l
<1>6. ASSUME NEW g \in Beyond, InLimit
      PROVE  Found(g)
  BY <1>2, <1>4, <1>5, <1>6 DEF Found, Refused
<1>7. ASSUME ~InLimit
      PROVE  Refused(<<>>)
  BY <1>2, <1>4, <1>7 DEF Refused
<1> QED
  BY <1>6, <1>7

\* The file means the object when its text fits what is read, for any read limit, whatever was
\* recorded before and whatever stands behind the buffer; when it does not fit and a zero
\* follows, it is refused (status_file.c:42-55, 73).
THEOREM TextIsObjectTheorem == Spec => []TextIsObject
<1>1. IInv => TextIsObject
  BY LimitAssumption, BeyondAssumption, TextRead
<1> QED
  BY <1>1, Invariance, PTL

\* Every document is read back, whatever characters the sids are made of and whichever ints
\* the values are (cJSON.c:192-307, 550-658).
THEOREM ReadsBackTheorem == Spec => []ReadsBack
<1>1. ASSUME IInv
      PROVE  ReadsBack
  <2> SUFFICES ASSUME NEW d \in Documents
               PROVE  Parse(PrintValue(d, 0)) = Parsed(Len(PrintValue(d, 0)) + 1, d)
    BY DEF ReadsBack
  <2>1. d \in Nested[Nesting] /\ Nesting \in Nat /\ 0 \in Nat
    BY <1>1, DocumentsNested DEF Nesting
  <2> QED
    BY <2>1, PrintedReadsBack DEF PrintValue
<1> QED
  BY <1>1, Invariance, PTL

\* Every document that is cut and has a zero behind it is refused, never taken for a shorter
\* one (cJSON.c:429, 545).
THEOREM CutRefusedTheorem == Spec => []CutRefused
<1>1. ASSUME IInv
      PROVE  CutRefused
  <2> SUFFICES ASSUME NEW d \in Documents, NEW n \in 0..Len(PrintValue(d, 0)) - 1
               PROVE  Parse(SubSeq(PrintValue(d, 0), 1, n)).next = 0
    BY DEF CutRefused
  <2>1. d \in Nested[Nesting] /\ d.type = "object" /\ Nesting \in Nat /\ 0 \in Nat
    BY <1>1, DocumentsNested DEF Nesting
  <2> QED
    BY <2>1, PrintedCutRefused DEF PrintValue
<1> QED
  BY <1>1, Invariance, PTL

\* No buffer is too short for a document or what is in it, for any number of statuses
\* (cJSON.c:278, 481, 619-624).
THEOREM BuffersFitTheorem == Spec => []BuffersFit
<1>1. ASSUME IInv
      PROVE  BuffersFit
  <2>1. \A d \in Documents : d \in Nested[Nesting] /\ Nesting \in Nat /\ 0 \in Nat
    BY <1>1, DocumentsNested DEF Nesting
  <2> QED
    BY <2>1, PrintedFits DEF BuffersFit
<1> QED
  BY <1>1, Invariance, PTL

-----------------------------------------------------------------------------
(* How long the text gets, and that it is never refused.                   *)

\* The members of an object of numbers: its names are S, each once, and its values V.
Listing(S, V) == {c \in Seq([name : S, item : {Number(v) : v \in V}]) :
                    \A j, k \in DOMAIN c : c[j].name = c[k].name => j = k}

\* What a name and a value take of the text, at most w.
LineFits(S, V, w) ==
    \A n \in S, v \in V : 5 + Len(PrintString(n)) + Len(PrintNumber(v)) <= w

\* What a member takes of the status text, with its tab, two quotes, colon, comma and newline.
Takes(m) == 5 + Len(PrintString(m.name)) + Len(PrintNumber(m.item.num))

\* The text of an object of numbers is as long as its members, and two braces.
LEMMA FlatText ==
  ASSUME NEW c \in Seq(Members({Number(v) : v \in CInt})), c # <<>>
  PROVE  /\ [k \in 1..Len(c) |-> Takes(c[k])] \in Seq(Int)
         /\ Total([k \in 1..Len(c) |-> Takes(c[k])]) \in Int
         /\ Len(PrintValue(Object(c), 0)) = 2 + Total([k \in 1..Len(c) |-> Takes(c[k])])
<1> DEFINE value == Printed[4]
<1> DEFINE inner == Nested[4]
<1> DEFINE n == Len(c)
<1> DEFINE d == [k \in DOMAIN c |-> MemberLength(c[k], 0, value)]
<1> DEFINE e == [k \in 1..n |-> Takes(c[k])]
<1>1. n \in Nat /\ DOMAIN c = 1..n /\ 0 + 1 = 1
  OBVIOUS
<1>2. \A v \in CInt : Number(v) \in inner
  <2>1. 3 \in Nat /\ 3 + 1 = 4
    OBVIOUS
  <2> QED
    BY <2>1, NestedItems
<1>3. c \in Seq(Members(inner))
  <2>1. {Number(v) : v \in CInt} \subseteq inner
    BY <1>2
  <2>2. Members({Number(v) : v \in CInt}) \subseteq Members(inner)
    BY <2>1 DEF Members
  <2> QED
    BY <2>2
<1>4. PrintValue(Object(c), 0) = PrintObject(c, 0, value)
  <2>1. Object(c) \in Nested[5]
    BY FlatNested DEF Flat, Nesting
  <2>2. 4 \in Nat /\ 4 + 1 = 5 /\ 0 \in Nat
    OBVIOUS
  <2>3. Printed[5] = [item \in Nested[5] |-> [depth \in Nat |-> PrintItem(item, depth, value)]]
    BY <2>2, PrintedSteps
  <2>4. Printed[5][Object(c)][0] = PrintItem(Object(c), 0, value)
    BY <2>1, <2>2, <2>3
  <2> QED
    BY <2>4, PrintCases DEF PrintValue, Nesting
<1>5. \A x \in inner : value[x][0 + 1] \in Seq(Char)
  <2>1. 4 \in Nat /\ 1 \in Nat
    OBVIOUS
  <2> QED
    BY <1>1, <2>1, TextShape DEF Shaped
<1>6. \A v \in CInt : value[Number(v)][0 + 1] = PrintNumber(v)
  <2>1. 3 \in Nat /\ 3 + 1 = 4 /\ 1 \in Nat
    OBVIOUS
  <2>2. value = [item \in inner |-> [depth \in Nat |-> PrintItem(item, depth, Printed[3])]]
    BY <2>1, PrintedSteps
  <2>3. \A v \in CInt : value[Number(v)][1] = PrintItem(Number(v), 1, Printed[3])
    BY <1>2, <2>1, <2>2
  <2> QED
    BY <1>1, <2>3, PrintCases
<1>7. ASSUME NEW k \in 1..n
      PROVE  d[k] = Takes(c[k])
  <2>1. c[k] \in Members({Number(v) : v \in CInt})
    BY <1>1
  <2>2. PICK v \in CInt : c[k].item = Number(v)
    BY <2>1 DEF Members
  <2>3. c[k].item.num = v
    BY <2>2 DEF Number
  <2>4. d[k] = 4 + (0 + 1) + Len(PrintString(c[k].name)) + Len(PrintNumber(v))
    BY <1>1, <1>6, <2>2 DEF MemberLength
  <2> HIDE DEF d
  <2> QED
    BY <2>3, <2>4 DEF Takes
<1>8. d = e
  BY <1>1, <1>7
<1> HIDE DEF d, e
<1>9. /\ d \in Seq(Int) /\ Total(d) \in Int
      /\ Len(PrintObject(c, 0, value)) = 2 + 0 + Total(d)
  <2>1. 0 \in Nat
    OBVIOUS
  <2> HIDE DEF value, inner
  <2> QED
    BY <1>3, <1>5, <2>1, ObjectLength, SMTT(30) DEF d
<1> QED
  BY <1>4, <1>8, <1>9 DEF e, n

\* An object of numbers is no longer than so many of its longest lines.
LEMMA FlatLength ==
  ASSUME NEW c \in Seq(Members({Number(v) : v \in CInt})), c # <<>>,
         NEW w \in Nat, LineFits({c[k].name : k \in DOMAIN c}, {c[k].item.num : k \in DOMAIN c}, w)
  PROVE  Len(PrintValue(Object(c), 0)) <= 2 + Len(c) * w
<1> DEFINE e == [k \in 1..Len(c) |-> Takes(c[k])]
<1>1. e \in Seq(Int) /\ Total(e) \in Int /\ Len(PrintValue(Object(c), 0)) = 2 + Total(e)
  BY FlatText
<1>2. Len(c) \in Nat /\ Len(e) = Len(c)
  OBVIOUS
<1>3. \A k \in 1..Len(c) : e[k] <= w
  BY DEF LineFits, Takes
<1> HIDE DEF e
<1>4. Total(e) <= Len(c) * w
  <2>1. \A k \in 1..Len(e) : e[k] <= w
    BY <1>2, <1>3
  <2>2. Total(e) <= Len(e) * w
    BY <1>1, <2>1, TotalAtMost
  <2> QED
    BY <1>2, <2>2
<1> DEFINE t == Total(e)
<1> DEFINE p == Len(c) * w
<1>5. t \in Int /\ p \in Int /\ t <= p
  BY <1>1, <1>2, <1>4
<1> HIDE DEF t, p
<1>6. 2 + t <= 2 + p
  BY <1>5
<1> QED
  BY <1>1, <1>6 DEF t, p

\* The object lists each sid once; a file that has been made lists the test sid at least.
Listed ==
    /\ \E c \in Listing(Names \union {TestName}, Values) : object = Object(c)
    /\ file # <<>> => object # Object(<<>>)

\* Recording a status of a sid that is listed moves it to the end, so that each is listed once.
LEMMA RecordedListed ==
  ASSUME NEW S, S \subseteq Seq(Char), \A a, b \in S : SameName(a, b) => a = b, NEW V,
         NEW c \in Listing(S, V), NEW s \in S, NEW v \in V
  PROVE  \E d \in Listing(S, V) : d # <<>> /\ Recorded(Object(c), s, v) = Object(d)
<1> DEFINE M == [name : S, item : {Number(x) : x \in V}]
<1> DEFINE I == {i \in 1..Len(c) : SameName(c[i].name, s)}
<1> DEFINE p == Position(Object(c), s)
<1>1. c \in Seq(M) /\ \A j, k \in DOMAIN c : c[j].name = c[k].name => j = k
  BY DEF Listing
<1>2. Len(c) \in Nat /\ DOMAIN c = 1..Len(c) /\ \A k \in 1..Len(c) : c[k] \in M
  <2> HIDE DEF M
  <2>1. c \in Seq(M)
    BY <1>1
  <2> QED
    BY <2>1
<1>3. \A d : Object(d).children = d
  BY DEF Object
<1>4. Member(s, Number(v)) \in M /\ Member(s, Number(v)).name = s
  BY DEF Member
<1>5. p = IF I # {} THEN CHOOSE x \in I : \A y \in I : x <= y ELSE 0
  <2>1. p = SelectInSeq(c, LAMBDA m : SameName(m.name, s))
    BY <1>3 DEF Position
  <2> QED
    BY <2>1 DEF SelectInSeq, Min
<1>6. I # {} => p \in I
  <2>1. I \subseteq Nat
    OBVIOUS
  <2> HIDE DEF I, p
  <2>2. I # {} => \E x \in I : \A y \in I : x <= y
    BY <2>1, Least
  <2> QED
    BY <1>5, <2>2
<1>7. ASSUME NEW k \in 1..Len(c)
      PROVE  k \in I <=> c[k].name = s
  <2>1. c[k].name \in S
    BY <1>2
  <2>2. SameName(c[k].name, s) => c[k].name = s
    BY <2>1
  <2>3. c[k].name = s => SameName(c[k].name, s)
    BY DEF SameName
  <2> QED
    BY <2>2, <2>3
<1> HIDE DEF M
<1>8. ASSUME NEW d \in Seq(M), \A j, k \in 1..Len(d) : d[j].name = d[k].name => j = k,
             \A k \in 1..Len(d) : d[k].name # s
      PROVE  /\ Append(d, Member(s, Number(v))) \in Listing(S, V)
             /\ Append(d, Member(s, Number(v))) # <<>>
  <2> DEFINE e == Append(d, Member(s, Number(v)))
  <2>1. e \in Seq(M) /\ Len(e) = Len(d) + 1 /\ Len(d) \in Nat /\ DOMAIN e = 1..Len(e)
        /\ \A k \in 1..Len(d) : e[k] = d[k]
    BY <1>4
  <2>2. e[Len(d) + 1].name = s
    BY <1>4
  <2> HIDE DEF e
  <2>3. \A k \in DOMAIN e : k \in 1..Len(d) \/ k = Len(d) + 1
    BY <2>1
  <2>4. ASSUME NEW j \in DOMAIN e, NEW k \in DOMAIN e, e[j].name = e[k].name
        PROVE  j = k
    <3>1. CASE j \in 1..Len(d) /\ k \in 1..Len(d)
      BY <1>8, <2>1, <2>4, <3>1
    <3>2. CASE j = Len(d) + 1 /\ k = Len(d) + 1
      BY <3>2
    <3>3. CASE j \in 1..Len(d) /\ k = Len(d) + 1
      BY <1>8, <2>1, <2>2, <2>4, <3>3
    <3>4. CASE j = Len(d) + 1 /\ k \in 1..Len(d)
      BY <1>8, <2>1, <2>2, <2>4, <3>4
    <3> QED
      BY <2>3, <3>1, <3>2, <3>3, <3>4
  <2>5. e # <<>>
    BY <2>1
  <2> QED
    BY <2>1, <2>4, <2>5 DEF Listing, M, e
<1>9. \A d : DeleteItemFromObject(Object(c), s) = Object(d) =>
        Recorded(Object(c), s, v) = Object(Append(d, Member(s, Number(v))))
  BY <1>3 DEF Recorded, AddItemToObject
<1>10. CASE I = {}
  <2>1. p = 0
    BY <1>5, <1>10
  <2>2. DeleteItemFromObject(Object(c), s) = Object(c)
    BY <2>1 DEF DeleteItemFromObject
  <2>3. \A k \in 1..Len(c) : c[k].name # s
    BY <1>7, <1>10
  <2> HIDE DEF I, p
  <2> QED
    BY <1>1, <1>2, <1>8, <1>9, <2>2, <2>3
<1>11. CASE I # {}
  <2> DEFINE d == RemoveAt(c, p)
  <2>1. p \in 1..Len(c) /\ c[p].name = s
    BY <1>6, <1>7, <1>11
  <2>2. DeleteItemFromObject(Object(c), s) = Object(d)
    <3>1. p # 0
      BY <2>1
    <3> QED
      BY <1>3, <3>1 DEF DeleteItemFromObject
  <2> HIDE DEF I, p
  <2>3. d \in Seq(M) /\ Len(d) = Len(c) - 1
        /\ \A k \in 1..Len(d) : d[k] = c[IF k < p THEN k ELSE k + 1]
    <3> DEFINE a == SubSeq(c, 1, p - 1)
    <3> DEFINE b == SubSeq(c, p + 1, Len(c))
    <3>1. a \in Seq(M) /\ Len(a) = p - 1 /\ \A k \in 1..p - 1 : a[k] = c[k]
      BY <1>1, <1>2, <2>1
    <3>2. b \in Seq(M) /\ Len(b) = Len(c) - p /\ \A k \in 1..Len(c) - p : b[k] = c[p + k]
      <4> DEFINE e == p + 1
      <4> DEFINE l == Len(c)
      <4>1. /\ e \in Int /\ l \in Int /\ l - e + 1 = l - p
            /\ \A i \in e..l : c[i] \in M
            /\ \A k \in 1..l - p : e + k - 1 = p + k
        <5>1. e \in Int /\ l \in Int /\ l - e + 1 = l - p /\ p \in Int
          BY <1>2, <2>1
        <5>2. ASSUME NEW i \in e..l
              PROVE  c[i] \in M
          <6>1. i \in 1..Len(c)
            BY <1>2, <2>1
          <6> QED
            BY <1>2, <6>1
        <5>3. \A k \in 1..l - p : e + k - 1 = p + k
          BY <5>1
        <5> HIDE DEF e, l
        <5> QED
          BY <5>1, <5>2, <5>3
      <4>2. l - p = IF e <= l THEN l - e + 1 ELSE 0
        <5>1. l \in Nat /\ p \in 1..l
          BY <1>2, <2>1
        <5> HIDE DEF l
        <5> QED
          BY <5>1
      <4> HIDE DEF e, l
      <4>3. /\ SubSeq(c, e, l) \in Seq(M)
            /\ Len(SubSeq(c, e, l)) = IF e <= l THEN l - e + 1 ELSE 0
            /\ \A k \in 1..l - e + 1 : SubSeq(c, e, l)[k] = c[e + k - 1]
        BY <4>1, SubSeqProperties
      <4>4. Len(SubSeq(c, e, l)) = l - p
        BY <4>2, <4>3
      <4> QED
        BY <4>1, <4>3, <4>4 DEF e, l
    <3>3. d = a \o b
      BY DEF RemoveAt
    <3> HIDE DEF a, b, d
    <3>4. d \in Seq(M) /\ Len(d) = Len(a) + Len(b)
          /\ \A k \in 1..Len(d) : d[k] = IF k <= Len(a) THEN a[k] ELSE b[k - Len(a)]
      <4>1. \A k \in 1..Len(a) + Len(b) :
              (a \o b)[k] = IF k <= Len(a) THEN a[k] ELSE b[k - Len(a)]
        BY <3>1, <3>2, ConcatProperties
      <4>2. a \o b \in Seq(M) /\ Len(a \o b) = Len(a) + Len(b)
        BY <3>1, <3>2, ConcatProperties
      <4> QED
        BY <3>3, <4>1, <4>2
    <3>5. Len(d) = Len(c) - 1
      BY <1>2, <2>1, <3>1, <3>2, <3>4
    <3>6. ASSUME NEW k \in 1..Len(d)
          PROVE  d[k] = c[IF k < p THEN k ELSE k + 1]
      <4>1. CASE k < p
        BY <1>2, <2>1, <3>1, <3>4, <4>1
      <4>2. CASE ~(k < p)
        <5>1. k - (p - 1) \in 1..Len(c) - p /\ p + (k - (p - 1)) = k + 1 /\ ~(k <= p - 1)
          BY <1>2, <2>1, <3>5, <4>2
        <5> QED
          BY <3>1, <3>2, <3>4, <4>2, <5>1
      <4> QED
        BY <4>1, <4>2
    <3> QED
      BY <3>4, <3>5, <3>6
  <2> HIDE DEF d
  <2> DEFINE from(k) == IF k < p THEN k ELSE k + 1
  <2>4. ASSUME NEW k \in 1..Len(d)
        PROVE  from(k) \in 1..Len(c) /\ from(k) # p /\ d[k] = c[from(k)]
    BY <1>2, <2>1, <2>3
  <2>5. \A j, k \in 1..Len(d) : from(j) = from(k) => j = k
    BY <1>2, <2>1, <2>3
  <2> HIDE DEF from
  <2>6. \A j, k \in 1..Len(d) : d[j].name = d[k].name => j = k
    BY <1>1, <1>2, <2>4, <2>5
  <2>7. \A k \in 1..Len(d) : d[k].name # s
    BY <1>1, <1>2, <2>1, <2>4
  <2> QED
    BY <1>8, <1>9, <2>2, <2>3, <2>6, <2>7
<1> QED
  BY <1>10, <1>11

\* No step lists a sid twice, or one that is not a device's or the test sid.
LEMMA NextListed ==
  ASSUME IInv, Listed, [Next]_vars, NamesAssumption, ValuesAssumption, LimitAssumption
  PROVE  Listed'
<1> DEFINE S == Names \union {TestName}
<1>1. \A d : Object(d).children = d
  BY DEF Object
<1>2. CASE InitStatusFile
  <2> DEFINE d == <<Member(TestName, Number(0))>>
  <2>1. object' = Object(d)
    <3>1. object' = AddItemToObject(Object(<<>>), TestName, Number(0))
      BY <1>2 DEF InitStatusFile
    <3>2. \A m : Append(<<>>, m) = <<m>>
      OBVIOUS
    <3> QED
      BY <1>1, <3>1, <3>2 DEF AddItemToObject
  <2>2. d \in Listing(S, Values)
    <3>1. Member(TestName, Number(0)) \in [name : S, item : {Number(v) : v \in Values}]
      BY DEF ValuesAssumption, Member
    <3> QED
      BY <3>1 DEF Listing
  <2>3. d # <<>>
    OBVIOUS
  <2> HIDE DEF d
  <2>4. Object(d) # Object(<<>>)
    BY <1>1, <2>3
  <2> QED
    BY <2>1, <2>2, <2>4 DEF Listed
<1>3. ASSUME NEW s \in Names, NEW v \in Values, NEW g, Record(s, v, g)
      PROVE  Listed'
  <2>1. PICK c \in Listing(S, Values) : object = Object(c)
    BY DEF Listed
  <2>2. object' = Recorded(object, s, v)
    BY <1>3 DEF Record
  <2>3. S \subseteq Seq(Char) /\ (\A a, b \in S : SameName(a, b) => a = b) /\ s \in S
    BY DEF NamesAssumption
  <2> HIDE DEF S
  <2>4. PICK d \in Listing(S, Values) : d # <<>> /\ Recorded(Object(c), s, v) = Object(d)
    BY <2>3, RecordedListed
  <2>5. Object(d) # Object(<<>>)
    BY <1>1, <2>4
  <2> QED
    BY <2>1, <2>2, <2>4, <2>5 DEF Listed, S
<1>4. ASSUME NEW g, Mistake(g) \/ Refuse(g)
      PROVE  Listed'
  BY <1>4 DEF Mistake, Refuse, Listed
<1>5. CASE UNCHANGED vars
  BY <1>5 DEF vars, Listed
<1> QED
  BY <1>2, <1>3, <1>4, <1>5 DEF Next

\* A list has no more members than there are sids.
LEMMA ListingShort ==
  ASSUME NEW S, IsFiniteSet(S), NEW V, NEW c \in Listing(S, V)
  PROVE  Cardinality(S) \in Nat /\ Len(c) <= Cardinality(S)
<1>1. /\ c \in Seq([name : S, item : {Number(v) : v \in V}])
      /\ \A j, k \in DOMAIN c : c[j].name = c[k].name => j = k
  BY DEF Listing
<1> DEFINE n == Len(c)
<1> DEFINE f == [k \in 1..n |-> c[k].name]
<1>2. n \in Nat /\ DOMAIN c = 1..n /\ \A k \in 1..n : c[k].name \in S
  <2>1. n \in Nat /\ DOMAIN c = 1..n
    BY <1>1
  <2>2. \A k \in 1..n : c[k] \in [name : S, item : {Number(v) : v \in V}]
    <3> DEFINE M == [name : S, item : {Number(v) : v \in V}]
    <3>1. c \in Seq(M)
      BY <1>1
    <3> HIDE DEF M
    <3>2. \A k \in 1..Len(c) : c[k] \in M
      BY <3>1
    <3> QED
      BY <3>2 DEF n, M
  <2> QED
    BY <2>1, <2>2
<1>3. f \in [1..n -> S] /\ \A j, k \in 1..n : f[j] = f[k] => j = k
  BY <1>1, <1>2
<1> HIDE DEF n, f
<1> QED
  BY <1>2, <1>3, NoRepeats DEF n

\* The members of a list are members of an object of numbers.
LEMMA ListingFlat ==
  ASSUME NamesAssumption, ValuesAssumption, NEW c \in Listing(Names \union {TestName}, Values)
  PROVE  /\ c \in Seq(Members({Number(v) : v \in CInt}))
         /\ \A k \in 1..Len(c) : c[k].name \in Names \union {TestName} /\ c[k].item.num \in Values
<1> DEFINE M == [name : Names \union {TestName}, item : {Number(v) : v \in Values}]
<1> DEFINE N == Members({Number(v) : v \in CInt})
<1>1. c \in Seq(M)
  BY DEF Listing
<1>2. M \subseteq N
  BY DEF NamesAssumption, ValuesAssumption, Members
<1>3. \A m \in M : m.name \in Names \union {TestName} /\ m.item.num \in Values
  BY DEF Number
<1> HIDE DEF M, N
<1>4. c \in Seq(N) /\ \A k \in 1..Len(c) : c[k] \in M
  BY <1>1, <1>2
<1> QED
  BY <1>3, <1>4 DEF N

\* Nothing is listed at the start.
LEMMA InitListed == Init => Listed
<1> SUFFICES ASSUME Init
             PROVE  Listed
  OBVIOUS
<1>1. object = Object(<<>>) /\ file = <<>>
  BY DEF Init
<1>2. <<>> \in Listing(Names \union {TestName}, Values)
  BY DEF Listing
<1> QED
  BY <1>1, <1>2 DEF Listed

\* Where the text of all devices fits what is read, the driver never refuses the file and never
\* takes it for another: w is the longest line of a device (status_file.c:42-55).
THEOREM NeverRefused ==
  ASSUME IsFiniteSet(Names), NEW w \in Nat, LineFits(Names \union {TestName}, Values, w),
         2 + Cardinality(Names \union {TestName}) * w <= ReadLimit
  PROVE  Spec => [](life = "up")
<1> DEFINE S == Names \union {TestName}
<1> DEFINE Up == life = "up" /\ Listed
<1>1. NamesAssumption /\ ValuesAssumption /\ LimitAssumption /\ BeyondAssumption
  BY NamesAssumption, ValuesAssumption, LimitAssumption, BeyondAssumption
<1>2. Init => Up
  BY InitListed DEF Init
<1>3. ASSUME IInv, Listed, file # <<>>
      PROVE  Len(PrintValue(object, 0)) <= ReadLimit
  <2>1. PICK c \in Listing(S, Values) : object = Object(c)
    BY <1>3 DEF Listed
  <2>2. c # <<>>
    BY <1>3, <2>1 DEF Listed
  <2>3. /\ c \in Seq(Members({Number(v) : v \in CInt}))
        /\ \A k \in 1..Len(c) : c[k].name \in S /\ c[k].item.num \in Values
    BY <1>1, ListingFlat
  <2>4. DOMAIN c = 1..Len(c) /\ Len(c) \in Nat
    BY <2>3
  <2>6. LineFits({c[k].name : k \in DOMAIN c}, {c[k].item.num : k \in DOMAIN c}, w)
    BY <2>3, <2>4 DEF LineFits
  <2>8. Len(PrintValue(object, 0)) <= 2 + Len(c) * w
    BY <2>1, <2>2, <2>3, <2>6, FlatLength
  <2>9. Cardinality(S) \in Nat /\ Len(c) <= Cardinality(S)
    <3>1. IsFiniteSet(S)
      BY FS_AddElement
    <3> HIDE DEF S
    <3> QED
      BY <3>1, ListingShort
  <2>10. Len(PrintValue(object, 0)) \in Nat /\ Len(c) \in Nat /\ ReadLimit \in Nat
    <3>1. Flat(object)
      BY <1>3 DEF IInv
    <3> QED
      BY <1>1, <2>4, <3>1, FlatNested, PrintedText DEF LimitAssumption
  <2> DEFINE l == Len(PrintValue(object, 0))
  <2> DEFINE m == Len(c)
  <2> DEFINE n == Cardinality(S)
  <2>11. l \in Nat /\ m \in Nat /\ n \in Nat /\ ReadLimit \in Nat /\ m <= n
         /\ l <= 2 + m * w /\ 2 + n * w <= ReadLimit
    BY <2>8, <2>9, <2>10
  <2> HIDE DEF l, m, n
  <2>12. m * w <= n * w
    <3>1. n * w = m * w + (n - m) * w
      BY <2>11
    <3>2. (n - m) * w >= 0
      BY <2>11
    <3> QED
      BY <2>11, <3>1, <3>2
  <2>13. l <= ReadLimit
    BY <2>11, <2>12
  <2> QED
    BY <2>13 DEF l
<1>4. IInv /\ Up /\ [Next]_vars => Up'
  <2> SUFFICES ASSUME IInv, Up, [Next]_vars
               PROVE  Up'
    OBVIOUS
  <2>1. Listed'
    BY <1>1, NextListed
  <2>2. ASSUME NEW g \in Beyond
        PROVE  ~Mistake(g) /\ ~Refuse(g)
    <3> SUFFICES ASSUME file # <<>>
                 PROVE  Found(g)
      BY DEF Mistake, Refuse, Found
    <3>1. InLimit
      BY <1>3 DEF InLimit
    <3>2. TextIsObject
      BY <1>1, TextRead
    <3> QED
      BY <2>2, <3>1, <3>2 DEF TextIsObject
  <2>3. life' = life
    BY <2>2 DEF Next, vars, InitStatusFile, Record
  <2> QED
    BY <2>1, <2>3
<1> QED
  BY <1>2, <1>4, Invariance, PTL DEF Spec

-----------------------------------------------------------------------------
(* That StatusFile counts as long what is long: its sids are 16 plain      *)
(* characters, the test sid is 8.                                          *)
File == INSTANCE StatusSize WITH TestSid <- TestName

\* Characters that stand for themselves.
Plain == {c \in Char : c >= Space /\ c \notin {Quote, Backslash}}
PlainNames ==
    /\ TestName \in Seq(Plain) /\ Len(TestName) = 8
    /\ \A n \in Names : n \in Seq(Plain) /\ Len(n) = 16

\* An object of numbers, the way StatusFile has it.
Pairs(o) == [k \in 1..Len(o.children) |->
               [key |-> o.children[k].name, val |-> o.children[k].item.num]]

\* A name of plain characters is as long as it is, and two quotes.
LEMMA PlainLength ==
  ASSUME NEW s \in Seq(Plain)
  PROVE  Len(PrintString(s)) = Len(s) + 2
<1> DEFINE n == Len(s)
<1>1. s \in Seq(Char) /\ n \in Nat /\ \A k \in 1..n : s[k] \in Plain
  BY DEF Plain
<1>2. PICK o \in [0..n -> Nat] : /\ o[0] = 0
                                 /\ \A k \in 1..n : o[k] = o[k - 1] + Len(Escaped(s[k]))
                                 /\ Len(PrintString(s)) = o[n] + 2
  BY <1>1, StringPlaces
<1>3. ASSUME NEW c \in Plain
      PROVE  Len(Escaped(c)) = 1
  <2>1. c \in Char /\ c \notin DOMAIN Letter \union {Quote, Backslash} /\ ~(c < Space)
    BY LetterShape DEF Plain, Char, Space
  <2> QED
    BY <2>1, EscapedShape
<1> HIDE DEF n
<1> DEFINE T == {k \in 0..n : o[k] = k}
<1>4. 0 \in T
  BY <1>1, <1>2
<1>5. ASSUME NEW k \in 0..n - 1, k \in T
      PROVE  k + 1 \in T
  <2>1. k + 1 \in 1..n /\ k + 1 - 1 = k /\ k + 1 \in 0..n
    BY <1>1
  <2>2. o[k + 1] = o[k] + 1 /\ o[k] = k
    <3>1. s[k + 1] \in Plain
      BY <1>1, <2>1
    <3>2. Len(Escaped(s[k + 1])) = 1
      BY <1>3, <3>1
    <3>3. o[k + 1] = o[k + 1 - 1] + Len(Escaped(s[k + 1])) /\ o[k] = k
      BY <1>2, <1>5, <2>1
    <3> QED
      BY <2>1, <3>2, <3>3
  <2> QED
    BY <2>1, <2>2
<1>6. 0..n \subseteq T
  <2> HIDE DEF T
  <2> QED
    BY <1>1, <1>4, <1>5, BoundedInduction
<1>7. o[n] = n
  BY <1>1, <1>6
<1> QED
  BY <1>2, <1>7 DEF n

\* What StatusFile counts is the length of the text, whatever numbers are in it.
THEOREM SizeIsLength ==
  ASSUME NEW c \in Seq(Members({Number(v) : v \in CInt})), c # <<>>, PlainNames,
         \A k \in 1..Len(c) : c[k].name \in Names \union {TestName}
  PROVE  Len(PrintValue(Object(c), 0)) = File!Size(Pairs(Object(c)))
<1> DEFINE n == Len(c)
<1> DEFINE o == Pairs(Object(c))
<1> DEFINE e == [k \in 1..n |-> Takes(c[k])]
<1> DEFINE d == [k \in DOMAIN o |-> File!Line(o[k])]
<1>1. n \in Nat /\ Object(c).children = c
  BY DEF Object
<1>2. o = [k \in 1..n |-> [key |-> c[k].name, val |-> c[k].item.num]]
  BY <1>1 DEF Pairs
<1>3. DOMAIN o = 1..n /\ \A k \in 1..n : o[k].key = c[k].name /\ o[k].val = c[k].item.num
  BY <1>2
<1>4. \A x : File!Json!Total(x) = Total(x)
  BY DEF File!Json!Total, Total
<1>5. \A x : File!Json!PrintNumber(x) = PrintNumber(x)
  BY DEF File!Json!PrintNumber, PrintNumber, File!Json!Digits, Digits, File!Json!Minus, Minus,
         File!Json!Zero, Zero
<1>6. TestName \notin Names
  BY NamesAssumption DEF NamesAssumption
<1> HIDE DEF o
<1>7. ASSUME NEW k \in 1..n
      PROVE  File!Line(o[k]) = Takes(c[k])
  <2> DEFINE y == Len(PrintNumber(c[k].item.num))
  <2>1. y \in Nat
    <3>1. c[k] \in Members({Number(v) : v \in CInt})
      OBVIOUS
    <3>2. PICK v \in CInt : c[k].item = Number(v)
      BY <3>1 DEF Members
    <3>3. c[k].item.num \in Int
      BY <3>2, CIntegers DEF Number
    <3>4. PrintNumber(c[k].item.num) \in Seq(Char)
      BY <3>3, NumberShape
    <3> QED
      BY <3>4
  <2>2. File!Line(o[k]) = (IF c[k].name = TestName THEN 15 ELSE 23) + y
    BY <1>3, <1>5 DEF File!Line, File!Digits
  <2>3. Len(PrintString(c[k].name)) = IF c[k].name = TestName THEN 10 ELSE 18
    <3>1. CASE c[k].name = TestName
      <4>1. Len(PrintString(TestName)) = Len(TestName) + 2 /\ Len(TestName) = 8
        BY PlainLength DEF PlainNames
      <4> QED
        BY <3>1, <4>1
    <3>2. CASE c[k].name \in Names
      <4>1. c[k].name # TestName
        BY <1>6, <3>2
      <4> QED
        <5>1. c[k].name \in Seq(Plain) /\ Len(c[k].name) = 16
          BY <3>2 DEF PlainNames
        <5>2. Len(PrintString(c[k].name)) = Len(c[k].name) + 2
          BY <5>1, PlainLength
        <5> QED
          BY <4>1, <5>1, <5>2
    <3> QED
      BY <3>1, <3>2
  <2>4. Takes(c[k]) = 5 + (IF c[k].name = TestName THEN 10 ELSE 18) + y
    BY <2>3 DEF Takes
  <2> HIDE DEF y
  <2> QED
    BY <2>1, <2>2, <2>4
<1>8. d = e
  BY <1>3, <1>7
<1>9. File!Size(o) = 2 + Total(d)
  BY <1>4 DEF File!Size
<1> HIDE DEF d, e
<1>10. Len(PrintValue(Object(c), 0)) = 2 + Total(e)
  BY FlatText DEF e
<1> QED
  BY <1>8, <1>9, <1>10 DEF o

\* The driver can read the file where StatusFile says so, whatever was recorded and whatever
\* stands behind the buffer, and refuses it elsewhere if a zero does (status_file.c:40-63).
THEOREM ReadBySize ==
  ASSUME PlainNames
  PROVE  Spec => [](file # <<>> => IF File!Size(Pairs(object)) <= ReadLimit
                                   THEN \A g \in Beyond : Found(g) ELSE Refused(<<>>))
<1>1. NamesAssumption /\ ValuesAssumption /\ LimitAssumption /\ BeyondAssumption
  BY NamesAssumption, ValuesAssumption, LimitAssumption, BeyondAssumption
<1>2. Spec => []Listed
  <2>1. Init => Listed
    BY InitListed
  <2>2. IInv /\ Listed /\ [Next]_vars => Listed'
    BY <1>1, NextListed
  <2> QED
    BY <2>1, <2>2, Invariance, PTL DEF Spec
<1>3. ASSUME IInv, Listed
      PROVE  file # <<>> => IF File!Size(Pairs(object)) <= ReadLimit
                            THEN \A g \in Beyond : Found(g) ELSE Refused(<<>>)
  <2> SUFFICES ASSUME file # <<>>
               PROVE  IF File!Size(Pairs(object)) <= ReadLimit
                      THEN \A g \in Beyond : Found(g) ELSE Refused(<<>>)
    OBVIOUS
  <2>1. PICK c \in Listing(Names \union {TestName}, Values) : object = Object(c)
    BY <1>3 DEF Listed
  <2>2. c # <<>>
    BY <1>3, <2>1 DEF Listed
  <2>3. /\ c \in Seq(Members({Number(v) : v \in CInt}))
        /\ \A k \in 1..Len(c) : c[k].name \in Names \union {TestName}
    BY <1>1, ListingFlat
  <2>4. Len(PrintValue(object, 0)) = File!Size(Pairs(object))
    BY <2>1, <2>2, <2>3, SizeIsLength
  <2>5. IF InLimit THEN \A g \in Beyond : Found(g) ELSE Refused(<<>>)
    <3>1. TextIsObject
      BY <1>1, <1>3, TextRead
    <3> QED
      BY <3>1 DEF TextIsObject
  <2>6. InLimit <=> File!Size(Pairs(object)) <= ReadLimit
    BY <2>4 DEF InLimit
  <2> QED
    BY <2>5, <2>6
<1> QED
  BY <1>2, <1>3, Invariance, PTL
=============================================================================
