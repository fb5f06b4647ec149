-------------------------------- MODULE CJson --------------------------------
(***************************************************************************)
(* The parts of itach/cJSON.c the driver runs: parsing a text, printing an *)
(* item and the sizes of the buffers it is printed to, and the members of  *)
(* an object.  A text is a sequence of character codes.  An item is a      *)
(* record with its type; the children of an array are items, those of an   *)
(* object are members, [name, item].                                       *)
(*                                                                         *)
(* A text is what stands in memory before the first zero, which a buffer   *)
(* that was filled by what was read to it does not have: StatusText takes  *)
(* what is behind it into the text.  Memory is never short.  Numbers are   *)
(* integers; null, true, false, fractions, exponents and surrogate pairs   *)
(* occur in no text of the driver.                                         *)
(***************************************************************************)
EXTENDS Integers, Sequences, SequencesExt

Nesting == 5          \* a bound: no document of the driver is nested deeper

End == 0
Tab == 9
NewLine == 10
Space == 32
Quote == 34
Comma == 44
Minus == 45
Zero == 48
Colon == 58
Backslash == 92
LetterU == 117
Digit == Zero..Zero + 9

Opening(kind) == IF kind = "array" THEN 91 ELSE 123
Closing(kind) == IF kind = "array" THEN 93 ELSE 125

\* \b \t \n \f \r and the letters that stand for them.
Letter == [c \in {8, 9, 10, 12, 13} |->
             CASE c = 8 -> 98 [] c = 9 -> 116 [] c = 10 -> 110 [] c = 12 -> 102 [] c = 13 -> 114]

Number(n) == [type |-> "number", num |-> n]
String(s) == [type |-> "string", text |-> s]
Array(items) == [type |-> "array", children |-> items]
Object(members) == [type |-> "object", children |-> members]
Member(n, i) == [name |-> n, item |-> i]

\* A C string, an int (of 32 bits), and the items at most n deep.
Char == 1..255
IntMax == 65536 * 32767 + 65535
CInt == -IntMax - 1..IntMax
Items(inner) ==
    [type : {"number"}, num : CInt] \union [type : {"string"}, text : Seq(Char)]
    \union [type : {"array"}, children : Seq(inner)]
    \union [type : {"object"}, children : Seq([name : Seq(Char), item : inner])]
Nested[n \in Nat] == IF n = 0 THEN {} ELSE Items(Nested[n - 1])

-----------------------------------------------------------------------------
(* Parsing.  A result is an item and the place behind it, 0 for a null     *)
(* pointer.                                                                *)
At(t, i) == IF i \in 1..Len(t) THEN t[i] ELSE End
Parsed(i, item) == [next |-> i, item |-> item]
Failed == Parsed(0, String(<<>>))

\* The first place from i on whose character is not in cs.
Past(t, i, cs) == CHOOSE j \in i..i + Len(t) :
    At(t, j) \notin cs /\ \A k \in i..j - 1 : At(t, k) \in cs
Skip(t, i) == Past(t, i, 1..Space)

\* The number a sequence of digits stands for.
Numeral(d) ==
    LET upto[k \in 0..Len(d)] == IF k = 0 THEN 0 ELSE 10 * upto[k - 1] + (d[k] - Zero)
    IN  upto[Len(d)]

\* One zero is taken, and then digits that do not begin with a zero.
ParseNumber(t, i) ==
    LET start == IF At(t, i) = Minus THEN i + 1 ELSE i
        whole == IF At(t, start) = Zero THEN start + 1 ELSE start
        last == IF At(t, whole) = Zero THEN whole ELSE Past(t, whole, Digit)
        n == Numeral(SubSeq(t, whole, last - 1))
    IN  Parsed(last, Number(IF start > i THEN -n ELSE n))

Hex(c) == CASE c \in Digit -> c - Zero [] c \in 65..70 -> c - 55 [] c \in 97..102 -> c - 87
            [] OTHER -> 16
Hex4(t, i) ==
    LET h == [k \in 0..3 |-> Hex(At(t, i + k))]
    IN  IF \E k \in 0..3 : h[k] = 16 THEN 0 ELSE 4096 * h[0] + 256 * h[1] + 16 * h[2] + h[3]

Utf8(uc) ==
    CASE uc = 0 -> <<>>
      [] uc \in 1..127 -> <<uc>>
      [] uc \in 128..2047 -> <<192 + (uc \div 64), 128 + (uc % 64)>>
      [] OTHER -> <<224 + (uc \div 4096), 128 + ((uc \div 64) % 64), 128 + (uc % 64)>>

Unescaped(c) == IF \E d \in DOMAIN Letter : Letter[d] = c
                THEN CHOOSE d \in DOMAIN Letter : Letter[d] = c ELSE c

\* What the text says at i, an escape or a character, and how much of it that is.
Escape(t, i) == At(t, i) = Backslash
Piece(t, i) ==
    CASE ~Escape(t, i) -> <<At(t, i)>>
      [] Escape(t, i) /\ At(t, i + 1) = LetterU -> Utf8(Hex4(t, i + 2))
      [] OTHER -> <<Unescaped(At(t, i + 1))>>
Width(t, i) == CASE ~Escape(t, i) -> 1 [] Escape(t, i) /\ At(t, i + 1) = LetterU -> 6 [] OTHER -> 2

\* The text from i on, up to a quote or to the end: an unterminated string is
\* no failure.
Unescape(t) ==
    LET from[i \in Nat] ==
          LET rest == from[i + Width(t, i)] IN
          CASE At(t, i) = End -> Parsed(i, <<>>)
            [] At(t, i) = Quote -> Parsed(i + 1, <<>>)
            [] OTHER -> Parsed(rest.next, Piece(t, i) \o rest.item)
    IN  from

ParseString(t, i) ==
    LET s == Unescape(t)[i + 1]
    IN  IF At(t, i) = Quote THEN Parsed(s.next, String(s.item)) ELSE Failed

\* What parse_string() allocates for the string from i on, without the terminator:
\* one character for every character that is not escaped.
RawLength(t) ==
    LET from[i \in Nat] == IF At(t, i) \in {Quote, End} THEN 0
                           ELSE 1 + from[IF Escape(t, i) THEN i + 2 ELSE i + 1]
    IN  from

\* What follows parses the elements with a function "value" that parses what is in them.
ValueAfter(t, name, value) ==
    LET colon == Skip(t, name.next)
        v == value[Skip(t, colon + 1)]
    IN  IF name.next = 0 \/ At(t, colon) # Colon \/ v.next = 0 THEN Failed
        ELSE Parsed(v.next, Member(name.item.text, v.item))
ParseMember(t, i, value) == ValueAfter(t, ParseString(t, i), value)

ParseElement(t, i, kind, value) ==
    IF kind = "array" THEN value[i] ELSE ParseMember(t, i, value)

\* Elements that begin with e, a comma between them, up to the closing bracket.
\* (A mutation: the end of the text closes too.)
ElementsEnd(t, kind, e, from) ==
    LET j == Skip(t, e.next)
        more == from[Skip(t, j + 1)]
    IN  CASE e.next # 0 /\ At(t, j) = Comma /\ more.next # 0 ->
               Parsed(more.next, <<e.item>> \o more.item)
          [] e.next # 0 /\ At(t, j) \in {Closing(kind), End} -> Parsed(j + 1, <<e.item>>)
          [] OTHER -> Failed

Elements(t, kind, e, from) ==
    LET j == Skip(t, e.next)
        more == from[Skip(t, j + 1)]
    IN  CASE e.next # 0 /\ At(t, j) = Comma /\ more.next # 0 ->
               Parsed(more.next, <<e.item>> \o more.item)
          [] e.next # 0 /\ At(t, j) = Closing(kind) -> Parsed(j + 1, <<e.item>>)
          [] OTHER -> Failed

ParseElements(t, kind, value) ==
    LET from[i \in Nat] == Elements(t, kind, ParseElement(t, i, kind, value), from)
    IN  from

Enclosed(kind, elements) ==
    IF elements.next = 0 THEN Failed
    ELSE Parsed(elements.next, [type |-> kind, children |-> elements.item])
ParseNested(t, i, kind, value) ==
    LET first == Skip(t, i + 1)
    IN  IF At(t, first) = Closing(kind)
        THEN Parsed(first + 1, [type |-> kind, children |-> <<>>])
        ELSE Enclosed(kind, ParseElements(t, kind, value)[first])

ParseValue(t, i, value) ==
    CASE At(t, i) = Quote -> ParseString(t, i)
      [] At(t, i) = Minus \/ At(t, i) \in Digit -> ParseNumber(t, i)
      [] At(t, i) = Opening("array") -> ParseNested(t, i, "array", value)
      [] At(t, i) = Opening("object") -> ParseNested(t, i, "object", value)
      [] OTHER -> Failed

\* The values at each place that are at most n deep.
ParseValues(t) ==
    LET values[n \in Nat] ==
          IF n = 0 THEN [i \in Nat |-> Failed]
          ELSE [i \in Nat |-> ParseValue(t, i, values[n - 1])]
    IN  values

\* cJSON_Parse(): what follows the value is not looked at.
\* (No text is nested deeper than it is long.)
Parse(t) == ParseValues(t)[Len(t)][Skip(t, 1)]

-----------------------------------------------------------------------------
(* Printing, formatted.                                                    *)
Digits(n) ==
    LET of[k \in 0..n] == IF k < 10 THEN <<Zero + k>> ELSE Append(of[k \div 10], Zero + (k % 10))
    IN  of[n]
PrintNumber(n) == IF n < 0 THEN <<Minus>> \o Digits(-n) ELSE Digits(n)

HexDigit(d) == IF d < 10 THEN Zero + d ELSE 87 + d
\* (A mutation: quotation marks are not escaped.)
EscapedBare(c) == IF c = Backslash THEN <<c, c>> ELSE <<c>>
Escaped(c) ==
    CASE c \in {Quote, Backslash} -> <<Backslash, c>>
      [] c \in DOMAIN Letter -> <<Backslash, Letter[c]>>
      [] c < Space /\ c \notin DOMAIN Letter ->
           <<Backslash, LetterU, Zero, Zero, HexDigit(c \div 16), HexDigit(c % 16)>>
      [] OTHER -> <<c>>
PrintString(s) == <<Quote>> \o FlattenSeq([k \in DOMAIN s |-> Escaped(s[k])]) \o <<Quote>>

Tabs(n) == [k \in 1..n |-> Tab]

\* "value" prints what is in an array or an object.
PrintArray(children, depth, value) ==
    <<Opening("array")>>
    \o FlattenSeq([k \in DOMAIN children |->
         value[children[k]][depth + 1] \o (IF k < Len(children) THEN <<Comma, Space>> ELSE <<>>)])
    \o <<Closing("array")>>

PrintObject(children, depth, value) ==
    <<Opening("object"), NewLine>>
    \o FlattenSeq([k \in DOMAIN children |->
         Tabs(depth + 1) \o PrintString(children[k].name) \o <<Colon, Tab>>
         \o value[children[k].item][depth + 1]
         \o (IF k < Len(children) THEN <<Comma, NewLine>> ELSE <<NewLine>>)])
    \o Tabs(IF children = <<>> /\ depth > 0 THEN depth - 1 ELSE depth) \o <<Closing("object")>>

PrintItem(item, depth, value) ==
    CASE item.type = "number" -> PrintNumber(item.num)
      [] item.type = "string" -> PrintString(item.text)
      [] item.type = "array" -> PrintArray(item.children, depth, value)
      [] item.type = "object" -> PrintObject(item.children, depth, value)

\* The texts of the items at most n deep, at every depth.
Printed[n \in Nat] ==
    IF n = 0 THEN <<>>
    ELSE [item \in Nested[n] |-> [depth \in Nat |-> PrintItem(item, depth, Printed[n - 1])]]

\* cJSON_Print(), and print_value() for what is in an item.
PrintValue(item, depth) == Printed[Nesting][item][depth]

Total(lengths) ==
    LET upto[k \in 0..Len(lengths)] == IF k = 0 THEN 0 ELSE upto[k - 1] + lengths[k]
    IN  upto[Len(lengths)]

\* The buffers, with room for the terminator.
MallocString(s) ==
    3 + Total([k \in DOMAIN s |-> IF s[k] \in DOMAIN Letter \union {Quote, Backslash} THEN 2
                                  ELSE IF s[k] < Space THEN 6 ELSE 1])

MallocArray(children, depth, value) ==
    IF children = <<>> THEN 3
    ELSE 5 + Total([k \in DOMAIN children |-> Len(value[children[k]][depth + 1]) + 3])

\* (A mutation: the tabs before a member are not counted.)
MallocObjectFlat(children, depth, value) ==
    IF children = <<>> THEN depth + 4
    ELSE 7 + Total([k \in DOMAIN children |->
               4 + Len(PrintString(children[k].name)) + Len(value[children[k].item][depth + 1])])

MallocObject(children, depth, value) ==
    IF children = <<>> THEN depth + 4
    ELSE 7 + (depth + 1) + Total([k \in DOMAIN children |-> 4 + (depth + 1)
               + Len(PrintString(children[k].name)) + Len(value[children[k].item][depth + 1])])

Malloc(item, depth, value) ==
    CASE item.type = "number" -> IF item.num = 0 THEN 2 ELSE 21
      [] item.type = "string" -> MallocString(item.text)
      [] item.type = "array" -> MallocArray(item.children, depth, value)
      [] item.type = "object" -> MallocObject(item.children, depth, value)

\* Every buffer an item and what is in it are printed to is long enough, and the one
\* a string is read back to.
Parts(item) ==
    CASE item.type = "array" -> {item.children[k] : k \in DOMAIN item.children}
      [] item.type = "object" -> {item.children[k].item : k \in DOMAIN item.children}
           \union {String(item.children[k].name) : k \in DOMAIN item.children}
      [] OTHER -> {}

FitsItem(item, depth, value, fits) ==
    /\ Len(PrintItem(item, depth, value)) < Malloc(item, depth, value)
    /\ item.type = "string" => Len(item.text) <= RawLength(PrintString(item.text))[2]
    /\ \A part \in Parts(item) : fits[part][depth + 1]

Fits[n \in Nat] ==
    IF n = 0 THEN <<>>
    ELSE [item \in Nested[n] |-> [depth \in Nat |->
              FitsItem(item, depth, Printed[n - 1], Fits[n - 1])]]

-----------------------------------------------------------------------------
(* The members of an object.  Names are compared without regard to case.   *)
Lower(c) == IF c \in 65..90 THEN c + 32 ELSE c
SameName(a, b) == [k \in DOMAIN a |-> Lower(a[k])] = [k \in DOMAIN b |-> Lower(b[k])]
Position(o, n) == SelectInSeq(o.children, LAMBDA m : SameName(m.name, n))   \* 0 when absent
GetObjectItem(o, n) == o.children[Position(o, n)].item
AddItemToObject(o, n, i) == Object(Append(o.children, Member(n, i)))
DeleteItemFromObject(o, n) ==
    IF Position(o, n) = 0 THEN o ELSE Object(RemoveAt(o.children, Position(o, n)))
=============================================================================
