----------------------------- MODULE StatusText -----------------------------
(***************************************************************************)
(* The text of the status file, character by character: what the functions *)
(* of status_file.c read and write with cJSON, where StatusFile has the    *)
(* object.  A write puts the new text over the old one without cutting the *)
(* file, so what was longer stays behind it, and is read as well.  What    *)
(* fills the buffer it is read to has no zero behind it: the parser runs   *)
(* on into whatever memory follows (status_file.c:42-54).                  *)
(***************************************************************************)
EXTENDS CJson

CONSTANTS
    Names,            \* the sids of the device file
    TestName,         \* "test_sid"
    Values,           \* status values
    ReadLimit,        \* characters read_status_file() reads
    Beyond            \* what may stand in memory behind them, up to the first zero

ASSUME NamesAssumption ==
    /\ Names \union {TestName} \subseteq Seq(Char) /\ TestName \notin Names
    /\ \A a, b \in Names \union {TestName} : SameName(a, b) => a = b
ASSUME ValuesAssumption == Values \subseteq CInt /\ 0 \in Values
ASSUME LimitAssumption == ReadLimit \in Nat
ASSUME BeyondAssumption == Beyond \subseteq Seq(Char) /\ <<>> \in Beyond

VARIABLES
    life,             \* "up", "exited" on a file that cannot be read, or "astray" with
                      \* an object that is not the one in the file
    file,             \* the text in the file
    object            \* the object StatusFile would say it holds

vars == <<life, file, object>>

Init == life = "up" /\ file = <<>> /\ object = Object(<<>>)

\* read_status_file(), with g behind the buffer.
Read(text, g) ==
    Parse(IF Len(text) < ReadLimit THEN text ELSE SubSeq(text, 1, ReadLimit) \o g)

Refused(g) == Read(file, g).next = 0
Found(g) == ~Refused(g) /\ Read(file, g).item = object

\* overwrite_status_file()
\* (A mutation: the text is appended to the file.)
OverwriteAppends(o) == file' = file \o PrintValue(o, 0)
Overwrite(o) == file' = PrintValue(o, 0) \o SubSeq(file, Len(PrintValue(o, 0)) + 1, Len(file))

InitStatusFile ==
    /\ life = "up" /\ file = <<>>
    /\ object' = AddItemToObject(Object(<<>>), TestName, Number(0))
    /\ Overwrite(object')
    /\ UNCHANGED life

\* add_status() and modify_status()
Recorded(o, s, v) == AddItemToObject(DeleteItemFromObject(o, s), s, Number(v))

\* record_status(), and get_status_form_file() for a device that is not there.
Record(s, v, g) ==
    /\ life = "up" /\ file # <<>>
    /\ Found(g)
    /\ v = 0 => Position(object, s) = 0
    /\ Overwrite(Recorded(Read(file, g).item, s, v))
    /\ object' = Recorded(object, s, v)
    /\ UNCHANGED life

\* What is behind the buffer completes a text that was cut to some other object.  It is
\* not followed what the driver does with that.
Mistake(g) ==
    /\ life = "up" /\ file # <<>>
    /\ ~Refused(g) /\ ~Found(g)
    /\ life' = "astray"
    /\ UNCHANGED <<file, object>>

Refuse(g) ==
    /\ life = "up" /\ file # <<>>
    /\ Refused(g)
    /\ life' = "exited"
    /\ UNCHANGED <<file, object>>

Next ==
    \/ InitStatusFile
    \/ \E g \in Beyond :
         \/ Mistake(g) \/ Refuse(g)
         \/ \E s \in Names, v \in Values : Record(s, v, g)

Spec == Init /\ [][Next]_vars

-----------------------------------------------------------------------------
(* The other documents the driver prints.                                  *)

\* One character stands for each name the code writes literally.
Cmd == <<99>>
Device == <<100>>
Objects == <<111>>
Sid == <<115>>
Value == <<118>>
Uuid == <<117>>
Ip == <<105>>

StatusUpload(s, v) ==
    Object(<<Member(Cmd, String(Sid)),
             Member(Device, Object(<<Member(Objects, Array(<<
                 Object(<<Member(Sid, String(s)), Member(Value, Number(v))>>)>>))>>))>>)
Offline(s) ==
    Object(<<Member(Cmd, String(Cmd)), Member(Uuid, String(s)), Member(Value, String(<<>>))>>)
ItachsConfig(uuids) ==
    Object(<<Member(Device, Array([k \in DOMAIN uuids |->
        Object(<<Member(Uuid, String(uuids[k])), Member(Ip, String(Ip))>>)]))>>)

Documents ==
    LET members == object.children IN
    {object, ItachsConfig([k \in DOMAIN members |-> members[k].name])}
    \union UNION {{StatusUpload(members[k].name, members[k].item.num), Offline(members[k].name)}
                    : k \in DOMAIN members}

-----------------------------------------------------------------------------
(* What should be true of it.                                              *)

\* Where its text fits what is read, the object that was written is read back, whatever
\* older and longer text is left behind it, and whatever stands behind the buffer.  Where
\* it does not, the file is refused if a zero does (status_file.c:42-55, 73).
InLimit == Len(PrintValue(object, 0)) <= ReadLimit
TextIsObject == file # <<>> => IF InLimit THEN \A g \in Beyond : Found(g) ELSE Refused(<<>>)

\* What the driver prints means what it was printed from, whatever characters names
\* are made of (cJSON.c:192-307, 550-658).
ReadsBack == \A d \in Documents : Parse(PrintValue(d, 0)) = Parsed(Len(PrintValue(d, 0)) + 1, d)

\* A document cut anywhere, with a zero behind the cut, is refused, never taken for a
\* shorter one (cJSON.c:429, 545): after a write that ended early on an empty file, but
\* not behind a buffer that is full.
CutRefused == \A d \in Documents :
    LET text == PrintValue(d, 0) IN \A n \in 0..Len(text) - 1 : Parse(SubSeq(text, 1, n)).next = 0

\* No buffer is too short, at any depth, with any escapes (cJSON.c:278, 481, 619-624).
BuffersFit == \A d \in Documents : Fits[Nesting][d][0]
=============================================================================
