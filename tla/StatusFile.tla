----------------------------- MODULE StatusFile -----------------------------
(***************************************************************************)
(* itach/status_file.c, and its two callers: the loading of the devices    *)
(* (IRdev.c), and the upload and record of a status (comm_gateway.c).      *)
(* Only the main thread does this, so the difficulty is not concurrency    *)
(* but the end of the process, at any statement, and what the next process *)
(* finds on the flash.                                                     *)
(*                                                                         *)
(* The file holds one JSON object, here the sequence of its members as     *)
(* cJSON keeps it.  A file is rewritten in place, without truncation; what *)
(* an earlier, longer text leaves behind the closing brace is not parsed   *)
(* (StatusText).                                                           *)
(***************************************************************************)
EXTENDS StatusSize, SequencesExt

CONSTANTS
    Sids,             \* the devices of the device file
    Values,           \* status values
    Unread,           \* no value
    ReadLimit,        \* characters read_status_file() reads (1024)
    Splices           \* what half a new text over an old one may be parsed to

ASSUME SidsAssumption == TestSid \notin Sids
ASSUME ValuesAssumption == Values \subseteq Nat /\ 0 \in Values /\ Unread \notin Values
ASSUME SizeAssumption == ReadLimit \in Nat
\* A name or a value that half a text makes up stands as a TestSid or a known value.
Member == [key : Sids \union {TestSid}, val : Values]
ASSUME SplicesAssumption == Splices \subseteq Seq(Member)

VARIABLES
    life,             \* "up", "exited" (exit() on a file that is missing or unreadable),
                      \* "down", or "torn" (ended inside a write)
    text,             \* the file: "missing", "empty", one "object", or "broken"
    members,          \* the members of the object in the file
    torn,             \* a write was cut short, by this process or an earlier one
    pc,               \* place of the main thread
    sid, value,       \* the device and value of the operation under way
    getting,          \* it is get_status_form_file(), else record_status()
    obj,              \* the object in memory that is about to be written
    pending,          \* devices still to load, then still to upload
    loaded,           \* status_value of the devices
    told              \* the status last handed to sendto(), whose result is ignored

fileVars == <<text, members, torn>>
opVars   == <<sid, value, getting, obj>>
vars     == <<life, fileVars, pc, opVars, pending, loaded, told>>

Pcs == {"load", "stat", "truncate", "init", "look", "write", "greet", "ready"}

-----------------------------------------------------------------------------
(* cJSON objects.                                                          *)
Position(o, k) == SelectInSeq(o, LAMBDA m : m.key = k)     \* 0 when absent
Has(o, k) == Position(o, k) # 0
GetItem(o, k) == o[Position(o, k)].val
AddItem(o, k, v) == Append(o, [key |-> k, val |-> v])
\* Mutations of DeleteItem: nothing is deleted; the first member is.
DeleteNothing(o, k) == o
DeleteFirst(o, k) == IF Has(o, k) THEN Tail(o) ELSE o
DeleteItem(o, k) == IF Has(o, k) THEN RemoveAt(o, Position(o, k)) ELSE o

\* read_status_file() parses at most ReadLimit characters.  A longer text is refused
\* where a zero stands behind the buffer; StatusText has what else may stand there.
Fits(o) == Size(o) <= ReadLimit
Readable == text = "object" /\ Fits(members)

-----------------------------------------------------------------------------
Nothing == [s \in Sids |-> Unread]

Init ==
    /\ life = "up"
    /\ text \in {"missing", "empty"} /\ members = <<>> /\ torn = FALSE
    /\ pc = "load" /\ pending = Sids
    /\ sid = TestSid /\ value = 0 /\ getting = FALSE /\ obj = <<>>
    /\ loaded = Nothing /\ told = Nothing

Goto(from, to) == life = "up" /\ pc = from /\ pc' = to

\* get_IRdevs_from_jsonObj(): get_status_form_file() for one device after another.
\* (A mutation: without the default of 0.)
LoadNoDefault(s) ==
    /\ Goto("load", "stat")
    /\ s \in pending
    /\ sid' = s /\ value' = Unread /\ getting' = TRUE
    /\ UNCHANGED <<life, fileVars, obj, pending, loaded, told>>

LoadDevice(s) ==
    /\ Goto("load", "stat")
    /\ s \in pending
    /\ sid' = s /\ value' = 0 /\ getting' = TRUE
    /\ UNCHANGED <<life, fileVars, obj, pending, loaded, told>>

LoadDone ==
    /\ Goto("load", "greet")
    /\ pending = {}
    /\ pending' = Sids
    /\ UNCHANGED <<life, fileVars, opVars, loaded, told>>

\* upload_init_IRdevs_status()
UploadInit(s) ==
    /\ life = "up" /\ pc = "greet" /\ s \in pending
    /\ told' = [told EXCEPT ![s] = loaded[s]]
    /\ pending' = pending \ {s}
    /\ pc' = IF pending = {s} THEN "ready" ELSE "greet"
    /\ UNCHANGED <<life, fileVars, opVars, loaded>>

\* send_write_packet() after a successful command: upload_IRdev_status(), then
\* record_status().
UploadStatus(s, v) ==
    /\ Goto("ready", "stat")
    /\ told' = [told EXCEPT ![s] = v]
    /\ sid' = s /\ value' = v /\ getting' = FALSE
    /\ UNCHANGED <<life, fileVars, obj, pending, loaded>>

\* status_file_is_empty(), and init_status_file() when it is.
\* (A mutation: without asking whether it is empty.)
StatAlwaysInit ==
    /\ Goto("stat", "truncate")
    /\ text # "missing"
    /\ UNCHANGED <<life, fileVars, opVars, pending, loaded, told>>

Stat ==
    /\ Goto("stat", IF text = "empty" THEN "truncate" ELSE "look")
    /\ text # "missing"
    /\ UNCHANGED <<life, fileVars, opVars, pending, loaded, told>>

\* Nothing in the driver creates the file.
StatMissing ==
    /\ life = "up" /\ pc = "stat" /\ text = "missing"
    /\ life' = "exited"
    /\ UNCHANGED <<fileVars, pc, opVars, pending, loaded, told>>

CleanStatusFile ==
    /\ Goto("truncate", "init")
    /\ text' = "empty" /\ members' = <<>>
    /\ UNCHANGED <<life, torn, opVars, pending, loaded, told>>

\* (A mutation of InitStatusFile: only the truncation.)
InitNothing == Goto("init", "look") /\ UNCHANGED <<life, fileVars, opVars, pending, loaded, told>>

InitStatusFile ==
    /\ Goto("init", "look")
    /\ text' = "object" /\ members' = AddItem(<<>>, TestSid, 0)
    /\ UNCHANGED <<life, torn, opVars, pending, loaded, told>>

Finish(got) ==
    /\ loaded' = IF getting THEN [loaded EXCEPT ![sid] = got] ELSE loaded
    /\ pending' = pending \ {sid}
    /\ pc' = IF getting THEN "load" ELSE "ready"

\* A device that is there is read; otherwise add_status() or modify_status()
\* prepares the new object.
Found ==
    /\ life = "up" /\ pc = "look" /\ Readable
    /\ getting /\ Has(members, sid)
    /\ Finish(GetItem(members, sid))
    /\ UNCHANGED <<life, fileVars, opVars, told>>

AddStatus ==
    /\ Goto("look", "write") /\ Readable
    /\ ~Has(members, sid)
    /\ obj' = AddItem(members, sid, value)
    /\ UNCHANGED <<life, fileVars, sid, value, getting, pending, loaded, told>>

\* (A mutation: the file is truncated before it is written.)
ModifyTruncates ==
    /\ Goto("look", "write") /\ Readable
    /\ ~getting /\ Has(members, sid)
    /\ obj' = AddItem(DeleteItem(members, sid), sid, value)
    /\ text' = "empty" /\ members' = <<>>
    /\ UNCHANGED <<life, torn, sid, value, getting, pending, loaded, told>>

ModifyStatus ==
    /\ Goto("look", "write") /\ Readable
    /\ ~getting /\ Has(members, sid)
    /\ obj' = AddItem(DeleteItem(members, sid), sid, value)
    /\ UNCHANGED <<life, fileVars, sid, value, getting, pending, loaded, told>>

OverwriteStatusFile ==
    /\ life = "up" /\ pc = "write"
    /\ members' = obj /\ text' = "object"
    /\ obj' = <<>>
    /\ Finish(value)
    /\ UNCHANGED <<life, torn, sid, value, getting, told>>

\* read_status_file() cannot parse what it read: exit(0).
Unreadable ==
    /\ life = "up" /\ pc = "look" /\ ~Readable
    /\ life' = "exited"
    /\ UNCHANGED <<fileVars, pc, opVars, pending, loaded, told>>

-----------------------------------------------------------------------------
(* The end of a process, and the next one.  The gateway remembers.         *)
Forget == pc' = "load" /\ pending' = Sids /\ loaded' = Nothing
          /\ sid' = TestSid /\ value' = 0 /\ getting' = FALSE /\ obj' = <<>>

Crash ==
    /\ life = "up"
    /\ life' = "down"
    /\ Forget
    /\ UNCHANGED <<fileVars, told>>

\* The power fails inside write(): the first half of the new text stands over the
\* old one.  Over an empty file it cannot be parsed (StatusText); over an older text
\* it may be.
CrashInWrite ==
    /\ life = "up" /\ pc \in {"init", "write"}
    /\ life' = "torn" /\ torn' = TRUE
    /\ \/ text' = "broken" /\ UNCHANGED members
       \/ pc = "write" /\ text' = "object" /\ members' \in Splices
    /\ Forget
    /\ UNCHANGED told

Restart ==
    /\ life # "up"
    /\ life' = "up"
    /\ Forget
    /\ UNCHANGED <<fileVars, told>>

Work ==
    \/ \E s \in Sids : LoadDevice(s) \/ UploadInit(s)
    \/ LoadDone \/ Stat \/ StatMissing \/ CleanStatusFile \/ InitStatusFile
    \/ Found \/ AddStatus \/ ModifyStatus \/ OverwriteStatusFile \/ Unreadable

Next ==
    \/ Work
    \/ \E s \in Sids, v \in Values \ {0} : UploadStatus(s, v)
    \/ Crash \/ CrashInWrite \/ Restart

Spec == Init /\ [][Next]_vars

-----------------------------------------------------------------------------
(* What should be true of it.                                              *)

TypeOK ==
    /\ life \in {"up", "exited", "down", "torn"}
    /\ text \in {"missing", "empty", "object", "broken"}
    /\ members \in Seq(Member) /\ obj \in Seq(Member) /\ torn \in BOOLEAN
    /\ pc \in Pcs
    /\ sid \in Sids \union {TestSid} /\ value \in Values /\ getting \in BOOLEAN
    /\ pending \subseteq Sids
    /\ loaded \in [Sids -> Values \union {Unread}]
    /\ told \in [Sids -> Values \union {Unread}]

Unique(o) == \A i, j \in DOMAIN o : o[i].key = o[j].key => i = j

\* Deleting and appending a member, over any number of processes, never leaves
\* two members for one device (status_file.c:96-105): the first would hide the
\* other.  Only a torn write can.
KeysUnique == ~torn => Unique(members)

\* Only an empty file is ever truncated: what was recorded is not wiped by the
\* next process, wherever the last one ended (status_file.c:119-121, 139-141).
NeverWiped == [][text # "empty" => text' # "empty"]_vars

\* When the driver is ready for commands, it has sent the gateway what the file says of
\* every device, also when a torn write before made it say something else, unless it
\* left two members for one device (comm_gateway.c:327-329).
GatewayAgrees ==
    pc = "ready" /\ (torn => Unique(members)) => \A s \in Sids :
        Has(members, s) /\ told[s] = GetItem(members, s)

\* As long as the text fits what is read, only a torn write makes the driver refuse a
\* file that is there, wherever the last process ended (status_file.c:27-30, 40-63, 106-113).
RefusesOnlyDamage ==
    life = "exited" => text \in {"missing", "broken"} \/ ~Fits(members)

\* A file the driver cannot read, torn by a power failure or longer than it reads,
\* is left as it is: no start repairs it, or loses what is in it (status_file.c:40-63).
UnreadableIsLeft == [][text # "empty" /\ ~Readable => UNCHANGED fileVars]_vars

\* The file implements one durable value per device: unless a write is torn, no end of the
\* process changes what is recorded, and only what the gateway is told changes it.
Recorded ==
    IF text = "broken" THEN Nothing
    ELSE [s \in Sids |-> IF Has(members, s) THEN GetItem(members, s) ELSE 0]
Durable == INSTANCE DurableStatus WITH status <- Recorded, damaged <- torn
ImplementsDurableStatus == Durable!Spec

-----------------------------------------------------------------------------
(* The inductive invariant.                                                *)

Busy == pc \in {"stat", "truncate", "init", "look", "write"}
Loading == pc = "load" \/ (Busy /\ getting)
Serving == pc = "ready" \/ (Busy /\ ~getting)

\* A file that is not there yet is initialised before it is looked at, and what is
\* written is what was read with one member changed.
PlaceInv ==
    /\ text \in {"missing", "empty"} => members = <<>>
    /\ text = "missing" => pc \in {"load", "stat", "greet"}
    /\ pc \in {"truncate", "init"} => text = "empty"
    /\ pc \in {"look", "write"} => text # "empty"
    /\ Busy => sid \in Sids /\ (getting => value = 0 /\ sid \in pending)
    /\ pc = "write" =>
         /\ Readable
         /\ obj = AddItem(DeleteItem(members, sid), sid, value)
         /\ getting => ~Has(members, sid)
    /\ life = "exited" => pc = "look" \/ text = "missing"

UniqueInv == KeysUnique

Stored(s) == text = "object" /\ Has(members, s)

LoadInv == Loading => \A s \in Sids :
    IF s \in pending THEN loaded[s] = Unread ELSE Stored(s) /\ loaded[s] = GetItem(members, s)

GreetInv == pc = "greet" => \A s \in Sids :
    Stored(s) /\ loaded[s] = GetItem(members, s) /\ (s \notin pending => told[s] = loaded[s])

ServeInv == Serving => \A s \in Sids :
    /\ Stored(s)
    /\ Busy /\ s = sid => told[s] = value
    /\ Unique(members) /\ ~(Busy /\ s = sid) => told[s] = GetItem(members, s)

SInv == TypeOK /\ PlaceInv /\ UniqueInv /\ LoadInv /\ GreetInv /\ ServeInv /\ RefusesOnlyDamage
=============================================================================
