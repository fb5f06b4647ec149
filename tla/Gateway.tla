------------------------------- MODULE Gateway -------------------------------
(***************************************************************************)
(* itach/comm_gateway.c, and the command half of itach/itach_cmd.c: the    *)
(* main thread between the home gateway, which sends it datagrams, and one *)
(* iTach module, to which it sends IR codes over a TCP stream.             *)
(*                                                                         *)
(* The gateway and the module are the environment.  The module answers     *)
(* "completeir" after it transmitted a code and something else otherwise;  *)
(* with Fragments, one recv() may return a part of an answer.  What the    *)
(* scanner thread does to the table of modules is the outcome of           *)
(* get_itach() here; the values upload_init_IRdevs_status() sends are      *)
(* those of StatusFile, and so is what record_status() makes of the file.  *)
(***************************************************************************)
EXTENDS Naturals, Sequences, FiniteSets, Functions

CONSTANTS
    Sids,             \* devices in the device file
    CodeCount,        \* [Sids -> Nat], the IR codes of each (IRcodeCnt)
    Datagrams,        \* what the gateway may send: [kind, items]
    MaxObjects,       \* objects of a write command that fit buf[500]
    MaxInbox,         \* datagrams its socket queues
    Orderly,          \* TRUE: the gateway acknowledges "connect" before it
                      \* sends anything else, and stays reachable
    Fragments,        \* TRUE: an answer may arrive in two parts
    NoItem

\* "named" has another "cmd" and a "name"; "mangled" is JSON in which a member the code
\* follows is missing or of another type; "broken" is no JSON.
Kinds == {"ack", "named", "heartbeat", "write", "other", "mangled", "broken"}

ASSUME CodesAssumption == CodeCount \in [Sids -> Nat]
ASSUME BoundsAssumption == MaxObjects \in Nat /\ MaxInbox \in Nat \ {0}
ASSUME SwitchesAssumption == Orderly \in BOOLEAN /\ Fragments \in BOOLEAN

Items == UNION {Range(d.items) : d \in Datagrams}
ASSUME ItemsAssumption == NoItem \notin Items
ASSUME DatagramsAssumption == \A d \in Datagrams : d.kind \in Kinds /\ d.items \in Seq(Items)

VARIABLES
    life,             \* "up", "crashed", "exited", "returned" (from main()), or
                      \* "killed" (by SIGPIPE)
    pc,               \* place of the main thread
    inbox,            \* datagrams at the driver's socket
    packet,           \* write_packet list: items still to serve
    item,             \* the item being served
    cnt,              \* cnt_, its attempts
    conn,             \* the TCP connection: "up" or "lost"
    commands,         \* what the module has still to do: execute a command for
                      \* this item or an old one, send the tail of an answer
    stream,           \* answers that have arrived
    transmitted,      \* transmissions of the current item
    told              \* the last item reported as done

host   == <<inbox, packet>>
serve  == <<item, cnt, transmitted, told>>
module == <<conn, commands, stream>>
vars   == <<life, pc, host, serve, module>>

Pcs == {"connect", "await", "greet", "recv", "item", "attempt", "send", "reply",
        "reconnect", "done", "record"}
Tasks == {"own", "old", "tail"}
Answers == {"whole", "front", "back", "refusal"}
MaxTries == 3         \* a bound of the code (comm_gateway.c:333)

Init ==
    /\ life = "up" /\ pc = "connect"
    /\ inbox = <<>> /\ packet = <<>>
    /\ item = NoItem /\ cnt = 1 /\ transmitted = 0 /\ told = NoItem
    /\ conn = "up" /\ commands = <<>> /\ stream = <<>>

At(place) == life = "up" /\ pc = place
Goto(from, to) == At(from) /\ pc' = to /\ UNCHANGED life
Ends(from, how) == At(from) /\ life' = how /\ UNCHANGED pc

-----------------------------------------------------------------------------
(* Start: connect_to_gateway() and upload_init_IRdevs_status().            *)
Connect == Goto("connect", "await") /\ UNCHANGED <<host, serve, module>>

\* socket() or bind() fails: exit(0).
ConnectFails == Ends("connect", "exited") /\ UNCHANGED <<host, serve, module>>

\* What cJSON_Parse() may make of the buffer.  A longer write command is cut, and as it
\* fills the buffer no zero ends it: what happens to stand behind is read as well.
\* (A mutation: it is cut one object earlier.)
Cut(d, n) == {[kind |-> k, items |-> <<>>] : k \in {"broken", "mangled"}}
             \union {[kind |-> "write", items |-> SubSeq(d.items, 1, n)]}
ReadingsOneLess(d) == IF Len(d.items) >= MaxObjects THEN Cut(d, MaxObjects) ELSE {d}
Readings(d) == IF Len(d.items) > MaxObjects THEN Cut(d, MaxObjects) ELSE {d}

Receive(from) == At(from) /\ inbox # <<>> /\ inbox' = Tail(inbox)
Got == Readings(Head(inbox))
GotKinds == {d.kind : d \in Got}

\* is_connected_gw(): a datagram without "cmd" or "name", and no JSON at all, is a
\* NULL pointer; another command or name ends the driver.
Acknowledged ==
    /\ Receive("await") /\ "ack" \in GotKinds
    /\ Goto("await", "greet")
    /\ UNCHANGED <<packet, serve, module>>

NotAcknowledged ==
    /\ Receive("await") /\ GotKinds # {"ack"}
    /\ \/ GotKinds \intersect {"named", "mangled"} # {} /\ Ends("await", "exited")
       \/ GotKinds # {"named"} /\ Ends("await", "crashed")
    /\ UNCHANGED <<packet, serve, module>>

UploadInit == Goto("greet", "recv") /\ UNCHANGED <<host, serve, module>>

-----------------------------------------------------------------------------
(* comm_gw(): one datagram.                                                *)
Unparsable ==
    /\ Receive("recv") /\ "broken" \in GotKinds
    /\ Ends("recv", "returned")
    /\ UNCHANGED <<packet, serve, module>>

\* A "cmd" that is no string, a "device", "objects", "sid" or "value" that is not there:
\* a NULL pointer.
Mangled ==
    /\ Receive("recv") /\ "mangled" \in GotKinds
    /\ Ends("recv", "crashed")
    /\ UNCHANGED <<packet, serve, module>>

HeartbeatAck ==
    /\ Receive("recv") /\ "heartbeat" \in GotKinds
    /\ Goto("recv", "recv")
    /\ UNCHANGED <<packet, serve, module>>

HeartbeatAckFails ==
    /\ ~Orderly
    /\ Receive("recv") /\ "heartbeat" \in GotKinds
    /\ Ends("recv", "exited")
    /\ UNCHANGED <<packet, serve, module>>

Valid(items) == \A i \in DOMAIN items : items[i].value > 0

WritePacket(d) ==
    /\ Receive("recv")
    /\ d \in Got /\ d.kind = "write" /\ Valid(d.items)
    /\ packet' = d.items
    /\ Goto("recv", "item")
    /\ UNCHANGED <<serve, module>>

Ignore(d) ==
    /\ Receive("recv")
    /\ d \in Got
    /\ d.kind \in {"ack", "named", "other"} \/ (d.kind = "write" /\ ~Valid(d.items))
    /\ Goto("recv", "recv")
    /\ UNCHANGED <<packet, serve, module>>

-----------------------------------------------------------------------------
(* send_write_packet(): the items, one after the other.  What the module   *)
(* still has to execute or answer then belongs to an earlier item.         *)
NextItem ==
    /\ packet # <<>> /\ Goto("item", "attempt")
    /\ item' = Head(packet) /\ packet' = Tail(packet)
    /\ cnt' = 1 /\ transmitted' = 0
    /\ commands' = [i \in DOMAIN commands |->
                       IF commands[i] = "tail" THEN "tail" ELSE "old"]
    /\ UNCHANGED <<inbox, told, conn, stream>>

FreePackets ==
    /\ packet = <<>> /\ Goto("item", "recv")
    /\ UNCHANGED <<host, serve, module>>

Leave == item' = NoItem /\ cnt' = 1 /\ transmitted' = 0

\* tcp_send_IRcode() returned false: again, or the next item.
\* (Mutations: one attempt more; the attempts are not counted.)
FailsOnceMore(from) ==
    /\ Goto(from, IF cnt > MaxTries THEN "item" ELSE "attempt")
    /\ IF cnt > MaxTries
       THEN Leave
       ELSE cnt' = cnt + 1 /\ UNCHANGED <<item, transmitted>>
    /\ UNCHANGED <<host, told>>

FailsForever(from) ==
    /\ Goto(from, "attempt")
    /\ UNCHANGED <<item, cnt, transmitted, host, told>>

Fails(from) ==
    /\ Goto(from, IF cnt + 1 > MaxTries THEN "item" ELSE "attempt")
    /\ IF cnt + 1 > MaxTries
       THEN Leave
       ELSE cnt' = cnt + 1 /\ UNCHANGED <<item, transmitted>>
    /\ UNCHANGED <<host, told>>

\* tcp_send_IRcode(): the device of an unknown sid is a NULL pointer, which
\* get_itach() compares with if there is any module to compare.
Known == item.sid \in Sids

NoModuleFound == Fails("attempt") /\ UNCHANGED module

UnknownDevice ==
    /\ Ends("attempt", "crashed") /\ ~Known
    /\ UNCHANGED <<host, serve, module>>

NoSuchCode ==
    /\ Ends("attempt", "exited")
    /\ Known /\ item.value > CodeCount[item.sid]
    /\ UNCHANGED <<host, serve, module>>

FindIRCode ==
    /\ Goto("attempt", "send")
    /\ Known /\ item.value <= CodeCount[item.sid]
    /\ UNCHANGED <<host, serve, module>>

\* The first send() on a connection the module closed may succeed.
Send ==
    /\ Goto("send", "reply")
    /\ commands' = IF conn = "up" THEN Append(commands, "own") ELSE commands
    /\ UNCHANGED <<host, serve, conn, stream>>

SendFails ==
    /\ conn = "lost" /\ Goto("send", "reconnect")
    /\ UNCHANGED <<host, serve, module>>

\* A later one meets EPIPE, and SIGPIPE is neither ignored nor handled.
SendKilled ==
    /\ conn = "lost" /\ Ends("send", "killed")
    /\ UNCHANGED <<host, serve, module>>

\* An interrupted send() may have sent a part: no command without its end, and the
\* connection is given up.
SendShort ==
    /\ conn = "up" /\ Goto("send", "reconnect")
    /\ UNCHANGED <<host, serve, module>>

\* tcp_recv_reply(): all that has arrived by now (100 bytes hold every answer that
\* can be outstanding), or the end of the stream.  replay_ok() looks for
\* "completeir" in it.  (A mutation: any answer is a success.)
AnyAnswer(s) == s # <<>>

HasAnswer(s) ==
    \/ "whole" \in Range(s)
    \/ \E i \in 1..Len(s) - 1 : s[i] = "front" /\ s[i + 1] = "back"

Arrived == stream # <<>> /\ stream' = <<>>

ReplyOk ==
    /\ Arrived /\ HasAnswer(stream)
    /\ Goto("reply", "done")
    /\ UNCHANGED <<host, serve, conn, commands>>

ReplyBad ==
    /\ Arrived /\ ~HasAnswer(stream)
    /\ Fails("reply")
    /\ UNCHANGED <<conn, commands>>

\* (A mutation of ReplyFails: not waiting for the answer.)
ReplyTimesOut == stream = <<>> /\ Fails("reply") /\ UNCHANGED module

ReplyFails ==
    /\ stream = <<>> /\ conn = "lost"
    /\ Goto("reply", "reconnect")
    /\ UNCHANGED <<host, serve, module>>

\* reconnection_itach(): the old connection, and what was in it, is gone.
Reconnect ==
    /\ Fails("reconnect")
    /\ conn' = "up" /\ commands' = <<>> /\ stream' = <<>>

ReconnectFails == Ends("reconnect", "exited") /\ UNCHANGED <<host, serve, module>>

\* upload_IRdev_status() ...
Report ==
    /\ Goto("done", "record")
    /\ told' = item /\ Leave
    /\ UNCHANGED <<host, module>>

\* ... and record_status(), which exits on a file it cannot read (StatusFile).
Record == Goto("record", "item") /\ UNCHANGED <<host, serve, module>>

RecordFails == Ends("record", "exited") /\ UNCHANGED <<host, serve, module>>

-----------------------------------------------------------------------------
(* The gateway and the module.                                             *)
GatewaySends(d) ==
    /\ pc # "connect" /\ Len(inbox) < MaxInbox
    /\ Orderly => (d.kind = "ack" <=> pc = "await") /\ (pc = "await" => inbox = <<>>)
    /\ inbox' = Append(inbox, d)
    /\ UNCHANGED <<life, pc, packet, serve, module>>

Executes ==
    /\ conn = "up" /\ commands # <<>> /\ Head(commands) # "tail"
    /\ UNCHANGED <<life, pc, host, item, cnt, told, conn>>

Counted == transmitted' = IF Head(commands) = "own" THEN transmitted + 1 ELSE transmitted

ModuleTransmits ==
    /\ Executes /\ Counted
    /\ commands' = Tail(commands) /\ stream' = Append(stream, "whole")

\* The answer arrives in two parts.  A bound: only when nothing else is outstanding
\* at the module, or the lag between commands and answers could grow for ever.
ModuleSplits ==
    /\ Fragments /\ Len(commands) = 1
    /\ Executes /\ Counted
    /\ commands' = <<"tail">> /\ stream' = Append(stream, "front")

ModuleSendsTail ==
    /\ conn = "up" /\ commands # <<>> /\ Head(commands) = "tail"
    /\ commands' = Tail(commands) /\ stream' = Append(stream, "back")
    /\ UNCHANGED <<life, pc, host, serve, conn>>

ModuleRefuses ==
    /\ Executes
    /\ commands' = Tail(commands) /\ stream' = Append(stream, "refusal")
    /\ UNCHANGED transmitted

\* (The module does not go on with a command whose connection is gone.)
ConnectionLost ==
    /\ conn = "up" /\ conn' = "lost"
    /\ commands' = <<>> /\ stream' \in {stream, <<>>}
    /\ UNCHANGED <<life, pc, host, serve>>

-----------------------------------------------------------------------------
Start == Connect \/ ConnectFails \/ Acknowledged \/ NotAcknowledged \/ UploadInit
Dispatch ==
    \/ Unparsable \/ Mangled \/ HeartbeatAck \/ HeartbeatAckFails
    \/ inbox # <<>> /\ \E d \in Got : WritePacket(d) \/ Ignore(d)
Attempt == NoModuleFound \/ UnknownDevice \/ NoSuchCode \/ FindIRCode
Exchange ==
    \/ Send \/ SendFails \/ SendKilled \/ SendShort \/ ReplyFails \/ Reconnect \/ ReconnectFails
    \/ ReplyOk \/ ReplyBad
Serve == NextItem \/ FreePackets \/ Attempt \/ Exchange \/ Report \/ Record \/ RecordFails

Main == Start \/ Dispatch \/ Serve
Module == ModuleTransmits \/ ModuleSplits \/ ModuleSendsTail \/ ModuleRefuses

Next == Main \/ Module \/ ConnectionLost \/ \E d \in Datagrams : GatewaySends(d)

Spec == Init /\ [][Next]_vars
MainSpec == Spec /\ WF_vars(Main)              \* the main thread is scheduled
FairSpec == MainSpec /\ WF_vars(Module)         \* and the module answers

-----------------------------------------------------------------------------
(* What should be true of it.                                              *)

TypeOK ==
    /\ life \in {"up", "crashed", "exited", "returned", "killed"}
    /\ pc \in Pcs
    /\ inbox \in Seq(Datagrams)
    /\ packet \in Seq(Items)
    /\ item \in Items \union {NoItem}
    /\ cnt \in 1..MaxTries
    /\ transmitted \in Nat
    /\ conn \in {"up", "lost"}
    /\ commands \in Seq(Tasks) /\ stream \in Seq(Answers)
    /\ told \in Items \union {NoItem}

\* Requests and answers stay in step: at most one is outstanding, and none once the
\* code goes on to another attempt, item or datagram (itach_cmd.c:125-138).
InStep ==
    /\ Len(commands) + Len(stream) <= 1
    /\ pc # "reply" => commands = <<>> /\ stream = <<>>

\* With commands for known devices and codes, as many as fit the buffer, and a gateway that
\* behaves, no command and no answer ends the driver: neither comm_gw() returns nor is a NULL
\* pointer followed.  What ends it is its socket at the start, the status file, or a module:
\* one it cannot connect to again, or that closed its end before a command was sent
\* (comm_gateway.c:418-445, itach_cmd.c:95-107).
Hazardous == \/ life = "exited" /\ pc \in {"connect", "record", "reconnect"}
             \/ life = "killed" /\ pc = "send" /\ conn = "lost"
EndsNotByCommand == life # "up" => Hazardous

\* A datagram from the gateway, a heartbeat say, is not left in the socket for ever
\* (comm_gateway.c:431-432).
HostServed == (inbox # <<>>) ~> (pc = "recv" \/ life # "up")

JobPlaces == {"attempt", "send", "reply", "reconnect", "done"}

\* In however many parts answers come, and however late a module is, an item is not
\* transmitted more than three times: commands it has still to execute count, also
\* when the item was left before they were (comm_gateway.c:329-341).
Outstanding == {i \in DOMAIN commands : commands[i] = "own"}
AtMostTries == transmitted + Cardinality(Outstanding) <= MaxTries

\* A bound on the steps main makes until it receives again: those of this attempt,
\* of the attempts left, and of the items left.
Left == [place \in JobPlaces |->
           CASE place = "attempt" -> 4 [] place = "send" -> 3 [] place = "reply" -> 2
             [] place \in {"reconnect", "done"} -> 1]
Serving == life = "up" /\ pc \in JobPlaces \union {"item", "record"}
Effort ==
    CASE Serving /\ pc = "item" -> 14 * Len(packet) + 1
      [] Serving /\ pc = "record" -> 14 * Len(packet) + 2
      [] Serving /\ pc \in JobPlaces -> 14 * Len(packet) + 2 + 4 * (MaxTries - cnt) + Left[pc]
      [] ~Serving -> 0

\* No failure makes a command go on for ever: every step of main while it serves one
\* uses up some of that bound, and what others do adds nothing to it
\* (comm_gateway.c:325-345, itach_cmd.c:125-138).
CommandsEnd == [][Serving => Effort' < Effort \/ UNCHANGED <<life, pc, cnt, packet>>]_vars

\* The commands are served as Remote promises.
Job == IF pc \in JobPlaces THEN item ELSE NoItem
Abstract == INSTANCE Remote WITH
    Commands <- Items, NoCommand <- NoItem, Tries <- MaxTries, job <- Job
ImplementsRemote == Abstract!Spec

-----------------------------------------------------------------------------
(* The inductive invariant, for answers that arrive whole: how many of the *)
(* cnt attempts can have been transmitted, at each place.                  *)
CountInv ==
    /\ pc \in JobPlaces => item \in Items
    /\ pc \in {"attempt", "send"} => transmitted < cnt
    /\ pc = "reconnect" => transmitted <= cnt
    /\ pc = "done" => transmitted \in 1..cnt
    /\ pc = "reply" =>
         /\ transmitted <= cnt
         /\ commands # <<>> => transmitted < cnt
         /\ HasAnswer(stream) => transmitted > 0

\* InStep, and what the one outstanding command or answer is.
StepInv ==
    /\ pc # "reply" => commands = <<>> /\ stream = <<>>
    /\ pc = "reply" => \/ commands = <<>>
                       \/ commands = <<"own">> /\ stream = <<>>
    /\ conn = "lost" => commands = <<>>
    /\ stream = <<>> \/ \E a \in {"whole", "refusal"} : stream = <<a>>

GInv == TypeOK /\ CountInv /\ StepInv

\* For answers in parts: at most as many transmissions, made or to come, as attempts.
Attempts ==
    CASE pc \in {"attempt", "send"} -> cnt - 1
      [] pc \in {"reply", "reconnect", "done"} -> cnt
      [] pc \notin JobPlaces -> MaxTries
TriesInv == transmitted + Cardinality(Outstanding) <= Attempts

-----------------------------------------------------------------------------
(* A gateway that knows the devices, and why it cannot end the driver.     *)
WellBehaved ==
    /\ Orderly
    /\ \A d \in Datagrams :
         d.kind \notin {"named", "mangled", "broken"} /\ Len(d.items) <= MaxObjects
    /\ \A i \in Items : i.sid \in Sids /\ i.value \in 0..CodeCount[i.sid]

EndInv ==
    /\ EndsNotByCommand
    /\ pc = "connect" => inbox = <<>>
    /\ pc = "await" => inbox = <<>> \/ \E d \in Datagrams : inbox = <<d>> /\ d.kind = "ack"
    /\ pc \in JobPlaces => item \in Items
=============================================================================
