------------------------------- MODULE Driver -------------------------------
(***************************************************************************)
(* Scanner and Gateway over one table.  tcp_send_IRcode() (itach_cmd.c) on *)
(* the main thread keeps the itach_t it looked up, and uses it without the *)
(* mutex: it sends, receives and, on a failure, closes and dials again.    *)
(* Meanwhile the alarm handler (itach.c) may close and dial the same node, *)
(* or unlink and free it; malloc() may then give its memory to others.     *)
(*                                                                         *)
(* Nodes are memory, a node that is not in head is free or in other hands. *)
(* A descriptor is closed, or connected to an address.  Who has an address *)
(* is not known to the driver, which learns of a new one at the end of a   *)
(* window.  itach_tmp_head is an input: the walks meet in it any address   *)
(* or none, and beacons may change it from one node to the next.  Scanner  *)
(* has that list and the scanner thread, Gateway the commands, retries and *)
(* answers; the mutex is taken while the handler is in one of its two      *)
(* walks, and for the one step of a look-up.                               *)
(***************************************************************************)
CONSTANTS
    Modules,          \* iTach modules (a uuid each)
    Ips,              \* addresses
    Nodes,            \* memory for nodes
    Fds,              \* descriptors
    NoModule, NoIp, NoNode, NoFd,
    Held              \* of recv(): a connection that has no descriptor any more

ASSUME NoAssumption ==
    /\ NoModule \notin Modules /\ NoIp \notin Ips /\ NoNode \notin Nodes
    /\ NoFd \notin Fds /\ Held \notin Fds

VARIABLES
    life,             \* "up", "exited" (connect_to_itach() failed), "killed" (SIGPIPE)
    head,             \* the nodes on g_itach_head
    node,             \* uuid, ip and tcpfd in a node's memory
    sock,             \* descriptors: the address it is connected to
    asked,            \* descriptors with a command or (part of) an answer under way
    behind,           \* those of them where recv() has left part of an answer
    hPc, cur, todo,   \* the handler: place, node, nodes its walk has to pass
    mPc, want, ptr,   \* main: place, module it serves, and the node it keeps
    via,              \* the descriptor given to send(), then the one given to recv()
    hit,              \* what happened to that node since it was looked up
    apart             \* main used no freed node, and none while the other dialled it

tabVars  == <<head, node, sock, asked, behind>>
hVars    == <<hPc, cur, todo>>
mainVars == <<mPc, want, ptr>>
vars     == <<life, tabVars, hVars, mainVars, via, hit, apart>>

Memory == [uuid : Modules \union {NoModule}, ip : Ips \union {NoIp}, fd : Fds \union {NoFd}]

TypeOK ==
    /\ life \in {"up", "exited", "killed"}
    /\ head \subseteq Nodes /\ node \in [Nodes -> Memory]
    /\ sock \in [Fds -> Ips \union {NoIp}] /\ asked \subseteq Fds /\ behind \subseteq asked
    /\ hPc \in {"idle", "lost", "moved", "redial", "between", "new", "dial"}
    /\ cur \in Nodes \union {NoNode} /\ todo \subseteq Nodes
    /\ mPc \in {"ready", "found", "sent", "waiting", "closed"}
    /\ want \in Modules \union {NoModule} /\ ptr \in Nodes \union {NoNode}
    /\ via \in Fds \union {NoFd, Held}
    /\ mPc # "ready" => want \in Modules /\ ptr \in Nodes
    /\ hit \subseteq {"lost", "dialled"} /\ apart \in BOOLEAN

Init ==
    /\ life = "up"
    /\ head = {} /\ node = [n \in Nodes |-> [uuid |-> NoModule, ip |-> NoIp, fd |-> NoFd]]
    /\ sock = [f \in Fds |-> NoIp] /\ asked = {} /\ behind = {}
    /\ hPc = "idle" /\ cur = NoNode /\ todo = {}
    /\ mPc = "ready" /\ want = NoModule /\ ptr = NoNode /\ via = NoFd
    /\ hit = {} /\ apart = TRUE

-----------------------------------------------------------------------------
(* Sockets.                                                                *)
CloseFd(f) ==
    /\ sock' = [g \in Fds |-> IF g = f THEN NoIp ELSE sock[g]]
    /\ asked' = asked \ {f} /\ behind' = behind \ {f}

\* connect_to_itach() to the address a: any closed descriptor.
Connect(n, f, a) ==
    /\ sock[f] = NoIp
    /\ sock' = [sock EXCEPT ![f] = a]
    /\ node' = [node EXCEPT ![n].fd = f]

-----------------------------------------------------------------------------
(* The main thread.                                                        *)
MainGoto(from, to) == life = "up" /\ mPc = from /\ mPc' = to

\* tcp_send_IRcode() returns; its variables are gone.
Return == want' = NoModule /\ ptr' = NoNode /\ via' = NoFd /\ hit' = {}

\* Main uses the node it keeps.
Uses(also) == apart' = (apart /\ "lost" \notin hit /\ also)

\* get_itach(); the mutex is free again when it returns.
\* (A mutation: any node, also one that was never filled.)
GetItachAny(n) ==
    /\ MainGoto("ready", "found")
    /\ hPc \in {"idle", "between"}
    /\ ptr' = n /\ want' = node[n].uuid
    /\ UNCHANGED <<life, tabVars, hVars, via, hit, apart>>

GetItach(n) ==
    /\ MainGoto("ready", "found")
    /\ hPc \in {"idle", "between"}
    /\ n \in head
    /\ ptr' = n /\ want' = node[n].uuid
    /\ UNCHANGED <<life, tabVars, hVars, via, hit, apart>>

\* send() on the tcpfd that is in the node now.
Send ==
    /\ MainGoto("found", "sent")
    /\ \E f \in Fds :
         /\ f = node[ptr].fd /\ sock[f] # NoIp
         /\ via' = f /\ asked' = asked \union {f}
    /\ Uses(TRUE)
    /\ UNCHANGED <<life, head, node, sock, behind, hVars, want, ptr, hit>>

\* send() with flags 0 to a module that has closed its end: SIGPIPE.
SendKilled ==
    /\ life = "up" /\ mPc = "found"
    /\ life' = "killed"
    /\ UNCHANGED <<tabVars, hVars, mainVars, via, hit, apart>>

\* recv() is called with the tcpfd that is in the node by then.
CallRecv ==
    /\ MainGoto("sent", "waiting")
    /\ via' = node[ptr].fd
    /\ Uses(TRUE)
    /\ UNCHANGED <<life, tabVars, hVars, want, ptr, hit>>

\* It returns what has come of the answer, all of it or a part, from the connection
\* it waits on, and blocks while nothing was asked there.
Recv ==
    /\ MainGoto("waiting", "ready")
    /\ \/ via = Held /\ UNCHANGED <<asked, behind>>
       \/ via \in asked /\ asked' = asked \ {via} /\ behind' = behind \ {via}
       \/ via \in asked /\ behind' = behind \union {via} /\ UNCHANGED asked
    /\ Return
    /\ UNCHANGED <<life, head, node, sock, hVars, apart>>

\* send() or recv() fails: reconnection_itach(), its close() ...
\* (A mutation: it gives up the exchange and keeps the connection.)
CloseNothing ==
    /\ life = "up" /\ mPc \in {"found", "waiting"}
    /\ mPc' = "ready" /\ Return
    /\ UNCHANGED <<life, tabVars, hVars, apart>>

Close ==
    /\ life = "up" /\ mPc \in {"found", "waiting"}
    /\ mPc' = "closed" /\ via' = NoFd
    /\ CloseFd(node[ptr].fd)
    /\ Uses(~(hPc \in {"moved", "redial"} /\ cur = ptr))
    /\ UNCHANGED <<life, head, node, hVars, want, ptr, hit>>

\* ... and its connect_to_itach(), to the address in the node, whoever has it by now.
\* A node that was freed may hold any.
Redial(f) ==
    /\ MainGoto("closed", "ready")
    /\ \E a \in Ips :
         /\ ptr \in head => a = node[ptr].ip
         /\ Connect(ptr, f, a)
    /\ Return
    /\ UNCHANGED <<life, head, asked, behind, hVars, apart>>

-----------------------------------------------------------------------------
(* The handler, on whatever thread.                                        *)
HandlerGoto(from, to) == life = "up" /\ hPc = from /\ hPc' = to

\* What it does to a node that main keeps.
Hits(n, what) == hit' = IF n = ptr /\ mPc # "ready" THEN hit \union {what} ELSE hit

\* It touches the node: main should not be dialling it.
Touches(n) == apart' = (apart /\ ~(mPc = "closed" /\ n = ptr))

Fire ==
    /\ HandlerGoto("idle", "lost")
    /\ todo' = head
    /\ UNCHANGED <<life, tabVars, cur, mainVars, via, hit, apart>>

Pass(n) == n \in todo /\ todo' = todo \ {n}

LostSame(n) ==
    /\ HandlerGoto("lost", "lost")
    /\ Pass(n)
    /\ UNCHANGED <<life, tabVars, cur, mainVars, via, hit, apart>>

\* The module has another address: it is copied into the node, ...
LostMoved(n, a) ==
    /\ HandlerGoto("lost", "moved")
    /\ Pass(n) /\ a # node[n].ip
    /\ node' = [node EXCEPT ![n].ip = a] /\ cur' = n
    /\ Hits(n, "dialled") /\ Touches(n)
    /\ UNCHANGED <<life, head, sock, asked, behind, mainVars, via>>

\* ... and reconnection_itach() closes.  A recv() that waits there keeps the old
\* connection, or is started again on the number (SA_RESTART).
LostClose ==
    /\ HandlerGoto("moved", "redial")
    /\ CloseFd(node[cur].fd)
    /\ via' \in IF mPc = "waiting" /\ via = node[cur].fd THEN {via, Held} ELSE {via}
    /\ UNCHANGED <<life, head, node, cur, todo, mainVars, hit, apart>>

\* (A mutation: the descriptor of the node is not replaced.)
LostRedialKeeps(f) ==
    /\ HandlerGoto("redial", "lost")
    /\ sock[f] = NoIp
    /\ sock' = [sock EXCEPT ![f] = node[cur].ip] /\ cur' = NoNode
    /\ UNCHANGED <<life, head, node, asked, behind, todo, mainVars, via, hit, apart>>

LostRedial(f) ==
    /\ HandlerGoto("redial", "lost")
    /\ Connect(cur, f, node[cur].ip) /\ cur' = NoNode
    /\ UNCHANGED <<life, head, asked, behind, todo, mainVars, via, hit, apart>>

\* The module was not heard: list_del() and free().  Its socket stays open, and of
\* the freed memory only the descriptor is read as it was.
LostAbsent(n) ==
    /\ HandlerGoto("lost", "lost")
    /\ Pass(n)
    /\ head' = head \ {n}
    /\ node' = [node EXCEPT ![n].uuid = NoModule, ![n].ip = NoIp]
    /\ Hits(n, "lost") /\ Touches(n)
    /\ UNCHANGED <<life, sock, asked, behind, cur, mainVars, via>>

LostUnlock ==
    /\ HandlerGoto("lost", "between")
    /\ todo = {}
    /\ UNCHANGED <<life, tabVars, cur, todo, mainVars, via, hit, apart>>

NewLock ==
    /\ HandlerGoto("between", "new")
    /\ UNCHANGED <<life, tabVars, cur, todo, mainVars, via, hit, apart>>

Served == {node[n].uuid : n \in head}

\* insert_new_itach() may be given memory that main still points to.
NewInsert(u, a, n) ==
    /\ HandlerGoto("new", "dial")
    /\ u \notin Served /\ n \notin head
    /\ head' = head \union {n}
    /\ node' = [node EXCEPT ![n] = [uuid |-> u, ip |-> a, fd |-> NoFd]]
    /\ cur' = n
    /\ UNCHANGED <<life, sock, asked, behind, todo, mainVars, via, hit, apart>>

NewConnect(f) ==
    /\ HandlerGoto("dial", "new")
    /\ Connect(cur, f, node[cur].ip) /\ cur' = NoNode
    /\ UNCHANGED <<life, head, asked, behind, todo, mainVars, via, hit, apart>>

NewUnlock ==
    /\ HandlerGoto("new", "idle")
    /\ UNCHANGED <<life, tabVars, cur, todo, mainVars, via, hit, apart>>

\* connect_to_itach() fails, here or on the main thread.
ConnectFails ==
    /\ life = "up" /\ (hPc \in {"redial", "dial"} \/ mPc = "closed")
    /\ life' = "exited"
    /\ UNCHANGED <<tabVars, hVars, mainVars, via, hit, apart>>

\* Freed memory is written by free(), or by the next owner.  Only main still reads
\* it, and of its contents only the descriptor and the address (Redial).
Overwritten ==
    /\ life = "up" /\ ptr \in Nodes \ head
    /\ \E f \in Fds \union {NoFd} : node' = [node EXCEPT ![ptr].fd = f]
    /\ UNCHANGED <<life, head, sock, asked, behind, hVars, mainVars, via, hit, apart>>

-----------------------------------------------------------------------------
MainStep == Send \/ SendKilled \/ CallRecv \/ Recv \/ Close \/ \E f \in Fds : Redial(f)
Walk(n) ==
    \/ LostSame(n) \/ LostAbsent(n)
    \/ \E a \in Ips : LostMoved(n, a) \/ \E u \in Modules : NewInsert(u, a, n)
Dialled(f) == LostRedial(f) \/ NewConnect(f)

Next ==
    \/ MainStep
    \/ \E n \in Nodes : GetItach(n) \/ Walk(n)
    \/ \E f \in Fds : Dialled(f)
    \/ Fire \/ LostClose \/ LostUnlock \/ NewLock \/ NewUnlock \/ ConnectFails \/ Overwritten

Spec == Init /\ [][Next]_vars

-----------------------------------------------------------------------------
(* What should be true of it.                                              *)

Dialling(n) ==
    \/ hPc \in {"moved", "redial", "dial"} /\ n = cur
    \/ mPc = "closed" /\ n = ptr

\* Main and handler may close and dial at the same time (itach_cmd.c:44-48, from 127
\* and from itach.c:173), but as long as it is not the same node, and not one that
\* was freed, every module served has a connection of its own, to the address in its
\* node.
TableSound == apart => \A n \in head : ~Dialling(n) =>
    /\ node[n].fd \in Fds /\ sock[node[n].fd] = node[n].ip
    /\ \A m \in head \ {n} : ~Dialling(m) => node[m].fd # node[n].fd

\* Although the node is used without the mutex (itach_cmd.c:99, 125), a command goes to
\* the address at which the table has the module it is for, unless the module was lost
\* in between, or the handler is about to dial another.
SentToItsAddress ==
    [][mPc = "found" /\ mPc' = "sent" /\ apart' /\ ~Dialling(ptr) =>
         node[ptr].uuid = want /\ sock[via'] = node[ptr].ip]_vars

\* recv() waits where the command was sent (itach_cmd.c:125, 130), unless the handler
\* dialled or freed the node in between: then it may wait for ever.
AwaitedWhereAsked ==
    mPc \in {"sent", "waiting"} /\ apart /\ hit = {} =>
        via = node[ptr].fd /\ via \in asked /\ sock[via] = node[ptr].ip

\* When an exchange is over, nothing of it is under way, on whatever connection and
\* whatever failed or was dialled again (itach_cmd.c:126-133), but what a recv() left
\* that took part of an answer (itach_cmd.c:64).
NoOldAnswer == apart /\ mPc = "ready" => asked \subseteq behind

-----------------------------------------------------------------------------
(* The inductive invariant.                                                *)

PlaceInv ==
    /\ todo \subseteq head
    /\ IF hPc \in {"moved", "redial", "dial"} THEN cur \in head ELSE cur = NoNode
    /\ mPc = "ready" => ptr = NoNode /\ hit = {}
    /\ \A n \in head : node[n].uuid \in Modules /\ node[n].ip \in Ips

\* The node main keeps is the one it looked up as long as it was not lost, and while
\* main dials it, it was not and the handler does not.
KeptInv == apart /\ mPc # "ready" =>
    /\ "lost" \notin hit => ptr \in head /\ node[ptr].uuid = want /\ ~(hPc = "dial" /\ cur = ptr)
    /\ mPc = "closed" => "lost" \notin hit /\ cur # ptr

\* A node that is dialled again while main keeps it has a closed descriptor.
RedialInv == apart /\ hPc \in {"moved", "redial"} /\ mPc # "ready" /\ cur = ptr =>
    /\ "dialled" \in hit
    /\ hPc = "redial" /\ node[ptr].fd \in Fds => sock[node[ptr].fd] = NoIp

\* Until it is closed, the connection of a node with a new address is its own.
MovedInv == apart /\ hPc = "moved" =>
    /\ node[cur].fd \in Fds /\ sock[node[cur].fd] # NoIp
    /\ \A m \in head \ {cur} : ~Dialling(m) => node[m].fd # node[cur].fd

AskInv == apart =>
    /\ \A f \in asked : sock[f] # NoIp
    /\ \A f \in asked \ behind : mPc \in {"sent", "waiting"} /\ f = via
    /\ mPc \in {"sent", "waiting"} /\ "lost" \notin hit =>
         via \notin asked \ behind \/ node[ptr].fd = via

DInv ==
    /\ TypeOK /\ PlaceInv /\ KeptInv /\ RedialInv /\ MovedInv /\ TableSound
    /\ AskInv /\ AwaitedWhereAsked
=============================================================================
