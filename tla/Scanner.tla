------------------------------- MODULE Scanner -------------------------------
(***************************************************************************)
(* itach/itach.c, itach/beacon.c and the connection half of                *)
(* itach/itach_cmd.c: the thread work_scanning(), the SIGALRM handler      *)
(* sigalarm(), and the two lists they share without a lock of their own.   *)
(*                                                                         *)
(*  - The thread collects beacons in itach_tmp_head.  When the handler has *)
(*    raised scan_ending_flag it frees that list, re-arms the alarm, lowers*)
(*    the flag and records g_itach_head in a file.                         *)
(*  - The handler compares the two lists: it reports, unlinks and frees    *)
(*    modules that were not heard, follows address changes, and adopts and *)
(*    connects to modules that are new.                                    *)
(*  - The handler is an interrupt: it runs on the stack of some thread of  *)
(*    the process (HandlerThreads says which ones may be chosen), and that *)
(*    thread makes no step until the handler returns.                      *)
(*  - The main thread appears here only through what it does to the        *)
(*    scanner: it takes and releases the two mutexes, and allocates.       *)
(*                                                                         *)
(* A list is the set of modules on it with their fields: every insertion   *)
(* is made by the list's only writer, after a look-up of the same uuid.    *)
(* The one node whose links are incomplete is kept in halfLinked.          *)
(***************************************************************************)
EXTENDS Naturals, FiniteSets

CONSTANTS
    Modules,          \* iTach modules (a uuid each)
    Ips,              \* addresses a module can have
    Fds,              \* descriptors the process may hold for module sockets
    NoModule, NoIp,   \* "none" (a null node, an unused address)
    TornIp,           \* an address read between memset() and strcpy()
    HandlerThreads,   \* threads the kernel may run the handler on
    PromptRearm       \* TRUE: no 15 s pass between alarm() and the next recvfrom()

ASSUME ModulesAssumption == NoModule \notin Modules
ASSUME IpsAssumption == Ips # {} /\ NoIp \notin Ips /\ TornIp \notin Ips /\ NoIp # TornIp
ASSUME ThreadsAssumption == HandlerThreads \subseteq {"main", "scanner"}
ASSUME PromptAssumption == PromptRearm \in BOOLEAN

VARIABLES
    life,             \* "up", "exited" (exit() was called) or "crashed"
    gLock, dLock,     \* owners of g_itachs_mutex and g_IRdevs_mutex
    known, ip, fd,    \* g_itach_head: the uuids on it, their ip and tcpfd
    sock,             \* open sockets: the address each is connected to
    reported,         \* modules reported offline since they were last adopted
    tmp, tmpIp,       \* itach_tmp_head: the uuids on it and their ip
    lastIp,           \* history: the address in the last beacon of each put on it
    halfLinked,       \* the node of itach_tmp_head whose next is still null
    scanPc, beacon,   \* work_scanning(): its place, and the beacon it holds
    snap,             \* the object record_itachs() built under the lock
    file,             \* ITACHS_CONFIG_PATH: its text and what that lists
    armed, flag,      \* the alarm is running; scan_ending_flag
    hPc, on,          \* sigalarm(): its place, and the thread that carries it
    cur, walked,      \* its cursor, and the nodes its present walk has passed
    due,              \* the uuids that were on itach_tmp_head when it started
    reused            \* the node it freed last was allocated again since

lockVars == <<gLock, dLock>>
tabVars  == <<known, ip, fd, sock, reported>>
tmpVars  == <<tmp, tmpIp, lastIp, halfLinked>>
fileVars == <<snap, file>>
sigVars  == <<armed, flag>>
walkVars == <<cur, walked, due, reused>>
hVars    == <<hPc, on, walkVars>>
scanVars == <<scanPc, beacon, tmpVars, fileVars>>
vars     == <<life, lockVars, tabVars, scanVars, sigVars, hVars>>

AnyIp    == Ips \union {NoIp, TornIp}
AnyFd    == Fds \union {"none"}
Owners   == {"free", "main", "scanner", "handler"}
NoIps    == [u \in Modules |-> NoIp]
NoBeacon == [uuid |-> NoModule, ip |-> NoIp]

\* The program counters, in the order of the code.
ScanPcs == {"boot", "check", "free", "arm", "clear", "lock", "snap",
            "truncate", "write", "recv", "parse", "link", "copy"}
HandlerPcs == {"idle", "lockLost", "lost", "upload", "drop", "next", "copyIp",
               "reconnect", "lockNew", "new", "connect", "print", "raise"}

TypeOK ==
    /\ life \in {"up", "exited", "crashed"}
    /\ gLock \in Owners /\ dLock \in Owners
    /\ known \subseteq Modules
    /\ ip \in [Modules -> AnyIp] /\ fd \in [Modules -> AnyFd]
    /\ sock \in [Fds -> AnyIp]
    /\ reported \subseteq Modules
    /\ tmp \subseteq Modules /\ tmpIp \in [Modules -> AnyIp]
    /\ lastIp \in [Modules -> Ips \union {NoIp}]
    /\ halfLinked \in Modules \union {NoModule}
    /\ scanPc \in ScanPcs
    /\ beacon \in [uuid : Modules \union {NoModule}, ip : Ips \union {NoIp}]
    /\ snap \in [Modules -> AnyIp]
    /\ file \in [text : {"stale", "empty", "full"}, list : [Modules -> AnyIp]]
    /\ armed \in BOOLEAN /\ flag \in BOOLEAN
    /\ hPc \in HandlerPcs /\ on \in {"nobody", "main", "scanner"}
    /\ cur \in Modules \union {NoModule}
    /\ walked \subseteq Modules /\ due \subseteq Modules
    /\ reused \in BOOLEAN

Init ==
    /\ life = "up"
    /\ gLock = "free" /\ dLock = "free"
    /\ known = {} /\ ip = NoIps /\ fd = [u \in Modules |-> "none"]
    /\ sock = [f \in Fds |-> NoIp]
    /\ reported = {}
    /\ tmp = {} /\ tmpIp = NoIps /\ lastIp = NoIps /\ halfLinked = NoModule
    /\ scanPc = "boot" /\ beacon = NoBeacon
    /\ snap = NoIps /\ file = [text |-> "stale", list |-> NoIps]
    /\ armed = FALSE /\ flag = FALSE
    /\ hPc = "idle" /\ on = "nobody"
    /\ cur = NoModule /\ walked = {} /\ due = {} /\ reused = FALSE

-----------------------------------------------------------------------------
(* Threads.  A thread steps while the process lives and it is not carrying *)
(* the handler.                                                            *)
Runs(t) == life = "up" /\ on # t

-----------------------------------------------------------------------------
(* The main thread.                                                        *)
\* get_itach(): the look-up holds g_itachs_mutex.
MainLockItachs ==
    /\ Runs("main")
    /\ gLock = "free" /\ dLock # "main"
    /\ gLock' = "main"
    /\ UNCHANGED <<life, dLock, tabVars, scanVars, sigVars, hVars>>

MainUnlockItachs ==
    /\ Runs("main")
    /\ gLock = "main"
    /\ gLock' = "free"
    /\ UNCHANGED <<life, dLock, tabVars, scanVars, sigVars, hVars>>

\* get_IRdev() and upload_init_IRdevs_status() hold g_IRdevs_mutex.
MainLockIRdevs ==
    /\ Runs("main")
    /\ dLock = "free" /\ gLock # "main"
    /\ dLock' = "main"
    /\ UNCHANGED <<life, gLock, tabVars, scanVars, sigVars, hVars>>

MainUnlockIRdevs ==
    /\ Runs("main")
    /\ dLock = "main"
    /\ dLock' = "free"
    /\ UNCHANGED <<life, gLock, tabVars, scanVars, sigVars, hVars>>

\* While the handler is between free() and pos->next on another thread, an
\* allocation by the main thread may be given the freed node.
MainMalloc ==
    /\ Runs("main")
    /\ hPc = "next" /\ ~reused
    /\ reused' = TRUE
    /\ UNCHANGED <<life, lockVars, tabVars, scanVars, sigVars, hPc, on, cur, walked, due>>

-----------------------------------------------------------------------------
(* work_scanning()                                                         *)
ScanGoto(from, to) == scanPc = from /\ scanPc' = to

\* socket(), the multicast group and bind(); a failure exits the process.
BeaconInit == life' \in {"up", "exited"}

\* Empty lists, flag down, handler installed, alarm armed, socket bound.
ScanBoot ==
    /\ Runs("scanner")
    /\ ScanGoto("boot", "check")
    /\ tmp' = {} /\ known' = {}
    /\ flag' = FALSE /\ armed' = TRUE
    /\ BeaconInit
    /\ UNCHANGED <<lockVars, ip, fd, sock, reported, beacon, tmpIp, lastIp, halfLinked, fileVars, hVars>>

\* A mutation of ScanCheck: the alarm is re-armed before the list is freed.
ScanCheckArms ==
    /\ Runs("scanner")
    /\ ScanGoto("check", IF flag THEN "free" ELSE "recv")
    /\ armed' = (armed \/ flag)
    /\ UNCHANGED <<life, lockVars, tabVars, beacon, tmpVars, fileVars, flag, hVars>>

ScanCheck ==
    /\ Runs("scanner")
    /\ ScanGoto("check", IF flag THEN "free" ELSE "recv")
    /\ UNCHANGED <<life, lockVars, tabVars, beacon, tmpVars, fileVars, sigVars, hVars>>

\* free_itach_list(): with FreeNotUnderWalk nobody else walks the list, so the
\* node-by-node release is one step.
ScanFree ==
    /\ Runs("scanner")
    /\ ScanGoto("free", "arm")
    /\ tmp' = {} /\ tmpIp' = NoIps /\ lastIp' = NoIps
    /\ UNCHANGED <<life, lockVars, tabVars, beacon, halfLinked, fileVars, sigVars, hVars>>

\* A mutation of ScanArm: alarm() is forgotten.
ScanArmForgets ==
    /\ Runs("scanner")
    /\ ScanGoto("arm", "clear")
    /\ UNCHANGED <<life, lockVars, tabVars, beacon, tmpVars, fileVars, sigVars, hVars>>

ScanArm ==
    /\ Runs("scanner")
    /\ ScanGoto("arm", "clear")
    /\ armed' = TRUE
    /\ UNCHANGED <<life, lockVars, tabVars, beacon, tmpVars, fileVars, flag, hVars>>

\* A mutation of ScanClear: the flag stays up.
ScanClearForgets ==
    /\ Runs("scanner")
    /\ ScanGoto("clear", "lock")
    /\ UNCHANGED <<life, lockVars, tabVars, beacon, tmpVars, fileVars, sigVars, hVars>>

ScanClear ==
    /\ Runs("scanner")
    /\ ScanGoto("clear", "lock")
    /\ flag' = FALSE
    /\ UNCHANGED <<life, lockVars, tabVars, beacon, tmpVars, fileVars, armed, hVars>>

\* record_itachs(): lock, build the object and unlock, truncate, write.
RecordLock ==
    /\ Runs("scanner")
    /\ ScanGoto("lock", "snap")
    /\ gLock = "free"
    /\ gLock' = "scanner"
    /\ UNCHANGED <<life, dLock, tabVars, beacon, tmpVars, fileVars, sigVars, hVars>>

\* A mutation of RecordSnap: itach_tmp_head is recorded.
RecordSnapHeard ==
    /\ Runs("scanner")
    /\ ScanGoto("snap", "truncate")
    /\ snap' = tmpIp
    /\ gLock' = "free"
    /\ UNCHANGED <<life, dLock, tabVars, beacon, tmpVars, file, sigVars, hVars>>

RecordSnap ==
    /\ Runs("scanner")
    /\ ScanGoto("snap", "truncate")
    /\ snap' = [u \in Modules |-> IF u \in known THEN ip[u] ELSE NoIp]
    /\ gLock' = "free"
    /\ UNCHANGED <<life, dLock, tabVars, beacon, tmpVars, file, sigVars, hVars>>

RecordTruncate ==
    /\ Runs("scanner")
    /\ ScanGoto("truncate", "write")
    /\ file' = [text |-> "empty", list |-> NoIps]
    /\ UNCHANGED <<life, lockVars, tabVars, beacon, tmpVars, snap, sigVars, hVars>>

RecordWrite ==
    /\ Runs("scanner")
    /\ ScanGoto("write", "recv")
    /\ file' = [text |-> "full", list |-> snap]
    /\ snap' = NoIps
    /\ UNCHANGED <<life, lockVars, tabVars, beacon, tmpVars, sigVars, hVars>>

\* recvfrom() has no timeout: only a beacon ends it (SIGALRM restarts it).
RecvBeacon(u, i) ==
    /\ Runs("scanner")
    /\ ScanGoto("recv", "parse")
    /\ beacon' = [uuid |-> u, ip |-> i]
    /\ UNCHANGED <<life, lockVars, tabVars, tmpVars, fileVars, sigVars, hVars>>

\* insert_new_itach(&itach_tmp_head): the first store of list_add_tail() makes
\* the node reachable, its own next is set by the second.
TmpInsert ==
    /\ Runs("scanner")
    /\ ScanGoto("parse", "link")
    /\ beacon.uuid \notin tmp
    /\ tmp' = tmp \union {beacon.uuid}
    /\ tmpIp' = [tmpIp EXCEPT ![beacon.uuid] = beacon.ip]
    /\ lastIp' = [lastIp EXCEPT ![beacon.uuid] = beacon.ip]
    /\ halfLinked' = beacon.uuid
    /\ reused' \in IF hPc = "next" THEN BOOLEAN ELSE {reused}
    /\ UNCHANGED <<life, lockVars, tabVars, beacon, fileVars, sigVars, hPc, on, cur, walked, due>>

TmpLink ==
    /\ Runs("scanner")
    /\ ScanGoto("link", "check")
    /\ halfLinked' = NoModule
    /\ beacon' = NoBeacon
    /\ UNCHANGED <<life, lockVars, tabVars, tmp, tmpIp, lastIp, fileVars, sigVars, hVars>>

\* updata_itach_ip(): nothing when the address is the same, else memset() ...
TmpSameIp ==
    /\ Runs("scanner")
    /\ ScanGoto("parse", "check")
    /\ beacon.uuid \in tmp /\ tmpIp[beacon.uuid] = beacon.ip
    /\ beacon' = NoBeacon
    /\ UNCHANGED <<life, lockVars, tabVars, tmpVars, fileVars, sigVars, hVars>>

TmpTearIp ==
    /\ Runs("scanner")
    /\ ScanGoto("parse", "copy")
    /\ beacon.uuid \in tmp /\ tmpIp[beacon.uuid] # beacon.ip
    /\ tmpIp' = [tmpIp EXCEPT ![beacon.uuid] = TornIp]
    /\ UNCHANGED <<life, lockVars, tabVars, beacon, tmp, lastIp, halfLinked, fileVars, sigVars, hVars>>

\* ... and strcpy().
TmpCopyIp ==
    /\ Runs("scanner")
    /\ ScanGoto("copy", "check")
    /\ tmpIp' = [tmpIp EXCEPT ![beacon.uuid] = beacon.ip]
    /\ lastIp' = [lastIp EXCEPT ![beacon.uuid] = beacon.ip]
    /\ beacon' = NoBeacon
    /\ UNCHANGED <<life, lockVars, tabVars, tmp, halfLinked, fileVars, sigVars, hVars>>

ScanStep ==
    \/ ScanBoot \/ ScanCheck \/ ScanFree \/ ScanArm \/ ScanClear
    \/ RecordSnap \/ RecordTruncate \/ RecordWrite
    \/ TmpInsert \/ TmpLink \/ TmpSameIp \/ TmpTearIp \/ TmpCopyIp

-----------------------------------------------------------------------------
(* sigalarm()                                                              *)
HandlerRuns == life = "up" /\ hPc # "idle"
HandlerGoto(from, to) == HandlerRuns /\ hPc = from /\ hPc' = to

\* The 15 s alarm expires and the kernel picks the thread.  The few statements
\* from alarm() to the next recvfrom() take far less, unless PromptRearm is FALSE.
Fire(t) ==
    /\ life = "up" /\ armed /\ hPc = "idle"
    /\ t \in HandlerThreads
    /\ PromptRearm => scanPc \notin {"clear", "lock", "snap", "truncate", "write"}
    /\ armed' = FALSE
    /\ on' = t
    /\ hPc' = "lockLost"
    /\ due' = tmp
    /\ UNCHANGED <<life, lockVars, tabVars, scanVars, flag, cur, walked, reused>>

\* check_itach_ip_and_lost()
LostLock ==
    /\ HandlerGoto("lockLost", "lost")
    /\ gLock = "free"
    /\ gLock' = "handler"
    /\ walked' = {}
    /\ UNCHANGED <<life, dLock, tabVars, scanVars, sigVars, on, cur, due, reused>>

\* The walk of g_itach_head looks each uuid up in itach_tmp_head.  A look-up
\* that fails has read the links of every node.
\* A mutation of LostSame: the addresses are not compared.
LostSameUnread(u) ==
    /\ HandlerRuns /\ hPc = "lost"
    /\ u \in (known \ walked) \intersect tmp
    /\ walked' = walked \union {u}
    /\ UNCHANGED <<life, lockVars, tabVars, scanVars, sigVars, hPc, on, cur, due, reused>>

LostSame(u) ==
    /\ HandlerRuns /\ hPc = "lost"
    /\ u \in (known \ walked) \intersect tmp
    /\ ip[u] = tmpIp[u]
    /\ walked' = walked \union {u}
    /\ UNCHANGED <<life, lockVars, tabVars, scanVars, sigVars, hPc, on, cur, due, reused>>

LostMoved(u) ==
    /\ HandlerGoto("lost", "copyIp")
    /\ u \in (known \ walked) \intersect tmp
    /\ ip[u] # tmpIp[u]
    /\ cur' = u
    /\ UNCHANGED <<life, lockVars, tabVars, scanVars, sigVars, on, walked, due, reused>>

\* Mutations of LostAbsent: the cursor is not advanced; nothing is uploaded.
LostAbsentNoCursor(u) ==
    /\ HandlerGoto("lost", "upload")
    /\ u \in (known \ walked) \ tmp
    /\ halfLinked = NoModule
    /\ UNCHANGED <<life, lockVars, tabVars, scanVars, sigVars, on, walkVars>>

LostAbsentUnreported(u) ==
    /\ HandlerGoto("lost", "drop")
    /\ u \in (known \ walked) \ tmp
    /\ halfLinked = NoModule
    /\ cur' = u
    /\ UNCHANGED <<life, lockVars, tabVars, scanVars, sigVars, on, walked, due, reused>>

LostAbsent(u) ==
    /\ HandlerGoto("lost", "upload")
    /\ u \in (known \ walked) \ tmp
    /\ halfLinked = NoModule
    /\ cur' = u
    /\ UNCHANGED <<life, lockVars, tabVars, scanVars, sigVars, on, walked, due, reused>>

\* upload_itach_lost(): every device of the module, under g_IRdevs_mutex.
LostUpload ==
    /\ HandlerGoto("upload", "drop")
    /\ dLock = "free"
    /\ reported' = reported \union {cur}
    /\ UNCHANGED <<life, lockVars, known, ip, fd, sock, scanVars, sigVars, on, walkVars>>

\* list_del() and free(): the socket in the node is not closed.
LostDrop ==
    /\ HandlerGoto("drop", "next")
    /\ known' = known \ {cur}
    /\ ip' = [ip EXCEPT ![cur] = NoIp]
    /\ fd' = [fd EXCEPT ![cur] = "none"]
    /\ UNCHANGED <<life, lockVars, sock, reported, scanVars, sigVars, on, walkVars>>

\* pos = pos->next, read from the freed node.  It still holds the old link
\* unless the allocator handed the node out again.
LostNext ==
    /\ HandlerGoto("next", "lost")
    /\ ~reused
    /\ walked' = walked \union {cur}
    /\ cur' = NoModule
    /\ UNCHANGED <<life, lockVars, tabVars, scanVars, sigVars, on, due, reused>>

LostNextGarbage ==
    /\ HandlerRuns /\ hPc = "next"
    /\ reused
    /\ life' = "crashed"
    /\ UNCHANGED <<lockVars, tabVars, scanVars, sigVars, hVars>>

\* A mutation of LostCopyIp: the module is not reconnected.
LostCopyIpOnly ==
    /\ HandlerGoto("copyIp", "lost")
    /\ ip' = [ip EXCEPT ![cur] = tmpIp[cur]]
    /\ UNCHANGED <<life, lockVars, known, fd, sock, reported, scanVars, sigVars, on, walkVars>>

\* strcpy() of the new address (read again), then reconnection_itach(): close
\* and connect_to_itach(), whose failure exits the process.
LostCopyIp ==
    /\ HandlerGoto("copyIp", "reconnect")
    /\ ip' = [ip EXCEPT ![cur] = tmpIp[cur]]
    /\ sock' = [f \in Fds |-> IF f = fd[cur] THEN NoIp ELSE sock[f]]
    /\ UNCHANGED <<life, lockVars, known, fd, reported, scanVars, sigVars, on, walkVars>>

\* (A mutation: the walk begins again at the head of the list.)
ConnectedAgain(u, f) ==
    /\ sock[f] = NoIp
    /\ sock' = [sock EXCEPT ![f] = ip[u]]
    /\ fd' = [fd EXCEPT ![u] = f]
    /\ walked' = {}
    /\ cur' = NoModule

Connected(u, f) ==
    /\ sock[f] = NoIp
    /\ sock' = [sock EXCEPT ![f] = ip[u]]
    /\ fd' = [fd EXCEPT ![u] = f]
    /\ walked' = walked \union {u}
    /\ cur' = NoModule

LostReconnect(f) ==
    /\ HandlerGoto("reconnect", "lost")
    /\ Connected(cur, f)
    /\ UNCHANGED <<life, lockVars, known, ip, reported, scanVars, sigVars, on, due, reused>>

\* A mutation of LostUnlock: the walk ends after the first node.
LostUnlockEarly ==
    /\ HandlerGoto("lost", "lockNew")
    /\ known # {} => walked # {}
    /\ gLock' = "free"
    /\ walked' = {}
    /\ UNCHANGED <<life, dLock, tabVars, scanVars, sigVars, on, cur, due, reused>>

LostUnlock ==
    /\ HandlerGoto("lost", "lockNew")
    /\ known \subseteq walked
    /\ gLock' = "free"
    /\ walked' = {}
    /\ UNCHANGED <<life, dLock, tabVars, scanVars, sigVars, on, cur, due, reused>>

\* check_new_itach()
NewLock ==
    /\ HandlerGoto("lockNew", "new")
    /\ gLock = "free"
    /\ gLock' = "handler"
    /\ UNCHANGED <<life, dLock, tabVars, scanVars, sigVars, on, walkVars>>

NewExisted(u) ==
    /\ HandlerRuns /\ hPc = "new"
    /\ u \in (tmp \ walked) \intersect known
    /\ walked' = walked \union {u}
    /\ UNCHANGED <<life, lockVars, tabVars, scanVars, sigVars, hPc, on, cur, due, reused>>

NewInsert(u) ==
    /\ HandlerGoto("new", "connect")
    /\ u \in (tmp \ walked) \ known
    /\ known' = known \union {u}
    /\ ip' = [ip EXCEPT ![u] = tmpIp[u]]
    /\ reported' = reported \ {u}
    /\ cur' = u
    /\ UNCHANGED <<life, lockVars, fd, sock, scanVars, sigVars, on, walked, due, reused>>

NewConnect(f) ==
    /\ HandlerGoto("connect", "new")
    /\ Connected(cur, f)
    /\ UNCHANGED <<life, lockVars, known, ip, reported, scanVars, sigVars, on, due, reused>>

\* connect_to_itach() without a descriptor or an answer: exit, locks held.
ConnectFails ==
    /\ HandlerRuns /\ hPc \in {"reconnect", "connect"}
    /\ life' = "exited"
    /\ UNCHANGED <<lockVars, tabVars, scanVars, sigVars, hVars>>

NewUnlock ==
    /\ HandlerGoto("new", "print")
    /\ tmp \subseteq walked /\ halfLinked = NoModule
    /\ gLock' = "free"
    /\ walked' = {}
    /\ UNCHANGED <<life, dLock, tabVars, scanVars, sigVars, on, cur, due, reused>>

\* print_itach_list(&itach_tmp_head): one more unlocked walk.
Printed ==
    /\ HandlerGoto("print", "raise")
    /\ halfLinked = NoModule
    /\ UNCHANGED <<life, lockVars, tabVars, scanVars, sigVars, on, walkVars>>

\* A walk that must pass the half-linked node follows its null next.
WalkOffEnd ==
    /\ HandlerRuns /\ halfLinked # NoModule
    /\ \/ hPc = "lost" /\ ~(known \subseteq walked \union tmp)
       \/ hPc = "new" /\ tmp \subseteq walked
       \/ hPc = "print"
    /\ life' = "crashed"
    /\ UNCHANGED <<lockVars, tabVars, scanVars, sigVars, hVars>>

Raise ==
    /\ HandlerGoto("raise", "idle")
    /\ flag' = TRUE
    /\ on' = "nobody"
    /\ due' = {}
    /\ UNCHANGED <<life, lockVars, tabVars, scanVars, armed, cur, walked, reused>>

HandlerWalk(u) ==
    LostSame(u) \/ LostMoved(u) \/ LostAbsent(u) \/ NewExisted(u) \/ NewInsert(u)

HandlerConnect == \/ \E f \in Fds : LostReconnect(f) \/ NewConnect(f)
                  \/ ConnectFails

HandlerStep ==
    \/ \E u \in Modules : HandlerWalk(u)
    \/ HandlerConnect
    \/ LostDrop \/ LostNext \/ LostNextGarbage \/ LostCopyIp \/ LostUnlock
    \/ NewUnlock \/ Printed \/ WalkOffEnd \/ Raise

-----------------------------------------------------------------------------
Beacon == \E u \in Modules, i \in Ips : RecvBeacon(u, i)
Main == MainLockItachs \/ MainUnlockItachs \/ MainLockIRdevs \/ MainUnlockIRdevs \/ MainMalloc
Alarm == \E t \in HandlerThreads : Fire(t)
HandlerLock == LostLock \/ LostUpload \/ NewLock

Next ==
    \/ Main
    \/ Beacon \/ ScanStep \/ RecordLock
    \/ Alarm \/ HandlerStep \/ HandlerLock

\* A mutex that is released again and again is obtained in the end (the waiter
\* sleeps on a futex): strong fairness.  Everything else only has to be run.
Fairness ==
    /\ WF_vars(ScanStep) /\ SF_vars(RecordLock)
    /\ WF_vars(Alarm)
    /\ WF_vars(HandlerStep)
    /\ SF_vars(LostLock) /\ SF_vars(LostUpload) /\ SF_vars(NewLock)
    /\ WF_vars(MainUnlockItachs) /\ WF_vars(MainUnlockIRdevs)

Spec == Init /\ [][Next]_vars
FairSpec == Spec /\ Fairness
LiveSpec == FairSpec /\ WF_vars(Beacon)
-----------------------------------------------------------------------------
(* What should be true of it.                                              *)

\* The next window is begun by exactly one of: a running alarm, a handler at
\* work, a raised flag the thread has still to serve.
RaisedUnserved == flag /\ scanPc # "clear"
Tokens == {t \in {"alarm", "handler", "flag"} :
              \/ t = "alarm" /\ armed
              \/ t = "handler" /\ hPc # "idle"
              \/ t = "flag" /\ RaisedUnserved}

\* Never two of them: the thread that frees and refills the list and the
\* handler that walks it are in turn (itach.c:248-253 and 212-219).
OneTurn == \A s, t \in Tokens : s = t

\* Never none of them either, once the scanner is set up: lowering the flag
\* after re-arming the alarm (itach.c:250-251) loses no expiry.
CycleGoesOn == OneTurn /\ (scanPc # "boot" => Tokens # {})

\* free_itach_list() never runs under a walk of the handler (itach.c:249).
FreeNotUnderWalk == scanPc = "free" => hPc = "idle" /\ ~armed

\* When both walks are done, every module that had been heard when the alarm
\* fired is served, and every module served has been heard (itach.c:215-216),
\* although beacons go on extending the list during the walks.
WindowSettled == hPc \in {"print", "raise"} => due \subseteq known /\ known \subseteq tmp

\* Outside the two calls of connect_to_itach(), every module served owns a
\* socket of its own that is connected to the address in its node.
Connecting(u) == cur = u /\ hPc \in {"reconnect", "connect"}
SocketsOwned ==
    \A u \in known : ~Connecting(u) =>
        /\ fd[u] \in Fds
        /\ ip[u] # NoIp /\ sock[fd[u]] = ip[u]
        /\ \A v \in known \ {u} : ~Connecting(v) => fd[v] # fd[u]

\* When the handler interrupts the scanner itself, no beacon can come between its two walks:
\* it leaves every module at the address of the last beacon put on the list, but for one.  A
\* module whose address it catches between memset() and strcpy() (itach.c:109-110) it leaves,
\* and has dialled, at what stood there.
Caught(u) == scanPc = "copy" /\ u = beacon.uuid
AddressesFollowed ==
    on = "scanner" /\ hPc \in {"print", "raise"} =>
        \A u \in known : ip[u] = IF Caught(u) THEN TornIp ELSE lastIp[u]

\* From the end of record_itachs() to the next alarm, the file the host polls
\* lists exactly the modules served, at their addresses (itach.c:252).
Served == [u \in Modules |-> IF u \in known THEN ip[u] ELSE NoIp]
FileCurrent ==
    armed /\ scanPc \in {"recv", "parse", "link", "copy", "check"} /\ file.text = "full"
        => file.list = Served

\* A bound on the steps the handler has still to make, at each of its places: with rest
\* nodes ahead of its present walk, out of all, at most four for each in the first walk
\* and two in the second.
WorkAt(place, rest, all) ==
    CASE place = "idle" -> 0
      [] place = "raise" -> 1
      [] place = "print" -> 2
      [] place = "new" -> 3 + 2 * rest
      [] place = "connect" -> 2 + 2 * rest
      [] place = "lockNew" -> 4 + 2 * all
      [] place = "lost" -> 5 + 2 * all + 4 * rest
      [] place \in {"upload", "copyIp"} -> 4 + 2 * all + 4 * rest
      [] place \in {"drop", "reconnect"} -> 3 + 2 * all + 4 * rest
      [] place = "next" -> 2 + 2 * all + 4 * rest
      [] place = "lockLost" -> 6 + 6 * all
HandlerWork ==
    IF HandlerRuns THEN WorkAt(hPc, Cardinality(Modules \ walked), Cardinality(Modules)) ELSE 0

\* Beacons that extend the list under its walks do not keep the handler walking: each of
\* its steps uses up some of that bound, and no step of a thread adds to it
\* (itach.c:114-179, 212-219).
HandlerEnds ==
    [][HandlerRuns => HandlerWork' < HandlerWork \/ UNCHANGED <<life, hPc, cur, walked>>]_vars

\* The scanner implements Presence.  A window is open while the alarm runs, it
\* closes with the handler, and is closed until the list has been freed.
Phase == IF hPc # "idle" THEN "closing"
         ELSE IF armed \/ scanPc \in {"boot", "arm"} THEN "open" ELSE "closed"
Windows == INSTANCE Presence WITH heard <- tmp, phase <- Phase
ImplementsPresence == Windows!Spec

\* A module that is not heard again is forgotten in the end, as long as beacons
\* of others arrive: without any the thread stays in recvfrom() (itach.c:255).
Heard(u) == \E i \in Ips : RecvBeacon(u, i)
SilenceNoticed ==
    \A u \in Modules :
        <>[][~Heard(u)]_vars => <>[](u \notin known \/ life # "up")

\* A module that left takes its socket with it (itach.c:224: sockets of modules
\* that are disconnected are to be closed).
LostSocketClosed ==
    hPc = "idle" => \A f \in Fds : sock[f] # NoIp => \E u \in known : fd[u] = f

\* The present modules are recorded once per cycle, for ever (itach.c:221).
CycleRecords == []<>(scanPc = "write" \/ life # "up")

-----------------------------------------------------------------------------
(* The inductive invariant: what each place of the two programs implies.   *)

LostPlaces == {"lost", "upload", "drop", "next", "copyIp", "reconnect"}
CursorPlaces == {"upload", "drop", "next", "copyIp", "reconnect", "connect"}

PlaceInv ==
    /\ scanPc \in {"parse", "link", "copy"} => beacon.uuid \in Modules /\ beacon.ip \in Ips
    /\ hPc \in CursorPlaces => cur \in Modules
    /\ scanPc = "boot" => known = {} /\ tmp = {} /\ file.text = "stale"

TurnInv ==
    /\ ~(armed /\ hPc # "idle")
    /\ ~(armed /\ RaisedUnserved)
    /\ ~(hPc # "idle" /\ RaisedUnserved)
    /\ scanPc \in {"free", "arm"} => flag
    /\ scanPc = "boot" => ~armed /\ hPc = "idle" /\ ~flag

PromptInv == PromptRearm =>
    /\ scanPc \in {"clear", "lock", "snap", "truncate", "write"} => armed
    /\ scanPc # "boot" => armed \/ hPc # "idle" \/ RaisedUnserved

WalkInv ==
    /\ due \subseteq tmp
    /\ hPc \in LostPlaces => known \intersect walked \subseteq tmp
    /\ hPc \in {"upload", "drop"} => cur \in known \ due
    /\ hPc = "drop" => cur \in reported
    /\ hPc = "next" => cur \notin known
    /\ hPc \in {"copyIp", "reconnect"} => cur \in known \intersect tmp
    /\ hPc \in {"lockNew", "new", "connect", "print", "raise"} => known \subseteq tmp
    /\ hPc \in {"lockNew", "new", "connect"} => walked \subseteq known
    /\ hPc = "connect" => cur \in known
    /\ hPc \in {"print", "raise"} => due \subseteq known
    /\ hPc = "idle" => due = {}
    /\ hPc \in CursorPlaces => cur \notin walked

SocketInv ==
    /\ \A u \in tmp : tmpIp[u] # NoIp
    /\ \A u \in known : ip[u] # NoIp
    /\ SocketsOwned

FollowInv ==
    /\ hPc = "idle" => on = "nobody"
    /\ on = "scanner" =>
         /\ hPc \in LostPlaces => \A u \in known \intersect walked : ip[u] = tmpIp[u]
         /\ hPc = "reconnect" => ip[cur] = tmpIp[cur]
         /\ hPc \in {"lockNew", "new", "connect", "print", "raise"} =>
                \A u \in known : ip[u] = tmpIp[u]

LastIpInv == \A u \in Modules : tmpIp[u] = IF Caught(u) THEN TornIp ELSE lastIp[u]

FileInv == PromptRearm =>
    /\ scanPc \in {"truncate", "write"} => snap = Served
    /\ FileCurrent

IInv ==
    /\ TypeOK /\ PlaceInv /\ TurnInv /\ PromptInv
    /\ WalkInv /\ SocketInv /\ FollowInv /\ LastIpInv /\ FileInv
=============================================================================
