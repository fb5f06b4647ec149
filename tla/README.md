# Verification of the iTach infrared driver

The driver (`src/Itach_IR_driver`) sits between an HDL home gateway and iTach
IR transmitters ("modules"). It finds modules by their UDP beacons, keeps a TCP
connection to each, and turns the gateway's "set device *sid* to *value*" into
an IR code sent to the module of that device. These TLA+ modules model it, TLC
checks them on small instances, and TLAPS proves the main results for every
value of the constants.

## 1. Inventory

| Component | State | Operations | Hard behaviour |
|---|---|---|---|
| Scanner thread, `itach.c:227-278` | `itach_tmp_head`, `scan_ending_flag`, the alarm, the file `itachs_config` | collect beacons; free the list, re-arm, lower the flag, record | shares the list with a signal handler without a lock; `recvfrom()` has no timeout |
| Alarm handler, `itach.c:114-179, 212-219` | `g_itach_head` and its sockets | report, unlink and free lost modules; follow addresses; adopt and connect new ones | runs on any thread, takes two mutexes, calls `malloc()`, may exit the process |
| Connections, `itach_cmd.c:20-48` | `tcpfd` of each module | connect, close and reconnect | a failure exits; two threads use one socket |
| Commands, `itach_cmd.c:51-139` | – | send a code, receive an answer | no timeout, no framing of answers, retry, SIGPIPE |
| Gateway client, `comm_gateway.c` | the datagram socket, the list of items | connect, upload statuses, heartbeats, serve writes, report losses | fixed buffers, retry loop, one thread for everything |
| Status file, `status_file.c` | one JSON object on flash | look up, add, modify, initialise | ends of the process, torn writes, a read limit |
| Device table, `IRdev.c` | devices and their codes | load once, look up | constant after start |
| Helpers, `list.h`, `public_opr.c`, cJSON | – | lists, files, JSON | `list_add_tail()` is two visible stores; a walk may not remove |

How they interact: the **main thread** (`main.c`) loads devices and statuses, starts
the **scanner thread**, sleeps one window, connects to the gateway and serves it for
ever. The **handler** of SIGALRM closes each 15 s window on a thread the kernel
picks. Main and handler share the module table under `g_itachs_mutex` and the
device list under `g_IRdevs_mutex`; scanner and handler share the temporary list
and the flag under nothing but their taking turns.

What makes each part correct: the scanner and the handler must alternate, lose no
cycle and treat every module heard; a module served must own one socket, connected
to its address; a command must be transmitted a bounded number of times and
reported only if it was; answers must belong to the command just sent; the file
must hold one value per device and survive the process. `PROJECT.json` lists the
hazards line by line with the properties that cover them.

## 2. Modules

| Module | Models |
|---|---|
| `Presence` | abstract: windows in which modules are heard; losses reported before they are forgotten; adoption |
| `Scanner` | scanner thread, handler, beacons, connections; main as far as it disturbs them |
| `ScannerProofs` | inductive invariant of `Scanner`, its safety properties, refinement of `Presence` |
| `DurableStatus` | abstract: one durable value per device |
| `StatusSize` | the length of the text of the status file, counted from its members |
| `StatusFile` | `status_file.c` and its callers, ends of the process, torn writes, restarts |
| `StatusFileProofs` | inductive invariant of `StatusFile`, its safety properties, refinement of `DurableStatus`, room in the file |
| `CJson` | the parser, printer, buffer sizes and member operations of `cJSON.c` on character codes |
| `CJsonSteps`, `CJsonProofs` | induction over texts, items and nesting; what `CJson` prints reads back, a cut of it is refused, its buffers are long enough |
| `StatusText` | the text of the status file and of the other documents the driver prints, with `CJson` |
| `StatusTextProofs` | inductive invariant of `StatusText` and all its properties, exact length of the text, agreement with `StatusSize` |
| `Remote` | abstract: transmit a command at most *Tries* times, report it only if transmitted |
| `Gateway` | the main thread: start, datagrams, items, attempts, answers |
| `GatewayProofs` | inductive invariants of `Gateway`, request/answer discipline, transmissions, ends, refinement of `Remote` |
| `ScanWindow` | the scanner in discrete time: windows, beacon periods, the sleep of `main()` |
| `ScanWindowProofs` | inductive invariant of `ScanWindow` and all its properties |
| `Driver` | main's exchange and the handler over one table, with pointers and descriptors |
| `DriverProofs` | inductive invariant of `Driver` and all its properties |
| `MCScanner`, `MCStatusFile`, `MCStatusText`, `MCGateway`, `MCScanWindow`, `MCDriver` | instances for TLC |

Definitions commented as mutations (`ScanArmForgets`, `DeleteNothing`, ...) are plausible
bugs, each put in the place of the definition that follows it to confirm that a property
can fail; no specification uses them.

### Scanner
`scanPc` and `hPc` are the places of `work_scanning()` and `sigalarm()`; each action is one access
to shared state, so the two stores of `list_add_tail()` (`TmpInsert`, `TmpLink`) and the
`memset()`/`strcpy()` of an address (`TmpTearIp`, `TmpCopyIp`) are steps of their own. The handler
is an interrupt: while it runs `on` a thread, that thread makes no step (`Runs`). Lists are sets
with fields: each list has one writer that looks a uuid up before it inserts it. `free_itach_list()`
is one step, which `FreeNotUnderWalk` justifies. `sock` holds what each open descriptor is connected
to, so a leaked descriptor stays visible. `reused` says the allocator handed out the node the
handler has just freed. `snap` is the JSON object built under the lock, `file` what the host can
read. `lastIp` is history: the address in the last beacon that was put on the list. Between the
`memset()` and the `strcpy()` of an address (`itach.c:109-110`) the list has `TornIp`, which the
handler copies into the table and dials like any other, on whichever thread it runs.
`AddressesFollowed` speaks of the handler on the scanner thread: it may have caught that thread
between the two, then one module has the torn address (`Caught`), and all others have the one last
heard. The next cycle in which it is heard repairs it. The end of the process by `exit()` and by a bad pointer are the
values "exited" and "crashed" of `life`; both leave the rest as it was.

`PromptRearm` names an assumption about time: 15 s do not pass between `alarm()`
(`itach.c:250`) and the next `recvfrom()`. It only restricts `Fire`. Properties that
need it say so; `scanner_stalls` and most theorems do without it.

### StatusFile
The file is the sequence of members cJSON keeps; deletion and appending move a member to the end as
in the code. `Size` (in `StatusSize`) is the exact length of `cJSON_Print()` for 16-character sids,
as `StatusTextProofs` shows (`SizeIsLength`); it is 162 for the `IRdevs_status` in the repository.
`Readable` compares it with the 1024 characters that are read. `Crash` ends the process between any
two statements, `CrashInWrite` inside a write, `Restart` starts the next. What a torn write leaves
is either unreadable (`text = "broken"`) or, over an older text, any object of `Splices`, because
half a new text in front of the rest of an old one may well parse; `torn` remembers that it
happened. A complete write over a longer text leaves its rest behind the closing brace, which the
parser ignores; `StatusText` checks that. `told` is what was last handed to `sendto()` for the
gateway, and survives the driver; the code ignores whether it was delivered (`comm_gateway.c:216`),
and so does the model. The file may be missing at the start; nothing creates it, and the driver
exits (`StatMissing`). A text longer than the limit is taken to be refused, which is so when a zero
stands behind `data[1024]`; `StatusText` has what else may stand there.

`DurableStatus` is what all this promises: a value per device that only `Record` and `Damage`
change. `Damage` is the end of the process inside a write and nothing else: it ends a life as
"torn", and sets `damaged`, which the refinement maps to `torn`. Every other end of the process, and
every start, leaves the values alone. After a torn write a device may have two members, and then a
new value is recorded behind the older one, which goes on to be read: only with `damaged` may
`Record` miss.

### CJson and StatusText
`CJson` translates the recursive parser and printer of `cJSON.c` for what the driver prints and
reads: numbers, strings with escapes, arrays, objects; texts are sequences of character codes. What
recurs is a recursive function: over places of a text (`Unescape`, `ParseElements`), over depths of
nesting (`ParseValues`, `Printed`, `Fits`; an item nested *n* deep is in `Nested[n]`). `Nesting = 5`
is a bound on the driver's documents, which `StatusTextProofs` checks for all of them; the theorems
of `CJsonProofs` hold for any depth. Its `Malloc*` operators are the sizes cJSON allocates before it
prints, `RawLength` the size it allocates for a parsed string. `StatusText` runs the functions of
`status_file.c` on that text: `file` is every character in the file, including what an earlier,
longer text left, and `object` is what `StatusFile` would say it holds. `TextIsObject` ties the two,
which justifies `StatusFile`'s view of the file as one object, and `CutRefused` its view that half a
text over an empty file is unreadable. `Beyond` is what may stand in memory behind the read buffer,
up to the first zero. A text that fills the buffer has no zero of its own, so that the parser runs
on into that memory (`status_file.c:42-54`): it may complete a text that was cut, to the object in
the file or to another one (`Mistake`, after which the process is "astray" and not followed).
`TextIsObject` therefore says that a text within the limit is read back whatever stands there, and
that a longer one is refused if a zero does. `Documents` are the printed documents of the driver:
the status file, `itachs_config`, the upload of a status and of a loss.

### ScanWindow
`Tick` lets a second pass unless something is due: an expired alarm, a beacon, the end
of `sleep()`, the start of the thread. `since` is the age of each module's last beacon,
`silent` the modules switched off, `seen` and `age` since when the thread has heard a
module announcing itself. The handler and the scanner's work between two calls of `recvfrom()`
are a step each: they take milliseconds of a window of 15 s, unless a `connect()` of the handler blocks
(`itach_cmd.c:33`), which is left out. Their statements are `Scanner`'s.
The alarm is set once, and again only when a beacon wakes the thread with the flag up (`Collect`), so
windows begin at the mercy of the beacons. `MaxStart` bounds the time the new
thread needs to call `alarm()`; without such a bound nothing can be said about `main.c:35`.

### Driver
`Scanner` and `Gateway` each leave out what the other does to the sockets; `Driver` has both over
one table. A node is memory with a uuid, an address and a descriptor; `head` are the nodes on the
list, the others are free or in other hands. `sock` is the address each descriptor is connected to.
Who has an address is not in the model, as it is not known to the driver: the table learns of a new
address only at the end of a window (`LostMoved`, `NewInsert`, with any address), and main dials the
one in the node (`Redial`), which another module may have by then. So `SentToItsAddress` says where
a command goes, not who gets it.

Main looks a node up (`GetItach`), keeps the pointer `ptr` without the mutex, sends, receives,
closes and dials. `via` is the descriptor it gave to `send()`, and later the one it gives to
`recv()` (`CallRecv`), which may differ. A `recv()` that waits on a connection the handler closes
keeps that connection (`Held`), or, when the signal interrupted it, is started again on the number
(`LostClose`; `signal()` of the C library sets `SA_RESTART`). It returns the whole answer or a part
of it: `asked` are the descriptors with a command or answer under way, `behind` those of them where
a part was left. A `send()` to a module that has closed its end may also end the process
(`SendKilled`: SIGPIPE is neither ignored nor handled). The handler walks, dials, unlinks and frees,
and inserts nodes in memory that main may still point to; what it finds on the temporary list is an
input. Two variables record history and influence nothing: `hit` (what the handler did to main's
node since it was looked up) and `apart`, which becomes false when main uses a freed node, or one of
the two touches a node the other is dialling. From then on a number may be closed that now belongs
to another module's socket, and no property makes a claim.

### Gateway
`pc` is the place of the main thread, from `connect_to_gateway()` to `free_write_packet_list()`. A
datagram is a kind and a list of items; a "mangled" one lacks a member the code follows without a
test, or has it of another type. `Readings` is what the parser may make of `buf[500]`: a longer
write command is cut, and as it fills the buffer no zero ends it, so that it fails to parse, or
parses to something (`Cut`). `Fails` is the end of a failed attempt, with the counter of
`comm_gateway.c:333`. The module executes commands in order and answers; `commands` marks whether a
command belongs to the item now served, which lets `transmitted` count the right ones. A lost
connection may keep or discard what had arrived, and `send()` on it may succeed, fail, or end the
process by SIGPIPE; on a live connection it may send less than it was given, when a signal
interrupts it (`SendShort`). `ConnectFails` is a `socket()` or `bind()` that fails at the start,
`RecordFails` the exit of `record_status()` on a file it cannot read, for whatever reason
`StatusFile` has. `get_itach()` finds a module or not by choice, because the table belongs to
`Scanner`. The module is taken not to go on with a command whose connection is gone. An unknown sid
crashes or fails by choice too: the null pointer is only read if there is a module to compare it
with.

## 3. Runs

| Run | Instance | Distinct states | Shows |
|---|---|---|---|
| `scanner_turns` | 2 modules, 2 addresses, 3 descriptors, handler on both threads, prompt | 1,337,248, symmetric | types, no cycle lost, windows settle, sockets, addresses (the last heard, or torn under the handler), file |
| `scanner_stalls` | 2 descriptors, not prompt | 461,521, symmetric | inductive invariant, turns, no free under a walk, every step of the handler uses up a bound, refinement of `Presence` |
| `scanner_silence` | 1 address, handler on the scanner thread, beacons for ever | 13,649 | a silent module is dropped |
| `status_file` | 3 devices, values 0, 1, 1000, limit 98, file missing or empty at first, writes torn to nothing readable or to one or two members | 122,826, symmetric | types, unique members, gateway agrees, no wipe, refusal only of damage or a missing file, refinement of `DurableStatus` |
| `status_text` | 3 sids, one to be escaped, values 0, 7, 10, limit 45, behind the buffer nothing, `}` or `0}` | 614 | the text is the object, printing and parsing agree, cut texts are refused, buffers are long enough |
| `gateway_proper` | 2 devices, 2 items, one queued datagram, split answers | 161,240 | types, no command or answer ends the driver, at most three transmissions however answers are split, every step of serving a command uses up a bound, every datagram served |
| `gateway_remote` | improper and mangled datagrams too, 2 queued, gateway not orderly, whole answers | 89,692 | answers in step, refinement of `Remote` |
| `scan_window` | windows of 4 s, gaps of 2-3 s and 4-6 s, one steady module, thread starts within 1 s | 1,970,971 | no false loss, adoption in a cycle, silence noticed in two cycles and a gap, service without modules only as long as the start took |
| `driver` | 2 modules, 2 addresses, 2 nodes, 3 descriptors | 428,039, symmetric | every module served has its own connection to its address, commands go there, answers are awaited where they were asked for, and nothing of them is left but by a `recv()` of a part |

Why these bounds are enough: two modules make one lost while the other is new, moves or stays; two
addresses make a move and a swap; the third descriptor is one more than the table needs, so that a
leak and a reconnect coexist, and with two the process runs out. Three devices make deletion from
the front, middle and end differ. Limit 98 admits three devices of which two have values of four
digits, refuses a third, and is met exactly by four members that a torn write may leave. Two items
per command make an answer that would spill into the next item visible, three tries are the code's
own. One queued datagram is enough for a command to wait behind another. `MaxObjects = 2` stands for
the roughly ten objects of 40 characters that fit the buffer, and both sides of it are sent. A
second answer is split only when nothing else is outstanding at the module (`ModuleSplits`), which
keeps the lag between commands and answers finite. In `scan_window` the ratio of gap to window is
what matters: two modules announce themselves within a window and one does not, and `Horizon` is
above every age a property speaks of. The read limit of `status_text` is exactly the text of all
four members with one-digit values. In `driver`, two nodes let a freed node stay free while its
module is adopted again in the other, or be handed out; three descriptors are one more than two
modules need, and two addresses let the modules swap them. Behind the buffer of `status_text`,
nothing, the brace that ends a cut text, and a digit in front of it are the three cases: refused,
completed, and completed to another value. `CHECK_DEADLOCK FALSE` is set where the process may end
or hang, which is not an error of the model; `status_file`, where a restart is always possible,
checks deadlock.

Runs that find a violation:

| Run | What happens |
|---|---|
| `scanner_self_deadlock` | main holds `g_itachs_mutex` in `get_itach()`, the signal arrives there, the handler waits for its own thread (`itach.c:147`) |
| `scanner_quiet_network` | the last module falls silent, the thread never returns from `recvfrom()` (`itach.c:255`), the alarm stays off and the loss unreported |
| `scanner_socket_leak` | a lost module is freed with its socket open, contrary to the comment at `itach.c:224` |

Other weaknesses that the modules contain and no run is devoted to: the beacon that ends
`recvfrom()` after a window is inserted and freed without a comparison (`itach.c:248-263`; only
modules with two beacons per window are safe from it, `NoFalseLoss`); modules that announce
themselves less than once a window are reported lost and adopted again and again; main serves before
any module is known when the thread starts late (`EarlyByStart`); with 42 devices the driver refuses
the file it wrote, or, if the memory behind the buffer happens to end its text, reads another object
(`RefusesOnlyDamage`, `TextIsObject`, `Mistake`); a write for an unknown sid uses a null device
before it tests it (`itach_cmd.c:98-100`, `UnknownDevice`); the handler dials main's node between
`send()` and `recv()`, and main waits for ever on a connection where nothing was asked (`hit` in
`AwaitedWhereAsked`); main dials an address that another module has by now, and its retry goes there
(`Redial`); main uses a freed node, or both dial one node (`apart`); a module's address is torn when
the handler reads it, and the handler dials that (`TornIp`); a command to a module that closed its
end kills the process by SIGPIPE (`SendKilled`); a datagram with a missing member crashes it
(`Mangled`); no status file, no start (`StatMissing`); the walk that continues from a freed node
(`LostNextGarbage`); a null link seen by a handler on another thread (`WalkOffEnd`); an upload that
is not recorded when the process ends between the two (`UploadStatus`, then `Crash`); a torn status
file, which makes every later start exit (`Unreadable`), or holds other values or two members for
one device (`torn`); a module that neither answers nor closes, which blocks the driver in `recv()`
(without `WF_vars(Module)`, `HostServed` fails); answers in parts, after which a refused code can be
reported as done (with `Fragments`, `ImplementsRemote` fails); a first datagram other than the
acknowledgement (`NotAcknowledged`).

### Fairness
* `WF` on the steps of the scanner, the handler and main: the threads are scheduled.
* `WF(Alarm)`: an armed `alarm()` expires and is delivered.
* `SF` on taking a mutex: waiters sleep on a futex; one that is released again and
  again is obtained in the end. Main releases what it holds (`WF` on its unlocks).
  There is no fairness on main *taking* a mutex.
* `WF(Beacon)` in `LiveSpec` is an assumption about the network, not the code. The pair
  `scanner_silence` / `scanner_quiet_network` shows exactly what depends on it.
* `scanner_silence` keeps the handler off the main thread, because of the self-deadlock
  `scanner_self_deadlock` shows under the same fairness.
* `WF(Module)` in the gateway's `FairSpec` is an assumption about the iTach: it answers
  what it was sent.

## 4. Proofs

`ScannerProofs` proves, for any modules, addresses, descriptors and handler threads, that `IInv` is
an invariant of `Spec`. None of the properties is inductive alone. The parts: `PlaceInv` (cursor and
beacon are set where they are used), `TurnInv` (alarm, handler and raised flag exclude each other),
`PromptInv` (one of them is there), `WalkInv` (what each place of the walks says about `known`,
`tmp`, `due` and `walked`; it holds although beacons extend the list, because only the thread
shrinks it and `TurnInv` keeps it from doing so), `SocketInv`, `FollowInv` and `LastIpInv` (where an
address comes from), `FileInv`. One lemma per part has one step per action. From it: `TakesTurns`,
`ListOutlivesWalk`, `Settles`, `SocketOwnership`, `FollowsAddresses`, and under `PromptRearm`
`NoLostExpiry` and `FileTracksTable`. `HandlerWork` counts what the handler has still to do, at most
6·|Modules| + 6 steps; `HandlerComesToEnd` shows that each of its steps lessens it and that beacons,
which extend the list under its walks, do not add to it. It is the one result that needs finitely
many modules. `Implementation` shows that every step is a step of `Presence` or none.

`GatewayProofs` has two invariants. `GInv` assumes whole answers (`~Fragments`) and nothing about
the gateway or the module: `CountInv` bounds the transmissions by the attempts at each place;
`StepInv` says that at most one command or answer is outstanding, and only while main waits for it.
From them `StaysInStep` and `Implementation` (of `Remote`: at most three transmissions, a report
only after one). `EndInv` assumes a gateway that acknowledges first, fits the buffer and names known
devices and codes (`WellBehaved`), and nothing about answers; it gives `EndsNotByItself`: what ends
the driver is then its socket, the status file or a connection. `Typing` needs neither, and two
results need no assumption at all. `TriesInv` counts the transmissions made and the commands of this
item the module has still to execute: together they are at most the attempts made, whatever comes of
the answers, so that `TriesBounded` bounds them by three also where an answer in parts makes main
leave an item early and `GInv` says nothing. `Effort` is a measure, at most 14·n + 1 when main has n
items to serve; every step of main takes some of it and no other step changes it (`ServiceEnds`).
What keeps `HostServed` from following is fairness alone: that main is scheduled and `recv()`
returns.

`StatusFileProofs` needs no assumption beyond `StatusFile`'s own, except in `EnoughRoom`. Its lemmas
say what `SelectInSeq`, `RemoveAt` and `Append` do to members (`GetItemFacts`, `AddFacts`,
`DeleteFacts`, `StaysUnique`, `WriteFacts`). In `SInv`, `PlaceInv` says what each place of main
knows of the file (what is written is what was read with one member changed, although the process
read it earlier), and `LoadInv`, `GreetInv`, `ServeInv` follow each device from file to memory to
gateway. `GatewayAgrees` needs uniqueness even after a torn write, because a deletion removes only
the first of two members. `EnoughRoom` is about how far the 1024 characters go that
`read_status_file()` reads: for finitely many devices, where the longest line, taken once for each and for `test_sid`,
fits the limit, a file that was never torn stays readable, so the driver does not exit but for a
missing file. It counts the members by the sids they have, each once (`RoomForAll`), and
`TotalAtMost` bounds the sum of their lines. `Implementation` says that nothing but recording and a
torn write changes a value: `Crash`, `Restart` and the exits map to steps that leave it.

`ScanWindowProofs` holds for any cycle, any gaps and any start within a cycle. `HeardInv` is the
core: the last beacon of a module on the temporary list came in this window, that of any other
before it. `AdoptInv` and `DropInv` relate ages to what has passed of the window, `BootInv` the
first window to main's sleep.

`DriverProofs` holds for any modules, addresses, nodes and descriptors. `KeptInv` says what main may
rely on of its node while it was not lost, `MovedInv` that a node with a new address still has its
own connection, `RedialInv` that one being dialled has a closed descriptor, `AskInv` where commands
and answers can be: a descriptor with something under way is the one main is using, or one where a
`recv()` left a part. `TableSound` and `AwaitedWhereAsked` are conjuncts of `DInv` themselves.

`CJsonProofs` is about every text and every item, so it needs induction over data, and the library's
induction theorems cannot be used: they take a predicate as a parameter. `CJsonSteps` states
induction for sets instead: a set of numbers that contains a number whenever it contains all smaller
ones contains them all (`Induction`, from the least element of the rest, which exists because `<` on
the naturals is well founded; `FromTheEnd` counts down from the end of a text). A recursive function
of TLA+ is a `CHOOSE`: for each of them a lemma shows that a function with that equation exists and
gives the equation at one place (`ElementsSteps`, `UnescapeSteps`, `PrintedSteps`, ...); those over
places of a text go on to a later place or do not recur. Then, by induction over nesting, and inside
it over elements and characters: a printed item is a bracketed, quoted or numeric text (`Shaped`);
wherever it stands in a longer text, the parser returns it and the place behind it if all of it
stands there, and fails if the text ends within it (`Outcome`). A number has no end of its own: it
is only read whole in front of something else than a digit. From this `PrintedReadsBack`,
`PrintedReadsFirst` (what follows a printed object does not matter) and `PrintedCutRefused`;
`PrintedFits` adds up buffers along the same recursion.

`StatusTextProofs` holds for any names, values and read limit that the `ASSUME`s admit: names are C
strings that differ in more than case, values are ints. `IInv` says that `object` is an object of
numbers and that the file begins with its text; the rest of the file may be anything. `Record` keeps
it because it is only taken where what was read is that object; that a text within the limit is,
whatever follows, is `PrintedReadsFirst` (lemma `TextRead`). The documents are objects of at most
`Nesting` levels.

Three results are about how long the text is. `FlatLength` gives it exactly: the braces, and per
member a line with its name as it is printed, quoted and escaped, and its number. `Listed` adds to
`IInv` that no sid has two members. From both `NeverRefused`: if the longest line of a device, taken
once for every device and for `test_sid`, fits the limit, the driver never refuses what it wrote,
and never takes it for another. For 16-character sids and one-digit values a line has 24 characters,
that of `test_sid` 16: 41 devices (2 + 41·24 + 16 = 1002) can always be read, 42 can not.
`SizeIsLength` and `ReadBySize` join the two views of the file: for names that need no escape and
have the lengths `StatusSize` has in it (`PlainNames`), its `Size` of the members is the length of
the text, and the file of `StatusText` is read back where `Size` is within the limit, and refused
where it is not and a zero stands behind the buffer. That is what `Readable` takes for granted.

The proofs assume the named `ASSUME`s of the modules, which TLC evaluates in every run that extends them.

Only model-checked: what needs fairness (`SilenceNoticed`, `HostServed`), because liveness is beyond
the prover. No theorem is about a run's violation.

## 5. Not modelled

* Text other than JSON: beacon parsing, IR codes, log output. A beacon is a uuid and an address. Of
  JSON: literals, fractions, exponents and surrogate pairs, which no document of the driver has. A
  text that is not ended by a zero is modelled for the status file's buffer (`Beyond`) and a cut
  command (`Cut`), up to the first zero that follows; a backslash in front of that zero, which makes
  the parser skip it (`cJSON.c:197`), is not.
* The device file: `IRdev.c` parses it once, without checks; its contents are constants.
* Names that differ only in the case of letters (`NamesAssumption`): cJSON does not tell them apart,
  `get_IRdev()` does.
* A sid in a datagram that is longer than its field (`comm_gateway.c:267`), and `malloc()` that fails.
* Time spent in the handler's `connect()`, and who answers at an address.
* The heap, and what `malloc()` in a signal handler does to it; items and objects that are not freed.
* `itach_http.c` (not built), `host_heartbeating()` (never started), `scanning_itachs.c` (empty),
  `mytest.c`, `test.c`, the second copy of cJSON.
* The links of `list.h` as pointers: `Scanner` has the two stores of an insertion and the cursor of a walk,
  `Driver` the nodes.
* All of the driver in one specification: `Driver` joins the table and the exchange, not the flag, the
  temporary list or the status file.

## 6. Order of work, and what is left

Done, most important behaviour first: `Presence`, `Scanner`, `ScannerProofs`; `DurableStatus`,
`StatusFile`; `Remote`, `Gateway`, `GatewayProofs`; `ScanWindow` and its proofs; `CJson`,
`StatusText`; `StatusFileProofs`; `Driver` and `DriverProofs`; `CJsonProofs`, `StatusTextProofs`.

Left:

1. A refinement of `Scanner` by `ScanWindow`, with ages as history variables, so that its properties
   carry over to the statements.
2. `list.h` as a heap of links, insertion and removal against the sequence they represent.
3. The device file and its unchecked look-ups (`IRdev.c:37-105`), with `CJson`.
4. `Driver` beyond `apart`: which modules can receive a foreign command, and for how long.
