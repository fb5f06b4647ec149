----------------------------- MODULE ScanWindow -----------------------------
(***************************************************************************)
(* The time in itach/itach.c and main.c, which Scanner leaves out: windows *)
(* last ITACH_SCANNING_CYCLE seconds from the call of alarm(), modules     *)
(* announce themselves every so often, and main() sleeps as long as one    *)
(* window before it serves the gateway.                                    *)
(*                                                                         *)
(* The code takes no time here; what happens at one instant happens in any *)
(* order.  Tick lets a second pass, unless something is due now.  The work *)
(* of the handler and of the scanner thread between two calls of           *)
(* recvfrom() is one step each; Scanner has their statements.  A connect() *)
(* of the handler that blocks (itach_cmd.c:33) would make them long.       *)
(***************************************************************************)
EXTENDS Naturals

CONSTANTS
    Modules,
    Steady,           \* modules that are never switched off
    MinGap, MaxGap,   \* [Modules -> Nat], seconds between two beacons of a module
    Cycle,            \* ITACH_SCANNING_CYCLE
    MaxStart,         \* seconds until the new thread has called alarm()
    Horizon           \* a bound: ages are not counted beyond it

ASSUME ModulesAssumption == Steady \subseteq Modules
ASSUME TimesAssumption == Cycle \in Nat \ {0} /\ MaxStart \in 0..Cycle - 1
ASSUME GapsAssumption ==
    /\ MinGap \in [Modules -> Nat \ {0}] /\ MaxGap \in [Modules -> Nat \ {0}]
    /\ \A m \in Modules : MinGap[m] <= MaxGap[m]
ASSUME HorizonAssumption ==
    Horizon \in Nat /\ \A m \in Modules : Horizon > 2 * Cycle + MaxGap[m]

VARIABLES
    booted,           \* the thread has set the alarm and bound its socket
    armed, left,      \* the alarm is running; seconds left of it
    flag,             \* scan_ending_flag
    heard, known,     \* itach_tmp_head, g_itach_head
    since,            \* age of each module's last beacon
    silent,           \* modules that are switched off
    seen, age,        \* announcing modules the thread has heard, and for how long
    mainPc,           \* "sleep" (main.c:35) or "serve"
    sleepLeft

scanVars == <<booted, armed, left, flag, heard, known>>
modVars  == <<since, silent, seen, age>>
mainVars == <<mainPc, sleepLeft>>
vars     == <<scanVars, modVars, mainVars>>

TypeOK ==
    /\ booted \in BOOLEAN /\ armed \in BOOLEAN /\ flag \in BOOLEAN
    /\ left \in 0..Cycle /\ sleepLeft \in 0..Cycle
    /\ heard \subseteq Modules /\ known \subseteq Modules
    /\ silent \subseteq Modules \ Steady /\ seen \subseteq Modules \ silent
    /\ since \in [Modules -> 0..Horizon] /\ age \in [Modules -> 0..Horizon]
    /\ mainPc \in {"sleep", "serve"}

\* main() has created the thread and goes to sleep.
Init ==
    /\ booted = FALSE /\ armed = FALSE /\ left = 0 /\ flag = FALSE
    /\ heard = {} /\ known = {}
    /\ since \in [Modules -> 0..Horizon] /\ \A m \in Modules : since[m] <= MaxGap[m]
    /\ silent = {} /\ seen = {} /\ age = [m \in Modules |-> 0]
    /\ mainPc = "sleep" /\ sleepLeft = Cycle

-----------------------------------------------------------------------------
\* work_scanning() up to its loop.
Boot ==
    /\ ~booted
    /\ booted' = TRUE /\ armed' = TRUE /\ left' = Cycle
    /\ UNCHANGED <<flag, heard, known, modVars, mainVars>>

\* The module is inserted in itach_tmp_head.  If a window has ended, the list
\* is freed at the top of the loop, the beacon just inserted included, and the
\* next window begins.  (Mutations: the flag stays up; the alarm is set a second longer; or shorter.)
CollectFlagged(m) ==
    /\ IF flag
       THEN heard' = {} /\ armed' = TRUE /\ left' = Cycle
       ELSE heard' = heard \union {m} /\ UNCHANGED <<armed, left>>
    /\ UNCHANGED <<booted, flag, known>>

CollectLong(m) ==
    /\ IF flag
       THEN heard' = {} /\ armed' = TRUE /\ left' = Cycle + 1 /\ flag' = FALSE
       ELSE heard' = heard \union {m} /\ UNCHANGED <<armed, left, flag>>
    /\ UNCHANGED <<booted, known>>

CollectShort(m) ==
    /\ IF flag
       THEN heard' = {} /\ armed' = TRUE /\ left' = Cycle - 2 /\ flag' = FALSE
       ELSE heard' = heard \union {m} /\ UNCHANGED <<armed, left, flag>>
    /\ UNCHANGED <<booted, known>>

Collect(m) ==
    /\ IF flag
       THEN heard' = {} /\ armed' = TRUE /\ left' = Cycle /\ flag' = FALSE
       ELSE heard' = heard \union {m} /\ UNCHANGED <<armed, left, flag>>
    /\ UNCHANGED <<booted, known>>

\* A module announces itself, or again after it was switched off.  Before the
\* thread has joined the multicast group nobody hears it.
Beacon(m) ==
    /\ m \notin silent => since[m] >= MinGap[m]
    /\ since' = [since EXCEPT ![m] = 0]
    /\ silent' = silent \ {m}
    /\ IF booted
       THEN Collect(m) /\ seen' = seen \union {m}
       ELSE UNCHANGED <<scanVars, seen>>
    /\ UNCHANGED <<age, mainVars>>

SwitchOff(m) ==
    /\ m \notin Steady \union silent
    /\ silent' = silent \union {m}
    /\ seen' = seen \ {m}
    /\ age' = [age EXCEPT ![m] = 0]
    /\ UNCHANGED <<scanVars, since, mainVars>>

\* sigalarm(): the modules heard are the modules served from now on.  A signal
\* that is delivered to main() ends its sleep().
\* (A mutation: modules are adopted, and never dropped.)
ExpireKeeps(t) ==
    /\ armed /\ left = 0
    /\ armed' = FALSE /\ flag' = TRUE
    /\ known' = known \union heard
    /\ mainPc' = IF t = "main" THEN "serve" ELSE mainPc
    /\ UNCHANGED <<booted, left, heard, modVars, sleepLeft>>

Expire(t) ==
    /\ armed /\ left = 0
    /\ armed' = FALSE /\ flag' = TRUE
    /\ known' = heard
    /\ mainPc' = IF t = "main" THEN "serve" ELSE mainPc
    /\ UNCHANGED <<booted, left, heard, modVars, sleepLeft>>

\* sleep(ITACH_SCANNING_CYCLE) returns.
\* (A mutation: it is called with two seconds less.)
WakeUpEarly ==
    /\ mainPc = "sleep" /\ sleepLeft = 2
    /\ mainPc' = "serve"
    /\ UNCHANGED <<scanVars, modVars, sleepLeft>>

WakeUp ==
    /\ mainPc = "sleep" /\ sleepLeft = 0
    /\ mainPc' = "serve"
    /\ UNCHANGED <<scanVars, modVars, sleepLeft>>

-----------------------------------------------------------------------------
Older(a) == IF a < Horizon THEN a + 1 ELSE a

Due ==
    \/ armed /\ left = 0
    \/ mainPc = "sleep" /\ sleepLeft = 0
    \/ ~booted /\ Cycle - sleepLeft = MaxStart
    \/ \E m \in Modules \ silent : since[m] >= MaxGap[m]

Tick ==
    /\ ~Due
    /\ left' = IF armed THEN left - 1 ELSE left
    /\ sleepLeft' = IF mainPc = "sleep" THEN sleepLeft - 1 ELSE sleepLeft
    /\ since' = [m \in Modules |-> Older(since[m])]
    /\ age' = [m \in Modules |-> IF m \in seen THEN Older(age[m]) ELSE 0]
    /\ UNCHANGED <<booted, armed, flag, heard, known, silent, seen, mainPc>>

Next ==
    \/ Boot
    \/ \E m \in Modules : Beacon(m) \/ SwitchOff(m)
    \/ \E t \in {"main", "scanner"} : Expire(t)
    \/ WakeUp
    \/ Tick

Spec == Init /\ [][Next]_vars

-----------------------------------------------------------------------------
(* What should be true of it.                                              *)

Prompt == {m \in Modules : MaxGap[m] < Cycle}

\* A module whose beacons are less than a cycle apart is dropped only when it
\* is silent, although the beacon that begins a window is thrown away
\* (itach.c:248-251) and windows begin whenever some beacon happens to arrive.
NoFalseLoss == [][\A m \in Prompt \intersect known : m \notin known' => m \in silent]_vars

\* Such a module is served at the latest one cycle after it was first heard, even
\* if its first beacon was the one that was thrown away (itach.c:216, 255).
AdoptedInTime == \A m \in Prompt : age[m] > Cycle => m \in known

\* While some module s announces itself steadily, a module that is off is dropped
\* within two cycles and one gap of s (itach.c:150-162): the window in which it was
\* last heard, the wait for s, and a window without it.
SilentDropped ==
    \A m \in Modules, s \in Steady : since[m] > 2 * Cycle + MaxGap[s] => m \notin known

\* main() sleeps one cycle, to have the modules' addresses recorded before it serves
\* (main.c:34-35).  But the first window begins as much later as the thread takes to
\* set its alarm, so main() may serve without them that long, and no longer.
EarlyByStart == mainPc = "serve" =>
    \A m \in Prompt \intersect Steady : m \in known \/ (armed /\ left <= MaxStart)

-----------------------------------------------------------------------------
(* The inductive invariant.  Cycle - left seconds of a window have passed. *)

TurnInv ==
    /\ ~(armed /\ flag)
    /\ booted => armed \/ flag
    /\ ~booted => ~armed /\ ~flag /\ seen = {} /\ heard = {} /\ known = {}

AgeInv ==
    /\ \A m \in Modules \ silent : since[m] <= MaxGap[m]
    /\ \A m \in Modules \ seen : age[m] = 0

\* itach_tmp_head holds the modules whose last beacon came in this window.
HeardInv == armed => \A m \in Modules :
    IF m \in heard THEN since[m] <= Cycle - left ELSE since[m] >= Cycle - left

AdoptInv == \A m \in Prompt \intersect seen :
    m \notin known => armed /\ age[m] <= Cycle - left

DropInv == \A m \in known, s \in Steady :
    /\ flag => since[m] <= Cycle + since[s]
    /\ armed => since[m] <= Cycle + MaxGap[s] + (Cycle - left)

BootInv ==
    /\ ~booted => mainPc = "sleep" /\ Cycle - sleepLeft <= MaxStart
    /\ booted => \A m \in Prompt \intersect Steady : m \notin known =>
         armed /\ left <= (IF mainPc = "sleep" THEN sleepLeft ELSE 0) + MaxStart

WInv == TypeOK /\ TurnInv /\ AgeInv /\ HeardInv /\ AdoptInv /\ DropInv /\ BootInv
=============================================================================
