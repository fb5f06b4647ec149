------------------------------ MODULE Presence ------------------------------
(***************************************************************************)
(* What the scanning half of the driver promises about the iTach modules   *)
(* on the network, with every lock, signal, list node and socket left out. *)
(*                                                                         *)
(* Time is cut into windows.  While a window is open, modules are heard.   *)
(* When it closes, the modules heard so far are due to be known; the       *)
(* driver then reports and forgets modules that were not due, adopts       *)
(* modules it heard, and settles: what it knows lies between what was due  *)
(* and what it has heard by then.  The window then starts again, empty.    *)
(* Scanner implements this specification.                                  *)
(***************************************************************************)
CONSTANT Modules      \* the iTach modules, named by their UUID

VARIABLES
    heard,            \* modules heard since the window opened
    known,            \* modules the driver serves
    due,              \* modules heard when the window closed
    reported,         \* modules reported lost since they were last adopted
    phase             \* where the window is in its cycle

vars == <<heard, known, due, reported, phase>>

Init ==
    /\ heard = {}
    /\ known = {}
    /\ due = {}
    /\ reported = {}
    /\ phase = "open"

\* Beacons arrive at any time, also while the driver settles.
Hear(u) ==
    /\ heard' = heard \union {u}
    /\ UNCHANGED <<known, due, reported, phase>>

Close ==
    /\ phase = "open"
    /\ phase' = "closing"
    /\ due' = heard
    /\ UNCHANGED <<heard, known, reported>>

Report(u) ==
    /\ phase = "closing"
    /\ u \in known \ due
    /\ reported' = reported \union {u}
    /\ UNCHANGED <<heard, known, due, phase>>

Drop(u) ==
    /\ phase = "closing"
    /\ u \in (known \ due) \intersect reported
    /\ known' = known \ {u}
    /\ UNCHANGED <<heard, due, reported, phase>>

Adopt(u) ==
    /\ phase = "closing"
    /\ u \in heard \ known
    /\ known' = known \union {u}
    /\ reported' = reported \ {u}
    /\ UNCHANGED <<heard, due, phase>>

Settle ==
    /\ phase = "closing"
    /\ due \subseteq known
    /\ known \subseteq heard
    /\ phase' = "closed"
    /\ due' = {}
    /\ UNCHANGED <<heard, known, reported>>

Reopen ==
    /\ phase = "closed"
    /\ phase' = "open"
    /\ heard' = {}
    /\ UNCHANGED <<known, due, reported>>

Next ==
    \/ \E u \in Modules : Hear(u) \/ Report(u) \/ Drop(u) \/ Adopt(u)
    \/ Close
    \/ Settle
    \/ Reopen

Spec == Init /\ [][Next]_vars
=============================================================================
