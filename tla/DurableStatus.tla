---------------------------- MODULE DurableStatus ----------------------------
(***************************************************************************)
(* What the status file is for (the three promises at the head of          *)
(* status_file.c): one value per device that starts at 0, changes only to  *)
(* what the gateway is told of that device, survives every end of the      *)
(* process but that of a torn write, and is what a new process loads.      *)
(***************************************************************************)
CONSTANTS Sids, Values, Unread

VARIABLES
    life,             \* "up", or how the last process ended: "exited", "down",
                      \* or "torn" when a write was under way and cut short
    status,           \* the recorded value of every device
    damaged,          \* a write was torn, by this process or an earlier one
    loaded,           \* what the present process has loaded
    told              \* what was last sent to the gateway

vars == <<life, status, damaged, loaded, told>>

Nothing == [s \in Sids |-> Unread]

Init ==
    /\ life = "up"
    /\ status = [s \in Sids |-> 0] /\ damaged = FALSE
    /\ loaded = Nothing /\ told = Nothing

Load(s) ==
    /\ life = "up" /\ loaded[s] = Unread
    /\ loaded' = [loaded EXCEPT ![s] = status[s]]
    /\ UNCHANGED <<life, status, damaged, told>>

Tell(s, v) ==
    /\ life = "up"
    /\ told' = [told EXCEPT ![s] = v]
    /\ UNCHANGED <<life, status, damaged, loaded>>

\* A damaged file may hold two values for a device, of which the older one hides the
\* other: then it is not always the new one that counts.
Record(s, v) ==
    /\ life = "up" /\ told[s] # Unread
    /\ ~damaged => v = told[s]
    /\ UNCHANGED <<life, damaged, loaded, told>>
    /\ status' = [status EXCEPT ![s] = v]

\* The process ends, by refusing the file or by force: what is recorded stays.
Refuse == life = "up" /\ life' = "exited" /\ UNCHANGED <<status, damaged, loaded, told>>

Crash ==
    /\ life = "up" /\ life' = "down"
    /\ loaded' = Nothing
    /\ UNCHANGED <<status, damaged, told>>

\* Only a torn write may leave anything else.
Damage ==
    /\ life = "up" /\ life' = "torn" /\ damaged' = TRUE
    /\ status' \in [Sids -> Values \union {Unread}]
    /\ loaded' = Nothing
    /\ UNCHANGED told

Restart ==
    /\ life # "up" /\ life' = "up"
    /\ loaded' = Nothing
    /\ UNCHANGED <<status, damaged, told>>

Next ==
    \/ \E s \in Sids : Load(s) \/ \E v \in Values : Tell(s, v) \/ Record(s, v)
    \/ Refuse \/ Crash \/ Damage \/ Restart

Spec == Init /\ [][Next]_vars
=============================================================================
