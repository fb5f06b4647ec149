------------------------------- MODULE Remote -------------------------------
(***************************************************************************)
(* What the driver promises of a command "set device sid to value": its IR *)
(* code is transmitted at most Tries times, and the gateway is told the    *)
(* value only when it was transmitted at least once.  A command may be     *)
(* given up, whatever was transmitted.                                     *)
(***************************************************************************)
EXTENDS Naturals

CONSTANTS Commands, NoCommand, Tries

VARIABLES
    job,              \* the command being served
    transmitted,      \* transmissions of its code so far
    told              \* the last command the gateway was told is done

vars == <<job, transmitted, told>>

Init == job = NoCommand /\ transmitted = 0 /\ told = NoCommand

Take(c) == job = NoCommand /\ job' = c /\ transmitted' = 0 /\ UNCHANGED told

Transmit ==
    /\ job # NoCommand /\ transmitted < Tries
    /\ transmitted' = transmitted + 1
    /\ UNCHANGED <<job, told>>

Report ==
    /\ job # NoCommand /\ transmitted > 0
    /\ told' = job /\ job' = NoCommand /\ transmitted' = 0

GiveUp == job # NoCommand /\ job' = NoCommand /\ transmitted' = 0 /\ UNCHANGED told

Next == (\E c \in Commands : Take(c)) \/ Transmit \/ Report \/ GiveUp

Spec == Init /\ [][Next]_vars
=============================================================================
