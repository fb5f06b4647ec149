----------------------------- MODULE MCGateway -----------------------------
(***************************************************************************)
(* Model-checking instances of Gateway: device d1 has two codes, d2 one.   *)
(***************************************************************************)
EXTENDS Gateway, TLC

CONSTANTS d1, d2, stranger

MCCodeCount == (d1 :> 2) @@ (d2 :> 1)

Write(items) == [kind |-> "write", items |-> items]
Plain(k) == [kind |-> k, items |-> <<>>]
It(s, v) == [sid |-> s, value |-> v]

\* What a gateway that knows the devices sends.
Proper ==
    {Plain(k) : k \in {"ack", "heartbeat", "other"}}
    \union {Write(<<It(d1, 2), It(d2, 1)>>), Write(<<It(d1, 1)>>),
            Write(<<It(d1, 1), It(d2, 0)>>)}

\* And one that does not, or that sends more than the buffer holds.
Improper ==
    {Plain(k) : k \in Kinds \ {"write"}}
    \union {Write(<<It(stranger, 1)>>), Write(<<It(d2, 2)>>), Write(<<It(d1, 2)>>),
            Write(<<It(d1, 1), It(d1, 2), It(d2, 1)>>)}
=============================================================================
