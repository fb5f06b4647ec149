--------------------------- MODULE GatewayProofs ---------------------------
(***************************************************************************)
(* Proofs about Gateway, for any devices, codes and datagrams and any      *)
(* module.  GInv needs answers that arrive whole, and any gateway will do; *)
(* EndInv needs a gateway that behaves well, and any answers will do.      *)
(* TriesInv needs nothing, and Effort is the measure that CommandsEnd uses *)
(* up.                                                                     *)
(* Each part of an invariant is preserved by a lemma of its own.           *)
(***************************************************************************)
EXTENDS Gateway, SequenceTheorems, FiniteSetTheorems, TLAPS

\* What leaves the front of a queue, and what remains, is of the queue's type.
LEMMA FrontOfQueue ==
  ASSUME NEW S, NEW q \in Seq(S), q # <<>>
  PROVE  Head(q) \in S /\ Tail(q) \in Seq(S)
BY HeadTailProperties

\* A one-element sequence of whole answers contains "completeir" only if that is it.
LEMMA OneAnswer ==
  /\ ~HasAnswer(<<>>)
  /\ ~HasAnswer(<<"refusal">>)
<1>1. Range(<<>>) = {} /\ Range(<<"refusal">>) = {"refusal"}
  BY DEF Range
<1>2. \A i \in 1..Len(<<>>) - 1 : FALSE
  OBVIOUS
<1>3. \A i \in 1..Len(<<"refusal">>) - 1 : FALSE
  OBVIOUS
<1> QED
  BY <1>1, <1>2, <1>3 DEF HasAnswer

\* One task done, one answer made.
LEMMA Shift ==
  ASSUME NEW t, NEW a
  PROVE  Tail(<<t>>) = <<>> /\ Append(<<>>, a) = <<a>> /\ Head(<<t>>) = t
OBVIOUS

\* Whatever a datagram is read as, its items are items.
LEMMA ReadingType ==
  ASSUME TypeOK, inbox # <<>>, NEW d \in Got
  PROVE  d.items \in Seq(Items)
<1> DEFINE h == Head(inbox)
<1>1. h \in Datagrams
  BY FrontOfQueue DEF TypeOK
<1>2. h.items \in Seq(Items)
  BY <1>1, DatagramsAssumption
<1>3. d \in Readings(h)
  BY DEF Got
<1> HIDE DEF h
<1>4. CASE Len(h.items) > MaxObjects
  <2>1. <<>> \in Seq(Items)
    OBVIOUS
  <2>2. SubSeq(h.items, 1, MaxObjects) \in Seq(Items)
    <3>1. Len(h.items) \in Nat /\ MaxObjects \in Nat /\ 1 \in Int
      BY <1>2, BoundsAssumption
    <3>2. \A i \in 1..MaxObjects : h.items[i] \in Items
      BY <1>2, <1>4, <3>1
    <3> QED
      BY <3>1, <3>2, SubSeqProperties
  <2>3. d \in Cut(h, MaxObjects)
    BY <1>3, <1>4 DEF Readings
  <2>4. CASE d \in {[kind |-> k, items |-> <<>>] : k \in {"broken", "mangled"}}
    <3>1. d.items = <<>>
      BY <2>4
    <3> QED
      BY <2>1, <3>1, Zenon
  <2>5. CASE d = [kind |-> "write", items |-> SubSeq(h.items, 1, MaxObjects)]
    BY <2>2, <2>5
  <2> QED
    BY <2>3, <2>4, <2>5 DEF Cut
<1>5. CASE ~(Len(h.items) > MaxObjects)
  BY <1>2, <1>3, <1>5 DEF Readings
<1> QED
  BY <1>4, <1>5

\* Every step keeps every variable in its type.
LEMMA TypeStep ==
  ASSUME TypeOK, [Next]_vars
  PROVE  TypeOK'
<1> USE DEF vars, host, serve, module, At, Goto, Ends, Receive, Fails, Leave, Arrived,
   Executes, Counted, MaxTries
<1> USE FrontOfQueue DEF TypeOK, Pcs, Tasks, Answers
<1>1. CASE Connect
  BY <1>1 DEF Connect
<1>2. CASE Acknowledged
  BY <1>2 DEF Acknowledged
<1>3. CASE NotAcknowledged
  BY <1>3 DEF NotAcknowledged
<1>4. CASE UploadInit
  BY <1>4 DEF UploadInit
<1>5. CASE Unparsable
  BY <1>5 DEF Unparsable
<1>6. CASE HeartbeatAck
  BY <1>6 DEF HeartbeatAck
<1>7. CASE HeartbeatAckFails
  BY <1>7 DEF HeartbeatAckFails
<1>8. ASSUME NEW d \in Got, WritePacket(d) PROVE TypeOK'
  <2>1. Head(inbox) \in Datagrams /\ Tail(inbox) \in Seq(Datagrams)
    BY <1>8 DEF WritePacket
  <2>2. d.items \in Seq(Items)
    BY <1>8, ReadingType DEF WritePacket
  <2> QED
    BY <1>8, <2>1, <2>2 DEF WritePacket
<1>9. ASSUME NEW d \in Got, Ignore(d) PROVE TypeOK'
  BY <1>9 DEF Ignore
<1>10. CASE NextItem
  <2>1. commands' \in Seq(Tasks)
    BY <1>10, SMTT(30) DEF NextItem
  <2> QED
    BY <1>10, <2>1 DEF NextItem
<1>11. CASE FreePackets
  BY <1>11 DEF FreePackets
<1>12. CASE NoModuleFound
  BY <1>12 DEF NoModuleFound
<1>13. CASE UnknownDevice
  BY <1>13 DEF UnknownDevice
<1>14. CASE NoSuchCode
  BY <1>14 DEF NoSuchCode
<1>15. CASE FindIRCode
  BY <1>15 DEF FindIRCode
<1>16. CASE Send
  BY <1>16 DEF Send
<1>17. CASE SendFails
  BY <1>17 DEF SendFails
<1>18. CASE ReplyOk
  BY <1>18 DEF ReplyOk
<1>19. CASE ReplyBad
  BY <1>19 DEF ReplyBad
<1>20. CASE ReplyFails
  BY <1>20 DEF ReplyFails
<1>21. CASE Reconnect
  BY <1>21 DEF Reconnect
<1>22. CASE ReconnectFails
  BY <1>22 DEF ReconnectFails
<1>23. CASE Report
  BY <1>23 DEF Report
<1>24. CASE ModuleTransmits
  BY <1>24 DEF ModuleTransmits
<1>25. CASE ModuleSplits
  BY <1>25 DEF ModuleSplits
<1>26. CASE ModuleSendsTail
  BY <1>26 DEF ModuleSendsTail
<1>27. CASE ModuleRefuses
  BY <1>27 DEF ModuleRefuses
<1>28. CASE ConnectionLost
  <2>1. <<>> \in Seq(Tasks) /\ <<>> \in Seq(Answers)
    OBVIOUS
  <2>2. commands' \in Seq(Tasks) /\ stream' \in Seq(Answers)
    BY <1>28, <2>1 DEF ConnectionLost
  <2> QED
    BY <1>28, <2>2 DEF ConnectionLost
<1>29. CASE \E d \in Datagrams : GatewaySends(d)
  BY <1>29 DEF GatewaySends
<1>30. CASE UNCHANGED vars
  BY <1>30
<1>31. CASE ConnectFails
  BY <1>31 DEF ConnectFails
<1>32. CASE Mangled
  BY <1>32 DEF Mangled
<1>33. CASE SendKilled
  BY <1>33 DEF SendKilled
<1>34. CASE SendShort
  BY <1>34 DEF SendShort
<1>35. CASE Record
  BY <1>35 DEF Record
<1>36. CASE RecordFails
  BY <1>36 DEF RecordFails
<1> QED
  BY <1>1, <1>2, <1>3, <1>4, <1>5, <1>6, <1>7, <1>8, <1>9, <1>10, <1>11, <1>12,
     <1>13, <1>14, <1>15, <1>16, <1>17, <1>18, <1>19, <1>20, <1>21, <1>22, <1>23,
     <1>24, <1>25, <1>26, <1>27, <1>28, <1>29, <1>30, <1>31, <1>32, <1>33,
     <1>34, <1>35, <1>36
     DEF Next, Main, Start, Dispatch, Serve, Attempt, Exchange, Module

\* Every step keeps requests and answers in step.
LEMMA InStepStep ==
  ASSUME ~Fragments, TypeOK, StepInv, [Next]_vars
  PROVE  StepInv'
<1> USE DEF vars, host, serve, module, At, Goto, Ends, Receive, Fails, Leave, Arrived,
   Executes, Counted, MaxTries
<1> USE DEF TypeOK, StepInv, Pcs
<1>1. CASE Connect
  BY <1>1 DEF Connect
<1>2. CASE Acknowledged
  BY <1>2 DEF Acknowledged
<1>3. CASE NotAcknowledged
  BY <1>3 DEF NotAcknowledged
<1>4. CASE UploadInit
  BY <1>4 DEF UploadInit
<1>5. CASE Unparsable
  BY <1>5 DEF Unparsable
<1>6. CASE HeartbeatAck
  BY <1>6 DEF HeartbeatAck
<1>7. CASE HeartbeatAckFails
  BY <1>7 DEF HeartbeatAckFails
<1>8. ASSUME NEW d \in Got, WritePacket(d) PROVE StepInv'
  BY <1>8 DEF WritePacket
<1>9. ASSUME NEW d \in Got, Ignore(d) PROVE StepInv'
  BY <1>9 DEF Ignore
<1>10. CASE NextItem
  BY <1>10 DEF NextItem
<1>11. CASE FreePackets
  BY <1>11 DEF FreePackets
<1>12. CASE NoModuleFound
  BY <1>12 DEF NoModuleFound
<1>13. CASE UnknownDevice
  BY <1>13 DEF UnknownDevice
<1>14. CASE NoSuchCode
  BY <1>14 DEF NoSuchCode
<1>15. CASE FindIRCode
  BY <1>15 DEF FindIRCode
<1>16. CASE Send
  BY <1>16 DEF Send
<1>17. CASE SendFails
  BY <1>17 DEF SendFails
<1>18. CASE ReplyOk
  BY <1>18 DEF ReplyOk
<1>19. CASE ReplyBad
  BY <1>19 DEF ReplyBad
<1>20. CASE ReplyFails
  BY <1>20 DEF ReplyFails
<1>21. CASE Reconnect
  BY <1>21 DEF Reconnect
<1>22. CASE ReconnectFails
  BY <1>22 DEF ReconnectFails
<1>23. CASE Report
  BY <1>23 DEF Report
<1>24. CASE ModuleTransmits
  <2>1. commands = <<"own">> /\ stream = <<>>
    BY <1>24 DEF ModuleTransmits
  <2>2. commands' = <<>> /\ stream' = <<"whole">>
    BY <1>24, <2>1, Shift DEF ModuleTransmits
  <2> QED
    BY <1>24, <2>1, <2>2 DEF ModuleTransmits
<1>25. CASE ModuleSplits
  BY <1>25 DEF ModuleSplits
<1>26. CASE ModuleSendsTail
  BY <1>26 DEF ModuleSendsTail
<1>27. CASE ModuleRefuses
  <2>1. commands = <<"own">> /\ stream = <<>>
    BY <1>27 DEF ModuleRefuses
  <2>2. commands' = <<>> /\ stream' = <<"refusal">>
    BY <1>27, <2>1, Shift DEF ModuleRefuses
  <2> QED
    BY <1>27, <2>1, <2>2 DEF ModuleRefuses
<1>28. CASE ConnectionLost
  BY <1>28 DEF ConnectionLost
<1>29. CASE \E d \in Datagrams : GatewaySends(d)
  BY <1>29 DEF GatewaySends
<1>30. CASE UNCHANGED vars
  BY <1>30
<1>31. CASE ConnectFails
  BY <1>31 DEF ConnectFails
<1>32. CASE Mangled
  BY <1>32 DEF Mangled
<1>33. CASE SendKilled
  BY <1>33 DEF SendKilled
<1>34. CASE SendShort
  BY <1>34 DEF SendShort
<1>35. CASE Record
  BY <1>35 DEF Record
<1>36. CASE RecordFails
  BY <1>36 DEF RecordFails
<1> QED
  BY <1>1, <1>2, <1>3, <1>4, <1>5, <1>6, <1>7, <1>8, <1>9, <1>10, <1>11, <1>12,
     <1>13, <1>14, <1>15, <1>16, <1>17, <1>18, <1>19, <1>20, <1>21, <1>22, <1>23,
     <1>24, <1>25, <1>26, <1>27, <1>28, <1>29, <1>30, <1>31, <1>32, <1>33,
     <1>34, <1>35, <1>36
     DEF Next, Main, Start, Dispatch, Serve, Attempt, Exchange, Module

\* Every step keeps the number of transmissions within the attempts made.
LEMMA CountStep ==
  ASSUME ~Fragments, TypeOK, StepInv, CountInv, [Next]_vars
  PROVE  CountInv'
<1> USE DEF vars, host, serve, module, At, Goto, Ends, Receive, Fails, Leave, Arrived,
   Executes, Counted, MaxTries
<1> USE OneAnswer DEF TypeOK, StepInv, CountInv, Pcs, JobPlaces
<1>1. CASE Connect
  BY <1>1 DEF Connect
<1>2. CASE Acknowledged
  BY <1>2 DEF Acknowledged
<1>3. CASE NotAcknowledged
  BY <1>3 DEF NotAcknowledged
<1>4. CASE UploadInit
  BY <1>4 DEF UploadInit
<1>5. CASE Unparsable
  BY <1>5 DEF Unparsable
<1>6. CASE HeartbeatAck
  BY <1>6 DEF HeartbeatAck
<1>7. CASE HeartbeatAckFails
  BY <1>7 DEF HeartbeatAckFails
<1>8. ASSUME NEW d \in Got, WritePacket(d) PROVE CountInv'
  BY <1>8 DEF WritePacket
<1>9. ASSUME NEW d \in Got, Ignore(d) PROVE CountInv'
  BY <1>9 DEF Ignore
<1>10. CASE NextItem
  BY <1>10 DEF NextItem
<1>11. CASE FreePackets
  BY <1>11 DEF FreePackets
<1>12. CASE NoModuleFound
  BY <1>12 DEF NoModuleFound
<1>13. CASE UnknownDevice
  BY <1>13 DEF UnknownDevice
<1>14. CASE NoSuchCode
  BY <1>14 DEF NoSuchCode
<1>15. CASE FindIRCode
  BY <1>15 DEF FindIRCode
<1>16. CASE Send
  BY <1>16 DEF Send
<1>17. CASE SendFails
  BY <1>17 DEF SendFails
<1>18. CASE ReplyOk
  BY <1>18 DEF ReplyOk
<1>19. CASE ReplyBad
  BY <1>19 DEF ReplyBad
<1>20. CASE ReplyFails
  BY <1>20 DEF ReplyFails
<1>21. CASE Reconnect
  BY <1>21 DEF Reconnect
<1>22. CASE ReconnectFails
  BY <1>22 DEF ReconnectFails
<1>23. CASE Report
  BY <1>23 DEF Report
<1>24. CASE ModuleTransmits
  <2>1. commands = <<"own">> /\ stream = <<>>
    BY <1>24 DEF ModuleTransmits
  <2>2. commands' = <<>> /\ stream' = <<"whole">>
    BY <1>24, <2>1, Shift DEF ModuleTransmits
  <2> QED
    BY <1>24, <2>1, <2>2 DEF ModuleTransmits
<1>25. CASE ModuleSplits
  BY <1>25 DEF ModuleSplits
<1>26. CASE ModuleSendsTail
  BY <1>26 DEF ModuleSendsTail
<1>27. CASE ModuleRefuses
  <2>1. commands = <<"own">> /\ stream = <<>>
    BY <1>27 DEF ModuleRefuses
  <2>2. commands' = <<>> /\ stream' = <<"refusal">>
    BY <1>27, <2>1, Shift DEF ModuleRefuses
  <2> QED
    BY <1>27, <2>1, <2>2 DEF ModuleRefuses
<1>28. CASE ConnectionLost
  BY <1>28 DEF ConnectionLost
<1>29. CASE \E d \in Datagrams : GatewaySends(d)
  BY <1>29 DEF GatewaySends
<1>30. CASE UNCHANGED vars
  BY <1>30
<1>31. CASE ConnectFails
  BY <1>31 DEF ConnectFails
<1>32. CASE Mangled
  BY <1>32 DEF Mangled
<1>33. CASE SendKilled
  BY <1>33 DEF SendKilled
<1>34. CASE SendShort
  BY <1>34 DEF SendShort
<1>35. CASE Record
  BY <1>35 DEF Record
<1>36. CASE RecordFails
  BY <1>36 DEF RecordFails
<1> QED
  BY <1>1, <1>2, <1>3, <1>4, <1>5, <1>6, <1>7, <1>8, <1>9, <1>10, <1>11, <1>12,
     <1>13, <1>14, <1>15, <1>16, <1>17, <1>18, <1>19, <1>20, <1>21, <1>22, <1>23,
     <1>24, <1>25, <1>26, <1>27, <1>28, <1>29, <1>30, <1>31, <1>32, <1>33,
     <1>34, <1>35, <1>36
     DEF Next, Main, Start, Dispatch, Serve, Attempt, Exchange, Module

\* The invariant, for answers that arrive whole.
THEOREM Invariance ==
  ASSUME ~Fragments
  PROVE  Spec => []GInv
<1>1. Init => GInv
  BY OneAnswer DEF Init, GInv, TypeOK, StepInv, CountInv, Pcs, JobPlaces, MaxTries
<1>2. GInv /\ [Next]_vars => GInv'
  BY TypeStep, InStepStep, CountStep DEF GInv
<1> QED
  BY <1>1, <1>2, PTL DEF Spec

\* Requests and answers stay in step: whatever fails, no answer is left over for a
\* later command.
THEOREM StaysInStep ==
  ASSUME ~Fragments
  PROVE  Spec => []InStep
<1>1. ASSUME GInv  PROVE InStep
  <2>1. Len(<<>>) = 0 /\ Len(<<"own">>) = 1 /\ Len(<<"whole">>) = 1 /\ Len(<<"refusal">>) = 1
    OBVIOUS
  <2>2. \/ commands = <<>> /\ stream = <<>>
        \/ commands = <<>> /\ (stream = <<"whole">> \/ stream = <<"refusal">>)
        \/ commands = <<"own">> /\ stream = <<>>
    BY <1>1 DEF GInv, StepInv
  <2>3. \/ Len(commands) = 0 /\ Len(stream) = 0
        \/ Len(commands) = 0 /\ Len(stream) = 1
        \/ Len(commands) = 1 /\ Len(stream) = 0
    <3>1. CASE commands = <<>> /\ stream = <<>>
      BY <2>1, <3>1, Zenon
    <3>2. CASE commands = <<>> /\ (stream = <<"whole">> \/ stream = <<"refusal">>)
      BY <2>1, <3>2, Zenon
    <3>3. CASE commands = <<"own">> /\ stream = <<>>
      BY <2>1, <3>3, Zenon
    <3> QED
      BY <2>2, <3>1, <3>2, <3>3
  <2>4. Len(commands) + Len(stream) <= 1
    <3>1. ASSUME NEW m, NEW n, (m = 0 /\ n = 0) \/ (m = 0 /\ n = 1) \/ (m = 1 /\ n = 0)
          PROVE  m + n <= 1
      BY <3>1
    <3> QED
      BY <2>3, <3>1, Zenon
  <2> QED
    BY <1>1, <2>4 DEF GInv, StepInv, InStep
<1> QED
  BY <1>1, Invariance, PTL

\* Every step is a step of Remote, or changes nothing there.
LEMMA StepSimulation ==
  ASSUME ~Fragments, GInv, [Next]_vars
  PROVE  [Abstract!Next]_(Abstract!vars)
<1> USE DEF vars, host, serve, module, At, Goto, Ends, Receive, Fails, Leave, Arrived,
   Executes, Counted, MaxTries
<1> USE OneAnswer, ItemsAssumption, FrontOfQueue DEF GInv, TypeOK, StepInv, CountInv, Pcs, JobPlaces, Job,
   Abstract!vars, Abstract!Next
<1>1. CASE Connect
  BY <1>1 DEF Connect
<1>2. CASE Acknowledged
  BY <1>2 DEF Acknowledged
<1>3. CASE NotAcknowledged
  BY <1>3 DEF NotAcknowledged
<1>4. CASE UploadInit
  BY <1>4 DEF UploadInit
<1>5. CASE Unparsable
  BY <1>5 DEF Unparsable
<1>6. CASE HeartbeatAck
  BY <1>6 DEF HeartbeatAck
<1>7. CASE HeartbeatAckFails
  BY <1>7 DEF HeartbeatAckFails
<1>8. ASSUME NEW d \in Got, WritePacket(d) PROVE [Abstract!Next]_(Abstract!vars)
  BY <1>8 DEF WritePacket
<1>9. ASSUME NEW d \in Got, Ignore(d) PROVE [Abstract!Next]_(Abstract!vars)
  BY <1>9 DEF Ignore
<1>10. CASE NextItem
  BY <1>10 DEF NextItem, Abstract!Take
<1>11. CASE FreePackets
  BY <1>11 DEF FreePackets
<1>12. CASE NoModuleFound
  BY <1>12 DEF NoModuleFound, Abstract!GiveUp
<1>13. CASE UnknownDevice
  BY <1>13 DEF UnknownDevice
<1>14. CASE NoSuchCode
  BY <1>14 DEF NoSuchCode
<1>15. CASE FindIRCode
  BY <1>15 DEF FindIRCode
<1>16. CASE Send
  BY <1>16 DEF Send
<1>17. CASE SendFails
  BY <1>17 DEF SendFails
<1>18. CASE ReplyOk
  BY <1>18 DEF ReplyOk
<1>19. CASE ReplyBad
  BY <1>19 DEF ReplyBad, Abstract!GiveUp
<1>20. CASE ReplyFails
  BY <1>20 DEF ReplyFails
<1>21. CASE Reconnect
  BY <1>21 DEF Reconnect, Abstract!GiveUp
<1>22. CASE ReconnectFails
  BY <1>22 DEF ReconnectFails
<1>23. CASE Report
  BY <1>23 DEF Report, Abstract!Report
<1>24. CASE ModuleTransmits
  BY <1>24 DEF ModuleTransmits, Abstract!Transmit
<1>25. CASE ModuleSplits
  BY <1>25 DEF ModuleSplits, Abstract!Transmit
<1>26. CASE ModuleSendsTail
  BY <1>26 DEF ModuleSendsTail
<1>27. CASE ModuleRefuses
  BY <1>27 DEF ModuleRefuses
<1>28. CASE ConnectionLost
  BY <1>28 DEF ConnectionLost
<1>29. CASE \E d \in Datagrams : GatewaySends(d)
  BY <1>29 DEF GatewaySends
<1>30. CASE UNCHANGED vars
  BY <1>30
<1>31. CASE ConnectFails
  BY <1>31 DEF ConnectFails
<1>32. CASE Mangled
  BY <1>32 DEF Mangled
<1>33. CASE SendKilled
  BY <1>33 DEF SendKilled
<1>34. CASE SendShort
  BY <1>34 DEF SendShort
<1>35. CASE Record
  BY <1>35 DEF Record
<1>36. CASE RecordFails
  BY <1>36 DEF RecordFails
<1> QED
  BY <1>1, <1>2, <1>3, <1>4, <1>5, <1>6, <1>7, <1>8, <1>9, <1>10, <1>11, <1>12,
     <1>13, <1>14, <1>15, <1>16, <1>17, <1>18, <1>19, <1>20, <1>21, <1>22, <1>23,
     <1>24, <1>25, <1>26, <1>27, <1>28, <1>29, <1>30, <1>31, <1>32, <1>33,
     <1>34, <1>35, <1>36
     DEF Next, Main, Start, Dispatch, Serve, Attempt, Exchange, Module

\* Each command is transmitted at most three times, and reported as done only when it
\* was transmitted.
THEOREM Implementation ==
  ASSUME ~Fragments
  PROVE  Spec => ImplementsRemote
<1>1. Init => Abstract!Init
  BY DEF Init, Abstract!Init, Job, JobPlaces
<1>2. GInv /\ [Next]_vars => [Abstract!Next]_(Abstract!vars)
  BY StepSimulation
<1> QED
  BY <1>1, <1>2, Invariance, PTL DEF Spec, ImplementsRemote, Abstract!Spec

\* Type correctness, also when answers arrive in parts.
THEOREM Typing == Spec => []TypeOK
<1>1. Init => TypeOK
  BY DEF Init, TypeOK, Pcs, MaxTries
<1> QED
  BY <1>1, TypeStep, PTL DEF Spec

\* What a well-behaved gateway sent is read as it was sent.
LEMMA WholeDatagram ==
  ASSUME WellBehaved, TypeOK, inbox # <<>>
  PROVE  GotKinds = {Head(inbox).kind} /\ GotKinds \intersect {"named", "mangled", "broken"} = {}
<1>1. Head(inbox) \in Datagrams /\ Tail(inbox) \in Seq(Datagrams)
  BY FrontOfQueue DEF TypeOK
<1>2. Head(inbox).items \in Seq(Items)
  BY <1>1, DatagramsAssumption
<1>3. Len(Head(inbox).items) \in Nat /\ Len(Head(inbox).items) <= MaxObjects
  BY <1>1, <1>2 DEF WellBehaved
<1>4. ~(Len(Head(inbox).items) > MaxObjects)
  BY <1>3, BoundsAssumption
<1>5. Got = {Head(inbox)}
  BY <1>4 DEF Got, Readings
<1>6. Head(inbox).kind \notin {"named", "mangled", "broken"}
  BY <1>1 DEF WellBehaved
<1> QED
  BY <1>5, <1>6 DEF GotKinds

\* No step but the hazardous ones ends the driver.
LEMMA EndStep ==
  ASSUME WellBehaved, TypeOK, EndInv, [Next]_vars
  PROVE  EndInv'
<1> USE DEF vars, host, serve, module, At, Goto, Ends, Receive, Fails, Leave, Arrived, Executes, Counted
<1> USE DEF EndInv, EndsNotByCommand, Hazardous, JobPlaces
<1>1. CASE Connect
  BY <1>1 DEF Connect
<1>2. CASE Acknowledged
  BY <1>2 DEF Acknowledged
<1>3. CASE NotAcknowledged
  <2>1. \E d \in Datagrams : inbox = <<d>> /\ d.kind = "ack"
    BY <1>3 DEF NotAcknowledged
  <2>2. Head(inbox).kind = "ack"
    BY <2>1
  <2> QED
    BY <1>3, <2>2, WholeDatagram DEF NotAcknowledged
<1>4. CASE UploadInit
  BY <1>4 DEF UploadInit
<1>5. CASE Unparsable
  BY <1>5, WholeDatagram DEF Unparsable
<1>6. CASE HeartbeatAck
  BY <1>6 DEF HeartbeatAck
<1>7. CASE HeartbeatAckFails
  BY <1>7 DEF HeartbeatAckFails, WellBehaved
<1>8. ASSUME NEW d \in Got, WritePacket(d) PROVE EndInv'
  BY <1>8 DEF WritePacket
<1>9. ASSUME NEW d \in Got, Ignore(d) PROVE EndInv'
  BY <1>9 DEF Ignore
<1>10. CASE NextItem
  <2>1. Head(packet) \in Items
    BY <1>10, FrontOfQueue DEF NextItem, TypeOK
  <2> QED
    BY <1>10, <2>1 DEF NextItem
<1>11. CASE FreePackets
  BY <1>11 DEF FreePackets
<1>12. CASE NoModuleFound
  BY <1>12 DEF NoModuleFound
<1>13. CASE UnknownDevice
  BY <1>13 DEF UnknownDevice, Known, WellBehaved
<1>14. CASE NoSuchCode
  <2>1. item \in Items /\ item.sid \in Sids /\ item.value \in 0..CodeCount[item.sid]
    BY <1>14 DEF NoSuchCode, WellBehaved
  <2>2. item.value > CodeCount[item.sid]
    BY <1>14 DEF NoSuchCode
  <2> QED
    BY <2>1, <2>2, CodesAssumption
<1>15. CASE FindIRCode
  BY <1>15 DEF FindIRCode
<1>16. CASE Send
  BY <1>16 DEF Send
<1>17. CASE SendFails
  BY <1>17 DEF SendFails
<1>18. CASE ReplyOk
  BY <1>18 DEF ReplyOk
<1>19. CASE ReplyBad
  BY <1>19 DEF ReplyBad
<1>20. CASE ReplyFails
  BY <1>20 DEF ReplyFails
<1>21. CASE Reconnect
  BY <1>21 DEF Reconnect
<1>22. CASE ReconnectFails
  BY <1>22 DEF ReconnectFails
<1>23. CASE Report
  BY <1>23 DEF Report
<1>24. CASE ModuleTransmits
  BY <1>24 DEF ModuleTransmits
<1>25. CASE ModuleSplits
  BY <1>25 DEF ModuleSplits
<1>26. CASE ModuleSendsTail
  BY <1>26 DEF ModuleSendsTail
<1>27. CASE ModuleRefuses
  BY <1>27 DEF ModuleRefuses
<1>28. CASE ConnectionLost
  BY <1>28 DEF ConnectionLost
<1>29. CASE \E d \in Datagrams : GatewaySends(d)
  <2> SUFFICES ASSUME NEW d \in Datagrams, GatewaySends(d) PROVE EndInv'
    BY <1>29
  <2>1. pc = "await" => d.kind = "ack" /\ inbox' = <<d>>
    BY DEF GatewaySends, WellBehaved
  <2> QED
    BY <2>1 DEF GatewaySends
<1>30. CASE UNCHANGED vars
  BY <1>30
<1>31. CASE ConnectFails
  BY <1>31 DEF ConnectFails
<1>32. CASE Mangled
  BY <1>32, WholeDatagram DEF Mangled
<1>33. CASE SendKilled
  BY <1>33 DEF SendKilled
<1>34. CASE SendShort
  BY <1>34 DEF SendShort
<1>35. CASE Record
  BY <1>35 DEF Record
<1>36. CASE RecordFails
  BY <1>36 DEF RecordFails
<1> QED
  BY <1>1, <1>2, <1>3, <1>4, <1>5, <1>6, <1>7, <1>8, <1>9, <1>10, <1>11, <1>12,
     <1>13, <1>14, <1>15, <1>16, <1>17, <1>18, <1>19, <1>20, <1>21, <1>22, <1>23,
     <1>24, <1>25, <1>26, <1>27, <1>28, <1>29, <1>30, <1>31, <1>32, <1>33,
     <1>34, <1>35, <1>36
     DEF Next, Main, Start, Dispatch, Serve, Attempt, Exchange, Module

\* Whatever the module does, and in however many parts it answers, a well-behaved
\* gateway's driver is ended by no command: only by its socket at the start, the status file, a
\* module it cannot connect to again, or one that closed the connection it sends on.
THEOREM EndsNotByItself ==
  ASSUME WellBehaved
  PROVE  Spec => []EndsNotByCommand
<1>1. Init => EndInv
  BY DEF Init, EndInv, EndsNotByCommand, Hazardous, JobPlaces
<1>2. TypeOK /\ EndInv /\ [Next]_vars => EndInv'
  BY EndStep
<1>3. EndInv => EndsNotByCommand
  BY DEF EndInv
<1> QED
  BY <1>1, <1>2, <1>3, Typing, PTL DEF Spec

\* The commands of the item served that the module has still to execute, in a queue.
OwnIn(q) == {i \in DOMAIN q : q[i] = "own"}
Owned(q) == Cardinality(OwnIn(q))

\* There are finitely many, and none in a queue without commands of this item.
LEMMA OwnedType ==
  ASSUME NEW q \in Seq(Tasks)
  PROVE  /\ IsFiniteSet(OwnIn(q)) /\ Owned(q) \in Nat
         /\ (\A i \in DOMAIN q : q[i] # "own") => Owned(q) = 0
<1>1. OwnIn(q) \in SUBSET (1..Len(q)) /\ Len(q) \in Nat
  BY DEF OwnIn
<1>2. IsFiniteSet(OwnIn(q))
  <2>1. IsFiniteSet(1..Len(q))
    BY <1>1, FS_Interval
  <2> QED
    BY <1>1, <2>1, FS_Subset
<1>3. Cardinality(OwnIn(q)) \in Nat
  BY <1>2, FS_CardinalityType
<1>4. (\A i \in DOMAIN q : q[i] # "own") => OwnIn(q) = {}
  BY DEF OwnIn
<1> QED
  BY <1>2, <1>3, <1>4, FS_EmptySet DEF Owned

\* A command sent is one more, another task none.
LEMMA OwnedAppend ==
  ASSUME NEW q \in Seq(Tasks), NEW x \in Tasks
  PROVE  Owned(Append(q, x)) <= Owned(q) + 1
<1>1. Len(q) \in Nat
  OBVIOUS
<1>2. OwnIn(Append(q, x)) \in SUBSET (OwnIn(q) \union {Len(q) + 1})
  BY DEF OwnIn
<1>3. IsFiniteSet(OwnIn(q)) /\ Owned(q) \in Nat
  BY OwnedType
<1>4. /\ IsFiniteSet(OwnIn(q) \union {Len(q) + 1})
      /\ Cardinality(OwnIn(q) \union {Len(q) + 1}) <= Owned(q) + 1
      /\ Cardinality(OwnIn(q) \union {Len(q) + 1}) \in Nat
  <2>1. IsFiniteSet(OwnIn(q) \union {Len(q) + 1})
    BY <1>3, FS_AddElement
  <2>2. Cardinality(OwnIn(q) \union {Len(q) + 1}) = Owned(q)
        \/ Cardinality(OwnIn(q) \union {Len(q) + 1}) = Owned(q) + 1
    BY <1>3, FS_AddElement DEF Owned
  <2> QED
    BY <1>3, <2>1, <2>2
<1>5. Cardinality(OwnIn(Append(q, x))) <= Cardinality(OwnIn(q) \union {Len(q) + 1})
  BY <1>2, <1>4, FS_Subset
<1>6. Append(q, x) \in Seq(Tasks)
  OBVIOUS
<1>7. Cardinality(OwnIn(Append(q, x))) \in Nat
  BY <1>6, OwnedType DEF Owned
<1> QED
  BY <1>3, <1>4, <1>5, <1>7 DEF Owned

\* A command executed is one less, another task none.
LEMMA OwnedTail ==
  ASSUME NEW q \in Seq(Tasks), q # <<>>
  PROVE  Owned(Tail(q)) <= IF Head(q) = "own" THEN Owned(q) - 1 ELSE Owned(q)
<1> DEFINE r == Tail(q)
<1> DEFINE S == OwnIn(q) \ {1}
<1> DEFINE f == [i \in S |-> i - 1]
<1>1. r \in Seq(Tasks) /\ Len(q) \in Nat \ {0} /\ Len(r) = Len(q) - 1
      /\ \A i \in 1..Len(r) : r[i] = q[i + 1]
  OBVIOUS
<1>2. IsFiniteSet(OwnIn(q)) /\ Owned(q) \in Nat /\ Owned(r) \in Nat
  BY <1>1, OwnedType
<1>3. f \in Surjection(S, OwnIn(r))
  <2>1. \A i \in S : i \in Nat /\ i >= 2 /\ i <= Len(q) /\ q[i] = "own"
    BY <1>1 DEF OwnIn
  <2>2. \A i \in S : i - 1 \in OwnIn(r)
    BY <1>1, <2>1 DEF OwnIn
  <2>3. f \in [S -> OwnIn(r)]
    BY <2>2
  <2>4. ASSUME NEW j \in OwnIn(r)
        PROVE  \E i \in S : f[i] = j
    <3>1. j \in 1..Len(r) /\ r[j] = "own"
      BY <1>1 DEF OwnIn
    <3>2. j + 1 \in S
      BY <1>1, <3>1 DEF OwnIn
    <3>3. f[j + 1] = j
      BY <3>1, <3>2
    <3> QED
      BY <3>2, <3>3
  <2> QED
    BY <2>3, <2>4 DEF Surjection
<1>4. IsFiniteSet(S) /\ Cardinality(S) = IF 1 \in OwnIn(q) THEN Owned(q) - 1 ELSE Owned(q)
  BY <1>2, FS_RemoveElement DEF Owned
<1>5. Owned(r) <= Cardinality(S)
  BY <1>3, <1>4, FS_Surjection DEF Owned
<1>6. 1 \in OwnIn(q) <=> Head(q) = "own"
  BY <1>1 DEF OwnIn
<1> QED
  BY <1>2, <1>4, <1>5, <1>6

\* Every step keeps transmissions, made and to come, within the attempts.
LEMMA TriesStep ==
  ASSUME TypeOK, TriesInv, [Next]_vars
  PROVE  TriesInv'
<1> DEFINE o == Owned(commands)
<1> DEFINE p == Owned(commands')
<1>a. o \in Nat /\ p \in Nat
  <2>1. commands \in Seq(Tasks) /\ commands' \in Seq(Tasks)
    BY TypeStep DEF TypeOK
  <2> QED
    BY <2>1, OwnedType
<1>b. transmitted + o <= Attempts
  BY DEF TriesInv, Outstanding, Owned, OwnIn
<1>c. SUFFICES transmitted' + p <= Attempts'
  BY DEF TriesInv, Outstanding, Owned, OwnIn
<1>d. commands' = commands => p = o
  OBVIOUS
<1>e. commands' = <<>> => p = 0
  <2>1. <<>> \in Seq(Tasks) /\ DOMAIN <<>> = {}
    OBVIOUS
  <2> QED
    BY <2>1, OwnedType
<1>f. transmitted \in Nat /\ transmitted' \in Nat /\ cnt \in 1..3 /\ cnt' \in 1..3
  BY TypeStep DEF TypeOK, MaxTries
<1> HIDE DEF o, p
<1> USE <1>a, <1>b, <1>d, <1>f DEF vars, host, serve, module, At, Goto, Ends, Receive, Fails,
   Leave, Arrived, Executes, Counted, MaxTries, Attempts, JobPlaces
<1>1. CASE Connect
  BY <1>1 DEF Connect
<1>2. CASE Acknowledged
  BY <1>2 DEF Acknowledged
<1>3. CASE NotAcknowledged
  BY <1>3 DEF NotAcknowledged
<1>4. CASE UploadInit
  BY <1>4 DEF UploadInit
<1>5. CASE Unparsable
  BY <1>5 DEF Unparsable
<1>6. CASE HeartbeatAck
  BY <1>6 DEF HeartbeatAck
<1>7. CASE HeartbeatAckFails
  BY <1>7 DEF HeartbeatAckFails
<1>8. ASSUME NEW d \in Got, WritePacket(d) PROVE transmitted' + p <= Attempts'
  BY <1>8 DEF WritePacket
<1>9. ASSUME NEW d \in Got, Ignore(d) PROVE transmitted' + p <= Attempts'
  BY <1>9 DEF Ignore
<1>10. CASE NextItem
  <2>1. \A i \in DOMAIN commands' : commands'[i] # "own"
    BY <1>10 DEF NextItem
  <2>2. p = 0
    <3>1. commands' \in Seq(Tasks)
      BY TypeStep DEF TypeOK
    <3> QED
      BY <2>1, <3>1, OwnedType DEF p
  <2> QED
    BY <1>10, <2>2 DEF NextItem
<1>11. CASE FreePackets
  BY <1>11 DEF FreePackets
<1>12. CASE NoModuleFound
  BY <1>12 DEF NoModuleFound
<1>13. CASE UnknownDevice
  BY <1>13 DEF UnknownDevice
<1>14. CASE NoSuchCode
  BY <1>14 DEF NoSuchCode
<1>15. CASE FindIRCode
  BY <1>15 DEF FindIRCode
<1>16. CASE Send
  <2>1. commands \in Seq(Tasks) /\ "own" \in Tasks
    BY DEF TypeOK, Tasks
  <2>2. p <= o + 1
    <3>1. CASE conn = "up"
      <4>1. commands' = Append(commands, "own")
        BY <1>16, <3>1 DEF Send
      <4> QED
        BY <2>1, <4>1, OwnedAppend DEF o, p
    <3>2. CASE conn # "up"
      BY <1>16, <3>2 DEF Send
    <3> QED
      BY <3>1, <3>2
  <2> QED
    BY <1>16, <2>2 DEF Send
<1>17. CASE SendFails
  BY <1>17 DEF SendFails
<1>18. CASE ReplyOk
  BY <1>18 DEF ReplyOk
<1>19. CASE ReplyBad
  BY <1>19 DEF ReplyBad
<1>20. CASE ReplyFails
  BY <1>20 DEF ReplyFails
<1>21. CASE Reconnect
  BY <1>21, <1>e DEF Reconnect
<1>22. CASE ReconnectFails
  BY <1>22 DEF ReconnectFails
<1>23. CASE Report
  BY <1>23 DEF Report
<1>24. CASE ModuleTransmits
  <2>1. commands # <<>> /\ commands \in Seq(Tasks) /\ commands' = Tail(commands)
    BY <1>24 DEF ModuleTransmits, TypeOK
  <2>2. p <= IF Head(commands) = "own" THEN o - 1 ELSE o
    BY <2>1, OwnedTail DEF o, p
  <2> QED
    BY <1>24, <2>2, SMTT(30) DEF ModuleTransmits
<1>25. CASE ModuleSplits
  <2>1. commands # <<>> /\ commands \in Seq(Tasks) /\ commands' = <<"tail">>
    BY <1>25 DEF ModuleSplits, TypeOK
  <2>2. p = 0
    <3>1. <<"tail">> \in Seq(Tasks) /\ \A i \in DOMAIN <<"tail">> : <<"tail">>[i] # "own"
      BY DEF Tasks
    <3> QED
      BY <2>1, <3>1, OwnedType DEF p
  <2>3. Head(commands) = "own" => o >= 1
    <3>1. Owned(Tail(commands)) <= IF Head(commands) = "own" THEN Owned(commands) - 1 ELSE Owned(commands)
      BY <2>1, OwnedTail
    <3>2. Tail(commands) \in Seq(Tasks)
      BY <2>1
    <3>3. Owned(Tail(commands)) \in Nat
      BY <3>2, OwnedType
    <3> QED
      BY <3>1, <3>3 DEF o
  <2> QED
    BY <1>25, <2>2, <2>3 DEF ModuleSplits
<1>26. CASE ModuleSendsTail
  <2>1. commands # <<>> /\ commands \in Seq(Tasks) /\ commands' = Tail(commands)
    BY <1>26 DEF ModuleSendsTail, TypeOK
  <2>2. p <= IF Head(commands) = "own" THEN o - 1 ELSE o
    BY <2>1, OwnedTail DEF o, p
  <2> QED
    BY <1>26, <2>2 DEF ModuleSendsTail
<1>27. CASE ModuleRefuses
  <2>1. commands # <<>> /\ commands \in Seq(Tasks) /\ commands' = Tail(commands)
    BY <1>27 DEF ModuleRefuses, TypeOK
  <2>2. p <= IF Head(commands) = "own" THEN o - 1 ELSE o
    BY <2>1, OwnedTail DEF o, p
  <2> QED
    BY <1>27, <2>2 DEF ModuleRefuses
<1>28. CASE ConnectionLost
  BY <1>28, <1>e DEF ConnectionLost
<1>29. CASE \E d \in Datagrams : GatewaySends(d)
  BY <1>29 DEF GatewaySends
<1>30. CASE UNCHANGED vars
  BY <1>30
<1>31. CASE ConnectFails
  BY <1>31 DEF ConnectFails
<1>32. CASE Mangled
  BY <1>32 DEF Mangled
<1>33. CASE SendKilled
  BY <1>33 DEF SendKilled
<1>34. CASE SendShort
  BY <1>34 DEF SendShort
<1>35. CASE Record
  BY <1>35 DEF Record
<1>36. CASE RecordFails
  BY <1>36 DEF RecordFails
<1> QED
  BY <1>1, <1>2, <1>3, <1>4, <1>5, <1>6, <1>7, <1>8, <1>9, <1>10, <1>11, <1>12,
     <1>13, <1>14, <1>15, <1>16, <1>17, <1>18, <1>19, <1>20, <1>21, <1>22, <1>23,
     <1>24, <1>25, <1>26, <1>27, <1>28, <1>29, <1>30, <1>31, <1>32, <1>33,
     <1>34, <1>35, <1>36
     DEF Next, Main, Start, Dispatch, Serve, Attempt, Exchange, Module

\* Whatever the gateway sends, whatever the module answers, and in however many parts, an item
\* is transmitted at most three times.
THEOREM TriesBounded == Spec => []AtMostTries
<1>1. Init => TriesInv
  <2>1. ASSUME Init
        PROVE  TriesInv
    <3>1. Outstanding = {} /\ transmitted = 0 /\ Attempts = 3
      BY <2>1 DEF Init, Outstanding, Attempts, JobPlaces, MaxTries
    <3> QED
      BY <3>1, FS_EmptySet DEF TriesInv
  <2> QED
    BY <2>1
<1>2. TypeOK /\ TriesInv /\ [Next]_vars => TriesInv'
  BY TriesStep
<1>3. TypeOK /\ TriesInv => AtMostTries
  <2> SUFFICES ASSUME TypeOK, TriesInv PROVE AtMostTries
    OBVIOUS
  <2>1. Owned(commands) \in Nat /\ Owned(commands) = Cardinality(Outstanding)
    BY OwnedType DEF TypeOK, Owned, OwnIn, Outstanding
  <2>2. transmitted \in Nat /\ cnt \in 1..3
    BY DEF TypeOK, MaxTries
  <2> QED
    BY <2>1, <2>2 DEF TriesInv, AtMostTries, Attempts, MaxTries, JobPlaces
<1> QED
  BY <1>1, <1>2, <1>3, Typing, PTL DEF Spec

\* What serving takes at each place, and that it is not negative.
EffortAt(place, l, c) == IF place = "item" THEN 14 * l + 1
                         ELSE IF place = "record" THEN 14 * l + 2
                         ELSE 14 * l + 2 + 4 * (MaxTries - c) + Left[place]

\* Each way on from a place takes less: another attempt, the next item, the next place.
LEMMA LessEffort ==
  ASSUME NEW l \in Nat, NEW c \in 1..MaxTries
  PROVE  /\ \A place \in JobPlaces \union {"item", "record"} : EffortAt(place, l, c) > 0
         /\ \A place \in JobPlaces \union {"record"} : EffortAt("item", l, c) < EffortAt(place, l, c)
         /\ EffortAt("record", l, c) < EffortAt("done", l, c)
         /\ \A place \in JobPlaces \ {"done"} :
              c + 1 <= MaxTries => EffortAt("attempt", l, c + 1) < EffortAt(place, l, c)
         /\ EffortAt("done", l, c) < EffortAt("reply", l, c)
         /\ EffortAt("reconnect", l, c) < EffortAt("reply", l, c)
         /\ EffortAt("reply", l, c) < EffortAt("send", l, c)
         /\ EffortAt("reconnect", l, c) < EffortAt("send", l, c)
         /\ EffortAt("send", l, c) < EffortAt("attempt", l, c)
         /\ \A m \in Nat : m = l + 1 => EffortAt("attempt", l, 1) < EffortAt("item", m, c)
BY DEF EffortAt, Left, JobPlaces, MaxTries

\* Every step of main while it serves takes some of the effort, and no other step changes it.
LEMMA EffortStep ==
  ASSUME TypeOK, [Next]_vars, Serving
  PROVE  Effort' < Effort \/ UNCHANGED <<life, pc, cnt, packet>>
<1> DEFINE l == Len(packet)
<1> DEFINE m == Len(packet')
<1>a. l \in Nat /\ m \in Nat /\ cnt \in 1..MaxTries /\ cnt' \in 1..MaxTries
  BY TypeStep DEF TypeOK
<1>b. Effort = EffortAt(pc, l, cnt)
  BY DEF Effort, EffortAt, Serving, JobPlaces
<1>c. Effort' = IF Serving' THEN EffortAt(pc', m, cnt') ELSE 0
  BY DEF Effort, EffortAt, Serving, JobPlaces
<1>d. packet' = packet => m = l
  OBVIOUS
<1>e. life = "up" /\ pc \in JobPlaces \union {"item", "record"}
  BY DEF Serving
<1>f. Effort > 0
  BY <1>a, <1>b, <1>e, LessEffort
<1>g. life' # "up" => Effort' < Effort
  BY <1>c, <1>f DEF Serving
<1>h. \A place \in JobPlaces \union {"record"} : pc = place /\ pc' = "item" /\ packet' = packet /\ life' = "up" =>
        Effort' < Effort
  BY <1>a, <1>b, <1>c, <1>d, LessEffort DEF Serving, EffortAt
<1>i. \A place \in JobPlaces \ {"done"} :
        pc = place /\ pc' = "attempt" /\ packet' = packet /\ life' = "up" /\ cnt' = cnt + 1 =>
          Effort' < Effort
  BY <1>a, <1>b, <1>c, <1>d, LessEffort DEF Serving, JobPlaces
<1>j. \A from \in JobPlaces \ {"done"} : Fails(from) => Effort' < Effort
  BY <1>e, <1>h, <1>i DEF Fails, Goto, At, host, Leave, JobPlaces
<1>k. packet' = packet /\ cnt' = cnt /\ life' = "up" /\ pc' \in JobPlaces =>
        Effort' = EffortAt(pc', l, cnt)
  BY <1>c, <1>d DEF Serving
<1> HIDE DEF l, m
<1> USE DEF vars, host, serve, module, At, Goto, Ends, Receive, Arrived, Executes, Counted
<1>1. CASE Connect
  BY <1>1, <1>e DEF Connect, JobPlaces
<1>2. CASE Acknowledged
  BY <1>2, <1>e DEF Acknowledged, JobPlaces
<1>3. CASE NotAcknowledged
  BY <1>3, <1>e DEF NotAcknowledged, JobPlaces
<1>4. CASE UploadInit
  BY <1>4, <1>e DEF UploadInit, JobPlaces
<1>5. CASE Unparsable
  BY <1>5, <1>e DEF Unparsable, JobPlaces
<1>6. CASE HeartbeatAck
  BY <1>6, <1>e DEF HeartbeatAck, JobPlaces
<1>7. CASE HeartbeatAckFails
  BY <1>7, <1>e DEF HeartbeatAckFails, JobPlaces
<1>8. ASSUME NEW d \in Got, WritePacket(d) PROVE Effort' < Effort \/ UNCHANGED <<life, pc, cnt, packet>>
  BY <1>8, <1>e DEF WritePacket, JobPlaces
<1>9. ASSUME NEW d \in Got, Ignore(d) PROVE Effort' < Effort \/ UNCHANGED <<life, pc, cnt, packet>>
  BY <1>9, <1>e DEF Ignore, JobPlaces
<1>10. CASE NextItem
  <2>1. l = m + 1
    BY <1>10 DEF NextItem, TypeOK, l, m
  <2>2. Effort' = EffortAt("attempt", m, 1)
    BY <1>10, <1>c, <1>e DEF NextItem, Serving, JobPlaces
  <2>3. Effort = EffortAt("item", l, cnt)
    BY <1>10, <1>b DEF NextItem
  <2> QED
    BY <1>a, <2>1, <2>2, <2>3, LessEffort
<1>11. CASE FreePackets
  <2>1. ~Serving'
    BY <1>11 DEF FreePackets, Serving, JobPlaces
  <2> QED
    BY <1>c, <1>f, <2>1
<1>12. CASE NoModuleFound
  BY <1>12, <1>j DEF NoModuleFound, JobPlaces
<1>13. CASE UnknownDevice
  BY <1>13, <1>g DEF UnknownDevice
<1>14. CASE NoSuchCode
  BY <1>14, <1>g DEF NoSuchCode
<1>15. CASE FindIRCode
  BY <1>15, <1>a, <1>b, <1>e, <1>k, LessEffort DEF FindIRCode, JobPlaces
<1>16. CASE Send
  BY <1>16, <1>a, <1>b, <1>e, <1>k, LessEffort DEF Send, JobPlaces
<1>17. CASE SendFails
  BY <1>17, <1>a, <1>b, <1>e, <1>k, LessEffort DEF SendFails, JobPlaces
<1>18. CASE ReplyOk
  BY <1>18, <1>a, <1>b, <1>e, <1>k, LessEffort DEF ReplyOk, JobPlaces
<1>19. CASE ReplyBad
  BY <1>19, <1>j DEF ReplyBad, JobPlaces
<1>20. CASE ReplyFails
  BY <1>20, <1>a, <1>b, <1>e, <1>k, LessEffort DEF ReplyFails, JobPlaces
<1>21. CASE Reconnect
  BY <1>21, <1>j DEF Reconnect, JobPlaces
<1>22. CASE ReconnectFails
  BY <1>22, <1>g DEF ReconnectFails
<1>23. CASE Report
  <2>1. pc = "done" /\ Serving' /\ pc' = "record" /\ packet' = packet
    BY <1>23 DEF Report, Serving
  <2>2. Effort = EffortAt("done", l, cnt) /\ Effort' = EffortAt("record", l, cnt')
    BY <1>b, <1>c, <1>d, <2>1
  <2>3. EffortAt("record", l, cnt') = EffortAt("record", l, cnt)
    BY DEF EffortAt
  <2>4. EffortAt("record", l, cnt) < EffortAt("done", l, cnt)
    BY <1>a, LessEffort
  <2> QED
    BY <2>2, <2>3, <2>4
<1>24. CASE ModuleTransmits
  BY <1>24 DEF ModuleTransmits
<1>25. CASE ModuleSplits
  BY <1>25 DEF ModuleSplits
<1>26. CASE ModuleSendsTail
  BY <1>26 DEF ModuleSendsTail
<1>27. CASE ModuleRefuses
  BY <1>27 DEF ModuleRefuses
<1>28. CASE ConnectionLost
  BY <1>28 DEF ConnectionLost
<1>29. CASE \E d \in Datagrams : GatewaySends(d)
  BY <1>29 DEF GatewaySends
<1>30. CASE UNCHANGED vars
  BY <1>30
<1>31. CASE ConnectFails
  BY <1>31, <1>g DEF ConnectFails
<1>32. CASE Mangled
  BY <1>32, <1>e DEF Mangled, JobPlaces
<1>33. CASE SendKilled
  BY <1>33, <1>g DEF SendKilled
<1>34. CASE SendShort
  BY <1>34, <1>a, <1>b, <1>e, <1>k, LessEffort DEF SendShort, JobPlaces
<1>35. CASE Record
  BY <1>35, <1>e, <1>h DEF Record, JobPlaces
<1>36. CASE RecordFails
  BY <1>36, <1>g DEF RecordFails
<1> QED
  BY <1>1, <1>2, <1>3, <1>4, <1>5, <1>6, <1>7, <1>8, <1>9, <1>10, <1>11, <1>12,
     <1>13, <1>14, <1>15, <1>16, <1>17, <1>18, <1>19, <1>20, <1>21, <1>22, <1>23,
     <1>24, <1>25, <1>26, <1>27, <1>28, <1>29, <1>30, <1>31, <1>32, <1>33,
     <1>34, <1>35, <1>36
     DEF Next, Main, Start, Dispatch, Serve, Attempt, Exchange, Module

\* Whatever the gateway sends and the module does, no command goes on for ever: at most
\* 14 * n + 1 steps of main serve n items.
THEOREM ServiceEnds == Spec => CommandsEnd
<1>1. TypeOK /\ [Next]_vars => [Serving => Effort' < Effort \/ UNCHANGED <<life, pc, cnt, packet>>]_vars
  BY EffortStep
<1> QED
  BY <1>1, Typing, PTL DEF Spec, CommandsEnd
=============================================================================
