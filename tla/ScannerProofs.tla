---------------------------- MODULE ScannerProofs ----------------------------
(***************************************************************************)
(* Proofs about Scanner, for any number of modules, addresses and          *)
(* descriptors, any choice of handler threads, and both values of          *)
(* PromptRearm.  Each part of IInv is shown to be preserved by a lemma of  *)
(* its own; the theorems at the end follow from IInv.  Only that the       *)
(* handler comes to its end needs the modules to be finitely many.         *)
(***************************************************************************)
EXTENDS Scanner, FiniteSetTheorems, TLAPS

\* Every step keeps every variable in its type: the cursor and the beacon are set
\* where they are used (PlaceInv).
LEMMA TypeStep ==
  ASSUME TypeOK, PlaceInv, [Next]_vars
  PROVE  TypeOK'
<1> USE DEF vars, lockVars, tabVars, tmpVars, fileVars, sigVars, walkVars, hVars, scanVars
<1> USE DEF Runs, ScanGoto, BeaconInit, HandlerGoto, HandlerRuns, Connected, TypeOK,
   PlaceInv, AnyIp, AnyFd, Owners, NoIps, NoBeacon, ScanPcs, HandlerPcs, CursorPlaces
<1>1. CASE MainLockItachs
  BY <1>1 DEF MainLockItachs
<1>2. CASE MainUnlockItachs
  BY <1>2 DEF MainUnlockItachs
<1>3. CASE MainLockIRdevs
  BY <1>3 DEF MainLockIRdevs
<1>4. CASE MainUnlockIRdevs
  BY <1>4 DEF MainUnlockIRdevs
<1>5. CASE MainMalloc
  BY <1>5 DEF MainMalloc
<1>6. CASE ScanBoot
  <2>1. flag' \in BOOLEAN /\ armed' \in BOOLEAN
    BY <1>6 DEF ScanBoot
  <2>2. /\ scanPc' \in ScanPcs /\ tmp' = {} /\ known' = {}
        /\ life' \in {"up", "exited"}
    BY <1>6 DEF ScanBoot
  <2>3. UNCHANGED <<lockVars, ip, fd, sock, reported, beacon, tmpIp, lastIp, halfLinked, fileVars,
                  hVars>>
    BY <1>6 DEF ScanBoot
  <2> QED
    BY <2>1, <2>2, <2>3
<1>7. CASE ScanCheck
  BY <1>7 DEF ScanCheck
<1>8. CASE ScanFree
  BY <1>8 DEF ScanFree
<1>9. CASE ScanArm
  BY <1>9 DEF ScanArm
<1>10. CASE ScanClear
  <2>1. flag' \in BOOLEAN
    BY <1>10 DEF ScanClear
  <2>2. scanPc' \in ScanPcs
    BY <1>10 DEF ScanClear
  <2>3. UNCHANGED <<life, lockVars, tabVars, beacon, tmpVars, fileVars, armed, hVars>>
    BY <1>10 DEF ScanClear
  <2> QED
    BY <2>1, <2>2, <2>3
<1>11. CASE RecordSnap
  BY <1>11 DEF RecordSnap
<1>12. CASE RecordTruncate
  BY <1>12 DEF RecordTruncate
<1>13. CASE RecordWrite
  BY <1>13 DEF RecordWrite
<1>14. CASE TmpInsert
  BY <1>14 DEF TmpInsert
<1>15. CASE TmpLink
  BY <1>15 DEF TmpLink
<1>16. CASE TmpSameIp
  BY <1>16 DEF TmpSameIp
<1>17. CASE TmpTearIp
  BY <1>17 DEF TmpTearIp
<1>18. CASE TmpCopyIp
  BY <1>18 DEF TmpCopyIp
<1>19. CASE RecordLock
  BY <1>19 DEF RecordLock
<1>20. ASSUME NEW u \in Modules, NEW i \in Ips, RecvBeacon(u, i) PROVE TypeOK'
  BY <1>20 DEF RecvBeacon
<1>21. ASSUME NEW t \in HandlerThreads, Fire(t) PROVE TypeOK'
  <2>1. armed' \in BOOLEAN
    BY <1>21 DEF Fire
  <2>2. on' \in {"main", "scanner"} /\ hPc' \in HandlerPcs /\ due' = tmp
    BY <1>21, ThreadsAssumption DEF Fire
  <2>3. UNCHANGED <<life, lockVars, tabVars, scanVars, flag, cur, walked, reused>>
    BY <1>21 DEF Fire
  <2> QED
    BY <2>1, <2>2, <2>3
<1>22. CASE LostDrop
  BY <1>22 DEF LostDrop
<1>23. CASE LostNext
  BY <1>23 DEF LostNext
<1>24. CASE LostNextGarbage
  BY <1>24 DEF LostNextGarbage
<1>25. CASE LostCopyIp
  BY <1>25 DEF LostCopyIp
<1>26. CASE LostUnlock
  BY <1>26 DEF LostUnlock
<1>27. CASE NewUnlock
  BY <1>27 DEF NewUnlock
<1>28. CASE Printed
  BY <1>28 DEF Printed
<1>29. CASE WalkOffEnd
  BY <1>29 DEF WalkOffEnd
<1>30. CASE Raise
  BY <1>30 DEF Raise
<1>31. ASSUME NEW u \in Modules, LostSame(u) PROVE TypeOK'
  BY <1>31 DEF LostSame
<1>32. ASSUME NEW u \in Modules, LostMoved(u) PROVE TypeOK'
  BY <1>32 DEF LostMoved
<1>33. ASSUME NEW u \in Modules, LostAbsent(u) PROVE TypeOK'
  BY <1>33 DEF LostAbsent
<1>34. ASSUME NEW u \in Modules, NewExisted(u) PROVE TypeOK'
  BY <1>34 DEF NewExisted
<1>35. ASSUME NEW u \in Modules, NewInsert(u) PROVE TypeOK'
  BY <1>35 DEF NewInsert
<1>36. ASSUME NEW f \in Fds, LostReconnect(f) PROVE TypeOK'
  BY <1>36 DEF LostReconnect
<1>37. ASSUME NEW f \in Fds, NewConnect(f) PROVE TypeOK'
  BY <1>37 DEF NewConnect
<1>38. CASE ConnectFails
  BY <1>38 DEF ConnectFails
<1>39. CASE LostLock
  BY <1>39 DEF LostLock
<1>40. CASE LostUpload
  BY <1>40 DEF LostUpload
<1>41. CASE NewLock
  BY <1>41 DEF NewLock
<1>42. CASE UNCHANGED vars
  BY <1>42
<1> QED
  BY <1>1, <1>2, <1>3, <1>4, <1>5, <1>6, <1>7, <1>8, <1>9, <1>10, <1>11, <1>12, <1>13,
     <1>14, <1>15, <1>16, <1>17, <1>18, <1>19, <1>20, <1>21, <1>22, <1>23, <1>24, <1>25,
     <1>26, <1>27, <1>28, <1>29, <1>30, <1>31, <1>32, <1>33, <1>34, <1>35, <1>36, <1>37,
     <1>38, <1>39, <1>40, <1>41, <1>42 DEF Next, Main, Beacon, ScanStep, Alarm, HandlerStep,
     HandlerWalk, HandlerConnect, HandlerLock

\* Where the beacon and the cursor are used, they have been set.
LEMMA PlaceStep ==
  ASSUME TypeOK, PlaceInv, [Next]_vars
  PROVE  PlaceInv'
<1> USE DEF vars, lockVars, tabVars, tmpVars, fileVars, sigVars, walkVars, hVars, scanVars
<1> USE DEF Runs, ScanGoto, BeaconInit, HandlerGoto, HandlerRuns, Connected, PlaceInv,
   CursorPlaces
<1>1. CASE ScanBoot
  BY <1>1 DEF ScanBoot
<1>2. ASSUME NEW u \in Modules, NEW i \in Ips, RecvBeacon(u, i) PROVE PlaceInv'
  BY <1>2 DEF RecvBeacon
<1>3. ASSUME NEW u \in Modules, LostSame(u) PROVE PlaceInv'
  BY <1>3 DEF LostSame
<1>4. ASSUME NEW u \in Modules, LostMoved(u) PROVE PlaceInv'
  BY <1>4 DEF LostMoved
<1>5. ASSUME NEW u \in Modules, LostAbsent(u) PROVE PlaceInv'
  BY <1>5 DEF LostAbsent
<1>6. ASSUME NEW u \in Modules, NewExisted(u) PROVE PlaceInv'
  BY <1>6 DEF NewExisted
<1>7. ASSUME NEW u \in Modules, NewInsert(u) PROVE PlaceInv'
  BY <1>7 DEF NewInsert
<1>8. CASE LostNext
  BY <1>8 DEF LostNext
<1>9. CASE Raise
  BY <1>9 DEF Raise
<1>10. CASE MainLockItachs \/ MainUnlockItachs \/ MainLockIRdevs \/ MainUnlockIRdevs \/
           MainMalloc
  BY <1>10 DEF MainLockItachs, MainUnlockItachs, MainLockIRdevs, MainUnlockIRdevs,
     MainMalloc
<1>11. CASE ScanCheck \/ ScanFree \/ ScanArm \/ ScanClear \/ RecordSnap \/ RecordTruncate \/
           RecordWrite \/ TmpInsert \/ TmpLink \/ TmpSameIp \/ TmpTearIp \/ TmpCopyIp \/
           RecordLock
  BY <1>11 DEF ScanCheck, ScanFree, ScanArm, ScanClear, RecordSnap, RecordTruncate,
     RecordWrite, TmpInsert, TmpLink, TmpSameIp, TmpTearIp, TmpCopyIp, RecordLock
<1>12. CASE LostDrop \/ LostNextGarbage \/ LostCopyIp \/ LostUnlock \/ NewUnlock \/ Printed
           \/ WalkOffEnd \/ ConnectFails \/ LostLock \/ LostUpload \/ NewLock \/ (\E f \in
           Fds : LostReconnect(f) \/ NewConnect(f)) \/ Alarm
  BY <1>12 DEF Fire, LostDrop, LostNextGarbage, LostCopyIp, LostUnlock, NewUnlock, Printed,
     WalkOffEnd, LostReconnect, NewConnect, ConnectFails, LostLock, LostUpload, NewLock,
     Alarm
<1>13. CASE UNCHANGED vars
  BY <1>13
<1> QED
  BY <1>1, <1>2, <1>3, <1>4, <1>5, <1>6, <1>7, <1>8, <1>9, <1>10, <1>11, <1>12, <1>13 DEF
     Next, Main, Beacon, ScanStep, Alarm, HandlerStep, HandlerWalk, HandlerConnect,
     HandlerLock

\* The alarm, the handler and the raised flag take turns.
LEMMA TurnStep ==
  ASSUME PlaceInv, TurnInv, [Next]_vars
  PROVE  TurnInv'
<1> USE DEF vars, lockVars, tabVars, tmpVars, fileVars, sigVars, walkVars, hVars, scanVars
<1> USE DEF Runs, ScanGoto, BeaconInit, HandlerGoto, HandlerRuns, Connected, TurnInv,
   RaisedUnserved
<1>1. CASE ScanBoot
  BY <1>1 DEF ScanBoot
<1>2. CASE ScanCheck
  BY <1>2 DEF ScanCheck
<1>3. CASE ScanFree
  BY <1>3 DEF ScanFree
<1>4. CASE ScanArm
  BY <1>4 DEF ScanArm
<1>5. CASE ScanClear
  BY <1>5 DEF ScanClear
<1>6. ASSUME NEW t \in HandlerThreads, Fire(t) PROVE TurnInv'
  BY <1>6 DEF Fire
<1>7. CASE Raise
  BY <1>7 DEF Raise
<1>8. CASE MainLockItachs \/ MainUnlockItachs \/ MainLockIRdevs \/ MainUnlockIRdevs \/
           MainMalloc
  BY <1>8 DEF MainLockItachs, MainUnlockItachs, MainLockIRdevs, MainUnlockIRdevs, MainMalloc
<1>9. CASE RecordSnap \/ RecordTruncate \/ RecordWrite \/ TmpInsert \/ TmpLink \/ TmpSameIp
           \/ TmpTearIp \/ TmpCopyIp \/ RecordLock \/ Beacon
  BY <1>9 DEF RecordSnap, RecordTruncate, RecordWrite, TmpInsert, TmpLink, TmpSameIp,
     TmpTearIp, TmpCopyIp, RecordLock, RecvBeacon, Beacon
<1>10. CASE LostDrop \/ LostNext \/ LostNextGarbage \/ LostCopyIp \/ LostUnlock \/ NewUnlock
           \/ Printed \/ WalkOffEnd \/ ConnectFails \/ LostLock \/ LostUpload \/ NewLock \/
           (\E u \in Modules : LostSame(u) \/ LostMoved(u) \/ LostAbsent(u) \/ NewExisted(u)
           \/ NewInsert(u)) \/ (\E f \in Fds : LostReconnect(f) \/ NewConnect(f))
  BY <1>10 DEF LostDrop, LostNext, LostNextGarbage, LostCopyIp, LostUnlock, NewUnlock,
     Printed, WalkOffEnd, LostSame, LostMoved, LostAbsent, NewExisted, NewInsert,
     LostReconnect, NewConnect, ConnectFails, LostLock, LostUpload, NewLock
<1>11. CASE UNCHANGED vars
  BY <1>11
<1> QED
  BY <1>1, <1>2, <1>3, <1>4, <1>5, <1>6, <1>7, <1>8, <1>9, <1>10, <1>11 DEF Next, Main,
     Beacon, ScanStep, Alarm, HandlerStep, HandlerWalk, HandlerConnect, HandlerLock

\* No expiry of the alarm is lost when the flag is lowered in time.
LEMMA PromptStep ==
  ASSUME TypeOK, TurnInv, PromptInv, [Next]_vars
  PROVE  PromptInv'
<1> USE DEF vars, lockVars, tabVars, tmpVars, fileVars, sigVars, walkVars, hVars, scanVars
<1> USE DEF Runs, ScanGoto, BeaconInit, HandlerGoto, HandlerRuns, Connected, PromptInv,
   TurnInv, RaisedUnserved, TypeOK
<1>1. CASE ScanBoot
  BY <1>1 DEF ScanBoot
<1>2. CASE ScanCheck
  BY <1>2 DEF ScanCheck
<1>3. CASE ScanFree
  BY <1>3 DEF ScanFree
<1>4. CASE ScanArm
  BY <1>4 DEF ScanArm
<1>5. CASE ScanClear
  BY <1>5 DEF ScanClear
<1>6. CASE RecordWrite
  BY <1>6 DEF RecordWrite
<1>7. ASSUME NEW t \in HandlerThreads, Fire(t) PROVE PromptInv'
  BY <1>7 DEF Fire
<1>8. CASE Raise
  BY <1>8 DEF Raise
<1>9. CASE MainLockItachs \/ MainUnlockItachs \/ MainLockIRdevs \/ MainUnlockIRdevs \/
           MainMalloc
  BY <1>9 DEF MainLockItachs, MainUnlockItachs, MainLockIRdevs, MainUnlockIRdevs, MainMalloc
<1>10. CASE RecordSnap \/ RecordTruncate \/ TmpInsert \/ TmpLink \/ TmpSameIp \/ TmpTearIp
           \/ TmpCopyIp \/ RecordLock \/ Beacon
  BY <1>10 DEF RecordSnap, RecordTruncate, TmpInsert, TmpLink, TmpSameIp, TmpTearIp,
     TmpCopyIp, RecordLock, RecvBeacon, Beacon
<1>11. CASE LostDrop \/ LostNext \/ LostNextGarbage \/ LostCopyIp \/ LostUnlock \/ NewUnlock
           \/ Printed \/ WalkOffEnd \/ ConnectFails \/ LostLock \/ LostUpload \/ NewLock \/
           (\E u \in Modules : LostSame(u) \/ LostMoved(u) \/ LostAbsent(u) \/ NewExisted(u)
           \/ NewInsert(u)) \/ (\E f \in Fds : LostReconnect(f) \/ NewConnect(f))
  BY <1>11 DEF LostDrop, LostNext, LostNextGarbage, LostCopyIp, LostUnlock, NewUnlock,
     Printed, WalkOffEnd, LostSame, LostMoved, LostAbsent, NewExisted, NewInsert,
     LostReconnect, NewConnect, ConnectFails, LostLock, LostUpload, NewLock
<1>12. CASE UNCHANGED vars
  BY <1>12
<1> QED
  BY <1>1, <1>2, <1>3, <1>4, <1>5, <1>6, <1>7, <1>8, <1>9, <1>10, <1>11, <1>12 DEF Next,
     Main, Beacon, ScanStep, Alarm, HandlerStep, HandlerWalk, HandlerConnect, HandlerLock

\* What the handler has established at each place survives the beacons that the
\* scanner goes on adding, because the list only grows under it.
LEMMA WalkStep ==
  ASSUME TypeOK, PlaceInv, TurnInv, WalkInv, [Next]_vars
  PROVE  WalkInv'
<1> USE DEF vars, lockVars, tabVars, tmpVars, fileVars, sigVars, walkVars, hVars, scanVars
<1> USE DEF Runs, ScanGoto, BeaconInit, HandlerGoto, HandlerRuns, Connected, WalkInv,
   LostPlaces, CursorPlaces
<1>1. CASE ScanBoot
  BY <1>1 DEF ScanBoot, PlaceInv, TurnInv
<1>2. CASE ScanFree
  BY <1>2 DEF ScanFree, TurnInv, RaisedUnserved
<1>3. CASE TmpInsert
  BY <1>3 DEF TmpInsert
<1>4. ASSUME NEW t \in HandlerThreads, Fire(t) PROVE WalkInv'
  BY <1>4 DEF Fire
<1>5. ASSUME NEW u \in Modules, LostSame(u) PROVE WalkInv'
  BY <1>5 DEF LostSame
<1>6. ASSUME NEW u \in Modules, LostMoved(u) PROVE WalkInv'
  BY <1>6 DEF LostMoved
<1>7. ASSUME NEW u \in Modules, LostAbsent(u) PROVE WalkInv'
  BY <1>7 DEF LostAbsent
<1>8. ASSUME NEW u \in Modules, NewExisted(u) PROVE WalkInv'
  BY <1>8 DEF NewExisted
<1>9. ASSUME NEW u \in Modules, NewInsert(u) PROVE WalkInv'
  BY <1>9 DEF NewInsert
<1>10. ASSUME NEW f \in Fds, LostReconnect(f) PROVE WalkInv'
  BY <1>10 DEF LostReconnect
<1>11. ASSUME NEW f \in Fds, NewConnect(f) PROVE WalkInv'
  BY <1>11 DEF NewConnect
<1>12. CASE LostLock
  BY <1>12 DEF LostLock
<1>13. CASE LostUpload
  BY <1>13 DEF LostUpload
<1>14. CASE LostDrop
  BY <1>14 DEF LostDrop
<1>15. CASE LostNext
  BY <1>15 DEF LostNext
<1>16. CASE LostCopyIp
  BY <1>16 DEF LostCopyIp
<1>17. CASE LostUnlock
  BY <1>17 DEF LostUnlock
<1>18. CASE NewLock
  BY <1>18 DEF NewLock
<1>19. CASE NewUnlock
  BY <1>19 DEF NewUnlock
<1>20. CASE Printed
  BY <1>20 DEF Printed
<1>21. CASE Raise
  BY <1>21 DEF Raise
<1>22. CASE MainLockItachs \/ MainUnlockItachs \/ MainLockIRdevs \/ MainUnlockIRdevs \/
           MainMalloc
  BY <1>22 DEF MainLockItachs, MainUnlockItachs, MainLockIRdevs, MainUnlockIRdevs,
     MainMalloc
<1>23. CASE ScanCheck \/ ScanArm \/ ScanClear \/ RecordSnap \/ RecordTruncate \/ RecordWrite
           \/ TmpLink \/ TmpSameIp \/ TmpTearIp \/ TmpCopyIp \/ RecordLock \/ Beacon
  BY <1>23 DEF ScanCheck, ScanArm, ScanClear, RecordSnap, RecordTruncate, RecordWrite,
     TmpLink, TmpSameIp, TmpTearIp, TmpCopyIp, RecordLock, RecvBeacon, Beacon
<1>24. CASE LostNextGarbage \/ WalkOffEnd \/ ConnectFails
  BY <1>24 DEF LostNextGarbage, WalkOffEnd, ConnectFails
<1>25. CASE UNCHANGED vars
  BY <1>25
<1> QED
  BY <1>1, <1>2, <1>3, <1>4, <1>5, <1>6, <1>7, <1>8, <1>9, <1>10, <1>11, <1>12, <1>13,
     <1>14, <1>15, <1>16, <1>17, <1>18, <1>19, <1>20, <1>21, <1>22, <1>23, <1>24, <1>25 DEF
     Next, Main, Beacon, ScanStep, Alarm, HandlerStep, HandlerWalk, HandlerConnect,
     HandlerLock

\* A socket is opened only for the module at the cursor, into a free descriptor.
LEMMA SocketStep ==
  ASSUME TypeOK, PlaceInv, TurnInv, WalkInv, SocketInv, [Next]_vars
  PROVE  SocketInv'
<1> USE DEF vars, lockVars, tabVars, tmpVars, fileVars, sigVars, walkVars, hVars, scanVars
<1> USE DEF Runs, ScanGoto, BeaconInit, HandlerGoto, HandlerRuns, Connected, SocketInv,
   SocketsOwned, Connecting
<1> USE IpsAssumption
<1>1. CASE ScanBoot
  BY <1>1 DEF ScanBoot, PlaceInv
<1>2. CASE ScanFree
  BY <1>2 DEF ScanFree, NoIps
<1>3. CASE TmpInsert
  BY <1>3 DEF TmpInsert, PlaceInv, TypeOK, AnyIp
<1>4. CASE TmpTearIp
  BY <1>4 DEF TmpTearIp, PlaceInv, TypeOK, AnyIp
<1>5. CASE TmpCopyIp
  BY <1>5 DEF TmpCopyIp, PlaceInv, TypeOK, AnyIp
<1>6. ASSUME NEW u \in Modules, LostSame(u) PROVE SocketInv'
  BY <1>6 DEF LostSame, WalkInv, TypeOK, AnyIp
<1>7. ASSUME NEW u \in Modules, LostMoved(u) PROVE SocketInv'
  BY <1>7 DEF LostMoved, WalkInv, TypeOK, AnyIp
<1>8. ASSUME NEW u \in Modules, LostAbsent(u) PROVE SocketInv'
  BY <1>8 DEF LostAbsent, WalkInv, TypeOK, AnyIp
<1>9. ASSUME NEW u \in Modules, NewExisted(u) PROVE SocketInv'
  BY <1>9 DEF NewExisted, WalkInv, TypeOK, AnyIp
<1>10. ASSUME NEW u \in Modules, NewInsert(u) PROVE SocketInv'
  BY <1>10 DEF NewInsert, WalkInv, TypeOK, AnyIp
<1>11. ASSUME NEW f \in Fds, LostReconnect(f) PROVE SocketInv'
  BY <1>11 DEF LostReconnect, WalkInv, TypeOK, AnyIp
<1>12. ASSUME NEW f \in Fds, NewConnect(f) PROVE SocketInv'
  BY <1>12 DEF NewConnect, WalkInv, TypeOK, AnyIp
<1>13. CASE LostDrop
  BY <1>13 DEF LostDrop, WalkInv, TypeOK, AnyIp
<1>14. CASE LostNext
  BY <1>14 DEF LostNext, WalkInv, TypeOK, AnyIp
<1>15. CASE LostCopyIp
  BY <1>15 DEF LostCopyIp, WalkInv, TypeOK, AnyIp
<1>16. CASE LostUnlock
  BY <1>16 DEF LostUnlock, WalkInv, TypeOK, AnyIp
<1>17. CASE NewUnlock
  BY <1>17 DEF NewUnlock, WalkInv, TypeOK, AnyIp
<1>18. CASE MainLockItachs \/ MainUnlockItachs \/ MainLockIRdevs \/ MainUnlockIRdevs \/
           MainMalloc
  BY <1>18 DEF MainLockItachs, MainUnlockItachs, MainLockIRdevs, MainUnlockIRdevs,
     MainMalloc
<1>19. CASE ScanCheck \/ ScanArm \/ ScanClear \/ RecordSnap \/ RecordTruncate \/ RecordWrite
           \/ TmpLink \/ TmpSameIp \/ RecordLock \/ Beacon
  BY <1>19 DEF ScanCheck, ScanArm, ScanClear, RecordSnap, RecordTruncate, RecordWrite,
     TmpLink, TmpSameIp, RecordLock, RecvBeacon, Beacon
<1>20. CASE LostNextGarbage \/ Printed \/ WalkOffEnd \/ Raise \/ ConnectFails \/ LostLock \/
           LostUpload \/ NewLock \/ Alarm
  BY <1>20 DEF Fire, LostNextGarbage, Printed, WalkOffEnd, Raise, ConnectFails, LostLock,
     LostUpload, NewLock, Alarm
<1>21. CASE UNCHANGED vars
  BY <1>21
<1> QED
  BY <1>1, <1>2, <1>3, <1>4, <1>5, <1>6, <1>7, <1>8, <1>9, <1>10, <1>11, <1>12, <1>13,
     <1>14, <1>15, <1>16, <1>17, <1>18, <1>19, <1>20, <1>21 DEF Next, Main, Beacon,
     ScanStep, Alarm, HandlerStep, HandlerWalk, HandlerConnect, HandlerLock

\* While the handler interrupts the scanner, the addresses it compares stand still.
LEMMA FollowStep ==
  ASSUME TypeOK, PlaceInv, TurnInv, WalkInv, FollowInv, [Next]_vars
  PROVE  FollowInv'
<1> USE DEF vars, lockVars, tabVars, tmpVars, fileVars, sigVars, walkVars, hVars, scanVars
<1> USE DEF Runs, ScanGoto, BeaconInit, HandlerGoto, HandlerRuns, Connected, FollowInv,
   LostPlaces
<1>1. CASE ScanBoot
  BY <1>1 DEF ScanBoot, PlaceInv, TurnInv
<1>2. CASE ScanFree
  BY <1>2 DEF ScanFree
<1>3. CASE TmpInsert
  BY <1>3 DEF TmpInsert
<1>4. CASE TmpTearIp
  BY <1>4 DEF TmpTearIp
<1>5. CASE TmpCopyIp
  BY <1>5 DEF TmpCopyIp
<1>6. ASSUME NEW t \in HandlerThreads, Fire(t) PROVE FollowInv'
  BY <1>6 DEF Fire, TypeOK
<1>7. ASSUME NEW u \in Modules, LostSame(u) PROVE FollowInv'
  BY <1>7 DEF LostSame, WalkInv, TypeOK
<1>8. ASSUME NEW u \in Modules, LostMoved(u) PROVE FollowInv'
  BY <1>8 DEF LostMoved, WalkInv, TypeOK
<1>9. ASSUME NEW u \in Modules, LostAbsent(u) PROVE FollowInv'
  BY <1>9 DEF LostAbsent, WalkInv, TypeOK
<1>10. ASSUME NEW u \in Modules, NewExisted(u) PROVE FollowInv'
  BY <1>10 DEF NewExisted, WalkInv, TypeOK
<1>11. ASSUME NEW u \in Modules, NewInsert(u) PROVE FollowInv'
  BY <1>11 DEF NewInsert, WalkInv, TypeOK
<1>12. ASSUME NEW f \in Fds, LostReconnect(f) PROVE FollowInv'
  BY <1>12 DEF LostReconnect, WalkInv, TypeOK
<1>13. ASSUME NEW f \in Fds, NewConnect(f) PROVE FollowInv'
  BY <1>13 DEF NewConnect, WalkInv, TypeOK
<1>14. CASE LostLock
  BY <1>14 DEF LostLock, WalkInv, TypeOK
<1>15. CASE LostUpload
  BY <1>15 DEF LostUpload, WalkInv, TypeOK
<1>16. CASE LostDrop
  BY <1>16 DEF LostDrop, WalkInv, TypeOK
<1>17. CASE LostNext
  BY <1>17 DEF LostNext, WalkInv, TypeOK
<1>18. CASE LostCopyIp
  BY <1>18 DEF LostCopyIp, WalkInv, TypeOK
<1>19. CASE LostUnlock
  BY <1>19 DEF LostUnlock, WalkInv, TypeOK
<1>20. CASE NewLock
  BY <1>20 DEF NewLock, WalkInv, TypeOK
<1>21. CASE NewUnlock
  BY <1>21 DEF NewUnlock, WalkInv, TypeOK
<1>22. CASE Printed
  BY <1>22 DEF Printed, WalkInv, TypeOK
<1>23. CASE Raise
  BY <1>23 DEF Raise, WalkInv, TypeOK
<1>24. CASE MainLockItachs \/ MainUnlockItachs \/ MainLockIRdevs \/ MainUnlockIRdevs \/
           MainMalloc
  BY <1>24 DEF MainLockItachs, MainUnlockItachs, MainLockIRdevs, MainUnlockIRdevs,
     MainMalloc
<1>25. CASE ScanCheck \/ ScanArm \/ ScanClear \/ RecordSnap \/ RecordTruncate \/ RecordWrite
           \/ TmpLink \/ TmpSameIp \/ RecordLock \/ Beacon
  BY <1>25 DEF ScanCheck, ScanArm, ScanClear, RecordSnap, RecordTruncate, RecordWrite,
     TmpLink, TmpSameIp, RecordLock, RecvBeacon, Beacon
<1>26. CASE LostNextGarbage \/ WalkOffEnd \/ ConnectFails
  BY <1>26 DEF LostNextGarbage, WalkOffEnd, ConnectFails
<1>27. CASE UNCHANGED vars
  BY <1>27
<1> QED
  BY <1>1, <1>2, <1>3, <1>4, <1>5, <1>6, <1>7, <1>8, <1>9, <1>10, <1>11, <1>12, <1>13,
     <1>14, <1>15, <1>16, <1>17, <1>18, <1>19, <1>20, <1>21, <1>22, <1>23, <1>24, <1>25,
     <1>26, <1>27 DEF Next, Main, Beacon, ScanStep, Alarm, HandlerStep, HandlerWalk,
     HandlerConnect, HandlerLock

\* A node of the temporary list holds the address last heard, but between memset() and strcpy().
LEMMA LastIpStep ==
  ASSUME TypeOK, PlaceInv, LastIpInv, [Next]_vars
  PROVE  LastIpInv'
<1> USE DEF vars, lockVars, tabVars, tmpVars, fileVars, sigVars, walkVars, hVars, scanVars
<1> USE DEF Runs, ScanGoto, HandlerGoto, HandlerRuns, LastIpInv, Caught
<1>1. CASE ScanFree
  BY <1>1 DEF ScanFree, NoIps
<1>2. CASE TmpInsert
  BY <1>2 DEF TmpInsert, PlaceInv, TypeOK
<1>3. CASE TmpTearIp
  BY <1>3 DEF TmpTearIp, PlaceInv, TypeOK
<1>4. CASE TmpCopyIp
  BY <1>4 DEF TmpCopyIp, PlaceInv, TypeOK
<1>5. CASE ScanBoot \/ ScanCheck \/ ScanArm \/ ScanClear \/ RecordSnap \/ RecordTruncate
           \/ RecordWrite \/ TmpLink \/ TmpSameIp \/ RecordLock \/ Beacon
  BY <1>5 DEF ScanBoot, ScanCheck, ScanArm, ScanClear, RecordSnap, RecordTruncate, RecordWrite,
     TmpLink, TmpSameIp, RecordLock, RecvBeacon, Beacon
<1>6. CASE Main \/ Alarm
  BY <1>6 DEF Main, MainLockItachs, MainUnlockItachs, MainLockIRdevs, MainUnlockIRdevs,
     MainMalloc, Alarm, Fire
<1>7. CASE HandlerStep \/ HandlerLock
  BY <1>7 DEF HandlerStep, HandlerLock, HandlerWalk, HandlerConnect, LostLock, LostSame,
     LostMoved, LostAbsent, LostUpload, LostDrop, LostNext, LostNextGarbage, LostCopyIp,
     LostReconnect, LostUnlock, NewLock, NewExisted, NewInsert, NewConnect, ConnectFails,
     NewUnlock, Printed, WalkOffEnd, Raise
<1>8. CASE UNCHANGED vars
  BY <1>8
<1> QED
  BY <1>1, <1>2, <1>3, <1>4, <1>5, <1>6, <1>7, <1>8 DEF Next, ScanStep

\* No handler can run between the snapshot of the table and the next alarm.
LEMMA FileStep ==
  ASSUME TypeOK, PlaceInv, TurnInv, PromptInv, FileInv, [Next]_vars
  PROVE  FileInv'
<1> USE DEF vars, lockVars, tabVars, tmpVars, fileVars, sigVars, walkVars, hVars, scanVars
<1> USE DEF Runs, ScanGoto, BeaconInit, HandlerGoto, HandlerRuns, Connected, FileInv,
   FileCurrent, Served
<1>1. CASE ScanBoot
  BY <1>1 DEF ScanBoot, PlaceInv
<1>2. CASE ScanCheck
  BY <1>2 DEF ScanCheck, TurnInv, RaisedUnserved
<1>3. CASE ScanArm
  BY <1>3 DEF ScanArm
<1>4. CASE RecordSnap
  BY <1>4 DEF RecordSnap
<1>5. CASE RecordTruncate
  BY <1>5 DEF RecordTruncate
<1>6. CASE RecordWrite
  BY <1>6 DEF RecordWrite
<1>7. ASSUME NEW t \in HandlerThreads, Fire(t) PROVE FileInv'
  BY <1>7 DEF Fire
<1>8. CASE LostDrop
  BY <1>8 DEF LostDrop, TurnInv, PromptInv
<1>9. CASE LostCopyIp
  BY <1>9 DEF LostCopyIp, TurnInv, PromptInv
<1>10. ASSUME NEW u \in Modules, NewInsert(u) PROVE FileInv'
  BY <1>10 DEF NewInsert, TurnInv, PromptInv
<1>11. CASE MainLockItachs \/ MainUnlockItachs \/ MainLockIRdevs \/ MainUnlockIRdevs \/
           MainMalloc
  BY <1>11 DEF MainLockItachs, MainUnlockItachs, MainLockIRdevs, MainUnlockIRdevs,
     MainMalloc
<1>12. CASE ScanFree \/ ScanClear \/ TmpInsert \/ TmpLink \/ TmpSameIp \/ TmpTearIp \/
           TmpCopyIp \/ RecordLock \/ Beacon
  BY <1>12 DEF ScanFree, ScanClear, TmpInsert, TmpLink, TmpSameIp, TmpTearIp, TmpCopyIp,
     RecordLock, RecvBeacon, Beacon
<1>13. CASE LostNext \/ LostNextGarbage \/ LostUnlock \/ NewUnlock \/ Printed \/ WalkOffEnd
           \/ Raise \/ ConnectFails \/ LostLock \/ LostUpload \/ NewLock \/ (\E u \in
           Modules : LostSame(u) \/ LostMoved(u) \/ LostAbsent(u) \/ NewExisted(u)) \/ (\E f
           \in Fds : LostReconnect(f) \/ NewConnect(f))
  BY <1>13 DEF LostNext, LostNextGarbage, LostUnlock, NewUnlock, Printed, WalkOffEnd, Raise,
     LostSame, LostMoved, LostAbsent, NewExisted, LostReconnect, NewConnect, ConnectFails,
     LostLock, LostUpload, NewLock
<1>14. CASE UNCHANGED vars
  BY <1>14
<1> QED
  BY <1>1, <1>2, <1>3, <1>4, <1>5, <1>6, <1>7, <1>8, <1>9, <1>10, <1>11, <1>12, <1>13, <1>14
     DEF Next, Main, Beacon, ScanStep, Alarm, HandlerStep, HandlerWalk, HandlerConnect,
     HandlerLock

-----------------------------------------------------------------------------
\* The inductive invariant holds in every reachable state of the scanner.
THEOREM Invariance == Spec => []IInv
<1>1. Init => IInv
  <2> SUFFICES ASSUME Init PROVE IInv
    OBVIOUS
  <2> USE DEF Init
  <2>1. TypeOK
    BY DEF TypeOK, AnyIp, AnyFd, Owners, NoIps, NoBeacon, ScanPcs, HandlerPcs
  <2>2. PlaceInv /\ TurnInv /\ PromptInv
    BY DEF PlaceInv, CursorPlaces, TurnInv, RaisedUnserved, PromptInv
  <2>3. WalkInv /\ FollowInv
    BY DEF WalkInv, LostPlaces, FollowInv
  <2>4. SocketInv
    BY DEF SocketInv, SocketsOwned
  <2>5. FileInv
    BY DEF FileInv, FileCurrent
  <2>6. LastIpInv
    BY DEF LastIpInv, Caught, NoIps
  <2> QED
    BY <2>1, <2>2, <2>3, <2>4, <2>5, <2>6 DEF IInv
<1>2. IInv /\ [Next]_vars => IInv'
  BY TypeStep, PlaceStep, TurnStep, PromptStep, WalkStep, SocketStep, FollowStep,
     LastIpStep, FileStep DEF IInv
<1>3. QED
  BY <1>1, <1>2, PTL DEF Spec

\* Type correctness of the scanner's state.
THEOREM Typing == Spec => []TypeOK
<1>1. IInv => TypeOK
  BY DEF IInv
<1>2. QED
  BY <1>1, Invariance, PTL

\* The alarm, the handler and the raised flag are never two at a time.
THEOREM TakesTurns == Spec => []OneTurn
<1>1. IInv => OneTurn
  BY DEF IInv, TurnInv, OneTurn, Tokens
<1>2. QED
  BY <1>1, Invariance, PTL

\* Under PromptRearm the cycle never loses its next window.
THEOREM NoLostExpiry ==
  ASSUME PromptRearm
  PROVE  Spec => []CycleGoesOn
<1>1. IInv => CycleGoesOn
  BY DEF IInv, TurnInv, PromptInv, CycleGoesOn, OneTurn, Tokens
<1>2. QED
  BY <1>1, Invariance, PTL

\* The list of the closing window is never freed while the handler walks it.
THEOREM ListOutlivesWalk == Spec => []FreeNotUnderWalk
<1>1. IInv => FreeNotUnderWalk
  BY DEF IInv, TurnInv, FreeNotUnderWalk, RaisedUnserved
<1>2. QED
  BY <1>1, Invariance, PTL

\* After the two walks the table lies between what was heard and what is heard.
THEOREM Settles == Spec => []WindowSettled
<1>1. IInv => WindowSettled
  BY DEF IInv, WalkInv, WindowSettled
<1>2. QED
  BY <1>1, Invariance, PTL

\* Served modules own distinct sockets connected to their recorded addresses.
THEOREM SocketOwnership == Spec => []SocketsOwned
<1>1. IInv => SocketsOwned
  BY DEF IInv, SocketInv
<1>2. QED
  BY <1>1, Invariance, PTL

\* A handler that interrupts the scanner leaves the modules at the addresses last heard, but for
\* one whose address it caught half replaced.
THEOREM FollowsAddresses == Spec => []AddressesFollowed
<1>1. IInv => AddressesFollowed
  <2>1. TypeOK => known \subseteq Modules
    BY DEF TypeOK
  <2> QED
    BY <2>1 DEF IInv, FollowInv, LastIpInv, AddressesFollowed
<1>2. QED
  BY <1>1, Invariance, PTL

\* Under PromptRearm the polled file lists the modules served until the next alarm.
THEOREM FileTracksTable ==
  ASSUME PromptRearm
  PROVE  Spec => []FileCurrent
<1>1. IInv => FileCurrent
  BY DEF IInv, FileInv
<1>2. QED
  BY <1>1, Invariance, PTL

-----------------------------------------------------------------------------
(* Scanner implements Presence.                                            *)

\* Every step of the scanner is a step of Presence or changes nothing there:
\* each window is freed exactly once, after its handler and before its alarm.
LEMMA StepSimulation ==
  ASSUME IInv, [Next]_vars
  PROVE  [Windows!Next]_(Windows!vars)
<1> USE DEF vars, lockVars, tabVars, tmpVars, fileVars, sigVars, walkVars, hVars, scanVars
<1> USE DEF Runs, ScanGoto, BeaconInit, HandlerGoto, HandlerRuns, Connected, Windows!vars, Windows!Next, Phase
<1>0. TypeOK /\ PlaceInv /\ TurnInv /\ WalkInv
  BY DEF IInv
<1> USE <1>0
<1>1. CASE ScanBoot
  BY <1>1 DEF ScanBoot, PlaceInv, TurnInv
<1>2. CASE ScanFree
  <2>1. Windows!Reopen
    BY <1>2 DEF ScanFree, TurnInv, RaisedUnserved, Windows!Reopen
  <2> QED
    BY <2>1
<1>3. CASE TmpInsert
  <2>1. Windows!Hear(beacon.uuid)
    BY <1>3 DEF TmpInsert, Windows!Hear
  <2>2. beacon.uuid \in Modules
    BY <1>3 DEF TmpInsert, PlaceInv
  <2> QED
    BY <2>1, <2>2
<1>4. ASSUME NEW t \in HandlerThreads, Fire(t)
      PROVE  Windows!Close
  BY <1>4 DEF Fire, Windows!Close
<1>5. CASE LostUpload
  <2>1. Windows!Report(cur) /\ cur \in Modules
    BY <1>5 DEF LostUpload, WalkInv, PlaceInv, CursorPlaces, Windows!Report
  <2> QED
    BY <2>1
<1>6. CASE LostDrop
  <2>1. Windows!Drop(cur) /\ cur \in Modules
    BY <1>6 DEF LostDrop, WalkInv, PlaceInv, CursorPlaces, Windows!Drop
  <2> QED
    BY <2>1
<1>7. ASSUME NEW u \in Modules, NewInsert(u)
      PROVE  Windows!Adopt(u)
  BY <1>7 DEF NewInsert, Windows!Adopt
<1>8. CASE Raise
  <2>1. Windows!Settle
    BY <1>8 DEF Raise, WalkInv, TurnInv, RaisedUnserved, Windows!Settle
  <2> QED
    BY <2>1
<1>9. CASE Main
  BY <1>9 DEF Main, MainLockItachs, MainUnlockItachs, MainLockIRdevs, MainUnlockIRdevs, MainMalloc
<1>10. CASE ScanCheck \/ RecordLock \/ RecordSnap \/ RecordTruncate \/ RecordWrite \/ Beacon
            \/ TmpLink \/ TmpSameIp \/ TmpTearIp \/ TmpCopyIp
  BY <1>10 DEF ScanCheck, RecordLock, RecordSnap, RecordTruncate, RecordWrite, Beacon, RecvBeacon,
     TmpLink, TmpSameIp, TmpTearIp, TmpCopyIp
<1>11. CASE ScanArm \/ ScanClear
  BY <1>11 DEF ScanArm, ScanClear, TurnInv, RaisedUnserved
<1>12. CASE LostLock \/ NewLock \/ LostNext \/ LostNextGarbage \/ LostCopyIp \/ LostUnlock
            \/ NewUnlock \/ Printed \/ WalkOffEnd \/ HandlerConnect
            \/ (\E u \in Modules : LostSame(u) \/ LostMoved(u) \/ LostAbsent(u) \/ NewExisted(u))
  BY <1>12 DEF LostLock, NewLock, LostNext, LostNextGarbage, LostCopyIp, LostUnlock, NewUnlock,
     Printed, WalkOffEnd, HandlerConnect, LostReconnect, NewConnect, ConnectFails,
     LostSame, LostMoved, LostAbsent, NewExisted
<1>13. CASE UNCHANGED vars
  BY <1>13
<1> QED
  BY <1>1, <1>2, <1>3, <1>4, <1>5, <1>6, <1>7, <1>8, <1>9, <1>10, <1>11, <1>12, <1>13
     DEF Next, ScanStep, Alarm, HandlerStep, HandlerWalk, HandlerLock

\* The scanner keeps the promises of Presence: modules are reported and forgotten
\* only if they were not heard in the window, and adopted only if they were heard.
THEOREM Implementation == Spec => ImplementsPresence
<1>1. Init => Windows!Init
  BY DEF Init, Windows!Init, Phase
<1>2. IInv /\ [Next]_vars => [Windows!Next]_(Windows!vars)
  BY StepSimulation
<1>3. QED
  BY <1>1, <1>2, Invariance, PTL DEF Spec, ImplementsPresence, Windows!Spec

\* How many nodes are ahead of the walk: one less when one has been passed.
LEMMA Ahead ==
  ASSUME IsFiniteSet(Modules), NEW w \in SUBSET Modules
  PROVE  /\ Cardinality(Modules) \in Nat /\ Cardinality(Modules \ w) \in Nat
         /\ Cardinality(Modules \ w) <= Cardinality(Modules)
         /\ \A u \in Modules \ w :
              Cardinality(Modules \ (w \union {u})) = Cardinality(Modules \ w) - 1
<1>1. IsFiniteSet(Modules \ w) /\ (Modules \ w) \in SUBSET Modules
  BY FS_Subset
<1>2. Cardinality(Modules) \in Nat /\ Cardinality(Modules \ w) \in Nat
  BY <1>1, FS_CardinalityType
<1>3. Cardinality(Modules \ w) <= Cardinality(Modules)
  BY <1>1, FS_Subset
<1>4. ASSUME NEW u \in Modules \ w
      PROVE  Cardinality(Modules \ (w \union {u})) = Cardinality(Modules \ w) - 1
  <2> DEFINE rest == Modules \ w
  <2>1. Modules \ (w \union {u}) = rest \ {u}
    OBVIOUS
  <2>2. IsFiniteSet(rest) /\ u \in rest
    BY <1>1
  <2>3. Cardinality(rest \ {u}) = Cardinality(rest) - 1
    <3> HIDE DEF rest
    <3> QED
      BY <2>2, FS_RemoveElement
  <2> QED
    BY <2>1, <2>3
<1> QED
  BY <1>2, <1>3, <1>4

\* Each way on from a place needs less.
LEMMA LessWork ==
  ASSUME NEW r \in Nat, NEW n \in Nat, r <= n
  PROVE  /\ \A place \in HandlerPcs : WorkAt(place, r, n) \in Nat
         /\ \A place \in HandlerPcs \ {"idle"} : WorkAt(place, r, n) > 0
         /\ WorkAt("lost", n, n) < WorkAt("lockLost", r, n)
         /\ WorkAt("copyIp", r, n) < WorkAt("lost", r, n)
         /\ WorkAt("upload", r, n) < WorkAt("lost", r, n)
         /\ WorkAt("drop", r, n) < WorkAt("upload", r, n)
         /\ WorkAt("next", r, n) < WorkAt("drop", r, n)
         /\ WorkAt("reconnect", r, n) < WorkAt("copyIp", r, n)
         /\ \A q \in Nat : q = r - 1 =>
              /\ WorkAt("lost", q, n) < WorkAt("lost", r, n)
              /\ WorkAt("lost", q, n) < WorkAt("next", r, n)
              /\ WorkAt("lost", q, n) < WorkAt("reconnect", r, n)
              /\ WorkAt("new", q, n) < WorkAt("new", r, n)
              /\ WorkAt("new", q, n) < WorkAt("connect", r, n)
         /\ \A q \in Nat : WorkAt("lockNew", q, n) < WorkAt("lost", r, n)
         /\ \A q \in Nat : q <= n => WorkAt("new", q, n) < WorkAt("lockNew", r, n)
         /\ WorkAt("connect", r, n) < WorkAt("new", r, n)
         /\ \A q \in Nat : WorkAt("print", q, n) < WorkAt("new", r, n)
         /\ WorkAt("raise", r, n) < WorkAt("print", r, n)
         /\ \A q \in Nat : WorkAt("idle", q, n) < WorkAt("raise", r, n)
BY DEF WorkAt, HandlerPcs

\* Every step of the handler takes some of its work, and no other step changes it.
LEMMA WorkStep ==
  ASSUME IsFiniteSet(Modules), IInv, [Next]_vars, HandlerRuns
  PROVE  HandlerWork' < HandlerWork \/ UNCHANGED <<life, hPc, cur, walked>>
<1> DEFINE n == Cardinality(Modules)
<1> DEFINE r == Cardinality(Modules \ walked)
<1> DEFINE s == Cardinality(Modules \ walked')
<1>1. /\ walked \in SUBSET Modules /\ walked' \in SUBSET Modules
      /\ hPc \in HandlerPcs \ {"idle"} /\ hPc' \in HandlerPcs /\ life = "up"
      /\ hPc \in CursorPlaces => cur \in Modules \ walked
  <2>1. TypeOK'
    BY TypeStep DEF IInv
  <2> QED
    BY <2>1 DEF IInv, TypeOK, PlaceInv, WalkInv, HandlerRuns
<1>2. /\ n \in Nat /\ r \in Nat /\ s \in Nat /\ r <= n /\ s <= n
      /\ \A u \in Modules \ walked : walked' = walked \union {u} => s = r - 1
      /\ walked' = {} => s = n
      /\ walked' = walked => s = r
  BY <1>1, Ahead
<1>3. /\ HandlerWork = WorkAt(hPc, r, n)
      /\ HandlerWork' = IF life' = "up" /\ hPc' # "idle" THEN WorkAt(hPc', s, n) ELSE 0
  BY DEF HandlerWork, HandlerRuns
<1> HIDE DEF n, r, s
<1>4. WorkAt(hPc, r, n) > 0
  BY <1>1, <1>2, LessWork
<1> SUFFICES ASSUME ~UNCHANGED <<life, hPc, cur, walked>>
             PROVE  HandlerWork' < HandlerWork
  OBVIOUS
<1>5. ASSUME life' # "up" PROVE HandlerWork' < HandlerWork
  BY <1>3, <1>4, <1>5
<1>6. ASSUME WorkAt(hPc', s, n) < WorkAt(hPc, r, n) PROVE HandlerWork' < HandlerWork
  BY <1>3, <1>4, <1>6
<1> USE <1>1, <1>2
<1> USE DEF vars, lockVars, tabVars, tmpVars, fileVars, sigVars, walkVars, hVars, scanVars
<1> USE DEF Runs, HandlerGoto, Connected, CursorPlaces
<1>7. CASE Main \/ Beacon \/ ScanStep \/ RecordLock \/ UNCHANGED vars
  <2>1. CASE Main
    BY <2>1 DEF Main, MainLockItachs, MainUnlockItachs, MainLockIRdevs, MainUnlockIRdevs,
       MainMalloc
  <2>2. CASE Beacon \/ RecordLock
    BY <2>2 DEF Beacon, RecvBeacon, RecordLock
  <2>3. CASE ScanBoot \/ ScanCheck \/ ScanFree \/ ScanArm \/ ScanClear
    <3>1. CASE ScanBoot
      BY <1>5, <3>1 DEF ScanBoot, IInv, TurnInv, HandlerRuns, ScanGoto
    <3> QED
      BY <2>3, <3>1 DEF ScanCheck, ScanFree, ScanArm, ScanClear
  <2>4. CASE RecordSnap \/ RecordTruncate \/ RecordWrite \/ TmpInsert \/ TmpLink
             \/ TmpSameIp \/ TmpTearIp \/ TmpCopyIp
    BY <2>4 DEF RecordSnap, RecordTruncate, RecordWrite, TmpInsert, TmpLink,
       TmpSameIp, TmpTearIp, TmpCopyIp
  <2>5. CASE UNCHANGED vars
    BY <2>5
  <2> QED
    BY <1>7, <2>1, <2>2, <2>3, <2>4, <2>5 DEF ScanStep
<1>8. ASSUME NEW t \in HandlerThreads, Fire(t) PROVE FALSE
  BY <1>8 DEF Fire, HandlerRuns
<1>9. ASSUME NEW u \in Modules, HandlerWalk(u) PROVE HandlerWork' < HandlerWork
  <2>1. CASE LostSame(u)
    <3>1. hPc = "lost" /\ hPc' = "lost" /\ s = r - 1
      BY <2>1 DEF LostSame
    <3> QED
      BY <1>6, <3>1, LessWork
  <2>2. CASE LostMoved(u)
    <3>1. hPc = "lost" /\ hPc' = "copyIp" /\ s = r
      BY <2>2 DEF LostMoved
    <3> QED
      BY <1>6, <3>1, LessWork
  <2>3. CASE LostAbsent(u)
    <3>1. hPc = "lost" /\ hPc' = "upload" /\ s = r
      BY <2>3 DEF LostAbsent
    <3> QED
      BY <1>6, <3>1, LessWork
  <2>4. CASE NewExisted(u)
    <3>1. hPc = "new" /\ hPc' = "new" /\ s = r - 1
      BY <2>4 DEF NewExisted
    <3> QED
      BY <1>6, <3>1, LessWork
  <2>5. CASE NewInsert(u)
    <3>1. hPc = "new" /\ hPc' = "connect" /\ s = r
      BY <2>5 DEF NewInsert
    <3> QED
      BY <1>6, <3>1, LessWork
  <2> QED
    BY <1>9, <2>1, <2>2, <2>3, <2>4, <2>5 DEF HandlerWalk
<1>10. ASSUME NEW f \in Fds, LostReconnect(f) \/ NewConnect(f) PROVE HandlerWork' < HandlerWork
  <2>1. CASE LostReconnect(f)
    <3>1. hPc = "reconnect" /\ hPc' = "lost" /\ s = r - 1
      BY <2>1 DEF LostReconnect
    <3> QED
      BY <1>6, <3>1, LessWork
  <2>2. CASE NewConnect(f)
    <3>1. hPc = "connect" /\ hPc' = "new" /\ s = r - 1
      BY <2>2 DEF NewConnect
    <3> QED
      BY <1>6, <3>1, LessWork
  <2> QED
    BY <1>10, <2>1, <2>2
<1>11. CASE ConnectFails \/ LostNextGarbage \/ WalkOffEnd
  BY <1>5, <1>11 DEF ConnectFails, LostNextGarbage, WalkOffEnd
<1>12. CASE LostDrop \/ LostNext \/ LostCopyIp \/ LostUnlock
  <2>1. CASE LostDrop
    <3>1. hPc = "drop" /\ hPc' = "next" /\ s = r
      BY <2>1 DEF LostDrop
    <3> QED
      BY <1>6, <3>1, LessWork
  <2>2. CASE LostNext
    <3>1. hPc = "next" /\ hPc' = "lost" /\ s = r - 1
      BY <2>2 DEF LostNext
    <3> QED
      BY <1>6, <3>1, LessWork
  <2>3. CASE LostCopyIp
    <3>1. hPc = "copyIp" /\ hPc' = "reconnect" /\ s = r
      BY <2>3 DEF LostCopyIp
    <3> QED
      BY <1>6, <3>1, LessWork
  <2>4. CASE LostUnlock
    <3>1. hPc = "lost" /\ hPc' = "lockNew"
      BY <2>4 DEF LostUnlock
    <3> QED
      BY <1>6, <3>1, LessWork
  <2> QED
    BY <1>12, <2>1, <2>2, <2>3, <2>4
<1>13. CASE NewUnlock \/ Printed \/ Raise
  <2>1. CASE NewUnlock
    <3>1. hPc = "new" /\ hPc' = "print"
      BY <2>1 DEF NewUnlock
    <3> QED
      BY <1>6, <3>1, LessWork
  <2>2. CASE Printed
    <3>1. hPc = "print" /\ hPc' = "raise" /\ s = r
      BY <2>2 DEF Printed
    <3> QED
      BY <1>6, <3>1, LessWork
  <2>3. CASE Raise
    <3>1. hPc = "raise" /\ hPc' = "idle"
      BY <2>3 DEF Raise
    <3> QED
      BY <1>6, <3>1, LessWork
  <2> QED
    BY <1>13, <2>1, <2>2, <2>3
<1>14. CASE LostLock \/ LostUpload \/ NewLock
  <2>1. CASE LostLock
    <3>1. hPc = "lockLost" /\ hPc' = "lost" /\ s = n
      BY <2>1 DEF LostLock
    <3> QED
      BY <1>6, <3>1, LessWork
  <2>2. CASE LostUpload
    <3>1. hPc = "upload" /\ hPc' = "drop" /\ s = r
      BY <2>2 DEF LostUpload
    <3> QED
      BY <1>6, <3>1, LessWork
  <2>3. CASE NewLock
    <3>1. hPc = "lockNew" /\ hPc' = "new"
      BY <2>3 DEF NewLock
    <3> QED
      BY <1>6, <3>1, LessWork
  <2> QED
    BY <1>14, <2>1, <2>2, <2>3
<1> QED
  BY <1>7, <1>8, <1>9, <1>10, <1>11, <1>12, <1>13, <1>14
     DEF Next, Alarm, HandlerStep, HandlerConnect, HandlerLock

\* The handler comes to its end: there are finitely many modules, each of its steps uses
\* up some of its work, and no beacon, thread or alarm adds to it (itach.c:114-179).
THEOREM HandlerComesToEnd ==
  ASSUME IsFiniteSet(Modules)
  PROVE  Spec => HandlerEnds
<1>1. IInv /\ [Next]_vars =>
        [HandlerRuns => HandlerWork' < HandlerWork \/ UNCHANGED <<life, hPc, cur, walked>>]_vars
  BY WorkStep
<1> QED
  BY <1>1, Invariance, PTL DEF Spec, HandlerEnds
=============================================================================
