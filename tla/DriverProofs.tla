---------------------------- MODULE DriverProofs ----------------------------
(***************************************************************************)
(* For any modules, addresses, nodes and descriptors: DInv is inductive,   *)
(* so the table stays sound and commands go where the table has their      *)
(* modules, although main and the handler use the same nodes at the same   *)
(* time.                                                                   *)
(***************************************************************************)
EXTENDS Driver, TLAPS

\* Nothing is listed, nothing is open.
LEMMA InitDInv == Init => DInv
<1> SUFFICES ASSUME Init PROVE DInv OBVIOUS
<1>1. TypeOK BY DEF Init, TypeOK, Memory
<1>2. PlaceInv /\ KeptInv /\ RedialInv /\ MovedInv /\ TableSound /\ AskInv /\ AwaitedWhereAsked
  BY DEF Init, PlaceInv, KeptInv, RedialInv, MovedInv, TableSound, AskInv,
         AwaitedWhereAsked
<1> QED BY <1>1, <1>2 DEF DInv

\* Nodes hold descriptors, and main holds a node while it serves.
LEMMA TypeOKStep == DInv /\ [Next]_vars => TypeOK'
<1> SUFFICES ASSUME DInv, [Next]_vars PROVE TypeOK'
  OBVIOUS
<1> USE NoAssumption DEF DInv
<1>1. ASSUME NEW n \in Nodes, GetItach(n) PROVE TypeOK'
  BY <1>1 DEF GetItach, MainGoto, tabVars, hVars, mainVars, TypeOK, Memory, PlaceInv
<1>2. CASE Send
  BY <1>2 DEF Send, MainGoto, Uses, tabVars, hVars, mainVars, TypeOK, Memory, PlaceInv
<1>3. CASE SendKilled
  BY <1>3 DEF SendKilled, tabVars, hVars, mainVars, TypeOK, Memory, PlaceInv
<1>4. CASE CallRecv
  BY <1>4 DEF CallRecv, MainGoto, Uses, tabVars, hVars, mainVars, TypeOK, Memory, PlaceInv
<1>5. CASE Recv
  BY <1>5 DEF Recv, MainGoto, Return, tabVars, hVars, mainVars, TypeOK, Memory, PlaceInv
<1>6. CASE Close
  BY <1>6 DEF Close, CloseFd, Uses, tabVars, hVars, mainVars, TypeOK, Memory, PlaceInv
<1>7. ASSUME NEW f \in Fds, Redial(f) PROVE TypeOK'
  BY <1>7 DEF Redial, MainGoto, Connect, Return, tabVars, hVars, mainVars, TypeOK, Memory,
     PlaceInv
<1>8. CASE Fire
  BY <1>8 DEF Fire, HandlerGoto, tabVars, hVars, mainVars, TypeOK, Memory, PlaceInv
<1>9. ASSUME NEW n \in Nodes, LostSame(n) PROVE TypeOK'
  BY <1>9 DEF LostSame, HandlerGoto, Pass, tabVars, hVars, mainVars, TypeOK, Memory, PlaceInv
<1>10. ASSUME NEW n \in Nodes, NEW a \in Ips, LostMoved(n, a) PROVE TypeOK'
  BY <1>10 DEF LostMoved, HandlerGoto, Pass, Hits, Touches, tabVars, hVars, mainVars, TypeOK,
     Memory, PlaceInv
<1>11. CASE LostClose
  BY <1>11 DEF LostClose, HandlerGoto, CloseFd, tabVars, hVars, mainVars, TypeOK, Memory,
     PlaceInv
<1>12. ASSUME NEW f \in Fds, LostRedial(f) PROVE TypeOK'
  BY <1>12 DEF LostRedial, HandlerGoto, Connect, tabVars, hVars, mainVars, TypeOK, Memory,
     PlaceInv
<1>13. ASSUME NEW n \in Nodes, LostAbsent(n) PROVE TypeOK'
  BY <1>13 DEF LostAbsent, HandlerGoto, Pass, Hits, Touches, tabVars, hVars, mainVars,
     TypeOK, Memory, PlaceInv
<1>14. CASE LostUnlock
  BY <1>14 DEF LostUnlock, HandlerGoto, tabVars, hVars, mainVars, TypeOK, Memory, PlaceInv
<1>15. CASE NewLock
  BY <1>15 DEF NewLock, HandlerGoto, tabVars, hVars, mainVars, TypeOK, Memory, PlaceInv
<1>16. ASSUME NEW n \in Nodes, NEW a \in Ips, NEW u \in Modules, NewInsert(u, a, n)
       PROVE  TypeOK'
  BY <1>16 DEF NewInsert, HandlerGoto, tabVars, hVars, mainVars, TypeOK, Memory, PlaceInv
<1>17. ASSUME NEW f \in Fds, NewConnect(f) PROVE TypeOK'
  BY <1>17 DEF NewConnect, HandlerGoto, Connect, tabVars, hVars, mainVars, TypeOK, Memory,
     PlaceInv
<1>18. CASE NewUnlock
  BY <1>18 DEF NewUnlock, HandlerGoto, tabVars, hVars, mainVars, TypeOK, Memory, PlaceInv
<1>19. CASE ConnectFails
  BY <1>19 DEF ConnectFails, tabVars, hVars, mainVars, TypeOK, Memory, PlaceInv
<1>20. CASE Overwritten
  BY <1>20 DEF Overwritten, tabVars, hVars, mainVars, TypeOK, Memory, PlaceInv
<1>21. CASE UNCHANGED vars
  BY <1>21 DEF vars, tabVars, hVars, mainVars, TypeOK, Memory, PlaceInv
<1> QED
  BY <1>1, <1>2, <1>3, <1>4, <1>5, <1>6, <1>7, <1>8, <1>9, <1>10, <1>11, <1>12, <1>13, <1>14,
     <1>15, <1>16, <1>17, <1>18, <1>19, <1>20, <1>21
  DEF Next, MainStep, Walk, Dialled

\* The walk passes listed nodes, and what is dialled is listed.
LEMMA PlaceInvStep == DInv /\ [Next]_vars => PlaceInv'
<1> SUFFICES ASSUME DInv, [Next]_vars PROVE PlaceInv'
  OBVIOUS
<1> USE NoAssumption DEF DInv
<1>1. ASSUME NEW n \in Nodes, GetItach(n) PROVE PlaceInv'
  BY <1>1 DEF GetItach, MainGoto, tabVars, hVars, mainVars, PlaceInv, TypeOK, Memory
<1>2. CASE Send
  BY <1>2 DEF Send, MainGoto, Uses, tabVars, hVars, mainVars, PlaceInv, TypeOK, Memory
<1>3. CASE SendKilled
  BY <1>3 DEF SendKilled, tabVars, hVars, mainVars, PlaceInv, TypeOK, Memory
<1>4. CASE CallRecv
  BY <1>4 DEF CallRecv, MainGoto, Uses, tabVars, hVars, mainVars, PlaceInv, TypeOK, Memory
<1>5. CASE Recv
  BY <1>5 DEF Recv, MainGoto, Return, tabVars, hVars, mainVars, PlaceInv, TypeOK, Memory
<1>6. CASE Close
  BY <1>6 DEF Close, CloseFd, Uses, tabVars, hVars, mainVars, PlaceInv, TypeOK, Memory
<1>7. ASSUME NEW f \in Fds, Redial(f) PROVE PlaceInv'
  BY <1>7 DEF Redial, MainGoto, Connect, Return, tabVars, hVars, mainVars, PlaceInv, TypeOK,
     Memory
<1>8. CASE Fire
  BY <1>8 DEF Fire, HandlerGoto, tabVars, hVars, mainVars, PlaceInv, TypeOK, Memory
<1>9. ASSUME NEW n \in Nodes, LostSame(n) PROVE PlaceInv'
  BY <1>9 DEF LostSame, HandlerGoto, Pass, tabVars, hVars, mainVars, PlaceInv, TypeOK, Memory
<1>10. ASSUME NEW n \in Nodes, NEW a \in Ips, LostMoved(n, a) PROVE PlaceInv'
  BY <1>10 DEF LostMoved, HandlerGoto, Pass, Hits, Touches, tabVars, hVars, mainVars,
     PlaceInv, TypeOK, Memory
<1>11. CASE LostClose
  BY <1>11 DEF LostClose, HandlerGoto, CloseFd, tabVars, hVars, mainVars, PlaceInv, TypeOK,
     Memory
<1>12. ASSUME NEW f \in Fds, LostRedial(f) PROVE PlaceInv'
  BY <1>12 DEF LostRedial, HandlerGoto, Connect, tabVars, hVars, mainVars, PlaceInv, TypeOK,
     Memory
<1>13. ASSUME NEW n \in Nodes, LostAbsent(n) PROVE PlaceInv'
  BY <1>13 DEF LostAbsent, HandlerGoto, Pass, Hits, Touches, tabVars, hVars, mainVars,
     PlaceInv, TypeOK, Memory
<1>14. CASE LostUnlock
  BY <1>14 DEF LostUnlock, HandlerGoto, tabVars, hVars, mainVars, PlaceInv, TypeOK, Memory
<1>15. CASE NewLock
  BY <1>15 DEF NewLock, HandlerGoto, tabVars, hVars, mainVars, PlaceInv, TypeOK, Memory
<1>16. ASSUME NEW n \in Nodes, NEW a \in Ips, NEW u \in Modules, NewInsert(u, a, n)
       PROVE  PlaceInv'
  BY <1>16 DEF NewInsert, HandlerGoto, tabVars, hVars, mainVars, PlaceInv, TypeOK, Memory
<1>17. ASSUME NEW f \in Fds, NewConnect(f) PROVE PlaceInv'
  BY <1>17 DEF NewConnect, HandlerGoto, Connect, tabVars, hVars, mainVars, PlaceInv, TypeOK,
     Memory
<1>18. CASE NewUnlock
  BY <1>18 DEF NewUnlock, HandlerGoto, tabVars, hVars, mainVars, PlaceInv, TypeOK, Memory
<1>19. CASE ConnectFails
  BY <1>19 DEF ConnectFails, tabVars, hVars, mainVars, PlaceInv, TypeOK, Memory
<1>20. CASE Overwritten
  BY <1>20 DEF Overwritten, tabVars, hVars, mainVars, PlaceInv, TypeOK, Memory
<1>21. CASE UNCHANGED vars
  BY <1>21 DEF vars, tabVars, hVars, mainVars, PlaceInv, TypeOK, Memory
<1> QED
  BY <1>1, <1>2, <1>3, <1>4, <1>5, <1>6, <1>7, <1>8, <1>9, <1>10, <1>11, <1>12, <1>13, <1>14,
     <1>15, <1>16, <1>17, <1>18, <1>19, <1>20, <1>21
  DEF Next, MainStep, Walk, Dialled

\* The node main keeps stays its module's until it is lost.
LEMMA KeptInvStep == DInv /\ [Next]_vars => KeptInv'
<1> SUFFICES ASSUME DInv, [Next]_vars PROVE KeptInv'
  OBVIOUS
<1> USE NoAssumption DEF DInv
<1>1. ASSUME NEW n \in Nodes, GetItach(n) PROVE KeptInv'
  BY <1>1 DEF GetItach, MainGoto, tabVars, hVars, mainVars, KeptInv, RedialInv, PlaceInv,
     TypeOK, Memory
<1>2. CASE Send
  BY <1>2 DEF Send, MainGoto, Uses, tabVars, hVars, mainVars, KeptInv, RedialInv, PlaceInv,
     TypeOK, Memory
<1>3. CASE SendKilled
  BY <1>3 DEF SendKilled, tabVars, hVars, mainVars, KeptInv, RedialInv, PlaceInv, TypeOK,
     Memory
<1>4. CASE CallRecv
  BY <1>4 DEF CallRecv, MainGoto, Uses, tabVars, hVars, mainVars, KeptInv, RedialInv,
     PlaceInv, TypeOK, Memory
<1>5. CASE Recv
  BY <1>5 DEF Recv, MainGoto, Return, tabVars, hVars, mainVars, KeptInv, RedialInv, PlaceInv,
     TypeOK, Memory
<1>6. CASE Close
  BY <1>6 DEF Close, CloseFd, Uses, tabVars, hVars, mainVars, KeptInv, RedialInv, PlaceInv,
     TypeOK, Memory
<1>7. ASSUME NEW f \in Fds, Redial(f) PROVE KeptInv'
  BY <1>7 DEF Redial, MainGoto, Connect, Return, tabVars, hVars, mainVars, KeptInv,
     RedialInv, PlaceInv, TypeOK, Memory
<1>8. CASE Fire
  BY <1>8 DEF Fire, HandlerGoto, tabVars, hVars, mainVars, KeptInv, RedialInv, PlaceInv,
     TypeOK, Memory
<1>9. ASSUME NEW n \in Nodes, LostSame(n) PROVE KeptInv'
  BY <1>9 DEF LostSame, HandlerGoto, Pass, tabVars, hVars, mainVars, KeptInv, RedialInv,
     PlaceInv, TypeOK, Memory
<1>10. ASSUME NEW n \in Nodes, NEW a \in Ips, LostMoved(n, a) PROVE KeptInv'
  BY <1>10, ZenonT(60) DEF LostMoved, HandlerGoto, Pass, Hits, Touches, tabVars, hVars, mainVars,
     KeptInv, RedialInv, PlaceInv, TypeOK, Memory
<1>11. CASE LostClose
  BY <1>11 DEF LostClose, HandlerGoto, CloseFd, tabVars, hVars, mainVars, KeptInv, RedialInv,
     PlaceInv, TypeOK, Memory
<1>12. ASSUME NEW f \in Fds, LostRedial(f) PROVE KeptInv'
  BY <1>12 DEF LostRedial, HandlerGoto, Connect, tabVars, hVars, mainVars, KeptInv,
     RedialInv, PlaceInv, TypeOK, Memory
<1>13. ASSUME NEW n \in Nodes, LostAbsent(n) PROVE KeptInv'
  BY <1>13 DEF LostAbsent, HandlerGoto, Pass, Hits, Touches, tabVars, hVars, mainVars,
     KeptInv, RedialInv, PlaceInv, TypeOK, Memory
<1>14. CASE LostUnlock
  BY <1>14 DEF LostUnlock, HandlerGoto, tabVars, hVars, mainVars, KeptInv, RedialInv,
     PlaceInv, TypeOK, Memory
<1>15. CASE NewLock
  BY <1>15 DEF NewLock, HandlerGoto, tabVars, hVars, mainVars, KeptInv, RedialInv, PlaceInv,
     TypeOK, Memory
<1>16. ASSUME NEW n \in Nodes, NEW a \in Ips, NEW u \in Modules, NewInsert(u, a, n)
       PROVE  KeptInv'
  BY <1>16 DEF NewInsert, HandlerGoto, tabVars, hVars, mainVars, KeptInv, RedialInv,
     PlaceInv, TypeOK, Memory
<1>17. ASSUME NEW f \in Fds, NewConnect(f) PROVE KeptInv'
  BY <1>17 DEF NewConnect, HandlerGoto, Connect, tabVars, hVars, mainVars, KeptInv,
     RedialInv, PlaceInv, TypeOK, Memory
<1>18. CASE NewUnlock
  BY <1>18 DEF NewUnlock, HandlerGoto, tabVars, hVars, mainVars, KeptInv, RedialInv,
     PlaceInv, TypeOK, Memory
<1>19. CASE ConnectFails
  BY <1>19 DEF ConnectFails, tabVars, hVars, mainVars, KeptInv, RedialInv, PlaceInv, TypeOK,
     Memory
<1>20. CASE Overwritten
  BY <1>20 DEF Overwritten, tabVars, hVars, mainVars, KeptInv, RedialInv, PlaceInv, TypeOK,
     Memory
<1>21. CASE UNCHANGED vars
  BY <1>21 DEF vars, tabVars, hVars, mainVars, KeptInv, RedialInv, PlaceInv, TypeOK, Memory
<1> QED
  BY <1>1, <1>2, <1>3, <1>4, <1>5, <1>6, <1>7, <1>8, <1>9, <1>10, <1>11, <1>12, <1>13, <1>14,
     <1>15, <1>16, <1>17, <1>18, <1>19, <1>20, <1>21
  DEF Next, MainStep, Walk, Dialled

\* A node under the handler's connect() has a closed descriptor.
LEMMA RedialInvStep == DInv /\ [Next]_vars => RedialInv'
<1> SUFFICES ASSUME DInv, [Next]_vars PROVE RedialInv'
  OBVIOUS
<1> USE NoAssumption DEF DInv
<1>1. ASSUME NEW n \in Nodes, GetItach(n) PROVE RedialInv'
  BY <1>1 DEF GetItach, MainGoto, tabVars, hVars, mainVars, RedialInv, PlaceInv, KeptInv,
     TypeOK, Memory
<1>2. CASE Send
  BY <1>2 DEF Send, MainGoto, Uses, tabVars, hVars, mainVars, RedialInv, PlaceInv, KeptInv,
     TypeOK, Memory
<1>3. CASE SendKilled
  BY <1>3 DEF SendKilled, tabVars, hVars, mainVars, RedialInv, PlaceInv, KeptInv, TypeOK,
     Memory
<1>4. CASE CallRecv
  BY <1>4 DEF CallRecv, MainGoto, Uses, tabVars, hVars, mainVars, RedialInv, PlaceInv,
     KeptInv, TypeOK, Memory
<1>5. CASE Recv
  BY <1>5 DEF Recv, MainGoto, Return, tabVars, hVars, mainVars, RedialInv, PlaceInv, KeptInv,
     TypeOK, Memory
<1>6. CASE Close
  BY <1>6 DEF Close, CloseFd, Uses, tabVars, hVars, mainVars, RedialInv, PlaceInv, KeptInv,
     TypeOK, Memory
<1>7. ASSUME NEW f \in Fds, Redial(f) PROVE RedialInv'
  BY <1>7 DEF Redial, MainGoto, Connect, Return, tabVars, hVars, mainVars, RedialInv,
     PlaceInv, KeptInv, TypeOK, Memory
<1>8. CASE Fire
  BY <1>8 DEF Fire, HandlerGoto, tabVars, hVars, mainVars, RedialInv, PlaceInv, KeptInv,
     TypeOK, Memory
<1>9. ASSUME NEW n \in Nodes, LostSame(n) PROVE RedialInv'
  BY <1>9 DEF LostSame, HandlerGoto, Pass, tabVars, hVars, mainVars, RedialInv, PlaceInv,
     KeptInv, TypeOK, Memory
<1>10. ASSUME NEW n \in Nodes, NEW a \in Ips, LostMoved(n, a) PROVE RedialInv'
  BY <1>10 DEF LostMoved, HandlerGoto, Pass, Hits, Touches, tabVars, hVars, mainVars,
     RedialInv, PlaceInv, KeptInv, TypeOK, Memory
<1>11. CASE LostClose
  BY <1>11 DEF LostClose, HandlerGoto, CloseFd, tabVars, hVars, mainVars, RedialInv,
     PlaceInv, KeptInv, TypeOK, Memory
<1>12. ASSUME NEW f \in Fds, LostRedial(f) PROVE RedialInv'
  BY <1>12 DEF LostRedial, HandlerGoto, Connect, tabVars, hVars, mainVars, RedialInv,
     PlaceInv, KeptInv, TypeOK, Memory
<1>13. ASSUME NEW n \in Nodes, LostAbsent(n) PROVE RedialInv'
  BY <1>13 DEF LostAbsent, HandlerGoto, Pass, Hits, Touches, tabVars, hVars, mainVars,
     RedialInv, PlaceInv, KeptInv, TypeOK, Memory
<1>14. CASE LostUnlock
  BY <1>14 DEF LostUnlock, HandlerGoto, tabVars, hVars, mainVars, RedialInv, PlaceInv,
     KeptInv, TypeOK, Memory
<1>15. CASE NewLock
  BY <1>15 DEF NewLock, HandlerGoto, tabVars, hVars, mainVars, RedialInv, PlaceInv, KeptInv,
     TypeOK, Memory
<1>16. ASSUME NEW n \in Nodes, NEW a \in Ips, NEW u \in Modules, NewInsert(u, a, n)
       PROVE  RedialInv'
  BY <1>16 DEF NewInsert, HandlerGoto, tabVars, hVars, mainVars, RedialInv, PlaceInv,
     KeptInv, TypeOK, Memory
<1>17. ASSUME NEW f \in Fds, NewConnect(f) PROVE RedialInv'
  BY <1>17 DEF NewConnect, HandlerGoto, Connect, tabVars, hVars, mainVars, RedialInv,
     PlaceInv, KeptInv, TypeOK, Memory
<1>18. CASE NewUnlock
  BY <1>18 DEF NewUnlock, HandlerGoto, tabVars, hVars, mainVars, RedialInv, PlaceInv,
     KeptInv, TypeOK, Memory
<1>19. CASE ConnectFails
  BY <1>19 DEF ConnectFails, tabVars, hVars, mainVars, RedialInv, PlaceInv, KeptInv, TypeOK,
     Memory
<1>20. CASE Overwritten
  BY <1>20 DEF Overwritten, tabVars, hVars, mainVars, RedialInv, PlaceInv, KeptInv, TypeOK,
     Memory
<1>21. CASE UNCHANGED vars
  BY <1>21 DEF vars, tabVars, hVars, mainVars, RedialInv, PlaceInv, KeptInv, TypeOK, Memory
<1> QED
  BY <1>1, <1>2, <1>3, <1>4, <1>5, <1>6, <1>7, <1>8, <1>9, <1>10, <1>11, <1>12, <1>13, <1>14,
     <1>15, <1>16, <1>17, <1>18, <1>19, <1>20, <1>21
  DEF Next, MainStep, Walk, Dialled

\* A node that has got a new address still has the connection to the old one.
LEMMA MovedInvStep == DInv /\ [Next]_vars => MovedInv'
<1> SUFFICES ASSUME DInv, [Next]_vars PROVE MovedInv'
  OBVIOUS
<1> USE NoAssumption DEF DInv
<1>1. ASSUME NEW n \in Nodes, GetItach(n) PROVE MovedInv'
  BY <1>1 DEF GetItach, MainGoto, tabVars, hVars, mainVars, MovedInv, TableSound, Dialling,
     RedialInv, PlaceInv, KeptInv, TypeOK, Memory
<1>2. CASE Send
  BY <1>2 DEF Send, MainGoto, Uses, tabVars, hVars, mainVars, MovedInv, TableSound, Dialling,
     RedialInv, PlaceInv, KeptInv, TypeOK, Memory
<1>3. CASE SendKilled
  BY <1>3 DEF SendKilled, tabVars, hVars, mainVars, MovedInv, TableSound, Dialling,
     RedialInv, PlaceInv, KeptInv, TypeOK, Memory
<1>4. CASE CallRecv
  BY <1>4 DEF CallRecv, MainGoto, Uses, tabVars, hVars, mainVars, MovedInv, TableSound,
     Dialling, RedialInv, PlaceInv, KeptInv, TypeOK, Memory
<1>5. CASE Recv
  BY <1>5 DEF Recv, MainGoto, Return, tabVars, hVars, mainVars, MovedInv, TableSound,
     Dialling, RedialInv, PlaceInv, KeptInv, TypeOK, Memory
<1>6. CASE Close
  BY <1>6 DEF Close, CloseFd, Uses, tabVars, hVars, mainVars, MovedInv, TableSound, Dialling,
     RedialInv, PlaceInv, KeptInv, TypeOK, Memory
<1>7. ASSUME NEW f \in Fds, Redial(f) PROVE MovedInv'
  BY <1>7 DEF Redial, MainGoto, Connect, Return, tabVars, hVars, mainVars, MovedInv,
     TableSound, Dialling, RedialInv, PlaceInv, KeptInv, TypeOK, Memory
<1>8. CASE Fire
  BY <1>8 DEF Fire, HandlerGoto, tabVars, hVars, mainVars, MovedInv, TableSound, Dialling,
     RedialInv, PlaceInv, KeptInv, TypeOK, Memory
<1>9. ASSUME NEW n \in Nodes, LostSame(n) PROVE MovedInv'
  BY <1>9 DEF LostSame, HandlerGoto, Pass, tabVars, hVars, mainVars, MovedInv, TableSound,
     Dialling, RedialInv, PlaceInv, KeptInv, TypeOK, Memory
<1>10. ASSUME NEW n \in Nodes, NEW a \in Ips, LostMoved(n, a) PROVE MovedInv'
  <2> SUFFICES ASSUME apart' PROVE MovedInv' BY DEF MovedInv
  <2>1. hPc = "lost" /\ n \in head /\ cur' = n /\ apart /\ ~Dialling(n)
    BY <1>10 DEF LostMoved, HandlerGoto, Pass, Touches, PlaceInv, Dialling, TypeOK
  <2>2. /\ node[n].fd \in Fds /\ sock[node[n].fd] = node[n].ip
        /\ \A m \in head \ {n} : ~Dialling(m) => node[m].fd # node[n].fd
    BY <2>1 DEF TableSound
  <2>3. head' = head /\ sock' = sock /\ \A m \in Nodes : node'[m].fd = node[m].fd
    BY <1>10 DEF LostMoved, TypeOK, Memory
  <2>4. \A m \in head \ {n} : ~Dialling(m)' => ~Dialling(m)
    BY <1>10, <2>1 DEF LostMoved, HandlerGoto, Dialling, mainVars
  <2>5. node[n].ip # NoIp BY <2>1 DEF PlaceInv
  <2> QED BY <2>1, <2>2, <2>3, <2>4, <2>5 DEF MovedInv, TypeOK
<1>11. CASE LostClose
  BY <1>11 DEF LostClose, HandlerGoto, CloseFd, tabVars, hVars, mainVars, MovedInv,
     TableSound, Dialling, RedialInv, PlaceInv, KeptInv, TypeOK, Memory
<1>12. ASSUME NEW f \in Fds, LostRedial(f) PROVE MovedInv'
  BY <1>12 DEF LostRedial, HandlerGoto, Connect, tabVars, hVars, mainVars, MovedInv,
     TableSound, Dialling, RedialInv, PlaceInv, KeptInv, TypeOK, Memory
<1>13. ASSUME NEW n \in Nodes, LostAbsent(n) PROVE MovedInv'
  BY <1>13 DEF LostAbsent, HandlerGoto, Pass, Hits, Touches, tabVars, hVars, mainVars,
     MovedInv, TableSound, Dialling, RedialInv, PlaceInv, KeptInv, TypeOK, Memory
<1>14. CASE LostUnlock
  BY <1>14 DEF LostUnlock, HandlerGoto, tabVars, hVars, mainVars, MovedInv, TableSound,
     Dialling, RedialInv, PlaceInv, KeptInv, TypeOK, Memory
<1>15. CASE NewLock
  BY <1>15 DEF NewLock, HandlerGoto, tabVars, hVars, mainVars, MovedInv, TableSound,
     Dialling, RedialInv, PlaceInv, KeptInv, TypeOK, Memory
<1>16. ASSUME NEW n \in Nodes, NEW a \in Ips, NEW u \in Modules, NewInsert(u, a, n)
       PROVE  MovedInv'
  BY <1>16 DEF NewInsert, HandlerGoto, tabVars, hVars, mainVars, MovedInv, TableSound,
     Dialling, RedialInv, PlaceInv, KeptInv, TypeOK, Memory
<1>17. ASSUME NEW f \in Fds, NewConnect(f) PROVE MovedInv'
  BY <1>17 DEF NewConnect, HandlerGoto, Connect, tabVars, hVars, mainVars, MovedInv,
     TableSound, Dialling, RedialInv, PlaceInv, KeptInv, TypeOK, Memory
<1>18. CASE NewUnlock
  BY <1>18 DEF NewUnlock, HandlerGoto, tabVars, hVars, mainVars, MovedInv, TableSound,
     Dialling, RedialInv, PlaceInv, KeptInv, TypeOK, Memory
<1>19. CASE ConnectFails
  BY <1>19 DEF ConnectFails, tabVars, hVars, mainVars, MovedInv, TableSound, Dialling,
     RedialInv, PlaceInv, KeptInv, TypeOK, Memory
<1>20. CASE Overwritten
  BY <1>20 DEF Overwritten, tabVars, hVars, mainVars, MovedInv, TableSound, Dialling,
     RedialInv, PlaceInv, KeptInv, TypeOK, Memory
<1>21. CASE UNCHANGED vars
  BY <1>21 DEF vars, tabVars, hVars, mainVars, MovedInv, TableSound, Dialling, RedialInv,
     PlaceInv, KeptInv, TypeOK, Memory
<1> QED
  BY <1>1, <1>2, <1>3, <1>4, <1>5, <1>6, <1>7, <1>8, <1>9, <1>10, <1>11, <1>12, <1>13, <1>14,
     <1>15, <1>16, <1>17, <1>18, <1>19, <1>20, <1>21
  DEF Next, MainStep, Walk, Dialled

\* Whoever dials takes a closed descriptor, and whoever closes, his own.
LEMMA TableSoundStep == DInv /\ [Next]_vars => TableSound'
<1> SUFFICES ASSUME DInv, [Next]_vars PROVE TableSound'
  OBVIOUS
<1> USE NoAssumption DEF DInv
<1>1. ASSUME NEW n \in Nodes, GetItach(n) PROVE TableSound'
  BY <1>1 DEF GetItach, MainGoto, tabVars, hVars, mainVars, TableSound, MovedInv, Dialling,
     PlaceInv, KeptInv, TypeOK, Memory
<1>2. CASE Send
  BY <1>2 DEF Send, MainGoto, Uses, tabVars, hVars, mainVars, TableSound, MovedInv, Dialling,
     PlaceInv, KeptInv, TypeOK, Memory
<1>3. CASE SendKilled
  BY <1>3 DEF SendKilled, tabVars, hVars, mainVars, TableSound, MovedInv, Dialling, PlaceInv,
     KeptInv, TypeOK, Memory
<1>4. CASE CallRecv
  BY <1>4 DEF CallRecv, MainGoto, Uses, tabVars, hVars, mainVars, TableSound, MovedInv,
     Dialling, PlaceInv, KeptInv, TypeOK, Memory
<1>5. CASE Recv
  BY <1>5 DEF Recv, MainGoto, Return, tabVars, hVars, mainVars, TableSound, MovedInv,
     Dialling, PlaceInv, KeptInv, TypeOK, Memory
<1>6. CASE Close
  BY <1>6, ZenonT(60)
  DEF Close, CloseFd, Uses, tabVars, hVars, mainVars, TableSound, MovedInv, Dialling,
     PlaceInv, KeptInv, TypeOK, Memory
<1>7. ASSUME NEW f \in Fds, Redial(f) PROVE TableSound'
  BY <1>7 DEF Redial, MainGoto, Connect, Return, tabVars, hVars, mainVars, TableSound,
     MovedInv, Dialling, PlaceInv, KeptInv, TypeOK, Memory
<1>8. CASE Fire
  BY <1>8 DEF Fire, HandlerGoto, tabVars, hVars, mainVars, TableSound, MovedInv, Dialling,
     PlaceInv, KeptInv, TypeOK, Memory
<1>9. ASSUME NEW n \in Nodes, LostSame(n) PROVE TableSound'
  BY <1>9 DEF LostSame, HandlerGoto, Pass, tabVars, hVars, mainVars, TableSound, MovedInv,
     Dialling, PlaceInv, KeptInv, TypeOK, Memory
<1>10. ASSUME NEW n \in Nodes, NEW a \in Ips, LostMoved(n, a) PROVE TableSound'
  BY <1>10 DEF LostMoved, HandlerGoto, Pass, Hits, Touches, tabVars, hVars, mainVars,
     TableSound, MovedInv, Dialling, PlaceInv, KeptInv, TypeOK, Memory
<1>11. CASE LostClose
  BY <1>11 DEF LostClose, HandlerGoto, CloseFd, tabVars, hVars, mainVars, TableSound,
     MovedInv, Dialling, PlaceInv, KeptInv, TypeOK, Memory
<1>12. ASSUME NEW f \in Fds, LostRedial(f) PROVE TableSound'
  BY <1>12 DEF LostRedial, HandlerGoto, Connect, tabVars, hVars, mainVars, TableSound,
     MovedInv, Dialling, PlaceInv, KeptInv, TypeOK, Memory
<1>13. ASSUME NEW n \in Nodes, LostAbsent(n) PROVE TableSound'
  BY <1>13 DEF LostAbsent, HandlerGoto, Pass, Hits, Touches, tabVars, hVars, mainVars,
     TableSound, MovedInv, Dialling, PlaceInv, KeptInv, TypeOK, Memory
<1>14. CASE LostUnlock
  BY <1>14 DEF LostUnlock, HandlerGoto, tabVars, hVars, mainVars, TableSound, MovedInv,
     Dialling, PlaceInv, KeptInv, TypeOK, Memory
<1>15. CASE NewLock
  BY <1>15 DEF NewLock, HandlerGoto, tabVars, hVars, mainVars, TableSound, MovedInv,
     Dialling, PlaceInv, KeptInv, TypeOK, Memory
<1>16. ASSUME NEW n \in Nodes, NEW a \in Ips, NEW u \in Modules, NewInsert(u, a, n)
       PROVE  TableSound'
  BY <1>16 DEF NewInsert, HandlerGoto, tabVars, hVars, mainVars, TableSound, MovedInv,
     Dialling, PlaceInv, KeptInv, TypeOK, Memory
<1>17. ASSUME NEW f \in Fds, NewConnect(f) PROVE TableSound'
  BY <1>17 DEF NewConnect, HandlerGoto, Connect, tabVars, hVars, mainVars, TableSound,
     MovedInv, Dialling, PlaceInv, KeptInv, TypeOK, Memory
<1>18. CASE NewUnlock
  BY <1>18 DEF NewUnlock, HandlerGoto, tabVars, hVars, mainVars, TableSound, MovedInv,
     Dialling, PlaceInv, KeptInv, TypeOK, Memory
<1>19. CASE ConnectFails
  BY <1>19 DEF ConnectFails, tabVars, hVars, mainVars, TableSound, MovedInv, Dialling,
     PlaceInv, KeptInv, TypeOK, Memory
<1>20. CASE Overwritten
  BY <1>20 DEF Overwritten, tabVars, hVars, mainVars, TableSound, MovedInv, Dialling,
     PlaceInv, KeptInv, TypeOK, Memory
<1>21. CASE UNCHANGED vars
  BY <1>21 DEF vars, tabVars, hVars, mainVars, TableSound, MovedInv, Dialling, PlaceInv,
     KeptInv, TypeOK, Memory
<1> QED
  BY <1>1, <1>2, <1>3, <1>4, <1>5, <1>6, <1>7, <1>8, <1>9, <1>10, <1>11, <1>12, <1>13, <1>14,
     <1>15, <1>16, <1>17, <1>18, <1>19, <1>20, <1>21
  DEF Next, MainStep, Walk, Dialled

\* Of what is under way, all but parts of answers is where main sent it.
LEMMA AskInvStep == DInv /\ [Next]_vars => AskInv'
<1> SUFFICES ASSUME DInv, [Next]_vars PROVE AskInv'
  OBVIOUS
<1> USE NoAssumption DEF DInv
<1>1. ASSUME NEW n \in Nodes, GetItach(n) PROVE AskInv'
  BY <1>1 DEF GetItach, MainGoto, tabVars, hVars, mainVars, AskInv, RedialInv, PlaceInv,
     KeptInv, TypeOK, Memory
<1>2. CASE Send
  BY <1>2 DEF Send, MainGoto, Uses, tabVars, hVars, mainVars, AskInv, RedialInv, PlaceInv,
     KeptInv, TypeOK, Memory
<1>3. CASE SendKilled
  BY <1>3 DEF SendKilled, tabVars, hVars, mainVars, AskInv, RedialInv, PlaceInv, KeptInv,
     TypeOK, Memory
<1>4. CASE CallRecv
  BY <1>4 DEF CallRecv, MainGoto, Uses, tabVars, hVars, mainVars, AskInv, RedialInv,
     PlaceInv, KeptInv, TypeOK, Memory
<1>5. CASE Recv
  BY <1>5 DEF Recv, MainGoto, Return, tabVars, hVars, mainVars, AskInv, RedialInv, PlaceInv,
     KeptInv, TypeOK, Memory
<1>6. CASE Close
  BY <1>6 DEF Close, CloseFd, Uses, tabVars, hVars, mainVars, AskInv, RedialInv, PlaceInv,
     KeptInv, TypeOK, Memory
<1>7. ASSUME NEW f \in Fds, Redial(f) PROVE AskInv'
  BY <1>7 DEF Redial, MainGoto, Connect, Return, tabVars, hVars, mainVars, AskInv, RedialInv,
     PlaceInv, KeptInv, TypeOK, Memory
<1>8. CASE Fire
  BY <1>8 DEF Fire, HandlerGoto, tabVars, hVars, mainVars, AskInv, RedialInv, PlaceInv,
     KeptInv, TypeOK, Memory
<1>9. ASSUME NEW n \in Nodes, LostSame(n) PROVE AskInv'
  BY <1>9 DEF LostSame, HandlerGoto, Pass, tabVars, hVars, mainVars, AskInv, RedialInv,
     PlaceInv, KeptInv, TypeOK, Memory
<1>10. ASSUME NEW n \in Nodes, NEW a \in Ips, LostMoved(n, a) PROVE AskInv'
  BY <1>10 DEF LostMoved, HandlerGoto, Pass, Hits, Touches, tabVars, hVars, mainVars, AskInv,
     RedialInv, PlaceInv, KeptInv, TypeOK, Memory
<1>11. CASE LostClose
  BY <1>11 DEF LostClose, HandlerGoto, CloseFd, tabVars, hVars, mainVars, AskInv, RedialInv,
     PlaceInv, KeptInv, TypeOK, Memory
<1>12. ASSUME NEW f \in Fds, LostRedial(f) PROVE AskInv'
  BY <1>12 DEF LostRedial, HandlerGoto, Connect, tabVars, hVars, mainVars, AskInv, RedialInv,
     PlaceInv, KeptInv, TypeOK, Memory
<1>13. ASSUME NEW n \in Nodes, LostAbsent(n) PROVE AskInv'
  BY <1>13 DEF LostAbsent, HandlerGoto, Pass, Hits, Touches, tabVars, hVars, mainVars,
     AskInv, RedialInv, PlaceInv, KeptInv, TypeOK, Memory
<1>14. CASE LostUnlock
  BY <1>14 DEF LostUnlock, HandlerGoto, tabVars, hVars, mainVars, AskInv, RedialInv,
     PlaceInv, KeptInv, TypeOK, Memory
<1>15. CASE NewLock
  BY <1>15 DEF NewLock, HandlerGoto, tabVars, hVars, mainVars, AskInv, RedialInv, PlaceInv,
     KeptInv, TypeOK, Memory
<1>16. ASSUME NEW n \in Nodes, NEW a \in Ips, NEW u \in Modules, NewInsert(u, a, n)
       PROVE  AskInv'
  BY <1>16 DEF NewInsert, HandlerGoto, tabVars, hVars, mainVars, AskInv, RedialInv, PlaceInv,
     KeptInv, TypeOK, Memory
<1>17. ASSUME NEW f \in Fds, NewConnect(f) PROVE AskInv'
  BY <1>17 DEF NewConnect, HandlerGoto, Connect, tabVars, hVars, mainVars, AskInv, RedialInv,
     PlaceInv, KeptInv, TypeOK, Memory
<1>18. CASE NewUnlock
  BY <1>18 DEF NewUnlock, HandlerGoto, tabVars, hVars, mainVars, AskInv, RedialInv, PlaceInv,
     KeptInv, TypeOK, Memory
<1>19. CASE ConnectFails
  BY <1>19 DEF ConnectFails, tabVars, hVars, mainVars, AskInv, RedialInv, PlaceInv, KeptInv,
     TypeOK, Memory
<1>20. CASE Overwritten
  BY <1>20 DEF Overwritten, tabVars, hVars, mainVars, AskInv, RedialInv, PlaceInv, KeptInv,
     TypeOK, Memory
<1>21. CASE UNCHANGED vars
  BY <1>21 DEF vars, tabVars, hVars, mainVars, AskInv, RedialInv, PlaceInv, KeptInv, TypeOK,
     Memory
<1> QED
  BY <1>1, <1>2, <1>3, <1>4, <1>5, <1>6, <1>7, <1>8, <1>9, <1>10, <1>11, <1>12, <1>13, <1>14,
     <1>15, <1>16, <1>17, <1>18, <1>19, <1>20, <1>21
  DEF Next, MainStep, Walk, Dialled

\* Only the handler can take the connection away from under recv().
LEMMA AwaitedWhereAskedStep == DInv /\ [Next]_vars => AwaitedWhereAsked'
<1> SUFFICES ASSUME DInv, [Next]_vars PROVE AwaitedWhereAsked'
  OBVIOUS
<1> USE NoAssumption DEF DInv
<1>1. ASSUME NEW n \in Nodes, GetItach(n) PROVE AwaitedWhereAsked'
  BY <1>1 DEF GetItach, MainGoto, tabVars, hVars, mainVars, AwaitedWhereAsked, TableSound,
     MovedInv, Dialling, RedialInv, AskInv, PlaceInv, KeptInv, TypeOK, Memory
<1>2. CASE Send
  BY <1>2 DEF Send, MainGoto, Uses, tabVars, hVars, mainVars, AwaitedWhereAsked, TableSound,
     MovedInv, Dialling, RedialInv, AskInv, PlaceInv, KeptInv, TypeOK, Memory
<1>3. CASE SendKilled
  BY <1>3 DEF SendKilled, tabVars, hVars, mainVars, AwaitedWhereAsked, TableSound, MovedInv,
     Dialling, RedialInv, AskInv, PlaceInv, KeptInv, TypeOK, Memory
<1>4. CASE CallRecv
  BY <1>4 DEF CallRecv, MainGoto, Uses, tabVars, hVars, mainVars, AwaitedWhereAsked,
     TableSound, MovedInv, Dialling, RedialInv, AskInv, PlaceInv, KeptInv, TypeOK, Memory
<1>5. CASE Recv
  BY <1>5 DEF Recv, MainGoto, Return, tabVars, hVars, mainVars, AwaitedWhereAsked,
     TableSound, MovedInv, Dialling, RedialInv, AskInv, PlaceInv, KeptInv, TypeOK, Memory
<1>6. CASE Close
  BY <1>6 DEF Close, CloseFd, Uses, tabVars, hVars, mainVars, AwaitedWhereAsked, TableSound,
     MovedInv, Dialling, RedialInv, AskInv, PlaceInv, KeptInv, TypeOK, Memory
<1>7. ASSUME NEW f \in Fds, Redial(f) PROVE AwaitedWhereAsked'
  BY <1>7 DEF Redial, MainGoto, Connect, Return, tabVars, hVars, mainVars, AwaitedWhereAsked,
     TableSound, MovedInv, Dialling, RedialInv, AskInv, PlaceInv, KeptInv, TypeOK, Memory
<1>8. CASE Fire
  BY <1>8 DEF Fire, HandlerGoto, tabVars, hVars, mainVars, AwaitedWhereAsked, TableSound,
     MovedInv, Dialling, RedialInv, AskInv, PlaceInv, KeptInv, TypeOK, Memory
<1>9. ASSUME NEW n \in Nodes, LostSame(n) PROVE AwaitedWhereAsked'
  BY <1>9 DEF LostSame, HandlerGoto, Pass, tabVars, hVars, mainVars, AwaitedWhereAsked,
     TableSound, MovedInv, Dialling, RedialInv, AskInv, PlaceInv, KeptInv, TypeOK, Memory
<1>10. ASSUME NEW n \in Nodes, NEW a \in Ips, LostMoved(n, a) PROVE AwaitedWhereAsked'
  BY <1>10 DEF LostMoved, HandlerGoto, Pass, Hits, Touches, tabVars, hVars, mainVars,
     AwaitedWhereAsked, TableSound, MovedInv, Dialling, RedialInv, AskInv, PlaceInv, KeptInv,
     TypeOK, Memory
<1>11. CASE LostClose
  BY <1>11 DEF LostClose, HandlerGoto, CloseFd, tabVars, hVars, mainVars, AwaitedWhereAsked,
     TableSound, MovedInv, Dialling, RedialInv, AskInv, PlaceInv, KeptInv, TypeOK, Memory
<1>12. ASSUME NEW f \in Fds, LostRedial(f) PROVE AwaitedWhereAsked'
  BY <1>12 DEF LostRedial, HandlerGoto, Connect, tabVars, hVars, mainVars, AwaitedWhereAsked,
     TableSound, MovedInv, Dialling, RedialInv, AskInv, PlaceInv, KeptInv, TypeOK, Memory
<1>13. ASSUME NEW n \in Nodes, LostAbsent(n) PROVE AwaitedWhereAsked'
  BY <1>13 DEF LostAbsent, HandlerGoto, Pass, Hits, Touches, tabVars, hVars, mainVars,
     AwaitedWhereAsked, TableSound, MovedInv, Dialling, RedialInv, AskInv, PlaceInv, KeptInv,
     TypeOK, Memory
<1>14. CASE LostUnlock
  BY <1>14 DEF LostUnlock, HandlerGoto, tabVars, hVars, mainVars, AwaitedWhereAsked,
     TableSound, MovedInv, Dialling, RedialInv, AskInv, PlaceInv, KeptInv, TypeOK, Memory
<1>15. CASE NewLock
  BY <1>15 DEF NewLock, HandlerGoto, tabVars, hVars, mainVars, AwaitedWhereAsked, TableSound,
     MovedInv, Dialling, RedialInv, AskInv, PlaceInv, KeptInv, TypeOK, Memory
<1>16. ASSUME NEW n \in Nodes, NEW a \in Ips, NEW u \in Modules, NewInsert(u, a, n)
       PROVE  AwaitedWhereAsked'
  BY <1>16 DEF NewInsert, HandlerGoto, tabVars, hVars, mainVars, AwaitedWhereAsked,
     TableSound, MovedInv, Dialling, RedialInv, AskInv, PlaceInv, KeptInv, TypeOK, Memory
<1>17. ASSUME NEW f \in Fds, NewConnect(f) PROVE AwaitedWhereAsked'
  BY <1>17 DEF NewConnect, HandlerGoto, Connect, tabVars, hVars, mainVars, AwaitedWhereAsked,
     TableSound, MovedInv, Dialling, RedialInv, AskInv, PlaceInv, KeptInv, TypeOK, Memory
<1>18. CASE NewUnlock
  BY <1>18 DEF NewUnlock, HandlerGoto, tabVars, hVars, mainVars, AwaitedWhereAsked,
     TableSound, MovedInv, Dialling, RedialInv, AskInv, PlaceInv, KeptInv, TypeOK, Memory
<1>19. CASE ConnectFails
  BY <1>19 DEF ConnectFails, tabVars, hVars, mainVars, AwaitedWhereAsked, TableSound,
     MovedInv, Dialling, RedialInv, AskInv, PlaceInv, KeptInv, TypeOK, Memory
<1>20. CASE Overwritten
  BY <1>20 DEF Overwritten, tabVars, hVars, mainVars, AwaitedWhereAsked, TableSound,
     MovedInv, Dialling, RedialInv, AskInv, PlaceInv, KeptInv, TypeOK, Memory
<1>21. CASE UNCHANGED vars
  BY <1>21 DEF vars, tabVars, hVars, mainVars, AwaitedWhereAsked, TableSound, MovedInv,
     Dialling, RedialInv, AskInv, PlaceInv, KeptInv, TypeOK, Memory
<1> QED
  BY <1>1, <1>2, <1>3, <1>4, <1>5, <1>6, <1>7, <1>8, <1>9, <1>10, <1>11, <1>12, <1>13, <1>14,
     <1>15, <1>16, <1>17, <1>18, <1>19, <1>20, <1>21
  DEF Next, MainStep, Walk, Dialled

\* DInv holds from the start of the driver on.
THEOREM Invariance == Spec => []DInv
<1>1. DInv /\ [Next]_vars => DInv'
  BY TypeOKStep, PlaceInvStep, KeptInvStep, RedialInvStep, MovedInvStep, TableSoundStep,
     AskInvStep, AwaitedWhereAskedStep DEF DInv
<1> QED BY InitDInv, <1>1, PTL DEF Spec

\* Type correctness: what main serves while it is busy is a module, at a node.
THEOREM Typing == Spec => []TypeOK
BY Invariance, PTL DEF DInv

\* With any number of modules, every one that is served and not being dialled owns its
\* connection, to the address in its node.
THEOREM SoundTable == Spec => []TableSound
BY Invariance, PTL DEF DInv

\* recv() waits where the command went, if the handler left the node alone.
THEOREM Awaited == Spec => []AwaitedWhereAsked
BY Invariance, PTL DEF DInv

\* Nothing but what a recv() left of an answer is under way when an exchange is over.
THEOREM NothingLeft == Spec => []NoOldAnswer
<1>1. DInv => NoOldAnswer BY DEF DInv, AskInv, NoOldAnswer
<1> QED BY Invariance, <1>1, PTL

\* A command goes to the address at which the table has its module, however the handler
\* ran since the look-up.
THEOREM Delivery == Spec => SentToItsAddress
<1> DEFINE Own == mPc = "found" /\ mPc' = "sent" /\ apart' /\ ~Dialling(ptr) =>
                    node[ptr].uuid = want /\ sock[via'] = node[ptr].ip
<1>1. DInv /\ [Next]_vars => [Own]_vars
  <2> SUFFICES ASSUME DInv, Next, mPc = "found", mPc' = "sent", apart', ~Dialling(ptr)
               PROVE  node[ptr].uuid = want /\ sock[via'] = node[ptr].ip
    OBVIOUS
  <2>1. Send
    BY DEF Next, MainStep, SendKilled, CallRecv, Recv, Close, Redial, GetItach, MainGoto, Walk,
           Dialled, LostSame, LostMoved, LostClose, LostAbsent, NewInsert, LostRedial,
           NewConnect, Fire, LostUnlock, NewLock, NewUnlock, ConnectFails, Overwritten, mainVars
  <2>2. apart /\ "lost" \notin hit /\ via' = node[ptr].fd BY <2>1 DEF Send, Uses
  <2>3. ptr \in head /\ node[ptr].uuid = want BY <2>2 DEF DInv, KeptInv
  <2> QED BY <2>2, <2>3 DEF DInv, TableSound
<1> QED BY Invariance, <1>1, PTL DEF Spec, SentToItsAddress
=============================================================================
