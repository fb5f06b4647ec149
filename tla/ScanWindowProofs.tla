-------------------------- MODULE ScanWindowProofs --------------------------
(***************************************************************************)
(* For every set of modules, all beacon periods and every length of a      *)
(* window: WInv is inductive, and the time bounds of ScanWindow follow.    *)
(***************************************************************************)
EXTENDS ScanWindow, TLAPS

\* What the assumptions on the constants say.
LEMMA Times == Cycle \in Nat /\ Cycle > 0 /\ MaxStart \in Nat /\ MaxStart < Cycle /\ Horizon \in Nat /\ Steady \subseteq Modules
BY ModulesAssumption, TimesAssumption, HorizonAssumption

\* What they say of the beacons of one module.
LEMMA Gaps ==
    ASSUME NEW m \in Modules
    PROVE  MaxGap[m] \in Nat /\ Horizon > 2 * Cycle + MaxGap[m] /\ Horizon > MaxGap[m]
<1>1. MaxGap[m] \in Nat BY GapsAssumption
<1>2. Horizon > 2 * Cycle + MaxGap[m] BY HorizonAssumption
<1> QED BY <1>1, <1>2, Times

\* Ages stay within the horizon, and grow by one below it.
LEMMA OlderFacts ==
    ASSUME NEW a \in 0..Horizon
    PROVE  /\ Older(a) \in 0..Horizon /\ Older(a) <= a + 1 /\ Older(a) >= a
           /\ a < Horizon => Older(a) = a + 1
BY Times DEF Older

\* Every module can have sent its last beacon within its period.
LEMMA InitWInv == Init => WInv
<1> SUFFICES ASSUME Init PROVE WInv OBVIOUS
<1>1. TypeOK
  <2>1. booted \in BOOLEAN /\ armed \in BOOLEAN /\ flag \in BOOLEAN BY DEF Init
  <2>2. left \in 0..Cycle /\ sleepLeft \in 0..Cycle BY Times DEF Init
  <2>3. age \in [Modules -> 0..Horizon] BY Times DEF Init
  <2> QED BY <2>1, <2>2, <2>3, Times DEF Init, TypeOK
<1>2. BootInv BY Times DEF Init, BootInv
<1>3. TurnInv /\ AgeInv /\ HeardInv /\ AdoptInv /\ DropInv
  BY DEF Init, TurnInv, AgeInv, HeardInv, AdoptInv, DropInv, Prompt
<1> QED BY <1>1, <1>2, <1>3 DEF WInv

\* Ages and the alarm stay in their ranges.
LEMMA TypeOKStep == WInv /\ [Next]_vars => TypeOK'
<1> SUFFICES ASSUME WInv, [Next]_vars PROVE TypeOK'
  OBVIOUS
<1> USE Times DEF WInv
<1>1. CASE Boot
  BY <1>1 DEF Boot, scanVars, modVars, mainVars, TypeOK
<1>2. ASSUME NEW x \in Modules, Beacon(x) PROVE TypeOK'
  <2>1. /\ booted' \in BOOLEAN /\ armed' \in BOOLEAN /\ flag' \in BOOLEAN
        /\ heard' \subseteq Modules /\ known' \subseteq Modules
    BY <1>2 DEF Beacon, Collect, scanVars, modVars, mainVars, TypeOK
  <2>2. left' \in 0..Cycle /\ sleepLeft' \in 0..Cycle BY <1>2 DEF Beacon, Collect, scanVars, modVars, mainVars, TypeOK
  <2>3. since' \in [Modules -> 0..Horizon] BY <1>2 DEF Beacon, TypeOK
  <2>4. silent' \subseteq Modules \ Steady /\ seen' \subseteq Modules \ silent'
    BY <1>2 DEF Beacon, scanVars, modVars, mainVars, TypeOK
  <2> QED BY <1>2, <2>1, <2>2, <2>3, <2>4 DEF Beacon, scanVars, modVars, mainVars, TypeOK
<1>3. ASSUME NEW x \in Modules, SwitchOff(x) PROVE TypeOK'
  BY <1>3 DEF SwitchOff, scanVars, modVars, mainVars, TypeOK
<1>4. ASSUME NEW t \in {"main", "scanner"}, Expire(t) PROVE TypeOK'
  BY <1>4 DEF Expire, scanVars, modVars, mainVars, TypeOK
<1>5. CASE WakeUp
  BY <1>5 DEF WakeUp, scanVars, modVars, mainVars, TypeOK
<1>6. CASE Tick
  <2>1. since' \in [Modules -> 0..Horizon] /\ age' \in [Modules -> 0..Horizon]
    BY <1>6, OlderFacts DEF Tick, TypeOK
  <2>2. left' \in 0..Cycle /\ sleepLeft' \in 0..Cycle
    BY <1>6 DEF Tick, Due, TypeOK
  <2> QED BY <1>6, <2>1, <2>2 DEF Tick, TypeOK
<1>7. CASE UNCHANGED vars
  BY <1>7 DEF vars, scanVars, modVars, mainVars, TypeOK
<1> QED BY <1>1, <1>2, <1>3, <1>4, <1>5, <1>6, <1>7 DEF Next

\* Alarm and flag take turns: the thread lowers the flag when it sets the alarm.
LEMMA TurnInvStep == WInv /\ [Next]_vars => TurnInv'
<1> SUFFICES ASSUME WInv, [Next]_vars PROVE TurnInv'
  OBVIOUS
<1> USE Times DEF WInv
<1>1. CASE Boot
  BY <1>1 DEF Boot, scanVars, modVars, mainVars, TurnInv
<1>2. ASSUME NEW x \in Modules, Beacon(x) PROVE TurnInv'
  BY <1>2 DEF Beacon, Collect, scanVars, modVars, mainVars, TurnInv, TypeOK
<1>3. ASSUME NEW x \in Modules, SwitchOff(x) PROVE TurnInv'
  BY <1>3 DEF SwitchOff, scanVars, modVars, mainVars, TurnInv
<1>4. ASSUME NEW t \in {"main", "scanner"}, Expire(t) PROVE TurnInv'
  BY <1>4 DEF Expire, scanVars, modVars, mainVars, TurnInv, TypeOK
<1>5. CASE WakeUp
  BY <1>5 DEF WakeUp, scanVars, modVars, mainVars, TurnInv
<1>6. CASE Tick
  BY <1>6 DEF Tick, TurnInv
<1>7. CASE UNCHANGED vars
  BY <1>7 DEF vars, scanVars, modVars, mainVars, TurnInv
<1> QED BY <1>1, <1>2, <1>3, <1>4, <1>5, <1>6, <1>7 DEF Next

\* Time does not pass a beacon that is due.
LEMMA AgeInvStep == WInv /\ [Next]_vars => AgeInv'
<1> SUFFICES ASSUME WInv, [Next]_vars PROVE AgeInv'
  OBVIOUS
<1> USE Times DEF WInv
<1>1. CASE Boot
  BY <1>1 DEF Boot, scanVars, modVars, mainVars, AgeInv
<1>2. ASSUME NEW x \in Modules, Beacon(x) PROVE AgeInv'
  BY <1>2, Gaps DEF Beacon, scanVars, modVars, mainVars, AgeInv, TypeOK
<1>3. ASSUME NEW x \in Modules, SwitchOff(x) PROVE AgeInv'
  BY <1>3 DEF SwitchOff, scanVars, modVars, mainVars, AgeInv, TypeOK
<1>4. ASSUME NEW t \in {"main", "scanner"}, Expire(t) PROVE AgeInv'
  BY <1>4 DEF Expire, scanVars, modVars, mainVars, AgeInv
<1>5. CASE WakeUp
  BY <1>5 DEF WakeUp, scanVars, modVars, mainVars, AgeInv
<1>6. CASE Tick
  <2>1. ASSUME NEW m \in Modules \ silent' PROVE since'[m] <= MaxGap[m]
    <3>1. since[m] < MaxGap[m] BY <1>6, Gaps DEF Tick, Due, TypeOK
    <3> QED BY <1>6, <3>1, Gaps, OlderFacts DEF Tick, TypeOK
  <2>2. \A m \in Modules \ seen' : age'[m] = 0 BY <1>6 DEF Tick
  <2> QED BY <2>1, <2>2 DEF AgeInv
<1>7. CASE UNCHANGED vars
  BY <1>7 DEF vars, scanVars, modVars, mainVars, AgeInv
<1> QED BY <1>1, <1>2, <1>3, <1>4, <1>5, <1>6, <1>7 DEF Next

\* A window's list holds exactly the modules heard since it began.
LEMMA HeardInvStep == WInv /\ [Next]_vars => HeardInv'
<1> SUFFICES ASSUME WInv, [Next]_vars PROVE HeardInv'
  OBVIOUS
<1> USE Times DEF WInv
<1>1. CASE Boot
  BY <1>1 DEF Boot, scanVars, modVars, mainVars, HeardInv, TurnInv, TypeOK
<1>2. ASSUME NEW x \in Modules, Beacon(x) PROVE HeardInv'
  <2> SUFFICES ASSUME armed', NEW m \in Modules
               PROVE  IF m \in heard' THEN since'[m] <= Cycle - left' ELSE since'[m] >= Cycle - left'
    BY DEF HeardInv
  <2>1. booted BY <1>2 DEF Beacon, scanVars, modVars, mainVars, TurnInv
  <2>2. since'[m] = (IF m = x THEN 0 ELSE since[m]) BY <1>2 DEF Beacon, TypeOK
  <2>3. since'[m] \in 0..Horizon BY <2>2 DEF TypeOK
  <2>4. CASE flag
    <3>1. heard' = {} /\ left' = Cycle BY <1>2, <2>1, <2>4 DEF Beacon, Collect
    <3> QED BY <2>3, <3>1
  <2>5. CASE ~flag
    <3>1. heard' = heard \union {x} /\ left' = left /\ armed BY <1>2, <2>1, <2>5 DEF Beacon, Collect
    <3>2. CASE m = x BY <2>2, <3>1, <3>2 DEF TypeOK
    <3>3. CASE m # x BY <2>2, <3>1, <3>3 DEF HeardInv
    <3> QED BY <3>2, <3>3
  <2> QED BY <2>4, <2>5
<1>3. ASSUME NEW x \in Modules, SwitchOff(x) PROVE HeardInv'
  BY <1>3 DEF SwitchOff, scanVars, modVars, mainVars, HeardInv
<1>4. ASSUME NEW t \in {"main", "scanner"}, Expire(t) PROVE HeardInv'
  BY <1>4 DEF Expire, scanVars, modVars, mainVars, HeardInv
<1>5. CASE WakeUp
  BY <1>5 DEF WakeUp, scanVars, modVars, mainVars, HeardInv
<1>6. CASE Tick
  <2> SUFFICES ASSUME armed', NEW m \in Modules
               PROVE  IF m \in heard' THEN since'[m] <= Cycle - left' ELSE since'[m] >= Cycle - left'
    BY DEF HeardInv
  <2>1. armed /\ left > 0 /\ left' = left - 1 /\ heard' = heard
    BY <1>6 DEF Tick, Due, TypeOK
  <2>2. since[m] \in 0..Horizon /\ since'[m] = Older(since[m]) BY <1>6 DEF Tick, TypeOK
  <2>3. CASE m \in heard BY <2>1, <2>2, <2>3, OlderFacts DEF HeardInv, TypeOK
  <2>4. CASE m \notin heard
    <3>1. since[m] >= Cycle - left BY <2>1, <2>4 DEF HeardInv
    <3>2. CASE since[m] < Horizon BY <2>1, <2>2, <2>4, <3>1, <3>2, OlderFacts DEF TypeOK
    <3>3. CASE since[m] >= Horizon
      BY <2>1, <2>2, <2>4, <3>3, OlderFacts, Gaps DEF TypeOK
    <3> QED BY <2>2, <3>2, <3>3
  <2> QED BY <2>3, <2>4
<1>7. CASE UNCHANGED vars
  BY <1>7 DEF vars, scanVars, modVars, mainVars, HeardInv
<1> QED BY <1>1, <1>2, <1>3, <1>4, <1>5, <1>6, <1>7 DEF Next

\* A prompt module that was heard is served, or its first full window is open.
LEMMA AdoptInvStep == WInv /\ [Next]_vars => AdoptInv'
<1> SUFFICES ASSUME WInv, [Next]_vars PROVE AdoptInv'
  OBVIOUS
<1> USE Times DEF WInv
<1>1. CASE Boot
  BY <1>1 DEF Boot, scanVars, modVars, mainVars, AdoptInv, Prompt, TurnInv
<1>2. ASSUME NEW x \in Modules, Beacon(x) PROVE AdoptInv'
  <2>1. CASE booted BY <1>2, <2>1 DEF Beacon, Collect, scanVars, modVars, mainVars, AdoptInv, Prompt, TurnInv, AgeInv, TypeOK
  <2>2. CASE ~booted BY <1>2, <2>2 DEF Beacon, scanVars, modVars, mainVars, AdoptInv, Prompt, TurnInv, TypeOK
  <2> QED BY <2>1, <2>2
<1>3. ASSUME NEW x \in Modules, SwitchOff(x) PROVE AdoptInv'
  BY <1>3 DEF SwitchOff, scanVars, modVars, mainVars, AdoptInv, Prompt, TypeOK
<1>4. ASSUME NEW t \in {"main", "scanner"}, Expire(t) PROVE AdoptInv'
  <2> SUFFICES ASSUME NEW m \in Prompt \intersect seen PROVE m \in heard
    BY <1>4 DEF Expire, scanVars, modVars, mainVars, AdoptInv, Prompt
  <2>1. m \in Modules \ silent /\ MaxGap[m] < Cycle BY DEF Prompt, TypeOK
  <2>2. since[m] <= MaxGap[m] BY <2>1 DEF AgeInv
  <2> QED BY <1>4, <2>1, <2>2, Gaps DEF Expire, HeardInv, TypeOK
<1>5. CASE WakeUp
  BY <1>5 DEF WakeUp, scanVars, modVars, mainVars, AdoptInv, Prompt
<1>6. CASE Tick
  <2> SUFFICES ASSUME NEW m \in Prompt \intersect seen, m \notin known
               PROVE  armed' /\ age'[m] <= Cycle - left'
    BY <1>6 DEF Tick, AdoptInv, Prompt
  <2>1. armed /\ age[m] <= Cycle - left BY DEF AdoptInv, Prompt
  <2>2. m \in Modules /\ age'[m] = Older(age[m]) BY <1>6 DEF Tick, Prompt
  <2> QED BY <1>6, <2>1, <2>2, OlderFacts DEF Tick, Due, TypeOK
<1>7. CASE UNCHANGED vars
  BY <1>7 DEF vars, scanVars, modVars, mainVars, AdoptInv, Prompt
<1> QED BY <1>1, <1>2, <1>3, <1>4, <1>5, <1>6, <1>7 DEF Next

\* The age of what is served, against the beacons of a steady module.
LEMMA DropInvStep == WInv /\ [Next]_vars => DropInv'
<1> SUFFICES ASSUME WInv, [Next]_vars PROVE DropInv'
  OBVIOUS
<1> USE Times DEF WInv
<1>1. CASE Boot
  BY <1>1 DEF Boot, scanVars, modVars, mainVars, DropInv, TurnInv
<1>2. ASSUME NEW x \in Modules, Beacon(x) PROVE DropInv'
  <2> SUFFICES ASSUME NEW m \in known, NEW s \in Steady
               PROVE  /\ flag' => since'[m] <= Cycle + since'[s]
                      /\ armed' => since'[m] <= Cycle + MaxGap[s] + (Cycle - left')
    BY <1>2 DEF Beacon, Collect, scanVars, modVars, mainVars, DropInv
  <2>1. m \in Modules /\ s \in Modules \ silent BY DEF TypeOK
  <2>2. since[s] <= MaxGap[s] /\ MaxGap[s] \in Nat BY <2>1, Gaps DEF AgeInv
  <2>3. since'[m] <= since[m] /\ since'[m] \in 0..Horizon BY <1>2, <2>1 DEF Beacon, TypeOK
  <2>4. booted /\ ~flag' BY <1>2 DEF Beacon, Collect, TurnInv
  <2>5. CASE flag
    BY <1>2, <2>1, <2>2, <2>3, <2>4, <2>5 DEF Beacon, Collect, DropInv, TypeOK
  <2>6. CASE ~flag
    BY <1>2, <2>1, <2>2, <2>3, <2>4, <2>6 DEF Beacon, Collect, DropInv, TypeOK
  <2> QED BY <2>5, <2>6
<1>3. ASSUME NEW x \in Modules, SwitchOff(x) PROVE DropInv'
  BY <1>3 DEF SwitchOff, scanVars, modVars, mainVars, DropInv
<1>4. ASSUME NEW t \in {"main", "scanner"}, Expire(t) PROVE DropInv'
  <2> SUFFICES ASSUME NEW m \in heard, NEW s \in Steady PROVE since[m] <= Cycle + since[s]
    BY <1>4 DEF Expire, scanVars, modVars, mainVars, DropInv
  <2> QED BY <1>4 DEF Expire, HeardInv, TypeOK
<1>5. CASE WakeUp
  BY <1>5 DEF WakeUp, scanVars, modVars, mainVars, DropInv
<1>6. CASE Tick
  <2> SUFFICES ASSUME NEW m \in known, NEW s \in Steady
               PROVE  /\ flag => since'[m] <= Cycle + since'[s]
                      /\ armed => since'[m] <= Cycle + MaxGap[s] + (Cycle - left')
    BY <1>6 DEF Tick, DropInv
  <2>1. m \in Modules /\ s \in Modules \ silent BY DEF TypeOK
  <2>2. since[s] <= MaxGap[s] /\ MaxGap[s] \in Nat /\ since[s] < Horizon
    BY <2>1, Gaps DEF AgeInv, TypeOK
  <2>3. /\ since[m] \in 0..Horizon /\ since[s] \in 0..Horizon
        /\ since'[m] = Older(since[m]) /\ since'[s] = Older(since[s])
    BY <1>6, <2>1 DEF Tick, TypeOK
  <2>4. since'[m] <= since[m] + 1 /\ since'[s] = since[s] + 1 /\ since'[m] \in Nat
    BY <2>2, <2>3, OlderFacts
  <2>5. flag => since'[m] <= Cycle + since'[s] BY <2>3, <2>4 DEF DropInv
  <2>6. armed => since'[m] <= Cycle + MaxGap[s] + (Cycle - left')
    BY <1>6, <2>2, <2>3, <2>4 DEF Tick, Due, DropInv, TypeOK
  <2> QED BY <2>5, <2>6
<1>7. CASE UNCHANGED vars
  BY <1>7 DEF vars, scanVars, modVars, mainVars, DropInv
<1> QED BY <1>1, <1>2, <1>3, <1>4, <1>5, <1>6, <1>7 DEF Next

\* What a steady, prompt module is still waiting for before it is on record.
LEMMA BootInvStep == WInv /\ [Next]_vars => BootInv'
<1> SUFFICES ASSUME WInv, [Next]_vars PROVE BootInv'
  OBVIOUS
<1> USE Times DEF WInv
<1>1. CASE Boot
  <2>1. mainPc = "sleep" /\ Cycle - sleepLeft <= MaxStart BY <1>1 DEF Boot, BootInv
  <2> QED BY <1>1, <2>1 DEF Boot, scanVars, modVars, mainVars, BootInv, Prompt, TypeOK
<1>2. ASSUME NEW x \in Modules, Beacon(x) PROVE BootInv'
  <2>1. CASE ~booted BY <1>2, <2>1 DEF Beacon, scanVars, modVars, mainVars, BootInv, Prompt
  <2>2. CASE booted /\ flag
    BY <1>2, <2>2 DEF Beacon, Collect, scanVars, modVars, mainVars, BootInv, Prompt, TurnInv
  <2>3. CASE booted /\ ~flag
    BY <1>2, <2>3 DEF Beacon, Collect, scanVars, modVars, mainVars, BootInv, Prompt
  <2> QED BY <2>1, <2>2, <2>3 DEF TypeOK
<1>3. ASSUME NEW x \in Modules, SwitchOff(x) PROVE BootInv'
  BY <1>3 DEF SwitchOff, scanVars, modVars, mainVars, BootInv, Prompt
<1>4. ASSUME NEW t \in {"main", "scanner"}, Expire(t) PROVE BootInv'
  <2>1. booted BY <1>4 DEF Expire, TurnInv
  <2>2. ASSUME NEW m \in Prompt \intersect Steady PROVE m \in known'
    <3>1. m \in Modules \ silent /\ MaxGap[m] < Cycle BY DEF Prompt, TypeOK
    <3>2. since[m] <= MaxGap[m] BY <3>1 DEF AgeInv
    <3>3. m \in heard BY <1>4, <3>1, <3>2, Gaps DEF Expire, HeardInv, TypeOK
    <3> QED BY <1>4, <3>3 DEF Expire
  <2> QED BY <1>4, <2>1, <2>2 DEF Expire, BootInv
<1>5. CASE WakeUp
  <2>1. booted
    <3>1. ~booted => sleepLeft > 0 BY DEF BootInv, TypeOK
    <3> QED BY <1>5, <3>1 DEF WakeUp
  <2> QED BY <1>5, <2>1 DEF WakeUp, scanVars, modVars, mainVars, BootInv, Prompt
<1>6. CASE Tick
  <2>1. ASSUME ~booted PROVE mainPc' = "sleep" /\ Cycle - sleepLeft' <= MaxStart
    <3>1. mainPc = "sleep" /\ Cycle - sleepLeft < MaxStart
      BY <1>6, <2>1 DEF Tick, Due, BootInv, TypeOK
    <3> QED BY <1>6, <3>1 DEF Tick, TypeOK
  <2>2. ASSUME booted, NEW m \in Prompt \intersect Steady, m \notin known
        PROVE  armed /\ left' <= (IF mainPc = "sleep" THEN sleepLeft' ELSE 0) + MaxStart
    <3>1. armed /\ left <= (IF mainPc = "sleep" THEN sleepLeft ELSE 0) + MaxStart
      BY <2>2 DEF BootInv
    <3>2. CASE mainPc = "sleep" BY <1>6, <3>1, <3>2 DEF Tick, Due, TypeOK
    <3>3. CASE mainPc # "sleep" BY <1>6, <3>1, <3>3 DEF Tick, Due, TypeOK
    <3> QED BY <3>1, <3>2, <3>3
  <2> QED BY <1>6, <2>1, <2>2 DEF Tick, BootInv
<1>7. CASE UNCHANGED vars
  BY <1>7 DEF vars, scanVars, modVars, mainVars, BootInv, Prompt
<1> QED BY <1>1, <1>2, <1>3, <1>4, <1>5, <1>6, <1>7 DEF Next

\* WInv holds from the creation of the thread on.
THEOREM Invariance == Spec => []WInv
<1>1. WInv /\ [Next]_vars => WInv'
  BY TypeOKStep, TurnInvStep, AgeInvStep, HeardInvStep, AdoptInvStep, DropInvStep, BootInvStep DEF WInv
<1> QED BY InitWInv, <1>1, PTL DEF Spec

\* Type correctness: the alarm stays within a cycle, what is seen is switched on.
THEOREM Typing == Spec => []TypeOK
BY Invariance, PTL DEF WInv

\* Whatever the periods of the others and wherever windows fall, a module that
\* announces itself at least once a cycle is served one cycle after it was first heard.
THEOREM Adoption == Spec => []AdoptedInTime
<1>1. WInv => AdoptedInTime
  <2> SUFFICES ASSUME WInv, NEW m \in Prompt, age[m] > Cycle PROVE m \in known
    BY DEF AdoptedInTime
  <2>1. m \in Modules BY DEF Prompt
  <2>2. m \in seen BY <2>1, Times DEF WInv, AgeInv
  <2> QED BY <2>1, <2>2, Times DEF WInv, AdoptInv, TypeOK
<1> QED BY Invariance, <1>1, PTL

\* A module that is off is dropped within two cycles and one gap of any steady module.
THEOREM Dropping == Spec => []SilentDropped
<1>1. WInv => SilentDropped
  <2> SUFFICES ASSUME WInv, NEW m \in known, NEW s \in Steady
               PROVE  ~(since[m] > 2 * Cycle + MaxGap[s])
    BY DEF SilentDropped
  <2>1. m \in Modules /\ s \in Modules \ silent BY Times DEF WInv, TypeOK
  <2>2. since[s] <= MaxGap[s] /\ MaxGap[s] \in Nat BY <2>1, Gaps DEF WInv, AgeInv
  <2>3. armed \/ flag BY DEF WInv, TurnInv
  <2>4. CASE armed BY <2>1, <2>2, <2>4, Times DEF WInv, DropInv, TypeOK
  <2>5. CASE flag BY <2>1, <2>2, <2>5, Times DEF WInv, DropInv, TypeOK
  <2> QED BY <2>3, <2>4, <2>5
<1> QED BY Invariance, <1>1, PTL

\* However late the thread starts, main serves at most that long before a module that
\* announces itself steadily, at least once a cycle, is on record.
THEOREM EarlyService == Spec => []EarlyByStart
<1>1. WInv => EarlyByStart
  BY Times DEF WInv, BootInv, EarlyByStart
<1> QED BY Invariance, <1>1, PTL

\* A module that announces itself more than once a cycle is only dropped when it is silent.
THEOREM NoneLostFalsely == Spec => NoFalseLoss
<1> DEFINE Kept == \A m \in Prompt \intersect known : m \notin known' => m \in silent
<1>1. WInv /\ [Next]_vars => [Kept]_vars
  <2> SUFFICES ASSUME WInv, Next, NEW m \in Prompt \intersect known, m \notin known'
               PROVE  m \in silent
    OBVIOUS
  <2>1. PICK t \in {"main", "scanner"} : Expire(t)
    BY DEF Next, Boot, Beacon, Collect, SwitchOff, WakeUp, Tick, scanVars, modVars, mainVars
  <2>2. m \in Modules /\ MaxGap[m] < Cycle /\ m \notin heard BY <2>1 DEF Prompt, Expire
  <2>3. since[m] >= Cycle BY <2>1, <2>2, Times DEF Expire, WInv, HeardInv, TypeOK
  <2> QED BY <2>2, <2>3, Gaps, Times DEF WInv, AgeInv, TypeOK
<1> QED BY Invariance, <1>1, PTL DEF Spec, NoFalseLoss
=============================================================================
