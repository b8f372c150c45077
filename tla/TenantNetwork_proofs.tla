------------------------- MODULE TenantNetwork_proofs -----------------------
(***************************************************************************)
(* Theorems about TenantNetwork, for any number of processes and faults.   *)
(***************************************************************************)
EXTENDS TenantNetwork, TLAPS

-----------------------------------------------------------------------------
\* The steps of initNetwork.

LEMMA StepFacts ==
    /\ Len(Steps) = 24
    /\ \A i \in 1 .. 24 : Steps[i] \in StepNames
    /\ Steps[24] = "info"
    /\ "info" \in StepNames
BY DEF Steps, StepNames

LEMMA ObjectFacts ==
    {"inChain", "outChain", "router", "remotePort", "localPort", "link", "outRoute",
     "rule1", "rule2", "bridge", "gwPort", "bridgePort", "gwLink", "inRoute", "ips"}
    \subseteq Objects
<1>1. /\ Steps[1] = "inChain" /\ Steps[2] = "outChain" /\ Steps[3] = "router"
      /\ Steps[4] = "ips" /\ Steps[6] = "remotePort" /\ Steps[7] = "localPort"
      /\ Steps[8] = "link" /\ Steps[9] = "outRoute" /\ Steps[10] = "inRoute"
      /\ Steps[12] = "rule1" /\ Steps[13] = "rule2" /\ Steps[15] = "bridge"
      /\ Steps[18] = "gwPort" /\ Steps[19] = "bridgePort" /\ Steps[20] = "gwLink"
  BY DEF Steps
<1>2. {"inChain", "outChain", "router", "remotePort", "localPort", "link", "outRoute",
       "rule1", "rule2", "bridge", "gwPort", "bridgePort", "gwLink", "inRoute", "ips"}
      \subseteq StepNames
  BY <1>1, StepFacts
<1>3. QED
  BY <1>2 DEF Objects, KeySteps

\* Every clean-up is a list of objects.
LEMMA CleanUpType == \A s : CleanUp(s) \in Seq(Objects)
<1> USE ObjectFacts
<1>1. Uplink \in Seq(Objects)
  BY DEF Uplink
<1>2. Tail(Uplink) \in Seq(Objects)
  BY DEF Uplink
<1>3. ASSUME NEW q \in Seq(Objects) PROVE q \o Uplink \in Seq(Objects)
  BY <1>1
<1>4. /\ <<>> \in Seq(Objects)
      /\ <<"inChain">> \in Seq(Objects)
      /\ <<"inChain", "outChain">> \in Seq(Objects)
      /\ <<"inChain", "outChain", "router">> \in Seq(Objects)
      /\ <<"inChain", "outChain", "router", "remotePort">> \in Seq(Objects)
      /\ <<"outRoute">> \in Seq(Objects)
      /\ <<"rule1">> \in Seq(Objects)
      /\ <<"rule1", "rule2">> \in Seq(Objects)
      /\ <<"bridge">> \in Seq(Objects)
      /\ <<"gwPort">> \in Seq(Objects)
      /\ <<"gwPort", "bridgePort">> \in Seq(Objects)
      /\ <<"gwLink", "gwPort", "bridgePort">> \in Seq(Objects)
  OBVIOUS
<1>5. /\ <<"outRoute">> \o Uplink \in Seq(Objects)
      /\ <<"rule1">> \o Uplink \in Seq(Objects)
      /\ <<"rule1", "rule2">> \o Uplink \in Seq(Objects)
      /\ <<"bridge">> \o Uplink \in Seq(Objects)
      /\ <<"gwPort">> \o Uplink \in Seq(Objects)
      /\ <<"gwPort", "bridgePort">> \o Uplink \in Seq(Objects)
      /\ <<"gwLink", "gwPort", "bridgePort">> \o Uplink \in Seq(Objects)
  BY <1>3, <1>4
<1>6. QED
  BY <1>1, <1>2, <1>4, <1>5 DEF CleanUp

-----------------------------------------------------------------------------
\* Types.

\* The types apart from the lock's.
OwnTypes ==
    /\ overlap \in {"no", "lock", "delete"}
    /\ ignored \in BOOLEAN
    /\ failedAt \in [Procs -> StepNames \cup {"undo", None}]
    /\ halfDeleted \subseteq Networks
    /\ info \in BOOLEAN
    /\ usage \in Networks \cup {None}
    /\ routerKey \in Networks \cup {None}
    /\ routeKey \in Networks \cup {None}
    /\ pool \subseteq {"iprange", "addresses"}
    /\ objs \in [Networks -> SUBSET Objects]
    /\ pc \in [Procs -> Labels]
    /\ at \in [Procs -> 1 .. 24]
    /\ undo \in [Procs -> Seq(Objects)]
    /\ found \in [Procs -> SUBSET Networks]

LEMMA TypeParts == TypeOK <=> L!TypeOK /\ OwnTypes
<1>1. Len(Steps) = 24
  BY StepFacts
<1>2. {usage, routerKey, routeKey} \subseteq Networks \cup {None}
      <=> /\ usage \in Networks \cup {None}
          /\ routerKey \in Networks \cup {None}
          /\ routeKey \in Networks \cup {None}
  OBVIOUS
<1>3. QED
  BY <1>1, <1>2, Zenon DEF TypeOK, OwnTypes

LEMMA TypePartsNext == L!TypeOK' /\ OwnTypes' => TypeOK'
<1>1. Len(Steps) = 24
  BY StepFacts
<1>2. /\ usage' \in Networks \cup {None}
      /\ routerKey' \in Networks \cup {None}
      /\ routeKey' \in Networks \cup {None}
      => {usage', routerKey', routeKey'} \subseteq Networks \cup {None}
  OBVIOUS
<1>3. QED
  BY <1>1, <1>2, Zenon DEF TypeOK, OwnTypes

\* A step that leaves all of them as they are.
LEMMA OwnTypesStay ==
    ASSUME OwnTypes, UNCHANGED <<history, keys, objs, pc, locals>>
    PROVE  OwnTypes'
<1>1. /\ overlap' = overlap /\ ignored' = ignored /\ failedAt' = failedAt
      /\ halfDeleted' = halfDeleted
      /\ info' = info /\ usage' = usage /\ routerKey' = routerKey
      /\ routeKey' = routeKey /\ pool' = pool /\ objs' = objs /\ pc' = pc
      /\ at' = at /\ undo' = undo /\ found' = found
  BY DEF history, keys, tenantKeys, locals
<1>2. QED
  BY <1>1, Zenon DEF OwnTypes

LEMMA InitType == Init => TypeOK
<1> SUFFICES ASSUME Init PROVE TypeOK
  OBVIOUS
<1>1. L!TypeOK
  BY TenantAssumption DEF TenantAssumption, Init, L!Init, L!TypeOK, L!Phases
<1>2. OwnTypes
  <2>1. /\ usage \in Networks \cup {None}
        /\ routerKey \in Networks \cup {None}
        /\ routeKey \in Networks \cup {None}
        /\ pool \subseteq {"iprange", "addresses"}
    BY DEF Init, Networks
  <2>2. objs \in [Networks -> SUBSET Objects]
    BY DEF Init
  <2>3. undo \in [Procs -> Seq(Objects)] /\ found \in [Procs -> SUBSET Networks]
    BY DEF Init
  <2>4. /\ overlap \in {"no", "lock", "delete"}
        /\ failedAt \in [Procs -> StepNames \cup {"undo", None}]
        /\ halfDeleted \subseteq Networks
        /\ pc \in [Procs -> Labels] /\ at \in [Procs -> 1 .. 24]
    BY DEF Init, Labels
  <2>5. info \in BOOLEAN /\ ignored \in BOOLEAN
    BY Zenon DEF Init
  <2>6. QED
    BY <2>1, <2>2, <2>3, <2>4, <2>5 DEF OwnTypes
<1>3. QED
  BY <1>1, <1>2, TypeParts

\* The lock keeps its types, as in EtcdMutex_proofs.
LEMMA LockStepType ==
    ASSUME L!TypeOK, NEW p \in Procs,
           L!CallLock(p) \/ L!LockStep(p) \/ L!UnlockStep(p) \/ L!Expire \/ L!Die(p)
    PROVE  L!TypeOK'
<1> USE TenantAssumption
    DEF TenantAssumption, L!TypeOK, L!Phases, L!Move, L!Fault
<1>1. CASE L!CallLock(p)
  BY <1>1 DEF L!CallLock
<1>2. CASE L!LockStep(p)
  <2>1. CASE L!SetCreates(p) \/ L!SetExists(p) \/ L!GetFinds(p) \/ L!WatchFires(p)
    BY <2>1 DEF L!SetCreates, L!SetExists, L!GetFinds, L!WatchFires
  <2>2. CASE L!SetFails(p)
    BY <2>2 DEF L!SetFails, L!NextAttempt
  <2>3. CASE L!GetMissing(p) \/ L!ReadFails(p)
    BY <2>3 DEF L!GetMissing, L!ReadFails, L!NextAttempt
  <2>4. QED
    BY <1>2, <2>1, <2>2, <2>3 DEF L!LockStep
<1>3. CASE L!UnlockStep(p)
  <2>1. CASE L!DeleteRemoves(p) \/ L!DeleteMissing(p)
    BY <2>1 DEF L!DeleteRemoves, L!DeleteMissing, L!WakeWatchers
  <2>2. CASE L!DeleteFails(p)
    <3>1. woken' \in [Procs -> BOOLEAN]
      BY <2>2, Zenon DEF L!DeleteFails, L!WakeWatchers
    <3>2. /\ node' \in Procs \cup {Nobody}
          /\ phase' \in [Procs -> L!Phases]
          /\ try' \in [Procs -> 0 .. DefaultTry]
      BY <2>2 DEF L!DeleteFails
    <3>3. calls' = calls /\ faults' \in 0 .. MaxFaults
      BY <2>2 DEF L!DeleteFails
    <3>4. QED
      BY <3>1, <3>2, <3>3
  <2>3. QED
    BY <1>3, <2>1, <2>2 DEF L!UnlockStep
<1>4. CASE L!Expire
  BY <1>4 DEF L!Expire, L!WakeWatchers
<1>5. CASE L!Die(p)
  BY <1>5 DEF L!Die
<1>6. QED
  BY <1>1, <1>2, <1>3, <1>4, <1>5

\* Entering Unlock, or doing nothing to the lock, keeps its types.
LEMMA LeaveType ==
    ASSUME L!TypeOK, faults' \in 0 .. MaxFaults,
           UNCHANGED lockState \/ \E p \in Procs : L!EnterUnlock(p)
    PROVE  L!TypeOK'
BY TenantAssumption
DEF TenantAssumption, L!TypeOK, L!Phases, L!EnterUnlock, L!Move, lockState

LEMMA FaultType ==
    ASSUME L!TypeOK
    PROVE  /\ NoFault => faults' \in 0 .. MaxFaults
           /\ \A k : Fault(k) => faults' \in 0 .. MaxFaults
BY TenantAssumption DEF TenantAssumption, L!TypeOK, NoFault, Fault, L!Fault

\* What a step of a running process may do to the lock.
LEMMA StepLockType ==
    ASSUME L!TypeOK, NEW p \in Procs, Step(p)
    PROVE  L!TypeOK'
<1>1. CASE CallLock(p) \/ Lock(p) \/ Unlock(p)
  BY <1>1, LockStepType DEF CallLock, Lock, Unlock
<1>2. CASE GetTenant(p)
  <2>1. faults' \in 0 .. MaxFaults
    BY <1>2, FaultType
    DEF GetTenant, GetInfo, GetInfoFails, FindsNoInfo, FindsInfo, FindsError, NoFault
  <2>2. UNCHANGED lockState \/ L!EnterUnlock(p)
    BY <1>2
    DEF GetTenant, GetInfo, GetInfoFails, FindsNoInfo, FindsInfo, FindsError, Leave
  <2>3. QED
    BY <2>1, <2>2, LeaveType
<1>3. CASE InitNetwork(p)
  <2>1. faults' \in 0 .. MaxFaults
    BY <1>3, FaultType
    DEF InitNetwork, Create, CreateFails, ParseProviderID, SaveRoute, SaveRouter, SetRange, SetRangeFails,
        FillPool, SaveUsage, SaveUsageFails, SaveInfo, SaveInfoFails, DeleteObject,
        CleanedUp, NoFault
  <2>2. UNCHANGED lockState \/ L!EnterUnlock(p)
    BY <1>3
    DEF InitNetwork, Create, CreateFails, ParseProviderID, SaveRoute, SaveRouter, SetRange, SetRangeFails,
        FillPool, SaveUsage, SaveUsageFails, SaveInfo, SaveInfoFails, DeleteObject,
        CleanedUp, Leave
  <2>3. QED
    BY <2>1, <2>2, LeaveType
<1>4. CASE DeleteDir(p)
  BY <1>4 DEF DeleteDir, L!WakeWatchers, L!TypeOK, NoFault
<1>5. CASE FindAddresses(p) \/ DeleteRoute(p) \/ DeleteDirFails(p) \/ DeletePool(p) \/ Release(p)
  <2>1. faults' \in 0 .. MaxFaults
    BY <1>5, FaultType
    DEF FindAddresses, DeleteRoute, DeleteDirFails, DeletePool, Release, NoFault
  <2>2. UNCHANGED lockState \/ L!EnterUnlock(p)
    BY <1>5 DEF FindAddresses, DeleteRoute, DeleteDirFails, DeletePool, Release, Leave
  <2>3. QED
    BY <2>1, <2>2, LeaveType
<1>6. QED
  BY <1>1, <1>2, <1>3, <1>4, <1>5 DEF Step, DeleteTenant

LEMMA AdvanceType ==
    ASSUME at \in [Procs -> 1 .. 24], NEW p \in Procs, at[p] \in 1 .. 23
    PROVE  [at EXCEPT ![p] = @ + 1] \in [Procs -> 1 .. 24]
OBVIOUS

LEMMA StepOwnTypes ==
    ASSUME OwnTypes, NEW p \in Procs, Step(p)
    PROVE  OwnTypes'
<1> USE DEF OwnTypes, Labels, Goto, Inside, At, Leave, Doing, history, tenantKeys, keys, locals
<1>0. p \in Networks
  BY DEF Networks
<1>1. CASE GetInfo(p) \/ GetInfoFails(p) \/ FindsNoInfo(p) \/ FindsInfo(p) \/ FindsError(p)
  BY <1>1 DEF GetInfo, GetInfoFails, FindsNoInfo, FindsInfo, FindsError
<1>2. ASSUME Advance(p), Steps[at[p]] # "info"
      PROVE  /\ at' \in [Procs -> 1 .. 24]
             /\ UNCHANGED <<pc, undo, failedAt>>
  <2>1. at[p] \in 1 .. 23
    BY <1>2, StepFacts
  <2>2. [at EXCEPT ![p] = @ + 1] \in [Procs -> 1 .. 24]
    BY <2>1, AdvanceType
  <2>3. QED
    BY <1>2, <2>2 DEF Advance
<1>3. ASSUME GiveUp(p)
      PROVE  /\ failedAt' \in [Procs -> StepNames \cup {"undo", None}]
             /\ undo' \in [Procs -> Seq(Objects)]
             /\ pc' \in [Procs -> Labels]
             /\ at' = at
  <2>1. Steps[at[p]] \in StepNames /\ CleanUp(Steps[at[p]]) \in Seq(Objects)
    BY StepFacts, CleanUpType
  <2>2. QED
    BY <1>3, <2>1 DEF GiveUp
<1>4. \A s \in Objects : Made(p, s) \in [Networks -> SUBSET Objects] /\ s # "info"
  BY <1>0 DEF Made, Objects, KeySteps
<1>5. CASE Create(p)
  <2>1. Steps[at[p]] # "info" /\ objs' \in [Networks -> SUBSET Objects]
    BY <1>4, <1>5 DEF Create
  <2>2. QED
    BY <1>2, <1>5, <2>1 DEF Create
<1>6. CASE CreateFails(p)
  <2>1. objs' \in [Networks -> SUBSET Objects]
    BY <1>4, <1>6 DEF CreateFails
  <2>2. QED
    BY <1>3, <1>6, <2>1 DEF CreateFails
<1>6a. CASE ParseProviderID(p)
  BY <1>2, <1>3, <1>6a DEF ParseProviderID
<1>7. CASE SaveRoute(p) \/ SaveRouter(p)
  BY <1>0, <1>2, <1>7 DEF SaveRoute, SaveRouter
<1>8. CASE SetRange(p) \/ FillPool(p)
  BY <1>2, <1>8 DEF SetRange, FillPool
<1>9. CASE SetRangeFails(p)
  BY <1>2, <1>3, <1>9 DEF SetRangeFails
<1>10. CASE SaveUsage(p)
  BY <1>0, <1>2, <1>10 DEF SaveUsage
<1>11. CASE SaveUsageFails(p)
  BY <1>0, <1>3, <1>11 DEF SaveUsageFails
<1>12. CASE SaveInfo(p)
  BY <1>12 DEF SaveInfo
<1>12a. CASE SaveInfoFails(p)
  <2>1. failedAt' \in [Procs -> StepNames \cup {"undo", None}]
    BY <1>12a, StepFacts DEF SaveInfoFails
  <2>2. info' \in BOOLEAN /\ pc' \in [Procs -> Labels]
    BY <1>12a DEF SaveInfoFails
  <2>3. QED
    BY <1>12a, <2>1, <2>2 DEF SaveInfoFails
<1>13. CASE DeleteObject(p)
  <2>1. undo[p] \in Seq(Objects) /\ undo[p] # <<>>
    BY <1>13 DEF DeleteObject
  <2>2. Tail(undo[p]) \in Seq(Objects)
    BY <2>1
  <2>3. objs' \in [Networks -> SUBSET Objects]
    <3>1. [objs EXCEPT ![p] = @ \ {Head(undo[p])}] \in [Networks -> SUBSET Objects]
      BY <1>0
    <3>2. QED
      BY <1>13, <3>1 DEF DeleteObject
  <2>4. failedAt' \in [Procs -> StepNames \cup {"undo", None}]
    BY <1>13 DEF DeleteObject
  <2>5. QED
    BY <1>13, <2>2, <2>3, <2>4 DEF DeleteObject
<1>14. CASE CleanedUp(p)
  BY <1>14 DEF CleanedUp
<1>15. CASE FindAddresses(p)
  BY <1>15 DEF FindAddresses, Linked
<1>16. CASE DeleteRoute(p)
  BY <1>16 DEF DeleteRoute
<1>17. CASE DeleteDir(p) \/ DeleteDirFails(p) \/ DeletePool(p)
  BY <1>17 DEF DeleteDir, DeleteDirFails, DeletePool
<1>18. CASE Release(p)
  BY <1>18 DEF Release
<1>19. CASE CallLock(p) \/ Unlock(p)
  BY <1>19 DEF CallLock, Unlock
<1>20. CASE Lock(p)
  <2>1. overlap' \in {"no", "lock", "delete"}
    BY <1>20 DEF Lock
  <2>2. QED
    BY <1>20, <2>1 DEF Lock
<1>21. QED
  BY <1>1, <1>5, <1>6, <1>6a, <1>7, <1>8, <1>9, <1>10, <1>11, <1>12, <1>12a, <1>13, <1>14, <1>15,
     <1>16, <1>17, <1>18, <1>19, <1>20, Zenon
  DEF Step, GetTenant, InitNetwork, DeleteTenant

LEMMA NextType == TypeOK /\ [Next]_vars => TypeOK'
<1> SUFFICES ASSUME TypeOK, [Next]_vars PROVE L!TypeOK' /\ OwnTypes'
  BY TypePartsNext
<1>0. L!TypeOK /\ OwnTypes
  BY TypeParts
<1>1. ASSUME NEW p \in Procs, Step(p) PROVE L!TypeOK' /\ OwnTypes'
  BY <1>0, <1>1, StepLockType, StepOwnTypes
<1>2. ASSUME NEW p \in Procs, StartGet(p) \/ StartDelete(p) PROVE L!TypeOK' /\ OwnTypes'
  <2>1. L!TypeOK'
    BY <1>0, <1>2, FaultType, LeaveType DEF StartGet, StartDelete, NoFault
  <2>2. OwnTypes'
    BY <1>0, <1>2 DEF StartGet, StartDelete, OwnTypes, Labels, Goto, history, keys,
       tenantKeys, locals
  <2>3. QED
    BY <2>1, <2>2
<1>3. ASSUME NEW p \in Procs, Crash(p) PROVE L!TypeOK' /\ OwnTypes'
  <2>1. L!TypeOK'
    BY <1>0, <1>3, LockStepType DEF Crash
  <2>2. halfDeleted' \subseteq Networks
    BY <1>0, <1>3 DEF Crash, OwnTypes
  <2>3. /\ overlap' = overlap /\ ignored' = ignored /\ failedAt' = failedAt
        /\ info' = info /\ usage' = usage /\ routerKey' = routerKey
        /\ routeKey' = routeKey /\ pool' = pool /\ objs' = objs /\ pc' = pc
        /\ at' = at /\ undo' = undo /\ found' = found
    BY <1>3 DEF Crash, keys, tenantKeys, locals
  <2>4. OwnTypes'
    BY <1>0, <2>2, <2>3, Zenon DEF OwnTypes
  <2>5. QED
    BY <2>1, <2>4
<1>4. CASE Expire
  <2>1. L!TypeOK'
    BY <1>0, <1>4, TenantAssumption
    DEF TenantAssumption, Expire, L!Expire, L!WakeWatchers, L!TypeOK
  <2>2. QED
    BY <1>0, <1>4, <2>1, OwnTypesStay DEF Expire
<1>5. CASE UNCHANGED vars
  <2>1. L!TypeOK'
    BY <1>0, <1>5 DEF vars, lockState, L!TypeOK
  <2>2. QED
    BY <1>0, <1>5, <2>1, OwnTypesStay DEF vars
<1>6. QED
  BY <1>1, <1>2, <1>3, <1>4, <1>5 DEF Next

\* The types of the lock, the keys, the objects in MidoNet and the variables of
\* the plugin: every step follows another, and every clean-up deletes objects.
THEOREM TypeCorrect == Spec => []TypeOK
BY InitType, NextType, PTL DEF Spec

-----------------------------------------------------------------------------
\* No tenant is initialised twice.

\* A process in initNetwork or in its clean-up has been let into the lock.
Entered ==
    \A p \in Procs : pc[p] \in {"step", "undo"} => phase[p] \in {"held", "dead"}

TenantInv ==
    /\ TypeOK
    /\ Entered
    /\ overlap # "no" \/ ~Overlap
    /\ NoSecondInit

\* What a step of p leaves alone, and when it may enter the lock.
LEMMA StepIsLocal ==
    ASSUME TypeOK, NEW p \in Procs, Step(p)
    PROVE  /\ \A q \in Procs \ {p} : pc'[q] = pc[q] /\ phase'[q] = phase[q]
           /\ phase'[p] = "held" => phase[p] = "held" \/ overlap' # "no" \/ ~Overlap'
           /\ overlap # "no" => overlap' # "no"
<1> USE DEF TypeOK, L!TypeOK, Goto, Leave, Doing, Advance, GiveUp, L!EnterUnlock, L!Move,
        lockState, history, tenantKeys, keys, locals
<1>1. CASE GetTenant(p)
  BY <1>1 DEF GetTenant, GetInfo, GetInfoFails, FindsNoInfo, FindsInfo, FindsError
<1>2. CASE InitNetwork(p)
  BY <1>2
  DEF InitNetwork, Create, CreateFails, ParseProviderID, SaveRoute, SaveRouter, SetRange, SetRangeFails,
      FillPool, SaveUsage, SaveUsageFails, SaveInfo, SaveInfoFails, DeleteObject, CleanedUp
<1>3. CASE DeleteTenant(p)
  BY <1>3
  DEF DeleteTenant, FindAddresses, DeleteRoute, DeleteDir, DeleteDirFails, DeletePool, Release
<1>4. CASE CallLock(p)
  BY <1>4 DEF CallLock, L!CallLock
<1>5. CASE Lock(p)
  <2>1. \A q \in Procs \ {p} : phase'[q] = phase[q]
    BY <1>5 DEF Lock, L!LockStep, L!SetCreates, L!SetExists, L!SetFails, L!GetFinds,
       L!GetMissing, L!ReadFails, L!WatchFires, L!NextAttempt
  <2>2. overlap # "no" => overlap' # "no"
    BY <1>5 DEF Lock
  <2>3. overlap' # "no" \/ ~Overlap'
    BY <1>5 DEF Lock
  <2>4. QED
    BY <1>5, <2>1, <2>2, <2>3 DEF Lock
<1>6. CASE Unlock(p)
  <2>1. phase' = [phase EXCEPT ![p] = "idle"] \/ phase' = phase
    BY <1>6 DEF Unlock, L!UnlockStep, L!DeleteRemoves, L!DeleteMissing, L!DeleteFails
  <2>2. \A q \in Procs \ {p} : pc'[q] = pc[q]
    BY <1>6 DEF Unlock
  <2>3. overlap' = overlap
    BY <1>6 DEF Unlock
  <2>4. QED
    BY <2>1, <2>2, <2>3
<1>7. QED
  BY <1>1, <1>2, <1>3, <1>4, <1>5, <1>6 DEF Step

\* How p comes to the steps of initNetwork, and who writes the info.
LEMMA StepEnters ==
    ASSUME TypeOK, Entered, NEW p \in Procs, Step(p)
    PROVE  /\ pc'[p] \in {"step", "undo"} =>
                 /\ phase'[p] = phase[p]
                 /\ phase[p] = "held"
                 /\ pc[p] \in {"step", "undo"} \/ ~info
                 /\ info' = info
           /\ info' = info \/ info' = FALSE \/ Inside(p, "step")
<1> USE DEF TypeOK, L!TypeOK, Entered, Goto, Leave, Doing, Advance, GiveUp, Inside, At,
        L!EnterUnlock, L!Move, lockState, history, tenantKeys, keys, locals
<1>1. CASE GetTenant(p)
  BY <1>1 DEF GetTenant, GetInfo, GetInfoFails, FindsNoInfo, FindsInfo, FindsError
<1>2. CASE InitNetwork(p)
  BY <1>2
  DEF InitNetwork, Create, CreateFails, ParseProviderID, SaveRoute, SaveRouter, SetRange, SetRangeFails,
      FillPool, SaveUsage, SaveUsageFails, SaveInfo, SaveInfoFails, DeleteObject, CleanedUp
<1>3. CASE DeleteTenant(p)
  BY <1>3
  DEF DeleteTenant, FindAddresses, DeleteRoute, DeleteDir, DeleteDirFails, DeletePool, Release
<1>4. CASE CallLock(p)
  BY <1>4 DEF CallLock
<1>5. CASE Lock(p)
  <2>1. phase[p] \in {"set", "get", "watch"}
    BY <1>5 DEF Lock, L!LockStep, L!SetCreates, L!SetExists, L!SetFails, L!GetFinds,
       L!GetMissing, L!ReadFails, L!WatchFires
  <2>2. QED
    BY <1>5, <2>1 DEF Lock
<1>6. CASE Unlock(p)
  <2>1. phase[p] = "delete"
    BY <1>6 DEF Unlock, L!UnlockStep, L!DeleteRemoves, L!DeleteMissing, L!DeleteFails
  <2>2. QED
    BY <1>6, <2>1 DEF Unlock
<1>7. QED
  BY <1>1, <1>2, <1>3, <1>4, <1>5, <1>6 DEF Step

LEMMA StepTenantInv ==
    ASSUME TenantInv, TypeOK', NEW p \in Procs, Step(p)
    PROVE  TenantInv'
<1>1. /\ TypeOK /\ Entered
      /\ \A q \in Procs \ {p} : pc'[q] = pc[q] /\ phase'[q] = phase[q]
      /\ phase'[p] = "held" => phase[p] = "held" \/ overlap' # "no" \/ ~Overlap'
      /\ overlap # "no" => overlap' # "no"
  BY StepIsLocal DEF TenantInv
<1>2. /\ pc'[p] \in {"step", "undo"} =>
            /\ phase'[p] = phase[p]
            /\ phase[p] = "held"
            /\ pc[p] \in {"step", "undo"} \/ ~info
            /\ info' = info
      /\ info' = info \/ info' = FALSE \/ Inside(p, "step")
  BY <1>1, StepEnters
<1>3. Entered'
  BY <1>1, <1>2 DEF Entered
<1>4. overlap' # "no" \/ ~Overlap'
  BY <1>1 DEF Overlap, TenantInv
<1>5. ASSUME overlap' = "no", NEW q \in Procs, Inside(q, "step")' \/ Inside(q, "undo")'
      PROVE  ~info'
  <2>1. overlap = "no" /\ ~Overlap
    BY <1>1, <1>5 DEF TenantInv
  <2>2. CASE q = p
    BY <1>1, <1>2, <1>5, <2>1, <2>2 DEF Inside, TenantInv, NoSecondInit
  <2>3. CASE q # p
    <3>1. (Inside(q, "step") \/ Inside(q, "undo")) /\ phase[q] = "held"
      BY <1>1, <1>5, <2>3 DEF Inside
    <3>2. ~info
      BY <2>1, <3>1 DEF TenantInv, NoSecondInit
    <3>3. ~Inside(p, "step")
      BY <2>1, <2>3, <3>1 DEF Overlap, Inside
    <3>4. QED
      BY <1>2, <3>2, <3>3
  <2>4. QED
    BY <2>2, <2>3
<1>6. QED
  BY <1>3, <1>4, <1>5 DEF TenantInv, NoSecondInit

\* A step that lets nobody in and writes no info.
LEMMA QuietTenantInv ==
    ASSUME TenantInv, TypeOK', info' = info, overlap' = overlap,
           \A p \in Procs :
               /\ pc'[p] = pc[p] \/ pc'[p] \notin {"step", "undo"}
               /\ phase'[p] = phase[p] \/ phase'[p] = "dead"
    PROVE  TenantInv'
<1>1. Entered'
  BY DEF TenantInv, Entered
<1>2. overlap' # "no" \/ ~Overlap'
  BY DEF TenantInv, Overlap
<1>3. NoSecondInit'
  BY DEF TenantInv, NoSecondInit, Inside
<1>4. QED
  BY <1>1, <1>2, <1>3 DEF TenantInv

LEMMA NextTenantInv == TenantInv /\ [Next]_vars => TenantInv'
<1> SUFFICES ASSUME TenantInv, [Next]_vars PROVE TenantInv'
  OBVIOUS
<1>0. TypeOK /\ TypeOK'
  BY NextType DEF TenantInv
<1>1. ASSUME NEW p \in Procs, Step(p) PROVE TenantInv'
  BY <1>0, <1>1, StepTenantInv
<1>2. ASSUME NEW p \in Procs, StartGet(p) \/ StartDelete(p) PROVE TenantInv'
  BY <1>0, <1>2, QuietTenantInv
  DEF StartGet, StartDelete, Goto, TypeOK, lockState, history, keys, tenantKeys
<1>3. ASSUME NEW p \in Procs, Crash(p) PROVE TenantInv'
  BY <1>0, <1>3, QuietTenantInv
  DEF Crash, L!Die, L!Move, TypeOK, L!TypeOK, history, keys, tenantKeys
<1>4. CASE Expire
  BY <1>0, <1>4, QuietTenantInv DEF Expire, L!Expire, history, keys, tenantKeys
<1>5. CASE UNCHANGED vars
  BY <1>0, <1>5, QuietTenantInv DEF vars, lockState, history, keys, tenantKeys
<1>6. QED
  BY <1>1, <1>2, <1>3, <1>4, <1>5 DEF Next

LEMMA InitTenantInv == Init => TenantInv
<1> SUFFICES ASSUME Init PROVE TenantInv
  OBVIOUS
<1>1. TypeOK
  BY InitType
<1>2. \A p \in Procs : pc[p] = "start" /\ phase[p] = "idle"
  BY DEF Init, L!Init
<1>3. QED
  BY <1>1, <1>2 DEF TenantInv, Entered, Overlap, NoSecondInit, Inside

\* As long as no two processes have been inside the lock at once, nobody makes
\* a network, or fills the pool, of a tenant that is there, whoever dies and
\* whatever fails.
THEOREM InitialisedOnce == Spec => []NoSecondInit
<1>1. TenantInv => NoSecondInit
  BY DEF TenantInv
<1>2. QED
  BY <1>1, InitTenantInv, NextTenantInv, PTL DEF Spec

-----------------------------------------------------------------------------
\* The waiters.

\* The lock's own steps, as in EtcdMutex_proofs.
LEMMA LockReaches ==
    ASSUME L!TypeOK, WaitersReached, NEW p \in Procs,
           \/ L!CallLock(p) \/ L!LockStep(p) \/ L!UnlockStep(p) \/ L!EnterUnlock(p)
           \/ L!Die(p) \/ L!Expire
    PROVE  WaitersReached'
<1> SUFFICES ASSUME NEW q \in Procs, phase'[q] = "watch", ~woken'[q]
             PROVE  node' # Nobody
  BY DEF WaitersReached, L!NoLostWakeup
<1>1. /\ phase \in [Procs -> L!Phases] /\ woken \in [Procs -> BOOLEAN]
      /\ phase[q] = "watch" /\ ~woken[q] => node # Nobody
      /\ Nobody \notin Procs
  BY TenantAssumption DEF TenantAssumption, L!TypeOK, WaitersReached, L!NoLostWakeup
<1> USE <1>1 DEF L!Move, L!Fault
<1>2. CASE L!CallLock(p) \/ L!EnterUnlock(p) \/ L!Die(p)
  BY <1>2 DEF L!CallLock, L!EnterUnlock, L!Die
<1>3. CASE L!LockStep(p)
  <2>1. CASE L!SetCreates(p) \/ L!SetExists(p) \/ L!WatchFires(p)
    BY <2>1 DEF L!SetCreates, L!SetExists, L!WatchFires
  <2>2. CASE L!GetFinds(p)
    BY <2>2 DEF L!GetFinds
  <2>3. CASE L!SetFails(p) \/ L!GetMissing(p) \/ L!ReadFails(p)
    BY <2>3 DEF L!SetFails, L!GetMissing, L!ReadFails, L!NextAttempt
  <2>4. QED
    BY <1>3, <2>1, <2>2, <2>3 DEF L!LockStep
\* Whoever was watching when the node went away has been woken.
<1>4. ASSUME L!WakeWatchers, phase'[q] = phase[q] \/ phase'[q] = "idle" PROVE FALSE
  BY <1>4, Zenon DEF L!WakeWatchers
<1>5. CASE L!UnlockStep(p)
  <2>1. CASE L!DeleteRemoves(p)
    BY <1>4, <2>1 DEF L!DeleteRemoves
  <2>2. CASE L!DeleteMissing(p)
    BY <2>2 DEF L!DeleteMissing
  <2>3. CASE L!DeleteFails(p)
    BY <1>4, <2>3 DEF L!DeleteFails
  <2>4. QED
    BY <1>5, <2>1, <2>2, <2>3 DEF L!UnlockStep
<1>6. CASE L!Expire
  BY <1>4, <1>6 DEF L!Expire
<1>7. QED
  BY <1>2, <1>3, <1>5, <1>6

LEMMA NextReaches == TypeOK /\ WaitersReached /\ [Next]_vars => WaitersReached'
<1> SUFFICES ASSUME TypeOK, WaitersReached, [Next]_vars PROVE WaitersReached'
  OBVIOUS
<1>1. L!TypeOK
  BY DEF TypeOK
<1>2. ASSUME UNCHANGED lockState PROVE WaitersReached'
  BY <1>2 DEF WaitersReached, L!NoLostWakeup, lockState
<1>3. ASSUME NEW p \in Procs, Step(p) PROVE WaitersReached'
  <2>1. CASE CallLock(p) \/ Lock(p) \/ Unlock(p)
    BY <1>1, <2>1, LockReaches DEF CallLock, Lock, Unlock
  <2>2. CASE DeleteDir(p)
    \* Its watchers see a delete.
    <3>1. phase' = phase /\ L!WakeWatchers
      BY <2>2 DEF DeleteDir
    <3>2. \A q \in Procs : phase'[q] = "watch" => woken'[q]
      BY <3>1, Zenon DEF L!WakeWatchers
    <3>3. QED
      BY <3>2 DEF WaitersReached, L!NoLostWakeup
  <2>3. CASE L!EnterUnlock(p)
    BY <1>1, <2>3, LockReaches
  <2>4. UNCHANGED lockState \/ L!EnterUnlock(p) \/ CallLock(p) \/ Lock(p) \/ Unlock(p)
        \/ DeleteDir(p)
    BY <1>3
    DEF Step, GetTenant, GetInfo, GetInfoFails, FindsNoInfo, FindsInfo, FindsError,
        InitNetwork, Create, CreateFails, ParseProviderID, SaveRoute, SaveRouter, SetRange, SetRangeFails,
        FillPool, SaveUsage, SaveUsageFails, SaveInfo, SaveInfoFails, DeleteObject,
        CleanedUp, DeleteTenant, FindAddresses, DeleteRoute, DeleteDirFails, DeletePool,
        Release, Leave
  <2>5. QED
    BY <1>2, <2>1, <2>2, <2>3, <2>4
<1>4. ASSUME NEW p \in Procs, StartGet(p) \/ StartDelete(p) PROVE WaitersReached'
  BY <1>2, <1>4 DEF StartGet, StartDelete
<1>5. ASSUME NEW p \in Procs, Crash(p) PROVE WaitersReached'
  BY <1>1, <1>5, LockReaches DEF Crash
<1>6. CASE Expire
  <2>1. PICK p \in Procs : TRUE
    BY <1>1, <1>6 DEF Expire, L!Expire, L!TypeOK
  <2>2. QED
    BY <1>1, <1>6, <2>1, LockReaches DEF Expire
<1>7. CASE UNCHANGED vars
  BY <1>2, <1>7 DEF vars
<1>8. QED
  BY <1>3, <1>4, <1>5, <1>6, <1>7 DEF Next

\* Whatever fails or dies, and also while DeleteTenant deletes the directory the
\* lock's node is in, a process inside watcher.Next has an event to come.
THEOREM WaitersAreReached == Spec => []WaitersReached
<1>1. Init => WaitersReached
  BY DEF Init, L!Init, WaitersReached, L!NoLostWakeup
<1>2. QED
  BY <1>1, NextReaches, TypeCorrect, PTL DEF Spec

-----------------------------------------------------------------------------
\* A tenant whose info is there is whole.

\* Where a process is in the lock, and that initNetwork starts at its first step.
Control ==
    \A p \in Procs :
        /\ pc[p] \in {"step", "undo", "route", "dir", "pool", "release"} =>
              phase[p] \in {"held", "dead"}
        /\ pc[p] \in {"start", "get", "init"} => at[p] = 1

Calm == overlap = "no" /\ ~ignored

\* What there is when initNetwork has come to a step.
Progress(p) ==
    Inside(p, "step") =>
        /\ \A i \in 1 .. 23 : i < at[p] /\ Steps[i] \in Objects => Steps[i] \in objs[p]
        /\ at[p] > 16 => "iprange" \in pool
        /\ at[p] > 17 => "addresses" \in pool
        /\ at[p] > 22 => routerKey = p
        /\ at[p] > 23 => usage = p

\* A deletion has deleted the info before the pool and the addresses.
Gone(p) == Inside(p, "pool") \/ Inside(p, "release") => ~info

WholeInv ==
    /\ TenantInv
    /\ Control
    /\ WholeUnlessOverlap
    /\ Calm => \A p \in Procs : Progress(p) /\ Gone(p)

LEMMA KeySteppingFacts ==
    /\ Steps[11] = "routeKey" /\ Steps[16] = "range" /\ Steps[17] = "fill"
    /\ Steps[22] = "routerKey" /\ Steps[23] = "usage" /\ Steps[24] = "info"
    /\ \A i \in 1 .. 23 : Steps[i] # "info"
BY DEF Steps

\* The objects are what the steps but the last make.
LEMMA ObjectSteps == \A s \in Objects : \E i \in 1 .. 23 : s = Steps[i]
<1> SUFFICES ASSUME NEW s \in Objects PROVE \E i \in 1 .. 23 : s = Steps[i]
  OBVIOUS
<1>1. PICK i \in 1 .. 24 : s = Steps[i]
  BY StepFacts DEF Objects, StepNames
<1>2. i # 24
  BY <1>1, KeySteppingFacts DEF Objects, KeySteps
<1>3. QED
  BY <1>1, <1>2

LEMMA StepControl ==
    ASSUME TypeOK, Control, NEW p \in Procs, Step(p)
    PROVE  Control'
<1>0. /\ pc \in [Procs -> Labels] /\ phase \in [Procs -> L!Phases] /\ at \in [Procs -> 1 .. 24]
  BY TypeParts DEF OwnTypes, L!TypeOK
<1>1. \A q \in Procs \ {p} : pc'[q] = pc[q] /\ phase'[q] = phase[q]
  BY StepIsLocal
<1>2. \A q \in Procs \ {p} : at'[q] = at[q]
  BY <1>0
  DEF Step, GetTenant, InitNetwork, DeleteTenant, GetInfo, GetInfoFails, FindsNoInfo,
      FindsInfo, FindsError, Create, CreateFails, ParseProviderID, SaveRoute, SaveRouter, SetRange,
      SetRangeFails, FillPool, SaveUsage, SaveUsageFails, SaveInfo, SaveInfoFails,
      DeleteObject, CleanedUp, FindAddresses, DeleteRoute, DeleteDir, DeleteDirFails,
      DeletePool, Release, CallLock, Lock, Unlock, Advance, GiveUp, locals
<1>3. /\ pc'[p] \in {"step", "undo", "route", "dir", "pool", "release"} =>
            phase'[p] \in {"held", "dead"}
      /\ pc'[p] \in {"start", "get", "init"} => at'[p] = 1
  <2> USE <1>0 DEF Control, Goto, Leave, Doing, Inside, At, L!EnterUnlock, L!Move, lockState, locals
  <2>1. CASE GetTenant(p)
    BY <2>1 DEF GetTenant, GetInfo, GetInfoFails, FindsNoInfo, FindsInfo, FindsError
  <2>2. CASE InitNetwork(p)
    BY <2>2
    DEF InitNetwork, Create, CreateFails, ParseProviderID, SaveRoute, SaveRouter, SetRange, SetRangeFails,
        FillPool, SaveUsage, SaveUsageFails, SaveInfo, SaveInfoFails, DeleteObject, CleanedUp,
        Advance, GiveUp
  <2>3. CASE DeleteTenant(p)
    BY <2>3
    DEF DeleteTenant, FindAddresses, DeleteRoute, DeleteDir, DeleteDirFails, DeletePool, Release
  <2>4. CASE CallLock(p)
    BY <2>4 DEF CallLock
  <2>5. CASE Lock(p)
    <3>1. phase[p] \in {"set", "get", "watch"}
      BY <2>5 DEF Lock, L!LockStep, L!SetCreates, L!SetExists, L!SetFails, L!GetFinds,
         L!GetMissing, L!ReadFails, L!WatchFires
    <3>2. pc' = pc /\ at' = at
      BY <2>5 DEF Lock
    <3>3. QED
      BY <3>1, <3>2
  <2>6. CASE Unlock(p)
    <3>1. phase[p] = "delete"
      BY <2>6 DEF Unlock, L!UnlockStep, L!DeleteRemoves, L!DeleteMissing, L!DeleteFails
    <3>2. (pc'[p] = "done" \/ pc'[p] = pc[p]) /\ at' = at
      BY <2>6 DEF Unlock
    <3>3. QED
      BY <3>1, <3>2
  <2>7. QED
    BY <2>1, <2>2, <2>3, <2>4, <2>5, <2>6 DEF Step
<1>4. QED
  BY <1>1, <1>2, <1>3 DEF Control

\* A step of initNetwork that has done its work brings it to the next one.
LEMMA AdvanceProgress ==
    ASSUME TypeOK, NEW p \in Procs, Inside(p, "step"), Progress(p), Advance(p),
           pool \subseteq pool', objs[p] \subseteq objs'[p],
           routerKey' \in {routerKey, p}, usage' \in {usage, p},
           Steps[at[p]] \in Objects => Steps[at[p]] \in objs'[p],
           Steps[at[p]] = "range" => "iprange" \in pool',
           Steps[at[p]] = "fill" => "addresses" \in pool',
           Steps[at[p]] = "routerKey" => routerKey' = p,
           Steps[at[p]] = "usage" => usage' = p
    PROVE  Progress(p)'
<1>1. at \in [Procs -> 1 .. 24] /\ at'[p] = at[p] + 1
  BY TypeParts DEF OwnTypes, Advance
<1>2. ASSUME NEW i \in 1 .. 23, i < at'[p], Steps[i] \in Objects
      PROVE  Steps[i] \in objs'[p]
  <2>1. CASE i < at[p]
    BY <1>2, <2>1 DEF Progress
  <2>2. CASE i = at[p]
    BY <1>2, <2>2
  <2>3. QED
    BY <1>1, <1>2, <2>1, <2>2
<1>3. at'[p] > 16 => "iprange" \in pool'
  <2>1. CASE at[p] > 16
    BY <2>1 DEF Progress
  <2>2. CASE at[p] = 16
    BY <2>2, KeySteppingFacts
  <2>3. QED
    BY <1>1, <2>1, <2>2
<1>4. at'[p] > 17 => "addresses" \in pool'
  <2>1. CASE at[p] > 17
    BY <2>1 DEF Progress
  <2>2. CASE at[p] = 17
    BY <2>2, KeySteppingFacts
  <2>3. QED
    BY <1>1, <2>1, <2>2
<1>5. at'[p] > 22 => routerKey' = p
  <2>1. CASE at[p] > 22
    BY <2>1 DEF Progress
  <2>2. CASE at[p] = 22
    BY <2>2, KeySteppingFacts
  <2>3. QED
    BY <1>1, <2>1, <2>2
<1>6. at'[p] > 23 => usage' = p
  <2>1. CASE at[p] > 23
    BY <2>1 DEF Progress
  <2>2. CASE at[p] = 23
    BY <2>2, KeySteppingFacts
  <2>3. QED
    BY <1>1, <2>1, <2>2
<1>7. QED
  BY <1>2, <1>3, <1>4, <1>5, <1>6 DEF Progress

\* After the last step the network is whole.
LEMMA ProgressWhole ==
    ASSUME TypeOK, NEW p \in Procs, Inside(p, "step"), Progress(p), Steps[at[p]] = "info"
    PROVE  /\ usage = p /\ routerKey = p
           /\ Objects \subseteq objs[p]
           /\ pool = {"iprange", "addresses"}
<1>1. at[p] \in 1 .. 24 /\ pool \subseteq {"iprange", "addresses"}
  BY TypeParts DEF OwnTypes
<1>2. at[p] = 24
  BY <1>1, KeySteppingFacts
<1>3. usage = p /\ routerKey = p /\ {"iprange", "addresses"} \subseteq pool
  BY <1>2 DEF Progress
<1>4. ASSUME NEW s \in Objects PROVE s \in objs[p]
  <2>1. PICK i \in 1 .. 23 : s = Steps[i]
    BY ObjectSteps
  <2>2. i < at[p]
    BY <1>2
  <2>3. QED
    BY <2>1, <2>2, <1>4 DEF Progress
<1>5. pool = {"iprange", "addresses"}
  BY <1>1, <1>3
<1>6. QED
  BY <1>3, <1>4, <1>5

\* What is there stays, and so does what excuses the lack of the route.
LEMMA WholeStays ==
    ASSUME WholeUnlessOverlap, Calm' => Calm,
           UNCHANGED <<info, usage, routerKey, pool, objs>>,
           usage \in halfDeleted => usage \in halfDeleted',
           \A p \in Procs : Calm /\ info /\ Inside(p, "dir") =>
               Inside(p, "dir")' \/ usage \in halfDeleted'
    PROVE  WholeUnlessOverlap'
<1> DEFINE Excused == usage \in halfDeleted \/ \E p \in Procs : Inside(p, "dir")
<1>1. SUFFICES ASSUME Calm', info PROVE Whole(IF Excused THEN {"inRoute"} ELSE {})'
  BY DEF WholeUnlessOverlap, Calm, Whole
<1>2. Excused => Excused'
  BY <1>1
<1>3. Whole(IF Excused THEN {"inRoute"} ELSE {})
  BY <1>1 DEF WholeUnlessOverlap, Calm
<1>4. info' = info /\ usage' = usage /\ routerKey' = routerKey /\ pool' = pool /\ objs' = objs
  OBVIOUS
<1> HIDE DEF Excused
<1>5. QED
  BY <1>1, <1>2, <1>3, <1>4 DEF Whole

\* What a process does outside the lock leaves everything as it is.
LEMMA OutsideStep ==
    ASSUME TypeOK, Control, NEW p \in Procs,
           GetInfo(p) \/ GetInfoFails(p) \/ CallLock(p) \/ Lock(p) \/ Unlock(p)
    PROVE  /\ UNCHANGED <<keys, objs, at, ignored, halfDeleted>>
           /\ ~Inside(p, "dir")
           /\ pc'[p] \notin {"step", "pool", "release"}
<1> USE TypeParts DEF OwnTypes, L!TypeOK, Control, locals, history, Goto, At, Inside
<1>1. CASE GetInfo(p) \/ GetInfoFails(p)
  BY <1>1 DEF GetInfo, GetInfoFails
<1>2. CASE CallLock(p)
  BY <1>2 DEF CallLock
<1>3. CASE Lock(p)
  <2>1. phase[p] \in {"set", "get", "watch"}
    BY <1>3 DEF Lock, L!LockStep, L!SetCreates, L!SetExists, L!SetFails, L!GetFinds,
       L!GetMissing, L!ReadFails, L!WatchFires
  <2>2. QED
    BY <1>3, <2>1 DEF Lock
<1>4. CASE Unlock(p)
  <2>1. phase[p] = "delete"
    BY <1>4 DEF Unlock, L!UnlockStep, L!DeleteRemoves, L!DeleteMissing, L!DeleteFails
  <2>2. QED
    BY <1>4, <2>1 DEF Unlock
<1>5. QED
  BY <1>1, <1>2, <1>3, <1>4

\* A step of initNetwork: there is no info until the last.
LEMMA InitNetworkWhole ==
    ASSUME WholeInv, Calm, Calm', NEW p \in Procs, InitNetwork(p)
    PROVE  /\ phase[p] = "held"
           /\ pc'[p] \notin {"pool", "release"}
           /\ Progress(p)'
           /\ Whole({})'
<1> USE DEF Doing
<1>0. TypeOK /\ Progress(p) /\ pc \in [Procs -> Labels] /\ objs \in [Networks -> SUBSET Objects]
  BY TypeParts DEF WholeInv, TenantInv, OwnTypes
<1>1. ASSUME Inside(p, "step") \/ Inside(p, "undo") PROVE ~info
  BY <1>1 DEF WholeInv, TenantInv, NoSecondInit, Calm
<1>2. ASSUME GiveUp(p)
      PROVE  pc'[p] = "undo" /\ Progress(p)'
  BY <1>0, <1>2 DEF GiveUp, Goto, Progress, Inside
<1>3. ASSUME Advance(p) PROVE pc' = pc
  BY <1>3 DEF Advance
<1>4. p \in Networks /\ p # None
  BY TenantAssumption DEF TenantAssumption, Networks
<1>5. CASE Create(p)
  <2>1. Steps[at[p]] \in Objects /\ Steps[at[p]] \in objs'[p] /\ objs[p] \subseteq objs'[p]
    BY <1>0, <1>4, <1>5 DEF Create, Made
  <2>2. Steps[at[p]] \notin KeySteps
    BY <2>1 DEF Objects
  <2>3. Progress(p)'
    BY <1>0, <1>5, <2>1, <2>2, AdvanceProgress DEF Create, keys, tenantKeys, KeySteps
  <2>4. QED
    BY <1>0, <1>1, <1>3, <1>5, <2>3 DEF Create, Inside, Whole, keys, tenantKeys
<1>6. CASE CreateFails(p)
  BY <1>1, <1>2, <1>6 DEF CreateFails, Inside, Whole, keys, tenantKeys
<1>6a. CASE ParseProviderID(p)
  <2>1. /\ Steps[at[p]] = "providerID" /\ Inside(p, "step")
        /\ UNCHANGED <<info, usage, routerKey, pool, objs>>
    BY <1>6a DEF ParseProviderID, keys, tenantKeys
  <2>2. CASE Advance(p)
    <3>1. Steps[at[p]] \notin Objects
      BY <2>1 DEF Objects
    <3>2. Progress(p)'
      BY <1>0, <2>1, <2>2, <3>1, AdvanceProgress
    <3>3. QED
      BY <1>0, <1>1, <1>3, <2>1, <2>2, <3>2 DEF Inside, Whole
  <2>3. CASE GiveUp(p)
    BY <1>1, <1>2, <2>1, <2>3 DEF Inside, Whole
  <2>4. QED
    BY <1>6a, <2>2, <2>3 DEF ParseProviderID
<1>7. CASE SaveRoute(p) \/ SaveRouter(p)
  <2>1. Steps[at[p]] \in {"routeKey", "routerKey"} /\ Inside(p, "step") /\ Advance(p)
    BY <1>7 DEF SaveRoute, SaveRouter
  <2>2. Steps[at[p]] \notin Objects
    BY <2>1 DEF Objects, KeySteps
  <2>3. /\ Steps[at[p]] = "routerKey" => routerKey' = p
        /\ routerKey' \in {routerKey, p} /\ UNCHANGED <<pool, usage, objs, info>>
    <3>1. CASE SaveRoute(p)
      BY <3>1 DEF SaveRoute, tenantKeys
    <3>2. CASE SaveRouter(p)
      BY <3>2 DEF SaveRouter, Calm
    <3>3. QED
      BY <1>7, <3>1, <3>2
  <2>4. Progress(p)'
    BY <1>0, <2>1, <2>2, <2>3, AdvanceProgress
  <2>5. QED
    BY <1>0, <1>1, <1>3, <2>1, <2>3, <2>4 DEF Inside, Whole
<1>8. CASE SetRange(p) \/ FillPool(p)
  <2>1. Steps[at[p]] \in {"range", "fill"} /\ Inside(p, "step") /\ Advance(p)
    BY <1>8 DEF SetRange, FillPool
  <2>2. Steps[at[p]] \notin Objects
    BY <2>1 DEF Objects, KeySteps
  <2>3. /\ Steps[at[p]] = "range" => "iprange" \in pool'
        /\ Steps[at[p]] = "fill" => "addresses" \in pool'
        /\ pool \subseteq pool' /\ UNCHANGED <<routerKey, usage, objs, info>>
    BY <1>8 DEF SetRange, FillPool, tenantKeys
  <2>4. Progress(p)'
    BY <1>0, <2>1, <2>2, <2>3, AdvanceProgress
  <2>5. QED
    BY <1>0, <1>1, <1>3, <2>1, <2>3, <2>4 DEF Inside, Whole
<1>9. CASE SetRangeFails(p)
  BY <1>1, <1>2, <1>9 DEF SetRangeFails, Inside, Whole, tenantKeys, Calm
<1>10. CASE SaveUsage(p)
  <2>1. Steps[at[p]] \notin Objects
    BY <1>10 DEF SaveUsage, Objects, KeySteps
  <2>2. Progress(p)'
    BY <1>0, <1>10, <2>1, AdvanceProgress DEF SaveUsage
  <2>3. QED
    BY <1>0, <1>1, <1>3, <1>10, <2>2 DEF SaveUsage, Inside, Whole
<1>11. CASE SaveUsageFails(p)
  BY <1>1, <1>2, <1>11 DEF SaveUsageFails, Inside, Whole
<1>12. CASE SaveInfo(p) \/ SaveInfoFails(p)
  <2>1. Inside(p, "step") /\ Steps[at[p]] = "info" /\ Leave(p)
    BY <1>12 DEF SaveInfo, SaveInfoFails
  <2>2. UNCHANGED <<usage, routerKey, pool, objs>>
    BY <1>12 DEF SaveInfo, SaveInfoFails
  <2>3. Whole({})'
    BY <1>0, <1>4, <2>1, <2>2, ProgressWhole DEF Whole
  <2>4. pc'[p] = "unlock"
    BY <1>0, <2>1 DEF Leave, Goto
  <2>5. QED
    BY <2>1, <2>3, <2>4 DEF Inside, Progress
<1>13. CASE DeleteObject(p)
  BY <1>0, <1>1, <1>13 DEF DeleteObject, Inside, Whole, Progress, keys, tenantKeys
<1>14. CASE CleanedUp(p)
  BY <1>0, <1>1, <1>14 DEF CleanedUp, Inside, Whole, Progress, keys, tenantKeys, Leave, Goto
<1>15. QED
  BY <1>5, <1>6, <1>6a, <1>7, <1>8, <1>9, <1>10, <1>11, <1>12, <1>13, <1>14 DEF InitNetwork

\* A step of DeleteTenant: the route goes first, then the info, then the rest.
LEMMA DeleteTenantWhole ==
    ASSUME WholeInv, Calm, Calm', NEW p \in Procs, DeleteTenant(p)
    PROVE  /\ phase[p] = "held"
           /\ Progress(p)' /\ Gone(p)'
           /\ WholeUnlessOverlap'
<1>0. TypeOK /\ Gone(p) /\ pc \in [Procs -> Labels] /\ objs \in [Networks -> SUBSET Objects]
  BY TypeParts DEF WholeInv, TenantInv, OwnTypes
<1>1. phase[p] = "held"
  BY DEF DeleteTenant, FindAddresses, DeleteRoute, DeleteDir, DeleteDirFails, DeletePool,
     Release, Inside
<1>2. Progress(p)'
  BY <1>0
  DEF DeleteTenant, FindAddresses, DeleteRoute, DeleteDir, DeleteDirFails, DeletePool,
      Release, Leave, Goto, Progress, Inside
<1>3. ASSUME NEW b PROVE ~info' => Whole(b)'
  BY DEF Whole
<1>4. Gone(p)' /\ WholeUnlessOverlap'
  <2>1. CASE FindAddresses(p)
    <3>1. /\ UNCHANGED <<info, usage, routerKey, pool, objs, halfDeleted, phase>>
          /\ pc[p] = "delete" /\ pc'[p] = "route"
      BY <1>0, <2>1 DEF FindAddresses, Inside, Goto, keys, tenantKeys, history, lockState
    <3>2. \A q \in Procs : Inside(q, "dir") => Inside(q, "dir")'
      BY <1>0, <2>1, <3>1 DEF FindAddresses, Goto, Inside
    <3>3. WholeUnlessOverlap'
      BY <3>1, <3>2, WholeStays DEF WholeInv
    <3>4. QED
      BY <3>1, <3>3 DEF Gone, Inside
  <2>2. CASE DeleteRoute(p)
    <3>1. UNCHANGED <<info, usage, routerKey, pool>> /\ pc'[p] = "dir" /\ phase'[p] = "held"
      BY <1>0, <1>1, <2>2 DEF DeleteRoute, Goto, keys, tenantKeys, lockState
    <3>2. \A n \in Networks : objs[n] \ {"inRoute"} \subseteq objs'[n]
      BY <1>0, <2>2 DEF DeleteRoute
    <3>3. info => /\ usage # None /\ routerKey = usage
                  /\ Objects \ {"inRoute"} \subseteq objs[usage]
                  /\ pool = {"iprange", "addresses"}
      BY DEF WholeInv, WholeUnlessOverlap, Whole, Calm
    <3>4. info => usage \in Networks
      BY <1>0, <3>3, TypeParts DEF OwnTypes
    <3>5. info => Objects \ {"inRoute"} \subseteq objs'[usage]
      BY <3>2, <3>3, <3>4
    <3>6. Whole({"inRoute"})'
      BY <3>1, <3>3, <3>5 DEF Whole
    <3>7. QED
      BY <3>1, <3>6 DEF WholeUnlessOverlap, Gone, Inside
  <2>3. CASE DeleteDir(p)
    <3>1. ~info'
      BY <2>3 DEF DeleteDir
    <3>2. QED
      BY <1>3, <3>1 DEF WholeUnlessOverlap, Gone
  <2>4. CASE DeleteDirFails(p)
    BY <2>4 DEF DeleteDirFails, Calm
  <2>5. CASE DeletePool(p) \/ Release(p)
    <3>1. ~info /\ info' = info
      BY <1>0, <2>5 DEF DeletePool, Release, Gone, keys, tenantKeys
    <3>2. QED
      BY <1>3, <3>1 DEF WholeUnlessOverlap, Gone
  <2>6. QED
    BY <2>1, <2>2, <2>3, <2>4, <2>5 DEF DeleteTenant
<1>5. QED
  BY <1>1, <1>2, <1>4

\* What a process that has just been let in finds: no info, and nothing made.
LEMMA GetTenantWhole ==
    ASSUME WholeInv, Calm, Calm', NEW p \in Procs,
           FindsNoInfo(p) \/ FindsInfo(p) \/ FindsError(p)
    PROVE  /\ phase[p] = "held"
           /\ Progress(p)' /\ Gone(p)'
           /\ WholeUnlessOverlap'
<1> USE DEF FindsNoInfo, FindsInfo, FindsError
<1>0. /\ pc \in [Procs -> Labels] /\ at[p] = 1 /\ pc[p] = "init"
      /\ UNCHANGED <<info, usage, routerKey, pool, objs, at, halfDeleted>>
  BY TypeParts
  DEF WholeInv, TenantInv, OwnTypes, Control, Inside, keys, tenantKeys, locals, history
<1>1. phase[p] = "held"
  BY DEF Inside
<1>2. pc'[p] \in {"step", "unlock"} /\ \A q \in Procs \ {p} : pc'[q] = pc[q]
  BY <1>0 DEF Leave, Goto
<1>3. Progress(p)' /\ Gone(p)'
  BY <1>0, <1>2 DEF Progress, Gone, Inside
<1>4. \A q \in Procs : Inside(q, "dir") => Inside(q, "dir")'
  BY <1>0, <1>2, StepIsLocal DEF Inside, Step, GetTenant, WholeInv, TenantInv
<1>5. WholeUnlessOverlap'
  BY <1>0, <1>4, WholeStays DEF WholeInv
<1>6. QED
  BY <1>1, <1>3, <1>5

LEMMA StepWholeInv ==
    ASSUME WholeInv, TenantInv', NEW p \in Procs, Step(p)
    PROVE  WholeInv'
<1>0. TypeOK /\ Control /\ TypeOK'
  BY DEF WholeInv, TenantInv
<1>1. Control'
  BY <1>0, StepControl
<1>2. SUFFICES ASSUME Calm'
               PROVE  WholeUnlessOverlap' /\ \A q \in Procs : Progress(q)' /\ Gone(q)'
  BY <1>1 DEF WholeInv, WholeUnlessOverlap, Calm
<1>3. \A q \in Procs \ {p} : pc'[q] = pc[q] /\ phase'[q] = phase[q]
  BY <1>0, StepIsLocal
<1>4. Calm
  <2>1. overlap = "no"
    BY <1>0, <1>2, StepIsLocal DEF Calm
  <2>2. ignored => ignored'
    <3>1. ignored' = ignored \/ ignored' = TRUE
      BY DEF Step, GetTenant, InitNetwork, DeleteTenant, GetInfo, GetInfoFails, FindsNoInfo,
         FindsInfo, FindsError, Create, CreateFails, ParseProviderID, SaveRoute, SaveRouter, SetRange,
         SetRangeFails, FillPool, SaveUsage, SaveUsageFails, SaveInfo, SaveInfoFails,
         DeleteObject, CleanedUp, FindAddresses, DeleteRoute, DeleteDir, DeleteDirFails,
         DeletePool, Release, CallLock, Lock, Unlock, history
    <3>2. QED
      BY <3>1
  <2>3. QED
    BY <1>2, <2>1, <2>2 DEF Calm
<1>5. \A q \in Procs : Progress(q) /\ Gone(q)
  BY <1>4 DEF WholeInv
<1>6. ASSUME phase[p] = "held", NEW q \in Procs \ {p}
      PROVE  Progress(q)' /\ Gone(q)'
  <2>1. phase[q] # "held"
    BY <1>4, <1>6 DEF WholeInv, TenantInv, Overlap, Calm
  <2>2. QED
    BY <1>3, <2>1 DEF Progress, Gone, Inside
<1>7. CASE GetInfo(p) \/ GetInfoFails(p) \/ CallLock(p) \/ Lock(p) \/ Unlock(p)
  <2>1. /\ UNCHANGED <<keys, objs, at, ignored, halfDeleted>>
        /\ ~Inside(p, "dir")
        /\ pc'[p] \notin {"step", "pool", "release"}
    BY <1>0, <1>7, OutsideStep
  <2>2. UNCHANGED <<info, usage, routerKey, pool, objs, at>>
    BY <2>1 DEF keys, tenantKeys
  <2>3. Progress(p)' /\ Gone(p)'
    BY <2>1 DEF Progress, Gone, Inside
  <2>4. \A q \in Procs \ {p} : Progress(q)' /\ Gone(q)'
    BY <1>3, <1>5, <2>2 DEF Progress, Gone, Inside
  <2>5. \A q \in Procs : Inside(q, "dir") => Inside(q, "dir")'
    BY <1>3, <2>1 DEF Inside
  <2>6. WholeUnlessOverlap'
    BY <1>2, <1>4, <2>1, <2>2, <2>5, WholeStays DEF WholeInv
  <2>7. QED
    BY <2>3, <2>4, <2>6
<1>8. CASE FindsNoInfo(p) \/ FindsInfo(p) \/ FindsError(p)
  BY <1>2, <1>4, <1>6, <1>8, GetTenantWhole
<1>9. CASE InitNetwork(p)
  <2>1. /\ phase[p] = "held" /\ pc'[p] \notin {"pool", "release"}
        /\ Progress(p)' /\ Whole({})'
    BY <1>2, <1>4, <1>9, InitNetworkWhole
  <2>2. Gone(p)'
    BY <2>1 DEF Gone, Inside
  <2>3. WholeUnlessOverlap'
    BY <2>1 DEF WholeUnlessOverlap, Whole
  <2>4. QED
    BY <1>6, <2>1, <2>2, <2>3
<1>10. CASE DeleteTenant(p)
  BY <1>2, <1>4, <1>6, <1>10, DeleteTenantWhole
<1>11. QED
  BY <1>7, <1>8, <1>9, <1>10 DEF Step, GetTenant

\* A step that changes nothing but where processes are outside the lock.
LEMMA QuietWholeInv ==
    ASSUME WholeInv, TenantInv', UNCHANGED <<overlap, ignored, keys, objs, locals>>,
           usage \in halfDeleted => usage \in halfDeleted',
           \A p \in Procs : Calm /\ info /\ Inside(p, "dir") =>
               Inside(p, "dir")' \/ usage \in halfDeleted',
           \A p \in Procs :
               /\ pc'[p] = pc[p] \/ (pc[p] = "start" /\ pc'[p] \in {"get", "delete"})
               /\ phase'[p] = phase[p] \/ phase'[p] = "dead"
    PROVE  WholeInv'
<1>1. UNCHANGED <<overlap, ignored, info, usage, routerKey, pool, objs, at>>
  BY DEF keys, tenantKeys, locals
<1>2. Control'
  BY <1>1 DEF WholeInv, Control
<1>4. WholeUnlessOverlap'
  BY <1>1, WholeStays DEF WholeInv, Calm
<1>5. Calm' => \A p \in Procs : Progress(p)' /\ Gone(p)'
  BY <1>1 DEF WholeInv, Calm, Progress, Gone, Inside
<1>6. QED
  BY <1>2, <1>4, <1>5 DEF WholeInv

LEMMA NextWholeInv == WholeInv /\ [Next]_vars => WholeInv'
<1> SUFFICES ASSUME WholeInv, [Next]_vars PROVE WholeInv'
  OBVIOUS
<1>0. TenantInv /\ TenantInv' /\ TypeOK
  BY NextTenantInv DEF WholeInv, TenantInv
<1>1. ASSUME NEW p \in Procs, Step(p) PROVE WholeInv'
  BY <1>0, <1>1, StepWholeInv
<1>2. ASSUME NEW p \in Procs, StartGet(p) \/ StartDelete(p) PROVE WholeInv'
  BY <1>0, <1>2, QuietWholeInv, TypeParts
  DEF StartGet, StartDelete, At, Goto, Inside, OwnTypes, lockState, history, keys, tenantKeys,
      locals
<1>3. ASSUME NEW p \in Procs, Crash(p) PROVE WholeInv'
  <2>1. /\ UNCHANGED <<overlap, ignored, keys, objs, pc, locals>>
        /\ halfDeleted' = halfDeleted \cup {n \in Networks : n = usage /\ Inside(p, "dir")}
        /\ phase' = [phase EXCEPT ![p] = "dead"] /\ phase \in [Procs -> L!Phases]
    BY <1>0, <1>3 DEF Crash, L!Die, L!Move, TypeOK, L!TypeOK
  \* Without a network in use the tenant would not be believed.
  <2>2. ASSUME Calm, info PROVE usage \in Networks
    BY <1>0, <2>2, TypeParts DEF WholeInv, WholeUnlessOverlap, Whole, Calm, OwnTypes
  <2>3. QED
    BY <1>0, <2>1, <2>2, QuietWholeInv DEF Inside
<1>4. CASE Expire
  BY <1>0, <1>4, QuietWholeInv
  DEF Expire, L!Expire, Inside, history, keys, tenantKeys, locals
<1>5. CASE UNCHANGED vars
  BY <1>0, <1>5, QuietWholeInv
  DEF vars, Inside, lockState, history, keys, tenantKeys, locals
<1>6. QED
  BY <1>1, <1>2, <1>3, <1>4, <1>5 DEF Next

LEMMA InitWholeInv == Init => WholeInv
<1> SUFFICES ASSUME Init PROVE WholeInv
  OBVIOUS
<1>1. TenantInv
  BY InitTenantInv
<1>2. \A p \in Procs : pc[p] = "start" /\ phase[p] = "idle" /\ at[p] = 1
  BY DEF Init, L!Init
<1>3. Whole({})
  <2>1. info => usage = Old /\ routerKey = usage /\ pool = {"iprange", "addresses"}
    BY DEF Init
  <2>2. Old # None /\ Old \in Networks
    BY TenantAssumption DEF TenantAssumption, Networks
  <2>3. info => objs[Old] = Objects
    BY <2>1, <2>2 DEF Init
  <2>4. QED
    BY <2>1, <2>2, <2>3 DEF Whole
<1>4. halfDeleted = {} /\ \A p \in Procs : ~Inside(p, "dir")
  BY <1>2 DEF Init, Inside
<1>5. WholeUnlessOverlap
  BY <1>3, <1>4 DEF WholeUnlessOverlap
<1>6. QED
  BY <1>1, <1>2, <1>5 DEF WholeInv, Control, Progress, Gone, Inside

\* As long as no two processes have been inside the lock at once and no failed
\* request to etcd has been passed over, a tenant that later calls will believe
\* to be there is whole, whatever fails in MidoNet and whoever dies, but for the
\* provider's route: that is missing while a DeleteTenant is between deleting it
\* and the directory (midonet.go:896 and :903), and for good if it dies there.
THEOREM BelievedIsWhole == Spec => []WholeUnlessOverlap
<1>1. WholeInv => WholeUnlessOverlap
  BY DEF WholeInv
<1>2. QED
  BY <1>1, InitWholeInv, NextWholeInv, PTL DEF Spec

-----------------------------------------------------------------------------
\* A failed initNetwork takes its uplink away again.

Parts == {Uplink[i] : i \in 1 .. Len(Uplink)}

Listed(q) == {q[i] : i \in 1 .. Len(q)}

\* Of the uplink p has made only what the steps before its own make; then what
\* is there is to be deleted; in the end only what p failed to make can be there.
UndoInv(p) ==
    /\ pc[p] \notin {"undo", "unlock", "done"} => failedAt[p] = None
    /\ pc[p] \in {"start", "get", "init", "step"} =>
          \A s \in objs[p] \cap Parts : \E i \in 1 .. at[p] - 1 : Steps[i] = s
    /\ pc[p] = "undo" =>
          \/ failedAt[p] \in {"ips", "providerID", "undo"}
          \/ objs[p] \cap Parts \subseteq {failedAt[p]} \cup Listed(undo[p])
    /\ pc[p] \in {"unlock", "done"} /\ failedAt[p] \in StepNames \ {"ips", "providerID", "info"} =>
          objs[p] \cap Parts \subseteq {failedAt[p]}

LEMMA PartFacts ==
    /\ Parts = {"link", "remotePort", "localPort", "inChain", "outChain", "router"}
    /\ \A i \in 1 .. 24 : Steps[i] \in Parts => i \in {1, 2, 3, 6, 7, 8}
    /\ "undo" \notin StepNames
<1>1. Parts = {"link", "remotePort", "localPort", "inChain", "outChain", "router"}
  <2>1. Len(Uplink) = 6
    BY DEF Uplink
  <2>2. Parts = {Uplink[1], Uplink[2], Uplink[3], Uplink[4], Uplink[5], Uplink[6]}
    BY <2>1 DEF Parts
  <2>3. QED
    BY <2>2 DEF Uplink
<1>2. \A i \in 1 .. 24 : Steps[i] \in Parts => i \in {1, 2, 3, 6, 7, 8}
  BY <1>1 DEF Steps
<1>3. \A i \in 1 .. 24 : Steps[i] # "undo"
  BY DEF Steps
<1>4. "undo" \notin StepNames
  BY <1>3, StepFacts DEF StepNames
<1>5. QED
  BY <1>1, <1>2, <1>4

LEMMA ListedConcat ==
    ASSUME NEW S, NEW q \in Seq(S), NEW r \in Seq(S)
    PROVE  Listed(r) \subseteq Listed(q \o r)
<1>1. Len(q) \in Nat /\ Len(r) \in Nat /\ Len(q \o r) = Len(q) + Len(r)
  OBVIOUS
<1>2. ASSUME NEW i \in 1 .. Len(r) PROVE r[i] \in Listed(q \o r)
  <2>1. Len(q) + i \in 1 .. Len(q \o r)
    BY <1>1
  <2>2. (q \o r)[Len(q) + i] = r[i]
    BY <1>1
  <2>3. QED
    BY <2>1, <2>2 DEF Listed
<1>3. QED
  BY <1>2 DEF Listed

\* The list of every step that has one names the parts made before.
LEMMA CleanUpCovers ==
    ASSUME NEW k \in 1 .. 24, Steps[k] \notin {"ips", "providerID", "info"},
           NEW j \in 1 .. k - 1, Steps[j] \in Parts
    PROVE  Steps[j] \in Listed(CleanUp(Steps[k]))
<1>1. j \in {1, 2, 3, 6, 7, 8}
  BY PartFacts
<1>2. Parts \subseteq Listed(Uplink)
  BY DEF Parts, Listed
<1>3. ASSUME NEW q \in Seq(Objects) PROVE Parts \subseteq Listed(q \o Uplink)
  <2>1. Uplink \in Seq(Objects)
    BY ObjectFacts DEF Uplink
  <2>2. QED
    BY <1>2, <2>1, ListedConcat
<1>4. CASE k = 2
  BY <1>1, <1>4 DEF CleanUp, Steps, Listed
<1>5. CASE k = 3
  BY <1>1, <1>5 DEF CleanUp, Steps, Listed
<1>6. CASE k = 6
  BY <1>1, <1>6 DEF CleanUp, Steps, Listed
<1>7. CASE k = 7
  BY <1>1, <1>7 DEF CleanUp, Steps, Listed
<1>8. CASE k = 8
  <2>1. CleanUp(Steps[8]) = <<"remotePort", "localPort", "inChain", "outChain", "router">>
    BY DEF CleanUp, Steps, Uplink
  <2>2. {"remotePort", "localPort", "inChain", "outChain", "router"} \subseteq
            Listed(CleanUp(Steps[8]))
    BY <2>1 DEF Listed
  <2>3. Steps[j] \in {"remotePort", "localPort", "inChain", "outChain", "router"}
    BY <1>1, <1>8 DEF Steps
  <2>4. QED
    BY <1>8, <2>2, <2>3
<1>9. CASE k \in 9 .. 23
  <2>1. Steps[k] \notin {"inChain", "ips", "providerID", "outChain", "router", "remotePort",
                        "localPort", "link"}
    BY <1>9 DEF Steps
  <2>2. \/ CleanUp(Steps[k]) = Uplink
        \/ \E q \in {<<"outRoute">>, <<"rule1">>, <<"rule1", "rule2">>, <<"bridge">>,
                     <<"gwPort">>, <<"gwPort", "bridgePort">>,
                     <<"gwLink", "gwPort", "bridgePort">>} :
              CleanUp(Steps[k]) = q \o Uplink
    BY <2>1 DEF CleanUp
  <2>3. /\ <<"outRoute">> \in Seq(Objects) /\ <<"rule1">> \in Seq(Objects)
        /\ <<"rule1", "rule2">> \in Seq(Objects) /\ <<"bridge">> \in Seq(Objects)
        /\ <<"gwPort">> \in Seq(Objects) /\ <<"gwPort", "bridgePort">> \in Seq(Objects)
        /\ <<"gwLink", "gwPort", "bridgePort">> \in Seq(Objects)
    BY ObjectFacts
  <2>4. QED
    BY <1>2, <1>3, <2>2, <2>3
<1>10. k \notin {1, 4, 5, 24}
  BY DEF Steps
<1>11. QED
  BY <1>4, <1>5, <1>6, <1>7, <1>8, <1>9, <1>10

\* initNetwork gives up at a step.
LEMMA GiveUpUndone ==
    ASSUME TypeOK, NEW p \in Procs, Inside(p, "step"), UndoInv(p), GiveUp(p),
           objs'[p] \subseteq objs[p] \cup {Steps[at[p]]}, Steps[at[p]] # "info"
    PROVE  UndoInv(p)'
<1>1. /\ pc \in [Procs -> Labels] /\ at \in [Procs -> 1 .. 24]
      /\ failedAt \in [Procs -> StepNames \cup {"undo", None}]
      /\ undo \in [Procs -> Seq(Objects)]
  BY TypeParts DEF OwnTypes
<1>2. pc'[p] = "undo" /\ failedAt'[p] = Steps[at[p]] /\ undo'[p] = CleanUp(Steps[at[p]])
  BY <1>1 DEF GiveUp, Goto
<1>3. CASE Steps[at[p]] \in {"ips", "providerID"}
  BY <1>2, <1>3 DEF UndoInv
<1>4. CASE Steps[at[p]] \notin {"ips", "providerID"}
  <2>1. ASSUME NEW s \in objs'[p] \cap Parts PROVE s = failedAt'[p] \/ s \in Listed(undo'[p])
    <3>1. CASE s = Steps[at[p]]
      BY <1>2, <3>1
    <3>2. CASE s \in objs[p]
      <4>1. PICK j \in 1 .. at[p] - 1 : Steps[j] = s
        BY <2>1, <3>2 DEF UndoInv, Inside
      <4>2. s \in Listed(CleanUp(Steps[at[p]]))
        BY <1>1, <1>4, <2>1, <4>1, CleanUpCovers
      <4>3. QED
        BY <1>2, <4>2
    <3>3. QED
      BY <2>1, <3>1, <3>2
  <2>2. QED
    BY <1>2, <2>1 DEF UndoInv
<1>5. QED
  BY <1>3, <1>4

LEMMA AdvanceUndone ==
    ASSUME TypeOK, NEW p \in Procs, Inside(p, "step"), UndoInv(p), Advance(p),
           objs'[p] \subseteq objs[p] \cup {Steps[at[p]]}
    PROVE  UndoInv(p)'
<1>1. at[p] \in 1 .. 24 /\ at'[p] = at[p] + 1 /\ pc'[p] = "step" /\ failedAt'[p] = failedAt[p]
  BY TypeParts DEF OwnTypes, Advance, Inside
<1>2. ASSUME NEW s \in objs'[p] \cap Parts PROVE \E i \in 1 .. at'[p] - 1 : Steps[i] = s
  <2>1. CASE s = Steps[at[p]]
    BY <1>1, <2>1
  <2>2. CASE s \in objs[p]
    <3>1. PICK j \in 1 .. at[p] - 1 : Steps[j] = s
      BY <1>2, <2>2 DEF UndoInv, Inside
    <3>2. j \in 1 .. at'[p] - 1
      BY <1>1
    <3>3. QED
      BY <3>1, <3>2
  <2>3. QED
    BY <1>2, <2>1, <2>2
<1>3. failedAt'[p] = None
  BY <1>1 DEF UndoInv, Inside
<1>4. QED
  BY <1>1, <1>2, <1>3 DEF UndoInv

\* What a deletion has deleted need not be on the list any more.
LEMMA DeletionUndone ==
    ASSUME TypeOK, NEW p \in Procs, UndoInv(p), DeleteObject(p)
    PROVE  UndoInv(p)'
<1>1. /\ failedAt \in [Procs -> StepNames \cup {"undo", None}]
      /\ undo \in [Procs -> Seq(Objects)] /\ objs \in [Networks -> SUBSET Objects]
      /\ p \in Networks
  BY TypeParts DEF OwnTypes, Networks
<1>2. pc[p] = "undo" /\ pc'[p] = "undo" /\ undo[p] # <<>> /\ undo'[p] = Tail(undo[p])
  BY <1>1 DEF DeleteObject, Inside
<1>3. CASE failedAt'[p] = "undo"
  BY <1>2, <1>3 DEF UndoInv
<1>4. CASE failedAt'[p] # "undo"
  <2>1. failedAt'[p] = failedAt[p] /\ objs'[p] = objs[p] \ {Head(undo[p])}
    BY <1>1, <1>4 DEF DeleteObject
  <2>2. Listed(undo[p]) \subseteq {Head(undo[p])} \cup Listed(undo'[p])
    <3>1. ASSUME NEW i \in 1 .. Len(undo[p]), i # 1 PROVE undo[p][i] \in Listed(undo'[p])
      <4>1. /\ undo[p] \in Seq(Objects) /\ i - 1 \in 1 .. Len(undo'[p])
            /\ undo'[p][i - 1] = undo[p][i]
        BY <1>1, <1>2, <3>1
      <4>2. QED
        BY <4>1 DEF Listed
    <3>2. undo[p][1] = Head(undo[p])
      BY <1>1, <1>2
    <3>3. QED
      BY <3>1, <3>2 DEF Listed
  <2>3. QED
    BY <1>2, <2>1, <2>2 DEF UndoInv
<1>5. QED
  BY <1>3, <1>4

\* Nothing is added to the network of another process, whose place is not touched.
LEMMA OthersLeave ==
    ASSUME TypeOK, NEW p \in Procs, Step(p), NEW q \in Procs, q # p
    PROVE  /\ pc'[q] = pc[q] /\ at'[q] = at[q] /\ undo'[q] = undo[q]
           /\ failedAt'[q] = failedAt[q]
           /\ objs'[q] \subseteq objs[q]
<1>0. /\ pc \in [Procs -> Labels] /\ at \in [Procs -> 1 .. 24]
      /\ undo \in [Procs -> Seq(Objects)]
      /\ failedAt \in [Procs -> StepNames \cup {"undo", None}]
      /\ objs \in [Networks -> SUBSET Objects] /\ {p, q} \subseteq Networks
  BY TypeParts DEF OwnTypes, Networks
<1> USE <1>0 DEF Goto, Leave, Advance, GiveUp, Made, history, locals, keys, tenantKeys
<1>1. CASE GetTenant(p)
  BY <1>1 DEF GetTenant, GetInfo, GetInfoFails, FindsNoInfo, FindsInfo, FindsError
<1>2. CASE InitNetwork(p)
  <2>1. CASE Create(p)
    BY <2>1 DEF Create
  <2>2. CASE CreateFails(p)
    BY <2>2 DEF CreateFails
  <2>3. CASE DeleteObject(p)
    BY <2>3 DEF DeleteObject
  <2>4. QED
    BY <1>2, <2>1, <2>2, <2>3
    DEF InitNetwork, ParseProviderID, SaveRoute, SaveRouter, SetRange, SetRangeFails,
        FillPool, SaveUsage, SaveUsageFails, SaveInfo, SaveInfoFails, CleanedUp
<1>3. CASE DeleteTenant(p)
  BY <1>3
  DEF DeleteTenant, FindAddresses, DeleteRoute, DeleteDir, DeleteDirFails, DeletePool, Release
<1>4. CASE CallLock(p) \/ Lock(p) \/ Unlock(p)
  BY <1>4 DEF CallLock, Lock, Unlock
<1>5. QED
  BY <1>1, <1>2, <1>3, <1>4 DEF Step

\* A step of p outside initNetwork: it begins there at the first step, and it
\* ends a function that has not failed or has cleaned up.
LEMMA OtherStepUndone ==
    ASSUME TypeOK, Control, NEW p \in Procs, UndoInv(p),
           failedAt'[p] = failedAt[p], objs'[p] \subseteq objs[p], at'[p] = at[p],
           undo'[p] = undo[p],
           \/ pc'[p] = pc[p]
           \/ pc[p] \in {"start", "get", "init"} /\ pc'[p] \in {"get", "init", "step"}
           \/ pc[p] \notin {"undo", "unlock", "done"} /\
              pc'[p] \in {"delete", "route", "dir", "pool", "release", "unlock", "done"}
           \/ pc[p] = "undo" /\ undo[p] = <<>> /\ pc'[p] = "unlock"
           \/ pc[p] = "unlock" /\ pc'[p] = "done"
    PROVE  UndoInv(p)'
<1>1. CASE pc'[p] = pc[p]
  BY <1>1 DEF UndoInv
<1>2. CASE pc[p] \in {"start", "get", "init"} /\ pc'[p] \in {"get", "init", "step"}
  BY <1>2 DEF UndoInv
<1>3. CASE /\ pc[p] \notin {"undo", "unlock", "done"}
           /\ pc'[p] \in {"delete", "route", "dir", "pool", "release", "unlock", "done"}
  BY <1>3, NoStepAssumption DEF UndoInv
<1>4. CASE pc[p] = "undo" /\ undo[p] = <<>> /\ pc'[p] = "unlock"
  <2>1. Listed(undo[p]) = {}
    BY <1>4 DEF Listed
  <2>2. QED
    BY <1>4, <2>1, PartFacts DEF UndoInv
<1>5. CASE pc[p] = "unlock" /\ pc'[p] = "done"
  BY <1>5 DEF UndoInv
<1>6. QED
  BY <1>1, <1>2, <1>3, <1>4, <1>5

LEMMA InitNetworkUndone ==
    ASSUME TypeOK, Control, NEW p \in Procs, UndoInv(p), InitNetwork(p)
    PROVE  UndoInv(p)'
<1>0. /\ pc \in [Procs -> Labels] /\ objs \in [Networks -> SUBSET Objects] /\ p \in Networks
      /\ failedAt \in [Procs -> StepNames \cup {"undo", None}]
  BY TypeParts DEF OwnTypes, Networks
<1>1. CASE Create(p)
  <2>1. Inside(p, "step") /\ Advance(p) /\ objs'[p] \subseteq objs[p] \cup {Steps[at[p]]}
    BY <1>0, <1>1 DEF Create, Doing, Made
  <2>2. QED
    BY <2>1, AdvanceUndone
<1>2. CASE CreateFails(p)
  <2>1. /\ Inside(p, "step") /\ GiveUp(p) /\ Steps[at[p]] \in Objects
        /\ objs'[p] \subseteq objs[p] \cup {Steps[at[p]]}
    BY <1>0, <1>2 DEF CreateFails, Doing, Made
  <2>2. QED
    BY <2>1, GiveUpUndone DEF Objects, KeySteps
<1>2a. CASE ParseProviderID(p)
  <2>1. Inside(p, "step") /\ Steps[at[p]] # "info" /\ objs' = objs /\ (Advance(p) \/ GiveUp(p))
    BY <1>2a DEF ParseProviderID, Doing
  <2>2. QED
    BY <2>1, AdvanceUndone, GiveUpUndone
<1>3. CASE SaveRoute(p) \/ SaveRouter(p) \/ SetRange(p) \/ FillPool(p) \/ SaveUsage(p)
  BY <1>3, AdvanceUndone
  DEF SaveRoute, SaveRouter, SetRange, FillPool, SaveUsage, Doing
<1>4. CASE SetRangeFails(p)
  BY <1>4, AdvanceUndone, GiveUpUndone DEF SetRangeFails, Doing
<1>5. CASE SaveUsageFails(p)
  BY <1>5, GiveUpUndone DEF SaveUsageFails, Doing
<1>6. CASE SaveInfo(p)
  BY <1>0, <1>6, OtherStepUndone DEF SaveInfo, Doing, Inside, Leave, Goto, history, locals
<1>7. CASE SaveInfoFails(p)
  BY <1>0, <1>7 DEF SaveInfoFails, Doing, Inside, Leave, Goto, locals, UndoInv
<1>8. CASE DeleteObject(p)
  BY <1>8, DeletionUndone
<1>9. CASE CleanedUp(p)
  BY <1>0, <1>9, OtherStepUndone DEF CleanedUp, Inside, Leave, Goto, history, locals
<1>10. QED
  BY <1>1, <1>2, <1>2a, <1>3, <1>4, <1>5, <1>6, <1>7, <1>8, <1>9 DEF InitNetwork

LEMMA StepUndone ==
    ASSUME TypeOK, Control, \A q \in Procs : UndoInv(q), NEW p \in Procs, Step(p)
    PROVE  \A q \in Procs : UndoInv(q)'
<1>0. /\ pc \in [Procs -> Labels] /\ objs \in [Networks -> SUBSET Objects] /\ p \in Networks
  BY TypeParts DEF OwnTypes, Networks
<1>1. ASSUME NEW q \in Procs, q # p PROVE UndoInv(q)'
  BY <1>1, OthersLeave DEF UndoInv
<1> SUFFICES UndoInv(p)'
  BY <1>1
<1>2. CASE GetTenant(p)
  <2>1. UNCHANGED <<failedAt, objs, at, undo>>
    BY <1>2 DEF GetTenant, GetInfo, GetInfoFails, FindsNoInfo, FindsInfo, FindsError,
       history, locals
  <2>2. pc[p] \in {"get", "init"} /\ pc'[p] \in {"init", "step", "unlock", "done"}
    BY <1>0, <1>2
    DEF GetTenant, GetInfo, GetInfoFails, FindsNoInfo, FindsInfo, FindsError,
        At, Inside, Goto, Leave
  <2>3. QED
    BY <2>1, <2>2, OtherStepUndone
<1>3. CASE InitNetwork(p)
  BY <1>3, InitNetworkUndone
<1>4. CASE DeleteTenant(p)
  <2>1. UNCHANGED <<failedAt, at, undo>>
    BY <1>4 DEF DeleteTenant, FindAddresses, DeleteRoute, DeleteDir, DeleteDirFails,
       DeletePool, Release, history, locals
  <2>2. objs'[p] \subseteq objs[p]
    BY <1>0, <1>4 DEF DeleteTenant, FindAddresses, DeleteRoute, DeleteDir, DeleteDirFails,
       DeletePool, Release
  <2>3. /\ pc[p] \in {"delete", "route", "dir", "pool", "release"}
        /\ pc'[p] \in {"route", "dir", "pool", "release", "unlock"}
    BY <1>0, <1>4 DEF DeleteTenant, FindAddresses, DeleteRoute, DeleteDir, DeleteDirFails,
       DeletePool, Release, Inside, Goto, Leave
  <2>4. QED
    BY <2>1, <2>2, <2>3, OtherStepUndone
<1>5. CASE CallLock(p) \/ Lock(p)
  BY <1>5, OtherStepUndone DEF CallLock, Lock, history, locals
<1>6. CASE Unlock(p)
  <2>1. phase[p] = "delete"
    BY <1>6 DEF Unlock, L!UnlockStep, L!DeleteRemoves, L!DeleteMissing, L!DeleteFails
  <2>2. pc[p] # "undo"
    BY <2>1 DEF Control
  <2>3. pc'[p] = pc[p] \/ pc'[p] = "done"
    BY <1>6 DEF Unlock
  <2>4. QED
    BY <1>6, <2>2, <2>3, OtherStepUndone DEF Unlock, history, locals
<1>7. QED
  BY <1>2, <1>3, <1>4, <1>5, <1>6 DEF Step

UndoneInv == TypeOK /\ Control /\ \A p \in Procs : UndoInv(p)

LEMMA NextUndoneInv == UndoneInv /\ [Next]_vars => UndoneInv'
<1> SUFFICES ASSUME UndoneInv, [Next]_vars PROVE UndoneInv'
  OBVIOUS
<1>0. TypeOK /\ TypeOK' /\ Control /\ \A p \in Procs : UndoInv(p)
  BY NextType DEF UndoneInv
<1>1. ASSUME NEW p \in Procs, Step(p) PROVE UndoneInv'
  BY <1>0, <1>1, StepControl, StepUndone DEF UndoneInv
<1>2. ASSUME UNCHANGED <<failedAt, objs, locals>>,
             \A p \in Procs :
                 /\ pc'[p] = pc[p] \/ (pc[p] = "start" /\ pc'[p] \in {"get", "delete"})
                 /\ phase'[p] = phase[p] \/ phase'[p] = "dead"
      PROVE  UndoneInv'
  <2>1. UNCHANGED <<failedAt, objs, at, undo>>
    BY <1>2 DEF locals
  <2>2. Control'
    BY <1>0, <1>2, <2>1 DEF Control
  <2>3. \A p \in Procs : UndoInv(p)'
    BY <1>0, <1>2, <2>1 DEF UndoInv
  <2>4. QED
    BY <1>0, <2>2, <2>3 DEF UndoneInv
<1>3. ASSUME NEW p \in Procs, StartGet(p) \/ StartDelete(p) PROVE UndoneInv'
  BY <1>0, <1>2, <1>3, TypeParts
  DEF StartGet, StartDelete, At, Goto, OwnTypes, lockState, history
<1>4. ASSUME NEW p \in Procs, Crash(p) PROVE UndoneInv'
  BY <1>0, <1>2, <1>4 DEF Crash, L!Die, L!Move, TypeOK, L!TypeOK
<1>5. CASE Expire
  BY <1>2, <1>5 DEF Expire, L!Expire, history
<1>6. CASE UNCHANGED vars
  BY <1>2, <1>6 DEF vars, lockState, history
<1>7. QED
  BY <1>1, <1>3, <1>4, <1>5, <1>6 DEF Next

LEMMA InitUndoneInv == Init => UndoneInv
<1> SUFFICES ASSUME Init PROVE UndoneInv
  OBVIOUS
<1>1. TypeOK
  BY InitType
<1>2. ASSUME NEW p \in Procs PROVE pc[p] = "start" /\ at[p] = 1 /\ failedAt[p] = None
  BY DEF Init
<1>3. ASSUME NEW p \in Procs PROVE objs[p] = {}
  BY TenantAssumption DEF TenantAssumption, Init, Networks
<1>4. QED
  BY <1>1, <1>2, <1>3 DEF UndoneInv, Control, UndoInv

\* Whichever step of initNetwork fails, except for three, and however the object it
\* was to make has come out: its own clean-up takes every other part of the uplink
\* away, if no deletion fails, too.  The three that clean up nothing are "ips"
\* (midonet.go:339-351), "providerID" (:353-357) and "info", after initNetwork.
THEOREM FailedInitCleansUp == Spec => []FailedInitUndone
<1>1. UndoneInv => FailedInitUndone
  <2> SUFFICES ASSUME UndoneInv, NEW p \in Procs, pc[p] \in {"unlock", "done"},
                      failedAt[p] \in StepNames \ {"ips", "providerID", "info"},
                      NEW i \in 1 .. Len(Uplink), Uplink[i] \in objs[p]
               PROVE  Uplink[i] = failedAt[p]
    BY DEF FailedInitUndone
  <2>1. Uplink[i] \in Parts
    BY DEF Parts
  <2>2. QED
    BY <2>1 DEF UndoneInv, UndoInv
<1>2. QED
  BY <1>1, InitUndoneInv, NextUndoneInv, PTL DEF Spec
=============================================================================
