-------------------------- MODULE PodNetwork_proofs -------------------------
(***************************************************************************)
(* Theorems about PodNetwork, for any sets of processes and containers.    *)
(***************************************************************************)
EXTENDS PodNetwork, TLAPS

-----------------------------------------------------------------------------
\* Types.

\* What makes TypeOK inductive: a started process has a container, the address
\* to release is one, and a new range is not the first.
TypeInv ==
    /\ TypeOK
    /\ \A p \in Procs :
          /\ pc[p] # "start" => ctn[p] \in Containers
          /\ pc[p] \in {"relRange", "release"} => ip[p] # None
          /\ pc[p] = "nbSetRange" => rng[p] # 0

LEMMA AddressFacts ==
    /\ None \notin Address
    /\ \A r \in Nat \ {0} : Pool(r) \subseteq Address
BY PodAssumption DEF PodAssumption, Address, Pool

LEMMA InitTypeInv == Init => TypeInv
<1> SUFFICES ASSUME Init PROVE TypeInv
  OBVIOUS
<1>1. L!TypeOK
  BY PodAssumption DEF PodAssumption, Init, L!Init, L!TypeOK, L!Phases
<1>2. /\ avail \subseteq Address
      /\ linked \in [Bridges -> Nat]
      /\ usage \in Bridges
      /\ iprange \in Nat \ {0}
      /\ removed \subseteq Containers
  BY AddressFacts DEF Init, Bridges
<1>3. /\ result \in [Containers -> OptAddress]
      /\ podIp \in [Containers -> OptAddress]
      /\ eth0 \in [Containers -> OptAddress]
      /\ veth \in [Containers -> {"none", "inside", "outside", "renamed"}]
      /\ granted \in [Containers -> OptAddress]
      /\ binding \in [Containers -> Ports \cup {None}]
      /\ bound \in [Containers -> Ports \cup {None}]
      /\ portBridge \in [Ports -> Bridges \cup {None}]
  BY DEF Init, OptAddress
<1>4. /\ pc \in [Procs -> Labels]
      /\ ctn \in [Procs -> Containers \cup {None}]
      /\ ip \in [Procs -> OptAddress]
      /\ todo \in [Procs -> SUBSET Address]
      /\ rng \in [Procs -> Nat]
      /\ attempt \in [Procs -> {1, 2}]
      /\ refilled \in [Procs -> BOOLEAN]
      /\ gone \in [Procs -> BOOLEAN]
  BY DEF Init, OptAddress, Labels
<1>5. exclusionLost \in BOOLEAN
  BY DEF Init
<1>6. TypeOK
  BY <1>1, <1>2, <1>3, <1>4, <1>5 DEF TypeOK
<1>7. QED
  BY <1>6 DEF Init, TypeInv

\* The lock keeps its types, as in EtcdMutex_proofs.
LEMMA LockStepType ==
    ASSUME L!TypeOK, NEW p \in Procs,
           L!CallLock(p) \/ L!LockStep(p) \/ L!UnlockStep(p) \/ L!Die(p) \/ L!Expire
    PROVE  L!TypeOK'
<1> USE PodAssumption DEF PodAssumption, L!TypeOK, L!Phases, L!Move, L!Fault
<1>1. CASE L!CallLock(p) \/ L!Die(p)
  BY <1>1 DEF L!CallLock, L!Die
<1>2. CASE L!LockStep(p)
  <2>1. CASE L!SetCreates(p) \/ L!SetExists(p) \/ L!GetFinds(p) \/ L!WatchFires(p)
    BY <2>1 DEF L!SetCreates, L!SetExists, L!GetFinds, L!WatchFires
  <2>2. CASE L!SetFails(p)
    BY <2>2 DEF L!SetFails, L!NextAttempt
  <2>3. CASE L!GetMissing(p) \/ L!ReadFails(p)
    BY <2>3 DEF L!GetMissing, L!ReadFails, L!NextAttempt
  <2>4. QED
    BY <1>2, <2>1, <2>2, <2>3 DEF L!LockStep
<1>3. CASE L!UnlockStep(p)
  <2>1. CASE L!DeleteRemoves(p) \/ L!DeleteMissing(p)
    BY <2>1 DEF L!DeleteRemoves, L!DeleteMissing, L!WakeWatchers
  <2>2. CASE L!DeleteFails(p)
    <3>1. woken' \in [Procs -> BOOLEAN]
      BY <2>2, Zenon DEF L!DeleteFails, L!WakeWatchers
    <3>2. /\ node' \in Procs \cup {Nobody}
          /\ phase' \in [Procs -> L!Phases]
          /\ try' \in [Procs -> 0 .. DefaultTry]
      BY <2>2 DEF L!DeleteFails
    <3>3. calls' = calls /\ faults' \in 0 .. MaxFaults
      BY <2>2 DEF L!DeleteFails
    <3>4. QED
      BY <3>1, <3>2, <3>3
  <2>3. QED
    BY <1>3, <2>1, <2>2 DEF L!UnlockStep
<1>4. CASE L!Expire
  BY <1>4 DEF L!Expire, L!WakeWatchers
<1>5. QED
  BY <1>1, <1>2, <1>3, <1>4

\* Nothing but the lock changes.
LEMMA QuietTypeInv ==
    ASSUME TypeInv, L!TypeOK', exclusionLost' \in BOOLEAN,
           UNCHANGED <<etcdKeys, midonet, pods, pc, locals>>
    PROVE  TypeInv'
BY DEF TypeInv, TypeOK, etcdKeys, midonet, pods, locals

\* The end of a failed attempt of Bingding.
LEMMA BindFailedType ==
    ASSUME attempt \in [Procs -> {1, 2}], NEW p \in Procs, BindFailed(p)
    PROVE  /\ attempt' \in [Procs -> {1, 2}]
           /\ \E l \in {"bindGet", "delResult"} : Goto(p, l)
BY DEF BindFailed

\* DoNetworking, however far it gets, concerns the interfaces of one container,
\* and it takes no host end away.
LEMMA HalfNetworkedFacts ==
    ASSUME TypeInv, NEW p \in Procs, HalfNetworked(p)
    PROVE  /\ eth0' \in [Containers -> OptAddress]
           /\ veth' \in [Containers -> {"none", "inside", "outside", "renamed"}]
           /\ \A c \in Containers \ {ctn[p]} : eth0'[c] = eth0[c] /\ veth'[c] = veth[c]
           /\ \A c \in Containers : veth'[c] = "none" => veth[c] = "none"
<1>1. /\ eth0 \in [Containers -> OptAddress]
      /\ veth \in [Containers -> {"none", "inside", "outside", "renamed"}]
      /\ ip[p] \in OptAddress /\ None \in OptAddress
  BY DEF TypeInv, TypeOK, OptAddress
<1>2. \/ UNCHANGED <<eth0, veth>>
      \/ \E a \in OptAddress, v \in {"inside", "outside", "renamed"} :
            Networked(ctn[p], a, v)
  BY <1>1 DEF HalfNetworked
<1>3. QED
  BY <1>1, <1>2 DEF Networked

\* Every step of a running process keeps TypeInv.
LEMMA StepTypeInv ==
    ASSUME TypeInv, NEW p \in Procs, Step(p)
    PROVE  TypeInv'
<1> USE PodAssumption, AddressFacts
    DEF PodAssumption, TypeInv, TypeOK, L!TypeOK, L!Phases, OptAddress,
        Bridges, Ports, Labels, lockState, etcdKeys, midonet, pods, locals,
        At, Inside, Goto, Effective, Ineffective, Leave, L!EnterUnlock, L!Move
<1>0. /\ NoFault => faults' \in 0 .. MaxFaults
      /\ \A k : Fault(k) => faults' \in 0 .. MaxFaults
  BY DEF NoFault, Fault, L!Fault
<1> USE <1>0
<1>1. CASE AddCached(p)
  BY <1>1 DEF AddCached
<1>2. CASE AddFresh(p)
  BY <1>2, SMTT(60) DEF AddFresh
<1>3. CASE ListPool(p)
  BY <1>3 DEF ListPool
<1>4. CASE PoolEmpty(p)
  <2>1. UNCHANGED <<lockState, exclusionLost, etcdKeys, midonet, pods,
                     ctn, ip, todo, rng, attempt, gone>>
    BY <1>4 DEF PoolEmpty
  <2>2. faults' \in 0 .. MaxFaults
    BY <1>4 DEF PoolEmpty
  <2>3. refilled' \in [Procs -> BOOLEAN]
    BY <1>4 DEF PoolEmpty
  <2>4. PICK l \in {"create", "delResult"} : Goto(p, l)
    BY <1>4 DEF PoolEmpty
  <2>5. At(p, "list")
    BY <1>4 DEF PoolEmpty
  <2>6. QED
    BY <2>1, <2>2, <2>3, <2>4, <2>5
<1>5. CASE TakeAddress(p)
  BY <1>5, SMTT(60) DEF TakeAddress
<1>6. CASE TakeNext(p)
  BY <1>6, SMTT(60) DEF TakeNext
<1>7. CASE TakeNone(p)
  BY <1>7 DEF TakeNone
<1>8. CASE SaveIp(p)
  BY <1>8, SMTT(60) DEF SaveIp
<1>9. CASE GetBinding(p)
  <2>1. UNCHANGED <<lockState, exclusionLost, etcdKeys, midonet, pods, locals>>
    BY <1>9 DEF GetBinding
  <2>2. faults' \in 0 .. MaxFaults
    BY <1>9 DEF GetBinding
  <2>3. PICK l \in {"net", "makePort"} : Goto(p, l)
    BY <1>9 DEF GetBinding
  <2>4. At(p, "bindGet")
    BY <1>9 DEF GetBinding
  <2>5. QED
    BY <2>1, <2>2, <2>3, <2>4
<1>10. CASE MakePort(p)
  BY <1>10 DEF MakePort, Port
<1>11. CASE MakePortFails(p)
  <2>1. UNCHANGED <<lockState, exclusionLost, etcdKeys, linked, bound, pods,
                     ctn, ip, todo, rng, refilled, gone>>
    BY <1>11 DEF MakePortFails
  <2>2. faults' \in 0 .. MaxFaults
    BY <1>11 DEF MakePortFails
  <2>b. BindFailed(p)
    BY <1>11 DEF MakePortFails
  <2>3. attempt' \in [Procs -> {1, 2}]
    BY <2>b, BindFailedType
  <2>4. portBridge' \in [Ports -> Bridges \cup {None}]
    BY <1>11 DEF MakePortFails, Port
  <2>5. PICK l \in {"bindGet", "delResult"} : Goto(p, l)
    BY <2>b, BindFailedType
  <2>6. At(p, "makePort")
    BY <1>11 DEF MakePortFails
  <2>7. QED
    BY <2>1, <2>2, <2>3, <2>4, <2>5, <2>6
<1>12. CASE BindInterface(p)
  BY <1>12 DEF BindInterface, Port
<1>13. CASE BindInterfaceFails(p)
  <2>1. UNCHANGED <<lockState, exclusionLost, etcdKeys, linked, portBridge, pods,
                     ctn, ip, todo, rng, refilled, gone>>
    BY <1>13 DEF BindInterfaceFails
  <2>2. faults' \in 0 .. MaxFaults
    BY <1>13 DEF BindInterfaceFails
  <2>b. BindFailed(p)
    BY <1>13 DEF BindInterfaceFails
  <2>3. attempt' \in [Procs -> {1, 2}]
    BY <2>b, BindFailedType
  <2>4. bound' \in [Containers -> Ports \cup {None}]
    <3>1. bound' = bound \/ bound' = [bound EXCEPT ![ctn[p]] = Port(p)]
      BY <1>13 DEF BindInterfaceFails
    <3>2. Port(p) \in Ports
      BY DEF Port
    <3>3. QED
      BY <3>1, <3>2
  <2>5. PICK l \in {"bindGet", "delResult"} : Goto(p, l)
    BY <2>b, BindFailedType
  <2>6. At(p, "bindIf")
    BY <1>13 DEF BindInterfaceFails
  <2>7. QED
    BY <2>1, <2>2, <2>3, <2>4, <2>5, <2>6
<1>14. CASE SaveBinding(p)
  <2>1. UNCHANGED <<lockState, exclusionLost, result, podIp, avail, iprange, usage,
                     midonet, pods, locals>>
    BY <1>14 DEF SaveBinding
  <2>2. faults' \in 0 .. MaxFaults
    BY <1>14 DEF SaveBinding, Port
  <2>3. binding' \in [Containers -> Ports \cup {None}]
    <3>1. binding' = binding \/ binding' = [binding EXCEPT ![ctn[p]] = Port(p)]
      BY <1>14 DEF SaveBinding
    <3>2. Port(p) \in Ports
      BY DEF Port
    <3>3. QED
      BY <3>1, <3>2
  <2>4. PICK l \in {"net", "undoBind"} : Goto(p, l)
    BY <1>14 DEF SaveBinding, Port
  <2>5. At(p, "saveBind")
    BY <1>14 DEF SaveBinding
  <2>6. QED
    BY <2>1, <2>2, <2>3, <2>4, <2>5
<1>15. CASE UndoBinding(p)
  <2>1. UNCHANGED <<lockState, exclusionLost, etcdKeys, linked, portBridge, pods,
                     ctn, ip, todo, rng, refilled, gone>>
    BY <1>15 DEF UndoBinding
  <2>2. faults' \in 0 .. MaxFaults
    BY <1>15 DEF UndoBinding
  <2>b. BindFailed(p)
    BY <1>15 DEF UndoBinding
  <2>3. attempt' \in [Procs -> {1, 2}]
    BY <2>b, BindFailedType
  <2>4. bound' \in [Containers -> Ports \cup {None}]
    BY <1>15 DEF UndoBinding, Unbound
  <2>5. PICK l \in {"bindGet", "delResult"} : Goto(p, l)
    BY <2>b, BindFailedType
  <2>6. At(p, "undoBind")
    BY <1>15 DEF UndoBinding
  <2>7. QED
    BY <2>1, <2>2, <2>3, <2>4, <2>5, <2>6
<1>16. CASE DoNetworking(p)
  <2>1. UNCHANGED <<lockState, exclusionLost, etcdKeys, midonet, granted, removed, locals>>
    BY <1>16 DEF DoNetworking
  <2>2. faults' \in 0 .. MaxFaults /\ At(p, "net")
    BY <1>16 DEF DoNetworking
  <2>3. eth0' \in [Containers -> OptAddress]
    BY <1>16 DEF DoNetworking, Networked
  <2>4. veth' \in [Containers -> {"none", "inside", "outside", "renamed"}]
    BY <1>16 DEF DoNetworking, Networked
  <2>5. PICK l \in {"saveRes", "delResult"} : Goto(p, l)
    BY <1>16 DEF DoNetworking
  <2>6. QED
    BY <2>1, <2>2, <2>3, <2>4, <2>5
<1>16a. CASE DoNetworkingAgain(p)
  <2>1. UNCHANGED <<lockState, exclusionLost, etcdKeys, midonet, granted, removed, locals>>
    BY <1>16a DEF DoNetworkingAgain
  <2>2. faults' \in 0 .. MaxFaults /\ At(p, "net")
    BY <1>16a DEF DoNetworkingAgain
  <2>3. eth0' \in [Containers -> OptAddress]
    BY <1>16a DEF DoNetworkingAgain
  <2>4. veth' \in [Containers -> {"none", "inside", "outside", "renamed"}]
    BY <1>16a DEF DoNetworkingAgain
  <2>5. PICK l \in {"saveRes", "delResult"} : Goto(p, l)
    BY <1>16a DEF DoNetworkingAgain
  <2>6. QED
    BY <2>1, <2>2, <2>3, <2>4, <2>5
<1>16b. CASE DoNetworkingFails(p)
  <2>1. UNCHANGED <<lockState, exclusionLost, etcdKeys, midonet, granted, removed, locals>>
    BY <1>16b DEF DoNetworkingFails
  <2>2. faults' \in 0 .. MaxFaults /\ At(p, "net")
    BY <1>16b DEF DoNetworkingFails
  <2>3. eth0' \in [Containers -> OptAddress]
    BY <1>16b, HalfNetworkedFacts DEF DoNetworkingFails
  <2>4. veth' \in [Containers -> {"none", "inside", "outside", "renamed"}]
    BY <1>16b, HalfNetworkedFacts DEF DoNetworkingFails
  <2>5. PICK l \in {"saveRes", "delResult"} : Goto(p, l)
    BY <1>16b DEF DoNetworkingFails
  <2>6. QED
    BY <2>1, <2>2, <2>3, <2>4, <2>5
<1>17. CASE SaveResult(p)
  BY <1>17, SMTT(60) DEF SaveResult
<1>18. CASE Return(p)
  BY <1>18 DEF Return
<1>19. CASE CheckPool(p)
  <2>1. UNCHANGED <<exclusionLost, etcdKeys, midonet, pods, locals>>
    BY <1>19 DEF CheckPool
  <2>2. faults' \in 0 .. MaxFaults
    BY <1>19 DEF CheckPool
  <2>3. Inside(p, "create")
    BY <1>19 DEF CheckPool
  <2>4. CASE Goto(p, "nbRange") /\ UNCHANGED lockState
    BY <2>1, <2>2, <2>3, <2>4
  <2>5. CASE \E l \in {"list", "delResult"} : Leave(p, l)
    BY <2>1, <2>2, <2>3, <2>5
  <2>6. QED
    BY <1>19, <2>4, <2>5 DEF CheckPool
<1>20. CASE CreateBridge(p)
  BY <1>20 DEF CreateBridge, NextCIDR
<1>21. CASE SetRange(p)
  BY <1>21 DEF SetRange, Pool
<1>21a. CASE SetRangeUnsaved(p)
  BY <1>21a, SMTT(60) DEF SetRangeUnsaved, Pool
<1>22. CASE FillPool(p)
  BY <1>22, SMTT(60) DEF FillPool
<1>23. CASE LinkRouter(p)
  BY <1>23 DEF LinkRouter
<1>24. CASE SetUsage(p)
  BY <1>24, SMTT(60) DEF SetUsage
<1>25. CASE CreateNewBridgeFails(p)
  BY <1>25, SMTT(60) DEF CreateNewBridgeFails
<1>26. CASE DeleteResult(p)
  <2>1. UNCHANGED <<lockState, exclusionLost, binding, podIp, avail, iprange, usage,
                     midonet, pods, locals>>
    BY <1>26 DEF DeleteResult
  <2>2. faults' \in 0 .. MaxFaults
    BY <1>26 DEF DeleteResult
  <2>3. result' \in [Containers -> OptAddress]
    BY <1>26 DEF DeleteResult
  <2>4. Goto(p, "delBindGet") /\ At(p, "delResult")
    BY <1>26 DEF DeleteResult
  <2>5. QED
    BY <2>1, <2>2, <2>3, <2>4
<1>27. CASE GetBindingToDelete(p)
  <2>1. UNCHANGED <<lockState, exclusionLost, etcdKeys, midonet, pods, locals>>
    BY <1>27 DEF GetBindingToDelete
  <2>2. faults' \in 0 .. MaxFaults
    BY <1>27 DEF GetBindingToDelete
  <2>3. PICK l \in {"unbind", "done"} : Goto(p, l)
    BY <1>27 DEF GetBindingToDelete
  <2>4. At(p, "delBindGet")
    BY <1>27 DEF GetBindingToDelete
  <2>5. QED
    BY <2>1, <2>2, <2>3, <2>4
<1>28. CASE DeleteBinding(p)
  <2>1. UNCHANGED <<lockState, exclusionLost, etcdKeys, linked, portBridge, pods, locals>>
    BY <1>28 DEF DeleteBinding
  <2>2. faults' \in 0 .. MaxFaults /\ At(p, "unbind")
    BY <1>28 DEF DeleteBinding
  <2>3. bound' \in [Containers -> Ports \cup {None}]
    BY <1>28 DEF DeleteBinding, Unbound
  <2>4. PICK l \in {"rmPort", "delBindKey"} : Goto(p, l)
    BY <1>28 DEF DeleteBinding
  <2>5. QED
    BY <2>1, <2>2, <2>3, <2>4
<1>29. CASE DeletePort(p)
  <2>1. UNCHANGED <<lockState, exclusionLost, etcdKeys, linked, pods,
                     ctn, ip, todo, rng, attempt, refilled>>
    BY <1>29 DEF DeletePort
  <2>2. faults' \in 0 .. MaxFaults
    BY <1>29 DEF DeletePort, RemovePort, Unbound
  <2>3. portBridge' \in [Ports -> Bridges \cup {None}]
    BY <1>29 DEF DeletePort, RemovePort, Unbound
  <2>4. bound' \in [Containers -> Ports \cup {None}]
    BY <1>29 DEF DeletePort, RemovePort, Unbound
  <2>5. gone' \in [Procs -> BOOLEAN]
    <3>1. PICK b \in BOOLEAN : gone' = [gone EXCEPT ![p] = b]
      <4>1. DeleteMissingOk \in BOOLEAN
        OBVIOUS
      <4>2. QED
        BY <1>29, <4>1, Zenon DEF DeletePort
    <3>2. QED
      BY <3>1
  <2>6. PICK l \in {"delBindKey"} : Goto(p, l)
    BY <1>29 DEF DeletePort, RemovePort, Unbound
  <2>7. At(p, "rmPort")
    BY <1>29 DEF DeletePort
  <2>8. QED
    BY <2>1, <2>2, <2>3, <2>4, <2>5, <2>6, <2>7
<1>30. CASE DeleteBindingKey(p)
  BY <1>30, SMTT(60) DEF DeleteBindingKey
<1>31. CASE GetPodIp(p)
  <2>1. UNCHANGED <<lockState, exclusionLost, etcdKeys, midonet, pods,
                     ctn, todo, rng, attempt, refilled, gone>>
    BY <1>31 DEF GetPodIp
  <2>2. faults' \in 0 .. MaxFaults /\ At(p, "relGet")
    BY <1>31 DEF GetPodIp
  <2>3. CASE podIp[ctn[p]] # None /\ Goto(p, "relRange")
    <3>1. ip' = [ip EXCEPT ![p] = podIp[ctn[p]]]
      BY <1>31, <2>3 DEF GetPodIp
    <3>2. QED
      BY <2>1, <2>2, <2>3, <3>1
  <2>4. CASE Goto(p, "done") /\ UNCHANGED ip
    BY <2>1, <2>2, <2>4
  <2>5. QED
    BY <1>31, <2>3, <2>4 DEF GetPodIp
<1>32. CASE CompareRange(p)
  BY <1>32, SMTT(60) DEF CompareRange
<1>33. CASE PutBack(p)
  BY <1>33, SMTT(60) DEF PutBack
<1>34. CASE DeletePodIp(p)
  BY <1>34, SMTT(60) DEF DeletePodIp
<1>35. CASE CallLock(p) \/ Unlock(p)
  <2>1. L!TypeOK' /\ exclusionLost' = exclusionLost
    BY <1>35, LockStepType DEF CallLock, Unlock
  <2>2. QED
    BY <1>35, <2>1, QuietTypeInv DEF CallLock, Unlock
<1>36. CASE Lock(p)
  <2>1. L!TypeOK'
    BY <1>36, LockStepType DEF Lock
  <2>2. exclusionLost' \in BOOLEAN
    BY <1>36, Zenon DEF Lock
  <2>3. QED
    BY <1>36, <2>1, <2>2, QuietTypeInv DEF Lock
<1>37. CASE CmdAddK8s(p)
  BY <1>37, <1>1, <1>2, <1>3, <1>4, <1>5, <1>6, <1>7, <1>8, <1>9, <1>10, <1>11,
     <1>12, <1>13, <1>14, <1>15, <1>16, <1>16a, <1>16b, <1>17, <1>18, Zenon
  DEF CmdAddK8s, GetNewIP, Bingding
<1>38. CASE CreateNewBridge(p)
  BY <1>38, <1>19, <1>20, <1>21, <1>21a, <1>22, <1>23, <1>24, <1>25, Zenon DEF CreateNewBridge
<1>39. CASE CmdDelK8s(p)
  BY <1>39, <1>26, <1>27, <1>28, <1>29, <1>30, <1>31, <1>32, <1>33, <1>34, Zenon
  DEF CmdDelK8s
<1>40. QED
  BY <1>35, <1>36, <1>37, <1>38, <1>39, Zenon DEF Step

LEMMA NextTypeInv == TypeInv /\ [Next]_vars => TypeInv'
<1> SUFFICES ASSUME TypeInv, [Next]_vars PROVE TypeInv'
  OBVIOUS
<1>1. ASSUME NEW p \in Procs, NEW c \in Containers, StartAdd(p, c) \/ StartDel(p, c)
      PROVE  TypeInv'
  BY <1>1 DEF StartAdd, StartDel, TypeInv, TypeOK, L!TypeOK, OptAddress, Labels, At, Goto,
              lockState, etcdKeys, midonet, pods, locals
<1>2. ASSUME NEW p \in Procs, Crash(p) PROVE TypeInv'
  <2>1. L!TypeOK'
    BY <1>2, LockStepType DEF Crash, TypeInv, TypeOK
  <2>2. /\ eth0' \in [Containers -> OptAddress]
        /\ veth' \in [Containers -> {"none", "inside", "outside", "renamed"}]
    BY <1>2, HalfNetworkedFacts DEF Crash, TypeInv, TypeOK
  <2>3. UNCHANGED <<exclusionLost, etcdKeys, midonet, granted, removed, pc, locals>>
    BY <1>2 DEF Crash
  <2>4. QED
    BY <2>1, <2>2, <2>3 DEF TypeInv, TypeOK, etcdKeys, midonet, locals
<1>3. ASSUME Expire, NEW p \in Procs PROVE TypeInv'
  BY <1>3, LockStepType, QuietTypeInv DEF Expire, TypeInv, TypeOK
<1>4. CASE UNCHANGED vars
  <2>1. UNCHANGED <<lockState, faults, exclusionLost, etcdKeys, midonet, pods, pc, locals>>
    BY <1>4 DEF vars
  <2>2. L!TypeOK'
    BY <2>1 DEF TypeInv, TypeOK, L!TypeOK, lockState
  <2>3. QED
    BY <2>1, <2>2, QuietTypeInv DEF TypeInv, TypeOK
<1>5. CASE Expire
  <2>1. node \in Procs
    BY <1>5 DEF Expire, L!Expire, TypeInv, TypeOK, L!TypeOK
  <2>2. QED
    BY <1>3, <1>5, <2>1
<1>6. QED
  BY <1>1, <1>2, <1>4, <1>5, StepTypeInv DEF Next

\* The types of the keys in etcd, of what MidoNet and the host hold and of the
\* plugin's variables, whatever fails and dies: no address that is not one is
\* saved or released, and no process makes a third port.
THEOREM TypeCorrect == Spec => []TypeOK
<1>1. TypeInv => TypeOK
  BY DEF TypeInv
<1>2. QED
  BY <1>1, InitTypeInv, NextTypeInv, PTL DEF Spec

-----------------------------------------------------------------------------
\* A run of the plugin comes to its end.

\* CreateNewBridge is called by an ADD that has found the pool empty.
RefillInv ==
    \A p \in Procs :
        pc[p] \in {"create", "nbRange", "nbSetRange", "nbFill", "nbLink", "nbUsage"}
            => refilled[p]

\* What one step does to the run of q: RunsAdvance, for one process.
Ahead(q) == Place(q)' > Place(q)

InPlace(q) ==
    /\ UNCHANGED pc[q] /\ Place(q)' = Place(q)
    /\ \/ calls'[q] > calls[q]
       \/ UNCHANGED calls[q] /\ L!RequestsLeft(q)' < L!RequestsLeft(q)
       \/ /\ UNCHANGED <<calls[q], L!RequestsLeft(q)>>
          /\ todo'[q] \subseteq todo[q]

\* The run of q is not touched.
SameRun(q) ==
    /\ pc'[q] = pc[q] /\ refilled'[q] = refilled[q] /\ attempt'[q] = attempt[q]
    /\ calls'[q] = calls[q] /\ phase'[q] = phase[q] /\ try'[q] = try[q]
    /\ todo'[q] = todo[q]

LEMMA SameIsInPlace == ASSUME NEW q \in Procs, SameRun(q) PROVE InPlace(q)
<1>1. Place(q)' = Place(q)
  BY DEF SameRun, Place
<1>2. L!RequestsLeft(q)' = L!RequestsLeft(q)
  BY DEF SameRun, L!RequestsLeft
<1>3. QED
  BY <1>1, <1>2 DEF SameRun, InPlace

LEMMA OrderIs ==
    /\ Order["start"] = 0 /\ Order["addResult"] = 1 /\ Order["list"] = 2
    /\ Order["take"] = 3 /\ Order["create"] = 4 /\ Order["nbRange"] = 5
    /\ Order["nbSetRange"] = 6 /\ Order["nbFill"] = 7 /\ Order["nbLink"] = 8
    /\ Order["nbUsage"] = 9 /\ Order["saveIp"] = 12 /\ Order["bindGet"] = 13
    /\ Order["makePort"] = 14 /\ Order["bindIf"] = 15 /\ Order["saveBind"] = 16
    /\ Order["undoBind"] = 17 /\ Order["net"] = 23 /\ Order["saveRes"] = 24
    /\ Order["return"] = 25 /\ Order["delResult"] = 26 /\ Order["delBindGet"] = 27
    /\ Order["unbind"] = 28 /\ Order["rmPort"] = 29 /\ Order["delBindKey"] = 30
    /\ Order["relGet"] = 31 /\ Order["relRange"] = 32 /\ Order["release"] = 33
    /\ Order["delIpKey"] = 34 /\ Order["done"] = 35
BY DEF Order

\* A step of p leaves the other runs alone.
LEMMA StepLeavesOthers ==
    ASSUME TypeInv, NEW p \in Procs, Step(p), NEW q \in Procs, q # p
    PROVE  SameRun(q)
<1> USE DEF TypeInv, TypeOK, L!TypeOK, SameRun, Goto, Leave, L!EnterUnlock, L!Move,
            BindFailed, lockState, locals
<1>1. CASE AddCached(p) \/ AddFresh(p)
  BY <1>1 DEF AddCached, AddFresh
<1>2. CASE GetNewIP(p)
  BY <1>2 DEF GetNewIP, ListPool, PoolEmpty, TakeAddress, TakeNext, TakeNone, SaveIp
<1>3. CASE GetBinding(p) \/ MakePort(p) \/ MakePortFails(p) \/ BindInterface(p)
  BY <1>3 DEF GetBinding, MakePort, MakePortFails, BindInterface
<1>4. CASE BindInterfaceFails(p) \/ SaveBinding(p) \/ UndoBinding(p)
  BY <1>4 DEF BindInterfaceFails, SaveBinding, UndoBinding
<1>5. CASE DoNetworking(p) \/ DoNetworkingAgain(p) \/ DoNetworkingFails(p)
           \/ SaveResult(p) \/ Return(p)
  BY <1>5 DEF DoNetworking, DoNetworkingAgain, DoNetworkingFails, SaveResult, Return
<1>6. CASE CheckPool(p) \/ CreateBridge(p) \/ SetRange(p) \/ SetRangeUnsaved(p) \/ LinkRouter(p)
  BY <1>6 DEF CheckPool, CreateBridge, SetRange, SetRangeUnsaved, LinkRouter
<1>7. CASE FillPool(p) \/ SetUsage(p) \/ CreateNewBridgeFails(p)
  BY <1>7 DEF FillPool, SetUsage, CreateNewBridgeFails
<1>8. CASE CmdDelK8s(p)
  BY <1>8 DEF CmdDelK8s, DeleteResult, GetBindingToDelete, DeleteBinding, DeletePort,
              DeleteBindingKey, GetPodIp, CompareRange, PutBack, DeletePodIp
<1>9. CASE CallLock(p)
  BY <1>9 DEF CallLock, L!CallLock
<1>10. CASE Lock(p)
  BY <1>10 DEF Lock, L!LockStep, L!SetCreates, L!SetExists, L!SetFails, L!GetFinds,
               L!GetMissing, L!WatchFires, L!ReadFails, L!NextAttempt
<1>11. CASE Unlock(p)
  BY <1>11 DEF Unlock, L!UnlockStep, L!DeleteRemoves, L!DeleteMissing, L!DeleteFails
<1>12. QED
  BY <1>1, <1>2, <1>3, <1>4, <1>5, <1>6, <1>7, <1>8, <1>9, <1>10, <1>11
  DEF Step, CmdAddK8s, Bingding, CreateNewBridge

\* Inside Lock and Unlock a process goes the way of CallsAdvance.
LEMMA LockAdvances ==
    ASSUME TypeInv, NEW p \in Procs,
           CallLock(p) \/ Lock(p) \/ Unlock(p) \/ Crash(p)
    PROVE  InPlace(p)
<1>1. /\ phase \in [Procs -> L!Phases] /\ try \in [Procs -> 0 .. DefaultTry]
      /\ calls \in [Procs -> 0 .. MaxCalls] /\ DefaultTry \in Nat \ {0} /\ MaxCalls \in Nat
  BY PodAssumption DEF PodAssumption, TypeInv, TypeOK, L!TypeOK
<1>2. UNCHANGED <<pc, refilled, attempt, todo>>
  BY DEF CallLock, Lock, Unlock, Crash, locals
<1>3. Place(p)' = Place(p) /\ pc'[p] = pc[p] /\ todo'[p] = todo[p]
  BY <1>2 DEF Place
<1>4. \/ calls'[p] > calls[p]
      \/ UNCHANGED calls[p] /\ L!RequestsLeft(p)' < L!RequestsLeft(p)
      \/ UNCHANGED <<calls[p], L!RequestsLeft(p)>>
  <2> USE <1>1 DEF L!RequestsLeft, L!Move
  <2>1. CASE CallLock(p)
    BY <2>1 DEF CallLock, L!CallLock
  <2>2. CASE Lock(p)
    <3>1. CASE L!SetCreates(p) \/ L!SetExists(p) \/ L!WatchFires(p) \/ L!GetFinds(p)
      BY <3>1 DEF L!SetCreates, L!SetExists, L!WatchFires, L!GetFinds
    <3>2. CASE L!SetFails(p) \/ L!GetMissing(p) \/ L!ReadFails(p)
      <4>1. phase[p] \in {"set", "get", "watch"} /\ L!NextAttempt(p) /\ calls' = calls
        BY <3>2 DEF L!SetFails, L!GetMissing, L!ReadFails
      <4>2. CASE try[p] < DefaultTry
        BY <4>1, <4>2 DEF L!NextAttempt
      <4>3. CASE ~(try[p] < DefaultTry)
        BY <4>1, <4>3 DEF L!NextAttempt
      <4>4. QED
        BY <4>2, <4>3
    <3>3. QED
      BY <2>2, <3>1, <3>2 DEF Lock, L!LockStep
  <2>3. CASE Unlock(p)
    BY <2>3 DEF Unlock, L!UnlockStep, L!DeleteRemoves, L!DeleteMissing, L!DeleteFails
  <2>4. CASE Crash(p)
    BY <2>4 DEF Crash, L!Die
  <2>5. QED
    BY <2>1, <2>2, <2>3, <2>4
<1>5. QED
  BY <1>3, <1>4 DEF InPlace

\* A step of the ADD or the DEL itself goes on to a later place, or it is done
\* with one address of a list.
LEMMA StepGoesOn ==
    ASSUME TypeInv, RefillInv, NEW p \in Procs,
           CmdAddK8s(p) \/ CreateNewBridge(p) \/ CmdDelK8s(p)
    PROVE  Ahead(p) \/ InPlace(p)
<1>t. /\ pc \in [Procs -> Labels] /\ refilled \in [Procs -> BOOLEAN]
      /\ attempt \in [Procs -> {1, 2}] /\ todo \in [Procs -> SUBSET Address]
      /\ phase \in [Procs -> L!Phases]
  BY DEF TypeInv, TypeOK, L!TypeOK
<1> USE <1>t, OrderIs
    DEF Ahead, Place, At, Inside, Goto, Leave, BindFailed, locals
<1>1. CASE AddCached(p) \/ AddFresh(p)
  BY <1>1 DEF AddCached, AddFresh
<1>2. CASE ListPool(p) \/ TakeAddress(p) \/ TakeNone(p) \/ SaveIp(p)
  BY <1>2 DEF ListPool, TakeAddress, TakeNone, SaveIp
<1>3. CASE PoolEmpty(p)
  BY <1>3 DEF PoolEmpty
<1>4. CASE TakeNext(p)
  <2>1. UNCHANGED <<lockState, pc, attempt, refilled>> /\ todo'[p] \subseteq todo[p]
    BY <1>4 DEF TakeNext
  <2>2. QED
    BY <2>1 DEF InPlace, L!RequestsLeft, lockState
<1>5. CASE GetBinding(p) \/ MakePort(p) \/ BindInterface(p) \/ SaveBinding(p)
  BY <1>5 DEF GetBinding, MakePort, BindInterface, SaveBinding
<1>6. CASE MakePortFails(p) \/ BindInterfaceFails(p) \/ UndoBinding(p)
  BY <1>6 DEF MakePortFails, BindInterfaceFails, UndoBinding
<1>7. CASE DoNetworking(p) \/ DoNetworkingAgain(p) \/ DoNetworkingFails(p)
           \/ SaveResult(p) \/ Return(p)
  BY <1>7 DEF DoNetworking, DoNetworkingAgain, DoNetworkingFails, SaveResult, Return
<1>8. CASE CheckPool(p)
  BY <1>8 DEF CheckPool, RefillInv
<1>9. CASE CreateBridge(p) \/ SetRange(p) \/ SetRangeUnsaved(p) \/ LinkRouter(p)
  BY <1>9 DEF CreateBridge, SetRange, SetRangeUnsaved, LinkRouter
<1>10. CASE FillPool(p)
  <2>1. PICK a \in todo[p] :
           /\ todo' = [todo EXCEPT ![p] = @ \ {a}]
           /\ Goto(p, IF todo[p] = {a} THEN "nbLink" ELSE "nbFill")
    BY <1>10 DEF FillPool
  <2>2. UNCHANGED <<lockState, attempt, refilled>> /\ pc[p] = "nbFill"
    BY <1>10 DEF FillPool
  <2>3. CASE todo[p] = {a}
    BY <2>1, <2>2, <2>3
  <2>4. CASE todo[p] # {a}
    <3>1. pc'[p] = pc[p] /\ Place(p)' = Place(p) /\ todo'[p] \subseteq todo[p]
      BY <2>1, <2>2, <2>4
    <3>2. QED
      BY <2>2, <3>1 DEF InPlace, L!RequestsLeft, lockState
  <2>5. QED
    BY <2>3, <2>4
<1>11. CASE SetUsage(p)
  BY <1>11 DEF SetUsage, RefillInv
<1>12. CASE CreateNewBridgeFails(p)
  BY <1>12 DEF CreateNewBridgeFails
<1>13. CASE DeleteResult(p) \/ GetBindingToDelete(p) \/ DeleteBinding(p)
            \/ DeletePort(p) \/ DeleteBindingKey(p)
  BY <1>13 DEF DeleteResult, GetBindingToDelete, DeleteBinding, DeletePort, DeleteBindingKey
<1>14. CASE GetPodIp(p) \/ CompareRange(p) \/ PutBack(p) \/ DeletePodIp(p)
  BY <1>14 DEF GetPodIp, CompareRange, PutBack, DeletePodIp
<1>15. QED
  BY <1>1, <1>2, <1>3, <1>4, <1>5, <1>6, <1>7, <1>8, <1>9, <1>10, <1>11, <1>12, <1>13, <1>14
  DEF CmdAddK8s, GetNewIP, Bingding, CreateNewBridge, CmdDelK8s

LEMMA NextAdvances ==
    ASSUME TypeInv, RefillInv, [Next]_vars, NEW q \in Procs
    PROVE  Ahead(q) \/ InPlace(q)
<1>t. pc \in [Procs -> Labels]
  BY DEF TypeInv, TypeOK
<1>1. ASSUME NEW p \in Procs, NEW c \in Containers, StartAdd(p, c) \/ StartDel(p, c)
      PROVE  Ahead(q) \/ InPlace(q)
  <2>1. CASE p = q
    BY <1>t, <1>1, <2>1, OrderIs DEF StartAdd, StartDel, At, Goto, Ahead, Place
  <2>2. CASE p # q
    <3>1. SameRun(q)
      BY <1>t, <1>1, <2>2 DEF StartAdd, StartDel, Goto, SameRun, lockState
    <3>2. QED
      BY <3>1, SameIsInPlace
  <2>3. QED
    BY <2>1, <2>2
<1>2. ASSUME NEW p \in Procs, Step(p) PROVE Ahead(q) \/ InPlace(q)
  <2>1. CASE p = q
    BY <1>2, <2>1, LockAdvances, StepGoesOn DEF Step
  <2>2. CASE p # q
    BY <1>2, <2>2, StepLeavesOthers, SameIsInPlace
  <2>3. QED
    BY <2>1, <2>2
<1>3. ASSUME NEW p \in Procs, Crash(p) PROVE Ahead(q) \/ InPlace(q)
  <2>1. CASE p = q
    BY <1>3, <2>1, LockAdvances
  <2>2. CASE p # q
    <3>1. SameRun(q)
      BY <1>3, <2>2 DEF TypeInv, TypeOK, L!TypeOK, Crash, L!Die, L!Move, SameRun, locals
    <3>2. QED
      BY <3>1, SameIsInPlace
  <2>3. QED
    BY <2>1, <2>2
<1>4. CASE Expire \/ UNCHANGED vars
  <2>1. SameRun(q)
    BY <1>4 DEF Expire, L!Expire, vars, lockState, locals, SameRun
  <2>2. QED
    BY <2>1, SameIsInPlace
<1>5. QED
  BY <1>1, <1>2, <1>3, <1>4 DEF Next

LEMMA NextRefillInv == TypeInv /\ RefillInv /\ [Next]_vars => RefillInv'
<1> SUFFICES ASSUME TypeInv, RefillInv, [Next]_vars, NEW q \in Procs,
                    pc'[q] \in {"create", "nbRange", "nbSetRange", "nbFill", "nbLink", "nbUsage"}
             PROVE  refilled'[q]
  BY DEF RefillInv
<1>t. pc \in [Procs -> Labels] /\ refilled \in [Procs -> BOOLEAN]
  BY DEF TypeInv, TypeOK
<1>r. pc[q] \in {"create", "nbRange", "nbSetRange", "nbFill", "nbLink", "nbUsage"} => refilled[q]
  BY DEF RefillInv
<1>1. CASE SameRun(q)
  BY <1>r, <1>1 DEF SameRun
<1>2. CASE Step(q)
  <2> USE <1>t, <1>r DEF Goto, At, Inside, Leave, BindFailed, locals
  <2>1. CASE CallLock(q) \/ Lock(q) \/ Unlock(q)
    BY <2>1 DEF CallLock, Lock, Unlock
  <2>2. CASE PoolEmpty(q)
    BY <2>2 DEF PoolEmpty
  <2>3. CASE CmdAddK8s(q) /\ ~PoolEmpty(q)
    <3>1. CASE AddCached(q) \/ AddFresh(q) \/ GetNewIP(q)
      BY <2>3, <3>1 DEF AddCached, AddFresh, GetNewIP, ListPool, TakeAddress, TakeNext,
                        TakeNone, SaveIp
    <3>2. CASE Bingding(q)
      BY <3>2 DEF Bingding, GetBinding, MakePort, MakePortFails, BindInterface,
                  BindInterfaceFails, SaveBinding, UndoBinding
    <3>3. CASE DoNetworking(q) \/ DoNetworkingAgain(q) \/ DoNetworkingFails(q)
               \/ SaveResult(q) \/ Return(q)
      BY <3>3 DEF DoNetworking, DoNetworkingAgain, DoNetworkingFails, SaveResult, Return
    <3>4. QED
      BY <2>3, <3>1, <3>2, <3>3 DEF CmdAddK8s
  <2>4. CASE CreateNewBridge(q)
    BY <2>4 DEF CreateNewBridge, CheckPool, CreateBridge, SetRange, SetRangeUnsaved,
                FillPool, LinkRouter, SetUsage, CreateNewBridgeFails
  <2>5. CASE CmdDelK8s(q)
    BY <2>5 DEF CmdDelK8s, DeleteResult, GetBindingToDelete, DeleteBinding, DeletePort,
                DeleteBindingKey, GetPodIp, CompareRange, PutBack, DeletePodIp
  <2>6. QED
    BY <1>2, <2>1, <2>2, <2>3, <2>4, <2>5 DEF Step
<1>3. ASSUME NEW p \in Procs, NEW c \in Containers, StartAdd(p, c) \/ StartDel(p, c)
      PROVE  refilled'[q]
  BY <1>t, <1>r, <1>3 DEF StartAdd, StartDel, Goto
<1>4. CASE Expire \/ UNCHANGED vars \/ \E p \in Procs : Crash(p)
  BY <1>r, <1>4 DEF Expire, Crash, vars, locals
<1>5. QED
  BY <1>1, <1>2, <1>3, <1>4, StepLeavesOthers DEF Next

\* No step of anybody takes a run of the plugin back, whatever fails or dies, and
\* neither do its own retries and its clean-up.
THEOREM RunsEnd == Spec => RunsAdvance
<1>1. Init => RefillInv
  BY DEF Init, RefillInv
<1>2. TypeInv /\ RefillInv /\ [Next]_vars =>
         [\A p \in Procs :
          \/ Place(p)' > Place(p)
          \/ /\ UNCHANGED pc[p] /\ Place(p)' = Place(p)
             /\ \/ calls'[p] > calls[p]
                \/ UNCHANGED calls[p] /\ L!RequestsLeft(p)' < L!RequestsLeft(p)
                \/ /\ UNCHANGED <<calls[p], L!RequestsLeft(p)>>
                   /\ todo'[p] \subseteq todo[p]]_vars
  BY NextAdvances DEF Ahead, InPlace
<1>3. QED
  BY <1>1, <1>2, InitTypeInv, NextTypeInv, NextRefillInv, PTL DEF Spec, RunsAdvance

-----------------------------------------------------------------------------
\* Unique addresses, as long as etcd gives no errors and the lock excludes.
\* MidoNet and the veth set-up may fail and processes may die.

NoEtcdErrors == "etcd" \notin FaultKinds

\* Between SaveIp and SaveResult the address in hand is the saved one.
Saved == {"bindGet", "makePort", "bindIf", "saveBind", "undoBind", "net", "saveRes"}

Creating == {"nbRange", "nbSetRange", "nbFill", "nbLink", "nbUsage"}

Unbinding == {"unbind", "rmPort", "delBindKey"}

Releasing == {"relGet", "relRange", "release", "delIpKey"}

\* What one process knows of its container.
ProcInv(p) == Live(p) =>
    /\ pc[p] \in Creating => phase[p] = "held"
    /\ pc[p] \in Saved => podIp[ctn[p]] = ip[p]
    /\ pc[p] \in Unbinding => binding[ctn[p]] # None
    /\ pc[p] \in Releasing => binding[ctn[p]] = None
    /\ pc[p] = "return" => result[ctn[p]] = ip[p]
    /\ pc[p] \notin {"addResult", "return"} => granted[ctn[p]] = None
    /\ pc[p] \notin {"addResult", "return", "delResult"} => result[ctn[p]] = None

ControlInv ==
    /\ \A p, q \in Procs : Live(p) /\ Live(q) /\ ctn[p] = ctn[q] => p = q
    /\ \A p \in Procs : ProcInv(p)
    /\ \A c \in Containers : granted[c] # None => result[c] = granted[c]
    /\ \A p \in Procs : phase[p] \in {"idle", "dead"} \/ pc[p] \notin {"start", "done"}
    /\ exclusionLost \/ ~Overlap

\* Container c lays claim to address a: a result or a saved binding refers to
\* it, or a process on its way to one of them, or to the pool, does.
Owns(c, a) ==
    \/ result[c] = a
    \/ binding[c] # None /\ podIp[c] = a
    \/ \E p \in Procs :
          /\ Live(p) /\ ctn[p] = c
          /\ (pc[p] \in Holding /\ ip[p] = a) \/ (pc[p] = "relGet" /\ podIp[c] = a)

\* CreateNewBridge is about to put a into the pool.
Filling(a) == \E p \in Procs : Live(p) /\ pc[p] = "nbFill" /\ a \in todo[p]

\* An address is in one place: with one container, in the pool or still to be
\* put there; and none is of a range to come.
AddressInv ==
    /\ \A a \in Address : \A c, d \in Containers : Owns(c, a) /\ Owns(d, a) => c = d
    /\ \A a \in Address : \A c \in Containers : Owns(c, a) => a \notin avail /\ ~Filling(a)
    /\ \A a \in avail : ~Filling(a)
    /\ \A a \in Address :
          a \in avail \/ Filling(a) \/ (\E c \in Containers : Owns(c, a)) =>
              RangeOf(a) <= iprange
    /\ \A p \in Procs : Live(p) /\ pc[p] = "nbSetRange" => rng[p] = iprange + 1

PodInv == TypeInv /\ ControlInv /\ (~exclusionLost => AddressInv)

\* The rest of a step, once the step of p itself is left aside: nothing of
\* another process and nothing of another container changes.
LocalStep(p) ==
    /\ Live(p)
    /\ exclusionLost => exclusionLost'
    /\ ctn' = ctn
    /\ \A q \in Procs \ {p} :
          /\ pc'[q] = pc[q]
          /\ ip'[q] = ip[q]
          /\ todo'[q] = todo[q]
          /\ rng'[q] = rng[q]
          /\ phase'[q] = phase[q]
    /\ \A c \in Containers \ {ctn[p]} :
          /\ result'[c] = result[c]
          /\ binding'[c] = binding[c]
          /\ podIp'[c] = podIp[c]
          /\ granted'[c] = granted[c]

LEMMA StepIsLocal ==
    ASSUME TypeInv, ControlInv, NEW p \in Procs, Step(p)
    PROVE  LocalStep(p)
<1> USE DEF TypeInv, TypeOK, L!TypeOK, LocalStep, Live, At, Inside, Goto, Leave,
        L!EnterUnlock, L!Move, Effective, Ineffective, BindFailed,
        lockState, etcdKeys, midonet, pods, locals
<1>1. CASE AddCached(p)
  BY <1>1 DEF AddCached
<1>2. CASE AddFresh(p)
  BY <1>2 DEF AddFresh
<1>3. CASE ListPool(p)
  BY <1>3 DEF ListPool
<1>4. CASE PoolEmpty(p)
  BY <1>4 DEF PoolEmpty
<1>5. CASE TakeAddress(p)
  BY <1>5 DEF TakeAddress
<1>6. CASE TakeNext(p)
  BY <1>6 DEF TakeNext
<1>7. CASE TakeNone(p)
  BY <1>7 DEF TakeNone
<1>8. CASE SaveIp(p)
  BY <1>8 DEF SaveIp
<1>9. CASE GetBinding(p)
  BY <1>9 DEF GetBinding
<1>10. CASE MakePort(p)
  BY <1>10 DEF MakePort
<1>11. CASE MakePortFails(p)
  BY <1>11 DEF MakePortFails
<1>12. CASE BindInterface(p)
  BY <1>12 DEF BindInterface
<1>13. CASE BindInterfaceFails(p)
  BY <1>13 DEF BindInterfaceFails
<1>14. CASE SaveBinding(p)
  BY <1>14 DEF SaveBinding
<1>15. CASE UndoBinding(p)
  BY <1>15 DEF UndoBinding
<1>16. CASE DoNetworking(p)
  BY <1>16 DEF DoNetworking
<1>16a. CASE DoNetworkingAgain(p)
  BY <1>16a DEF DoNetworkingAgain
<1>16b. CASE DoNetworkingFails(p)
  BY <1>16b DEF DoNetworkingFails
<1>17. CASE SaveResult(p)
  BY <1>17 DEF SaveResult
<1>18. CASE Return(p)
  BY <1>18 DEF Return
<1>19. CASE CheckPool(p)
  BY <1>19 DEF CheckPool
<1>20. CASE CreateBridge(p)
  BY <1>20 DEF CreateBridge
<1>21. CASE SetRange(p)
  BY <1>21 DEF SetRange
<1>21a. CASE SetRangeUnsaved(p)
  BY <1>21a DEF SetRangeUnsaved
<1>22. CASE FillPool(p)
  BY <1>22 DEF FillPool
<1>23. CASE LinkRouter(p)
  BY <1>23 DEF LinkRouter
<1>24. CASE SetUsage(p)
  BY <1>24 DEF SetUsage
<1>25. CASE CreateNewBridgeFails(p)
  BY <1>25 DEF CreateNewBridgeFails
<1>26. CASE DeleteResult(p)
  BY <1>26 DEF DeleteResult
<1>27. CASE GetBindingToDelete(p)
  BY <1>27 DEF GetBindingToDelete
<1>28. CASE DeleteBinding(p)
  BY <1>28 DEF DeleteBinding
<1>29. CASE DeletePort(p)
  BY <1>29 DEF DeletePort
<1>30. CASE DeleteBindingKey(p)
  BY <1>30 DEF DeleteBindingKey
<1>31. CASE GetPodIp(p)
  BY <1>31 DEF GetPodIp
<1>32. CASE CompareRange(p)
  BY <1>32 DEF CompareRange
<1>33. CASE PutBack(p)
  BY <1>33 DEF PutBack
<1>34. CASE DeletePodIp(p)
  BY <1>34 DEF DeletePodIp
<1>35. CASE CallLock(p)
  BY <1>35 DEF CallLock, L!CallLock
<1>36. CASE Lock(p)
  <2>1. phase[p] \in {"set", "get", "watch"} /\ \A q \in Procs \ {p} : phase'[q] = phase[q]
    BY <1>36 DEF Lock, L!LockStep, L!SetCreates, L!SetExists, L!SetFails, L!GetFinds,
       L!GetMissing, L!ReadFails, L!WatchFires, L!NextAttempt
  <2>2. pc[p] \notin {"start", "done"}
    BY <2>1 DEF ControlInv
  <2>3. QED
    BY <1>36, <2>1, <2>2 DEF Lock
<1>37. CASE Unlock(p)
  <2>1. phase[p] = "delete" /\ \A q \in Procs \ {p} : phase'[q] = phase[q]
    BY <1>37 DEF Unlock, L!UnlockStep, L!DeleteRemoves, L!DeleteMissing, L!DeleteFails
  <2>2. pc[p] \notin {"start", "done"}
    BY <2>1 DEF ControlInv
  <2>3. QED
    BY <1>37, <2>1, <2>2 DEF Unlock
<1>38. CASE CmdAddK8s(p)
  BY <1>38, <1>1, <1>2, <1>3, <1>4, <1>5, <1>6, <1>7, <1>8, <1>9, <1>10, <1>11,
     <1>12, <1>13, <1>14, <1>15, <1>16, <1>16a, <1>16b, <1>17, <1>18, Zenon
  DEF CmdAddK8s, GetNewIP, Bingding
<1>39. CASE CreateNewBridge(p)
  BY <1>39, <1>19, <1>20, <1>21, <1>21a, <1>22, <1>23, <1>24, <1>25, Zenon DEF CreateNewBridge
<1>40. CASE CmdDelK8s(p)
  BY <1>40, <1>26, <1>27, <1>28, <1>29, <1>30, <1>31, <1>32, <1>33, <1>34, Zenon
  DEF CmdDelK8s
<1>41. QED
  BY <1>35, <1>36, <1>37, <1>38, <1>39, <1>40, Zenon DEF Step

\* What p's step has to leave true of p and its container.
ControlStep(p) ==
    /\ ProcInv(p)'
    /\ granted'[ctn[p]] # None => result'[ctn[p]] = granted'[ctn[p]]
    /\ phase'[p] \in {"idle", "dead"} \/ pc'[p] \notin {"start", "done"}
    /\ \/ exclusionLost' = exclusionLost /\ (phase'[p] = "held" => phase[p] = "held")
       \/ exclusionLost' \/ ~Overlap'

LEMMA StepControls ==
    ASSUME ~Fault("etcd"), TypeInv, ControlInv, NEW p \in Procs, Step(p)
    PROVE  ControlStep(p)
<1>a. ctn[p] \in Containers
  BY StepIsLocal DEF LocalStep, Live, TypeInv
<1> USE <1>a
    DEF TypeInv, TypeOK, L!TypeOK, ControlInv, ControlStep, ProcInv, Live, At, Inside,
        Goto, Leave, L!EnterUnlock, L!Move, Effective, Ineffective, BindFailed,
        Creating, Saved, Unbinding, Releasing,
        lockState, etcdKeys, midonet, pods, locals
<1>1. CASE AddCached(p)
  BY <1>1, SMTT(60) DEF AddCached
<1>2. CASE AddFresh(p)
  BY <1>2, SMTT(60) DEF AddFresh
<1>3. CASE ListPool(p)
  BY <1>3, SMTT(60) DEF ListPool
<1>4. CASE PoolEmpty(p)
  BY <1>4, SMTT(60) DEF PoolEmpty
<1>5. CASE TakeAddress(p)
  BY <1>5, SMTT(60) DEF TakeAddress
<1>6. CASE TakeNext(p)
  BY <1>6, SMTT(60) DEF TakeNext
<1>7. CASE TakeNone(p)
  BY <1>7, SMTT(60) DEF TakeNone
<1>8. CASE SaveIp(p)
  BY <1>8, SMTT(60) DEF SaveIp
<1>9. CASE GetBinding(p)
  BY <1>9, SMTT(60) DEF GetBinding
<1>10. CASE MakePort(p)
  BY <1>10, SMTT(60) DEF MakePort
<1>11. CASE MakePortFails(p)
  BY <1>11, SMTT(60) DEF MakePortFails
<1>12. CASE BindInterface(p)
  BY <1>12, SMTT(60) DEF BindInterface
<1>13. CASE BindInterfaceFails(p)
  BY <1>13, SMTT(60) DEF BindInterfaceFails
<1>14. CASE SaveBinding(p)
  BY <1>14, SMTT(60) DEF SaveBinding
<1>15. CASE UndoBinding(p)
  BY <1>15, SMTT(60) DEF UndoBinding
<1>16. CASE DoNetworking(p)
  BY <1>16, SMTT(60) DEF DoNetworking
<1>16a. CASE DoNetworkingAgain(p)
  BY <1>16a, SMTT(60) DEF DoNetworkingAgain
<1>16b. CASE DoNetworkingFails(p)
  BY <1>16b, SMTT(60) DEF DoNetworkingFails
<1>17. CASE SaveResult(p)
  BY <1>17, SMTT(60) DEF SaveResult
<1>18. CASE Return(p)
  BY <1>18, SMTT(60) DEF Return
<1>19. CASE CheckPool(p)
  BY <1>19, SMTT(60) DEF CheckPool
<1>20. CASE CreateBridge(p)
  BY <1>20, SMTT(60) DEF CreateBridge
<1>21. CASE SetRange(p)
  BY <1>21, SMTT(60) DEF SetRange
<1>21a. CASE SetRangeUnsaved(p)
  BY <1>21a DEF SetRangeUnsaved
<1>22. CASE FillPool(p)
  BY <1>22, SMTT(60) DEF FillPool
<1>23. CASE LinkRouter(p)
  BY <1>23, SMTT(60) DEF LinkRouter
<1>24. CASE SetUsage(p)
  BY <1>24, SMTT(60) DEF SetUsage
<1>25. CASE CreateNewBridgeFails(p)
  BY <1>25, SMTT(60) DEF CreateNewBridgeFails
<1>26. CASE DeleteResult(p)
  BY <1>26, SMTT(60) DEF DeleteResult
<1>27. CASE GetBindingToDelete(p)
  BY <1>27, SMTT(60) DEF GetBindingToDelete
<1>28. CASE DeleteBinding(p)
  BY <1>28, SMTT(60) DEF DeleteBinding
<1>29. CASE DeletePort(p)
  BY <1>29, SMTT(60) DEF DeletePort
<1>30. CASE DeleteBindingKey(p)
  BY <1>30, SMTT(60) DEF DeleteBindingKey
<1>31. CASE GetPodIp(p)
  BY <1>31, SMTT(60) DEF GetPodIp
<1>32. CASE CompareRange(p)
  BY <1>32, SMTT(60) DEF CompareRange
<1>33. CASE PutBack(p)
  BY <1>33, SMTT(60) DEF PutBack
<1>34. CASE DeletePodIp(p)
  BY <1>34, SMTT(60) DEF DeletePodIp
<1>35. CASE CallLock(p)
  BY <1>35 DEF CallLock, L!CallLock
<1>36. CASE Lock(p)
  <2>1. phase[p] \in {"set", "get", "watch"}
    BY <1>36 DEF Lock, L!LockStep, L!SetCreates, L!SetExists, L!SetFails, L!GetFinds,
       L!GetMissing, L!ReadFails, L!WatchFires
  <2>2. QED
    BY <1>36, <2>1 DEF Lock
<1>37. CASE Unlock(p)
  <2>1. phase[p] = "delete" /\ phase'[p] \in {"delete", "idle"}
    BY <1>37 DEF Unlock, L!UnlockStep, L!DeleteRemoves, L!DeleteMissing, L!DeleteFails
  <2>2. QED
    BY <1>37, <2>1 DEF Unlock
<1>38. CASE CmdAddK8s(p)
  BY <1>38, <1>1, <1>2, <1>3, <1>4, <1>5, <1>6, <1>7, <1>8, <1>9, <1>10, <1>11,
     <1>12, <1>13, <1>14, <1>15, <1>16, <1>16a, <1>16b, <1>17, <1>18, Zenon
  DEF CmdAddK8s, GetNewIP, Bingding
<1>39. CASE CreateNewBridge(p)
  BY <1>39, <1>19, <1>20, <1>21, <1>21a, <1>22, <1>23, <1>24, <1>25, Zenon DEF CreateNewBridge
<1>40. CASE CmdDelK8s(p)
  BY <1>40, <1>26, <1>27, <1>28, <1>29, <1>30, <1>31, <1>32, <1>33, <1>34, Zenon
  DEF CmdDelK8s
<1>41. QED
  BY <1>35, <1>36, <1>37, <1>38, <1>39, <1>40, Zenon DEF Step

\* From p and its container to all of them.
LEMMA ControlStepInv ==
    ASSUME TypeInv, ControlInv, NEW p \in Procs, LocalStep(p), ControlStep(p)
    PROVE  ControlInv'
<1>1. ASSUME NEW q \in Procs, q # p PROVE Live(q)' <=> Live(q)
  BY <1>1 DEF LocalStep, Live
<1>2. Live(p) /\ ctn[p] \in Containers
  BY DEF LocalStep, Live, TypeInv
<1>3. \A q, r \in Procs : Live(q)' /\ Live(r)' /\ ctn'[q] = ctn'[r] => q = r
  BY <1>1, <1>2 DEF LocalStep, ControlInv
<1>4. ASSUME NEW q \in Procs PROVE ProcInv(q)'
  <2>1. CASE q = p
    BY <2>1 DEF ControlStep
  <2>2. CASE q # p /\ ~Live(q)
    BY <2>2, <1>1 DEF ProcInv
  <2>3. CASE q # p /\ Live(q)
    <3>1. ctn[q] \in Containers \ {ctn[p]}
      BY <2>3, <1>2 DEF ControlInv, TypeInv, Live
    <3>2. QED
      BY <2>3, <3>1 DEF ProcInv, LocalStep, ControlInv, Live
  <2>4. QED
    BY <2>1, <2>2, <2>3
<1>5. ASSUME NEW c \in Containers, granted'[c] # None PROVE result'[c] = granted'[c]
  BY <1>2, <1>5 DEF ControlStep, LocalStep, ControlInv
<1>6. \A q \in Procs : phase'[q] \in {"idle", "dead"} \/ pc'[q] \notin {"start", "done"}
  BY DEF ControlStep, LocalStep, ControlInv
<1>7. exclusionLost' \/ ~Overlap'
  <2>1. CASE exclusionLost' = exclusionLost /\ (phase'[p] = "held" => phase[p] = "held")
    BY <2>1 DEF LocalStep, ControlInv, Overlap
  <2>2. QED
    BY <2>1 DEF ControlStep
<1>8. QED
  BY <1>3, <1>4, <1>5, <1>6, <1>7 DEF ControlInv

-----------------------------------------------------------------------------
\* What p's container has a claim to, as p sees it.
Has(p, a) ==
    \/ result[ctn[p]] = a
    \/ binding[ctn[p]] # None /\ podIp[ctn[p]] = a
    \/ pc[p] \in Holding /\ ip[p] = a
    \/ pc[p] = "relGet" /\ podIp[ctn[p]] = a

\* p's container gains no address, the pool stays as it is and p begins neither
\* to fill it nor, but for the next range, to replace it.
NoGain(p) ==
    /\ \A a \in Address : Has(p, a)' => Has(p, a)
    /\ avail' = avail
    /\ iprange' = iprange
    /\ pc'[p] = "nbFill" => pc[p] = "nbFill" /\ todo'[p] = todo[p]
    /\ pc'[p] = "nbSetRange" =>
          rng'[p] = iprange + 1 \/ (pc[p] = "nbSetRange" /\ rng'[p] = rng[p])

\* The four steps that move an address between the pool and a container, or
\* make new ones.
Moves(p) == TakeAddress(p) \/ PutBack(p) \/ SetRange(p) \/ FillPool(p)

LEMMA StepGainsNothing ==
    ASSUME NoEtcdErrors, TypeInv, ControlInv, NEW p \in Procs, Step(p), ~Moves(p)
    PROVE  NoGain(p)
<1>0. ~Fault("etcd")
  BY DEF Fault, L!Fault, NoEtcdErrors
<1>a. ctn[p] \in Containers /\ LocalStep(p) /\ ProcInv(p)
  BY StepIsLocal DEF LocalStep, Live, TypeInv, ControlInv
<1> USE <1>0, <1>a, AddressFacts
    DEF TypeInv, TypeOK, NoGain, Has, Holding, ProcInv, Live, At, Inside,
        Goto, Leave, Effective, Ineffective, BindFailed, L!EnterUnlock, L!Move,
        Saved, Unbinding, lockState, etcdKeys, midonet, pods, locals
<1>1. CASE AddCached(p)
  BY <1>1 DEF AddCached
<1>2. CASE AddFresh(p)
  BY <1>2 DEF AddFresh
<1>3. CASE ListPool(p)
  BY <1>3 DEF ListPool
<1>4. CASE PoolEmpty(p)
  BY <1>4 DEF PoolEmpty
<1>6. CASE TakeNext(p)
  BY <1>6 DEF TakeNext
<1>7. CASE TakeNone(p)
  BY <1>7 DEF TakeNone
<1>8. CASE SaveIp(p)
  BY <1>8 DEF SaveIp
<1>9. CASE GetBinding(p)
  BY <1>9 DEF GetBinding
<1>10. CASE MakePort(p)
  BY <1>10 DEF MakePort
<1>11. CASE MakePortFails(p)
  BY <1>11 DEF MakePortFails
<1>12. CASE BindInterface(p)
  BY <1>12 DEF BindInterface
<1>13. CASE BindInterfaceFails(p)
  BY <1>13 DEF BindInterfaceFails
<1>14. CASE SaveBinding(p)
  BY <1>14 DEF SaveBinding
<1>15. CASE UndoBinding(p)
  BY <1>15 DEF UndoBinding
<1>16. CASE DoNetworking(p)
  BY <1>16 DEF DoNetworking
<1>16a. CASE DoNetworkingAgain(p)
  BY <1>16a DEF DoNetworkingAgain
<1>16b. CASE DoNetworkingFails(p)
  BY <1>16b DEF DoNetworkingFails
<1>17. CASE SaveResult(p)
  BY <1>17 DEF SaveResult
<1>18. CASE Return(p)
  BY <1>18 DEF Return
<1>19. CASE CheckPool(p)
  BY <1>19 DEF CheckPool
<1>20. CASE CreateBridge(p)
  BY <1>20 DEF CreateBridge, NextCIDR
<1>21a. CASE SetRangeUnsaved(p)
  BY <1>21a DEF SetRangeUnsaved
<1>23. CASE LinkRouter(p)
  BY <1>23 DEF LinkRouter
<1>24. CASE SetUsage(p)
  BY <1>24 DEF SetUsage
<1>25. CASE CreateNewBridgeFails(p)
  BY <1>25 DEF CreateNewBridgeFails
<1>26. CASE DeleteResult(p)
  BY <1>26 DEF DeleteResult
<1>27. CASE GetBindingToDelete(p)
  BY <1>27 DEF GetBindingToDelete
<1>28. CASE DeleteBinding(p)
  BY <1>28 DEF DeleteBinding
<1>29. CASE DeletePort(p)
  BY <1>29 DEF DeletePort
<1>30. CASE DeleteBindingKey(p)
  BY <1>30 DEF DeleteBindingKey
<1>31. CASE GetPodIp(p)
  BY <1>31 DEF GetPodIp
<1>32. CASE CompareRange(p)
  BY <1>32 DEF CompareRange
<1>34. CASE DeletePodIp(p)
  BY <1>34 DEF DeletePodIp
<1>35. CASE CallLock(p) \/ Lock(p) \/ Unlock(p)
  BY <1>35 DEF CallLock, Lock, Unlock
<1>38. CASE CmdAddK8s(p)
  BY <1>38, <1>1, <1>2, <1>3, <1>4, <1>6, <1>7, <1>8, <1>9, <1>10, <1>11,
     <1>12, <1>13, <1>14, <1>15, <1>16, <1>16a, <1>16b, <1>17, <1>18, Zenon
  DEF CmdAddK8s, GetNewIP, Bingding, Moves
<1>39. CASE CreateNewBridge(p)
  BY <1>39, <1>19, <1>20, <1>21a, <1>23, <1>24, <1>25, Zenon DEF CreateNewBridge, Moves
<1>40. CASE CmdDelK8s(p)
  BY <1>40, <1>26, <1>27, <1>28, <1>29, <1>30, <1>31, <1>32, <1>34, Zenon
  DEF CmdDelK8s, Moves
<1>41. QED
  BY <1>35, <1>38, <1>39, <1>40, Zenon DEF Step

\* With the lock kept, the claims of the other containers do not grow in a step
\* of p, and those of p's container are the ones p sees.
LEMMA ClaimsOfOthers ==
    ASSUME TypeInv, ControlInv, NEW p \in Procs, LocalStep(p),
           NEW c \in Containers, NEW a \in Address, Owns(c, a)'
    PROVE  /\ c # ctn[p] => Owns(c, a)
           /\ c = ctn[p] => Has(p, a)'
<1>1. Live(p) /\ ctn' = ctn
  BY DEF LocalStep
<1>2. ASSUME NEW q \in Procs, q # p PROVE Live(q)' <=> Live(q)
  BY <1>2 DEF LocalStep, Live
<1>3. CASE c # ctn[p]
  <2>1. result'[c] = result[c] /\ binding'[c] = binding[c] /\ podIp'[c] = podIp[c]
    BY <1>3 DEF LocalStep
  <2>2. ASSUME NEW q \in Procs, ctn[q] = c PROVE q # p /\ pc'[q] = pc[q] /\ ip'[q] = ip[q]
    BY <1>3, <2>2 DEF LocalStep
  <2>3. QED
    BY <1>1, <1>2, <1>3, <2>1, <2>2 DEF Owns
<1>4. CASE c = ctn[p]
  <2>1. ASSUME NEW q \in Procs, Live(q)', ctn'[q] = c PROVE q = p
    BY <1>1, <1>2, <1>4, <2>1 DEF ControlInv
  <2>2. QED
    BY <1>1, <1>4, <2>1 DEF Owns, Has
<1>5. QED
  BY <1>3, <1>4

LEMMA OwnClaims ==
    ASSUME NEW p \in Procs, Live(p), NEW a, Has(p, a)
    PROVE  Owns(ctn[p], a)
BY DEF Has, Owns

\* A step that gains nothing keeps the addresses in their places.
LEMMA NoGainKeeps ==
    ASSUME TypeInv, TypeInv', ControlInv, AddressInv, NEW p \in Procs,
           LocalStep(p), NoGain(p)
    PROVE  AddressInv'
<1>1. ASSUME NEW c \in Containers, NEW a \in Address, Owns(c, a)' PROVE Owns(c, a)
  BY <1>1, ClaimsOfOthers, OwnClaims DEF NoGain, LocalStep
<1>2. ASSUME NEW q \in Procs, q # p PROVE Live(q)' <=> Live(q)
  BY <1>2 DEF LocalStep, Live
<1>3. ASSUME NEW a, Filling(a)' PROVE Filling(a)
  BY <1>2, <1>3 DEF Filling, NoGain, LocalStep
<1>4. \A q \in Procs : Live(q)' /\ pc'[q] = "nbSetRange" => rng'[q] = iprange' + 1
  BY <1>2 DEF NoGain, LocalStep, AddressInv
<1>5. avail' = avail /\ iprange' = iprange
  BY DEF NoGain
<1>6. QED
  BY <1>1, <1>3, <1>4, <1>5 DEF AddressInv

\* The address leaves the pool for p's container.
LEMMA TakeAddressKeeps ==
    ASSUME TypeInv, TypeInv', ControlInv, AddressInv, NEW p \in Procs,
           LocalStep(p), TakeAddress(p)
    PROVE  AddressInv'
<1>1. PICK b \in avail : avail' = avail \ {b} /\ ip' = [ip EXCEPT ![p] = b]
  BY DEF TakeAddress
<1>2. b \in Address /\ ctn[p] \in Containers /\ iprange' = iprange
  BY DEF TakeAddress, TypeInv, TypeOK, LocalStep, Live
<1>3. ASSUME NEW c \in Containers, NEW a \in Address, Owns(c, a)'
      PROVE  Owns(c, a) \/ (c = ctn[p] /\ a = b)
  <2>1. CASE c # ctn[p]
    BY <1>3, <2>1, ClaimsOfOthers
  <2>2. CASE c = ctn[p]
    <3>1. Has(p, a)'
      BY <1>3, <2>2, ClaimsOfOthers
    <3>2. Has(p, a) \/ a = b
      BY <1>1, <3>1 DEF Has, TakeAddress, Goto, etcdKeys, locals, TypeInv, TypeOK
    <3>3. QED
      BY <2>2, <3>2, OwnClaims DEF LocalStep
  <2>3. QED
    BY <2>1, <2>2
<1>4. \A q \in Procs : Live(q)' => Live(q) /\ rng'[q] = rng[q] /\ todo'[q] \subseteq todo[q]
  BY DEF LocalStep, Live, TakeAddress, TypeInv, TypeOK
<1>5. \A q \in Procs : pc'[q] \in {"nbFill", "nbSetRange"} => pc'[q] = pc[q]
  BY DEF LocalStep, TakeAddress, Goto, TypeInv, TypeOK
<1>6. ASSUME NEW a, Filling(a)' PROVE Filling(a)
  BY <1>4, <1>5, <1>6 DEF Filling
<1>7. \A q \in Procs : Live(q)' /\ pc'[q] = "nbSetRange" => rng'[q] = iprange' + 1
  BY <1>2, <1>4, <1>5 DEF AddressInv
<1>8. \A c \in Containers : ~Owns(c, b)
  BY <1>1, <1>2 DEF AddressInv
<1>9. \A a \in Address : \A c, d \in Containers : Owns(c, a)' /\ Owns(d, a)' => c = d
  BY <1>2, <1>3, <1>8 DEF AddressInv
<1>10. \A a \in Address : \A c \in Containers : Owns(c, a)' => a \notin avail' /\ ~Filling(a)'
  BY <1>1, <1>3, <1>6 DEF AddressInv
<1>11. \A a \in avail' : ~Filling(a)'
  BY <1>1, <1>6 DEF AddressInv
<1>12. \A a \in Address :
          a \in avail' \/ Filling(a)' \/ (\E c \in Containers : Owns(c, a)') =>
              RangeOf(a) <= iprange'
  BY <1>1, <1>2, <1>3, <1>6 DEF AddressInv
<1>13. QED
  BY <1>7, <1>9, <1>10, <1>11, <1>12 DEF AddressInv

\* The address returns to the pool: no other container has a claim to it, and
\* its own has given up every one.
LEMMA PutBackKeeps ==
    ASSUME NoEtcdErrors, TypeInv, TypeInv', ControlInv, AddressInv, NEW p \in Procs,
           LocalStep(p), PutBack(p)
    PROVE  AddressInv'
<1>1. Inside(p, "release") /\ avail' = avail \cup {ip[p]} /\ pc' = [pc EXCEPT ![p] = "delIpKey"]
  BY DEF PutBack, Ineffective, Fault, L!Fault, NoEtcdErrors, Leave, Goto
<1>2. Live(p) /\ ctn[p] \in Containers /\ ip[p] \in Address
  BY <1>1 DEF LocalStep, TypeInv, TypeOK, OptAddress, Live, Inside
<1>3. result[ctn[p]] = None /\ binding[ctn[p]] = None
  BY <1>1, <1>2 DEF ControlInv, ProcInv, Inside, Releasing
<1>4. /\ iprange' = iprange
      /\ UNCHANGED <<result, binding, podIp, locals>>
  BY DEF PutBack
<1>5. \A a \in Address : ~Has(p, a)'
  BY <1>1, <1>2, <1>3, <1>4, AddressFacts DEF Has, Holding, TypeInv, TypeOK, locals
<1>6. ASSUME NEW c \in Containers, NEW a \in Address, Owns(c, a)'
      PROVE  Owns(c, a) /\ c # ctn[p]
  BY <1>5, <1>6, ClaimsOfOthers
<1>7. Owns(ctn[p], ip[p])
  BY <1>1, <1>2, OwnClaims DEF Has, Holding, Inside
<1>8. \A q \in Procs : Live(q)' => Live(q)
  BY <1>1 DEF LocalStep, Live
<1>9. \A q \in Procs : pc'[q] \in {"nbFill", "nbSetRange"} => pc'[q] = pc[q]
  BY <1>1 DEF TypeInv, TypeOK
<1>10. ASSUME NEW a, Filling(a)' PROVE Filling(a)
  BY <1>4, <1>8, <1>9, <1>10 DEF Filling, locals
<1>11. ~Filling(ip[p]) /\ RangeOf(ip[p]) <= iprange
  BY <1>2, <1>7 DEF AddressInv
<1>12. \A q \in Procs : Live(q)' /\ pc'[q] = "nbSetRange" => rng'[q] = iprange' + 1
  BY <1>4, <1>8, <1>9 DEF AddressInv, locals
<1>13. \A a \in Address : \A c, d \in Containers : Owns(c, a)' /\ Owns(d, a)' => c = d
  BY <1>6 DEF AddressInv
<1>14. \A a \in Address : \A c \in Containers : Owns(c, a)' => a \notin avail' /\ ~Filling(a)'
  BY <1>1, <1>2, <1>6, <1>7, <1>10 DEF AddressInv
<1>15. \A a \in avail' : ~Filling(a)'
  BY <1>1, <1>10, <1>11 DEF AddressInv
<1>16. \A a \in Address :
          a \in avail' \/ Filling(a)' \/ (\E c \in Containers : Owns(c, a)') =>
              RangeOf(a) <= iprange'
  BY <1>1, <1>4, <1>6, <1>10, <1>11 DEF AddressInv
<1>17. QED
  BY <1>12, <1>13, <1>14, <1>15, <1>16 DEF AddressInv

\* While the lock excludes, one process at most is inside CreateNewBridge.
LEMMA OneCreator ==
    ASSUME ControlInv, ~exclusionLost, NEW p \in Procs, NEW q \in Procs,
           Live(p), Live(q), pc[p] \in Creating, pc[q] \in Creating
    PROVE  p = q
BY DEF ControlInv, ProcInv, Overlap

\* A new range is above every address there is.
LEMMA SetRangeKeeps ==
    ASSUME TypeInv, TypeInv', ControlInv, ~exclusionLost, AddressInv, NEW p \in Procs,
           LocalStep(p), SetRange(p)
    PROVE  AddressInv'
<1>1. /\ Inside(p, "nbSetRange")
      /\ pc' = [pc EXCEPT ![p] = "nbFill"]
      /\ todo' = [todo EXCEPT ![p] = Pool(rng[p])]
      /\ iprange' = rng[p]
      /\ UNCHANGED <<result, binding, podIp, avail, phase, ctn, ip, rng>>
  BY DEF SetRange, Goto, lockState
<1>2. Live(p) /\ ctn[p] \in Containers /\ iprange' = iprange + 1 /\ iprange \in Nat
  BY <1>1 DEF LocalStep, TypeInv, TypeOK, AddressInv, Inside, Live
<1>3. \A a \in Address : Has(p, a)' => Has(p, a)
  BY <1>1 DEF Has, Holding, TypeInv, TypeOK
<1>4. ASSUME NEW c \in Containers, NEW a \in Address, Owns(c, a)' PROVE Owns(c, a)
  BY <1>2, <1>3, <1>4, ClaimsOfOthers, OwnClaims
<1>5. ASSUME NEW q \in Procs, q # p, Live(q)' PROVE pc'[q] \notin {"nbSetRange", "nbFill"}
  <2>1. Live(q) /\ pc'[q] = pc[q]
    BY <1>1, <1>5 DEF Live, TypeInv, TypeOK
  <2>2. QED
    BY <1>1, <1>2, <1>5, <2>1, OneCreator DEF Creating, Inside
<1>6. ASSUME NEW a, Filling(a)' PROVE RangeOf(a) = iprange + 1
  <2>1. a \in todo'[p]
    BY <1>5, <1>6 DEF Filling
  <2>2. QED
    BY <1>1, <1>2, <2>1 DEF Pool, RangeOf, TypeInv, TypeOK
<1>7. \A a \in Address : a \in avail \/ (\E c \in Containers : Owns(c, a)) =>
          RangeOf(a) <= iprange
  BY DEF AddressInv
<1>8. \A a \in Address : RangeOf(a) \in Nat
  BY DEF Address, RangeOf
<1>9. avail' = avail /\ avail \subseteq Address
  BY <1>1 DEF TypeInv, TypeOK
<1>10. \A q \in Procs : Live(q)' /\ pc'[q] = "nbSetRange" => rng'[q] = iprange' + 1
  BY <1>1, <1>5 DEF TypeInv, TypeOK
<1>11. \A a \in Address : a \in avail \/ (\E c \in Containers : Owns(c, a)) => ~Filling(a)'
  BY <1>2, <1>6, <1>7, <1>8
<1>12. \A a \in Address : \A c, d \in Containers : Owns(c, a)' /\ Owns(d, a)' => c = d
  BY <1>4 DEF AddressInv
<1>13. \A a \in Address : \A c \in Containers : Owns(c, a)' => a \notin avail' /\ ~Filling(a)'
  BY <1>4, <1>9, <1>11 DEF AddressInv
<1>14. \A a \in avail' : ~Filling(a)'
  BY <1>9, <1>11
<1>15. \A a \in Address :
          a \in avail' \/ Filling(a)' \/ (\E c \in Containers : Owns(c, a)') =>
              RangeOf(a) <= iprange'
  <2>1. SUFFICES ASSUME NEW a \in Address,
                        a \in avail' \/ Filling(a)' \/ (\E c \in Containers : Owns(c, a)')
                 PROVE  RangeOf(a) <= iprange + 1
    BY <1>2
  <2>2. RangeOf(a) <= iprange \/ RangeOf(a) = iprange + 1
    BY <1>4, <1>6, <1>7, <1>9, <2>1
  <2>3. QED
    BY <1>2, <1>8, <2>2
<1>16. QED
  BY <1>10, <1>12, <1>13, <1>14, <1>15 DEF AddressInv

\* An address of the new range reaches the pool.
LEMMA FillPoolKeeps ==
    ASSUME NoEtcdErrors, TypeInv, TypeInv', ControlInv, ~exclusionLost, AddressInv,
           NEW p \in Procs, LocalStep(p), FillPool(p)
    PROVE  AddressInv'
<1>1. PICK b \in todo[p] : /\ avail' = avail \cup {b}
                            /\ todo' = [todo EXCEPT ![p] = @ \ {b}]
                            /\ pc'[p] \in {"nbLink", "nbFill"}
  BY DEF FillPool, Ineffective, Fault, L!Fault, NoEtcdErrors, Goto, TypeInv, TypeOK
<1>2. /\ Inside(p, "nbFill")
      /\ UNCHANGED <<result, binding, podIp, iprange, phase, ctn, ip, rng>>
  BY DEF FillPool, lockState
<1>3. Live(p) /\ b \in Address /\ ctn[p] \in Containers
  BY <1>1 DEF LocalStep, TypeInv, TypeOK, Live
<1>4. Filling(b)
  BY <1>1, <1>2, <1>3 DEF Filling, Inside
<1>5. \A a \in Address : Has(p, a)' => Has(p, a)
  BY <1>1, <1>2 DEF Has, Holding
<1>6. ASSUME NEW c \in Containers, NEW a \in Address, Owns(c, a)' PROVE Owns(c, a)
  BY <1>3, <1>5, <1>6, ClaimsOfOthers, OwnClaims
<1>7. ASSUME NEW q \in Procs, q # p, Live(q)' PROVE pc'[q] \notin {"nbSetRange", "nbFill"}
  <2>1. Live(q) /\ pc'[q] = pc[q]
    BY <1>2, <1>7 DEF Live, LocalStep
  <2>2. QED
    BY <1>2, <1>3, <1>7, <2>1, OneCreator DEF Creating, Inside
<1>8. ASSUME NEW a, Filling(a)' PROVE Filling(a) /\ a # b
  <2>1. a \in todo'[p]
    BY <1>7, <1>8 DEF Filling
  <2>2. a \in todo[p] /\ a # b
    BY <1>1, <2>1 DEF TypeInv, TypeOK
  <2>3. QED
    BY <1>2, <1>3, <2>2 DEF Filling, Inside
<1>9. \A q \in Procs : Live(q)' /\ pc'[q] = "nbSetRange" => rng'[q] = iprange' + 1
  BY <1>1, <1>7
<1>10. RangeOf(b) <= iprange /\ \A c \in Containers : ~Owns(c, b)
  BY <1>3, <1>4 DEF AddressInv
<1>11. \A a \in Address : \A c, d \in Containers : Owns(c, a)' /\ Owns(d, a)' => c = d
  BY <1>6 DEF AddressInv
<1>12. \A a \in Address : \A c \in Containers : Owns(c, a)' => a \notin avail' /\ ~Filling(a)'
  BY <1>1, <1>6, <1>8, <1>10 DEF AddressInv
<1>13. \A a \in avail' : ~Filling(a)'
  BY <1>1, <1>8 DEF AddressInv
<1>14. \A a \in Address :
          a \in avail' \/ Filling(a)' \/ (\E c \in Containers : Owns(c, a)') =>
              RangeOf(a) <= iprange'
  BY <1>1, <1>2, <1>6, <1>8, <1>10 DEF AddressInv
<1>15. QED
  BY <1>9, <1>11, <1>12, <1>13, <1>14 DEF AddressInv

LEMMA StepPodInv ==
    ASSUME NoEtcdErrors, PodInv, NEW p \in Procs, Step(p)
    PROVE  PodInv'
<1>0. ~Fault("etcd")
  BY DEF Fault, L!Fault, NoEtcdErrors
<1>1. TypeInv /\ ControlInv /\ TypeInv' /\ LocalStep(p) /\ ControlInv'
  BY <1>0, StepTypeInv, StepIsLocal, StepControls, ControlStepInv DEF PodInv
<1>2. ASSUME ~exclusionLost' PROVE AddressInv'
  <2>1. ~exclusionLost /\ AddressInv
    BY <1>1, <1>2 DEF LocalStep, PodInv
  <2>2. CASE ~Moves(p)
    BY <1>1, <2>1, <2>2, StepGainsNothing, NoGainKeeps
  <2>3. CASE Moves(p)
    BY <1>1, <2>1, <2>3, TakeAddressKeeps, PutBackKeeps, SetRangeKeeps, FillPoolKeeps DEF Moves
  <2>4. QED
    BY <2>2, <2>3
<1>3. QED
  BY <1>1, <1>2 DEF PodInv

\* The runtime starts a process for a container no other process works on.
LEMMA StartControls ==
    ASSUME TypeInv, ControlInv, TypeInv', NEW p \in Procs, NEW k \in Containers,
           StartAdd(p, k) \/ StartDel(p, k)
    PROVE  ControlInv'
<1> USE DEF lockState, etcdKeys, midonet, pods, locals
<1>1. /\ pc[p] = "start" /\ phase[p] = "idle" /\ ~Busy(k)
      /\ ctn' = [ctn EXCEPT ![p] = k]
      /\ pc' \in {[pc EXCEPT ![p] = "addResult"], [pc EXCEPT ![p] = "delResult"]}
      /\ UNCHANGED <<phase, exclusionLost, result, binding, podIp, avail, iprange,
                     ip, todo, rng>>
  BY DEF StartAdd, StartDel, At, Goto
<1>2. /\ granted' \in {granted, [granted EXCEPT ![k] = None]}
      /\ pc'[p] = "delResult" => granted'[k] = None
  BY DEF StartAdd, StartDel, Goto, TypeInv, TypeOK
<1>3. TypeInv /\ ControlInv
  OBVIOUS
<1>4. /\ ~Live(p) /\ Live(p)' /\ ctn'[p] = k /\ pc'[p] \in {"addResult", "delResult"}
      /\ \A q \in Procs \ {p} : (Live(q)' <=> Live(q)) /\ ctn'[q] = ctn[q] /\ pc'[q] = pc[q]
  BY <1>1, <1>3 DEF Live, TypeInv, TypeOK
<1>5. \A q \in Procs \ {p} : Live(q) => ctn[q] # k
  BY <1>1 DEF Busy
<1>6. \A q, r \in Procs : Live(q)' /\ Live(r)' /\ ctn'[q] = ctn'[r] => q = r
  BY <1>3, <1>4, <1>5 DEF ControlInv
<1>7. ASSUME NEW q \in Procs PROVE ProcInv(q)'
  <2>1. CASE q = p
    BY <2>1, <1>1, <1>2, <1>4 DEF ProcInv, Creating, Saved, Unbinding, Releasing
  <2>2. CASE q # p /\ ~Live(q)
    BY <2>2, <1>4 DEF ProcInv
  <2>3. CASE q # p /\ Live(q)
    <3>1. ctn[q] \in Containers \ {k}
      BY <2>3, <1>3, <1>5 DEF TypeInv, Live
    <3>2. granted'[ctn[q]] = granted[ctn[q]]
      BY <3>1, <1>2, <1>3 DEF TypeInv, TypeOK
    <3>3. QED
      BY <2>3, <3>2, <1>1, <1>3, <1>4 DEF ProcInv, ControlInv
  <2>4. QED
    BY <2>1, <2>2, <2>3
<1>8. \A c \in Containers : granted'[c] # None => result'[c] = granted'[c]
  BY <1>1, <1>2, <1>3 DEF ControlInv, TypeInv, TypeOK
<1>9. \A q \in Procs : phase'[q] \in {"idle", "dead"} \/ pc'[q] \notin {"start", "done"}
  BY <1>1, <1>3, <1>4 DEF ControlInv
<1>10. exclusionLost' \/ ~Overlap'
  BY <1>1, <1>3 DEF ControlInv, Overlap
<1>11. QED
  BY <1>6, <1>7, <1>8, <1>9, <1>10 DEF ControlInv

LEMMA StartPodInv ==
    ASSUME PodInv, TypeInv', NEW p \in Procs, NEW k \in Containers,
           StartAdd(p, k) \/ StartDel(p, k)
    PROVE  PodInv'
<1>1. /\ pc' \in {[pc EXCEPT ![p] = "addResult"], [pc EXCEPT ![p] = "delResult"]}
      /\ UNCHANGED <<phase, exclusionLost, result, binding, podIp, avail, iprange,
                     ip, todo, rng>>
  BY DEF StartAdd, StartDel, Goto, lockState, etcdKeys, locals
<1>4. /\ pc[p] = "start" /\ pc'[p] \in {"addResult", "delResult"}
      /\ \A q \in Procs \ {p} : (Live(q)' <=> Live(q)) /\ ctn'[q] = ctn[q] /\ pc'[q] = pc[q]
  BY <1>1 DEF StartAdd, StartDel, At, Live, PodInv, TypeInv, TypeOK
<1>11. ControlInv'
  BY StartControls DEF PodInv
<1>12. ASSUME NEW c \in Containers, NEW a, Owns(c, a)' PROVE Owns(c, a)
  BY <1>1, <1>4, <1>12 DEF Owns, Holding
<1>13. ASSUME NEW a, Filling(a)' PROVE Filling(a)
  BY <1>1, <1>4, <1>13 DEF Filling
<1>14. ASSUME AddressInv PROVE AddressInv'
  BY <1>1, <1>4, <1>12, <1>13, <1>14 DEF AddressInv
<1>15. QED
  BY <1>1, <1>11, <1>14 DEF PodInv

\* A process that has died lays no claim to an address any more.
LEMMA CrashControls ==
    ASSUME TypeInv, ControlInv, TypeInv', NEW p \in Procs, Crash(p)
    PROVE  ControlInv'
<1>1. /\ phase' = [phase EXCEPT ![p] = "dead"]
      /\ UNCHANGED <<exclusionLost, result, binding, podIp, avail, iprange, granted,
                     pc, ctn, ip, todo, rng>>
  BY DEF Crash, L!Die, L!Move, etcdKeys, locals
<1>2. TypeInv /\ ControlInv
  OBVIOUS
<1>3. \A q \in Procs : Live(q)' => Live(q) /\ phase'[q] = phase[q]
  BY <1>1, <1>2 DEF Live, TypeInv, TypeOK, L!TypeOK
<1>4. \A q \in Procs : phase'[q] = phase[q] \/ phase'[q] = "dead"
  BY <1>1, <1>2 DEF TypeInv, TypeOK, L!TypeOK
<1>5. \A q \in Procs : ProcInv(q)'
  BY <1>1, <1>2, <1>3 DEF ControlInv, ProcInv
<1>6. QED
  BY <1>1, <1>2, <1>3, <1>4, <1>5 DEF ControlInv, Overlap

LEMMA CrashPodInv ==
    ASSUME PodInv, TypeInv', NEW p \in Procs, Crash(p)
    PROVE  PodInv'
<1>1. /\ phase' = [phase EXCEPT ![p] = "dead"]
      /\ UNCHANGED <<exclusionLost, result, binding, podIp, avail, iprange, granted,
                     pc, ctn, ip, todo, rng>>
  BY DEF Crash, L!Die, L!Move, etcdKeys, locals
<1>3. \A q \in Procs : Live(q)' => Live(q)
  BY <1>1 DEF Live, PodInv, TypeInv, TypeOK, L!TypeOK
<1>6. ControlInv'
  BY CrashControls DEF PodInv
<1>7. \A c, a : Owns(c, a)' => Owns(c, a)
  BY <1>1, <1>3 DEF Owns
<1>8. \A a : Filling(a)' => Filling(a)
  BY <1>1, <1>3 DEF Filling
<1>9. AddressInv => AddressInv'
  BY <1>1, <1>3, <1>7, <1>8 DEF AddressInv
<1>10. QED
  BY <1>1, <1>6, <1>9 DEF PodInv

\* Only the node of the lock, or nothing, changes.
LEMMA QuietPodInv ==
    ASSUME PodInv, TypeInv',
           UNCHANGED <<phase, exclusionLost, etcdKeys, midonet, pods, pc, locals>>
    PROVE  PodInv'
<1>1. UNCHANGED <<phase, exclusionLost, result, binding, podIp, avail, iprange, granted,
                  pc, ctn, ip, todo, rng>>
  BY DEF etcdKeys, pods, locals
<1>2. ControlInv => ControlInv'
  BY <1>1 DEF ControlInv, ProcInv, Live, Overlap
<1>3. AddressInv => AddressInv'
  BY <1>1 DEF AddressInv, Owns, Filling, Live
<1>4. QED
  BY <1>1, <1>2, <1>3 DEF PodInv

LEMMA NextPodInv == NoEtcdErrors /\ PodInv /\ [Next]_vars => PodInv'
<1> SUFFICES ASSUME NoEtcdErrors, PodInv, [Next]_vars PROVE PodInv'
  OBVIOUS
<1>1. TypeInv'
  BY NextTypeInv DEF PodInv
<1>2. CASE Expire
  BY <1>1, <1>2, QuietPodInv DEF Expire, L!Expire
<1>3. CASE UNCHANGED vars
  BY <1>1, <1>3, QuietPodInv DEF vars, lockState
<1>4. QED
  BY <1>1, <1>2, <1>3, StepPodInv, StartPodInv, CrashPodInv DEF Next

LEMMA InitPodInv == Init => PodInv
<1> SUFFICES ASSUME Init PROVE PodInv
  OBVIOUS
<1>1. TypeInv
  BY InitTypeInv
<1>2. \A p \in Procs : ~Live(p) /\ phase[p] = "idle"
  BY DEF Init, L!Init, Live
<1>3. \A c \in Containers : granted[c] = None /\ result[c] = None /\ binding[c] = None
  BY DEF Init
<1>4. ControlInv
  BY <1>2, <1>3 DEF ControlInv, ProcInv, Overlap
<1>5. \A c \in Containers, a \in Address : ~Owns(c, a)
  BY <1>2, <1>3, AddressFacts DEF Owns
<1>6. \A a : ~Filling(a)
  BY <1>2 DEF Filling
<1>7. \A a \in avail : RangeOf(a) <= iprange
  BY DEF Init, Pool, RangeOf
<1>8. AddressInv
  BY <1>2, <1>5, <1>6, <1>7 DEF AddressInv
<1>9. QED
  BY <1>1, <1>4, <1>8 DEF PodInv

\* A result that was returned is saved, so its container owns the address.
LEMMA PodInvUnique == PodInv => UniqueUnlessOverlap
<1> SUFFICES ASSUME PodInv, ~exclusionLost, NEW c \in Containers, granted[c] # None
             PROVE  /\ granted[c] \notin avail
                    /\ \A d \in Containers : granted[d] = granted[c] => d = c
  BY DEF UniqueUnlessOverlap, NoDuplicateAddress
<1>1. granted[c] \in Address
  BY DEF PodInv, TypeInv, TypeOK, OptAddress
<1>2. \A d \in Containers : granted[d] = granted[c] => Owns(d, granted[c])
  BY DEF PodInv, ControlInv, Owns
<1>3. QED
  BY <1>1, <1>2 DEF PodInv, AddressInv

\* While etcd answers and the lock around CreateNewBridge and ReleaseIP has
\* never let two processes in at once, no two pods have one address, whatever
\* fails in MidoNet and on the host and whichever processes die: however many
\* pods, processes and addresses there are.
THEOREM AddressesUnique ==
    ASSUME NoEtcdErrors
    PROVE  Spec => []UniqueUnlessOverlap
<1>1. PodInv /\ [Next]_vars => PodInv'
  BY NextPodInv
<1>2. QED
  BY <1>1, InitPodInv, PodInvUnique, PTL DEF Spec

-----------------------------------------------------------------------------
\* The refinement of AddressPool.

\* A process of c is about to put a into the pool.
Stocks(c, a) ==
    \E p \in Procs : Live(p) /\ ctn[p] = c /\ pc[p] = "nbFill" /\ a \in todo[p]

HeldInv ==
    \A c \in Containers :
        /\ Held(c) \subseteq Address
        /\ \A a \in Address : a \in Held(c) <=> Owns(c, a) \/ Stocks(c, a)

LEMMA HeldIs == TypeInv => HeldInv
<1> SUFFICES ASSUME TypeInv, NEW c \in Containers
             PROVE  /\ Held(c) \subseteq Address
                    /\ \A a \in Address : a \in Held(c) <=> Owns(c, a) \/ Stocks(c, a)
  BY DEF HeldInv
<1>1. result[c] \in Address \cup {None} /\ podIp[c] \in Address \cup {None}
  BY DEF TypeInv, TypeOK, OptAddress
<1>2. ASSUME NEW p \in Procs PROVE InHand(p) \subseteq Address \cup {None}
  <2>1. ip[p] \in Address \cup {None} /\ todo[p] \subseteq Address
    BY DEF TypeInv, TypeOK, OptAddress
  <2>2. pc[p] = "relGet" => podIp[ctn[p]] \in Address \cup {None}
    BY DEF TypeInv, TypeOK, OptAddress
  <2>3. QED
    BY <2>1, <2>2 DEF InHand
<1>3. Held(c) \subseteq Address
  BY <1>1, <1>2 DEF Held
<1>4. ASSUME NEW p \in Procs, NEW a, ctn[p] = c
      PROVE  a \in InHand(p) <=>
                \/ pc[p] \in Holding /\ ip[p] = a
                \/ pc[p] = "relGet" /\ podIp[c] = a
                \/ pc[p] = "nbFill" /\ a \in todo[p]
  BY <1>4 DEF InHand, Holding
<1>5. ASSUME NEW a \in Address PROVE a \in Held(c) <=> Owns(c, a) \/ Stocks(c, a)
  <2>1. a # None
    BY AddressFacts
  <2>2. a \in Held(c) <=>
            \/ result[c] = a
            \/ binding[c] # None /\ podIp[c] = a
            \/ \E p \in Procs : Live(p) /\ ctn[p] = c /\ a \in InHand(p)
    BY <2>1 DEF Held
  <2>3. QED
    BY <1>4, <2>2 DEF Owns, Stocks
<1>6. QED
  BY <1>3, <1>5

LEMMA HeldIsNext == TypeInv' => HeldInv'
BY HeldIs, PTL

\* A container has an address, or the pool has it.
LEMMA HeldNotFree ==
    ASSUME TypeInv', AddressInv', NEW c \in Containers
    PROVE  avail' \cap Held(c)' = {}
<1>1. \A a \in Address : Stocks(c, a)' => Filling(a)'
  BY DEF Stocks, Filling
<1>2. QED
  BY <1>1, HeldIsNext DEF AddressInv, HeldInv

\* What a step has to do to the addresses of one container to be one of the
\* pool's.
LEMMA PoolStep ==
    ASSUME ~exclusionLost, ~exclusionLost', TypeInv', AddressInv',
           NEW k \in Containers, NEW new,
           \A c \in Containers \ {k} : Held(c)' = Held(c),
           Held(k)' \subseteq avail \cup Held(k) \cup new,
           avail' \subseteq avail \cup Held(k),
           \/ new = {} /\ iprange' = iprange
           \/ new = Pool(iprange + 1) /\ iprange' = iprange + 1
    PROVE  AP!Next
<1> DEFINE held == [c \in Containers |-> Held(c)]
<1>1. held' = [held EXCEPT ![k] = Held(k)']
  OBVIOUS
<1>2. avail' \subseteq (avail \cup Held(k)) \ Held(k)'
  BY HeldNotFree
<1>3. AP!Exchange(k, new)
  BY <1>1, <1>2 DEF AP!Exchange
<1>4. AP!Use(k) \/ AP!OpenRange(k)
  BY <1>3 DEF AP!Use, AP!OpenRange
<1>5. QED
  BY <1>4 DEF AP!Next

\* p sees what its container has: before its step,
LEMMA OwnHeld ==
    ASSUME TypeInv, NEW p \in Procs, Live(p), NEW a \in Address,
           Has(p, a) \/ (pc[p] = "nbFill" /\ a \in todo[p])
    PROVE  a \in Held(ctn[p])
<1>1. ctn[p] \in Containers
  BY DEF TypeInv, Live
<1>2. Owns(ctn[p], a) \/ Stocks(ctn[p], a)
  BY OwnClaims DEF Stocks
<1>3. QED
  BY <1>1, <1>2, HeldIs DEF HeldInv

\* and after it.
LEMMA OwnHeldNext ==
    ASSUME TypeInv, TypeInv', ControlInv, NEW p \in Procs, LocalStep(p),
           NEW a \in Held(ctn[p])'
    PROVE  /\ a \in Address
           /\ Has(p, a)' \/ (pc'[p] = "nbFill" /\ a \in todo'[p])
<1>1. Live(p) /\ ctn' = ctn /\ ctn[p] \in Containers
  BY DEF LocalStep, TypeInv, Live
<1>2. \A q \in Procs : q # p => (Live(q)' <=> Live(q))
  BY DEF LocalStep, Live
<1>3. a \in Address /\ (Owns(ctn[p], a)' \/ Stocks(ctn[p], a)')
  BY <1>1, HeldIsNext DEF HeldInv
<1>4. CASE Owns(ctn[p], a)'
  BY <1>1, <1>3, <1>4, ClaimsOfOthers
<1>5. CASE Stocks(ctn[p], a)'
  <2>1. PICK q \in Procs : Live(q)' /\ ctn[q] = ctn[p] /\ pc'[q] = "nbFill" /\ a \in todo'[q]
    BY <1>1, <1>5 DEF Stocks
  <2>2. q = p
    BY <1>1, <1>2, <2>1 DEF ControlInv
  <2>3. QED
    BY <1>3, <2>1, <2>2
<1>6. QED
  BY <1>3, <1>4, <1>5

LEMMA HeldOfOthers ==
    ASSUME TypeInv, NEW p \in Procs, LocalStep(p), NEW c \in Containers, c # ctn[p]
    PROVE  Held(c)' = Held(c)
<1> DEFINE Mine == {q \in Procs : Live(q) /\ ctn[q] = c}
<1>1. ctn' = ctn /\ result'[c] = result[c] /\ binding'[c] = binding[c] /\ podIp'[c] = podIp[c]
  BY DEF LocalStep
<1>2. Mine' = Mine
  BY <1>1 DEF LocalStep, Live
<1>3. \A q \in Mine : InHand(q)' = InHand(q)
  BY <1>1 DEF LocalStep, InHand
<1> DEFINE Hands == UNION {InHand(q) : q \in Mine}
<1>4. Hands' = Hands
  BY <1>2, <1>3
<1>5. Held(c) = ({result[c]} \cup (IF binding[c] # None THEN {podIp[c]} ELSE {}) \cup Hands) \ {None}
  BY DEF Held
<1>6. Held(c)' = ({result'[c]} \cup (IF binding'[c] # None THEN {podIp'[c]} ELSE {}) \cup Hands') \ {None}
  BY DEF Held
<1> HIDE DEF Hands
<1>7. QED
  BY <1>1, <1>4, <1>5, <1>6

LEMMA StepRefines ==
    ASSUME NoEtcdErrors, PodInv, NEW p \in Procs, Step(p), ~exclusionLost'
    PROVE  AP!Next
<1>1. TypeInv /\ TypeInv' /\ ControlInv /\ LocalStep(p) /\ ~exclusionLost
  BY StepTypeInv, StepIsLocal DEF PodInv, LocalStep
<1>2. AddressInv /\ AddressInv'
  BY <1>1, StepPodInv DEF PodInv
<1>3. ctn[p] \in Containers /\ Live(p) /\ iprange \in Nat
  BY <1>1 DEF LocalStep, TypeInv, TypeOK, Live
<1> PICK k \in Containers : k = ctn[p] /\ k = ctn'[p]
  BY <1>1, <1>3 DEF LocalStep
<1>4. \A c \in Containers \ {k} : Held(c)' = Held(c)
  BY <1>1, HeldOfOthers
<1>5. \A a \in Held(k)' : a \in Address /\ (Has(p, a)' \/ (pc'[p] = "nbFill" /\ a \in todo'[p]))
  BY <1>1, OwnHeldNext
<1>6. \A a \in Address : Has(p, a) \/ (pc[p] = "nbFill" /\ a \in todo[p]) => a \in Held(k)
  BY <1>1, <1>3, OwnHeld
<1>7. ASSUME Held(k)' \subseteq avail \cup Held(k),
             avail' \subseteq avail \cup Held(k),
             iprange' = iprange
      PROVE  AP!Next
  <2>1. Held(k)' \subseteq avail \cup Held(k) \cup {}
    BY <1>7
  <2>2. QED
    BY <1>1, <1>2, <1>3, <1>4, <1>7, <2>1, PoolStep
<1>8. CASE ~Moves(p)
  <2>1. NoGain(p)
    BY <1>1, <1>8, StepGainsNothing
  <2>2. QED
    BY <1>5, <1>6, <1>7, <2>1 DEF NoGain
<1>9. CASE TakeAddress(p)
  <2>1. PICK b \in avail : avail' = avail \ {b} /\ ip' = [ip EXCEPT ![p] = b]
    BY <1>9 DEF TakeAddress
  <2>2. pc'[p] # "nbFill" /\ iprange' = iprange
    BY <1>1, <1>9 DEF TakeAddress, Goto, TypeInv, TypeOK
  <2>3. \A a : Has(p, a)' => Has(p, a) \/ a = b
    BY <1>1, <1>9, <2>1 DEF Has, TakeAddress, Goto, etcdKeys, locals, TypeInv, TypeOK
  <2>4. QED
    BY <1>5, <1>6, <1>7, <2>1, <2>2, <2>3
<1>10. CASE PutBack(p)
  <2>1. /\ Inside(p, "release") /\ pc' = [pc EXCEPT ![p] = "delIpKey"]
        /\ avail' = avail \cup {ip[p]}
        /\ iprange' = iprange
        /\ UNCHANGED <<result, binding, podIp, locals>>
    BY <1>10 DEF PutBack, Ineffective, Fault, L!Fault, NoEtcdErrors, Leave, Goto
  <2>2. ip[p] \in Address
    BY <1>1, <1>3, <2>1 DEF TypeInv, TypeOK, OptAddress, Inside
  <2>3. Has(p, ip[p])
    BY <2>1 DEF Has, Holding, Inside
  <2>4. pc'[p] = "delIpKey" /\ \A a : Has(p, a)' => Has(p, a)
    BY <1>1, <2>1 DEF Has, Holding, locals, TypeInv, TypeOK
  <2>5. QED
    BY <1>5, <1>6, <1>7, <2>1, <2>2, <2>3, <2>4
<1>11. CASE SetRange(p)
  <2>1. /\ Inside(p, "nbSetRange")
        /\ pc' = [pc EXCEPT ![p] = "nbFill"]
        /\ todo' = [todo EXCEPT ![p] = Pool(rng[p])]
        /\ iprange' = rng[p]
        /\ UNCHANGED <<result, binding, podIp, avail, ctn, ip>>
    BY <1>11 DEF SetRange, Goto
  <2>2. rng[p] = iprange + 1
    BY <1>2, <1>3, <2>1 DEF AddressInv, Inside
  <2>3. \A a : Has(p, a)' => Has(p, a)
    BY <1>1, <2>1 DEF Has, Holding, TypeInv, TypeOK
  <2>4. \A a \in todo'[p] : a \in Pool(iprange + 1)
    BY <1>1, <2>1, <2>2 DEF TypeInv, TypeOK
  <2>5. Held(k)' \subseteq avail \cup Held(k) \cup Pool(iprange + 1)
    BY <1>5, <1>6, <2>3, <2>4
  <2>6. QED
    BY <1>1, <1>2, <1>3, <1>4, <2>1, <2>2, <2>5, PoolStep
<1>12. CASE FillPool(p)
  <2>1. PICK b \in todo[p] : avail' = avail \cup {b} /\ todo' = [todo EXCEPT ![p] = @ \ {b}]
    BY <1>12 DEF FillPool, Ineffective, Fault, L!Fault, NoEtcdErrors
  <2>2. /\ pc[p] = "nbFill" /\ pc'[p] \in {"nbLink", "nbFill"}
        /\ UNCHANGED <<result, binding, podIp, iprange, ctn, ip>>
    BY <1>1, <1>12 DEF FillPool, Inside, Goto, TypeInv, TypeOK
  <2>3. b \in Address /\ todo'[p] \subseteq todo[p]
    BY <1>1, <2>1 DEF TypeInv, TypeOK
  <2>4. \A a : Has(p, a)' => Has(p, a)
    BY <2>2 DEF Has, Holding
  <2>5. QED
    BY <1>5, <1>6, <1>7, <2>1, <2>2, <2>3, <2>4
<1>13. QED
  BY <1>8, <1>9, <1>10, <1>11, <1>12 DEF Moves

\* Of the container of a process that dies only the result and the binding
\* still count: the address in its hand is lost, unless one of them refers to it.
LEMMA CrashRefines ==
    ASSUME PodInv, NEW p \in Procs, Crash(p), TypeInv', ~exclusionLost'
    PROVE  AP!Next
<1>1. /\ phase' = [phase EXCEPT ![p] = "dead"] /\ Live(p)
      /\ UNCHANGED <<exclusionLost, result, binding, podIp, avail, iprange, pc, ctn, ip, todo>>
  BY DEF Crash, L!Die, L!Move, etcdKeys, locals
<1>2. TypeInv /\ ~exclusionLost /\ AddressInv'
  BY <1>1, CrashPodInv DEF PodInv
<1>3. ctn[p] \in Containers
  BY <1>1, <1>2 DEF TypeInv, Live
<1> PICK k \in Containers : k = ctn[p] /\ k = ctn'[p]
  BY <1>1, <1>3
<1>4. \A q \in Procs : Live(q)' <=> Live(q) /\ q # p
  BY <1>1, <1>2 DEF Live, TypeInv, TypeOK, L!TypeOK
<1>5. \A q \in Procs : InHand(q)' = InHand(q)
  BY <1>1 DEF InHand
<1>6. \A c \in Containers \ {k} : Held(c)' = Held(c)
  BY <1>1, <1>4, <1>5 DEF Held
<1>7. Held(k)' \subseteq Held(k)
  BY <1>1, <1>4, <1>5 DEF Held
<1>8. QED
  BY <1>1, <1>2, <1>6, <1>7, PoolStep

\* A process that has just been started has nothing in hand.
LEMMA StartRefines ==
    ASSUME TypeInv, NEW p \in Procs, NEW k \in Containers, StartAdd(p, k) \/ StartDel(p, k)
    PROVE  UNCHANGED AP!poolVars
<1>1. /\ pc[p] = "start"
      /\ ctn' = [ctn EXCEPT ![p] = k]
      /\ pc' \in {[pc EXCEPT ![p] = "addResult"], [pc EXCEPT ![p] = "delResult"]}
      /\ UNCHANGED <<phase, exclusionLost, result, binding, podIp, avail, iprange, ip, todo>>
  BY DEF StartAdd, StartDel, At, Goto, lockState, etcdKeys, midonet, pods, locals
<1>2. InHand(p) = {} /\ InHand(p)' = {}
  BY <1>1 DEF InHand, Holding, TypeInv, TypeOK
<1>3. \A q \in Procs \ {p} : (Live(q)' <=> Live(q)) /\ ctn'[q] = ctn[q] /\ InHand(q)' = InHand(q)
  BY <1>1 DEF InHand, Live, TypeInv, TypeOK
<1>4. ASSUME NEW c \in Containers PROVE Held(c)' = Held(c)
  <2> DEFINE Hands == UNION {InHand(q) : q \in {r \in Procs : Live(r) /\ ctn[r] = c}}
  <2>1. \A a : a \in Hands <=> \E q \in Procs \ {p} : Live(q) /\ ctn[q] = c /\ a \in InHand(q)
    BY <1>2
  <2>2. \A a : a \in Hands' <=> \E q \in Procs \ {p} : Live(q)' /\ ctn'[q] = c /\ a \in InHand(q)'
    BY <1>2
  <2>3. Hands' = Hands
    BY <1>3, <2>1, <2>2
  <2>4. QED
    BY <1>1, <2>3 DEF Held
<1>5. QED
  BY <1>1, <1>4 DEF AP!poolVars

LEMMA NextRefines ==
    NoEtcdErrors /\ PodInv /\ [Next]_vars => [AP!Next]_(AP!poolVars)
<1> SUFFICES ASSUME NoEtcdErrors, PodInv, [Next]_vars PROVE [AP!Next]_(AP!poolVars)
  OBVIOUS
<1>1. TypeInv /\ TypeInv'
  BY NextTypeInv DEF PodInv
<1>2. CASE exclusionLost'
  BY <1>2 DEF AP!Next
<1>3. CASE ~exclusionLost'
  <2>1. ASSUME NEW p \in Procs, Step(p) PROVE AP!Next
    BY <1>3, <2>1, StepRefines
  <2>2. ASSUME NEW p \in Procs, Crash(p) PROVE AP!Next
    BY <1>1, <1>3, <2>2, CrashRefines
  <2>3. ASSUME UNCHANGED <<phase, exclusionLost, etcdKeys, pc, locals>>
        PROVE  UNCHANGED AP!poolVars
    BY <2>3 DEF AP!poolVars, Held, InHand, Live, etcdKeys, locals
  <2>4. CASE Expire
    BY <2>3, <2>4 DEF Expire, L!Expire
  <2>5. CASE UNCHANGED vars
    BY <2>3, <2>5 DEF vars, lockState
  <2>6. QED
    BY <1>1, <2>1, <2>2, <2>4, <2>5, StartRefines DEF Next
<1>4. QED
  BY <1>2, <1>3

LEMMA HeldInit == Init => AP!Init
<1> SUFFICES ASSUME Init PROVE AP!Init
  OBVIOUS
<1>1. iprange = 1 /\ avail = Pool(1) /\ ~exclusionLost
  BY DEF Init
<1>2. avail = UNION {Pool(r) : r \in 1 .. iprange}
  BY <1>1
<1>3. \A p \in Procs : ~Live(p)
  BY DEF Init, Live
<1>4. \A c \in Containers : Held(c) = {}
  BY <1>3 DEF Init, Held
<1>5. exclusionLost = FALSE
  BY DEF Init
<1>6. QED
  BY <1>1, <1>2, <1>4, <1>5 DEF AP!Init

\* While etcd answers and until the lock has failed, ADD, DEL and the making of
\* bridges are steps of an address pool: an address that a death loses never
\* comes back, none is doubled or made up on its way, and containers take
\* addresses from the pool and the next range alone.
THEOREM PodAddressesArePooled ==
    ASSUME NoEtcdErrors
    PROVE  Spec => ImplementsPool
<1>1. PodInv /\ [Next]_vars => PodInv'
  BY NextPodInv
<1>2. PodInv /\ [Next]_vars => [AP!Next]_(AP!poolVars)
  BY NextRefines
<1>3. QED
  BY <1>1, <1>2, InitPodInv, HeldInit, PTL DEF Spec, ImplementsPool, AP!Spec
=============================================================================
