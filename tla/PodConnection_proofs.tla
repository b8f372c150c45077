------------------------- MODULE PodConnection_proofs -------------------------
(***************************************************************************)
(* Theorems about PodNetwork that relate the keys in etcd to the ports in  *)
(* MidoNet and to the containers: what a saved result stands for, and what *)
(* is left when all requests have ended.                                   *)
(***************************************************************************)
EXTENDS PodNetwork_proofs

-----------------------------------------------------------------------------
\* A container and its saved port.

\* From CmdAddK8s to its end; after an error cmdAdd goes on like a DEL.
Adding ==
    {"addResult", "list", "take", "saveIp", "bindGet", "makePort", "bindIf", "saveBind",
     "undoBind", "net", "saveRes", "return", "create"} \cup Creating

Connected(c) == bound[c] = binding[c] /\ portBridge[binding[c]] # None

\* While a DEL is at one of these, the saved binding may be an untruth.
Disconnecting == {"rmPort", "delBindKey"}

\* A saved port was made by a process of that container.
PortsOwned ==
    \A c \in Containers : binding[c] # None =>
        ctn[binding[c][1]] = c /\ pc[binding[c][1]] # "start"

\* What the steps of p rely on.
ProcConn(p) == Live(p) =>
    /\ pc[p] \in Adding => ctn[p] \notin removed
    /\ pc[p] \in {"makePort", "bindIf", "saveBind"} => binding[ctn[p]] = None
    /\ pc[p] \in {"bindIf", "saveBind"} => portBridge[Port(p)] # None
    /\ pc[p] = "saveBind" => bound[ctn[p]] = Port(p)
    /\ pc[p] # "undoBind"
    /\ pc[p] \in {"net", "saveRes"} => binding[ctn[p]] # None
    /\ pc[p] = "saveRes" => eth0[ctn[p]] = ip[p] /\ veth[ctn[p]] = "outside"

\* A saved binding is true, unless it is being deleted or has been left over by
\* a DEL that died; a saved result is true.
BindingTrue(c) == binding[c] # None =>
    \/ Connected(c)
    \/ \E p \in Procs : Live(p) /\ ctn[p] = c /\ pc[p] \in Disconnecting
    \/ c \in removed /\ result[c] = None

ResultTrue(c) == result[c] # None =>
    /\ eth0[c] = result[c] /\ veth[c] = "outside"
    /\ podIp[c] = result[c]
    /\ binding[c] # None

ConnInv ==
    /\ PortsOwned
    /\ \A p \in Procs : ProcConn(p)
    /\ \A c \in Containers : BindingTrue(c) /\ ResultTrue(c)

\* A step of p leaves the other containers and their ports alone.
HostStep(p) ==
    /\ removed' = removed
    /\ pc'[p] # "start"
    /\ binding' \in {binding, [binding EXCEPT ![ctn[p]] = None],
                              [binding EXCEPT ![ctn[p]] = Port(p)]}
    /\ \A q \in Procs \ {p} : attempt'[q] = attempt[q] /\ gone'[q] = gone[q]
    /\ \A c \in Containers \ {ctn[p]} :
          /\ bound'[c] = bound[c]
          /\ eth0'[c] = eth0[c]
          /\ veth'[c] = veth[c]
    /\ \A t \in Ports :
          \/ portBridge'[t] = portBridge[t]
          \/ t = Port(p) /\ portBridge'[t] # None
          \/ t = binding[ctn[p]] /\ pc[p] = "rmPort"

LEMMA StepOnHost ==
    ASSUME TypeInv, ControlInv, NEW p \in Procs, Step(p)
    PROVE  HostStep(p)
<1>a. ctn[p] \in Containers /\ pc[p] # "start"
  BY StepIsLocal DEF LocalStep, Live, TypeInv
<1>b. Port(p) \in Ports /\ None \notin Bridges /\ usage \in Bridges
  BY PodAssumption DEF PodAssumption, Port, Ports, Bridges, TypeInv, TypeOK
<1> USE <1>a, <1>b
    DEF TypeInv, TypeOK, HostStep, At, Inside, Goto, Leave, Effective, Ineffective,
        BindFailed, lockState, etcdKeys, midonet, pods, locals
<1>1. CASE AddCached(p) \/ AddFresh(p)
  BY <1>1 DEF AddCached, AddFresh
<1>2. CASE ListPool(p) \/ PoolEmpty(p)
  BY <1>2 DEF ListPool, PoolEmpty
<1>3. CASE TakeAddress(p) \/ TakeNext(p) \/ TakeNone(p) \/ SaveIp(p)
  BY <1>3 DEF TakeAddress, TakeNext, TakeNone, SaveIp
<1>4. CASE GetBinding(p)
  BY <1>4 DEF GetBinding
<1>5. CASE MakePort(p) \/ MakePortFails(p)
  BY <1>5 DEF MakePort, MakePortFails
<1>6. CASE BindInterface(p) \/ BindInterfaceFails(p)
  BY <1>6 DEF BindInterface, BindInterfaceFails
<1>7. CASE SaveBinding(p)
  BY <1>7 DEF SaveBinding
<1>8. CASE UndoBinding(p)
  BY <1>8 DEF UndoBinding, Unbound
<1>9. CASE DoNetworking(p) \/ DoNetworkingAgain(p)
  BY <1>9 DEF DoNetworking, DoNetworkingAgain, Networked
<1>10. CASE DoNetworkingFails(p)
  BY <1>10, HalfNetworkedFacts DEF DoNetworkingFails
<1>11. CASE SaveResult(p) \/ Return(p)
  BY <1>11 DEF SaveResult, Return
<1>12. CASE CheckPool(p) \/ CreateBridge(p) \/ SetRange(p) \/ SetRangeUnsaved(p)
  BY <1>12 DEF CheckPool, CreateBridge, SetRange, SetRangeUnsaved
<1>13. CASE FillPool(p) \/ LinkRouter(p) \/ SetUsage(p) \/ CreateNewBridgeFails(p)
  BY <1>13 DEF FillPool, LinkRouter, SetUsage, CreateNewBridgeFails
<1>14. CASE DeleteResult(p) \/ GetBindingToDelete(p)
  BY <1>14 DEF DeleteResult, GetBindingToDelete
<1>15. CASE DeleteBinding(p)
  BY <1>15 DEF DeleteBinding, Unbound
<1>16. CASE DeletePort(p)
  BY <1>16 DEF DeletePort, RemovePort, Unbound
<1>17. CASE DeleteBindingKey(p) \/ GetPodIp(p) \/ CompareRange(p)
  BY <1>17 DEF DeleteBindingKey, GetPodIp, CompareRange
<1>18. CASE PutBack(p) \/ DeletePodIp(p)
  BY <1>18 DEF PutBack, DeletePodIp
<1>19. CASE CallLock(p) \/ Lock(p) \/ Unlock(p)
  BY <1>19 DEF CallLock, Lock, Unlock
<1>20. CASE CmdAddK8s(p)
  BY <1>20, <1>1, <1>2, <1>3, <1>4, <1>5, <1>6, <1>7, <1>8, <1>9, <1>10, <1>11, Zenon
  DEF CmdAddK8s, GetNewIP, Bingding
<1>21. CASE CreateNewBridge(p)
  BY <1>21, <1>12, <1>13, Zenon DEF CreateNewBridge
<1>22. CASE CmdDelK8s(p)
  BY <1>22, <1>14, <1>15, <1>16, <1>17, <1>18, Zenon DEF CmdDelK8s
<1>23. QED
  BY <1>19, <1>20, <1>21, <1>22, Zenon DEF Step

\* So of the ports of other containers and processes none changes.
LEMMA PortsOfOthers ==
    ASSUME TypeInv, ControlInv, PortsOwned, NEW p \in Procs, LocalStep(p), HostStep(p)
    PROVE  /\ \A c \in Containers \ {ctn[p]} :
                 binding[c] # None => portBridge'[binding[c]] = portBridge[binding[c]]
           /\ \A q \in Procs \ {p} :
                 Live(q) => Port(q)' = Port(q) /\ portBridge'[Port(q)] = portBridge[Port(q)]
<1>1. Live(p) /\ ctn[p] \in Containers
  BY DEF LocalStep, Live, TypeInv
<1>2. pc[p] = "rmPort" => binding[ctn[p]] # None
  BY <1>1 DEF ControlInv, ProcInv, Unbinding
<1>3. \A q \in Procs : Port(q) \in Ports /\ Port(q)[1] = q
  BY DEF Port, Ports, TypeInv, TypeOK
<1>4. ASSUME NEW c \in Containers \ {ctn[p]}, binding[c] # None
      PROVE  portBridge'[binding[c]] = portBridge[binding[c]]
  <2>1. binding[c] \in Ports /\ ctn[binding[c][1]] = c
    BY <1>4 DEF PortsOwned, TypeInv, TypeOK
  <2>2. binding[c] # Port(p)
    BY <1>3, <2>1
  <2>3. pc[p] = "rmPort" => binding[c] # binding[ctn[p]]
    BY <1>1, <1>2, <2>1 DEF PortsOwned
  <2>4. QED
    BY <2>1, <2>2, <2>3 DEF HostStep
<1>5. ASSUME NEW q \in Procs \ {p}, Live(q)
      PROVE  Port(q)' = Port(q) /\ portBridge'[Port(q)] = portBridge[Port(q)]
  <2>1. Port(q)' = Port(q)
    BY DEF HostStep, Port
  <2>2. Port(q) # Port(p)
    BY <1>3
  <2>3. ctn[q] # ctn[p]
    BY <1>1, <1>5 DEF ControlInv
  <2>4. pc[p] = "rmPort" => Port(q) # binding[ctn[p]]
    BY <1>1, <1>2, <1>3, <2>3 DEF PortsOwned
  <2>5. QED
    BY <1>3, <2>1, <2>2, <2>4 DEF HostStep
<1>6. QED
  BY <1>4, <1>5

\* The container of p as p sees it.
OwnConn(p) ==
    /\ ProcConn(p)
    /\ ResultTrue(ctn[p])
    /\ binding[ctn[p]] # None =>
          \/ Connected(ctn[p])
          \/ Live(p) /\ pc[p] \in Disconnecting
          \/ ctn[p] \in removed /\ result[ctn[p]] = None

LEMMA StepConnects ==
    ASSUME ~Fault("etcd"), TypeInv, ControlInv, NEW p \in Procs, Step(p), OwnConn(p)
    PROVE  OwnConn(p)'
<1>a. ctn[p] \in Containers /\ Live(p) /\ ProcInv(p)
  BY StepIsLocal DEF LocalStep, Live, TypeInv, ControlInv
<1>b. Port(p) \in Ports /\ None \notin Ports /\ None \notin Bridges /\ usage \in Bridges
  BY PodAssumption DEF PodAssumption, Port, Ports, Bridges, TypeInv, TypeOK
<1>c. /\ pc \in [Procs -> Labels]
      /\ phase \in [Procs -> L!Phases]
      /\ ip \in [Procs -> OptAddress]
      /\ attempt \in [Procs -> {1, 2}]
      /\ result \in [Containers -> OptAddress]
      /\ podIp \in [Containers -> OptAddress]
      /\ binding \in [Containers -> Ports \cup {None}]
      /\ portBridge \in [Ports -> Bridges \cup {None}]
      /\ bound \in [Containers -> Ports \cup {None}]
      /\ eth0 \in [Containers -> OptAddress]
      /\ veth \in [Containers -> {"none", "inside", "outside", "renamed"}]
  BY DEF TypeInv, TypeOK, L!TypeOK
<1> USE <1>a, <1>b, <1>c
    DEF OwnConn, ProcConn, ResultTrue, Connected, Disconnecting, Adding, ProcInv,
        Creating, Saved, Unbinding, Releasing, Holding, Live, Port,
        At, Inside, Goto, Leave, L!EnterUnlock, L!Move, Effective, Ineffective,
        BindFailed, lockState, etcdKeys, midonet, pods, locals
<1>1. CASE AddCached(p) \/ AddFresh(p)
  BY <1>1 DEF AddCached, AddFresh
<1>2. CASE ListPool(p) \/ PoolEmpty(p)
  BY <1>2 DEF ListPool, PoolEmpty
<1>3. CASE TakeAddress(p) \/ TakeNext(p) \/ TakeNone(p)
  BY <1>3 DEF TakeAddress, TakeNext, TakeNone
<1>3a. CASE SaveIp(p)
  BY <1>3a DEF SaveIp
<1>4. CASE GetBinding(p)
  BY <1>4 DEF GetBinding
<1>5. CASE MakePort(p)
  BY <1>5 DEF MakePort
<1>5a. CASE MakePortFails(p)
  BY <1>5a DEF MakePortFails
<1>6. CASE BindInterface(p)
  BY <1>6 DEF BindInterface
<1>6a. CASE BindInterfaceFails(p)
  BY <1>6a DEF BindInterfaceFails
<1>7. CASE SaveBinding(p)
  BY <1>7 DEF SaveBinding
<1>8. CASE UndoBinding(p)
  BY <1>8 DEF UndoBinding
<1>9. CASE DoNetworking(p)
  BY <1>9 DEF DoNetworking, Networked
<1>9a. CASE DoNetworkingAgain(p)
  BY <1>9a DEF DoNetworkingAgain
<1>10. CASE DoNetworkingFails(p)
  BY <1>10 DEF DoNetworkingFails
<1>11. CASE SaveResult(p)
  BY <1>11 DEF SaveResult
<1>11a. CASE Return(p)
  BY <1>11a DEF Return
<1>12. CASE CheckPool(p) \/ CreateBridge(p) \/ SetRange(p) \/ SetRangeUnsaved(p)
  BY <1>12 DEF CheckPool, CreateBridge, SetRange, SetRangeUnsaved
<1>13. CASE FillPool(p) \/ LinkRouter(p) \/ SetUsage(p)
  BY <1>13 DEF FillPool, LinkRouter, SetUsage
<1>13a. CASE CreateNewBridgeFails(p)
  BY <1>13a DEF CreateNewBridgeFails
<1>14. CASE DeleteResult(p) \/ GetBindingToDelete(p)
  BY <1>14 DEF DeleteResult, GetBindingToDelete
<1>15. CASE DeleteBinding(p)
  BY <1>15 DEF DeleteBinding, Unbound
<1>16. CASE DeletePort(p)
  BY <1>16 DEF DeletePort, RemovePort, Unbound
<1>17. CASE DeleteBindingKey(p)
  BY <1>17 DEF DeleteBindingKey
<1>17a. CASE GetPodIp(p)
  BY <1>17a DEF GetPodIp
<1>17b. CASE CompareRange(p)
  BY <1>17b DEF CompareRange
<1>18. CASE PutBack(p) \/ DeletePodIp(p)
  BY <1>18 DEF PutBack, DeletePodIp
<1>19. CASE CallLock(p)
  BY <1>19 DEF CallLock, L!CallLock
<1>19a. CASE Lock(p) \/ Unlock(p)
  <2>1. phase'[p] # "dead"
    BY <1>19a DEF Lock, L!LockStep, L!SetCreates, L!SetExists, L!SetFails, L!GetFinds,
       L!GetMissing, L!ReadFails, L!WatchFires, L!NextAttempt, Unlock, L!UnlockStep,
       L!DeleteRemoves, L!DeleteMissing, L!DeleteFails
  <2>2. QED
    BY <1>19a, <2>1 DEF Lock, Unlock
<1>20. CASE CmdAddK8s(p)
  BY <1>20, <1>1, <1>2, <1>3, <1>3a, <1>4, <1>5, <1>5a, <1>6, <1>6a, <1>7, <1>8, <1>9,
     <1>9a, <1>10, <1>11, <1>11a, Zenon
  DEF CmdAddK8s, GetNewIP, Bingding
<1>21. CASE CreateNewBridge(p)
  BY <1>21, <1>12, <1>13, <1>13a, Zenon DEF CreateNewBridge
<1>22. CASE CmdDelK8s(p)
  BY <1>22, <1>14, <1>15, <1>16, <1>17, <1>17a, <1>17b, <1>18, Zenon DEF CmdDelK8s
<1>23. QED
  BY <1>19, <1>19a, <1>20, <1>21, <1>22, Zenon DEF Step

LEMMA StepConnInv ==
    ASSUME ~Fault("etcd"), TypeInv, ControlInv, ConnInv, NEW p \in Procs, Step(p)
    PROVE  ConnInv'
<1>1. LocalStep(p) /\ HostStep(p) /\ Live(p) /\ ctn[p] \in Containers
  BY StepIsLocal, StepOnHost DEF LocalStep, Live, TypeInv
<1>2. OwnConn(p)'
  <2>1. \A q \in Procs : Live(q) /\ ctn[q] = ctn[p] => q = p
    BY <1>1 DEF ControlInv
  <2>2. OwnConn(p)
    BY <1>1, <2>1 DEF ConnInv, OwnConn, BindingTrue
  <2>3. QED
    BY <2>2, StepConnects
<1>3. ASSUME NEW q \in Procs, q # p PROVE Live(q)' <=> Live(q)
  BY <1>1, <1>3 DEF LocalStep, Live
<1>4. \A c \in Containers \ {ctn[p]} :
         binding[c] # None => portBridge'[binding[c]] = portBridge[binding[c]]
  BY <1>1, PortsOfOthers DEF ConnInv
<1>5. PortsOwned'
  <2>1. SUFFICES ASSUME NEW c \in Containers, binding'[c] # None
                 PROVE  ctn'[binding'[c][1]] = c /\ pc'[binding'[c][1]] # "start"
    BY DEF PortsOwned
  <2>2. CASE binding'[c] = binding[c]
    <3>1. ctn[binding[c][1]] = c /\ pc[binding[c][1]] # "start" /\ binding[c][1] \in Procs
      BY <2>1, <2>2 DEF ConnInv, PortsOwned, TypeInv, TypeOK, Ports
    <3>2. QED
      BY <1>1, <2>2, <3>1 DEF LocalStep, HostStep
  <2>3. CASE binding'[c] # binding[c]
    <3>1. c = ctn[p] /\ binding'[c] = Port(p)
      BY <1>1, <2>1, <2>3 DEF HostStep, TypeInv, TypeOK
    <3>2. QED
      BY <1>1, <3>1 DEF LocalStep, HostStep, Port
  <2>4. QED
    BY <2>2, <2>3
<1>6. ASSUME NEW q \in Procs, q # p PROVE ProcConn(q)'
  <2>1. SUFFICES ASSUME Live(q) PROVE ProcConn(q)'
    BY <1>3, <1>6 DEF ProcConn
  <2>2. ctn[q] \in Containers \ {ctn[p]}
    BY <1>1, <1>6, <2>1 DEF ControlInv, TypeInv, Live
  <2>3. Port(q)' = Port(q) /\ portBridge'[Port(q)] = portBridge[Port(q)]
    BY <1>1, <1>6, <2>1, PortsOfOthers DEF ConnInv
  <2>4. QED
    BY <1>1, <1>6, <2>1, <2>2, <2>3 DEF ConnInv, ProcConn, LocalStep, HostStep
<1>7. ASSUME NEW c \in Containers PROVE BindingTrue(c)' /\ ResultTrue(c)'
  <2>1. CASE c = ctn[p]
    BY <1>1, <1>2, <2>1 DEF OwnConn, BindingTrue, LocalStep
  <2>2. CASE c # ctn[p]
    <3>1. /\ result'[c] = result[c] /\ binding'[c] = binding[c] /\ podIp'[c] = podIp[c]
          /\ bound'[c] = bound[c] /\ eth0'[c] = eth0[c] /\ veth'[c] = veth[c]
          /\ removed' = removed
      BY <1>1, <2>2 DEF LocalStep, HostStep
    <3>2. ASSUME NEW q \in Procs, Live(q), ctn[q] = c
          PROVE  Live(q)' /\ ctn'[q] = c /\ pc'[q] = pc[q]
      BY <1>1, <1>3, <2>2, <3>2 DEF LocalStep
    <3>3. QED
      BY <1>4, <2>2, <3>1, <3>2 DEF ConnInv, BindingTrue, ResultTrue, Connected
  <2>3. QED
    BY <2>1, <2>2
<1>8. QED
  BY <1>2, <1>5, <1>6, <1>7 DEF ConnInv, OwnConn

LEMMA StartConnInv ==
    ASSUME TypeInv, ConnInv, NEW p \in Procs, NEW k \in Containers,
           StartAdd(p, k) \/ StartDel(p, k)
    PROVE  ConnInv'
<1>1. /\ pc[p] = "start" /\ ctn' = [ctn EXCEPT ![p] = k]
      /\ \/ pc' = [pc EXCEPT ![p] = "addResult"] /\ k \notin removed /\ removed' = removed
         \/ pc' = [pc EXCEPT ![p] = "delResult"] /\ removed' = removed \cup {k} /\ ~Busy(k)
      /\ UNCHANGED <<phase, result, podIp, binding, portBridge, bound, eth0, veth, ip, attempt>>
  BY DEF StartAdd, StartDel, At, Goto, lockState, etcdKeys, midonet, pods, locals
<1>2. PortsOwned'
  <2>1. \A t \in Ports : t[1] \in Procs
    BY DEF Ports
  <2>2. \A q \in Procs \ {p} : ctn'[q] = ctn[q] /\ pc'[q] = pc[q]
    BY <1>1 DEF TypeInv, TypeOK
  <2>3. \A c \in Containers : binding[c] # None => binding[c] \in Ports
    BY DEF TypeInv, TypeOK
  <2>4. QED
    BY <1>1, <2>1, <2>2, <2>3 DEF ConnInv, PortsOwned
<1>3. ASSUME NEW q \in Procs PROVE ProcConn(q)'
  <2>1. CASE q = p
    BY <1>1, <2>1 DEF ProcConn, Adding, Creating, TypeInv, TypeOK
  <2>2. CASE q # p
    BY <1>1, <2>2 DEF ConnInv, ProcConn, Live, Port, Busy, TypeInv, TypeOK
  <2>3. QED
    BY <2>1, <2>2
<1>4. ASSUME NEW q \in Procs, Live(q)
      PROVE  Live(q)' /\ pc'[q] = pc[q] /\ ctn'[q] = ctn[q]
  BY <1>1, <1>4 DEF Live, TypeInv, TypeOK
<1>5. ASSUME NEW c \in Containers PROVE BindingTrue(c)' /\ ResultTrue(c)'
  BY <1>1, <1>4 DEF ConnInv, BindingTrue, ResultTrue, Connected
<1>6. QED
  BY <1>2, <1>3, <1>5 DEF ConnInv

\* A process may die anywhere but where it leaves a false binding to a container
\* that may be added again.
LEMMA CrashConnInv ==
    ASSUME TypeInv, ControlInv, ConnInv, NEW p \in Procs, Crash(p),
           pc[p] \in Disconnecting => ctn[p] \in removed
    PROVE  ConnInv'
<1>1. /\ phase' = [phase EXCEPT ![p] = "dead"] /\ Live(p)
      /\ UNCHANGED <<result, binding, podIp, portBridge, bound, removed, pc, ctn, ip, attempt>>
  BY DEF Crash, L!Die, L!Move, etcdKeys, midonet, locals
<1>h. \A c \in Containers :
         c # ctn[p] \/ pc[p] # "net" => eth0'[c] = eth0[c] /\ veth'[c] = veth[c]
  BY HalfNetworkedFacts DEF Crash
<1>2. \A q \in Procs : /\ Live(q)' => Live(q)
                       /\ Live(q) /\ q # p => Live(q)'
  BY <1>1 DEF Live, TypeInv, TypeOK, L!TypeOK
<1>3. pc[p] \in Disconnecting => result[ctn[p]] = None
  BY <1>1 DEF ControlInv, ProcInv, Disconnecting
<1>4. PortsOwned'
  BY <1>1 DEF ConnInv, PortsOwned
<1>5. ASSUME NEW q \in Procs PROVE ProcConn(q)'
  <2>1. SUFFICES ASSUME Live(q)' PROVE ProcConn(q)'
    BY DEF ProcConn
  <2>2. Live(q) /\ q # p /\ ctn[q] \in Containers
    BY <1>1, <1>2, <2>1 DEF Live, TypeInv, TypeOK, L!TypeOK
  <2>3. eth0'[ctn[q]] = eth0[ctn[q]] /\ veth'[ctn[q]] = veth[ctn[q]]
    BY <1>1, <1>h, <2>2 DEF ControlInv
  <2>4. QED
    BY <1>1, <2>2, <2>3 DEF ConnInv, ProcConn, Port
<1>6. ASSUME NEW c \in Containers PROVE BindingTrue(c)'
  BY <1>1, <1>2, <1>3 DEF ConnInv, BindingTrue, Connected
<1>7. ASSUME NEW c \in Containers PROVE ResultTrue(c)'
  <2>1. CASE c = ctn[p] /\ pc[p] = "net"
    <3>1. result[c] = None
      BY <1>1, <2>1 DEF ControlInv, ProcInv
    <3>2. QED
      BY <1>1, <3>1 DEF ResultTrue
  <2>2. CASE ~(c = ctn[p] /\ pc[p] = "net")
    BY <1>1, <1>h, <2>2 DEF ConnInv, ResultTrue
  <2>3. QED
    BY <2>1, <2>2
<1>8. QED
  BY <1>4, <1>5, <1>6, <1>7 DEF ConnInv

LEMMA QuietConnInv ==
    ASSUME ConnInv,
           UNCHANGED <<phase, exclusionLost, etcdKeys, midonet, pods, pc, locals>>
    PROVE  ConnInv'
<1>1. UNCHANGED <<phase, result, binding, podIp, portBridge, bound, eth0, veth, removed,
                  pc, ctn, ip, attempt>>
  BY DEF etcdKeys, midonet, pods, locals
<1>2. QED
  BY <1>1 DEF ConnInv, PortsOwned, ProcConn, Live, Port, BindingTrue, ResultTrue, Connected

LEMMA InitConnInv == Init => ConnInv
BY DEF Init, ConnInv, PortsOwned, ProcConn, Live, BindingTrue, ResultTrue

-----------------------------------------------------------------------------
\* As long as there is no fault.

Empty(c) == result[c] = None /\ binding[c] = None /\ podIp[c] = None /\ bound[c] = None

\* What a container is like while no process works on it.
Settled(c) ==
    \/ Empty(c) /\ granted[c] = None /\ (c \in removed \/ veth[c] = "none")
    \/ result[c] # None /\ granted[c] = result[c] /\ c \notin removed

\* What p has done of its ADD or DEL, as its container shows it.
ProcQuiet(p) == LET c == ctn[p] IN
    /\ pc[p] = "addResult" => Settled(c)
    /\ pc[p] \in {"list", "take", "saveIp", "create"} \cup Creating =>
          Empty(c) /\ veth[c] = "none"
    /\ pc[p] \in {"saveIp", "return"} \cup Saved => ip[p] # None
    /\ pc[p] \in {"bindGet", "makePort", "bindIf"} => binding[c] = None /\ bound[c] = None
    /\ pc[p] \in {"bindGet", "makePort", "bindIf", "saveBind", "net"} => veth[c] = "none"
    /\ pc[p] = "delResult" => Empty(c) \/ (result[c] # None /\ c \in removed)
    /\ pc[p] = "delBindGet" =>
          \/ Empty(c)
          \/ binding[c] # None /\ Connected(c) /\ podIp[c] # None /\ c \in removed
    /\ pc[p] \in {"delResult", "delBindGet"} => c \in removed \/ veth[c] = "none"
    /\ pc[p] \in Unbinding \cup Releasing => podIp[c] # None /\ c \in removed
    /\ pc[p] = "unbind" => Connected(c)
    /\ pc[p] = "rmPort" => portBridge[binding[c]] # None
    /\ pc[p] = "delBindKey" => gone[p] /\ portBridge[binding[c]] = None
    /\ pc[p] \in {"rmPort", "delBindKey"} \cup Releasing => bound[c] = None
    /\ pc[p] \in {"relRange", "release"} => ip[p] = podIp[c]

\* p has created port t and not saved it yet.
Making(p, t) == Live(p) /\ pc[p] \in {"bindIf", "saveBind"} /\ Port(p) = t

QuietInv ==
    /\ \A p \in Procs : phase[p] # "dead"
    /\ \A p \in Procs : Live(p) => ProcQuiet(p)
    /\ \A c \in Containers : Busy(c) \/ Settled(c)
    /\ \A t \in Ports : portBridge[t] # None =>
          (\E p \in Procs : Making(p, t)) \/ \E c \in Containers : binding[c] = t
    /\ \A a \in Pool(iprange) :
          a \in avail \/ Filling(a) \/ \E c \in Containers : Owns(c, a)

NoFaults == ~Fault("etcd") /\ ~Fault("midonet") /\ ~Fault("veth") /\ ~L!Fault("crash")

LEMMA StepStaysQuiet ==
    ASSUME NoFaults, TypeInv, ControlInv, NEW p \in Procs, Step(p), OwnConn(p),
           ProcQuiet(p)
    PROVE  IF Live(p)' THEN ProcQuiet(p)' ELSE Settled(ctn[p])'
<1>a. ctn[p] \in Containers /\ Live(p) /\ ProcInv(p)
  BY StepIsLocal DEF LocalStep, Live, TypeInv, ControlInv
<1>b. Port(p) \in Ports /\ None \notin Ports /\ None \notin Bridges /\ usage \in Bridges
  BY PodAssumption DEF PodAssumption, Port, Ports, Bridges, TypeInv, TypeOK
<1>c. /\ pc \in [Procs -> Labels]
      /\ phase \in [Procs -> L!Phases]
      /\ ip \in [Procs -> OptAddress]
      /\ todo \in [Procs -> SUBSET Address]
      /\ gone \in [Procs -> BOOLEAN]
      /\ granted \in [Containers -> OptAddress]
      /\ result \in [Containers -> OptAddress]
      /\ podIp \in [Containers -> OptAddress]
      /\ binding \in [Containers -> Ports \cup {None}]
      /\ portBridge \in [Ports -> Bridges \cup {None}]
      /\ bound \in [Containers -> Ports \cup {None}]
      /\ eth0 \in [Containers -> OptAddress]
      /\ veth \in [Containers -> {"none", "inside", "outside", "renamed"}]
  BY DEF TypeInv, TypeOK, L!TypeOK
<1> USE <1>a, <1>b, <1>c, AddressFacts
    DEF NoFaults, OwnConn, ProcConn, ResultTrue, Connected, Disconnecting, Adding, ProcInv,
        ProcQuiet, Settled, Empty, Creating, Saved, Unbinding, Releasing, Live, Port,
        At, Inside, Goto, Leave, L!EnterUnlock, L!Move, Effective, Ineffective,
        lockState, etcdKeys, midonet, pods, locals
<1>1. CASE AddCached(p) \/ AddFresh(p)
  BY <1>1 DEF AddCached, AddFresh
<1>2. CASE ListPool(p) \/ PoolEmpty(p)
  BY <1>2 DEF ListPool, PoolEmpty
<1>3. CASE TakeAddress(p) \/ TakeNext(p) \/ TakeNone(p)
  BY <1>3 DEF TakeAddress, TakeNext, TakeNone
<1>3a. CASE SaveIp(p)
  BY <1>3a DEF SaveIp
<1>4. CASE GetBinding(p)
  BY <1>4 DEF GetBinding
<1>5. CASE MakePort(p) \/ MakePortFails(p)
  BY <1>5 DEF MakePort, MakePortFails
<1>6. CASE BindInterface(p) \/ BindInterfaceFails(p)
  BY <1>6 DEF BindInterface, BindInterfaceFails
<1>7. CASE SaveBinding(p) \/ UndoBinding(p)
  BY <1>7 DEF SaveBinding, UndoBinding
<1>9. CASE DoNetworking(p) \/ DoNetworkingAgain(p) \/ DoNetworkingFails(p)
  BY <1>9 DEF DoNetworking, Networked, DoNetworkingAgain, DoNetworkingFails
<1>11. CASE SaveResult(p)
  BY <1>11 DEF SaveResult
<1>11a. CASE Return(p)
  BY <1>11a DEF Return
<1>12. CASE CheckPool(p) \/ CreateBridge(p) \/ SetRange(p) \/ SetRangeUnsaved(p)
  BY <1>12 DEF CheckPool, CreateBridge, SetRange, SetRangeUnsaved
<1>13. CASE FillPool(p) \/ LinkRouter(p) \/ SetUsage(p)
  BY <1>13 DEF FillPool, LinkRouter, SetUsage
<1>13a. CASE CreateNewBridgeFails(p)
  BY <1>13a DEF CreateNewBridgeFails
<1>14. CASE DeleteResult(p)
  BY <1>14 DEF DeleteResult
<1>14a. CASE GetBindingToDelete(p)
  BY <1>14a DEF GetBindingToDelete
<1>15. CASE DeleteBinding(p)
  BY <1>15 DEF DeleteBinding, Unbound
<1>16. CASE DeletePort(p)
  BY <1>16 DEF DeletePort, RemovePort, Unbound
<1>17. CASE DeleteBindingKey(p)
  BY <1>17 DEF DeleteBindingKey
<1>17a. CASE GetPodIp(p)
  BY <1>17a DEF GetPodIp
<1>17b. CASE CompareRange(p)
  BY <1>17b DEF CompareRange
<1>18. CASE PutBack(p) \/ DeletePodIp(p)
  BY <1>18 DEF PutBack, DeletePodIp
<1>19. CASE CallLock(p)
  BY <1>19 DEF CallLock, L!CallLock
<1>19a. CASE Lock(p) \/ Unlock(p)
  <2>1. phase'[p] # "dead"
    BY <1>19a DEF Lock, L!LockStep, L!SetCreates, L!SetExists, L!SetFails, L!GetFinds,
       L!GetMissing, L!ReadFails, L!WatchFires, L!NextAttempt, Unlock, L!UnlockStep,
       L!DeleteRemoves, L!DeleteMissing, L!DeleteFails
  <2>2. QED
    BY <1>19a, <2>1 DEF Lock, Unlock
<1>20. CASE CmdAddK8s(p)
  BY <1>20, <1>1, <1>2, <1>3, <1>3a, <1>4, <1>5, <1>6, <1>7, <1>9, <1>11, <1>11a, Zenon
  DEF CmdAddK8s, GetNewIP, Bingding
<1>21. CASE CreateNewBridge(p)
  BY <1>21, <1>12, <1>13, <1>13a, Zenon DEF CreateNewBridge
<1>22. CASE CmdDelK8s(p)
  BY <1>22, <1>14, <1>14a, <1>15, <1>16, <1>17, <1>17a, <1>17b, <1>18, Zenon DEF CmdDelK8s
<1>23. QED
  BY <1>19, <1>19a, <1>20, <1>21, <1>22, Zenon DEF Step

\* Whatever p's step takes from one place is in another one afterwards: an
\* address stays with p's container, in the pool or on its way there, a port
\* stays that of p or of its container.
Keeps(p) ==
    /\ \A a \in Address : Has(p, a) => Has(p, a)' \/ a \in avail' \/ RangeOf(a) # iprange'
    /\ \A a \in avail : a \in avail' \/ Has(p, a)'
    /\ pc[p] = "nbFill" =>
          \A a \in todo[p] : a \in avail' \/ (pc'[p] = "nbFill" /\ a \in todo'[p])
    /\ iprange' = iprange \/ (pc'[p] = "nbFill" /\ todo'[p] = Pool(iprange'))
    /\ phase'[p] # "dead"
    /\ \A t \in Ports : portBridge'[t] # None => portBridge[t] # None \/ Making(p, t)'
    /\ \A t \in Ports : Making(p, t) => Making(p, t)' \/ binding'[ctn[p]] = t
    /\ binding'[ctn[p]] = binding[ctn[p]] \/ binding[ctn[p]] = None
          \/ portBridge'[binding[ctn[p]]] = None

LEMMA StepKeeps ==
    ASSUME NoFaults, TypeInv, ControlInv, NEW p \in Procs, Step(p), OwnConn(p),
           ProcQuiet(p)
    PROVE  Keeps(p)
<1>a. ctn[p] \in Containers /\ Live(p) /\ ProcInv(p)
  BY StepIsLocal DEF LocalStep, Live, TypeInv, ControlInv
<1>b. Port(p) \in Ports /\ None \notin Ports /\ None \notin Bridges /\ usage \in Bridges
  BY PodAssumption DEF PodAssumption, Port, Ports, Bridges, TypeInv, TypeOK
<1>c. /\ pc \in [Procs -> Labels]
      /\ phase \in [Procs -> L!Phases]
      /\ ip \in [Procs -> OptAddress]
      /\ todo \in [Procs -> SUBSET Address]
      /\ avail \subseteq Address
      /\ result \in [Containers -> OptAddress]
      /\ podIp \in [Containers -> OptAddress]
      /\ binding \in [Containers -> Ports \cup {None}]
      /\ portBridge \in [Ports -> Bridges \cup {None}]
  BY DEF TypeInv, TypeOK, L!TypeOK
<1> USE <1>a, <1>b, <1>c, AddressFacts
    DEF NoFaults, OwnConn, ProcConn, ResultTrue, ProcInv, ProcQuiet, Empty, Keeps, Has,
        Holding, Making, Creating, Saved, Unbinding, Releasing, Live, Port,
        At, Inside, Goto, Leave, L!EnterUnlock, L!Move, Effective, Ineffective,
        lockState, etcdKeys, midonet, pods, locals
<1>1. CASE AddCached(p) \/ AddFresh(p)
  BY <1>1 DEF AddCached, AddFresh
<1>2. CASE ListPool(p) \/ PoolEmpty(p)
  BY <1>2 DEF ListPool, PoolEmpty
<1>3. CASE TakeAddress(p) \/ TakeNext(p) \/ TakeNone(p)
  BY <1>3 DEF TakeAddress, TakeNext, TakeNone
<1>3a. CASE SaveIp(p)
  BY <1>3a DEF SaveIp
<1>4. CASE GetBinding(p)
  BY <1>4 DEF GetBinding
<1>5. CASE MakePort(p) \/ MakePortFails(p)
  BY <1>5 DEF MakePort, MakePortFails
<1>6. CASE BindInterface(p) \/ BindInterfaceFails(p)
  BY <1>6 DEF BindInterface, BindInterfaceFails
<1>7. CASE SaveBinding(p) \/ UndoBinding(p)
  BY <1>7 DEF SaveBinding, UndoBinding
<1>9. CASE DoNetworking(p) \/ DoNetworkingAgain(p) \/ DoNetworkingFails(p)
  BY <1>9 DEF DoNetworking, Networked, DoNetworkingAgain, DoNetworkingFails
<1>11. CASE SaveResult(p)
  BY <1>11 DEF SaveResult
<1>11a. CASE Return(p)
  BY <1>11a DEF Return
<1>12. CASE CheckPool(p) \/ CreateBridge(p) \/ SetRange(p) \/ SetRangeUnsaved(p)
  BY <1>12 DEF CheckPool, CreateBridge, SetRange, SetRangeUnsaved
<1>13. CASE FillPool(p) \/ LinkRouter(p) \/ SetUsage(p)
  BY <1>13 DEF FillPool, LinkRouter, SetUsage
<1>13a. CASE CreateNewBridgeFails(p)
  BY <1>13a DEF CreateNewBridgeFails
<1>14. CASE DeleteResult(p)
  BY <1>14 DEF DeleteResult
<1>14a. CASE GetBindingToDelete(p)
  BY <1>14a DEF GetBindingToDelete
<1>15. CASE DeleteBinding(p)
  BY <1>15 DEF DeleteBinding
<1>16. CASE DeletePort(p)
  BY <1>16 DEF DeletePort, RemovePort
<1>17. CASE DeleteBindingKey(p)
  BY <1>17 DEF DeleteBindingKey
<1>17a. CASE GetPodIp(p)
  BY <1>17a DEF GetPodIp
<1>17b. CASE CompareRange(p)
  BY <1>17b DEF CompareRange
<1>18. CASE PutBack(p) \/ DeletePodIp(p)
  BY <1>18 DEF PutBack, DeletePodIp
<1>19. CASE CallLock(p)
  BY <1>19 DEF CallLock, L!CallLock
<1>19a. CASE Lock(p) \/ Unlock(p)
  <2>1. phase'[p] # "dead"
    BY <1>19a DEF Lock, L!LockStep, L!SetCreates, L!SetExists, L!SetFails, L!GetFinds,
       L!GetMissing, L!ReadFails, L!WatchFires, L!NextAttempt, Unlock, L!UnlockStep,
       L!DeleteRemoves, L!DeleteMissing, L!DeleteFails
  <2>2. QED
    BY <1>19a, <2>1 DEF Lock, Unlock
<1>20. CASE CmdAddK8s(p)
  BY <1>20, <1>1, <1>2, <1>3, <1>3a, <1>4, <1>5, <1>6, <1>7, <1>9, <1>11, <1>11a, Zenon
  DEF CmdAddK8s, GetNewIP, Bingding
<1>21. CASE CreateNewBridge(p)
  BY <1>21, <1>12, <1>13, <1>13a, Zenon DEF CreateNewBridge
<1>22. CASE CmdDelK8s(p)
  BY <1>22, <1>14, <1>14a, <1>15, <1>16, <1>17, <1>17a, <1>17b, <1>18, Zenon DEF CmdDelK8s
<1>23. QED
  BY <1>19, <1>19a, <1>20, <1>21, <1>22, Zenon DEF Step

LEMMA StepQuietInv ==
    ASSUME NoFaults, TypeInv, TypeInv', ControlInv, ConnInv, QuietInv, NEW p \in Procs, Step(p)
    PROVE  QuietInv'
<1>1. LocalStep(p) /\ HostStep(p) /\ Live(p) /\ ctn[p] \in Containers
  BY StepIsLocal, StepOnHost DEF LocalStep, Live, TypeInv
<1>2. OwnConn(p) /\ ProcQuiet(p)
  <2>1. \A q \in Procs : Live(q) /\ ctn[q] = ctn[p] => q = p
    BY <1>1 DEF ControlInv
  <2>2. QED
    BY <1>1, <2>1 DEF ConnInv, OwnConn, BindingTrue, QuietInv
<1>3. (IF Live(p)' THEN ProcQuiet(p)' ELSE Settled(ctn[p])') /\ Keeps(p)
  BY <1>2, StepStaysQuiet, StepKeeps
<1>4. ASSUME NEW q \in Procs, q # p
      PROVE  /\ Live(q)' <=> Live(q)
             /\ pc'[q] = pc[q] /\ ip'[q] = ip[q] /\ todo'[q] = todo[q] /\ gone'[q] = gone[q]
             /\ ctn'[q] = ctn[q]
             /\ phase'[q] = phase[q]
             /\ Live(q) => ctn[q] \in Containers \ {ctn[p]} /\ Port(q)' = Port(q)
  BY <1>1, <1>4 DEF LocalStep, HostStep, Live, TypeInv, ControlInv, Port
<1>5. ASSUME NEW c \in Containers, c # ctn[p]
      PROVE  /\ result'[c] = result[c] /\ binding'[c] = binding[c] /\ podIp'[c] = podIp[c]
             /\ bound'[c] = bound[c] /\ veth'[c] = veth[c] /\ granted'[c] = granted[c]
             /\ c \in removed' <=> c \in removed
             /\ binding[c] # None => portBridge'[binding[c]] = portBridge[binding[c]]
  BY <1>1, <1>5, PortsOfOthers DEF LocalStep, HostStep, ConnInv
<1>6. \A q \in Procs : phase'[q] # "dead"
  BY <1>3, <1>4 DEF Keeps, QuietInv
<1>7. ASSUME NEW q \in Procs, Live(q)' PROVE ProcQuiet(q)'
  <2>1. CASE q = p
    BY <1>3, <1>7, <2>1
  <2>2. CASE q # p
    <3>1. ProcQuiet(q) /\ ProcInv(q) /\ Live(q)
      BY <1>4, <1>7, <2>2 DEF QuietInv, ControlInv
    <3>2. QED
      BY <1>4, <1>5, <2>2, <3>1
      DEF ProcQuiet, ProcInv, Settled, Empty, Connected, Unbinding
  <2>3. QED
    BY <2>1, <2>2
<1>8. ASSUME NEW c \in Containers PROVE Busy(c)' \/ Settled(c)'
  <2>1. CASE c = ctn[p]
    BY <1>1, <1>3, <2>1 DEF Busy, LocalStep
  <2>2. CASE c # ctn[p]
    <3>1. Busy(c) => Busy(c)'
      BY <1>4, <2>2 DEF Busy
    <3>2. Settled(c) => Settled(c)'
      BY <1>5, <2>2 DEF Settled, Empty
    <3>3. QED
      BY <3>1, <3>2 DEF QuietInv
  <2>3. QED
    BY <2>1, <2>2
<1>9. ASSUME NEW t \in Ports, portBridge'[t] # None
      PROVE  (\E q \in Procs : Making(q, t)') \/ \E c \in Containers : binding'[c] = t
  <2>1. CASE \E q \in Procs : Making(q, t)
    <3>1. PICK q \in Procs : Making(q, t)
      BY <2>1
    <3>2. CASE q = p
      BY <1>1, <1>3, <3>1, <3>2 DEF Keeps
    <3>3. CASE q # p
      BY <1>4, <3>1, <3>3 DEF Making
    <3>4. QED
      BY <3>2, <3>3
  <2>2. CASE \E c \in Containers : binding[c] = t
    <3>1. PICK c \in Containers : binding[c] = t
      BY <2>2
    <3>2. t # None
      BY PodAssumption DEF PodAssumption, Ports
    <3>3. CASE c = ctn[p]
      BY <1>3, <1>9, <3>1, <3>2, <3>3 DEF Keeps
    <3>4. CASE c # ctn[p]
      BY <1>5, <3>1, <3>4
    <3>5. QED
      BY <3>3, <3>4
  <2>3. CASE portBridge[t] = None
    BY <1>3, <1>9, <2>3 DEF Keeps
  <2>4. QED
    BY <2>1, <2>2, <2>3 DEF QuietInv
<1>10. ASSUME NEW a \in Pool(iprange')
       PROVE  a \in avail' \/ Filling(a)' \/ \E c \in Containers : Owns(c, a)'
  <2>1. Live(p)' \/ pc'[p] \in {"start", "done"}
    BY <1>6 DEF Live
  <2>2. ctn'[p] = ctn[p] /\ iprange' \in Nat \ {0}
    BY <1>1 DEF LocalStep, TypeInv, TypeOK
  <2>3. a \in Address /\ RangeOf(a) = iprange'
    BY <2>2, AddressFacts DEF Pool, RangeOf
  <2>4. Has(p, a)' => \E c \in Containers : Owns(c, a)'
    <3>1. PICK c \in Containers : c = ctn[p] /\ c = ctn'[p]
      BY <1>1, <2>2
    <3>2. Has(p, a)' => Owns(c, a)'
      BY <2>1, <3>1 DEF Has, Owns, Holding
    <3>3. QED
      BY <3>2
  <2>5. CASE iprange' # iprange
    BY <1>3, <2>1, <2>5 DEF Keeps, Filling
  <2>6. CASE iprange' = iprange /\ a \in avail
    BY <1>1, <1>3, <2>4, <2>6 DEF Keeps
  <2>7. CASE Filling(a)
    <3>1. PICK q \in Procs : Live(q) /\ pc[q] = "nbFill" /\ a \in todo[q]
      BY <2>7 DEF Filling
    <3>2. CASE q = p
      BY <1>3, <2>1, <3>1, <3>2 DEF Keeps, Filling
    <3>3. CASE q # p
      BY <1>4, <3>1, <3>3 DEF Filling
    <3>4. QED
      BY <3>2, <3>3
  <2>8. CASE \E c \in Containers : Owns(c, a)
    <3>1. PICK c \in Containers : Owns(c, a)
      BY <2>8
    <3>2. CASE c = ctn[p]
      <4>1. \A q \in Procs : Live(q) /\ ctn[q] = c => q = p
        BY <1>1, <3>2 DEF ControlInv
      <4>2. Has(p, a)
        BY <3>1, <3>2, <4>1 DEF Owns, Has
      <4>3. QED
        BY <1>1, <1>3, <2>3, <2>4, <4>2 DEF Keeps
    <3>3. CASE c # ctn[p]
      <4>1. \A q \in Procs : Live(q) /\ ctn[q] = c =>
                Live(q)' /\ ctn'[q] = c /\ pc'[q] = pc[q] /\ ip'[q] = ip[q]
        BY <1>4, <3>3
      <4>2. Owns(c, a)'
        BY <1>5, <3>1, <3>3, <4>1 DEF Owns
      <4>3. QED
        BY <4>2
    <3>4. QED
      BY <3>2, <3>3
  <2>9. QED
    BY <2>5, <2>6, <2>7, <2>8 DEF QuietInv
<1>11. QED
  BY <1>6, <1>7, <1>8, <1>9, <1>10 DEF QuietInv

LEMMA StartQuietInv ==
    ASSUME TypeInv, QuietInv, NEW p \in Procs, NEW k \in Containers,
           StartAdd(p, k) \/ StartDel(p, k)
    PROVE  QuietInv'
<1>1. /\ pc[p] = "start" /\ ctn' = [ctn EXCEPT ![p] = k] /\ ~Busy(k)
      /\ \/ /\ pc' = [pc EXCEPT ![p] = "addResult"]
            /\ UNCHANGED <<removed, granted>>
         \/ /\ pc' = [pc EXCEPT ![p] = "delResult"]
            /\ removed' = removed \cup {k}
            /\ granted' = [granted EXCEPT ![k] = None]
      /\ UNCHANGED <<phase, result, podIp, binding, avail, iprange, portBridge, bound,
                     eth0, veth, ip, todo, attempt, gone>>
  BY DEF StartAdd, StartDel, At, Goto, lockState, etcdKeys, midonet, pods, locals
<1>2. /\ ctn'[p] = k /\ Live(p)' /\ ~Live(p)
      /\ \A q \in Procs \ {p} : /\ Live(q)' <=> Live(q)
                                /\ ctn'[q] = ctn[q] /\ pc'[q] = pc[q]
                                /\ Live(q) => ctn[q] \in Containers \ {k}
  BY <1>1 DEF Live, Busy, TypeInv, TypeOK, L!TypeOK, QuietInv
<1>3. /\ \A c \in Containers \ {k} : granted'[c] = granted[c] /\ (c \in removed' <=> c \in removed)
      /\ Settled(k)
  BY <1>1 DEF TypeInv, TypeOK, QuietInv
<1>4. ASSUME NEW q \in Procs, Live(q)' PROVE ProcQuiet(q)'
  <2>1. CASE q = p /\ pc'[p] = "addResult"
    BY <1>1, <1>2, <1>3, <2>1
    DEF ProcQuiet, Settled, Empty, Saved, Creating, Unbinding, Releasing, TypeInv, TypeOK
  <2>2. CASE q = p /\ pc'[p] = "delResult"
    BY <1>1, <1>2, <1>3, <2>2
    DEF ProcQuiet, Settled, Empty, Saved, Creating, Unbinding, Releasing, TypeInv, TypeOK
  <2>3. CASE q # p
    <3>1. ProcQuiet(q) /\ pc'[q] = pc[q] /\ ctn'[q] = ctn[q] /\ ctn[q] \in Containers \ {k}
      BY <1>2, <1>4, <2>3 DEF QuietInv
    <3>2. QED
      BY <1>1, <1>3, <3>1 DEF ProcQuiet, Settled, Empty, Connected
  <2>4. QED
    BY <1>1, <2>1, <2>2, <2>3 DEF TypeInv, TypeOK
<1>5. ASSUME NEW c \in Containers PROVE Busy(c)' \/ Settled(c)'
  <2>1. CASE c = k
    BY <1>2, <2>1 DEF Busy
  <2>2. CASE c # k
    <3>1. Busy(c) => Busy(c)'
      BY <1>2 DEF Busy
    <3>2. Settled(c) => Settled(c)'
      BY <1>1, <1>3, <2>2 DEF Settled, Empty
    <3>3. QED
      BY <3>1, <3>2 DEF QuietInv
  <2>3. QED
    BY <2>1, <2>2
<1>6. \A q \in Procs, t \in Ports : Making(q, t) => Making(q, t)'
  BY <1>1, <1>2 DEF Making, Port
<1>7. \A a : Filling(a) => Filling(a)'
  BY <1>1, <1>2 DEF Filling
<1>8. \A c \in Containers, a \in Address : Owns(c, a) => Owns(c, a)'
  BY <1>1, <1>2 DEF Owns
<1>9. Pool(iprange) \subseteq Address
  BY AddressFacts DEF TypeInv, TypeOK
<1>10. QED
  BY <1>1, <1>4, <1>5, <1>6, <1>7, <1>8, <1>9 DEF QuietInv

\* The invariant up to the first fault.
UntilFault == faults = 0 => ControlInv /\ ConnInv /\ QuietInv

\* No step takes a fault back, and one that meets a fault counts it.
LEMMA StepCounts ==
    ASSUME TypeInv, NEW p \in Procs, Step(p)
    PROVE  faults' \in {faults, faults + 1}
<1> USE DEF NoFault, Fault, L!Fault, Effective, Ineffective
<1>1. CASE AddCached(p) \/ AddFresh(p) \/ GetNewIP(p)
  BY <1>1 DEF AddCached, AddFresh, GetNewIP, ListPool, PoolEmpty, TakeAddress, TakeNext,
     TakeNone, SaveIp
<1>2. CASE Bingding(p)
  BY <1>2 DEF Bingding, GetBinding, MakePort, MakePortFails, BindInterface,
     BindInterfaceFails, SaveBinding, UndoBinding
<1>3. CASE DoNetworking(p) \/ DoNetworkingAgain(p) \/ DoNetworkingFails(p)
  BY <1>3 DEF DoNetworking, DoNetworkingAgain, DoNetworkingFails
<1>4. CASE SaveResult(p) \/ Return(p)
  BY <1>4 DEF SaveResult, Return
<1>5. CASE CreateNewBridge(p)
  BY <1>5 DEF CreateNewBridge, CheckPool, CreateBridge, SetRange, SetRangeUnsaved, FillPool, LinkRouter,
     SetUsage, CreateNewBridgeFails
<1>6. CASE CmdDelK8s(p)
  BY <1>6 DEF CmdDelK8s, DeleteResult, GetBindingToDelete, DeleteBinding, DeletePort,
     DeleteBindingKey, GetPodIp, CompareRange, PutBack, DeletePodIp
<1>7. CASE CallLock(p) \/ Lock(p) \/ Unlock(p)
  BY <1>7 DEF CallLock, L!CallLock, Lock, L!LockStep, L!SetCreates, L!SetExists,
     L!SetFails, L!GetFinds, L!GetMissing, L!ReadFails, L!WatchFires,
     Unlock, L!UnlockStep, L!DeleteRemoves, L!DeleteMissing, L!DeleteFails
<1>8. QED
  BY <1>1, <1>2, <1>3, <1>4, <1>5, <1>6, <1>7, Zenon DEF Step, CmdAddK8s

LEMMA FaultsStay ==
    ASSUME TypeInv, [Next]_vars, faults' = 0
    PROVE  faults = 0 /\ NoFaults
<1>1. faults \in Nat
  BY PodAssumption DEF PodAssumption, TypeInv, TypeOK, L!TypeOK
<1>2. \A k : ~L!Fault(k)
  BY <1>1 DEF L!Fault
<1>3. faults' \in {faults, faults + 1}
  <2>1. ASSUME NEW p \in Procs, Step(p) PROVE faults' \in {faults, faults + 1}
    BY <2>1, StepCounts
  <2>2. ASSUME NEW p \in Procs, NEW c \in Containers, StartAdd(p, c) \/ StartDel(p, c)
        PROVE  faults' = faults
    BY <2>2 DEF StartAdd, StartDel
  <2>3. ASSUME NEW p \in Procs, Crash(p) PROVE faults' = faults + 1
    BY <2>3 DEF Crash, L!Die, L!Fault
  <2>4. CASE Expire \/ UNCHANGED vars
    BY <2>4 DEF Expire, L!Expire, vars
  <2>5. QED
    BY <2>1, <2>2, <2>3, <2>4 DEF Next
<1>4. QED
  BY <1>1, <1>2, <1>3 DEF NoFaults, Fault

LEMMA QuietControls ==
    ASSUME ControlInv,
           UNCHANGED <<phase, exclusionLost, etcdKeys, midonet, pods, pc, locals>>
    PROVE  ControlInv'
<1>1. UNCHANGED <<phase, exclusionLost, result, binding, podIp, granted, pc, ctn, ip>>
  BY DEF etcdKeys, pods, locals
<1>2. QED
  BY <1>1 DEF ControlInv, ProcInv, Live, Overlap

LEMMA QuietStaysQuiet ==
    ASSUME QuietInv,
           UNCHANGED <<phase, exclusionLost, etcdKeys, midonet, pods, pc, locals>>
    PROVE  QuietInv'
<1>1. UNCHANGED <<phase, result, binding, podIp, avail, iprange, portBridge, bound, eth0, veth,
                  granted, removed, pc, ctn, ip, todo, attempt, gone>>
  BY DEF etcdKeys, midonet, pods, locals
<1>2. /\ \A p \in Procs : (Live(p) => ProcQuiet(p)) => (Live(p)' => ProcQuiet(p)')
      /\ \A c \in Containers : Busy(c) \/ Settled(c) => Busy(c)' \/ Settled(c)'
  BY <1>1 DEF ProcQuiet, Settled, Empty, Connected, Live, Busy
<1>3. \A t : \A p \in Procs : Making(p, t) => Making(p, t)'
  BY <1>1 DEF Making, Live, Port
<1>4. \A a : (Filling(a) => Filling(a)') /\ \A c \in Containers : Owns(c, a) => Owns(c, a)'
  BY <1>1 DEF Filling, Owns, Live
<1>5. QED
  BY <1>1, <1>2, <1>3, <1>4 DEF QuietInv

LEMMA NextUntilFault == TypeInv /\ UntilFault /\ [Next]_vars => UntilFault'
<1> SUFFICES ASSUME TypeInv, UntilFault, [Next]_vars, faults' = 0
             PROVE  ControlInv' /\ ConnInv' /\ QuietInv'
  BY DEF UntilFault
<1>1. ControlInv /\ ConnInv /\ QuietInv /\ NoFaults /\ TypeInv'
  BY FaultsStay, NextTypeInv DEF UntilFault
<1>2. ASSUME NEW p \in Procs, Step(p) PROVE ControlInv' /\ ConnInv' /\ QuietInv'
  BY <1>1, <1>2, StepIsLocal, StepControls, ControlStepInv, StepConnInv, StepQuietInv
  DEF NoFaults
<1>3. ASSUME NEW p \in Procs, NEW c \in Containers, StartAdd(p, c) \/ StartDel(p, c)
      PROVE  ControlInv' /\ ConnInv' /\ QuietInv'
  BY <1>1, <1>3, StartControls, StartConnInv, StartQuietInv
<1>4. ASSUME NEW p \in Procs PROVE ~Crash(p)
  BY <1>1 DEF Crash, L!Die, NoFaults
<1>5. CASE Expire
  BY <1>1, <1>5, QuietControls, QuietConnInv, QuietStaysQuiet DEF Expire, L!Expire
<1>6. CASE UNCHANGED vars
  BY <1>1, <1>6, QuietControls, QuietConnInv, QuietStaysQuiet DEF vars, lockState
<1>7. QED
  BY <1>2, <1>3, <1>4, <1>5, <1>6 DEF Next

LEMMA InitUntilFault == Init => UntilFault
<1> SUFFICES ASSUME Init PROVE ControlInv /\ ConnInv /\ QuietInv
  BY DEF UntilFault
<1>1. ControlInv /\ ConnInv
  BY InitPodInv, InitConnInv DEF PodInv
<1>2. \A p \in Procs : ~Live(p) /\ phase[p] = "idle"
  BY DEF Init, L!Init, Live
<1>3. \A c \in Containers : Settled(c)
  BY DEF Init, Settled, Empty
<1>4. avail = Pool(iprange) /\ \A t \in Ports : portBridge[t] = None
  BY DEF Init
<1>5. QED
  BY <1>1, <1>2, <1>3, <1>4 DEF QuietInv

\* At rest every container is settled.
LEMMA RestIsSettled ==
    ASSUME UntilFault, AtRest
    PROVE  /\ ConnInv /\ QuietInv
           /\ \A p \in Procs : ~Live(p)
           /\ \A c \in Containers : Settled(c)
BY DEF UntilFault, AtRest, QuietInv, Busy

LEMMA RestKeepsAddresses == TypeInv /\ UntilFault => NoLostAddress
<1> SUFFICES ASSUME TypeInv, UntilFault, AtRest, NEW a \in Pool(iprange), a \notin avail
             PROVE  \E c \in Containers : granted[c] = a
  BY DEF NoLostAddress
<1>1. PICK c \in Containers : Owns(c, a)
  BY RestIsSettled DEF QuietInv, Filling
<1>2. result[c] = a \/ (binding[c] # None /\ podIp[c] = a)
  BY <1>1, RestIsSettled DEF Owns
<1>3. a # None
  BY AddressFacts DEF TypeInv, TypeOK
<1>4. result[c] # None /\ granted[c] = result[c]
  BY <1>2, <1>3, RestIsSettled DEF Settled, Empty
<1>5. podIp[c] = result[c]
  BY <1>4, RestIsSettled DEF ConnInv, ResultTrue
<1>6. QED
  BY <1>2, <1>4, <1>5

LEMMA RestLeavesNothing == TypeInv /\ UntilFault => NoOrphanPort /\ DelLeavesNothing
<1> SUFFICES ASSUME TypeInv, UntilFault, AtRest
             PROVE  /\ \A t \in Ports : portBridge[t] # None =>
                          \E c \in Containers \ removed : binding[c] = t
                    /\ \A c \in Containers : c \in removed => Empty(c)
  BY DEF NoOrphanPort, DelLeavesNothing, Empty, TypeInv, TypeOK
<1>1. ASSUME NEW t \in Ports, portBridge[t] # None
      PROVE  \E c \in Containers \ removed : binding[c] = t
  <2>1. PICK c \in Containers : binding[c] = t
    BY <1>1, RestIsSettled DEF QuietInv, Making
  <2>2. t # None
    BY PodAssumption DEF PodAssumption, Ports
  <2>3. QED
    BY <2>1, <2>2, RestIsSettled DEF Settled, Empty
<1>2. QED
  BY <1>1, RestIsSettled DEF Settled

\* Without faults, however ADDs, DELs and new ranges interleave, and even when the
\* lock has let two processes in: when all of them have ended, each address of
\* the range in use is in the pool or with a pod.
THEOREM AddressesKept == Spec => []NoLostAddress
BY InitTypeInv, NextTypeInv, InitUntilFault, NextUntilFault, RestKeepsAddresses, PTL DEF Spec

\* ... each port in MidoNet is the saved port of a container that the runtime has
\* not begun to delete,
THEOREM PortsAccountedFor == Spec => []NoOrphanPort
BY InitTypeInv, NextTypeInv, InitUntilFault, NextUntilFault, RestLeavesNothing, PTL DEF Spec

\* ... and a deleted container has no key in etcd and no binding in MidoNet.
THEOREM DeletedIsGone == Spec => []DelLeavesNothing
BY InitTypeInv, NextTypeInv, InitUntilFault, NextUntilFault, RestLeavesNothing, PTL DEF Spec

-----------------------------------------------------------------------------
\* With faults of MidoNet and of the veth set-up, however many; or with one fault
\* that may be the death of a process.  (A DEL that cleans up after a failed ADD
\* and dies itself leaves a binding to a port that is gone: two faults.)

OneDeath == NoEtcdErrors /\ ("crash" \in FaultKinds => MaxFaults <= 1)

BackedInv == PodInv /\ UntilFault /\ ConnInv

LEMMA NextBackedInv == OneDeath /\ BackedInv /\ [Next]_vars => BackedInv'
<1> SUFFICES ASSUME OneDeath, BackedInv, [Next]_vars PROVE BackedInv'
  OBVIOUS
<1>1. PodInv' /\ UntilFault'
  BY NextPodInv, NextUntilFault DEF OneDeath, BackedInv, PodInv
<1>2. TypeInv /\ ControlInv /\ ConnInv /\ ~Fault("etcd")
  BY DEF BackedInv, PodInv, OneDeath, NoEtcdErrors, Fault, L!Fault
<1>3. ASSUME NEW p \in Procs, Step(p) PROVE ConnInv'
  BY <1>2, <1>3, StepConnInv
<1>4. ASSUME NEW p \in Procs, NEW c \in Containers, StartAdd(p, c) \/ StartDel(p, c)
      PROVE  ConnInv'
  BY <1>2, <1>4, StartConnInv
<1>5. ASSUME NEW p \in Procs, Crash(p) PROVE ConnInv'
  <2>1. faults = 0
    BY <1>2, <1>5, PodAssumption
    DEF Crash, L!Die, L!Fault, OneDeath, PodAssumption, TypeInv, TypeOK, L!TypeOK
  <2>2. ProcQuiet(p)
    BY <1>5, <2>1 DEF Crash, BackedInv, UntilFault, QuietInv
  <2>3. pc[p] \in Disconnecting => ctn[p] \in removed
    BY <2>2 DEF ProcQuiet, Disconnecting, Unbinding
  <2>4. QED
    BY <1>2, <1>5, <2>3, CrashConnInv
<1>6. ASSUME Expire PROVE ConnInv'
  BY <1>2, <1>6, QuietConnInv DEF Expire, L!Expire
<1>7. ASSUME UNCHANGED vars PROVE ConnInv'
  BY <1>2, <1>7, QuietConnInv DEF vars, lockState
<1>8. QED
  BY <1>1, <1>3, <1>4, <1>5, <1>6, <1>7 DEF Next, BackedInv

LEMMA InitBackedInv == Init => BackedInv
BY InitPodInv, InitUntilFault, InitConnInv DEF BackedInv

\* A saved result belongs to no running DEL, since that deletes it first; so its
\* binding is true.
LEMMA ResultIsBacked == BackedInv => CachedResultBacked
<1> SUFFICES ASSUME BackedInv, NEW c \in Containers, result[c] # None
             PROVE  /\ eth0[c] = result[c] /\ veth[c] = "outside"
                    /\ podIp[c] = result[c]
                    /\ binding[c] # None
                    /\ bound[c] = binding[c]
                    /\ portBridge[binding[c]] # None
  BY DEF CachedResultBacked
<1>1. ResultTrue(c) /\ BindingTrue(c)
  BY DEF BackedInv, ConnInv
<1>2. \A p \in Procs : Live(p) /\ ctn[p] = c => pc[p] \notin Disconnecting
  BY DEF BackedInv, PodInv, ControlInv, ProcInv, Disconnecting
<1>3. QED
  BY <1>1, <1>2 DEF ResultTrue, BindingTrue, Connected

\* What ADD has returned is the saved result.
LEMMA GrantedIsBacked == BackedInv => RunningPodConnected
<1>1. SUFFICES ASSUME BackedInv, NEW c \in Containers, granted[c] # None
               PROVE  /\ eth0[c] = granted[c] /\ veth[c] = "outside"
                      /\ binding[c] # None /\ bound[c] = binding[c]
  BY DEF RunningPodConnected
<1>2. result[c] = granted[c]
  BY <1>1 DEF BackedInv, PodInv, ControlInv
<1>3. QED
  BY <1>1, <1>2, ResultIsBacked DEF CachedResultBacked

\* The result that a repeated ADD returns without looking any further is true: the
\* address is that of eth0, the host end of the veth pair is in its place and
\* bound to the saved port, and that port exists.
THEOREM CachedResultTrue ==
    ASSUME OneDeath
    PROVE  Spec => []CachedResultBacked
<1>1. BackedInv /\ [Next]_vars => BackedInv'
  BY NextBackedInv
<1>2. QED
  BY <1>1, InitBackedInv, ResultIsBacked, PTL DEF Spec

\* A pod stays connected from the return of its ADD to the begin of its DEL,
\* whatever other requests do and repeated ADDs of the pod included.
THEOREM RunningPodsConnected ==
    ASSUME OneDeath
    PROVE  Spec => []RunningPodConnected
<1>1. BackedInv /\ [Next]_vars => BackedInv'
  BY NextBackedInv
<1>2. QED
  BY <1>1, InitBackedInv, GrantedIsBacked, PTL DEF Spec

-----------------------------------------------------------------------------
\* A repeated ADD.

\* There is one request at a time for a container, and Lock and Unlock are
\* called by one that runs.
RequestInv ==
    /\ \A p, q \in Procs : Live(p) /\ Live(q) /\ ctn[p] = ctn[q] => p = q
    /\ \A p \in Procs : phase[p] \in {"idle", "dead"} \/ pc[p] \notin {"start", "done"}

\* A container without a veth pair has no answer yet, and never two.
AnswerOf(c) ==
    /\ veth[c] = "none" => granted[c] = None /\ result[c] = None
    /\ granted[c] # None /\ result[c] # None => granted[c] = result[c]

\* So has one for which p is about to give an answer.
AnswerBy(p) == LET c == ctn[p] IN
    Live(p) /\ pc[p] \in {"saveRes", "return"} =>
        /\ veth[c] # "none"
        /\ pc[p] = "saveRes" => granted[c] = None /\ result[c] = None
        /\ granted[c] \in {None, ip[p]} /\ result[c] \in {None, ip[p]}

AnswerInv ==
    /\ RequestInv
    /\ \A c \in Containers : AnswerOf(c)
    /\ \A p \in Procs : AnswerBy(p)

\* A step is one of a request, whose container it is about.
RequestStep(p) ==
    /\ Live(p)
    /\ ctn' = ctn
    /\ phase'[p] \in {"idle", "dead"} \/ pc'[p] \notin {"start", "done"}
    /\ \A q \in Procs \ {p} : ip'[q] = ip[q]

LEMMA StepOfRequest ==
    ASSUME TypeInv, RequestInv, NEW p \in Procs, Step(p)
    PROVE  RequestStep(p)
<1>t. /\ pc \in [Procs -> Labels] /\ ip \in [Procs -> OptAddress]
      /\ phase \in [Procs -> L!Phases]
  BY DEF TypeInv, TypeOK, L!TypeOK
<1> USE <1>t DEF RequestStep, Live, At, Inside, Goto, Leave, L!EnterUnlock, L!Move,
                 BindFailed, lockState, locals
<1>1. CASE AddCached(p) \/ AddFresh(p)
  BY <1>1 DEF AddCached, AddFresh
<1>2. CASE GetNewIP(p)
  BY <1>2 DEF GetNewIP, ListPool, PoolEmpty, TakeAddress, TakeNext, TakeNone, SaveIp
<1>3. CASE GetBinding(p) \/ MakePort(p) \/ MakePortFails(p) \/ BindInterface(p)
  BY <1>3 DEF GetBinding, MakePort, MakePortFails, BindInterface
<1>4. CASE BindInterfaceFails(p) \/ SaveBinding(p) \/ UndoBinding(p)
  BY <1>4 DEF BindInterfaceFails, SaveBinding, UndoBinding
<1>5. CASE DoNetworking(p) \/ DoNetworkingAgain(p) \/ DoNetworkingFails(p)
           \/ SaveResult(p) \/ Return(p)
  BY <1>5 DEF DoNetworking, DoNetworkingAgain, DoNetworkingFails, SaveResult, Return
<1>6. CASE CheckPool(p) \/ CreateBridge(p) \/ SetRange(p) \/ SetRangeUnsaved(p) \/ LinkRouter(p)
  BY <1>6 DEF CheckPool, CreateBridge, SetRange, SetRangeUnsaved, LinkRouter
<1>7. CASE FillPool(p) \/ SetUsage(p) \/ CreateNewBridgeFails(p)
  BY <1>7 DEF FillPool, SetUsage, CreateNewBridgeFails
<1>8. CASE CmdDelK8s(p)
  BY <1>8 DEF CmdDelK8s, DeleteResult, GetBindingToDelete, DeleteBinding, DeletePort,
              DeleteBindingKey, GetPodIp, CompareRange, PutBack, DeletePodIp
<1>9. CASE CallLock(p)
  BY <1>9 DEF CallLock, L!CallLock
<1>10. CASE Lock(p)
  <2>1. phase[p] \in {"set", "get", "watch"}
    BY <1>10 DEF Lock, L!LockStep, L!SetCreates, L!SetExists, L!SetFails, L!GetFinds,
       L!GetMissing, L!ReadFails, L!WatchFires
  <2>2. QED
    BY <1>10, <2>1 DEF Lock, RequestInv
<1>11. CASE Unlock(p)
  <2>1. phase[p] = "delete"
    BY <1>11 DEF Unlock, L!UnlockStep, L!DeleteRemoves, L!DeleteMissing, L!DeleteFails
  <2>2. QED
    BY <1>11, <2>1 DEF Unlock, RequestInv
<1>12. QED
  BY <1>1, <1>2, <1>3, <1>4, <1>5, <1>6, <1>7, <1>8, <1>9, <1>10, <1>11
  DEF Step, CmdAddK8s, Bingding, CreateNewBridge

\* What a step of p does to the answer for its container, and to no other.
AnswerStep(p) == LET c == ctn[p] IN
    /\ AnswerOf(c)' /\ AnswerBy(p)'
    /\ granted[c] # None /\ granted'[c] # None => granted'[c] = granted[c]
    /\ \A d \in Containers \ {c} :
          granted'[d] = granted[d] /\ result'[d] = result[d] /\ veth'[d] = veth[d]

LEMMA StepAnswers ==
    ASSUME TypeInv, AnswerInv, NEW p \in Procs, Step(p)
    PROVE  AnswerStep(p)
<1>c. Live(p) /\ ctn' = ctn /\ ctn[p] \in Containers
  BY StepOfRequest DEF AnswerInv, RequestStep, TypeInv, Live
<1>t. /\ pc \in [Procs -> Labels] /\ ip \in [Procs -> OptAddress]
      /\ granted \in [Containers -> OptAddress] /\ result \in [Containers -> OptAddress]
      /\ veth \in [Containers -> {"none", "inside", "outside", "renamed"}]
  BY DEF TypeInv, TypeOK
<1>a. AnswerOf(ctn[p]) /\ AnswerBy(p)
  BY <1>c DEF AnswerInv
\* It leaves the answers alone and is not about to give one.
<1>q. ASSUME UNCHANGED <<granted, result, veth>>, pc'[p] \notin {"saveRes", "return"}
      PROVE  AnswerStep(p)
  BY <1>q, <1>a, <1>c DEF AnswerStep, AnswerOf, AnswerBy
<1> USE <1>t, <1>c DEF At, Inside, Goto, Leave, BindFailed, etcdKeys, pods, locals
<1>1. CASE AddCached(p)
  BY <1>1, <1>a DEF AddCached, AnswerStep, AnswerOf, AnswerBy
<1>2. CASE DoNetworking(p)
  BY <1>2, <1>a DEF DoNetworking, Networked, AnswerStep, AnswerOf, AnswerBy
<1>3. CASE DoNetworkingAgain(p)
  BY <1>3, <1>a DEF DoNetworkingAgain, AnswerStep, AnswerOf, AnswerBy
<1>4. CASE DoNetworkingFails(p)
  BY <1>4, <1>a, HalfNetworkedFacts DEF DoNetworkingFails, AnswerStep, AnswerOf, AnswerBy
<1>5. CASE SaveResult(p)
  <2>1. /\ pc[p] = "saveRes" /\ pc'[p] = "return" /\ UNCHANGED <<granted, veth, ip>>
        /\ result' = result \/ result' = [result EXCEPT ![ctn[p]] = ip[p]]
    BY <1>5 DEF SaveResult
  <2>2. QED
    BY <2>1, <1>a DEF AnswerStep, AnswerOf, AnswerBy
<1>6. CASE Return(p)
  BY <1>6, <1>a DEF Return, AnswerStep, AnswerOf, AnswerBy
<1>7. CASE DeleteResult(p)
  <2>1. /\ pc'[p] = "delBindGet" /\ UNCHANGED <<granted, veth>>
        /\ result' = result \/ result' = [result EXCEPT ![ctn[p]] = None]
    BY <1>7 DEF DeleteResult
  <2>2. QED
    BY <2>1, <1>a DEF AnswerStep, AnswerOf, AnswerBy
<1>8. CASE AddFresh(p) \/ GetNewIP(p)
  BY <1>8, <1>q
  DEF AddFresh, GetNewIP, ListPool, PoolEmpty, TakeAddress, TakeNext, TakeNone, SaveIp
<1>9. CASE Bingding(p)
  BY <1>9, <1>q DEF Bingding, GetBinding, MakePort, MakePortFails, BindInterface,
                    BindInterfaceFails, SaveBinding, UndoBinding
<1>10. CASE CreateNewBridge(p)
  BY <1>10, <1>q DEF CreateNewBridge, CheckPool, CreateBridge, SetRange, SetRangeUnsaved, FillPool,
                     LinkRouter, SetUsage, CreateNewBridgeFails
<1>11. CASE CmdDelK8s(p) /\ ~DeleteResult(p)
  BY <1>11, <1>q DEF CmdDelK8s, GetBindingToDelete, DeleteBinding, DeletePort,
                     DeleteBindingKey, GetPodIp, CompareRange, PutBack, DeletePodIp
<1>12. CASE CallLock(p) \/ Lock(p) \/ Unlock(p)
  <2>1. UNCHANGED <<granted, result, veth, ip>> /\ pc'[p] = pc[p]
    BY <1>12 DEF CallLock, Lock, Unlock
  <2>2. QED
    BY <2>1, <1>a DEF AnswerStep, AnswerOf, AnswerBy
<1>13. QED
  BY <1>1, <1>2, <1>3, <1>4, <1>5, <1>6, <1>7, <1>8, <1>9, <1>10, <1>11, <1>12
  DEF Step, CmdAddK8s

LEMMA StepAnswerInv ==
    ASSUME TypeInv, AnswerInv, NEW p \in Procs, Step(p)
    PROVE  AnswerInv'
<1>1. /\ Live(p) /\ ctn' = ctn /\ ctn[p] \in Containers
      /\ phase'[p] \in {"idle", "dead"} \/ pc'[p] \notin {"start", "done"}
      /\ \A q \in Procs \ {p} : ip'[q] = ip[q]
  BY StepOfRequest DEF AnswerInv, RequestStep, TypeInv, Live
<1>2. \A q \in Procs \ {p} : pc'[q] = pc[q] /\ phase'[q] = phase[q] /\ (Live(q)' <=> Live(q))
  BY StepLeavesOthers DEF SameRun, Live
<1>3. /\ AnswerOf(ctn[p])' /\ AnswerBy(p)'
      /\ \A d \in Containers \ {ctn[p]} :
            granted'[d] = granted[d] /\ result'[d] = result[d] /\ veth'[d] = veth[d]
  BY <1>1, StepAnswers DEF AnswerStep
<1>4. RequestInv'
  BY <1>1, <1>2 DEF AnswerInv, RequestInv
<1>5. ASSUME NEW c \in Containers PROVE AnswerOf(c)'
  <2>1. CASE c = ctn[p]
    BY <1>1, <1>3, <2>1 DEF AnswerOf
  <2>2. CASE c # ctn[p]
    BY <1>3, <2>2 DEF AnswerInv, AnswerOf
  <2>3. QED
    BY <2>1, <2>2
<1>6. ASSUME NEW q \in Procs PROVE AnswerBy(q)'
  <2>1. CASE q = p
    BY <1>3, <2>1
  <2>2. CASE q # p /\ Live(q)
    <3>1. ctn[q] \in Containers \ {ctn[p]}
      BY <1>1, <2>2 DEF AnswerInv, RequestInv, TypeInv, Live
    <3>2. QED
      BY <1>1, <1>2, <1>3, <2>2, <3>1 DEF AnswerInv, AnswerBy
  <2>3. CASE q # p /\ ~Live(q)
    BY <1>2, <2>3 DEF AnswerBy
  <2>4. QED
    BY <2>1, <2>2, <2>3
<1>7. QED
  BY <1>4, <1>5, <1>6 DEF AnswerInv

LEMMA StartAnswers ==
    ASSUME TypeInv, AnswerInv, NEW p \in Procs, NEW k \in Containers,
           StartAdd(p, k) \/ StartDel(p, k)
    PROVE  AnswerInv' /\ granted' \in {granted, [granted EXCEPT ![k] = None]}
<1>t. /\ pc \in [Procs -> Labels] /\ granted \in [Containers -> OptAddress]
      /\ ctn \in [Procs -> Containers \cup {None}]
  BY DEF TypeInv, TypeOK
<1>1. /\ pc[p] = "start" /\ phase[p] = "idle" /\ ~Busy(k)
      /\ ctn' = [ctn EXCEPT ![p] = k]
      /\ pc' \in {[pc EXCEPT ![p] = "addResult"], [pc EXCEPT ![p] = "delResult"]}
      /\ UNCHANGED <<phase, result, veth, ip>>
      /\ granted' \in {granted, [granted EXCEPT ![k] = None]}
  BY DEF StartAdd, StartDel, At, Goto, lockState, etcdKeys, pods, locals
<1>2. /\ ctn'[p] = k /\ pc'[p] \in {"addResult", "delResult"}
      /\ \A q \in Procs \ {p} : (Live(q)' <=> Live(q)) /\ ctn'[q] = ctn[q] /\ pc'[q] = pc[q]
  BY <1>1, <1>t DEF Live
<1>3. \A q \in Procs \ {p} : Live(q) => ctn[q] # k
  BY <1>1 DEF Busy
<1>4. RequestInv'
  BY <1>1, <1>2, <1>3 DEF AnswerInv, RequestInv
<1>5. ASSUME NEW c \in Containers PROVE AnswerOf(c)'
  BY <1>1, <1>t DEF AnswerInv, AnswerOf
<1>6. ASSUME NEW q \in Procs PROVE AnswerBy(q)'
  <2>1. CASE q = p
    BY <1>2, <2>1 DEF AnswerBy
  <2>2. CASE q # p /\ Live(q)
    <3>1. ctn[q] \in Containers \ {k}
      BY <1>3, <2>2 DEF TypeInv, Live
    <3>2. granted'[ctn[q]] = granted[ctn[q]]
      BY <1>1, <1>t, <3>1
    <3>3. QED
      BY <1>1, <1>2, <2>2, <3>1, <3>2 DEF AnswerInv, AnswerBy
  <2>3. CASE q # p /\ ~Live(q)
    BY <1>2, <2>3 DEF AnswerBy
  <2>4. QED
    BY <2>1, <2>2, <2>3
<1>7. QED
  BY <1>1, <1>4, <1>5, <1>6 DEF AnswerInv

LEMMA NextAnswers ==
    TypeInv /\ AnswerInv /\ [Next]_vars =>
        /\ AnswerInv'
        /\ \A c \in Containers : granted[c] # None /\ granted'[c] # None =>
              granted'[c] = granted[c]
<1> SUFFICES ASSUME TypeInv, AnswerInv, [Next]_vars
             PROVE  /\ AnswerInv'
                    /\ \A c \in Containers : granted[c] # None /\ granted'[c] # None =>
                          granted'[c] = granted[c]
  OBVIOUS
<1>t. granted \in [Containers -> OptAddress] /\ phase \in [Procs -> L!Phases]
  BY DEF TypeInv, TypeOK, L!TypeOK
<1>1. ASSUME NEW p \in Procs, Step(p)
      PROVE  /\ AnswerInv'
             /\ \A c \in Containers : granted[c] # None /\ granted'[c] # None =>
                   granted'[c] = granted[c]
  BY <1>1, StepAnswers, StepAnswerInv DEF AnswerStep
<1>2. ASSUME NEW p \in Procs, NEW k \in Containers, StartAdd(p, k) \/ StartDel(p, k)
      PROVE  /\ AnswerInv'
             /\ \A c \in Containers : granted[c] # None /\ granted'[c] # None =>
                   granted'[c] = granted[c]
  <2>1. AnswerInv' /\ granted' \in {granted, [granted EXCEPT ![k] = None]}
    BY <1>2, StartAnswers
  <2>2. QED
    BY <1>t, <2>1
<1>3. CASE UNCHANGED vars \/ Expire \/ \E p \in Procs : Crash(p)
  <2>1. /\ UNCHANGED <<granted, result, ip, pc, ctn>>
        /\ \A p \in Procs : phase'[p] = phase[p] \/ phase'[p] = "dead"
        /\ \A c \in Containers : veth'[c] = "none" => veth[c] = "none"
    BY <1>t, <1>3, HalfNetworkedFacts
    DEF Expire, L!Expire, Crash, L!Die, L!Move, vars, lockState, etcdKeys, pods, locals
  <2>2. \A p \in Procs : Live(p)' => Live(p)
    BY <2>1 DEF Live
  <2>3. RequestInv' /\ \A c \in Containers : AnswerOf(c)'
    BY <2>1, <2>2 DEF AnswerInv, RequestInv, AnswerOf
  <2>4. ASSUME NEW p \in Procs PROVE AnswerBy(p)'
    <3>1. Live(p) => ctn[p] \in Containers
      BY DEF Live, TypeInv
    <3>2. QED
      BY <2>1, <2>2, <3>1 DEF AnswerInv, AnswerBy
  <2>5. QED
    BY <2>1, <2>3, <2>4 DEF AnswerInv
<1>4. QED
  BY <1>1, <1>2, <1>3 DEF Next

\* An ADD that is repeated for a running pod gives the same answer or none,
\* whatever fails or dies.
THEOREM AnswersAgree == Spec => SameAnswer
<1>1. Init => AnswerInv
  BY DEF Init, L!Init, AnswerInv, RequestInv, AnswerOf, AnswerBy, Live
<1>2. TypeInv /\ AnswerInv /\ [Next]_vars =>
         [\A c \in Containers : granted[c] # None /\ granted'[c] # None =>
             granted'[c] = granted[c]]_vars
  BY NextAnswers
<1>3. TypeInv /\ AnswerInv /\ [Next]_vars => AnswerInv'
  BY NextAnswers
<1>4. QED
  BY <1>1, <1>2, <1>3, InitTypeInv, NextTypeInv, PTL DEF Spec, SameAnswer

=============================================================================
