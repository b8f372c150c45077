----------------------------- MODULE PodNetwork -----------------------------
(***************************************************************************)
(* The pod network of one initialised tenant: what concurrent one-shot     *)
(* runs of the plugin, each an ADD or a DEL of one container, do to the    *)
(* keys in etcd, to the ports in MidoNet and to the containers.            *)
(*                                                                         *)
(*   ADD  CmdAddK8s -> GetNewIP [-> CreateNewBridge -> GetNewIP]           *)
(*        -> Bingding (at most twice) -> DoNetworking -> save the result;  *)
(*        after an error cmdAdd runs the DEL of the same container         *)
(*   DEL  CmdDelK8s -> ReleaseIP                                           *)
(*                                                                         *)
(* An action is one request to etcd or to MidoNet with the code up to the  *)
(* next one.  CreateNewBridge and ReleaseIP take the lock                  *)
(* tenant/<t>/bridge/create: EtcdMutex.  The requests of one container do  *)
(* not overlap, and once the runtime has begun to delete a container it    *)
(* does not add it again.                                                  *)
(***************************************************************************)
EXTENDS Naturals, FiniteSets

CONSTANTS
    Procs, Nobody, DefaultTry, MaxCalls, FaultKinds, MaxFaults, TTLCoversHolder,
    Containers,
    FirstBridge,      \* the bridge InitTenant has created
    None,             \* a missing key, port, binding or address
    Slots,            \* addresses CreateIPsForTenantBridge makes of one range
    DeleteMissingOk   \* TRUE: MidoNet answers 2xx to the DELETE of no port

ASSUME PodAssumption ==
    /\ Nobody \notin Procs
    /\ DefaultTry \in Nat \ {0}
    /\ MaxCalls \in Nat
    /\ MaxFaults \in Nat
    /\ Slots \in Nat \ {0}
    /\ FirstBridge \notin Procs
    /\ DeleteMissingOk \in BOOLEAN
    /\ None \notin Containers
    /\ None \notin Procs \cup {FirstBridge}
    /\ None \notin Procs \X {1, 2}
    /\ None \notin Nat \X Nat

VARIABLES
    node, phase, try, calls, woken, faults,   \* EtcdMutex
    exclusionLost,    \* history: two callers of the lock have been inside at once
    \* Keys in etcd.
    result,           \* result/<c>: the address of the saved CNI result
    binding,          \* bingding/<t>/<c>: the port in the saved binding
    podIp,            \* ip/pod/<t>/<c>: the address, in CIDR notation
    avail,            \* ip/pod/<t>/available/*: the pool
    iprange,          \* ip/pod/<t>/available/iprange: number of the range in use
    usage,            \* tenant/<t>/bridge/usage: the bridge new ports go to
    \* MidoNet and the host.
    linked,           \* the range a bridge is linked to the router for, or 0
    portBridge,       \* the bridge of each pod port, or None
    bound,            \* the port a container's host interface is bound to
    eth0,             \* the address of a container's interface eth0
    veth,             \* where the host end of a container's veth pair is
    granted,          \* the address in the result last returned to the runtime
    removed,          \* containers the runtime has begun to delete
    \* A plugin process.
    pc, ctn, ip, todo, rng, attempt, refilled, gone

lockState == <<node, phase, try, calls, woken>>
etcdKeys == <<result, binding, podIp, avail, iprange, usage>>
midonet == <<linked, portBridge, bound>>
pods == <<eth0, veth, granted, removed>>
locals == <<ctn, ip, todo, rng, attempt, refilled, gone>>

vars == <<lockState, faults, exclusionLost, etcdKeys, midonet, pods, pc, locals>>

L == INSTANCE EtcdMutex

\* An address is the number of its range and its place in the range.
Address == (Nat \ {0}) \X (1 .. Slots)
Pool(r) == {r} \X (1 .. Slots)
RangeOf(a) == a[1]

Bridges == Procs \cup {FirstBridge}
Ports == Procs \X {1, 2}       \* one process makes at most two

Labels ==
    {"start", "addResult", "list", "take", "saveIp", "bindGet", "makePort",
     "bindIf", "saveBind", "undoBind", "net", "saveRes", "return",
     "create", "nbRange", "nbSetRange", "nbFill", "nbLink", "nbUsage",
     "delResult", "delBindGet", "unbind", "rmPort", "delBindKey",
     "relGet", "relRange", "release", "delIpKey", "done"}

OptAddress == Address \cup {None}

TypeOK ==
    /\ L!TypeOK
    /\ exclusionLost \in BOOLEAN
    /\ result \in [Containers -> OptAddress]
    /\ binding \in [Containers -> Ports \cup {None}]
    /\ podIp \in [Containers -> OptAddress]
    /\ avail \subseteq Address
    /\ iprange \in Nat \ {0}
    /\ usage \in Bridges
    /\ linked \in [Bridges -> Nat]
    /\ portBridge \in [Ports -> Bridges \cup {None}]
    /\ bound \in [Containers -> Ports \cup {None}]
    /\ eth0 \in [Containers -> OptAddress]
    /\ veth \in [Containers -> {"none", "inside", "outside", "renamed"}]
    /\ granted \in [Containers -> OptAddress]
    /\ removed \subseteq Containers
    /\ pc \in [Procs -> Labels]
    /\ ctn \in [Procs -> Containers \cup {None}]
    /\ ip \in [Procs -> OptAddress]
    /\ todo \in [Procs -> SUBSET Address]
    /\ rng \in [Procs -> Nat]
    /\ attempt \in [Procs -> {1, 2}]
    /\ refilled \in [Procs -> BOOLEAN]
    /\ gone \in [Procs -> BOOLEAN]

\* The tenant as InitTenant leaves it; no container yet.
Init ==
    /\ L!Init
    /\ exclusionLost = FALSE
    /\ result = [c \in Containers |-> None]
    /\ binding = [c \in Containers |-> None]
    /\ podIp = [c \in Containers |-> None]
    /\ avail = Pool(1)
    /\ iprange = 1
    /\ usage = FirstBridge
    /\ linked = [b \in Bridges |-> IF b = FirstBridge THEN 1 ELSE 0]
    /\ portBridge = [t \in Ports |-> None]
    /\ bound = [c \in Containers |-> None]
    /\ eth0 = [c \in Containers |-> None]
    /\ veth = [c \in Containers |-> "none"]
    /\ granted = [c \in Containers |-> None]
    /\ removed = {}
    /\ pc = [p \in Procs |-> "start"]
    /\ ctn = [p \in Procs |-> None]
    /\ ip = [p \in Procs |-> None]
    /\ todo = [p \in Procs |-> {}]
    /\ rng = [p \in Procs |-> 0]
    /\ attempt = [p \in Procs |-> 1]
    /\ refilled = [p \in Procs |-> FALSE]
    /\ gone = [p \in Procs |-> FALSE]

-----------------------------------------------------------------------------
At(p, label) == pc[p] = label /\ phase[p] = "idle"
Inside(p, label) == pc[p] = label /\ phase[p] = "held"
Goto(p, label) == pc' = [pc EXCEPT ![p] = label]

NoFault == UNCHANGED faults
Fault(k) == L!Fault(k)

\* A request that changes state and whose error the caller ignores: it fails
\* without effect, or it has its effect whatever the answer.
Effective == NoFault
Ineffective == Fault("etcd")

\* The deferred Unlock; the process goes on at label once it has returned.
Leave(p, label) == L!EnterUnlock(p) /\ Goto(p, label)

Live(p) == pc[p] \notin {"start", "done"} /\ phase[p] # "dead"
Busy(c) == \E p \in Procs : ctn[p] = c /\ Live(p)

-----------------------------------------------------------------------------
\* The runtime starts the plugin.

StartAdd(p, c) ==
    /\ At(p, "start")
    /\ ~Busy(c)
    /\ c \notin removed
    /\ ctn' = [ctn EXCEPT ![p] = c]
    /\ Goto(p, "addResult")
    /\ UNCHANGED <<lockState, faults, exclusionLost, etcdKeys, midonet, pods,
                   ip, todo, rng, attempt, refilled, gone>>

StartDel(p, c) ==
    /\ At(p, "start")
    /\ ~Busy(c)
    /\ ctn' = [ctn EXCEPT ![p] = c]
    /\ removed' = removed \cup {c}
    /\ granted' = [granted EXCEPT ![c] = None]
    /\ Goto(p, "delResult")
    /\ UNCHANGED <<lockState, faults, exclusionLost, etcdKeys, midonet, eth0, veth,
                   ip, todo, rng, attempt, refilled, gone>>

-----------------------------------------------------------------------------
\* CmdAddK8s up to GetNewIP.

\* A result saved by an earlier ADD is returned as it is.
AddCached(p) ==
    /\ At(p, "addResult")
    /\ result[ctn[p]] # None
    /\ ip' = [ip EXCEPT ![p] = result[ctn[p]]]
    /\ Goto(p, "return")
    /\ UNCHANGED <<lockState, faults, exclusionLost, etcdKeys, midonet, pods,
                   ctn, todo, rng, attempt, refilled, gone>>

\* Mutant: the saved result is not asked for.
IgnoresResult(p) ==
    /\ At(p, "addResult")
    /\ NoFault
    /\ Goto(p, "list")
    /\ UNCHANGED <<lockState, exclusionLost, etcdKeys, midonet, pods, locals>>

\* There is none, or it could not be read.  (When GetTenant, which comes next,
\* fails, the ADD fails like it does when the pool cannot be listed.)
AddFresh(p) ==
    /\ At(p, "addResult")
    /\ \/ result[ctn[p]] = None /\ NoFault
       \/ Fault("etcd")
    /\ Goto(p, "list")
    /\ UNCHANGED <<lockState, exclusionLost, etcdKeys, midonet, pods, locals>>

-----------------------------------------------------------------------------
\* GetNewIP.  It first reads the address saved for the container, but decodes
\* it as JSON, which never succeeds: line 261 saves it in CIDR notation.  So
\* that read changes nothing.

ListPool(p) ==
    /\ At(p, "list")
    /\ avail # {}
    /\ todo' = [todo EXCEPT ![p] = avail]
    /\ Goto(p, "take")
    /\ UNCHANGED <<lockState, faults, exclusionLost, etcdKeys, midonet, pods,
                   ctn, ip, rng, attempt, refilled, gone>>

\* Mutant: the pool is refilled as often as it is found empty.
RefillsAgain(p) ==
    /\ At(p, "list")
    /\ avail = {}
    /\ NoFault
    /\ Goto(p, "create")
    /\ refilled' = [refilled EXCEPT ![p] = TRUE]
    /\ UNCHANGED <<lockState, exclusionLost, etcdKeys, midonet, pods,
                   ctn, ip, todo, rng, attempt, gone>>

\* Only iprange is left of the pool: CmdAddK8s calls CreateNewBridge and
\* GetNewIP once more.  The second time the ADD fails, as after an error.
PoolEmpty(p) ==
    /\ At(p, "list")
    /\ \/ /\ avail = {} /\ NoFault
          /\ IF refilled[p] THEN Goto(p, "delResult") ELSE Goto(p, "create")
          /\ refilled' = [refilled EXCEPT ![p] = TRUE]
       \/ /\ Fault("etcd")
          /\ Goto(p, "delResult")
          /\ UNCHANGED refilled
    /\ UNCHANGED <<lockState, exclusionLost, etcdKeys, midonet, pods,
                   ctn, ip, todo, rng, attempt, gone>>

\* The Delete of one listed address succeeds: the address is this pod's.
TakeAddress(p) ==
    /\ At(p, "take")
    /\ \E a \in todo[p] \cap avail :
          /\ avail' = avail \ {a}
          /\ ip' = [ip EXCEPT ![p] = a]
    /\ todo' = [todo EXCEPT ![p] = {}]
    /\ Goto(p, "saveIp")
    /\ UNCHANGED <<lockState, faults, exclusionLost, result, binding, podIp,
                   iprange, usage, midonet, pods,
                   ctn, rng, attempt, refilled, gone>>

\* Mutant: the error of the Delete is not looked at.
TakesAnyway(p) ==
    /\ At(p, "take")
    /\ \E a \in todo[p] :
          /\ a \notin avail
          /\ ip' = [ip EXCEPT ![p] = a]
    /\ todo' = [todo EXCEPT ![p] = {}]
    /\ Goto(p, "saveIp")
    /\ UNCHANGED <<lockState, faults, exclusionLost, etcdKeys, midonet, pods,
                   ctn, rng, attempt, refilled, gone>>

\* Mutant: it tries the same address again.
TakeRepeats(p) ==
    /\ At(p, "take")
    /\ \E a \in todo[p] : a \notin avail
    /\ UNCHANGED vars

\* It fails, since another process was faster or the answer is lost: next one.
TakeNext(p) ==
    /\ At(p, "take")
    /\ \E a \in todo[p] :
          /\ \/ a \notin avail /\ NoFault /\ UNCHANGED avail
             \/ Fault("etcd") /\ avail' \in {avail, avail \ {a}}
          /\ todo' = [todo EXCEPT ![p] = @ \ {a}]
    /\ UNCHANGED <<lockState, exclusionLost, result, binding, podIp, iprange,
                   usage, midonet, pods, pc, ctn, ip, rng, attempt, refilled, gone>>

\* No address is left to try: ParseCIDR("") fails and so does the ADD.
TakeNone(p) ==
    /\ At(p, "take")
    /\ todo[p] = {}
    /\ Goto(p, "delResult")
    /\ UNCHANGED <<lockState, faults, exclusionLost, etcdKeys, midonet, pods, locals>>

\* The address is saved under the container; an error is only logged.
SaveIp(p) ==
    /\ At(p, "saveIp")
    /\ \/ Effective /\ podIp' = [podIp EXCEPT ![ctn[p]] = ip[p]]
       \/ Ineffective /\ UNCHANGED podIp
    /\ Goto(p, "bindGet")
    /\ UNCHANGED <<lockState, exclusionLost, result, binding, avail, iprange,
                   usage, midonet, pods, locals>>

-----------------------------------------------------------------------------
\* Bingding.  CmdAddK8s calls it again after its first error.

Port(p) == <<p, attempt[p]>>

BindFailed(p) ==
    IF attempt[p] = 1
    THEN attempt' = [attempt EXCEPT ![p] = 2] /\ Goto(p, "bindGet")
    ELSE Goto(p, "delResult") /\ UNCHANGED attempt

\* A saved binding is taken for a binding; any error means there is none.
GetBinding(p) ==
    /\ At(p, "bindGet")
    /\ \/ binding[ctn[p]] # None /\ Goto(p, "net") /\ NoFault
       \/ binding[ctn[p]] = None /\ Goto(p, "makePort") /\ NoFault
       \/ Goto(p, "makePort") /\ Fault("etcd")
    /\ UNCHANGED <<lockState, exclusionLost, etcdKeys, midonet, pods, locals>>

\* Reads bridge/usage and creates a port on that bridge.
MakePort(p) ==
    /\ At(p, "makePort")
    /\ portBridge' = [portBridge EXCEPT ![Port(p)] = usage]
    /\ Goto(p, "bindIf")
    /\ UNCHANGED <<lockState, faults, exclusionLost, etcdKeys, linked, bound, pods, locals>>

\* Either request fails; MidoNet may have created the port all the same.
MakePortFails(p) ==
    /\ At(p, "makePort")
    /\ \/ Fault("etcd") /\ UNCHANGED portBridge
       \/ /\ Fault("midonet")
          /\ portBridge' \in {portBridge, [portBridge EXCEPT ![Port(p)] = usage]}
    /\ BindFailed(p)
    /\ UNCHANGED <<lockState, exclusionLost, etcdKeys, linked, bound, pods,
                   ctn, ip, todo, rng, refilled, gone>>

\* MidoNet keeps one binding of an interface: the last.
BindInterface(p) ==
    /\ At(p, "bindIf")
    /\ bound' = [bound EXCEPT ![ctn[p]] = Port(p)]
    /\ Goto(p, "saveBind")
    /\ UNCHANGED <<lockState, faults, exclusionLost, etcdKeys, linked, portBridge, pods, locals>>

\* The port stays.
BindInterfaceFails(p) ==
    /\ At(p, "bindIf")
    /\ Fault("midonet")
    /\ bound' \in {bound, [bound EXCEPT ![ctn[p]] = Port(p)]}
    /\ BindFailed(p)
    /\ UNCHANGED <<lockState, exclusionLost, etcdKeys, linked, portBridge, pods,
                   ctn, ip, todo, rng, refilled, gone>>

SaveBinding(p) ==
    /\ At(p, "saveBind")
    /\ \/ /\ NoFault
          /\ binding' = [binding EXCEPT ![ctn[p]] = Port(p)]
          /\ Goto(p, "net")
       \/ /\ Fault("etcd")
          /\ binding' \in {binding, [binding EXCEPT ![ctn[p]] = Port(p)]}
          /\ Goto(p, "undoBind")
    /\ UNCHANGED <<lockState, exclusionLost, result, podIp, avail, iprange, usage,
                   midonet, pods, locals>>

\* The port's binding goes away; the interface of c is left unbound if it was
\* bound to this port.
Unbound(c, port) ==
    [bound EXCEPT ![c] = IF @ = port THEN None ELSE @]

\* DeleteBinding after SaveBinding has failed; the port stays.
UndoBinding(p) ==
    /\ At(p, "undoBind")
    /\ \/ NoFault /\ bound' = Unbound(ctn[p], Port(p))
       \/ Fault("midonet") /\ UNCHANGED bound
    /\ BindFailed(p)
    /\ UNCHANGED <<lockState, exclusionLost, etcdKeys, linked, portBridge, pods,
                   ctn, ip, todo, rng, refilled, gone>>

-----------------------------------------------------------------------------
\* The end of CmdAddK8s.

\* Container c has address a on its eth0, and the host end is there.
Networked(c, a, there) ==
    /\ eth0' = [eth0 EXCEPT ![c] = a]
    /\ veth' = [veth EXCEPT ![c] = there]

\* A veth pair is made inside the container, where eth0 gets its address, and
\* the host end is moved out of it under the container's name.
DoNetworking(p) ==
    /\ At(p, "net")
    /\ veth[ctn[p]] = "none"
    /\ Networked(ctn[p], ip[p], "outside")
    /\ Goto(p, "saveRes")
    /\ UNCHANGED <<lockState, faults, exclusionLost, etcdKeys, midonet, granted, removed, locals>>

\* Mutant: the host end of an earlier pair does not stand in the way of another.
PairsAgain(p) ==
    /\ At(p, "net")
    /\ veth[ctn[p]] # "none"
    /\ eth0' = [eth0 EXCEPT ![ctn[p]] = ip[p]]
    /\ veth' = [veth EXCEPT ![ctn[p]] = "outside"]
    /\ Goto(p, "saveRes")
    /\ UNCHANGED <<lockState, faults, exclusionLost, etcdKeys, midonet, granted, removed, locals>>

\* A container that has a pair keeps its host end and gets no second one: an
\* interface eth0 is renamed to eth1 first, once; then the new pair cannot be
\* made, or cannot leave the container, since the name of its host end is taken.
DoNetworkingAgain(p) ==
    /\ At(p, "net")
    /\ veth[ctn[p]] # "none"
    /\ eth0' = [eth0 EXCEPT ![ctn[p]] =
                   CASE veth[ctn[p]] = "outside" -> ip[p]
                     [] veth[ctn[p]] = "inside"  -> None
                     [] veth[ctn[p]] = "renamed" -> @]
    /\ veth' = [veth EXCEPT ![ctn[p]] = "renamed"]
    /\ Goto(p, "delResult")
    /\ UNCHANGED <<lockState, faults, exclusionLost, etcdKeys, midonet, granted, removed, locals>>

\* What DoNetworking may have done when it ends before its time: the old eth0 is
\* renamed first, and a new pair is inside without an address, then with one.
HalfNetworked(p) ==
    LET c == ctn[p] IN
    \/ UNCHANGED <<eth0, veth>>
    \/ veth[c] = "none" /\ \E a \in {None, ip[p]} : Networked(c, a, "inside")
    \/ veth[c] = "none" /\ Networked(c, ip[p], "outside")
    \/ veth[c] \in {"inside", "outside"} /\ Networked(c, None, veth[c])
    \/ veth[c] = "outside" /\ \E a \in {None, ip[p]} : Networked(c, a, "renamed")

\* It fails on the way; what it has done is not taken back.
DoNetworkingFails(p) ==
    /\ At(p, "net")
    /\ Fault("veth")
    /\ HalfNetworked(p)
    /\ Goto(p, "delResult")
    /\ UNCHANGED <<lockState, exclusionLost, etcdKeys, midonet, granted, removed, locals>>

SaveResult(p) ==
    /\ At(p, "saveRes")
    /\ \/ Effective /\ result' = [result EXCEPT ![ctn[p]] = ip[p]]
       \/ Ineffective /\ UNCHANGED result
    /\ Goto(p, "return")
    /\ UNCHANGED <<lockState, exclusionLost, binding, podIp, avail, iprange, usage,
                   midonet, pods, locals>>

\* cmdAdd prints the result.
Return(p) ==
    /\ At(p, "return")
    /\ granted' = [granted EXCEPT ![ctn[p]] = ip[p]]
    /\ Goto(p, "done")
    /\ UNCHANGED <<lockState, faults, exclusionLost, etcdKeys, midonet, eth0, veth, removed, locals>>

-----------------------------------------------------------------------------
\* The lock tenant/<t>/bridge/create, taken at "create" and at "release".

Overlap == \E p, q \in Procs : p # q /\ phase[p] = "held" /\ phase[q] = "held"

CallLock(p) ==
    /\ pc[p] \in {"create", "release"}
    /\ L!CallLock(p)
    /\ UNCHANGED <<exclusionLost, etcdKeys, midonet, pods, pc, locals>>

Lock(p) ==
    /\ L!LockStep(p)
    /\ exclusionLost' = (exclusionLost \/ Overlap')
    /\ UNCHANGED <<etcdKeys, midonet, pods, pc, locals>>

Unlock(p) ==
    /\ L!UnlockStep(p)
    /\ UNCHANGED <<exclusionLost, etcdKeys, midonet, pods, pc, locals>>

-----------------------------------------------------------------------------
\* CreateNewBridge.

\* GetNextCIDR.  (What it does at the end of the address space is left out.)
NextCIDR(r) == r + 1

\* Looks at the pool again now that it has the lock.
CheckPool(p) ==
    /\ Inside(p, "create")
    /\ \/ avail = {} /\ NoFault /\ Goto(p, "nbRange") /\ UNCHANGED lockState
       \/ avail # {} /\ NoFault /\ Leave(p, "list")
       \/ Fault("etcd") /\ Leave(p, "delResult")
    /\ UNCHANGED <<exclusionLost, etcdKeys, midonet, pods, locals>>

\* Creates the bridge in MidoNet and reads iprange.
CreateBridge(p) ==
    /\ Inside(p, "nbRange")
    /\ rng' = [rng EXCEPT ![p] = NextCIDR(iprange)]
    /\ Goto(p, "nbSetRange")
    /\ UNCHANGED <<lockState, faults, exclusionLost, etcdKeys, midonet, pods,
                   ctn, ip, todo, attempt, refilled, gone>>

\* CreateIPsForTenantBridge: first the range ...
SetRange(p) ==
    /\ Inside(p, "nbSetRange")
    /\ iprange' = rng[p]
    /\ todo' = [todo EXCEPT ![p] = Pool(rng[p])]
    /\ Goto(p, "nbFill")
    /\ UNCHANGED <<lockState, faults, exclusionLost, result, binding, podIp, avail, usage,
                   midonet, pods, ctn, ip, rng, attempt, refilled, gone>>

\* An error that etcd itself reports is passed over.
SetRangeUnsaved(p) ==
    /\ Inside(p, "nbSetRange")
    /\ Fault("etcd")
    /\ iprange' \in {iprange, rng[p]}
    /\ todo' = [todo EXCEPT ![p] = Pool(rng[p])]
    /\ Goto(p, "nbFill")
    /\ UNCHANGED <<lockState, exclusionLost, result, binding, podIp, avail, usage,
                   midonet, pods, ctn, ip, rng, attempt, refilled, gone>>

\* ... then its addresses, in ascending order; errors are ignored.
FillPool(p) ==
    /\ Inside(p, "nbFill")
    /\ \E a \in todo[p] :
          /\ \A b \in todo[p] : a[2] <= b[2]
          /\ \/ Effective /\ avail' = avail \cup {a}
             \/ Ineffective /\ UNCHANGED avail
          /\ todo' = [todo EXCEPT ![p] = @ \ {a}]
          /\ Goto(p, IF todo[p] = {a} THEN "nbLink" ELSE "nbFill")
    /\ UNCHANGED <<lockState, exclusionLost, result, binding, podIp, iprange, usage,
                   midonet, pods, ctn, ip, rng, attempt, refilled, gone>>

\* CreateBridgeLinkRouter, and the Get of the router before it.
LinkRouter(p) ==
    /\ Inside(p, "nbLink")
    /\ linked' = [linked EXCEPT ![p] = rng[p]]
    /\ Goto(p, "nbUsage")
    /\ UNCHANGED <<lockState, faults, exclusionLost, etcdKeys, portBridge, bound, pods, locals>>

\* From now on new ports go to the new bridge.
SetUsage(p) ==
    /\ Inside(p, "nbUsage")
    /\ usage' = p
    /\ NoFault
    /\ Leave(p, "list")
    /\ UNCHANGED <<exclusionLost, result, binding, podIp, avail, iprange, midonet, pods, locals>>

\* A request of CreateNewBridge fails: it returns the error and nothing that it
\* has stored before is taken back, so the ADD fails.
CreateNewBridgeFails(p) ==
    /\ \/ /\ Inside(p, "nbRange")
          /\ Fault("etcd") \/ Fault("midonet")
          /\ UNCHANGED <<iprange, usage>>
       \/ /\ Inside(p, "nbSetRange")
          /\ Fault("etcd")
          /\ iprange' \in {iprange, rng[p]}
          /\ UNCHANGED usage
       \/ /\ Inside(p, "nbLink")
          /\ Fault("etcd") \/ Fault("midonet")
          /\ UNCHANGED <<iprange, usage>>
       \/ /\ Inside(p, "nbUsage")
          /\ Fault("etcd")
          /\ usage' \in {usage, p}
          /\ UNCHANGED iprange
    /\ Leave(p, "delResult")
    /\ UNCHANGED <<exclusionLost, result, binding, podIp, avail, midonet, pods, locals>>

-----------------------------------------------------------------------------
\* CmdDelK8s.  Of the errors it meets it returns none.

\* Mutant: the saved result stays.
KeepsResult(p) ==
    /\ At(p, "delResult")
    /\ Effective
    /\ Goto(p, "delBindGet")
    /\ UNCHANGED <<lockState, exclusionLost, etcdKeys, midonet, pods, locals>>

DeleteResult(p) ==
    /\ At(p, "delResult")
    /\ \/ Effective /\ result' = [result EXCEPT ![ctn[p]] = None]
       \/ Ineffective /\ UNCHANGED result
    /\ Goto(p, "delBindGet")
    /\ UNCHANGED <<lockState, exclusionLost, binding, podIp, avail, iprange, usage,
                   midonet, pods, locals>>

\* Without a saved binding, or with an error, nothing more is done.
GetBindingToDelete(p) ==
    /\ At(p, "delBindGet")
    /\ \/ binding[ctn[p]] # None /\ NoFault /\ Goto(p, "unbind")
       \/ binding[ctn[p]] = None /\ NoFault /\ Goto(p, "done")
       \/ Fault("etcd") /\ Goto(p, "done")
    /\ UNCHANGED <<lockState, exclusionLost, etcdKeys, midonet, pods, locals>>

\* The login and DeleteBinding; one fault stands for the failure of both attempts.
\* Without the login there is no DeletePort either.
DeleteBinding(p) ==
    /\ At(p, "unbind")
    /\ \/ NoFault /\ bound' = Unbound(ctn[p], binding[ctn[p]]) /\ Goto(p, "rmPort")
       \/ Fault("midonet") /\ UNCHANGED bound /\ Goto(p, "rmPort")
       \/ Fault("midonet") /\ UNCHANGED bound /\ Goto(p, "delBindKey")
    /\ UNCHANGED <<lockState, exclusionLost, etcdKeys, linked, portBridge, pods, locals>>

\* MidoNet drops a port together with its binding.
RemovePort(c, port) ==
    /\ portBridge' = [portBridge EXCEPT ![port] = None]
    /\ bound' = Unbound(c, port)

\* Mutant: the second loop is missing, as if DeleteBinding removed the port.
KeepsPort(p) ==
    /\ At(p, "rmPort")
    /\ gone' = [gone EXCEPT ![p] = TRUE]
    /\ NoFault
    /\ Goto(p, "delBindKey")
    /\ UNCHANGED <<lockState, exclusionLost, etcdKeys, midonet, pods,
                   ctn, ip, todo, rng, attempt, refilled>>

\* DeletePort; gone is the variable deletePort.
DeletePort(p) ==
    /\ At(p, "rmPort")
    /\ LET port == binding[ctn[p]] IN
          \/ /\ RemovePort(ctn[p], port)
             /\ gone' = [gone EXCEPT ![p] = portBridge[port] # None \/ DeleteMissingOk]
             /\ NoFault
          \/ /\ RemovePort(ctn[p], port) \/ UNCHANGED <<portBridge, bound>>
             /\ gone' = [gone EXCEPT ![p] = FALSE]
             /\ Fault("midonet")
    /\ Goto(p, "delBindKey")
    /\ UNCHANGED <<lockState, exclusionLost, etcdKeys, linked, pods,
                   ctn, ip, todo, rng, attempt, refilled>>

\* The address is released only if the port is known to be gone.
DeleteBindingKey(p) ==
    /\ At(p, "delBindKey")
    /\ \/ Effective /\ binding' = [binding EXCEPT ![ctn[p]] = None]
       \/ Ineffective /\ UNCHANGED binding
    /\ Goto(p, IF gone[p] THEN "relGet" ELSE "done")
    /\ UNCHANGED <<lockState, exclusionLost, result, podIp, avail, iprange, usage,
                   midonet, pods, locals>>

\* Mutant: a missing key is not told from an empty address.
ReleasesMissing(p) ==
    /\ At(p, "relGet")
    /\ ip' = [ip EXCEPT ![p] = podIp[ctn[p]]]
    /\ Goto(p, "release")
    /\ UNCHANGED <<lockState, faults, exclusionLost, etcdKeys, midonet, pods,
                   ctn, todo, rng, attempt, refilled, gone>>

GetPodIp(p) ==
    /\ At(p, "relGet")
    /\ \/ /\ podIp[ctn[p]] # None /\ NoFault
          /\ ip' = [ip EXCEPT ![p] = podIp[ctn[p]]]
          /\ Goto(p, "relRange")
       \/ /\ (podIp[ctn[p]] = None /\ NoFault) \/ Fault("etcd")
          /\ Goto(p, "done")
          /\ UNCHANGED ip
    /\ UNCHANGED <<lockState, exclusionLost, etcdKeys, midonet, pods,
                   ctn, todo, rng, attempt, refilled, gone>>

\* Mutant: an address of an earlier range ends the DEL.
StopsAtOldRange(p) ==
    /\ At(p, "relRange")
    /\ \/ RangeOf(ip[p]) = iprange /\ NoFault /\ Goto(p, "release")
       \/ RangeOf(ip[p]) # iprange /\ NoFault /\ Goto(p, "done")
    /\ UNCHANGED <<lockState, exclusionLost, etcdKeys, midonet, pods, locals>>

\* ReleaseIP compares the range before it takes the lock.
CompareRange(p) ==
    /\ At(p, "relRange")
    /\ \/ RangeOf(ip[p]) = iprange /\ NoFault /\ Goto(p, "release")
       \/ RangeOf(ip[p]) # iprange /\ NoFault /\ Goto(p, "delIpKey")
       \/ Fault("etcd") /\ Goto(p, "delIpKey")
    /\ UNCHANGED <<lockState, exclusionLost, etcdKeys, midonet, pods, locals>>

\* Mutant: the address is not put back.
DropsAddress(p) ==
    /\ Inside(p, "release")
    /\ Effective
    /\ Leave(p, "delIpKey")
    /\ UNCHANGED <<exclusionLost, etcdKeys, midonet, pods, locals>>

PutBack(p) ==
    /\ Inside(p, "release")
    /\ \/ Effective /\ avail' = avail \cup {ip[p]}
       \/ Ineffective /\ UNCHANGED avail
    /\ Leave(p, "delIpKey")
    /\ UNCHANGED <<exclusionLost, result, binding, podIp, iprange, usage, midonet, pods, locals>>

DeletePodIp(p) ==
    /\ At(p, "delIpKey")
    /\ \/ Effective /\ podIp' = [podIp EXCEPT ![ctn[p]] = None]
       \/ Ineffective /\ UNCHANGED podIp
    /\ Goto(p, "done")
    /\ UNCHANGED <<lockState, exclusionLost, result, binding, avail, iprange, usage,
                   midonet, pods, locals>>

-----------------------------------------------------------------------------
\* A plugin process is killed, also in the middle of DoNetworking; etcd lets the
\* lock's node expire.

Crash(p) ==
    /\ Live(p)
    /\ L!Die(p)
    /\ IF pc[p] = "net" THEN HalfNetworked(p) ELSE UNCHANGED <<eth0, veth>>
    /\ UNCHANGED <<exclusionLost, etcdKeys, midonet, granted, removed, pc, locals>>

Expire ==
    /\ L!Expire
    /\ UNCHANGED <<exclusionLost, etcdKeys, midonet, pods, pc, locals>>

GetNewIP(p) ==
    ListPool(p) \/ PoolEmpty(p) \/ TakeAddress(p) \/ TakeNext(p) \/ TakeNone(p) \/ SaveIp(p)

Bingding(p) ==
    \/ GetBinding(p) \/ MakePort(p) \/ MakePortFails(p)
    \/ BindInterface(p) \/ BindInterfaceFails(p) \/ SaveBinding(p) \/ UndoBinding(p)

CmdAddK8s(p) ==
    \/ AddCached(p) \/ AddFresh(p) \/ GetNewIP(p) \/ Bingding(p)
    \/ DoNetworking(p) \/ DoNetworkingAgain(p) \/ DoNetworkingFails(p)
    \/ SaveResult(p) \/ Return(p)

CreateNewBridge(p) ==
    \/ CheckPool(p) \/ CreateBridge(p) \/ SetRange(p) \/ SetRangeUnsaved(p) \/ FillPool(p)
    \/ LinkRouter(p) \/ SetUsage(p) \/ CreateNewBridgeFails(p)

CmdDelK8s(p) ==
    \/ DeleteResult(p) \/ GetBindingToDelete(p) \/ DeleteBinding(p) \/ DeletePort(p)
    \/ DeleteBindingKey(p) \/ GetPodIp(p) \/ CompareRange(p) \/ PutBack(p) \/ DeletePodIp(p)

Step(p) ==
    \/ CmdAddK8s(p) \/ CreateNewBridge(p) \/ CmdDelK8s(p)
    \/ CallLock(p) \/ Lock(p) \/ Unlock(p)

Next ==
    \/ \E p \in Procs :
          \/ \E c \in Containers : StartAdd(p, c) \/ StartDel(p, c)
          \/ Step(p)
          \/ Crash(p)
    \/ Expire

Spec == Init /\ [][Next]_vars

\* A running process goes on as long as a step without a fault is possible, and
\* etcd expires the node of a lock in the end.  The runtime need not start
\* anything, and no fault has to happen.
Fairness == (\A p \in Procs : WF_vars(Step(p) /\ NoFault)) /\ WF_vars(Expire)

FairSpec == Spec /\ Fairness

-----------------------------------------------------------------------------
\* Properties.

\* No two running pods of the tenant have the same address, and none has an
\* address that is still in the pool (README: IP management on etcd, globally
\* consistent within a tenant).
NoDuplicateAddress ==
    \A c \in Containers : granted[c] # None =>
        /\ granted[c] \notin avail
        /\ \A d \in Containers : granted[d] = granted[c] => d = c

\* So it is as long as the lock around CreateNewBridge has kept its promise.
UniqueUnlessOverlap == ~exclusionLost => NoDuplicateAddress

\* At these a process has an address in hand.
Holding == {"saveIp", "bindGet", "makePort", "bindIf", "saveBind", "undoBind", "net",
            "saveRes", "return", "relRange", "release"}

InHand(p) ==
    (IF pc[p] \in Holding THEN {ip[p]} ELSE {})
    \cup (IF pc[p] = "relGet" THEN {podIp[ctn[p]]} ELSE {})
    \cup (IF pc[p] = "nbFill" THEN todo[p] ELSE {})

\* What container c has through its result, its binding or its process, which
\* may be about to put it into the pool.
Held(c) ==
    ({result[c]} \cup (IF binding[c] # None THEN {podIp[c]} ELSE {})
     \cup UNION {InHand(p) : p \in {q \in Procs : Live(q) /\ ctn[q] = c}}) \ {None}

\* The tenant's addresses are an address pool until the lock has failed: also
\* on its way between the pool and a pod an address is in one place.
AP == INSTANCE AddressPool
        WITH Owners <- Containers, AddressesOf <- Pool, free <- avail,
             held <- [c \in Containers |-> Held(c)], top <- iprange,
             broken <- exclusionLost
ImplementsPool == AP!Spec

\* The result an ADD would return without doing anything is the truth as long
\* as it is there, also while a request works on the container: it has that
\* address, and its host end, which is in its place, is bound to the saved
\* port, which exists.
CachedResultBacked ==
    \A c \in Containers : result[c] # None =>
        /\ eth0[c] = result[c] /\ veth[c] = "outside"
        /\ podIp[c] = result[c]
        /\ binding[c] # None
        /\ bound[c] = binding[c]
        /\ portBridge[binding[c]] # None

\* A pod whose ADD has succeeded and whose DEL has not begun stays connected,
\* whatever other requests there are, repeated ADDs of the same pod included
\* (README: enhanced idempotence).
RunningPodConnected ==
    \A c \in Containers : granted[c] # None =>
        /\ eth0[c] = granted[c] /\ veth[c] = "outside"
        /\ binding[c] # None /\ bound[c] = binding[c]

\* An ADD repeated for a pod gives the runtime no other answer than before:
\* whatever fails or dies, it finds the saved result, or the pod's veth pair is
\* in its way and it fails (README: enhanced idempotence).
SameAnswer ==
    [][\A c \in Containers : granted[c] # None /\ granted'[c] # None =>
          granted'[c] = granted[c]]_vars

\* No request is in progress and none has met a fault.  (The lock may have
\* failed all the same, when its node has expired too early.)
AtRest == faults = 0 /\ \A p \in Procs : ~Live(p)

\* Then every address of the range in use is in the pool or belongs to a pod:
\* no order of ADDs, DELs and new ranges loses one.
NoLostAddress ==
    AtRest => \A a \in Pool(iprange) :
        a \in avail \/ \E c \in Containers : granted[c] = a

\* ... and every port is the saved port of a container not deleted.
NoOrphanPort ==
    AtRest => \A t \in Ports : portBridge[t] # None =>
        \E c \in Containers \ removed : binding[c] = t

\* ... and a deleted container has left nothing behind.
DelLeavesNothing ==
    AtRest => \A c \in removed :
        result[c] = None /\ binding[c] = None /\ podIp[c] = None /\ bound[c] = None

\* The order of the code, in which the second GetNewIP and the second Bingding
\* come after the first.
Order ==
    [start |-> 0, addResult |-> 1, list |-> 2, take |-> 3,
     create |-> 4, nbRange |-> 5, nbSetRange |-> 6, nbFill |-> 7, nbLink |-> 8, nbUsage |-> 9,
     saveIp |-> 12,
     bindGet |-> 13, makePort |-> 14, bindIf |-> 15, saveBind |-> 16, undoBind |-> 17,
     net |-> 23, saveRes |-> 24, return |-> 25,
     delResult |-> 26, delBindGet |-> 27, unbind |-> 28, rmPort |-> 29, delBindKey |-> 30,
     relGet |-> 31, relRange |-> 32, release |-> 33, delIpKey |-> 34, done |-> 35]

Place(p) ==
    Order[pc[p]] + (IF pc[p] \in {"list", "take"} /\ refilled[p] THEN 8 ELSE 0)
                 + (IF pc[p] \in {"bindGet", "makePort", "bindIf", "saveBind", "undoBind"}
                       /\ attempt[p] = 2 THEN 5 ELSE 0)

\* Whatever happens, a run of the plugin only gets closer to its end: it goes on
\* in that order, and in one place it calls Lock, Lock or Unlock gets on or an
\* address is done with.  So its retries, those of the ADD that finds no address
\* and its own clean-up included, are bounded.
RunsAdvance ==
    [][\A p \in Procs :
          \/ Place(p)' > Place(p)
          \/ /\ UNCHANGED pc[p] /\ Place(p)' = Place(p)
             /\ \/ calls'[p] > calls[p]
                \/ UNCHANGED calls[p] /\ L!RequestsLeft(p)' < L!RequestsLeft(p)
                \/ /\ UNCHANGED <<calls[p], L!RequestsLeft(p)>>
                   /\ todo'[p] \subseteq todo[p]]_vars

\* Every run of the plugin ends.
Terminates ==
    \A p \in Procs : Live(p) ~> ~Live(p)

-----------------------------------------------------------------------------
\* What a comment says and the code does not do.

\* CreateNewBridge makes a bridge for a range and fills the pool "for the
\* tenant bridge" (etcd_ipam.go:159): a pod's port is on the bridge that is
\* linked to the router for the range of the pod's address.
AddressOnBridge ==
    \A c \in Containers : granted[c] # None /\ binding[c] # None =>
        linked[portBridge[binding[c]]] = RangeOf(granted[c])
=============================================================================
