---------------------------- MODULE TenantNetwork ---------------------------
(***************************************************************************)
(* The network of one tenant: GetTenant, InitTenant, initNetwork and       *)
(* DeleteTenant of pkg/midonet/midonet.go.  Each process runs GetTenant or *)
(* DeleteTenant once.  Both work inside the lock tenant/<id>/create, whose *)
(* node is in the directory tenant/<id> that DeleteTenant deletes.         *)
(*                                                                         *)
(* initNetwork makes one object after the other and, if one cannot be made,*)
(* deletes those before it, by a list written out at each place: Steps and *)
(* CleanUp.  What process p makes is network p.  The tenant may be there   *)
(* from the start: network Old.                                            *)
(***************************************************************************)
EXTENDS Naturals, Sequences, FiniteSets

CONSTANTS
    Procs, Nobody, DefaultTry, FaultKinds, MaxFaults, TTLCoversHolder,
    Old,              \* the network of a process that ended before all others began
    None              \* no network, no step

ASSUME TenantAssumption ==
    /\ Nobody \notin Procs
    /\ Old \notin Procs
    /\ None \notin Procs \cup {Old}
    /\ DefaultTry \in Nat \ {0}
    /\ MaxFaults \in Nat
    /\ TTLCoversHolder \in BOOLEAN

VARIABLES
    node, phase, try, calls, woken, faults,   \* EtcdMutex
    overlap,         \* history: why two processes were first inside at once
    ignored,         \* history: a failed request to etcd has been passed over
    failedAt,        \* history: the step at which p's initNetwork gave up
    halfDeleted,     \* history: the networks whose DeleteTenant was killed half-way
    \* Keys in etcd.
    info,            \* tenant/<id>/info exists
    usage,           \* tenant/<id>/bridge/usage: the network whose bridge is used
    routerKey,       \* tenant/<id>/router: the network of that router
    routeKey,        \* provider_router_route: the network of that route
    pool,            \* what there is in ip/pod/<id>/available
    \* MidoNet, and the two addresses out of the router pool.
    objs,            \* what is there of the network of each process
    \* A plugin process.
    pc, at, undo, found

lockState == <<node, phase, try, calls, woken>>
history == <<overlap, ignored, failedAt, halfDeleted>>
tenantKeys == <<info, usage, routerKey>>
keys == <<tenantKeys, routeKey, pool>>
locals == <<at, undo, found>>

vars == <<lockState, faults, history, keys, objs, pc, locals>>

L == INSTANCE EtcdMutex WITH MaxCalls <- 1

-----------------------------------------------------------------------------
\* initNetwork in the order of the code, then the tenant's info.  "ips" is
\* GetRouterIP, providerID only parses a setting, outRoute to routeKey are
\* CreateDefaultRoute, the rules CreateDefaultRule, range and fill
\* CreateIPsForTenantBridge, gwPort to gwRoute CreateBridgeLinkRouter.
Steps == <<"inChain", "outChain", "router", "ips", "providerID", "remotePort",
           "localPort", "link", "outRoute", "inRoute", "routeKey", "rule1",
           "rule2", "rule3", "bridge", "range", "fill", "gwPort", "bridgePort",
           "gwLink", "gwRoute", "routerKey", "usage", "info">>

KeySteps == {"routeKey", "range", "fill", "routerKey", "usage", "info"}
StepNames == {Steps[i] : i \in 1 .. Len(Steps)}
Objects == StepNames \ (KeySteps \cup {"providerID"})

ASSUME NoStepAssumption == None \notin StepNames

Networks == Procs \cup {Old}

Uplink == <<"link", "remotePort", "localPort", "inChain", "outChain", "router">>

\* What is deleted, and in which order, when a step fails.
CleanUp(s) ==
    CASE s \in {"inChain", "ips", "providerID"} -> <<>>
      [] s = "outChain"   -> <<"inChain">>
      [] s = "router"     -> <<"inChain", "outChain">>
      [] s = "remotePort" -> <<"inChain", "outChain", "router">>
      [] s = "localPort"  -> <<"inChain", "outChain", "router", "remotePort">>
      [] s = "link"       -> Tail(Uplink)
      [] s = "inRoute"    -> <<"outRoute">> \o Uplink
      [] s = "rule2"      -> <<"rule1">> \o Uplink
      [] s = "rule3"      -> <<"rule1", "rule2">> \o Uplink
      [] s = "range"      -> <<"bridge">> \o Uplink
      [] s = "bridgePort" -> <<"gwPort">> \o Uplink
      [] s = "gwLink"     -> <<"gwPort", "bridgePort">> \o Uplink
      [] s = "gwRoute"    -> <<"gwLink", "gwPort", "bridgePort">> \o Uplink
      [] OTHER            -> Uplink

Labels == {"start", "get", "init", "step", "undo", "delete", "route", "dir",
           "pool", "release", "unlock", "done"}

TypeOK ==
    /\ L!TypeOK
    /\ overlap \in {"no", "lock", "delete"}
    /\ ignored \in BOOLEAN
    /\ failedAt \in [Procs -> StepNames \cup {"undo", None}]
    /\ halfDeleted \subseteq Networks
    /\ info \in BOOLEAN
    /\ {usage, routerKey, routeKey} \subseteq Networks \cup {None}
    /\ pool \subseteq {"iprange", "addresses"}
    /\ objs \in [Networks -> SUBSET Objects]
    /\ pc \in [Procs -> Labels]
    /\ at \in [Procs -> 1 .. Len(Steps)]
    /\ undo \in [Procs -> Seq(Objects)]
    /\ found \in [Procs -> SUBSET Networks]

Init ==
    /\ L!Init
    /\ overlap = "no" /\ ignored = FALSE
    /\ failedAt = [p \in Procs |-> None]
    /\ halfDeleted = {}
    /\ info \in BOOLEAN
    /\ usage = IF info THEN Old ELSE None
    /\ routerKey = usage /\ routeKey = usage
    /\ pool = IF info THEN {"iprange", "addresses"} ELSE {}
    /\ objs = [n \in Networks |-> IF n = usage THEN Objects ELSE {}]
    /\ pc = [p \in Procs |-> "start"]
    /\ at = [p \in Procs |-> 1]
    /\ undo = [p \in Procs |-> <<>>]
    /\ found = [p \in Procs |-> {}]

-----------------------------------------------------------------------------
Goto(p, label) == pc' = [pc EXCEPT ![p] = label]
At(p, label) == pc[p] = label /\ phase[p] = "idle"
Inside(p, label) == pc[p] = label /\ phase[p] = "held"
Leave(p) == L!EnterUnlock(p) /\ Goto(p, "unlock")

NoFault == UNCHANGED faults
Fault(k) == L!Fault(k)

\* One inside the lock has deleted the directory the lock's node was in.
Wiped == \E p \in Procs : phase[p] = "held" /\ pc[p] \in {"pool", "release"}

Overlap == \E p, q \in Procs : p # q /\ phase[p] = "held" /\ phase[q] = "held"

Live(p) == pc[p] \notin {"start", "done"} /\ phase[p] # "dead"

-----------------------------------------------------------------------------
\* GetTenant and InitTenant.

StartGet(p) ==
    /\ At(p, "start")
    /\ Goto(p, "get")
    /\ UNCHANGED <<lockState, faults, history, keys, objs, locals>>

GetInfo(p) ==
    /\ At(p, "get")
    /\ NoFault
    /\ Goto(p, IF info THEN "done" ELSE "init")
    /\ UNCHANGED <<lockState, history, keys, objs, locals>>

\* GetTenant returns the error or, when etcd reports one other than
\* KeyNotFound, reads the missing answer and panics.
GetInfoFails(p) ==
    /\ At(p, "get")
    /\ Fault("etcd")
    /\ Goto(p, "done")
    /\ UNCHANGED <<lockState, history, keys, objs, locals>>

\* Mutant: what GetTenant has read before the lock is taken to be still so.
TrustsFirstRead(p) ==
    /\ Inside(p, "init")
    /\ Goto(p, "step")
    /\ UNCHANGED <<lockState, faults, history, keys, objs, locals>>

\* The info is read once more inside the lock.
FindsNoInfo(p) ==
    /\ Inside(p, "init")
    /\ ~info
    /\ Goto(p, "step")
    /\ UNCHANGED <<lockState, faults, history, keys, objs, locals>>

FindsInfo(p) ==
    /\ Inside(p, "init")
    /\ info
    /\ Leave(p)
    /\ UNCHANGED <<faults, history, keys, objs, locals>>

FindsError(p) ==
    /\ Inside(p, "init")
    /\ Fault("etcd")
    /\ Leave(p)
    /\ UNCHANGED <<history, keys, objs, locals>>

-----------------------------------------------------------------------------
\* initNetwork, one step at a time.

Doing(p, s) == Inside(p, "step") /\ Steps[at[p]] = s
Advance(p) == at' = [at EXCEPT ![p] = @ + 1] /\ UNCHANGED <<pc, undo, failedAt>>

\* Mutant: it returns at once.
GivesUpAtOnce(p) ==
    /\ failedAt' = [failedAt EXCEPT ![p] = Steps[at[p]]]
    /\ undo' = [undo EXCEPT ![p] = <<>>]
    /\ Goto(p, "undo")
    /\ UNCHANGED at

GiveUp(p) ==
    /\ failedAt' = [failedAt EXCEPT ![p] = Steps[at[p]]]
    /\ undo' = [undo EXCEPT ![p] = CleanUp(Steps[at[p]])]
    /\ Goto(p, "undo")
    /\ UNCHANGED at

Made(p, s) == [objs EXCEPT ![p] = @ \cup {s}]

Create(p) ==
    /\ \E s \in Objects : Doing(p, s) /\ objs' = Made(p, s)
    /\ NoFault
    /\ Advance(p)
    /\ UNCHANGED <<lockState, overlap, ignored, halfDeleted, keys, found>>

\* The object may have been made all the same.  Too few router addresses end
\* initNetwork as well, which takes no fault: RouterIpam says when there are.
CreateFails(p) ==
    /\ \E s \in Objects :
          /\ Doing(p, s)
          /\ IF s = "ips" THEN NoFault ELSE Fault("midonet")
          /\ objs' \in {objs, Made(p, s)}
    /\ GiveUp(p)
    /\ UNCHANGED <<lockState, overlap, ignored, halfDeleted, keys, found>>

\* The ID of the provider router is not one: what has been made stays.
ParseProviderID(p) ==
    /\ Doing(p, "providerID")
    /\ \/ NoFault /\ Advance(p)
       \/ Fault("config") /\ GiveUp(p)
    /\ UNCHANGED <<lockState, overlap, ignored, halfDeleted, keys, objs, found>>

\* These two Sets may fail unnoticed.
SaveRoute(p) ==
    /\ Doing(p, "routeKey")
    /\ \/ NoFault /\ routeKey' = p /\ UNCHANGED ignored
       \/ Fault("etcd") /\ UNCHANGED routeKey /\ ignored' = TRUE
    /\ Advance(p)
    /\ UNCHANGED <<lockState, overlap, halfDeleted, tenantKeys, pool, objs, found>>

SaveRouter(p) ==
    /\ Doing(p, "routerKey")
    /\ \/ NoFault /\ routerKey' = p /\ UNCHANGED ignored
       \/ Fault("etcd") /\ UNCHANGED routerKey /\ ignored' = TRUE
    /\ Advance(p)
    /\ UNCHANGED <<lockState, overlap, halfDeleted, info, usage, routeKey, pool, objs, found>>

SetRange(p) ==
    /\ Doing(p, "range")
    /\ pool' = pool \cup {"iprange"}
    /\ NoFault
    /\ Advance(p)
    /\ UNCHANGED <<lockState, overlap, ignored, halfDeleted, tenantKeys, routeKey, objs, found>>

\* An error that etcd itself reports is passed over.
SetRangeFails(p) ==
    /\ Doing(p, "range")
    /\ Fault("etcd")
    /\ pool' \in {pool, pool \cup {"iprange"}}
    /\ \/ GiveUp(p) /\ UNCHANGED ignored
       \/ Advance(p) /\ ignored' = TRUE
    /\ UNCHANGED <<lockState, overlap, halfDeleted, tenantKeys, routeKey, objs, found>>

\* Many Sets; PodNetwork has the addresses themselves.
FillPool(p) ==
    /\ Doing(p, "fill")
    /\ pool' = pool \cup {"addresses"}
    /\ Advance(p)
    /\ UNCHANGED <<lockState, faults, overlap, ignored, halfDeleted, tenantKeys,
                   routeKey, objs, found>>

SaveUsage(p) ==
    /\ Doing(p, "usage")
    /\ usage' = p
    /\ NoFault
    /\ Advance(p)
    /\ UNCHANGED <<lockState, overlap, ignored, halfDeleted, info, routerKey, routeKey,
                   pool, objs, found>>

SaveUsageFails(p) ==
    /\ Doing(p, "usage")
    /\ Fault("etcd")
    /\ usage' \in {usage, p}
    /\ GiveUp(p)
    /\ UNCHANGED <<lockState, overlap, ignored, halfDeleted, info, routerKey, routeKey,
                   pool, objs, found>>

\* Mutant: the function does not end there.
StaysInside(p) ==
    /\ Doing(p, "info")
    /\ info' = TRUE
    /\ NoFault
    /\ Advance(p)
    /\ UNCHANGED <<lockState, overlap, ignored, halfDeleted, usage, routerKey, routeKey,
                   pool, objs, found>>

\* InitTenant, once initNetwork has returned.
SaveInfo(p) ==
    /\ Doing(p, "info")
    /\ info' = TRUE
    /\ NoFault
    /\ Leave(p)
    /\ UNCHANGED <<history, usage, routerKey, routeKey, pool, objs, locals>>

\* The network stays, though the tenant does not know of it.
SaveInfoFails(p) ==
    /\ Doing(p, "info")
    /\ Fault("etcd")
    /\ info' \in {info, TRUE}
    /\ failedAt' = [failedAt EXCEPT ![p] = "info"]
    /\ Leave(p)
    /\ UNCHANGED <<overlap, ignored, halfDeleted, usage, routerKey, routeKey, pool, objs,
                   locals>>

\* One deletion of the clean-up; a failed one is only logged.
DeleteObject(p) ==
    /\ Inside(p, "undo")
    /\ undo[p] # <<>>
    /\ LET less == [objs EXCEPT ![p] = @ \ {Head(undo[p])}] IN
          \/ NoFault /\ objs' = less /\ UNCHANGED failedAt
          \/ /\ Fault("midonet")
             /\ objs' \in {objs, less}
             /\ failedAt' = [failedAt EXCEPT ![p] = "undo"]
    /\ undo' = [undo EXCEPT ![p] = Tail(@)]
    /\ UNCHANGED <<lockState, overlap, ignored, halfDeleted, keys, pc, at, found>>

CleanedUp(p) ==
    /\ Inside(p, "undo")
    /\ undo[p] = <<>>
    /\ Leave(p)
    /\ UNCHANGED <<faults, history, keys, objs, locals>>

-----------------------------------------------------------------------------
\* DeleteTenant.  Whatever fails, it goes on.

StartDelete(p) ==
    /\ At(p, "start")
    /\ Goto(p, "delete")
    /\ UNCHANGED <<lockState, faults, history, keys, objs, locals>>

\* GetRouterIPsByTenant: the addresses of the ports of every router of the tenant,
\* which those of a network deleted earlier still are.
Linked == {n \in Networks : {"router", "localPort"} \subseteq objs[n]}

\* A router whose ports cannot be read is passed over.
FindAddresses(p) ==
    /\ Inside(p, "delete")
    /\ \E named \in SUBSET Linked :
          /\ found' = [found EXCEPT ![p] = named]
          /\ IF named = Linked THEN NoFault ELSE Fault("midonet")
    /\ Goto(p, "route")
    /\ UNCHANGED <<lockState, history, keys, objs, at, undo>>

\* Mutant: the pool is deleted before the directory.
PoolFirst(p) ==
    /\ Inside(p, "route")
    /\ pool' = {}
    /\ Goto(p, "dir")
    /\ UNCHANGED <<lockState, faults, history, tenantKeys, routeKey, objs, locals>>

DeleteRoute(p) ==
    /\ Inside(p, "route")
    /\ \/ NoFault /\ objs' = [n \in Networks |-> objs[n] \ (IF n = routeKey THEN {"inRoute"} ELSE {})]
       \/ Fault("etcd") /\ UNCHANGED objs
       \/ Fault("midonet") /\ UNCHANGED objs
       \/ Fault("config") /\ UNCHANGED objs
    /\ Goto(p, "dir")
    /\ UNCHANGED <<lockState, history, keys, locals>>

\* Mutant: who waits for the lock's node does not learn that its directory goes.
DeletesUnseen(p) ==
    /\ Inside(p, "dir")
    /\ info' = FALSE /\ usage' = None /\ routerKey' = None
    /\ node' = Nobody
    /\ NoFault
    /\ Goto(p, "pool")
    /\ UNCHANGED <<phase, try, calls, woken, history, routeKey, pool, objs, locals>>

\* The directory tenant/<id>: info, router and usage, and the node of the lock.
\* Its watchers see a delete.
DeleteDir(p) ==
    /\ Inside(p, "dir")
    /\ info' = FALSE /\ usage' = None /\ routerKey' = None
    /\ node' = Nobody
    /\ L!WakeWatchers
    /\ NoFault
    /\ Goto(p, "pool")
    /\ UNCHANGED <<phase, try, calls, history, routeKey, pool, objs, locals>>

DeleteDirFails(p) ==
    /\ Inside(p, "dir")
    /\ Fault("etcd")
    /\ ignored' = TRUE
    /\ Goto(p, "pool")
    /\ UNCHANGED <<lockState, overlap, failedAt, halfDeleted, keys, objs, locals>>

\* ip/pod/<id>, and then the bindings of the tenant's pods.
DeletePool(p) ==
    /\ Inside(p, "pool")
    /\ \/ NoFault /\ pool' = {} /\ UNCHANGED ignored
       \/ Fault("etcd") /\ UNCHANGED pool /\ ignored' = TRUE
    /\ Goto(p, "release")
    /\ UNCHANGED <<lockState, overlap, failedAt, halfDeleted, tenantKeys, routeKey, objs,
                   locals>>

\* ReleaseRouterIP, of the ports' addresses; the ports stay.  It forgets those
\* that are not of the range in use.
Release(p) ==
    /\ Inside(p, "release")
    /\ \E gone \in SUBSET found[p] :
          objs' = [n \in Networks |-> objs[n] \ (IF n \in gone THEN {"ips"} ELSE {})]
    /\ NoFault
    /\ Leave(p)
    /\ UNCHANGED <<history, keys, locals>>

-----------------------------------------------------------------------------
\* The lock.

CallLock(p) ==
    /\ pc[p] \in {"init", "delete"}
    /\ L!CallLock(p)
    /\ UNCHANGED <<history, keys, objs, pc, locals>>

Lock(p) ==
    /\ L!LockStep(p)
    /\ overlap' = IF overlap # "no" \/ ~Overlap' THEN overlap
                  ELSE IF Wiped THEN "delete" ELSE "lock"
    /\ UNCHANGED <<ignored, failedAt, halfDeleted, keys, objs, pc, locals>>

\* The deferred Unlock, after which the call returns.
Unlock(p) ==
    /\ L!UnlockStep(p)
    /\ pc' = IF phase'[p] = "idle" THEN [pc EXCEPT ![p] = "done"] ELSE pc
    /\ UNCHANGED <<history, keys, objs, locals>>

Expire ==
    /\ L!Expire
    /\ UNCHANGED <<history, keys, objs, pc, locals>>

\* The process is killed.
Crash(p) ==
    /\ Live(p)
    /\ L!Die(p)
    /\ halfDeleted' = halfDeleted \cup {n \in Networks : n = usage /\ Inside(p, "dir")}
    /\ UNCHANGED <<overlap, ignored, failedAt, keys, objs, pc, locals>>

GetTenant(p) ==
    \/ GetInfo(p) \/ GetInfoFails(p)
    \/ FindsNoInfo(p) \/ FindsInfo(p) \/ FindsError(p)

InitNetwork(p) ==
    \/ Create(p) \/ CreateFails(p) \/ ParseProviderID(p) \/ SaveRoute(p) \/ SaveRouter(p)
    \/ SetRange(p) \/ SetRangeFails(p) \/ FillPool(p)
    \/ SaveUsage(p) \/ SaveUsageFails(p) \/ SaveInfo(p) \/ SaveInfoFails(p)
    \/ DeleteObject(p) \/ CleanedUp(p)

DeleteTenant(p) ==
    \/ FindAddresses(p) \/ DeleteRoute(p) \/ DeleteDir(p) \/ DeleteDirFails(p)
    \/ DeletePool(p) \/ Release(p)

Step(p) ==
    \/ GetTenant(p) \/ InitNetwork(p) \/ DeleteTenant(p)
    \/ CallLock(p) \/ Lock(p) \/ Unlock(p)

Next ==
    \/ \E p \in Procs : StartGet(p) \/ StartDelete(p) \/ Step(p) \/ Crash(p)
    \/ Expire

Spec == Init /\ [][Next]_vars

\* A running process goes on as long as a step without a fault is possible, and
\* etcd expires the node of a lock in the end.  No fault has to happen.
Fairness == (\A p \in Procs : WF_vars(Step(p) /\ NoFault)) /\ WF_vars(Expire)

FairSpec == Spec /\ Fairness

-----------------------------------------------------------------------------
\* Properties.

\* A tenant whose info is there can be used by every later call: usage and
\* router name one network, which is whole, and the pool has its range.
Whole(but) ==
    info =>
        /\ usage # None
        /\ routerKey = usage
        /\ Objects \ but \subseteq objs[usage]
        /\ pool = {"iprange", "addresses"}

\* GetTenant believes the info, so it has to be the last key to be written and
\* the first to be deleted.  The tenant is whole whatever happens in MidoNet
\* and whoever is killed, except after an overlap or a request to etcd that has
\* failed unnoticed, and but for the provider's route: DeleteTenant deletes that
\* before the info, and one killed in between leaves the tenant without it for
\* good.
WholeUnlessOverlap ==
    overlap = "no" /\ ~ignored =>
        Whole(IF usage \in halfDeleted \/ \E p \in Procs : Inside(p, "dir")
              THEN {"inRoute"} ELSE {})

\* No process initialises a tenant that is there: it would fill the pool with
\* addresses that pods already have.
NoSecondInit ==
    overlap = "no" =>
        \A p \in Procs : Inside(p, "step") \/ Inside(p, "undo") => ~info

\* A failed initNetwork leaves no part of the uplink behind, unless a deletion
\* has failed, too, or it failed where nothing is deleted: for want of router
\* addresses, of the provider router's ID, or at the info, after it.  (The object
\* it failed to make may be there.)
FailedInitUndone ==
    \A p \in Procs :
        /\ pc[p] \in {"unlock", "done"}
        /\ failedAt[p] \in StepNames \ {"ips", "providerID", "info"}
        => \A i \in 1 .. Len(Uplink) :
              Uplink[i] \in objs[p] => Uplink[i] = failedAt[p]

\* Who waits for the lock of the tenant has an event to come: also the deletion
\* of the tenant, which takes the lock's node along, reaches its waiters.
WaitersReached == L!NoLostWakeup

\* Every call returns, also of those that wait for a lock whose node goes away
\* with the directory.
OperationReturns == \A p \in Procs : Live(p) ~> ~Live(p)

-----------------------------------------------------------------------------
\* tenant/<id>/create is the "lock for creating and initialising a tenant"
\* (pkg/ipam/README.md:6): a tenant just initialised is whole, also when it
\* has been deleted before.
WholeDespiteDelete == overlap # "lock" /\ (\A p \in Procs : ~Live(p)) => Whole({})
=============================================================================
