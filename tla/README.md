# midonet-cni in TLA+

midonet-cni is a CNI plugin that gives the pods of a Kubernetes cluster an
interface in a MidoNet network, one tenant network per namespace. The plugin is
not a daemon. The container runtime starts a short-lived process for each `ADD`
and each `DEL` of a container, on every node of the cluster, and these processes
meet only in etcd, in MidoNet and in the containers' network namespaces. Nearly
everything that is hard about the program follows from that: any two requests
may lie between two requests of another process, a process may be killed between
any two of its requests, the runtime may repeat a request whose answer it has not
seen, and the only synchronisation is a lock made of one etcd node.

This directory models the parts of the program that keep state in TLA+, checks
small instances of them with TLC and proves their main invariants with TLAPS.

## 1. Inventory

| Component | Source | State it keeps | Operations |
|---|---|---|---|
| Distributed lock | `pkg/etcd/etcd_util.go` | one etcd node per lock, value = identity of its creator, TTL 20 s | `New`, `Lock`, `Unlock` |
| Pod address management | `pkg/ipam/etcd_ipam.go` | `ip/pod/<t>/available/*` (pool), `.../iprange`, `ip/pod/<t>/<c>` | `CreateIPsForTenantBridge`, `GetNewIP`, `ReleaseIP` |
| Router address management | `pkg/ipam/etcd_ipam.go` | `ip/router/available/*`, `.../iprange` | `GetRouterIP`, `refreshRouterAvailable`, `ReleaseRouterIP` |
| MidoNet manager, pods | `pkg/midonet/midonet.go` | `bingding/<t>/<c>`, `tenant/<t>/bridge/usage`; bridges, ports, links and bindings in MidoNet | `Bingding`, `CreateNewBridge`, `CreateBridgeLinkRouter` |
| MidoNet manager, tenants | `pkg/midonet/midonet.go` | `tenant/<t>/info`, `tenant/<t>/router`, ...; chains, routers, routes and rules in MidoNet | `GetTenant`, `InitTenant`, `initNetwork`, `DeleteTenant` |
| CNI commands | `pkg/k8s/k8s.go` | `result/<c>` | `CmdAddK8s`, `CmdDelK8s` |
| Entry point | `cmd/midonet/midonet.go` | none | `cmdAdd`, `cmdDel` |
| Veth set-up | `pkg/vethctrl` | interfaces of the host and the container | `DoNetworking` |
| Range arithmetic | `pkg/util` | none | `GetNextCIDR`, `NewRange`, `Next`, `RangeLength`, `IP2Long`, `Long2IP` |
| Configuration | `pkg/types` | none | `Options.Default` |
| Region IPAM | `pkg/ipam/region.go` | none (an HTTP service) | `GetNewIP`; nobody calls it |

How they interact. `cmdAdd` runs `CmdAddK8s`, which returns a saved result if
there is one, and otherwise calls `GetTenant` (initialising the tenant the first
time), `GetNewIP`, `CreateNewBridge` and `GetNewIP` again if the pool is empty,
`Bingding` (twice if it fails), `DoNetworking`, and saves the result. If any of
this fails `cmdAdd` runs the `DEL` of the same container. `CmdDelK8s` deletes the
result, the binding, the port and the binding's key, and, if the port could be
deleted, gives the address back with `ReleaseIP`. `CreateNewBridge` and
`ReleaseIP` take the lock `tenant/<t>/bridge/create`, `InitTenant` and
`DeleteTenant` the lock `tenant/<t>/create`, `GetRouterIP` and `ReleaseRouterIP`
the lock `router_ip`. `GetNewIP` and `Bingding` take none.

What is hard, and what has to be true, component by component:

* **Lock.** Waiters are woken by a watch; holders die, are slower than the TTL,
  or lose the answers of etcd. Nobody may wait for an event that does not come,
  every call of `Lock` has to return, and at most one caller may be inside.
* **Pod addresses.** Taking an address is a race for the `Delete` of a key;
  refilling the pool is protected by the lock; releasing is split around it. An
  address has to be with one pod, or in the pool, and never in two places or in
  none.
* **MidoNet manager.** A binding exists three times: as a port and as an
  interface binding in MidoNet, and as a key in etcd. They are written and
  deleted one after the other and each step may fail or be the last one.
* **CNI commands.** `ADD` is to be idempotent: the result saved by one `ADD` is
  all the next one looks at, so it has to be true whenever it is there. A failed
  `ADD` must leave the work of an earlier successful one alone. Every run has to
  end.
* **Tenants.** Initialisation is some twenty requests, most with a clean-up of their
  own that is written out at its place. It must not run twice for one tenant, a
  failed run should take away what it has made, and a tenant whose `info` key is
  there is believed by everybody and so has to be whole. Deletion runs under the
  same lock, whose node is in the directory it deletes.
* **Router addresses.** `GetRouterIP` has to return two addresses nobody else has,
  across the refill of the pool, and `ReleaseRouterIP`, which takes the lock once
  for each address before it gives it back, has to return.
* **Ranges.** Successive ranges must be disjoint up to the end of the 32-bit space,
  the loops over them must write what they should and nothing else, and no pod
  may get the address of its gateway.

## 2. Modules

| Module | What it is |
|---|---|
| `AbstractLock` | what the comments promise of the mutex: processes wait, at most one holds it |
| `AddressPool` | what both pools of addresses promise: an address is in the pool, with one owner or lost |
| `EtcdMutex` | the mutex as the code implements it |
| `PodNetwork` | the life of the pods of one initialised tenant: everything `ADD` and `DEL` do |
| `TenantNetwork` | the life of one tenant: `GetTenant`, `InitTenant`, `initNetwork`, `DeleteTenant` |
| `RouterIpam` | the pool of router addresses, which all tenants share |
| `RangeWalk` | the arithmetic of ranges and the loops over them |
| `MCEtcdMutex`, `MCPodNetwork`, `MCTenantNetwork`, `MCRouterIpam`, `MCRangeWalk` | sets of faults and symmetry for TLC's instances |
| `EtcdMutex_proofs`, `TenantNetwork_proofs`, `RangeWalk_proofs` | theorems about one module and their proofs |
| `PodNetwork_proofs`, `PodConnection_proofs` | types, addresses and runs of `PodNetwork`; what connects a pod, what is there at rest, and the answers of repeated `ADD`s |
| `RouterIpam_proofs`, `RouterPool_proofs` | who has a router address; that none is lost and that they come in pairs |
| `AddressPool_proofs` | what the contract of the pools is worth |

`PodNetwork`, `TenantNetwork` and `RouterIpam` each instantiate `EtcdMutex` for
their lock and share its variables with it, so that every request of `Lock` and
`Unlock` is interleaved with the requests of the operations inside;
`EtcdMutex` instantiates `AbstractLock` with a refinement mapping, and `PodNetwork`
and `RouterIpam` instantiate `AddressPool` (`Held` is the mapping of its owners'
addresses, and a failure of the lock, or a lost range, is what ends the contract). The three meet
at their edges: `TenantNetwork` ends with the tenant `PodNetwork` begins with, its
step `"ips"` is `GetRouterIP` and the end of its `DeleteTenant` is
`ReleaseRouterIP`, both of which are in `RouterIpam`. `RangeWalk` says what the
single addresses are that `PodNetwork` and `RouterIpam` number.

### EtcdMutex

One action per request to etcd, together with the code up to the next request.
`phase[p]` is the place of a caller in the code, `try[p]` the loop counter of
`Lock` or `Unlock`, `node` the value of the lock's node. `woken[p]` says that an
event newer than the index of `p`'s `Get` exists: etcd keeps past events, so a
watcher with `AfterIndex` sees one that happened before it connected.

* `lock()` fails when `Set` or `Get` or the watcher returns an error, and also
  when the node has gone between `Set` and `Get` (`GetMissing`). `Lock` tries
  three times and then returns a nil error (`NextAttempt`).
* A watcher that sees the removal returns without creating a node (`WatchFires`).
* `Unlock` deletes the node unconditionally (`DeleteRemoves`).
* `Expire` is the TTL. With `TTLCoversHolder` no node expires while its creator
  is inside; without it a node may expire at any time. Time itself is not
  modelled.
* An answer may be lost, with or without the request having had its effect
  (`SetFails`, `DeleteFails`), and a process may die (`Die`).

### PodNetwork

Keys in etcd are functions from containers (`result`, `binding`, `podIp`), sets
(`avail`) or single values (`iprange`, `usage`). An address is a pair of the
number of its range and its place in it; `Slots` is the number of addresses
`CreateIPsForTenantBridge` makes of a range (one for the `/30` of the
repository's tests, 252 for a `/24`, .254 being left out). Ranges are numbered in
the order of `GetNextCIDR`. A new bridge is named by the process that makes it
and a port by its process and the attempt of `Bingding`, which gives each one a
name nobody else has, as a random UUID does.

`pc[p]` names the next request of process `p`, its local variables are `ctn`,
`ip`, `todo`, `rng`, `attempt`, `refilled` and `gone` (the variable `deletePort`).
The order of the labels in the module is that of the code:

| Labels | Code |
|---|---|
| `addResult` | k8s.go 42-52 |
| `list`, `take`, `saveIp` | `GetNewIP` |
| `create`, `nbRange`, `nbSetRange`, `nbFill`, `nbLink`, `nbUsage` | `CreateNewBridge` with `CreateIPsForTenantBridge` and `CreateBridgeLinkRouter` |
| `bindGet`, `makePort`, `bindIf`, `saveBind`, `undoBind` | `Bingding` |
| `net`, `saveRes`, `return` | the end of `CmdAddK8s` and of `cmdAdd` |
| `delResult`, `delBindGet`, `unbind`, `rmPort`, `delBindKey`, `relGet` | `CmdDelK8s` |
| `relRange`, `release`, `delIpKey` | `ReleaseIP` and the end of `CmdDelK8s` |

Faults are counted and of four kinds: `"etcd"` and `"midonet"`, a request is
answered with an error, with or without effect where it changes something;
`"veth"`, `DoNetworking` fails half-way; `"crash"`, a process is killed between two
requests or in the middle of `DoNetworking` (`HalfNetworked`, what a call that ends
before its time may have done, for both). `FaultKinds` says which kinds a run has and
`MaxFaults` how many in all. A `Set` of `iprange` that etcd itself answers with an
error is passed over (`SetRangeUnsaved`): the pool is filled all the same. A failed
login to MidoNet makes `DEL` skip both deletions (`DeleteBinding`).

What is taken from outside the repository, and marked external in the map:
etcd's TTL and events; MidoNet drops a port together with its interface binding
and keeps only the last binding of an interface; it may or may not answer the
`DELETE` of a port that is gone with success (`DeleteMissingOk`, so that the
proofs cover both); the kernel refuses a second interface of the same name.
Requests of one container do not overlap, and a container whose `DEL` has begun
is not added again: that is how the CNI specification asks runtimes to behave.
A `DEL` may come at any time, for a container that was never added too.

`veth[c]` follows the one veth pair a container can have: its host end is still
`"inside"` the container, or has been moved `"outside"`, where it stays. A second
`DoNetworking` for the container first renames `eth0` to `eth1` (`"renamed"`) and
then fails, because the name of the host end is taken; what `eth0` is afterwards
depends on how far it came.

Abstractions. `GetTenant`, whose tenant is initialised, is part of `AddFresh`.
The read of `iprange` belongs to the action that creates the bridge, the read of
the router to `LinkRouter`, the read of `bridge/usage` to `MakePort`: each of
them precedes a request to MidoNet on which no other process depends, or reads
what does not change. The clean-up inside `CreateBridgeLinkRouter` concerns
router ports no property speaks of. One fault stands for the failure of both
attempts to delete a binding or a port, each of which has its own. Routes inside the container, and an
`eth0` that another plugin has made, are left out. `GetNextCIDR` is `r + 1`.

### TenantNetwork

The state is the tenant's keys (`info`, `usage`, `routerKey`, `routeKey`), what there
is of its pool, and the objects in MidoNet, one set for each attempt at a network.
`Steps` lists what `initNetwork` makes, in its order, with `CreateDefaultRoute`,
`CreateDefaultRule`, `CreateIPsForTenantBridge` and `CreateBridgeLinkRouter`
written out, and `CleanUp(s)` what the code deletes when step `s` fails, in the
order of each place, including what the inner function has deleted before its
caller goes on. `at[p]` is the step a process is at, `undo[p]` what it has still to
delete. What process `p` makes is network `p`; the tenant may also be there from
the beginning (`Old`).

* `GetInfo` and `FindsNoInfo` are the two reads of `info`, before and inside the
  lock.
* `Create` and `CreateFails` are a request to MidoNet; a failed one may have made
  the object. `ParseProviderID` makes no request, but where the setting is not an
  ID (the fault `"config"`) `initNetwork` returns and deletes nothing of what it has
  made; nor does it when there are not two router addresses (`"ips"`).
  Sets whose error is ignored are `SaveRoute` and `SaveRouter`, and
  `SetRangeFails` where etcd itself reports the error; the history variable
  `ignored` says that this has happened.
* `SaveInfo` comes last. `SaveInfoFails` leaves the whole network behind.
* `FindAddresses` is `GetRouterIPsByTenant` of the MidoNet client, which passes over a
  router whose ports it cannot read and so may name a part of the addresses.
* `DeleteRoute` comes before `DeleteDir`. The history variable `halfDeleted` has the
  networks whose `DeleteTenant` was killed between the two.
* `DeleteDir` is the recursive deletion of `tenant/<t>`: the keys, the lock's node,
  and a delete event for every waiter. `DeletePool` comes after it.
* `overlap` says why two processes were first inside at once: `"lock"`, one that
  waited or that entered after an expiry; `"delete"`, one that entered after
  `DeleteDir`.

Left out: the keys nobody reads (`router-link`, `router-rule`, `pod/router`,
`bridge/<id>`), and the deletion of `bingding/<t>` and `result/<t>`, which follows
`DeletePool` (the second does nothing, since results are not stored by tenant).
`FillPool` is one step; `PodNetwork` and `RangeWalk` have its addresses.

### RouterIpam

`avail` is the pool, `iprange` its range, `dir` says that their directory exists,
which is there for good once a key has been set: an empty one is not taken for a
missing one. `pairs[p]` are the addresses of the tenant process `p` has initialised;
only two make a tenant (`Return`). With fewer `initNetwork` gives up, and one that has
been taken is with nobody (`TooFew`); a later step may fail, too (`LaterFails`, fault
`"midonet"`), and then MidoNet names none, one or both of them. A process runs `GetRouterIP`, or `ReleaseRouterIP` for
the addresses of another's tenant. Places 1 and 2 of a range are the pair
`refreshRouterAvailable` returns without putting it into the pool.

`ReleaseRouterIP` makes a new `Mutex` for each address and defers its `Unlock` to
the end of the function. A process is therefore up to two callers of the lock,
`<<p, 1>>` and `<<p, 2>>`; the second waits until the node of the first expires,
which is why `TTLCoversHolder` lets the TTL run out here for a process that waits
for itself. `rangeLost` is the history of a refill that went on although its range
had not been saved (`SetRangeFails`).

### RangeWalk

One behaviour is one configured range and the ranges that follow it: the check in
`Options.Default`, the loop of `CreateIPsForTenantBridge` (`kind = "bridge"`) or of
`refreshRouterAvailable` (`"router"`), one action for each iteration, then
`GetNextCIDR`. An address is a number below `Space`; `uint` has 64 bits, so only
`Long2IP`, which keeps four bytes, wraps. `Octet` stands for the 256 values of the
last byte, 254 being `Octet - 2`.

Operators marked `Mutant:` are wrong variants of the action that follows, each
the way a slip in the code would be; `PROJECT.json` says which property fails
when the variant takes the action's place.

## 3. What the runs check

All are small instances; each passing run is exhaustive. In this directory:
`tlc -config pod_safety.cfg MCPodNetwork`, `tlapm PodNetwork_proofs.tla`. `CHECK_DEADLOCK FALSE`
is set throughout, since when all processes have ended the system rests.

| Run | Instance | Checked |
|---|---|---|
| `mutex_waiters` | 3 callers, 2 faults, node may expire at any time, fair | `TypeOK`, `NoLostWakeup`, `CallsAdvance`, `LockReturns` |
| `mutex_pair` | 2 callers, one call each, deaths only, TTL covers the holder | `MutualExclusion`, `ImplementsLock` |
| `pod_safety` | 4 processes, 2 containers, one-address ranges, one fault outside etcd, lock may expire | `UniqueUnlessOverlap`, `CachedResultBacked`, `RunningPodConnected`, `NoLostAddress`, `NoOrphanPort`, `DelLeavesNothing`, `ImplementsPool` |
| `pod_progress` | 2 processes, 2 containers, one-address ranges, 2 lost answers of etcd or deaths, lock may expire, fair | `TypeOK`, `SameAnswer`, `RunsAdvance`, `Terminates` |
| `tenant_faults` | 2 processes, a tenant that is there or not, 2 faults of any kind | `WholeUnlessOverlap`, `NoSecondInit`, `FailedInitUndone`, `WaitersReached` |
| `tenant_life` | the same, 1 fault, fair | `TypeOK`, `OperationReturns` |
| `router_pool` | 4 processes, ranges of one pair and 3 more addresses, no fault | `UniqueUnlessOverlap`, `AlwaysAPair`, `NoLostAddress` |
| `router_returns` | 2 processes, 2 lost answers or deaths, fair | `TypeOK`, `ImplementsPool`, `OperationReturns` |
| `range_walk` | all ranges of a space of 64 addresses, octets of 16, 5 next ranges | `TypeOK`, `NeverShort`, `PoolExact`, `GatewayReserved`, `NeverTwice` |

* `NoLostWakeup`: a waiting process whose watcher has nothing to deliver waits
  for a node that exists. `WaitersReached` says so of the lock of a tenant, whose
  node goes away with the directory that `DeleteTenant` deletes.
* `CallsAdvance` and `RunsAdvance`: no step of anybody takes a call of `Lock` or
  `Unlock`, or a run of the plugin, back. The first counts the requests a call has
  left (`RequestsLeft`), the second gives each place in the code a number
  (`Order`, `Place`) that only grows, with the second attempts of `Bingding` and
  of `GetNewIP` and the clean-up `DEL` of a failed `ADD` behind the first ones; where a
  run stays in one place, a loop in it gets shorter. Together with
  `NoLostWakeup` this is the reason of `LockReturns` and `Terminates`.
* `MutualExclusion` holds for two callers only: with two, the one that is woken
  is alone. `ImplementsLock` is the refinement of `AbstractLock`.
* `UniqueUnlessOverlap`: no two running pods have one address, and no running
  pod's address is in the pool, unless two processes have been inside the lock
  at once (the history variable `exclusionLost`). So the races of `GetNewIP`, of
  a `DEL` against an `ADD`, of a refill against a release, and deaths in any of
  them are harmless by themselves, and the lock is the only weak point.
* `ImplementsPool`: each step of the code is one of `AddressPool`. An owner, which is a
  container or the process of a tenant, has what its keys, its ports and the
  variables of its process refer to, so that this speaks of addresses on their way,
  too: at every moment an address is in the pool, with one owner or lost; what has
  been lost does not come back, and nothing is taken but from the pool, from the
  next range or, when a tenant is deleted, from the tenant.
* `CachedResultBacked`: a result that is saved is true, also while processes work
  on its container: the address, the veth pair, the saved binding and the binding in
  MidoNet agree with it, and the port exists. `RunningPodConnected`: what an `ADD`
  has reported stays so until the `DEL`. Neither survives every
  fault: section 4 names a lost answer of etcd, and two faults together, that break them.
* `SameAnswer`: a repeated `ADD` gives the answer of the first or fails, though it may
  have taken a second address on its way, or lost the saved result to a failed
  request. What guards it is not the code's own test but the veth pair, whose name is
  taken.
* `NoLostAddress`, `NoOrphanPort`, `DelLeavesNothing`: at rest nothing has been
  lost or left over, even if the lock has expired early and let two processes in.
  They speak of behaviours without a fault (`AtRest`), because
  the code does not promise more: it leaves a port behind when the interface
  cannot be bound, and an address when the port cannot be deleted.
* `WholeUnlessOverlap`: a tenant whose `info` is there has a bridge in use, a
  router's key, both of one network of which nothing is missing, and a filled
  pool, whatever fails in MidoNet and whoever dies. It depends on the order of writes
  in `initNetwork` and of deletions in `DeleteTenant`. Excepted are an overlap of two
  processes inside the lock, the requests to etcd whose failure the code passes over,
  and the provider's route while a `DeleteTenant` is between deleting it and the
  `info`, or for good when it was killed there (`halfDeleted`).
* `NoSecondInit`: nobody is in `initNetwork` while the tenant is there; the read
  before the lock alone would not give that.
* `FailedInitUndone`: after a failed `initNetwork` no chain, port, router or link of
  the uplink is left but the one it may have failed to make. Excepted are the three
  steps after which the code deletes nothing (no two router addresses, an unreadable
  ID of the provider router, `info` not saved) and a deletion that fails, too.
* `AlwaysAPair`: every `GetRouterIP` has exactly two addresses when it returns, without
  faults and until an overlap. The test for a used-up pool, which counts `iprange` as a
  key, and the refill fit together.
* `NoLostAddress` of `RouterIpam`: without faults a pool, its tenants and a release lose
  nothing. If the lock has let two processes in, one of them may get a single
  address, which `initNetwork` throws away (`Odd`); no other is lost even then.
* `OperationReturns`: every call returns, in `RouterIpam` the self-wait
  included and in `TenantNetwork` those whose node is deleted under them.
* `PoolExact` compares what a loop has written with a set written down directly;
  `NeverShort` says that the limits of `Options.Default` (5 and 4 addresses) are
  enough for the loops; `GatewayReserved` and `NeverTwice` relate several ranges.

Bounds. One-address ranges make every second `ADD` exhaust the pool, so that
refills, releases and competing bridges happen within three processes. Four
processes on two containers allow `ADD`, repeated `ADD`, `DEL` and another pod's
`ADD` in one behaviour. Three processes are the fewest with which the lock
fails. One call each is enough for `EtcdMutex`, since a caller that returns is in
the state of one that has not called; `PodNetwork` allows two, which no process
exceeds. One fault reaches every error path; a second one lets the clean-up after
it fail or die.
Two processes on one tenant are two initialisations, two deletions or one of
each, on a tenant that is there or not. In `router_pool` four processes use up a
range of five addresses with the third call, so that refill, taking and release
meet. A space of 64 addresses has ranges of every mask from /32 to the whole
space, four octets, and five next ranges go around its end.

Fairness. `LockReturns`, `Terminates` and `OperationReturns` assume weak fairness of the
steps of each running process that meet no fault (`Step(p) /\ NoFault`): while such a
step is possible the process takes it, or moves on by one that fails. The code
justifies that: it blocks nowhere but in the watch, whose step is possible only once
the event is there, and etcd and MidoNet, when they are up, answer. And etcd expires a
node in the end, which is its TTL (`Expire`). No fairness makes the runtime start
anything or a fault happen.

### Where comments and code differ

Each of these runs has one property, a promise of a comment or a document, and
TLC shows a behaviour of the model that breaks it; `PROJECT.json` quotes the line.

| Run | Promise | What happens |
|---|---|---|
| `mutex_three` | the mutex excludes | A waiter that is woken holds no node; a newcomer creates one. No fault. |
| `pod_bridge` | an address belongs to a bridge's range | The bridge changes between `GetNewIP` and `Bingding`. No fault. |
| `tenant_delete` | `tenant/<t>/create` locks the creation of a tenant | `DeleteTenant` deletes the node of its own lock; a `GetTenant` that enters then loses the pool it has just filled. No fault. |

Other differences that reading the code for the models has shown, without a run of
their own:

* A process that spends more than 20 s inside `CreateNewBridge` fills the pool with
  addresses that are in use by then (`NoDuplicateAddress`, without the exception of
  `UniqueUnlessOverlap`, says so; midonet.go:771).
* `ReleaseIP` compares the address with `iprange` before it waits for the lock
  (etcd_ipam.go:290), so that an old address may enter a new pool.
* `GetNewIP` saves the address in CIDR notation and reads it as JSON
  (etcd_ipam.go:207, 261): a repeated `ADD` gets a second address, although the
  comment in line 200 calls it idempotent.
* `Bingding` believes a saved binding without asking MidoNet (midonet.go:718): a
  `DEL` that dies after `DeletePort` leaves one.
* Any error of the read of the saved result counts as no result (k8s.go:45): a
  repeated `ADD` then fails, and its clean-up disconnects the running pod.
* Two processes that the lock has let in may share three router addresses: one of them
  gets a single one, and `initNetwork` gives up without putting it back
  (midonet.go:348).
* Where there are no two router addresses, or the ID of the provider router cannot be
  parsed (midonet.go:353), `initNetwork` leaves the chains, the router and the addresses.
* A `DeleteTenant` killed after it has deleted the provider's route (midonet.go:896) and
  before it deletes the directory (903) leaves a tenant that is believed and has no
  such route.
* A pair of router addresses may be of two ranges (etcd_ipam.go:131 leaves old
  addresses in the pool), although the comment in line 92 shows a pair of one.
* The lock `/midonet-cni/:tenantID/pod_ip` of `pkg/ipam/README.md:5` is used nowhere.
* The gateway of a range smaller than /24 lies outside it (etcd_ipam.go:256).
* `DeleteTenant` leaves every object in MidoNet but one route, and releases the
  router addresses of ports that stay (midonet.go:921).

## 4. What is proved

For every set of processes and containers, every number of slots, faults and
calls, with `tlapm`:

* `EtcdMutex_proofs!TypeCorrect` and `WaitersAreWoken`: `Spec => []TypeOK` and
  `Spec => []NoLostWakeup`, without assumptions. `NoLostWakeup` is inductive
  together with the types: whatever removes the node wakes every watcher, and a
  process begins to watch only when it has seen a node.
* `EtcdMutex_proofs!LoopsEnd`: `Spec => CallsAdvance`, without assumptions. The types
  bound `try`, every other process's step leaves phase and counter alone, and an
  event that has come is not taken away.
* `EtcdMutex_proofs!PairMutualExclusion` and `PairImplementsLock`: for at most two
  processes with one call each, no lost answers and a TTL that covers the holder.
  The inductive invariant relates the two: whoever waits, the node is the other's
  or the other has finished; whoever has been woken, the other has finished;
  whoever is inside owns the node or the other has finished.
  `mutex_three` shows why the bound of two is needed.
* `PodNetwork_proofs!TypeCorrect`: `Spec => []TypeOK`, without assumptions. It
  needs that a started process has a container, that an address to release is
  one and that a new range is not the first.
* `PodNetwork_proofs!AddressesUnique`: `Spec => []UniqueUnlessOverlap`, assuming
  that etcd answers every request (`NoEtcdErrors`); MidoNet and the veth set-up
  may fail and processes may die. `UniqueUnlessOverlap` itself is not inductive:
  it speaks of returned results only. The invariant `PodInv` has three parts.
  `ControlInv` says what each process knows of its container: a process at
  `saveRes` has the address that is saved, one in the release part of `DEL` has
  deleted the result and the binding, `CreateNewBridge` runs inside the lock, and
  only one process works on a container. `AddressInv`, which holds while the lock
  has excluded, says that each address is in one place: `Owns` is a container's
  claim to it through a result, a binding or a process on its way, `Filling` the
  intent of `CreateNewBridge` to add it, and no address is of a range above
  `iprange`. The proof separates a step's locality (`LocalStep`: nothing of
  another process or container changes), its control flow (`ControlStep`) and its
  effect on addresses: all but four actions give nobody a new claim (`NoGain`),
  and `TakeAddress`, `PutBack`, `SetRange` and `FillPool` have a lemma each.

* `PodNetwork_proofs!RunsEnd`: `Spec => RunsAdvance`, without assumptions. A step of
  one process leaves the place of every other alone (`StepLeavesOthers`), the lock
  gives `LockAdvances`, and `RefillInv`, that the flag `refilled` is set wherever
  the second `GetNewIP` runs, makes the way back from `CreateNewBridge` to the list
  of addresses a way forward that is taken once.
* `PodConnection_proofs!CachedResultTrue` and `RunningPodsConnected`:
  `Spec => []CachedResultBacked` and `Spec => []RunningPodConnected`, under
  `OneDeath`: etcd answers every request and, if processes may die, there is one
  fault in all; without deaths MidoNet and the veth set-up may fail any number of times. The
  invariant `ConnInv` has four layers: that a saved port was made by a process of its own
  container (`PortsOwned`), what a process between two requests knows of port, binding and veth
  pair (`ProcConn`), what a saved binding means (`BindingTrue`), what a
  saved result means (`ResultTrue`). The assumption is as weak as the code allows. A `DEL` that
  cleans up after a failed `ADD` and dies between `DeletePort` and the deletion of the
  binding's key leaves a key that points to no port, and the next `ADD` believes it; and a
  read of the saved result that fails disconnects a running pod. So `BindingTrue`
  excepts containers whose `DEL` has begun, which are not added again, and when a
  process dies the proof needs that no clean-up runs yet: that is what `UntilFault`,
  the invariant up to the first fault, says.
* `PodConnection_proofs!AddressesKept`, `PortsAccountedFor` and `DeletedIsGone`:
  `Spec => []NoLostAddress`, `[]NoOrphanPort` and `[]DelLeavesNothing`, without
  assumptions and without the lock: they follow from `UntilFault`, whose part
  `QuietInv` follows each address and port from one place to the next while nothing
  has failed.
* `PodConnection_proofs!AnswersAgree`: `Spec => SameAnswer`, without assumptions, lost
  answers of etcd and any number of deaths included. `AnswerInv` says that a
  container without a veth pair has had no answer and no process that is about to
  give one, and that what is saved, what a process is about to save or
  report, and what the runtime has been told are one address.
* `RouterIpam_proofs!TypeCorrect` and `AddressesUnique`: `Spec => []TypeOK` and
  `Spec => []UniqueUnlessOverlap`, for any number of processes and faults and any
  size of a range, lost answers included. The property speaks of `pairs` only; the
  invariant `RouterInv` adds what is on its way. `Claims(p, a)` is a process's hold
  on an address through its tenant, its result or its list; an address has one
  claimant and is not in the pool then, no address is of a range above `iprange`,
  and a process about to set the range sets the next one. That holds until the
  lock fails or a range is lost, and all but a few steps only pass claims on
  (`StepTransfers`).
* `PodNetwork_proofs!PodAddressesArePooled` and
  `RouterIpam_proofs!RouterAddressesArePooled`: `Spec => ImplementsPool`, under the
  assumptions of the two theorems before. The invariants are the same; `HeldIs` says
  that `Held` is what they call claims, so that an address of one owner is neither in
  the pool nor with another. `PoolStep` reduces a step to what it does to the
  addresses of one owner.
* `RouterPool_proofs!NoAddressLost` and `PairReturned`: `Spec => []NoLostAddress` and
  `Spec => []AlwaysAPair`, for any number of processes and size of a range. `PoolInv`
  accounts, until the first fault, for each address of the range in use: in the pool,
  with a tenant, in the variables of a process that is alive, or, after an overlap, the
  single one of a process that had to give up. `PairInv` counts what a process has
  taken, until an overlap, so that nobody comes to `return` with one address or none; since the code compares the number of keys, not of
  addresses, the proof needs the cardinality of a finite pool with one more or
  less, which the library's theorems on finite sets give.
* `AddressPool_proofs!AddressInOnePlace` and `LostForGood`, about the contract alone
  and for ranges that are disjoint (`DisjointRanges`, which `PodNetwork` and `RouterIpam` have by
  the way they number addresses and `RangeWalk` shows of `GetNextCIDR`): an address
  is never with two owners, or with one and in the pool, and one that was lost does not
  come back. With `PodAddressesArePooled` and `RouterAddressesArePooled` both
  pools have these properties.
* `TenantNetwork_proofs!TypeCorrect` and `InitialisedOnce`: `Spec => []TypeOK` and
  `Spec => []NoSecondInit`. Types need that each clean-up is a sequence of objects
  (`CleanUpType`). `InitialisedOnce` needs that a process in `initNetwork` has been
  let into the lock (`Entered`): while there is no overlap, only one process can
  be inside, and only that one writes `info`.
* `TenantNetwork_proofs!WaitersAreReached`: `Spec => []WaitersReached`, without
  assumptions. It is the invariant of `EtcdMutex` once more, with the step that is not
  one of `EtcdMutex`: `DeleteDir` deletes the node and wakes every waiter.
* `TenantNetwork_proofs!BelievedIsWhole`: `Spec => []WholeUnlessOverlap`. `WholeInv`
  adds `Progress`, what a process inside `initNetwork` has made when it is at a
  step, and `Gone`, that a deletion which has come to the pool has deleted `info`
  before. The only step that sets `info` is then the last one of a process that has
  made everything else, and the steps that destroy are those of a process alone in
  the lock before or after the time `info` is there. The exception is the deletion of
  the provider's route: `WholeStays` follows it from the process that is about to
  delete the directory to the history of those killed there.
* `TenantNetwork_proofs!FailedInitCleansUp`: `Spec => []FailedInitUndone`. `UndoInv`
  follows the uplink of one process: before a step only the parts of earlier steps
  are there, during the clean-up what is there is still listed. `CleanUpCovers` is the
  fact about the code's many lists: each names every part that an earlier step has
  made.
* `RangeWalk_proofs!TypeCorrect`, `EnoughAddresses`, `PoolAsSpecified`: `TypeOK`,
  `NeverShort` and `PoolExact` for every size of the space, of an octet and of the
  configured range, 2^32 and 256 included. `WalkInv` is the invariant of each loop:
  where the cursor is, and that the pool is the reference set up to it.
* `RangeWalk_proofs!GatewayKept` and `GivenOnce`: `Spec => []GatewayReserved` and
  `Spec => []NeverTwice`. `RingInv` adds to the invariant of the loops where the walk
  is on the ring of all ranges: each range begins at a multiple
  of its size (`Aligned`), and all addresses given out lie in the stretch behind it that
  the walk has come (`Passed`), which may go round the end of the space. `MultipleOf`, `RemainderOf` and `NextMultiple` are the facts about
  division it needs, from the definitions of `%` and `\div`.

The assumptions on constants (`LockAssumption`, `PodAssumption`, `TenantAssumption`,
`NoStepAssumption`, `RouterAssumption`, `RangeAssumption`) say that the
model values for "nobody" and "none" are not processes, ports, addresses or steps and
that bounds are numbers. `MaskAssumption` is what `RangeWalk` uses of sizes being
powers of two: each divides the address space, and one of an octet or more is a
multiple of it. TLC evaluates all of them in every run.

Every invariant and every action property of a passing run is a theorem, the ones
above that name an assumption under it. Only model-checked are `LockReturns`,
`Terminates` and `OperationReturns`: liveness under fairness is out of this prover's
reach. `CallsAdvance`, `RunsAdvance`, `NoLostWakeup` and `WaitersReached` are the safety
part of their argument; that a process which is not waiting can take a step
(`ENABLED`) is what is missing.

## 5. What is left

Worth doing next, in this order:

1. The composition of `TenantNetwork` and `RouterIpam`: a tenant that is deleted and
   made again has its old ports still linked, and their addresses are released a
   second time.
2. The composition of `TenantNetwork` and `PodNetwork`: `ADD` of a pod against
   `DeleteTenant`, which deletes bindings and addresses of running pods.

Not modelled and why:

* `RegionAPI` (`pkg/ipam/region.go`): one HTTP request, no state, no caller.
* `ShellCtrl` (`pkg/vethctrl/shell.go`): runs a shell script that is not part of the
  Go program.
* The rest of `Options.Default`: it fills in a record once per process, from files,
  the environment and two keys of etcd that the program never writes. (After an
  `=` too many in the host's UUID file it returns nil and skips all that follows,
  config.go:148.)
* `main`, the CNI skeleton, logging, JSON and command-line formats: no state.
* The clients of MidoNet, keystone and etcd, the CNI library and netlink:
  third-party, modelled from how the code uses them.
