----------------------------- MODULE RouterIpam -----------------------------
(***************************************************************************)
(* The addresses of the ports that link tenant routers to the provider     *)
(* router: GetRouterIP, refreshRouterAvailable and ReleaseRouterIP of      *)
(* pkg/ipam/etcd_ipam.go.  Each process runs one of them, for a tenant of  *)
(* its own: GetRouterIP while it initialises the tenant, ReleaseRouterIP   *)
(* while it deletes one that an earlier process has initialised.           *)
(*                                                                         *)
(* Both take the lock router_ip: EtcdMutex.  ReleaseRouterIP takes it once *)
(* for each address, through a Mutex of its own, and its deferred Unlocks  *)
(* run only when it returns.  So a process is up to two callers of the     *)
(* lock, <<p, 1>> and <<p, 2>>, and the second waits for the first.        *)
(***************************************************************************)
EXTENDS Naturals, FiniteSets

CONSTANTS
    Procs, Nobody, DefaultTry, FaultKinds, MaxFaults,
    TTLCoversHolder,  \* TRUE: the TTL runs out only for one who waits for himself
    PoolSize          \* addresses of a range but its first four and its last

ASSUME RouterAssumption ==
    /\ Nobody \notin Procs \X {1, 2}
    /\ DefaultTry \in Nat \ {0}
    /\ MaxFaults \in Nat
    /\ PoolSize \in Nat
    /\ TTLCoversHolder \in BOOLEAN

VARIABLES
    node, phase, try, calls, woken, faults,   \* EtcdMutex
    exclusionLost,   \* history: two processes have been inside the lock at once
    rangeLost,       \* history: a pool has been filled whose range was not saved
    \* Keys in etcd.
    avail,           \* ip/router/available/*: the pool
    iprange,         \* ip/router/available/iprange: number of the range, or 0
    dir,             \* the directory ip/router/available exists
    \* MidoNet.
    pairs,           \* the router addresses of the tenant each process has made
    \* A plugin process.
    pc, turn, todo, got, next

lockState == <<node, phase, try, calls, woken>>
history == <<exclusionLost, rangeLost>>
locals == <<turn, todo, got, next>>

vars == <<lockState, faults, history, avail, iprange, dir, pairs, pc, locals>>

Callers == Procs \X {1, 2}

\* Whether the TTL covers the holder is decided below, in Expire.
L == INSTANCE EtcdMutex
        WITH Procs <- Callers, MaxCalls <- 1, TTLCoversHolder <- FALSE

\* An address is the number of its range and its place in the range, not
\* counting the first two and the last address, which are never used.
Address == (Nat \ {0}) \X (1 .. PoolSize + 2)
Pair(r) == {r} \X {1, 2}
Pool(r) == {r} \X (3 .. PoolSize + 2)
RangeOf(a) == a[1]

Labels == {"start", "get", "readRange", "setRange", "fill", "take",
           "return", "relRange", "release", "unlock", "done"}

TypeOK ==
    /\ L!TypeOK
    /\ exclusionLost \in BOOLEAN
    /\ rangeLost \in BOOLEAN
    /\ avail \subseteq Address
    /\ iprange \in Nat
    /\ dir \in BOOLEAN
    /\ pairs \in [Procs -> SUBSET Address]
    /\ pc \in [Procs -> Labels]
    /\ turn \in [Procs -> {1, 2}]
    /\ todo \in [Procs -> SUBSET Address]
    /\ got \in [Procs -> SUBSET Address]
    /\ next \in [Procs -> Nat]

Init ==
    /\ L!Init
    /\ exclusionLost = FALSE
    /\ rangeLost = FALSE
    /\ avail = {}
    /\ iprange = 0
    /\ dir = FALSE
    /\ pairs = [p \in Procs |-> {}]
    /\ pc = [p \in Procs |-> "start"]
    /\ turn = [p \in Procs |-> 1]
    /\ todo = [p \in Procs |-> {}]
    /\ got = [p \in Procs |-> {}]
    /\ next = [p \in Procs |-> 0]

-----------------------------------------------------------------------------
Me(p) == <<p, turn[p]>>
Goto(p, label) == pc' = [pc EXCEPT ![p] = label]
At(p, label) == pc[p] = label /\ phase[Me(p)] = "idle"
Inside(p, label) == pc[p] = label /\ phase[Me(p)] = "held"

NoFault == UNCHANGED faults
Fault(k) == L!Fault(k)

\* The deferred Unlocks of p begin with the one that was deferred last.
Leave(p, label) == L!EnterUnlock(Me(p)) /\ Goto(p, label)

Dead(p) == phase[<<p, 1>>] = "dead"
Live(p) == pc[p] \notin {"start", "done"} /\ ~Dead(p)

\* The first key that is set makes the directory.
SaveRange(r) == iprange' = r /\ dir' = TRUE
Put(a) == avail' = avail \cup {a} /\ dir' = TRUE

-----------------------------------------------------------------------------
\* GetRouterIP, inside the lock.

StartGet(p) ==
    /\ At(p, "start")
    /\ Goto(p, "get")
    /\ UNCHANGED <<lockState, faults, history, avail, iprange, dir, pairs, locals>>

\* An error ends GetRouterIP.  (One that etcd itself reports, other than
\* KeyNotFound, makes it read the missing answer and panic; the deferred Unlock
\* runs then, too.)
GetFails(p) ==
    /\ Inside(p, "get") \/ Inside(p, "readRange")
    /\ Fault("etcd")
    /\ Leave(p, "return")
    /\ UNCHANGED <<history, avail, iprange, dir, pairs, locals>>

\* How many keys there are in ip/router/available, iprange among them.
Keys == Cardinality(avail) + (IF iprange = 0 THEN 0 ELSE 1)

\* Without the directory the first range is the configured one.
ReadMissing(p) ==
    /\ Inside(p, "get")
    /\ ~dir
    /\ next' = [next EXCEPT ![p] = 1]
    /\ Goto(p, "setRange")
    /\ UNCHANGED <<lockState, faults, history, avail, iprange, dir, pairs, turn, todo, got>>

ReadFew(p) ==
    /\ Inside(p, "get")
    /\ dir /\ Keys < 3
    /\ Goto(p, "readRange")
    /\ UNCHANGED <<lockState, faults, history, avail, iprange, dir, pairs, locals>>

\* Mutant: two keys, one of them iprange, are taken to be enough.
ReadEnoughOffByOne(p) ==
    /\ Inside(p, "get")
    /\ Keys >= 2
    /\ todo' = [todo EXCEPT ![p] = avail]
    /\ Goto(p, "take")
    /\ UNCHANGED <<lockState, faults, history, avail, iprange, dir, pairs, turn, got, next>>

ReadEnough(p) ==
    /\ Inside(p, "get")
    /\ Keys >= 3
    /\ todo' = [todo EXCEPT ![p] = avail]
    /\ Goto(p, "take")
    /\ UNCHANGED <<lockState, faults, history, avail, iprange, dir, pairs, turn, got, next>>

\* Mutant: the range in use is filled once more.
SameRange(p) ==
    /\ Inside(p, "readRange")
    /\ iprange # 0
    /\ next' = [next EXCEPT ![p] = iprange]
    /\ Goto(p, "setRange")
    /\ UNCHANGED <<lockState, faults, history, avail, iprange, dir, pairs, turn, todo, got>>

\* GetNextCIDR.  Addresses of the old range stay in the pool.
NextRange(p) ==
    /\ Inside(p, "readRange")
    /\ iprange # 0
    /\ next' = [next EXCEPT ![p] = iprange + 1]
    /\ Goto(p, "setRange")
    /\ UNCHANGED <<lockState, faults, history, avail, iprange, dir, pairs, turn, todo, got>>

RangeMissing(p) ==
    /\ Inside(p, "readRange")
    /\ iprange = 0
    /\ Leave(p, "return")
    /\ UNCHANGED <<faults, history, avail, iprange, dir, pairs, locals>>

-----------------------------------------------------------------------------
\* refreshRouterAvailable.

\* What follows once the Set of the range has not ended the function: the two
\* addresses it returns never pass through the pool.
BeginFill(p) ==
    /\ got' = [got EXCEPT ![p] = Pair(next[p])]
    /\ todo' = [todo EXCEPT ![p] = Pool(next[p])]
    /\ Goto(p, "fill")
    /\ UNCHANGED <<lockState, turn, next>>

SetRange(p) ==
    /\ Inside(p, "setRange")
    /\ SaveRange(next[p])
    /\ NoFault
    /\ BeginFill(p)
    /\ UNCHANGED <<history, avail, pairs>>

\* An error that does not come from etcd itself ends the function; after one
\* that does it goes on as if the range had been saved.
SetRangeFails(p) ==
    /\ Inside(p, "setRange")
    /\ Fault("etcd")
    /\ SaveRange(next[p]) \/ UNCHANGED <<iprange, dir>>
    /\ \/ Leave(p, "return") /\ UNCHANGED <<rangeLost, locals>>
       \/ BeginFill(p) /\ rangeLost' = (rangeLost \/ iprange' # next[p])
    /\ UNCHANGED <<exclusionLost, avail, pairs>>

\* The rest of the range in ascending order; errors are ignored.
FillPool(p) ==
    /\ Inside(p, "fill")
    /\ \E a \in todo[p] :
          /\ \A b \in todo[p] : a[2] <= b[2]
          /\ \/ NoFault /\ Put(a)
             \/ Fault("etcd") /\ UNCHANGED <<avail, dir>>
          /\ todo' = [todo EXCEPT ![p] = @ \ {a}]
    /\ UNCHANGED <<lockState, history, iprange, pairs, pc, turn, got, next>>

Filled(p) ==
    /\ Inside(p, "fill")
    /\ todo[p] = {}
    /\ Leave(p, "return")
    /\ UNCHANGED <<faults, history, avail, iprange, dir, pairs, locals>>

-----------------------------------------------------------------------------
\* The loop of GetRouterIP over the listed addresses.

TakeAddress(p) ==
    /\ Inside(p, "take")
    /\ Cardinality(got[p]) < 2
    /\ \E a \in todo[p] \cap avail :
          /\ avail' = avail \ {a}
          /\ got' = [got EXCEPT ![p] = @ \cup {a}]
          /\ todo' = [todo EXCEPT ![p] = @ \ {a}]
    /\ UNCHANGED <<lockState, faults, history, iprange, dir, pairs, pc, turn, next>>

\* The address is gone, or the answer of the Delete is lost.
SkipAddress(p) ==
    /\ Inside(p, "take")
    /\ Cardinality(got[p]) < 2
    /\ \E a \in todo[p] :
          /\ \/ a \notin avail /\ NoFault /\ UNCHANGED avail
             \/ Fault("etcd") /\ avail' \in {avail, avail \ {a}}
          /\ todo' = [todo EXCEPT ![p] = @ \ {a}]
    /\ UNCHANGED <<lockState, history, iprange, dir, pairs, pc, turn, got, next>>

\* Two addresses, or as many as there were.
Taken(p) ==
    /\ Inside(p, "take")
    /\ Cardinality(got[p]) = 2 \/ todo[p] = {}
    /\ Leave(p, "return")
    /\ UNCHANGED <<faults, history, avail, iprange, dir, pairs, locals>>

-----------------------------------------------------------------------------
\* ReleaseRouterIP, of the addresses MidoNet names for a tenant.

StartRelease(p, q) ==
    /\ At(p, "start")
    /\ pairs[q] # {}
    /\ todo' = [todo EXCEPT ![p] = pairs[q]]
    /\ pairs' = [pairs EXCEPT ![q] = {}]
    /\ Goto(p, "relRange")
    /\ UNCHANGED <<lockState, faults, history, avail, iprange, dir, turn, got, next>>

\* The addresses of the range in use are released, the others are forgotten.
CompareRange(p) ==
    /\ At(p, "relRange")
    /\ NoFault
    /\ LET own == {a \in todo[p] : RangeOf(a) = iprange} IN
          /\ todo' = [todo EXCEPT ![p] = own]
          /\ Goto(p, IF own = {} THEN "done" ELSE "release")
    /\ UNCHANGED <<lockState, history, avail, iprange, dir, pairs, turn, got, next>>

CompareFails(p) ==
    /\ At(p, "relRange")
    /\ Fault("etcd")
    /\ Goto(p, "done")
    /\ UNCHANGED <<lockState, history, avail, iprange, dir, pairs, locals>>

\* Mutant: one of the addresses is not put back.
DropsAddress(p) ==
    /\ Inside(p, "release")
    /\ NoFault
    /\ todo' = [todo EXCEPT ![p] = {}]
    /\ Leave(p, "unlock")
    /\ UNCHANGED <<history, avail, iprange, dir, pairs, turn, got, next>>

\* One address, inside the lock.  The next one takes the lock once more,
\* through another Mutex, before the first has given it back.
PutBack(p) ==
    /\ Inside(p, "release")
    /\ \E a \in todo[p] :
          /\ \/ NoFault /\ Put(a)
             \/ Fault("etcd") /\ UNCHANGED <<avail, dir>>
          /\ todo' = [todo EXCEPT ![p] = @ \ {a}]
          /\ IF todo[p] = {a}
             THEN Leave(p, "unlock") /\ UNCHANGED turn
             ELSE turn' = [turn EXCEPT ![p] = 2] /\ UNCHANGED <<lockState, pc>>
    /\ UNCHANGED <<history, iprange, pairs, got, next>>

-----------------------------------------------------------------------------
\* The lock, and the end of both operations.

Overlap == \E c, d \in Callers :
    c[1] # d[1] /\ phase[c] = "held" /\ phase[d] = "held"

CallLock(p) ==
    /\ pc[p] \in {"get", "release"}
    /\ L!CallLock(Me(p))
    /\ UNCHANGED <<history, avail, iprange, dir, pairs, pc, locals>>

Lock(p) ==
    /\ L!LockStep(Me(p))
    /\ exclusionLost' = (exclusionLost \/ Overlap')
    /\ UNCHANGED <<rangeLost, avail, iprange, dir, pairs, pc, locals>>

Unlock(p) ==
    /\ L!UnlockStep(Me(p))
    /\ UNCHANGED <<history, avail, iprange, dir, pairs, pc, locals>>

\* The other deferred Unlock.
UnlockFirst(p) ==
    /\ At(p, "unlock")
    /\ turn[p] = 2
    /\ turn' = [turn EXCEPT ![p] = 1]
    /\ L!EnterUnlock(<<p, 1>>)
    /\ UNCHANGED <<faults, history, avail, iprange, dir, pairs, pc, todo, got, next>>

Released(p) ==
    /\ At(p, "unlock")
    /\ turn[p] = 1
    /\ Goto(p, "done")
    /\ UNCHANGED <<lockState, faults, history, avail, iprange, dir, pairs, locals>>

\* initNetwork goes on: the pair becomes the addresses of two ports, and is one
\* process's alone.
Return(p) ==
    /\ At(p, "return")
    /\ Cardinality(got[p]) = 2
    /\ pairs' = [pairs EXCEPT ![p] = got[p]]
    /\ Goto(p, "done")
    /\ UNCHANGED <<lockState, faults, history, avail, iprange, dir, locals>>

\* Without two addresses it gives up, and one that has been taken is nobody's.
TooFew(p) ==
    /\ At(p, "return")
    /\ Cardinality(got[p]) # 2
    /\ Goto(p, "done")
    /\ UNCHANGED <<lockState, faults, history, avail, iprange, dir, pairs, locals>>

\* A later step of it fails.  Of a tenant half-made MidoNet may name no address,
\* one or both.
LaterFails(p) ==
    /\ At(p, "return")
    /\ Cardinality(got[p]) = 2
    /\ Fault("midonet")
    /\ \E named \in SUBSET got[p] : pairs' = [pairs EXCEPT ![p] = named]
    /\ Goto(p, "done")
    /\ UNCHANGED <<lockState, history, avail, iprange, dir, locals>>

-----------------------------------------------------------------------------
\* The process is killed.
Crash(p) ==
    /\ Live(p)
    /\ Fault("crash")
    /\ phase' = [c \in Callers |-> IF c[1] = p THEN "dead" ELSE phase[c]]
    /\ UNCHANGED <<node, try, calls, woken, history, avail, iprange, dir, pairs, pc, locals>>

\* No one but a process that waits for its own node need be slower than 20 s.
WaitsForItself(p) == phase[<<p, 1>>] = "held" /\ phase[<<p, 2>>] = "watch"

Expire ==
    /\ node # Nobody
    /\ TTLCoversHolder =>
          phase[node] \notin {"held", "delete"} \/ WaitsForItself(node[1])
    /\ L!Expire
    /\ UNCHANGED <<history, avail, iprange, dir, pairs, pc, locals>>

GetRouterIP(p) ==
    \/ GetFails(p) \/ ReadMissing(p) \/ ReadFew(p) \/ ReadEnough(p)
    \/ NextRange(p) \/ RangeMissing(p)
    \/ SetRange(p) \/ SetRangeFails(p) \/ FillPool(p) \/ Filled(p)
    \/ TakeAddress(p) \/ SkipAddress(p) \/ Taken(p)

ReleaseRouterIP(p) ==
    CompareRange(p) \/ CompareFails(p) \/ PutBack(p) \/ UnlockFirst(p) \/ Released(p)

InitNetwork(p) == Return(p) \/ TooFew(p) \/ LaterFails(p)

Step(p) ==
    \/ GetRouterIP(p) \/ InitNetwork(p) \/ ReleaseRouterIP(p)
    \/ CallLock(p) \/ Lock(p) \/ Unlock(p)

Next ==
    \/ \E p \in Procs :
          \/ StartGet(p)
          \/ \E q \in Procs : StartRelease(p, q)
          \/ Step(p)
          \/ Crash(p)
    \/ Expire

Spec == Init /\ [][Next]_vars

\* A running process goes on as long as a step without a fault is possible, and
\* etcd expires the node of a lock in the end.  No fault has to happen.
Fairness == (\A p \in Procs : WF_vars(Step(p) /\ NoFault)) /\ WF_vars(Expire)

FairSpec == Spec /\ Fairness

-----------------------------------------------------------------------------
\* Properties.

AtRest == \A p \in Procs : ~Live(p)

\* As long as the lock has excluded and no refill has gone on without saving
\* its range, two tenants' routers never share an address, and none of them has
\* one that is still in the pool.
UniqueUnlessOverlap ==
    ~exclusionLost /\ ~rangeLost =>
        \A p \in Procs :
            /\ pairs[p] \cap avail = {}
            /\ \A q \in Procs \ {p} : pairs[p] \cap pairs[q] = {}

\* Every GetRouterIP returns two addresses (midonet.go gives up if it does not,
\* and leaves what it has made behind): the test for a used-up pool, which counts
\* iprange as well, and the refill leave no gap between them.
AlwaysAPair ==
    ~exclusionLost /\ faults = 0 =>
        \A p \in Procs : pc[p] = "return" => Cardinality(got[p]) = 2

\* The one address of a call that did not get a second, if the lock has failed.
Odd(p) ==
    IF exclusionLost /\ pc[p] = "done" /\ Cardinality(got[p]) = 1 THEN got[p] ELSE {}

Whole(r) == Pair(r) \cup Pool(r)

\* While nothing goes on, every address of the range in use but its first two
\* and its last is in the pool or at a tenant's router.  Once the lock has let
\* two processes in, initNetwork may throw away an address it got without a
\* second, and no other is lost even then.
NoLostAddress ==
    AtRest /\ faults = 0 /\ iprange # 0 =>
        Whole(iprange) \subseteq avail \cup UNION {pairs[p] \cup Odd(p) : p \in Procs}

\* What process p has taken, for its tenant, to return it or to put it into the
\* pool.
Held(p) ==
    pairs[p] \cup (IF pc[p] # "done" THEN got[p] ELSE {})
             \cup (IF pc[p] \in {"fill", "relRange", "release"} THEN todo[p] ELSE {})

\* The router addresses are an address pool until the lock has failed or a range
\* has been lost: also on its way between the pool and a tenant an address is
\* in one place.
AP == INSTANCE AddressPool
        WITH Owners <- Procs, AddressesOf <- Whole, free <- avail,
             held <- [p \in Procs |-> Held(p)], top <- iprange,
             broken <- exclusionLost \/ rangeLost
ImplementsPool == AP!Spec

\* Every call returns: the process that waits for the node it has created
\* itself is released by the TTL.
OperationReturns == \A p \in Procs : Live(p) ~> ~Live(p)
=============================================================================
