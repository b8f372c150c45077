----------------------------- MODULE RangeWalk ------------------------------
(***************************************************************************)
(* The arithmetic of address ranges: pkg/util/cidr_util.go, the two loops  *)
(* of pkg/ipam/etcd_ipam.go that write a range to a pool, the gateway, and *)
(* the check of the configured range in Options.Default.                   *)
(*                                                                         *)
(* An address is a number below Space, 2^32 in the code; uint has 64 bits, *)
(* so only Long2IP wraps.  An octet has Octet values, 256 in the code, and *)
(* 254 is Octet - 2.  One behaviour takes a configured range and then one  *)
(* next range after the other, each loop iteration a step.                 *)
(***************************************************************************)
EXTENDS Integers, FiniteSets

CONSTANTS
    Space,            \* addresses there are
    Octet,            \* values of the last byte
    Sizes,            \* sizes of ranges that may be configured
    MaxWalk           \* bound: next ranges taken

ASSUME RangeAssumption ==
    /\ Space \in Nat /\ Octet \in Nat /\ MaxWalk \in Nat
    /\ 5 <= Octet /\ Octet <= Space
    /\ Sizes \subseteq 1 .. Space

\* What follows from the sizes being those of masks, powers of two.
ASSUME MaskAssumption ==
    /\ Space % Octet = 0
    /\ \A s \in Sizes : Space % s = 0 /\ (s >= Octet => s % Octet = 0)

VARIABLES
    kind,      \* "bridge": a tenant's range, "router": the provider's
    net, size, \* the range: its network address and its number of addresses
    pc,
    iplong,    \* the walk through the range: where Next has come to
    skip,      \* addresses still to be skipped
    pair,      \* the two addresses refreshRouterAvailable returns
    pool,      \* what has been written to the pool
    earlier,   \* history: what earlier ranges have given out
    walked     \* history: how many ranges there have been

vars == <<kind, net, size, pc, iplong, skip, pair, pool, earlier, walked>>

Init ==
    /\ kind \in {"bridge", "router"}
    /\ size \in Sizes
    /\ net \in {n \in 0 .. Space - 1 : n % size = 0}
    /\ pc = "config"
    /\ iplong = 0 /\ skip = 0
    /\ pair = {} /\ pool = {} /\ earlier = {}
    /\ walked = 0

-----------------------------------------------------------------------------
\* What RangeLength has to reach.
Needed == IF kind = "bridge" THEN 4 ELSE 5

\* Mutant: the configured range is taken as it is.
Unchecked ==
    /\ pc = "config"
    /\ pc' = "new"
    /\ UNCHANGED <<kind, net, size, iplong, skip, pair, pool, earlier, walked>>

\* Options.Default: a range too small makes way for the default, a whole octet.
Default ==
    /\ pc = "config"
    /\ IF size < Needed THEN net' = 0 /\ size' = Octet ELSE UNCHANGED <<net, size>>
    /\ pc' = "new"
    /\ UNCHANGED <<kind, iplong, skip, pair, pool, earlier, walked>>

\* NewRange.
NewRange ==
    /\ pc = "new"
    /\ iplong' = net
    /\ skip' = 2
    /\ pc' = "skip"
    /\ UNCHANGED <<kind, net, size, pair, pool, earlier, walked>>

\* Range.Next, and whether the range goes on.
lastiplong == net + size - 1
RangeNext == iplong' = iplong + 1
More == iplong + 1 <= lastiplong

\* The first two addresses are not used.
SkipOne ==
    /\ pc = "skip"
    /\ RangeNext
    /\ skip' = skip - 1
    /\ pc' = CASE ~More -> "short"
               [] More /\ skip > 1 -> "skip"
               [] More /\ skip = 1 -> IF kind = "bridge" THEN "fill" ELSE "pair"
    /\ UNCHANGED <<kind, net, size, pair, pool, earlier, walked>>

\* The next two are returned by refreshRouterAvailable.
TakePair ==
    /\ pc = "pair"
    /\ pair' = pair \cup {iplong}
    /\ RangeNext
    /\ pc' = CASE Cardinality(pair') = 2 -> IF More THEN "fill" ELSE "filled"
               [] Cardinality(pair') # 2 -> IF More THEN "pair" ELSE "short"
    /\ UNCHANGED <<kind, net, size, skip, pool, earlier, walked>>

\* The last byte is 254.
IsGateway(a) == a % Octet = Octet - 2

\* Mutant: the gateway's address is put into the pool as well.
PutsEvery ==
    /\ pc = "fill" /\ More
    /\ pool' = pool \cup {iplong}
    /\ RangeNext
    /\ UNCHANGED <<kind, net, size, pc, skip, pair, earlier, walked>>

\* One address into the pool.
Put ==
    /\ pc = "fill" /\ More
    /\ pool' = pool \cup (IF kind = "bridge" /\ IsGateway(iplong) THEN {} ELSE {iplong})
    /\ RangeNext
    /\ UNCHANGED <<kind, net, size, pc, skip, pair, earlier, walked>>

\* Mutant: the last address of the range is used, too.
PutsLast ==
    /\ pc = "fill" /\ ~More
    /\ pool' = pool \cup {iplong}
    /\ RangeNext
    /\ pc' = "filled"
    /\ UNCHANGED <<kind, net, size, skip, pair, earlier, walked>>

\* The last address of the range is not used.
EndOfRange ==
    /\ pc = "fill" /\ ~More
    /\ RangeNext
    /\ pc' = "filled"
    /\ UNCHANGED <<kind, net, size, skip, pair, pool, earlier, walked>>

\* Mutant: the last byte but one is counted up, as for a /24.
NextOctet ==
    /\ pc = "filled"
    /\ walked < MaxWalk
    /\ net' = (net + Octet) % Space
    /\ earlier' = earlier \cup pool \cup pair
    /\ pair' = {} /\ pool' = {}
    /\ walked' = walked + 1
    /\ pc' = "new"
    /\ UNCHANGED <<kind, size, iplong, skip>>

\* Mutant: the sum is not brought back into the address space.
NoWrap ==
    /\ pc = "filled"
    /\ walked < MaxWalk
    /\ net' = net + size
    /\ earlier' = earlier \cup pool \cup pair
    /\ pair' = {} /\ pool' = {}
    /\ walked' = walked + 1
    /\ pc' = "new"
    /\ UNCHANGED <<kind, size, iplong, skip>>

\* All addresses are in use: the next range, from whichever there was.
GetNextCIDR ==
    /\ pc = "filled"
    /\ walked < MaxWalk
    /\ net' = (net + size) % Space
    /\ earlier' = earlier \cup pool \cup pair
    /\ pair' = {} /\ pool' = {}
    /\ walked' = walked + 1
    /\ pc' = "new"
    /\ UNCHANGED <<kind, size, iplong, skip>>

Next ==
    \/ Default \/ NewRange \/ SkipOne \/ TakePair \/ Put \/ EndOfRange
    \/ GetNextCIDR

Spec == Init /\ [][Next]_vars

-----------------------------------------------------------------------------
\* Properties.

\* The address next to the last octet of the range's network, which
\* CreateBridgeLinkRouter gives the router's port and GetNewIP every pod.
Gateway == (net + Octet - 2) % Space

TypeOK ==
    /\ kind \in {"bridge", "router"}
    /\ size \in 1 .. Space
    /\ net \in 0 .. Space - 1
    /\ pc \in {"config", "new", "skip", "pair", "fill", "filled", "short"}
    /\ iplong \in Nat
    /\ skip \in 0 .. 2
    /\ pair \subseteq Nat
    /\ pool \subseteq Nat
    /\ earlier \subseteq Nat
    /\ walked \in 0 .. MaxWalk

\* A range that Options.Default lets pass is large enough for the loops: they
\* never report a shortage of addresses.
NeverShort == pc # "short"

\* The reference: which addresses are in the pool of a range, and which are
\* returned.
PoolExact ==
    pc = "filled" =>
        /\ pair = IF kind = "bridge" THEN {} ELSE {net + 2, net + 3}
        /\ pool = IF kind = "bridge"
                  THEN {a \in net + 2 .. net + size - 2 : ~IsGateway(a)}
                  ELSE net + 4 .. net + size - 2

\* A range of whole octets has its gateway within it, and no pod gets the
\* gateway's address, from this range or an earlier one.  (The gateway of a
\* smaller range is outside it: a /25 gives it to pods of another range.)
GatewayReserved ==
    pc = "filled" /\ kind = "bridge" /\ size >= Octet =>
        /\ Gateway \in net .. lastiplong
        /\ Gateway \notin pool \cup earlier

\* No address is given out a second time before the walk has been all around
\* the address space.
NeverTwice ==
    walked * size < Space => (pool \cup pair) \cap earlier = {}
=============================================================================
