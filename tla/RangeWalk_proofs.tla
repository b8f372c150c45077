-------------------------- MODULE RangeWalk_proofs --------------------------
(***************************************************************************)
(* For every size of the address space and of an octet, and every set of   *)
(* range sizes that may be configured: the loops over a range never run    *)
(* short, and put exactly the addresses of the reference into the pool.    *)
(***************************************************************************)
EXTENDS RangeWalk, FiniteSetTheorems, TLAPS

\* The first address that goes into the pool, and the two before it.
First == IF kind = "bridge" THEN net + 2 ELSE net + 4
Returned == IF kind = "bridge" THEN {} ELSE {net + 2, net + 3}

\* What the pool has when the walk has come to an address.
Below(last) ==
    {a \in First .. last : kind = "bridge" => ~IsGateway(a)}

\* Where each loop is.  Options.Default is what makes the size sufficient.
WalkInv ==
    /\ pc # "config" => size >= Needed
    /\ pc \in {"config", "new", "skip"} => pair = {} /\ pool = {}
    /\ pc = "skip" => skip \in 1 .. 2 /\ iplong = net + 2 - skip
    /\ pc = "pair" =>
          /\ kind = "router" /\ pool = {}
          /\ \/ pair = {} /\ iplong = net + 2
             \/ pair = {net + 2} /\ iplong = net + 3
    /\ pc = "fill" => iplong \in First .. lastiplong
    /\ pc \in {"fill", "filled"} => pair = Returned
    /\ pc = "fill" => pool = Below(iplong - 1)
    /\ pc = "filled" => pool = Below(lastiplong - 1)
    /\ pc # "short"

IInv == TypeOK /\ WalkInv

-----------------------------------------------------------------------------
\* A walk begins with a type-correct state and nothing in the pool.
LEMMA InitInv == Init => IInv
  BY RangeAssumption DEF Init, IInv, TypeOK, WalkInv

\* Options.Default leaves a size that is sufficient.
LEMMA DefaultInv == IInv /\ Default => IInv'
  BY RangeAssumption DEF IInv, TypeOK, WalkInv, Default, Needed

\* A new walk starts at the network address.
LEMMA NewRangeInv == IInv /\ NewRange => IInv'
  BY DEF IInv, TypeOK, WalkInv, NewRange, Needed

\* The two addresses that are skipped exist.
LEMMA SkipInv == IInv /\ SkipOne => IInv'
<1> SUFFICES ASSUME IInv, SkipOne PROVE IInv'
  OBVIOUS
<1>1. skip \in 1 .. 2 /\ iplong = net + 2 - skip /\ size >= Needed /\ pc = "skip"
  BY DEF IInv, WalkInv, SkipOne
<1>2. net \in Nat /\ size \in Nat /\ kind \in {"bridge", "router"}
  BY RangeAssumption DEF IInv, TypeOK
<1>3. More
  BY <1>1, <1>2 DEF More, lastiplong, Needed
<1>4. pair = {} /\ pool = {}
  BY DEF IInv, WalkInv, SkipOne
<1>5. TypeOK'
  BY <1>1, <1>2, <1>3 DEF IInv, TypeOK, SkipOne, RangeNext
<1>6. WalkInv'
  <2>1. CASE skip = 2
    BY <2>1, <1>1, <1>2, <1>3, <1>4 DEF SkipOne, RangeNext, WalkInv, Needed
  <2>2. CASE skip = 1 /\ kind = "bridge"
    <3>1. pc' = "fill" /\ iplong' = net + 2
      BY <2>2, <1>1, <1>2, <1>3 DEF SkipOne, RangeNext
    <3>2. pool' = Below(iplong' - 1)
      BY <2>2, <3>1, <1>2, <1>4 DEF Below, First, SkipOne
    <3> QED
      BY <2>2, <3>1, <3>2, <1>1, <1>2, <1>4
      DEF SkipOne, WalkInv, Needed, First, Returned, Below, lastiplong, IsGateway
  <2>3. CASE skip = 1 /\ kind = "router"
    BY <2>3, <1>1, <1>2, <1>3, <1>4 DEF SkipOne, RangeNext, WalkInv, Needed
  <2> QED
    BY <2>1, <2>2, <2>3, <1>1, <1>2
<1> QED
  BY <1>5, <1>6 DEF IInv

\* So do the two that are returned, and at least one after them.
LEMMA PairInv == IInv /\ TakePair => IInv'
<1> SUFFICES ASSUME IInv, TakePair PROVE IInv'
  OBVIOUS
<1>1. /\ pc = "pair" /\ kind = "router" /\ pool = {} /\ size >= 5
      /\ \/ pair = {} /\ iplong = net + 2
         \/ pair = {net + 2} /\ iplong = net + 3
  BY DEF IInv, WalkInv, TakePair, Needed
<1>2. net \in Nat /\ size \in Nat
  BY RangeAssumption DEF IInv, TypeOK
<1>3. More
  BY <1>1, <1>2 DEF More, lastiplong
<1>4. CASE pair = {} /\ iplong = net + 2
  <2>1. pair' = {net + 2} /\ Cardinality(pair') = 1
    BY <1>4, FS_Singleton DEF TakePair
  <2>2. pc' = "pair" /\ iplong' = net + 3
    BY <1>2, <1>3, <1>4, <2>1 DEF TakePair, RangeNext
  <2> QED
    BY <1>1, <1>2, <2>1, <2>2 DEF IInv, TypeOK, WalkInv, TakePair, Needed
<1>5. CASE pair = {net + 2} /\ iplong = net + 3
  <2>1. pair' = {net + 2} \cup {net + 3}
    BY <1>5 DEF TakePair
  <2>2. Cardinality(pair') = 2
    <3>1. IsFiniteSet({net + 2}) /\ Cardinality({net + 2}) = 1
      BY FS_Singleton
    <3>2. net + 3 \notin {net + 2}
      BY <1>2
    <3> QED
      BY <2>1, <3>1, <3>2, FS_AddElement
  <2>3. pc' = "fill" /\ iplong' = net + 4
    BY <1>2, <1>3, <1>5, <2>2 DEF TakePair, RangeNext
  <2>4. UNCHANGED <<kind, net, size, skip, pool, earlier, walked>>
    BY DEF TakePair
  <2> QED
    BY <1>1, <1>2, <2>1, <2>3, <2>4
    DEF IInv, TypeOK, WalkInv, Needed, First, Returned, Below, lastiplong, IsGateway
<1> QED
  BY <1>1, <1>4, <1>5

\* One more address has been walked over, and put unless it is the gateway's.
LEMMA PutInv == IInv /\ Put => IInv'
<1> SUFFICES ASSUME IInv, Put PROVE IInv'
  OBVIOUS
<1>1. /\ pc = "fill" /\ pc' = "fill" /\ iplong' = iplong + 1
      /\ UNCHANGED <<kind, net, size, skip, pair, earlier, walked>>
      /\ pool' = pool \cup (IF kind = "bridge" /\ IsGateway(iplong) THEN {} ELSE {iplong})
  BY DEF Put, RangeNext
<1>2. net \in Nat /\ size \in Nat /\ iplong \in Nat /\ kind \in {"bridge", "router"}
  BY RangeAssumption DEF IInv, TypeOK
<1>3. iplong \in First .. lastiplong /\ iplong + 1 <= lastiplong
  BY DEF IInv, WalkInv, Put, More
<1>4. pool = Below(iplong - 1)
  BY <1>1 DEF IInv, WalkInv
<1>5. pool' = Below(iplong)
  BY <1>1, <1>2, <1>3, <1>4 DEF Below, First
<1>6. Below(iplong) = (Below(iplong - 1))'
  BY <1>1, <1>2 DEF Below, First, IsGateway
<1>7. TypeOK'
  BY <1>1, <1>2 DEF IInv, TypeOK
<1>8. WalkInv'
  BY <1>1, <1>2, <1>3, <1>5, <1>6
  DEF IInv, WalkInv, Needed, First, Returned, lastiplong
<1> QED
  BY <1>7, <1>8 DEF IInv

\* The walk ends at the last address.
LEMMA EndInv == IInv /\ EndOfRange => IInv'
<1> SUFFICES ASSUME IInv, EndOfRange PROVE IInv'
  OBVIOUS
<1>1. /\ pc = "fill" /\ pc' = "filled" /\ iplong' = iplong + 1
      /\ UNCHANGED <<kind, net, size, skip, pair, pool, earlier, walked>>
  BY DEF EndOfRange, RangeNext
<1>2. net \in Nat /\ size \in Nat /\ iplong \in Nat
  BY RangeAssumption DEF IInv, TypeOK
<1>3. iplong = lastiplong
  BY <1>1, <1>2 DEF IInv, WalkInv, EndOfRange, More, lastiplong, First
<1>4. (Below(lastiplong - 1))' = Below(lastiplong - 1)
  BY <1>1 DEF Below, First, lastiplong, IsGateway
<1>5. TypeOK'
  BY <1>1, <1>2 DEF IInv, TypeOK
<1>6. WalkInv'
  BY <1>1, <1>3, <1>4 DEF IInv, WalkInv, Needed, Returned
<1> QED
  BY <1>5, <1>6 DEF IInv

\* The next range lies in the address space.
LEMMA NextCIDRInv == IInv /\ GetNextCIDR => IInv'
<1> SUFFICES ASSUME IInv, GetNextCIDR PROVE IInv'
  OBVIOUS
<1>1. net \in Nat /\ size \in Nat /\ Space \in Nat \ {0}
  BY RangeAssumption DEF IInv, TypeOK
<1>2. (net + size) % Space \in 0 .. Space - 1
  BY <1>1
<1>3. walked + 1 \in 0 .. MaxWalk
  BY RangeAssumption DEF IInv, TypeOK, GetNextCIDR
<1>4. earlier \cup pool \cup pair \subseteq Nat
  BY DEF IInv, TypeOK
<1>5. TypeOK'
  BY <1>2, <1>3, <1>4 DEF IInv, TypeOK, GetNextCIDR
<1>6. WalkInv'
  BY DEF IInv, WalkInv, GetNextCIDR, Needed
<1> QED
  BY <1>5, <1>6 DEF IInv

\* Every step keeps the invariant.
LEMMA NextInv == IInv /\ [Next]_vars => IInv'
<1> SUFFICES ASSUME IInv, [Next]_vars PROVE IInv'
  OBVIOUS
<1>1. CASE Next
  BY <1>1, DefaultInv, NewRangeInv, SkipInv, PairInv, PutInv, EndInv, NextCIDRInv DEF Next
<1>2. CASE UNCHANGED vars
  BY <1>2 DEF vars, IInv, TypeOK, WalkInv, Needed, First, Returned, Below, lastiplong, IsGateway
<1> QED
  BY <1>1, <1>2

\* The invariant says that the pool is the one of the reference.
LEMMA InvPool == IInv => PoolExact
<1> SUFFICES ASSUME IInv, pc = "filled" PROVE PoolExact
  BY DEF PoolExact
<1>1. net \in Nat /\ size \in Nat /\ kind \in {"bridge", "router"}
  BY RangeAssumption DEF IInv, TypeOK
<1>2. pair = Returned /\ pool = Below(lastiplong - 1)
  BY DEF IInv, WalkInv
<1>3. lastiplong - 1 = net + size - 2
  BY <1>1 DEF lastiplong
<1>4. CASE kind = "bridge"
  BY <1>2, <1>3, <1>4 DEF PoolExact, Returned, Below, First
<1>5. CASE kind = "router"
  BY <1>2, <1>3, <1>5 DEF PoolExact, Returned, Below, First
<1> QED
  BY <1>1, <1>4, <1>5

\* Every behaviour keeps the invariant.
LEMMA Invariant == Spec => []IInv
<1>1. Init => IInv
  BY InitInv
<1>2. IInv /\ [Next]_vars => IInv'
  BY NextInv
<1> QED
  BY <1>1, <1>2, PTL DEF Spec

\* Every range lies in the address space: GetNextCIDR wraps round.
THEOREM TypeCorrect == Spec => []TypeOK
<1>1. IInv => TypeOK
  BY DEF IInv
<1> QED
  BY <1>1, Invariant, PTL

\* The check of Options.Default makes every range large enough for the loops.
THEOREM EnoughAddresses == Spec => []NeverShort
<1>1. IInv => NeverShort
  BY DEF IInv, WalkInv, NeverShort
<1> QED
  BY <1>1, Invariant, PTL

\* The loops make the pool of the reference, for a range of any size.
THEOREM PoolAsSpecified == Spec => []PoolExact
<1>1. IInv => PoolExact
  BY InvPool
<1> QED
  BY <1>1, Invariant, PTL

-----------------------------------------------------------------------------
\* Multiples.

LEMMA MultipleOf ==
    ASSUME NEW n \in Nat, NEW s \in Nat \ {0}, n % s = 0
    PROVE  \E k \in Nat : n = k * s
<1> DEFINE k == n \div s
<1>1. n = s * k /\ k \in Nat
  OBVIOUS
<1> HIDE DEF k
<1>2. n = k * s
  BY <1>1
<1> QED
  BY <1>1, <1>2

LEMMA RemainderOf ==
    ASSUME NEW k \in Nat, NEW s \in Nat \ {0}, NEW r \in 0 .. s - 1
    PROVE  (k * s + r) % s = r
  OBVIOUS

LEMMA OneMore == \A j, s \in Nat : j * s \in Nat /\ (j + 1) * s = j * s + s
  OBVIOUS

\* Between a multiple of s and a greater one there is room for s.
LEMMA NextMultiple ==
    ASSUME NEW j \in Nat, NEW m \in Nat, NEW s \in Nat, j * s < m * s
    PROVE  j * s + s <= m * s
<1> DEFINE d == m - (j + 1)
<1>1. d \in Nat /\ m = (j + 1) + d
  OBVIOUS
<1> HIDE DEF d
<1>2. m * s = (j + 1) * s + d * s /\ d * s \in Nat /\ (j + 1) * s = j * s + s
  BY <1>1
<1> QED
  BY <1>2, OneMore

-----------------------------------------------------------------------------
\* The walk from range to range.

\* A range begins at a multiple of its size, of which the address space is one,
\* too: none reaches across its end.
Aligned ==
    /\ \E k \in Nat : net = k * size
    /\ \E m \in Nat : Space = m * size
    /\ size >= Octet => \E j \in Nat : size = j * Octet

\* Where earlier ranges have been: in front of this one, as far as the walk has
\* come, round the end of the address space if it has passed it.
Passed ==
    LET far == walked * size IN
    \A a \in earlier :
        IF net >= far THEN a \in net - far .. net - 1
                      ELSE a < net \/ a \in net - far + Space .. Space - 1

CycleInv ==
    /\ Aligned
    /\ walked * size < Space => Passed
    /\ kind = "bridge" => \A a \in earlier \cup pool : ~IsGateway(a)
    /\ pc = "config" => walked = 0 /\ earlier = {}

RingInv == IInv /\ CycleInv

LEMMA SizeMultiple ==
    \A s \in Sizes \cup {Octet} :
        /\ s \in Nat \ {0}
        /\ \E m \in Nat : Space = m * s
        /\ s >= Octet => \E j \in Nat : s = j * Octet
<1> SUFFICES ASSUME NEW s \in Sizes \cup {Octet}
             PROVE  /\ s \in Nat \ {0}
                    /\ \E m \in Nat : Space = m * s
                    /\ s >= Octet => \E j \in Nat : s = j * Octet
  OBVIOUS
<1>1. s \in Nat \ {0} /\ Octet \in Nat \ {0} /\ Space \in Nat
  BY RangeAssumption
<1>2. Space % s = 0
  BY MaskAssumption
<1>3. CASE s = Octet
  <2>1. s = 1 * Octet
    BY <1>1, <1>3
  <2> QED
    BY <1>1, <1>2, <2>1, MultipleOf
<1>4. CASE s \in Sizes
  <2>1. s >= Octet => s % Octet = 0
    BY <1>4, MaskAssumption
  <2> QED
    BY <1>1, <1>2, <2>1, MultipleOf
<1> QED
  BY <1>3, <1>4

\* A range that begins below the end of the address space ends there or before.
LEMMA RangeFits ==
    ASSUME IInv, Aligned
    PROVE  /\ net \in Nat /\ size \in Nat \ {0} /\ Space \in Nat /\ walked \in Nat
           /\ net + size <= Space
<1>1. net \in Nat /\ size \in Nat \ {0} /\ Space \in Nat /\ net < Space /\ walked \in Nat
  BY RangeAssumption DEF IInv, TypeOK
<1>2. PICK k \in Nat : net = k * size
  BY DEF Aligned
<1>3. PICK m \in Nat : Space = m * size
  BY DEF Aligned
<1> QED
  BY <1>1, <1>2, <1>3, NextMultiple

\* What the loops give out is inside the range.
LEMMA GivenInside ==
    ASSUME IInv, Aligned
    PROVE  \A a \in pool \cup pair : a \in net .. net + size - 1
<1>1. net \in Nat /\ size \in Nat \ {0} /\ kind \in {"bridge", "router"}
  BY RangeAssumption DEF IInv, TypeOK
<1>2. pc \in {"config", "new", "skip", "pair", "fill", "filled"}
  BY DEF IInv, TypeOK, WalkInv
<1>3. pc # "config" => size >= 4 /\ (kind = "router" => size >= 5)
  BY <1>1 DEF IInv, WalkInv, Needed
<1>4. CASE pc \in {"config", "new", "skip"}
  BY <1>4 DEF IInv, WalkInv
<1>5. CASE pc = "pair"
  BY <1>1, <1>3, <1>5 DEF IInv, WalkInv
<1>6. CASE pc \in {"fill", "filled"}
  <2>1. \A a \in pair : a \in net .. net + size - 1
    BY <1>1, <1>3, <1>6 DEF IInv, WalkInv, Returned
  <2>2. \A a \in pool : a \in First .. lastiplong - 1
    <3>1. CASE pc = "fill"
      BY <1>1, <3>1 DEF IInv, WalkInv, Below, lastiplong, First
    <3>2. CASE pc = "filled"
      BY <3>2 DEF IInv, WalkInv, Below
    <3> QED
      BY <1>6, <3>1, <3>2
  <2>3. First \in Nat /\ First >= net /\ lastiplong - 1 = net + size - 2
    BY <1>1 DEF First, lastiplong
  <2>4. \A a \in pool : a \in net .. net + size - 1
    BY <1>1, <2>2, <2>3
  <2> QED
    BY <2>1, <2>4
<1> QED
  BY <1>2, <1>4, <1>5, <1>6

LEMMA InitCycle == Init => CycleInv
<1> SUFFICES ASSUME Init PROVE CycleInv
  OBVIOUS
<1>1. net \in Nat /\ net % size = 0 /\ size \in Nat \ {0} /\ size \in Sizes
  BY RangeAssumption DEF Init
<1>2. Aligned
  BY <1>1, MultipleOf, SizeMultiple DEF Aligned
<1> QED
  BY <1>2 DEF Init, CycleInv, Passed

LEMMA DefaultCycle == RingInv /\ Default => CycleInv'
<1> SUFFICES ASSUME RingInv, Default PROVE CycleInv'
  OBVIOUS
<1>1. CASE UNCHANGED <<net, size>>
  BY <1>1 DEF RingInv, CycleInv, Aligned, Passed, IsGateway, Default
<1>2. CASE net' = 0 /\ size' = Octet
  <2>1. Octet \in Nat /\ 0 = 0 * Octet
    BY RangeAssumption
  <2>2. Aligned'
    BY <1>2, <2>1, SizeMultiple DEF Aligned
  <2>3. walked' = 0 /\ earlier' = earlier /\ pool' = pool /\ kind' = kind /\ pc' = "new"
    BY DEF RingInv, CycleInv, Default
  <2>4. earlier = {}
    BY DEF RingInv, CycleInv, Default
  <2> QED
    BY <1>2, <2>2, <2>3, <2>4 DEF RingInv, CycleInv, Passed, IsGateway
<1> QED
  BY <1>1, <1>2 DEF Default

\* Within a range only the pool changes, and Put leaves the gateway's address out.
LEMMA WalkCycle ==
    RingInv /\ (NewRange \/ SkipOne \/ TakePair \/ Put \/ EndOfRange \/ UNCHANGED vars)
    => CycleInv'
<1> SUFFICES ASSUME RingInv,
                    NewRange \/ SkipOne \/ TakePair \/ Put \/ EndOfRange \/ UNCHANGED vars
             PROVE  CycleInv'
  OBVIOUS
<1> USE DEF NewRange, SkipOne, TakePair, Put, EndOfRange, vars
<1>1. UNCHANGED <<kind, net, size, earlier, walked>>
  OBVIOUS
<1>2. Aligned' /\ (walked' * size' < Space => Passed')
  BY <1>1 DEF RingInv, CycleInv, Aligned, Passed
<1>3. kind = "bridge" => \A a \in pool' : a \in pool \/ ~IsGateway(a)
  <2>1. CASE pool' = pool
    BY <2>1
  <2>2. CASE Put
    BY <2>2, Zenon
  <2> QED
    BY <2>1, <2>2
<1>4. pc' = "config" => pc = "config"
  <2>1. CASE NewRange \/ Put \/ EndOfRange \/ UNCHANGED vars
    BY <2>1
  <2>2. CASE SkipOne
    <3>1. skip \in 1 .. 2
      BY <2>2 DEF RingInv, IInv, WalkInv
    <3> QED
      BY <2>2, <3>1
  <2>3. CASE TakePair
    <3>1. pc' \in {"fill", "filled", "pair", "short"}
      BY <2>3, Zenon
    <3> QED
      BY <3>1
  <2> QED
    BY <2>1, <2>2, <2>3
<1> QED
  BY <1>1, <1>2, <1>3, <1>4 DEF RingInv, CycleInv, IsGateway

\* The step to the next range: this one joins those that have been passed.
LEMMA NextRangePassed ==
    ASSUME RingInv, GetNextCIDR, walked' * size' < Space
    PROVE  Passed'
<1> DEFINE far == walked * size
<1>1. /\ net \in Nat /\ size \in Nat \ {0} /\ Space \in Nat /\ walked \in Nat
      /\ net + size <= Space
  BY RangeFits DEF RingInv, CycleInv
<1>2. far \in Nat /\ (walked + 1) * size = far + size
  BY <1>1, OneMore
<1>3. walked' = walked + 1 /\ size' = size /\ net' = (net + size) % Space
  BY DEF GetNextCIDR
<1>4. walked' * size' = far + size /\ far + size < Space
  BY <1>2, <1>3
<1>5. \A a \in earlier : IF net >= far THEN a \in net - far .. net - 1
                         ELSE a < net \/ a \in net - far + Space .. Space - 1
  BY <1>1, <1>2, <1>4 DEF RingInv, CycleInv, Passed
<1>6. \A a \in pool \cup pair : a \in net .. net + size - 1
  BY GivenInside DEF RingInv, CycleInv
<1>7. earlier' = (earlier \cup pool) \cup pair /\ earlier \subseteq Nat
  BY DEF GetNextCIDR, RingInv, IInv, TypeOK
<1> HIDE DEF far
<1>8. SUFFICES ASSUME NEW a \in earlier'
               PROVE  IF net' >= far + size THEN a \in net' - (far + size) .. net' - 1
                      ELSE a < net' \/ a \in net' - (far + size) + Space .. Space - 1
  BY <1>4 DEF Passed
<1>9. a \in Nat
  BY <1>1, <1>6, <1>7
<1>10. CASE net + size < Space
  <2>1. net' = net + size
    BY <1>1, <1>3, <1>10
  <2>2. CASE a \in earlier
    BY <1>1, <1>2, <1>5, <1>9, <2>1, <2>2
  <2>3. CASE a \in pool \cup pair
    <3>1. a \in net .. net + size - 1
      BY <1>6, <2>3
    <3> QED
      BY <1>1, <1>2, <2>1, <3>1
  <2> QED
    BY <1>7, <2>2, <2>3
<1>11. CASE net + size = Space
  <2>1. net' = 0
    BY <1>1, <1>3, <1>11
  <2>2. net >= far
    BY <1>1, <1>2, <1>4, <1>11
  <2>3. CASE a \in earlier
    BY <1>1, <1>2, <1>5, <1>9, <1>11, <2>1, <2>2, <2>3
  <2>4. CASE a \in pool \cup pair
    <3>1. a \in net .. net + size - 1
      BY <1>6, <2>4
    <3> QED
      BY <1>1, <1>2, <1>11, <2>1, <3>1
  <2> QED
    BY <1>7, <2>3, <2>4
<1> QED
  BY <1>1, <1>10, <1>11

LEMMA NextCIDRCycle == RingInv /\ GetNextCIDR => CycleInv'
<1> SUFFICES ASSUME RingInv, GetNextCIDR PROVE CycleInv'
  OBVIOUS
<1>1. /\ net \in Nat /\ size \in Nat \ {0} /\ Space \in Nat
      /\ net + size <= Space
  BY RangeFits DEF RingInv, CycleInv
<1>2. PICK k \in Nat : net = k * size
  BY DEF RingInv, CycleInv, Aligned
<1>3. size' = size /\ kind' = kind /\ net' = (net + size) % Space /\ pc' = "new"
  BY DEF GetNextCIDR
<1>4. \E j \in Nat : net' = j * size
  <2>1. CASE net + size < Space
    <3>1. net' = net + size
      BY <1>1, <1>3, <2>1
    <3>2. net + size = (k + 1) * size
      BY <1>1, <1>2, OneMore
    <3> QED
      BY <3>1, <3>2
  <2>2. CASE net + size = Space
    <3>1. net' = 0 /\ 0 = 0 * size
      BY <1>1, <1>3, <2>2
    <3> QED
      BY <3>1
  <2> QED
    BY <1>1, <2>1, <2>2
<1>5. Aligned'
  BY <1>3, <1>4 DEF RingInv, CycleInv, Aligned
<1>6. kind = "bridge" => pair = {}
  BY GivenInside DEF RingInv, CycleInv, IInv, WalkInv, Returned, GetNextCIDR
<1>7. earlier' = (earlier \cup pool) \cup pair /\ pool' = {}
  BY DEF GetNextCIDR
<1>8. kind' = "bridge" => \A a \in earlier' \cup pool' : ~IsGateway(a)
  BY <1>3, <1>6, <1>7 DEF RingInv, CycleInv
<1> QED
  BY <1>3, <1>5, <1>8, NextRangePassed DEF CycleInv, IsGateway

LEMMA NextRing == RingInv /\ [Next]_vars => RingInv'
<1> SUFFICES ASSUME RingInv, [Next]_vars PROVE RingInv'
  OBVIOUS
<1>1. IInv'
  BY NextInv DEF RingInv
<1>2. CycleInv'
  BY DefaultCycle, WalkCycle, NextCIDRCycle DEF Next
<1> QED
  BY <1>1, <1>2 DEF RingInv

\* The gateway is the last address but one of the first octet of the range.
LEMMA InvGateway == RingInv => GatewayReserved
<1> SUFFICES ASSUME RingInv, pc = "filled", kind = "bridge", size >= Octet
             PROVE  Gateway \in net .. lastiplong /\ Gateway \notin pool \cup earlier
  BY DEF GatewayReserved
<1>1. /\ net \in Nat /\ size \in Nat \ {0} /\ Space \in Nat
      /\ net + size <= Space
  BY RangeFits DEF RingInv, CycleInv
<1>2. Octet \in Nat /\ Octet >= 5
  BY RangeAssumption
<1>3. Gateway = net + Octet - 2 /\ net + Octet - 2 \in net .. net + size - 1
  BY <1>1, <1>2 DEF Gateway
<1>4. \E i \in Nat : net = i * Octet
  <2>1. PICK k \in Nat, j \in Nat : net = k * size /\ size = j * Octet
    BY DEF RingInv, CycleInv, Aligned
  <2>2. net = (k * j) * Octet /\ k * j \in Nat
    BY <1>2, <2>1
  <2> QED
    BY <2>2
<1>5. IsGateway(Gateway)
  <2>1. PICK i \in Nat : net = i * Octet
    BY <1>4
  <2>2. Octet - 2 \in 0 .. Octet - 1 /\ net + Octet - 2 = i * Octet + (Octet - 2)
    BY <1>1, <1>2, <2>1
  <2>3. \A r \in 0 .. Octet - 1 : (i * Octet + r) % Octet = r
    BY <1>2, RemainderOf
  <2> QED
    BY <1>3, <2>2, <2>3 DEF IsGateway
<1> QED
  BY <1>3, <1>5 DEF RingInv, CycleInv, lastiplong

\* The range there is meets none of those that have been passed.
LEMMA InvNeverTwice == RingInv => NeverTwice
<1> DEFINE far == walked * size
<1> SUFFICES ASSUME RingInv, far < Space, NEW a \in pool \cup pair, a \in earlier
             PROVE  FALSE
  BY DEF NeverTwice
<1>1. /\ net \in Nat /\ size \in Nat \ {0} /\ Space \in Nat /\ walked \in Nat
      /\ net + size <= Space
  BY RangeFits DEF RingInv, CycleInv
<1>2. PICK m \in Nat : Space = m * size
  BY DEF RingInv, CycleInv, Aligned
<1>3. far \in Nat /\ far + size <= Space
  BY <1>1, <1>2, NextMultiple, OneMore
<1>4. a \in net .. net + size - 1
  BY GivenInside DEF RingInv, CycleInv
<1>5. IF net >= far THEN a \in net - far .. net - 1
      ELSE a < net \/ a \in net - far + Space .. Space - 1
  BY DEF RingInv, CycleInv, Passed
<1> HIDE DEF far
<1> QED
  BY <1>1, <1>3, <1>4, <1>5

LEMMA RingInvariant == Spec => []RingInv
<1>1. Init => RingInv
  BY InitInv, InitCycle DEF RingInv
<1> QED
  BY <1>1, NextRing, PTL DEF Spec

\* A range of whole octets has its gateway within it, and neither its pods nor
\* those of an earlier range get the gateway's address, for any address space of
\* whole ranges and however far the walk has come.
THEOREM GatewayKept == Spec => []GatewayReserved
BY RingInvariant, InvGateway, PTL

\* GetNextCIDR leads to every range before it leads to one for a second time: no
\* address is given out twice on the way round the address space.
THEOREM GivenOnce == Spec => []NeverTwice
BY RingInvariant, InvNeverTwice, PTL
=============================================================================
