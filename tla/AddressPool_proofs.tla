------------------------- MODULE AddressPool_proofs -------------------------
(***************************************************************************)
(* What the contract AddressPool is worth to whoever has been shown to     *)
(* keep it: RouterIpam and PodNetwork.  The ranges are disjoint, as those  *)
(* of pkg/util/cidr_util.go are (RangeWalk has the arithmetic).            *)
(***************************************************************************)
EXTENDS AddressPool, TLAPS

DisjointRanges ==
    \A r, s \in Nat : r # s => AddressesOf(r) \cap AddressesOf(s) = {}

\* The addresses there have been.
Known == UNION {AddressesOf(r) : r \in 1 .. top}

\* Every address that is free or had is a known one.
TypeInv ==
    ~broken => top \in Nat /\ free \subseteq Known /\ held \in [Owners -> SUBSET Known]

\* An address is in the pool or with one owner, never in two places.
OnePlace ==
    ~broken =>
        /\ \A o \in Owners : held[o] \cap free = {}
        /\ \A o, p \in Owners : o # p => held[o] \cap held[p] = {}

Lost(a) == a \in Known /\ a \notin free /\ \A o \in Owners : a \notin held[o]

LEMMA KnownGrows ==
    ASSUME DisjointRanges, top \in Nat
    PROVE  /\ AddressesOf(top + 1) \cap Known = {}
           /\ top' = top => Known' = Known
           /\ top' = top + 1 => Known' = Known \cup AddressesOf(top + 1)
<1>1. \A r \in 1 .. top : r # top + 1 /\ r \in Nat /\ top + 1 \in Nat
  OBVIOUS
<1>2. AddressesOf(top + 1) \cap Known = {}
  BY <1>1 DEF DisjointRanges, Known
<1>3. ASSUME top' = top + 1 PROVE Known' = Known \cup AddressesOf(top + 1)
  <2>1. 1 .. top' = (1 .. top) \cup {top + 1}
    BY <1>3
  <2>2. QED
    BY <2>1 DEF Known
<1>4. QED
  BY <1>2, <1>3 DEF Known

\* What is free or had comes from what was, or from the new range.
LEMMA ExchangeKeeps ==
    ASSUME TypeInv, OnePlace, ~broken, NEW o \in Owners, NEW new,
           Exchange(o, new), new \cap Known = {}, Known' = Known \cup new, top' \in Nat,
           broken' = FALSE
    PROVE  TypeInv' /\ OnePlace' /\ \A a : Lost(a) => Lost(a)'
<1>1. PICK mine \in SUBSET (free \cup held[o] \cup new) :
         /\ held' = [held EXCEPT ![o] = mine]
         /\ free' \subseteq (free \cup held[o]) \ mine
  BY DEF Exchange
<1>2. /\ free \subseteq Known /\ held \in [Owners -> SUBSET Known]
      /\ \A p \in Owners : held[p] \cap free = {}
      /\ \A p, q \in Owners : p # q => held[p] \cap held[q] = {}
  BY DEF TypeInv, OnePlace
<1>3. \A p \in Owners : held'[p] = IF p = o THEN mine ELSE held[p]
  BY <1>1, <1>2
<1>4. free' \subseteq Known' /\ held' \in [Owners -> SUBSET Known']
  BY <1>1, <1>2
<1>5. TypeInv'
  BY <1>4 DEF TypeInv
<1>6. ASSUME NEW p \in Owners PROVE held'[p] \cap free' = {}
  BY <1>1, <1>2, <1>3
<1>7. ASSUME NEW p \in Owners, NEW q \in Owners, p # q PROVE held'[p] \cap held'[q] = {}
  <2>1. ASSUME NEW s \in Owners, s # o PROVE held[s] \cap mine = {}
    BY <1>1, <1>2, <2>1
  <2>2. QED
    BY <1>2, <1>3, <1>7, <2>1
<1>8. ASSUME NEW a, Lost(a) PROVE Lost(a)'
  <2>1. a \in Known /\ a \notin new /\ a \notin free /\ \A p \in Owners : a \notin held[p]
    BY <1>8 DEF Lost
  <2>2. a \notin mine /\ a \notin free' /\ a \in Known'
    BY <1>1, <2>1
  <2>3. QED
    BY <1>3, <2>1, <2>2 DEF Lost
<1>9. QED
  BY <1>5, <1>6, <1>7, <1>8 DEF OnePlace

LEMMA HandOverKeeps ==
    ASSUME TypeInv, OnePlace, ~broken, NEW o \in Owners, NEW p \in Owners,
           HandOver(o, p), Known' = Known, broken' = FALSE
    PROVE  TypeInv' /\ OnePlace' /\ \A a : Lost(a) => Lost(a)'
<1>1. /\ free \subseteq Known /\ held \in [Owners -> SUBSET Known]
      /\ \A q \in Owners : held[q] \cap free = {}
      /\ \A q, r \in Owners : q # r => held[q] \cap held[r] = {}
      /\ o # p /\ free' = free /\ top' = top
  BY DEF TypeInv, OnePlace, HandOver
<1>2. \A q \in Owners :
         held'[q] = IF q = p THEN held[p] \cup held[o] ELSE IF q = o THEN {} ELSE held[q]
  BY <1>1 DEF HandOver
<1>3. held' \in [Owners -> SUBSET Known']
  BY <1>1 DEF HandOver
<1>4. TypeInv'
  BY <1>1, <1>3 DEF TypeInv
<1>5. OnePlace'
  BY <1>1, <1>2 DEF OnePlace
<1>6. \A a : Lost(a) => Lost(a)'
  BY <1>1, <1>2 DEF Lost
<1>7. QED
  BY <1>4, <1>5, <1>6

LEMMA NextKeeps ==
    ASSUME DisjointRanges, TypeInv, OnePlace, [Next]_poolVars
    PROVE  TypeInv' /\ OnePlace' /\ (~broken' => \A a : Lost(a) => Lost(a)')
<1>1. CASE broken' = TRUE
  BY <1>1 DEF TypeInv, OnePlace
<1>2. CASE ~broken /\ broken' = FALSE /\ \E o \in Owners :
             Use(o) \/ OpenRange(o) \/ \E p \in Owners : HandOver(o, p)
  <2>1. PICK o \in Owners : Use(o) \/ OpenRange(o) \/ \E p \in Owners : HandOver(o, p)
    BY <1>2
  <2>2. top \in Nat
    BY <1>2 DEF TypeInv
  <2>3. CASE Use(o)
    <3>1. Exchange(o, {}) /\ top' = top /\ {} \cap Known = {} /\ Known' = Known \cup {}
      BY <2>2, <2>3, KnownGrows DEF Use
    <3>2. QED
      BY <1>2, <2>2, <3>1, ExchangeKeeps
  <2>4. CASE OpenRange(o)
    <3>1. /\ Exchange(o, AddressesOf(top + 1)) /\ top' = top + 1 /\ top' \in Nat
          /\ AddressesOf(top + 1) \cap Known = {}
          /\ Known' = Known \cup AddressesOf(top + 1)
      BY <2>2, <2>4, KnownGrows DEF OpenRange
    <3>2. QED
      BY <1>2, <3>1, ExchangeKeeps
  <2>5. CASE \E p \in Owners : HandOver(o, p)
    BY <1>2, <2>2, <2>5, KnownGrows, HandOverKeeps DEF HandOver
  <2>6. QED
    BY <2>1, <2>3, <2>4, <2>5
<1>3. CASE UNCHANGED poolVars
  <2>1. top' = top /\ free' = free /\ held' = held /\ broken' = broken
    BY <1>3 DEF poolVars
  <2>2. Known' = Known
    BY <2>1 DEF Known
  <2>3. QED
    BY <2>1, <2>2 DEF TypeInv, OnePlace, Lost
<1>4. QED
  BY <1>1, <1>2, <1>3 DEF Next

\* As long as the contract holds an address is in one place: it is not with two
\* owners, and not with one and in the pool.
THEOREM AddressInOnePlace ==
    ASSUME DisjointRanges
    PROVE  Spec => []OnePlace
<1>1. Init => TypeInv /\ OnePlace
  BY DEF Init, TypeInv, OnePlace, Known
<1>2. TypeInv /\ OnePlace /\ [Next]_poolVars => TypeInv' /\ OnePlace'
  BY NextKeeps
<1>3. QED
  BY <1>1, <1>2, PTL DEF Spec

\* ... and one that has been lost never turns up again, with an owner or in the
\* pool.
THEOREM LostForGood ==
    ASSUME DisjointRanges
    PROVE  Spec => [][~broken' => \A a : Lost(a) => Lost(a)']_poolVars
<1>1. Init => TypeInv /\ OnePlace
  BY DEF Init, TypeInv, OnePlace, Known
<1>2. TypeInv /\ OnePlace /\ [Next]_poolVars => TypeInv' /\ OnePlace'
  BY NextKeeps
<1>3. TypeInv /\ OnePlace /\ [Next]_poolVars =>
         [~broken' => \A a : Lost(a) => Lost(a)']_poolVars
  BY NextKeeps
<1>4. QED
  BY <1>1, <1>2, <1>3, PTL DEF Spec

=============================================================================
