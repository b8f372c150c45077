-------------------------- MODULE RouterPool_proofs --------------------------
(***************************************************************************)
(* What the pool of RouterIpam promises until a fault: no address of the   *)
(* range in use is lost, and GetRouterIP returns two of them.              *)
(***************************************************************************)
EXTENDS RouterIpam_proofs, FiniteSetTheorems

-----------------------------------------------------------------------------
\* The invariants.

\* p has not been killed, and has taken nothing before its reads have ended.
Alive(p) ==
    /\ \A i \in {1, 2} : phase[<<p, i>>] # "dead"
    /\ pc[p] \in {"get", "readRange", "setRange"} => got[p] = {}

\* An address of the range in use is in the pool or with a process, or is the
\* single one of a call after an overlap.
Accounted ==
    iprange # 0 =>
        \A a \in Whole(iprange) :
            a \in avail \/ \E p \in Procs : Claims(p, a) \/ a \in Odd(p)

\* p never takes a third address.
AtMostTwo(p) == IsFiniteSet(got[p]) /\ Cardinality(got[p]) <= 2

\* Inside the loop of GetRouterIP what p has taken and the listed addresses,
\* which are all still there, suffice for a pair; the two that a refill returns
\* are one.
PairInv(p) ==
    /\ pc[p] = "take" =>
          /\ todo[p] \subseteq avail
          /\ got[p] \cap todo[p] = {}
          /\ Cardinality(got[p]) + Cardinality(todo[p]) >= 2
    /\ pc[p] \in {"fill", "return"} => Cardinality(got[p]) = 2

\* The first key in the directory is the range, which is there when it is read.
RangeSaved ==
    /\ dir => iprange # 0
    /\ \A p \in Procs : pc[p] \in {"readRange", "fill", "release"} => dir

\* Until a fault.  Only the pairs need the lock.
PoolInv ==
    faults = 0 =>
        /\ RangeSaved
        /\ \A p \in Procs : Alive(p) /\ AtMostTwo(p)
        /\ Accounted
        /\ IsFiniteSet(avail)
        /\ exclusionLost \/ \A p \in Procs : PairInv(p)

NoFaults == \A k : ~Fault(k)

-----------------------------------------------------------------------------
\* No step takes a fault back, and one that meets a fault counts it.

LEMMA StepCounts ==
    ASSUME TypeInv, NEW p \in Procs, Step(p)
    PROVE  faults' \in {faults, faults + 1}
<1> USE DEF NoFault, Fault, L!Fault
<1>1. CASE GetRouterIP(p)
  BY <1>1
  DEF GetRouterIP, GetFails, ReadMissing, ReadFew, ReadEnough, NextRange, RangeMissing,
      SetRange, SetRangeFails, FillPool, Filled, TakeAddress, SkipAddress, Taken
<1>2. CASE ReleaseRouterIP(p) \/ InitNetwork(p)
  BY <1>2
  DEF ReleaseRouterIP, CompareRange, CompareFails, PutBack, UnlockFirst, Released,
      InitNetwork, Return, TooFew, LaterFails
<1>3. CASE CallLock(p) \/ Lock(p)
  BY <1>3 DEF CallLock, L!CallLock, Lock, L!LockStep, L!SetCreates, L!SetExists,
     L!SetFails, L!GetFinds, L!GetMissing, L!ReadFails, L!WatchFires
<1>4. CASE Unlock(p)
  BY <1>4 DEF Unlock, L!UnlockStep, L!DeleteRemoves, L!DeleteMissing, L!DeleteFails
<1>5. QED
  BY <1>1, <1>2, <1>3, <1>4 DEF Step

LEMMA FaultsStay ==
    ASSUME TypeInv, [Next]_vars, faults' = 0
    PROVE  faults = 0 /\ NoFaults
<1>1. faults \in Nat
  BY RouterAssumption DEF RouterAssumption, TypeInv, TypeOK, L!TypeOK
<1>2. faults' \in {faults, faults + 1}
  <2>1. ASSUME NEW p \in Procs, NEW q \in Procs,
               StartGet(p) \/ StartRelease(p, q) \/ Crash(p)
        PROVE  faults' \in {faults, faults + 1}
    BY <2>1 DEF StartGet, StartRelease, Crash, Fault, L!Fault
  <2>2. CASE Expire \/ UNCHANGED vars
    BY <2>2 DEF Expire, L!Expire, vars
  <2>3. QED
    BY <2>1, <2>2, StepCounts DEF Next
<1>3. QED
  BY <1>1, <1>2 DEF NoFaults, Fault, L!Fault

\* One process is inside the lock, if it has excluded.
LEMMA OneInside ==
    ASSUME TypeInv, ~Overlap, NEW p \in Procs, NEW q \in Procs,
           phase[Me(p)] = "held", phase[Me(q)] = "held"
    PROVE  p = q
BY DEF Overlap, Me, Callers, TypeInv, TypeOK

-----------------------------------------------------------------------------
\* No step loses an address.

\* What p's step does to the addresses of the range in use: what was p's or in
\* the pool is so still, and a range that p opens is p's.
Keeps(p) ==
    /\ Alive(p)'
    /\ \A a \in Address : Claims(p, a) =>
          Claims(p, a)' \/ a \in avail' \/ RangeOf(a) # iprange' \/ a \in Odd(p)'
    /\ \A a \in avail : a \in avail' \/ Claims(p, a)'
    /\ iprange' = iprange \/ \A a \in Whole(iprange') : Claims(p, a)'

LEMMA PairCardinality == \A r : IsFiniteSet(Pair(r)) /\ Cardinality(Pair(r)) = 2
<1> SUFFICES ASSUME NEW r PROVE IsFiniteSet(Pair(r)) /\ Cardinality(Pair(r)) = 2
  OBVIOUS
<1> DEFINE first == {<<r, 1>>}
           second == <<r, 2>>
<1>1. Pair(r) = first \cup {second} /\ second \notin first
  BY DEF Pair
<1>2. IsFiniteSet(first) /\ Cardinality(first) = 1
  BY FS_Singleton
<1> HIDE DEF first, second
<1>3. /\ IsFiniteSet(first \cup {second})
      /\ Cardinality(first \cup {second}) = Cardinality(first) + 1
  BY <1>1, <1>2, FS_AddElement
<1>4. QED
  BY <1>1, <1>2, <1>3

LEMMA StepAtMostTwo ==
    ASSUME TypeInv, NEW p \in Procs, AtMostTwo(p), Step(p)
    PROVE  AtMostTwo(p)'
<1>t. got \in [Procs -> SUBSET Address]
  BY DEF TypeInv, TypeOK
<1>1. CASE BeginFill(p)
  BY <1>t, <1>1, PairCardinality DEF BeginFill, AtMostTwo
<1>2. CASE TakeAddress(p)
  <2>1. PICK a : got'[p] = got[p] \cup {a}
    BY <1>t, <1>2 DEF TakeAddress
  <2>2. Cardinality(got[p]) \in Nat /\ Cardinality(got[p]) < 2
    BY <1>2, FS_CardinalityType DEF TakeAddress, AtMostTwo
  <2>3. QED
    BY <2>1, <2>2, FS_AddElement DEF AtMostTwo
<1>3. CASE got' = got
  BY <1>3 DEF AtMostTwo
<1>4. BeginFill(p) \/ TakeAddress(p) \/ got' = got
  <2>1. CASE GetRouterIP(p)
    BY <2>1
    DEF GetRouterIP, GetFails, ReadMissing, ReadFew, ReadEnough, NextRange, RangeMissing,
        SetRange, SetRangeFails, FillPool, Filled, SkipAddress, Taken, locals
  <2>2. CASE ReleaseRouterIP(p) \/ InitNetwork(p)
    BY <2>2
    DEF ReleaseRouterIP, CompareRange, CompareFails, PutBack, UnlockFirst, Released,
        InitNetwork, Return, TooFew, LaterFails, locals
  <2>3. CASE CallLock(p) \/ Lock(p) \/ Unlock(p)
    BY <2>3 DEF CallLock, Lock, Unlock, locals
  <2>4. QED
    BY <2>1, <2>2, <2>3 DEF Step
<1>5. QED
  BY <1>1, <1>2, <1>3, <1>4

LEMMA StepKeeps ==
    ASSUME TypeInv, NEW p \in Procs, ProcInv(p), Alive(p), NoFaults, Step(p),
           AtMostTwo(p), exclusionLost \/ PairInv(p)
    PROVE  Keeps(p)
<1>0. \A k : ~Fault(k) /\ ~L!Fault(k)
  BY DEF NoFaults, Fault
<1>t. /\ pc \in [Procs -> Labels] /\ phase \in [Callers -> L!Phases]
      /\ todo \in [Procs -> SUBSET Address] /\ got \in [Procs -> SUBSET Address]
      /\ pairs \in [Procs -> SUBSET Address] /\ turn \in [Procs -> {1, 2}]
  BY DEF TypeInv, TypeOK, L!TypeOK
<1> USE <1>0, <1>t
    DEF ProcInv, Alive, Keeps, Claims, Goto, Leave, Inside, At,
        L!EnterUnlock, L!Move, SaveRange, Put, Me, Callers, lockState, history, locals
<1>1. CASE GetFails(p) \/ SetRangeFails(p) \/ CompareFails(p)
  BY <1>1 DEF GetFails, SetRangeFails, CompareFails
<1>2. CASE ReadMissing(p) \/ ReadFew(p) \/ ReadEnough(p) \/ NextRange(p)
  BY <1>2 DEF ReadMissing, ReadFew, ReadEnough, NextRange
<1>3. CASE RangeMissing(p) \/ Filled(p) \/ Taken(p)
  BY <1>3 DEF RangeMissing, Filled, Taken
<1>4. CASE SetRange(p)
  BY <1>4 DEF SetRange, BeginFill, Whole
<1>5. CASE FillPool(p)
  BY <1>5 DEF FillPool
<1>6. CASE TakeAddress(p) \/ SkipAddress(p)
  BY <1>6 DEF TakeAddress, SkipAddress
<1>7. CASE CompareRange(p)
  BY <1>7 DEF CompareRange
<1>8. CASE PutBack(p)
  <2>1. PICK a \in todo[p] :
           /\ avail' = avail \cup {a}
           /\ todo' = [todo EXCEPT ![p] = @ \ {a}]
           /\ IF todo[p] = {a}
              THEN Leave(p, "unlock") /\ UNCHANGED turn
              ELSE turn' = [turn EXCEPT ![p] = 2] /\ UNCHANGED <<lockState, pc>>
    BY <1>8 DEF PutBack
  <2>2. Inside(p, "release") /\ UNCHANGED <<iprange, pairs, got>>
    BY <1>8 DEF PutBack
  <2>3. QED
    BY <2>1, <2>2
<1>9. CASE CallLock(p)
  BY <1>9 DEF CallLock, L!CallLock
<1>10. CASE Lock(p)
  <2>1. PICK l \in {"set", "get", "watch", "held"} : phase' = [phase EXCEPT ![Me(p)] = l]
    BY <1>10 DEF Lock, L!LockStep, L!SetCreates, L!SetExists, L!SetFails, L!GetFinds,
       L!GetMissing, L!ReadFails, L!WatchFires, L!NextAttempt
  <2>2. QED
    BY <1>10, <2>1 DEF Lock
<1>11. CASE Unlock(p)
  <2>1. phase' = [phase EXCEPT ![Me(p)] = "idle"]
    BY <1>11 DEF Unlock, L!UnlockStep, L!DeleteRemoves, L!DeleteMissing, L!DeleteFails
  <2>2. QED
    BY <1>11, <2>1 DEF Unlock
<1>12. CASE UnlockFirst(p)
  <2>1. /\ pc[p] = "unlock" /\ phase' = [phase EXCEPT ![<<p, 1>>] = "delete"]
        /\ UNCHANGED <<avail, iprange, pairs, pc, todo, got>>
    BY <1>12 DEF UnlockFirst
  <2>2. QED
    BY <2>1
<1>13. CASE Return(p) \/ Released(p)
  <2>1. CASE Return(p)
    BY <2>1 DEF Return
  <2>2. CASE Released(p)
    BY <2>2 DEF Released
  <2>3. QED
    BY <1>13, <2>1, <2>2
<1>14. CASE TooFew(p)
  <2>1. /\ pc[p] = "return" /\ Cardinality(got[p]) # 2 /\ pc' = [pc EXCEPT ![p] = "done"]
        /\ UNCHANGED <<exclusionLost, phase, avail, iprange, pairs, todo, got>>
    BY <1>14 DEF TooFew
  <2>2. exclusionLost
    BY <2>1 DEF PairInv
  <2>3. \A a \in got[p] : a \in Odd(p)'
    <3>1. SUFFICES ASSUME NEW a \in got[p] PROVE Cardinality(got[p]) = 1
      BY <2>1, <2>2 DEF Odd
    <3>2. Cardinality(got[p]) \in Nat /\ Cardinality(got[p]) # 0
      BY FS_CardinalityType, FS_EmptySet DEF AtMostTwo
    <3>3. QED
      BY <2>1, <3>2 DEF AtMostTwo
  <2>4. QED
    BY <2>1, <2>3
<1>15. ~LaterFails(p)
  BY DEF LaterFails
<1>16. QED
  BY <1>1, <1>2, <1>3, <1>4, <1>5, <1>6, <1>7, <1>8, <1>9, <1>10, <1>11, <1>12, <1>13,
     <1>14, <1>15, Zenon
  DEF Step, GetRouterIP, ReleaseRouterIP, InitNetwork

LEMMA StepRangeSaved ==
    ASSUME TypeInv, RangeSaved, NoFaults, NEW p \in Procs, Step(p)
    PROVE  RangeSaved'
<1>0. \A k : ~Fault(k)
  BY DEF NoFaults
<1>t. pc \in [Procs -> Labels] /\ todo \in [Procs -> SUBSET Address]
  BY DEF TypeInv, TypeOK
<1> USE <1>0, <1>t DEF RangeSaved, Goto, Leave, Inside, At, locals
<1>1. CASE SetRange(p)
  BY <1>1 DEF SetRange, SaveRange, TypeInv
<1>2. CASE FillPool(p) \/ PutBack(p)
  BY <1>2 DEF FillPool, PutBack, Put
<1>3. CASE CompareRange(p)
  <2>1. \A a \in Address : RangeOf(a) # 0
    BY DEF Address, RangeOf
  <2>2. pc'[p] = "release" => iprange # 0
    BY <1>3, <2>1 DEF CompareRange
  <2>3. pc'[p] = "release" => dir
    BY <2>2 DEF TypeInv
  <2>4. QED
    BY <1>3, <2>3 DEF CompareRange
<1>4. CASE TakeAddress(p) \/ SkipAddress(p)
  BY <1>4 DEF TakeAddress, SkipAddress
<1>5. CASE \/ GetFails(p) \/ SetRangeFails(p) \/ CompareFails(p) \/ ReadMissing(p)
           \/ ReadFew(p) \/ ReadEnough(p) \/ NextRange(p) \/ RangeMissing(p)
  BY <1>5
  DEF GetFails, SetRangeFails, CompareFails, ReadMissing, ReadFew, ReadEnough, NextRange,
      RangeMissing
<1>6. CASE \/ Filled(p) \/ Taken(p) \/ UnlockFirst(p) \/ Released(p) \/ InitNetwork(p)
           \/ CallLock(p) \/ Lock(p) \/ Unlock(p)
  BY <1>6
  DEF Filled, Taken, UnlockFirst, Released, InitNetwork, Return, TooFew, LaterFails,
      CallLock, Lock, Unlock
<1>7. QED
  BY <1>1, <1>2, <1>3, <1>4, <1>5, <1>6, Zenon DEF Step, GetRouterIP, ReleaseRouterIP

\* An address that has been thrown away stays so.
LEMMA StepOdd ==
    ASSUME TypeInv, NEW p \in Procs, Step(p), NEW q \in Procs
    PROVE  Odd(q) \subseteq Odd(q)'
<1>1. LocalStep(p)
  BY StepIsLocal
<1>2. pc[p] = "done" => pc' = pc /\ got' = got
  <2>1. CASE GetRouterIP(p) \/ InitNetwork(p) \/ ReleaseRouterIP(p)
    BY <2>1
    DEF GetRouterIP, GetFails, ReadMissing, ReadFew, ReadEnough, NextRange, RangeMissing,
        SetRange, SetRangeFails, FillPool, Filled, TakeAddress, SkipAddress, Taken,
        ReleaseRouterIP, CompareRange, CompareFails, PutBack, UnlockFirst, Released,
        InitNetwork, Return, TooFew, LaterFails, Inside, At
  <2>2. CASE CallLock(p) \/ Lock(p)
    BY <2>2 DEF CallLock, Lock, locals
  <2>3. CASE Unlock(p)
    BY <2>3 DEF Unlock, locals
  <2>4. QED
    BY <2>1, <2>2, <2>3 DEF Step
<1>3. pc[q] = "done" => pc'[q] = pc[q] /\ got'[q] = got[q]
  BY <1>1, <1>2 DEF LocalStep
<1>4. QED
  BY <1>1, <1>3 DEF Odd, LocalStep

LEMMA StepAccounts ==
    ASSUME RouterInv, NoFaults, \A q \in Procs : Alive(q) /\ AtMostTwo(q), Accounted,
           exclusionLost \/ \A q \in Procs : PairInv(q),
           NEW p \in Procs, Step(p)
    PROVE  (\A q \in Procs : Alive(q)' /\ AtMostTwo(q)') /\ Accounted'
<1>1. TypeInv /\ LocalStep(p) /\ Keeps(p)
  BY StepIsLocal, StepKeeps DEF RouterInv
<1>2. /\ \A q \in Procs \ {p} : Alive(q)' /\ AtMostTwo(q)'
      /\ \A q \in Procs \ {p} : \A a : Claims(q, a)' <=> Claims(q, a)
  <2>1. ASSUME NEW q \in Procs \ {p} PROVE Alive(q)' /\ AtMostTwo(q)'
    <3>1. /\ pc'[q] = pc[q] /\ got'[q] = got[q]
          /\ \A i \in {1, 2} : phase'[<<q, i>>] = phase[<<q, i>>]
      BY <1>1 DEF LocalStep
    <3>2. \A i \in {1, 2} : phase'[<<q, i>>] # "dead"
      BY <3>1, Zenon DEF Alive
    <3>3. QED
      BY <3>1, <3>2 DEF Alive, AtMostTwo
  <2>2. \A q \in Procs \ {p} : \A a : Claims(q, a)' <=> Claims(q, a)
    BY <1>1 DEF Claims, LocalStep
  <2>3. QED
    BY <2>1, <2>2
<1>3. Accounted'
  <2>1. SUFFICES ASSUME iprange' # 0, NEW a \in Whole(iprange'), a \notin avail'
                 PROVE  \E q \in Procs : Claims(q, a)' \/ a \in Odd(q)'
    BY DEF Accounted
  <2>2. CASE iprange' # iprange
    BY <1>1, <2>2 DEF Keeps
  <2>3. CASE iprange' = iprange
    <3>1. a \in Address /\ RangeOf(a) = iprange
      BY <1>1, <2>1, <2>3, AddressFacts
      DEF Whole, Pair, Pool, RangeOf, TypeInv, TypeOK
    <3>2. CASE a \in avail
      BY <1>1, <2>1, <3>2 DEF Keeps
    <3>3. CASE a \notin avail
      <4>1. PICK q \in Procs : Claims(q, a) \/ a \in Odd(q)
        BY <2>1, <2>3, <3>3 DEF Accounted
      <4>2. CASE a \in Odd(q)
        BY <1>1, <4>2, StepOdd
      <4>3. CASE Claims(q, a)
        BY <1>1, <1>2, <2>1, <2>3, <3>1, <4>3 DEF Keeps
      <4>4. QED
        BY <4>1, <4>2, <4>3
    <3>4. QED
      BY <3>2, <3>3
  <2>4. QED
    BY <2>2, <2>3
<1>4. AtMostTwo(p)'
  BY <1>1, StepAtMostTwo
<1>5. QED
  BY <1>1, <1>2, <1>3, <1>4 DEF Keeps

-----------------------------------------------------------------------------
\* GetRouterIP has a pair to return.

\* Nothing is listed that is not there, and the listed addresses and what has
\* been taken of them are enough.
LEMMA StepFinite ==
    ASSUME TypeInv, IsFiniteSet(avail), NoFaults, NEW p \in Procs, Step(p)
    PROVE  IsFiniteSet(avail)' /\ (avail \subseteq avail' \/ Inside(p, "take"))
<1>0. \A k : ~Fault(k) /\ ~L!Fault(k)
  BY DEF NoFaults, Fault
<1> USE <1>0
<1>1. CASE FillPool(p) \/ PutBack(p)
  <2>1. PICK a : avail' = avail \cup {a}
    BY <1>1 DEF FillPool, PutBack, Put
  <2>2. QED
    BY <2>1, FS_AddElement
<1>2. CASE TakeAddress(p) \/ SkipAddress(p)
  <2>1. Inside(p, "take") /\ (avail' = avail \/ \E a : avail' = avail \ {a})
    BY <1>2 DEF TakeAddress, SkipAddress
  <2>2. QED
    BY <2>1, FS_RemoveElement
<1>3. CASE \/ GetFails(p) \/ ReadMissing(p) \/ ReadFew(p) \/ ReadEnough(p)
           \/ NextRange(p) \/ RangeMissing(p) \/ SetRange(p) \/ SetRangeFails(p)
           \/ Filled(p) \/ Taken(p) \/ CompareRange(p) \/ CompareFails(p)
           \/ CallLock(p) \/ Lock(p) \/ Unlock(p) \/ UnlockFirst(p) \/ Released(p)
           \/ InitNetwork(p)
  BY <1>3
  DEF GetFails, ReadMissing, ReadFew, ReadEnough, NextRange, RangeMissing, SetRange,
      SetRangeFails, Filled, Taken, CompareRange, CompareFails, CallLock, Lock, Unlock,
      UnlockFirst, Released, InitNetwork, Return, TooFew, LaterFails
<1>4. QED
  BY <1>1, <1>2, <1>3, Zenon DEF Step, GetRouterIP, ReleaseRouterIP

\* Three keys are two addresses at least.
LEMMA EnoughListed ==
    ASSUME IsFiniteSet(avail), Keys >= 3
    PROVE  Cardinality(avail) >= 2
<1>1. Cardinality(avail) \in Nat
  BY FS_CardinalityType
<1>2. QED
  BY <1>1 DEF Keys

LEMMA StepPairs ==
    ASSUME TypeInv, NEW p \in Procs, ProcInv(p), Alive(p), AtMostTwo(p), PairInv(p),
           RangeSaved, IsFiniteSet(avail), NoFaults, Step(p)
    PROVE  PairInv(p)'
<1>0. \A k : ~Fault(k) /\ ~L!Fault(k)
  BY DEF NoFaults, Fault
<1>t. /\ pc \in [Procs -> Labels]
      /\ todo \in [Procs -> SUBSET Address] /\ got \in [Procs -> SUBSET Address]
      /\ pairs \in [Procs -> SUBSET Address]
  BY DEF TypeInv, TypeOK
<1> USE <1>0, <1>t DEF PairInv, Goto, Leave, Inside, At, Put, history, locals
<1>1. CASE GetFails(p) \/ SetRangeFails(p) \/ CompareFails(p)
  BY <1>1 DEF GetFails, SetRangeFails, CompareFails
<1>2. CASE ReadMissing(p) \/ ReadFew(p) \/ NextRange(p) \/ CompareRange(p)
  BY <1>2 DEF ReadMissing, ReadFew, NextRange, CompareRange
<1>3. CASE Filled(p)
  BY <1>3 DEF Filled
<1>4. CASE ReadEnough(p)
  <2>1. got'[p] = {} /\ todo'[p] = avail /\ avail' = avail /\ pc'[p] = "take"
    BY <1>4 DEF ReadEnough, Alive
  <2>2. Cardinality(avail) \in Nat /\ Cardinality(avail) >= 2
    BY <1>4, EnoughListed, FS_CardinalityType DEF ReadEnough
  <2>3. IsFiniteSet({}) /\ Cardinality({}) = 0
    BY FS_EmptySet
  <2>4. QED
    BY <2>1, <2>2, <2>3
<1>5. CASE SetRange(p)
  BY <1>5, PairCardinality DEF SetRange, BeginFill
<1>6. CASE FillPool(p)
  BY <1>6 DEF FillPool
<1>7. CASE TakeAddress(p)
  <2>1. PICK a \in todo[p] \cap avail :
           /\ avail' = avail \ {a}
           /\ got'[p] = got[p] \cup {a}
           /\ todo'[p] = todo[p] \ {a}
    BY <1>7 DEF TakeAddress
  <2>2. pc[p] = "take" /\ Cardinality(got[p]) < 2 /\ pc' = pc
    BY <1>7 DEF TakeAddress
  <2>3. IsFiniteSet(got[p]) /\ IsFiniteSet(todo[p])
    BY <2>2, FS_Subset DEF AtMostTwo
  <2>4. Cardinality(got[p]) \in Nat /\ Cardinality(todo[p]) \in Nat
    BY <2>3, FS_CardinalityType
  <2>5. Cardinality(got[p] \cup {a}) = Cardinality(got[p]) + 1
    BY <2>2, <2>3, FS_AddElement
  <2>6. Cardinality(todo[p] \ {a}) = Cardinality(todo[p]) - 1
    BY <2>3, FS_RemoveElement
  <2>7. Cardinality(got'[p]) + Cardinality(todo'[p]) >= 2
    BY <2>1, <2>2, <2>4, <2>5, <2>6
  <2>8. todo'[p] \subseteq avail' /\ got'[p] \cap todo'[p] = {}
    BY <2>1, <2>2
  <2>9. QED
    BY <2>2, <2>7, <2>8
<1>8. ~SkipAddress(p)
  BY DEF SkipAddress
<1>9. CASE Taken(p)
  <2>1. pc[p] = "take" /\ (Cardinality(got[p]) = 2 \/ todo[p] = {})
    BY <1>9 DEF Taken
  <2>2. todo[p] = {} => Cardinality(got[p]) = 2
    <3>1. Cardinality(got[p]) \in Nat
      BY FS_CardinalityType DEF AtMostTwo
    <3>2. QED
      BY <2>1, <3>1, FS_EmptySet DEF AtMostTwo
  <2>3. QED
    BY <1>9, <2>1, <2>2 DEF Taken
<1>10. CASE PutBack(p)
  BY <1>10 DEF PutBack, ProcInv
<1>11. CASE CallLock(p) \/ Unlock(p) \/ UnlockFirst(p) \/ Released(p) \/ InitNetwork(p)
  BY <1>11
  DEF CallLock, Unlock, UnlockFirst, Released, InitNetwork, Return, TooFew, LaterFails
<1>12. CASE Lock(p)
  BY <1>12 DEF Lock
<1>13. ~RangeMissing(p)
  BY DEF RangeMissing, RangeSaved
<1>14. QED
  BY <1>1, <1>2, <1>3, <1>4, <1>5, <1>6, <1>7, <1>8, <1>9, <1>10, <1>11, <1>12, <1>13, Zenon
  DEF Step, GetRouterIP, ReleaseRouterIP

\* Addresses go from the pool only inside the lock, where no one else is.
LEMMA OthersPairs ==
    ASSUME RouterInv, ~Overlap, NoFaults, IsFiniteSet(avail), NEW p \in Procs, Step(p),
           NEW q \in Procs \ {p}, Alive(q), PairInv(q)
    PROVE  PairInv(q)'
<1>1. TypeInv /\ LocalStep(p) /\ ProcInv(q)
  BY StepIsLocal DEF RouterInv
<1>2. pc[q] = "take" => todo[q] \subseteq avail'
  <2>1. SUFFICES ASSUME pc[q] = "take", Inside(p, "take") PROVE FALSE
    BY <1>1, StepFinite DEF PairInv
  <2>2. phase[Me(q)] = "held" /\ phase[Me(p)] = "held"
    BY <1>1, <2>1 DEF ProcInv, Alive, Me, Inside, TypeInv, TypeOK
  <2>3. QED
    BY <1>1, <2>2, OneInside
<1>3. QED
  BY <1>1, <1>2 DEF LocalStep, PairInv

-----------------------------------------------------------------------------
\* The invariant.

LEMMA InitPoolInv == Init => PoolInv
<1> SUFFICES ASSUME Init PROVE PoolInv
  OBVIOUS
<1>1. IsFiniteSet(avail) /\ Accounted /\ RangeSaved
  BY FS_EmptySet DEF Init, Accounted, RangeSaved
<1>2. \A p \in Procs : Alive(p) /\ AtMostTwo(p) /\ PairInv(p)
  BY FS_EmptySet DEF Init, L!Init, Callers, Alive, AtMostTwo, PairInv
<1>3. QED
  BY <1>1, <1>2 DEF PoolInv

LEMMA NextPoolInv == RouterInv /\ PoolInv /\ [Next]_vars => PoolInv'
<1> SUFFICES ASSUME RouterInv, PoolInv, [Next]_vars, faults' = 0
             PROVE  /\ RangeSaved'
                    /\ \A p \in Procs : Alive(p)' /\ AtMostTwo(p)'
                    /\ Accounted'
                    /\ IsFiniteSet(avail)'
                    /\ exclusionLost' \/ \A p \in Procs : PairInv(p)'
  BY DEF PoolInv
<1>1. TypeInv /\ NoFaults /\ faults = 0
  BY FaultsStay DEF RouterInv
<1>2. /\ RangeSaved
      /\ \A p \in Procs : Alive(p) /\ AtMostTwo(p) /\ ProcInv(p)
      /\ Accounted
      /\ IsFiniteSet(avail)
      /\ exclusionLost \/ (~Overlap /\ \A p \in Procs : PairInv(p))
  BY <1>1 DEF PoolInv, RouterInv
<1>3. CASE \E p \in Procs : Step(p)
  <2>1. PICK p \in Procs : Step(p)
    BY <1>3
  <2>2. /\ RangeSaved' /\ IsFiniteSet(avail)' /\ Accounted'
        /\ \A q \in Procs : Alive(q)' /\ AtMostTwo(q)'
    BY <1>1, <1>2, <2>1, StepRangeSaved, StepAccounts, StepFinite
  <2>3. ASSUME ~exclusionLost', NEW q \in Procs PROVE PairInv(q)'
    <3>1. ~Overlap /\ PairInv(q)
      BY <1>1, <1>2, <2>1, <2>3, StepIsLocal DEF LocalStep
    <3>2. QED
      BY <1>1, <1>2, <2>1, <3>1, StepPairs, OthersPairs
  <2>4. QED
    BY <2>2, <2>3
<1>4. CASE \E p \in Procs : StartGet(p)
  <2>1. PICK p \in Procs : StartGet(p)
    BY <1>4
  <2>2. /\ pc[p] = "start" /\ pc' = [pc EXCEPT ![p] = "get"] /\ got[p] = {}
        /\ UNCHANGED <<phase, exclusionLost, avail, iprange, dir, pairs, todo, got>>
    BY <1>2, <2>1 DEF StartGet, At, Goto, ProcInv, lockState, history, locals
  <2>3. \A q \in Procs : Alive(q)' /\ AtMostTwo(q)' /\ (PairInv(q) => PairInv(q)')
    BY <1>1, <1>2, <2>2 DEF Alive, AtMostTwo, PairInv, TypeInv, TypeOK
  <2>4. \A q \in Procs : \A a : Claims(q, a) => Claims(q, a)'
    BY <1>1, <2>2 DEF Claims, TypeInv, TypeOK
  <2>5. \A q \in Procs : Odd(q)' = Odd(q)
    BY <1>1, <2>2 DEF Odd, TypeInv, TypeOK
  <2>6. RangeSaved'
    BY <1>1, <1>2, <2>2 DEF RangeSaved, TypeInv, TypeOK
  <2>7. QED
    BY <1>2, <2>2, <2>3, <2>4, <2>5, <2>6 DEF Accounted
<1>5. CASE \E p, q \in Procs : StartRelease(p, q)
  <2>1. PICK p \in Procs, q \in Procs : StartRelease(p, q)
    BY <1>5
  <2>2. /\ pc[p] = "start" /\ pc' = [pc EXCEPT ![p] = "relRange"] /\ got[p] = {}
        /\ pairs[p] = {} /\ pc[q] = "done"
        /\ todo' = [todo EXCEPT ![p] = pairs[q]]
        /\ pairs' = [pairs EXCEPT ![q] = {}]
        /\ UNCHANGED <<phase, exclusionLost, avail, iprange, dir, got>>
    BY <1>2, <2>1 DEF StartRelease, At, Goto, ProcInv, lockState, history, locals
  <2>3. \A r \in Procs : Alive(r)' /\ AtMostTwo(r)' /\ (PairInv(r) => PairInv(r)')
    BY <1>1, <1>2, <2>2 DEF Alive, AtMostTwo, PairInv, TypeInv, TypeOK
  <2>4. \A r \in Procs \ {p, q} : \A a : Claims(r, a) => Claims(r, a)'
    BY <1>1, <2>2 DEF Claims, TypeInv, TypeOK
  <2>5. \A a : (Claims(p, a) \/ Claims(q, a)) => Claims(p, a)'
    BY <1>1, <2>2 DEF Claims, TypeInv, TypeOK
  <2>6. \A r \in Procs : Odd(r)' = Odd(r)
    BY <1>1, <2>2 DEF Odd, TypeInv, TypeOK
  <2>7. RangeSaved'
    BY <1>1, <1>2, <2>2 DEF RangeSaved, TypeInv, TypeOK
  <2>8. QED
    BY <1>2, <2>2, <2>3, <2>4, <2>5, <2>6, <2>7 DEF Accounted
<1>6. ASSUME NEW p \in Procs PROVE ~Crash(p)
  BY <1>1 DEF Crash, NoFaults
<1>7. CASE Expire \/ UNCHANGED vars
  <2>1. UNCHANGED <<phase, exclusionLost, avail, iprange, dir, pairs, pc, todo, got>>
    BY <1>7 DEF Expire, L!Expire, vars, lockState, history, locals
  <2>2. RangeSaved' /\ Accounted' /\ \A p \in Procs : Alive(p)' /\ AtMostTwo(p)'
    BY <1>2, <2>1 DEF RangeSaved, Alive, AtMostTwo, Accounted, Claims, Odd
  <2>3. QED
    BY <1>2, <2>1, <2>2 DEF PairInv
<1>8. QED
  BY <1>3, <1>4, <1>5, <1>6, <1>7 DEF Next

-----------------------------------------------------------------------------
\* The theorems.

LEMMA PoolInvKeepsAddresses == RouterInv /\ PoolInv => NoLostAddress
<1> SUFFICES ASSUME RouterInv, PoolInv, AtRest, faults = 0, iprange # 0,
                    NEW a \in Whole(iprange), a \notin avail
             PROVE  \E p \in Procs : a \in pairs[p] \cup Odd(p)
  BY DEF NoLostAddress
<1>1. PICK p \in Procs : Claims(p, a) \/ a \in Odd(p)
  BY DEF PoolInv, Accounted
<1>2. Alive(p) /\ ProcInv(p)
  BY DEF PoolInv, RouterInv
<1>3. pc[p] \in {"start", "done"}
  BY <1>2 DEF AtRest, Live, Dead, Alive
<1>4. QED
  BY <1>1, <1>2, <1>3 DEF Claims, ProcInv

LEMMA PoolInvPairs == PoolInv => AlwaysAPair
BY DEF PoolInv, PairInv, AlwaysAPair

\* As long as nothing has failed, no address of the range in use gets lost
\* between the pool and the tenants' routers, however often it has been refilled
\* and addresses released.  If two processes have been inside the lock, the one
\* exception is the address of a call of GetRouterIP that got a single one, which
\* initNetwork throws away.
THEOREM NoAddressLost == Spec => []NoLostAddress
BY InitRouterInv, NextRouterInv, InitPoolInv, NextPoolInv, PoolInvKeepsAddresses, PTL DEF Spec

\* Every call of GetRouterIP that returns has two addresses, neither none nor one,
\* whatever the size of the ranges, as long as the lock has excluded and nothing
\* has failed.
THEOREM PairReturned == Spec => []AlwaysAPair
BY InitRouterInv, NextRouterInv, InitPoolInv, NextPoolInv, PoolInvPairs, PTL DEF Spec
=============================================================================
