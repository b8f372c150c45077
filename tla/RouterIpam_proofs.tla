-------------------------- MODULE RouterIpam_proofs -------------------------
(***************************************************************************)
(* Theorems about RouterIpam, for any set of processes, any size of the    *)
(* ranges and any number of faults.                                        *)
(***************************************************************************)
EXTENDS RouterIpam, TLAPS

-----------------------------------------------------------------------------
\* Types.

\* The range about to be filled is one, which makes TypeOK inductive, and there
\* are no keys without their directory.
TypeInv ==
    /\ TypeOK
    /\ \A p \in Procs : pc[p] = "setRange" => next[p] # 0
    /\ ~dir => avail = {} /\ iprange = 0

LEMMA AddressFacts ==
    \A r \in Nat \ {0} : Pair(r) \subseteq Address /\ Pool(r) \subseteq Address
BY RouterAssumption DEF RouterAssumption, Pair, Pool, Address

LEMMA InitTypeInv == Init => TypeInv
<1> SUFFICES ASSUME Init PROVE TypeInv
  OBVIOUS
<1>1. L!TypeOK
  BY RouterAssumption DEF RouterAssumption, Init, L!Init, L!TypeOK, L!Phases, Callers
<1>2. QED
  BY <1>1 DEF Init, TypeInv, TypeOK, Labels

\* The lock keeps its types, as in EtcdMutex_proofs.
LEMMA LockStepType ==
    ASSUME L!TypeOK, NEW c \in Callers,
           L!CallLock(c) \/ L!LockStep(c) \/ L!UnlockStep(c) \/ L!Expire
    PROVE  L!TypeOK'
<1> USE RouterAssumption
    DEF RouterAssumption, L!TypeOK, L!Phases, L!Move, L!Fault
<1>1. CASE L!CallLock(c)
  BY <1>1 DEF L!CallLock
<1>2. CASE L!LockStep(c)
  <2>1. CASE L!SetCreates(c) \/ L!SetExists(c) \/ L!GetFinds(c) \/ L!WatchFires(c)
    BY <2>1 DEF L!SetCreates, L!SetExists, L!GetFinds, L!WatchFires
  <2>2. CASE L!SetFails(c)
    BY <2>2 DEF L!SetFails, L!NextAttempt
  <2>3. CASE L!GetMissing(c) \/ L!ReadFails(c)
    BY <2>3 DEF L!GetMissing, L!ReadFails, L!NextAttempt
  <2>4. QED
    BY <1>2, <2>1, <2>2, <2>3 DEF L!LockStep
<1>3. CASE L!UnlockStep(c)
  <2>1. CASE L!DeleteRemoves(c) \/ L!DeleteMissing(c)
    BY <2>1 DEF L!DeleteRemoves, L!DeleteMissing, L!WakeWatchers
  <2>2. CASE L!DeleteFails(c)
    <3>1. woken' \in [Callers -> BOOLEAN]
      BY <2>2, Zenon DEF L!DeleteFails, L!WakeWatchers
    <3>2. /\ node' \in Callers \cup {Nobody}
          /\ phase' \in [Callers -> L!Phases]
          /\ try' \in [Callers -> 0 .. DefaultTry]
      BY <2>2 DEF L!DeleteFails
    <3>3. calls' = calls /\ faults' \in 0 .. MaxFaults
      BY <2>2 DEF L!DeleteFails
    <3>4. QED
      BY <3>1, <3>2, <3>3
  <2>3. QED
    BY <1>3, <2>1, <2>2 DEF L!UnlockStep
<1>4. CASE L!Expire
  BY <1>4 DEF L!Expire, L!WakeWatchers
<1>5. QED
  BY <1>1, <1>2, <1>3, <1>4

\* Entering Unlock, or doing nothing to the lock, keeps its types.
LEMMA LeaveType ==
    ASSUME L!TypeOK, faults' \in 0 .. MaxFaults,
           \/ UNCHANGED lockState
           \/ \E c \in Callers : L!EnterUnlock(c)
    PROVE  L!TypeOK'
BY RouterAssumption
DEF RouterAssumption, L!TypeOK, L!Phases, L!EnterUnlock, L!Move, lockState

\* The rest of the types, apart from the lock's.
OwnTypes ==
    /\ exclusionLost \in BOOLEAN
    /\ rangeLost \in BOOLEAN
    /\ avail \subseteq Address
    /\ iprange \in Nat
    /\ pairs \in [Procs -> SUBSET Address]
    /\ pc \in [Procs -> Labels]
    /\ turn \in [Procs -> {1, 2}]
    /\ todo \in [Procs -> SUBSET Address]
    /\ got \in [Procs -> SUBSET Address]
    /\ next \in [Procs -> Nat]
    /\ \A p \in Procs : pc[p] = "setRange" => next[p] # 0

DirType ==
    /\ dir \in BOOLEAN
    /\ ~dir => avail = {} /\ iprange = 0

LEMMA TypeParts == TypeInv <=> L!TypeOK /\ OwnTypes /\ DirType
BY Zenon DEF TypeInv, TypeOK, OwnTypes, DirType

LEMMA FaultType ==
    ASSUME L!TypeOK
    PROVE  /\ NoFault => faults' \in 0 .. MaxFaults
           /\ \A k : Fault(k) => faults' \in 0 .. MaxFaults
BY RouterAssumption DEF RouterAssumption, L!TypeOK, NoFault, Fault, L!Fault

\* What a step of a running process may do to the lock.
LEMMA StepLockType ==
    ASSUME TypeInv, NEW p \in Procs, Step(p)
    PROVE  L!TypeOK'
<1> USE DEF TypeInv, TypeOK
<1>1. Me(p) \in Callers /\ <<p, 1>> \in Callers
  BY DEF Me, Callers
<1>2. CASE CallLock(p) \/ Lock(p) \/ Unlock(p)
  BY <1>1, <1>2, LockStepType DEF CallLock, Lock, Unlock
<1>3. CASE UnlockFirst(p)
  <2>1. L!EnterUnlock(<<p, 1>>) /\ faults' = faults
    BY <1>3 DEF UnlockFirst
  <2>2. faults' \in 0 .. MaxFaults
    BY <2>1, FaultType DEF NoFault
  <2>3. QED
    BY <1>1, <2>1, <2>2, LeaveType
<1>4. CASE InitNetwork(p) \/ Released(p)
  BY <1>4, FaultType, LeaveType DEF InitNetwork, Return, TooFew, LaterFails, Released, NoFault
<1>5. CASE GetRouterIP(p) \/ CompareRange(p) \/ CompareFails(p) \/ PutBack(p)
  <2>1. faults' \in 0 .. MaxFaults
    BY <1>5, FaultType
    DEF GetRouterIP, GetFails, ReadMissing, ReadFew, ReadEnough, NextRange,
        RangeMissing, SetRange, SetRangeFails, FillPool, Filled, TakeAddress, SkipAddress,
        Taken, CompareRange, CompareFails, PutBack, NoFault
  <2>2. UNCHANGED lockState \/ L!EnterUnlock(Me(p))
    BY <1>5
    DEF GetRouterIP, GetFails, ReadMissing, ReadFew, ReadEnough, NextRange,
        RangeMissing, SetRange, SetRangeFails, FillPool, Filled, TakeAddress, SkipAddress,
        Taken, CompareRange, CompareFails, PutBack, BeginFill, Leave, lockState
  <2>3. QED
    BY <1>1, <2>1, <2>2, LeaveType
<1>6. QED
  BY <1>2, <1>3, <1>4, <1>5 DEF Step, ReleaseRouterIP

LEMMA StepOwnTypes ==
    ASSUME OwnTypes, NEW p \in Procs, Step(p)
    PROVE  OwnTypes'
<1> USE AddressFacts
    DEF OwnTypes, Labels, Goto, Inside, At, Leave, SaveRange, Put, history, locals
<1>1. CASE GetFails(p) \/ RangeMissing(p) \/ Filled(p) \/ Taken(p) \/ ReadFew(p)
  BY <1>1 DEF GetFails, RangeMissing, Filled, Taken, ReadFew
<1>2. CASE ReadMissing(p)
  BY <1>2 DEF ReadMissing
<1>3. CASE ReadEnough(p)
  BY <1>3 DEF ReadEnough
<1>4. CASE NextRange(p)
  BY <1>4 DEF NextRange
<1>5. CASE SetRange(p)
  BY <1>5 DEF SetRange, BeginFill
<1>6. CASE SetRangeFails(p)
  <2>1. CASE Leave(p, "return") /\ UNCHANGED <<rangeLost, locals>>
    BY <1>6, <2>1 DEF SetRangeFails
  <2>2. CASE BeginFill(p) /\ rangeLost' = (rangeLost \/ iprange' # next[p])
    <3>1. rangeLost' \in BOOLEAN
      BY <2>2, Zenon
    <3>2. QED
      BY <1>6, <2>2, <3>1 DEF SetRangeFails, BeginFill
  <2>3. QED
    BY <1>6, <2>1, <2>2 DEF SetRangeFails
<1>7. CASE FillPool(p)
  BY <1>7 DEF FillPool
<1>8. CASE TakeAddress(p)
  BY <1>8 DEF TakeAddress
<1>9. CASE SkipAddress(p)
  BY <1>9 DEF SkipAddress
<1>10. CASE CompareRange(p)
  BY <1>10 DEF CompareRange
<1>11. CASE CompareFails(p)
  BY <1>11 DEF CompareFails
<1>12. CASE PutBack(p)
  BY <1>12 DEF PutBack
<1>13. CASE CallLock(p) \/ Unlock(p)
  BY <1>13 DEF CallLock, Unlock
<1>14. CASE Lock(p)
  <2>1. exclusionLost' \in BOOLEAN
    BY <1>14, Zenon DEF Lock
  <2>2. QED
    BY <1>14, <2>1 DEF Lock
<1>15. CASE UnlockFirst(p)
  BY <1>15 DEF UnlockFirst
<1>16. CASE InitNetwork(p) \/ Released(p)
  BY <1>16 DEF InitNetwork, Return, TooFew, LaterFails, Released
<1>17. QED
  BY <1>1, <1>2, <1>3, <1>4, <1>5, <1>6, <1>7, <1>8, <1>9, <1>10, <1>11, <1>12,
     <1>13, <1>14, <1>15, <1>16, Zenon
  DEF Step, GetRouterIP, ReleaseRouterIP

\* A key is set in the directory, or there are no more than before.
LEMMA StepDirType ==
    ASSUME DirType, NEW p \in Procs, Step(p)
    PROVE  DirType'
<1> DEFINE Fewer == dir' = dir /\ iprange' = iprange /\ avail' \subseteq avail
<1>1. dir' = TRUE \/ Fewer
  <2>1. CASE SetRange(p) \/ SetRangeFails(p)
    BY <2>1 DEF SetRange, SetRangeFails, SaveRange
  <2>2. CASE FillPool(p) \/ PutBack(p)
    BY <2>2 DEF FillPool, PutBack, Put
  <2>3. CASE TakeAddress(p) \/ SkipAddress(p)
    BY <2>3 DEF TakeAddress, SkipAddress
  <2>4. CASE \/ GetFails(p) \/ ReadMissing(p) \/ ReadFew(p) \/ ReadEnough(p)
             \/ NextRange(p) \/ RangeMissing(p) \/ Filled(p) \/ Taken(p)
             \/ CompareRange(p) \/ CompareFails(p) \/ UnlockFirst(p) \/ Released(p)
             \/ InitNetwork(p) \/ CallLock(p) \/ Lock(p) \/ Unlock(p)
    BY <2>4
    DEF GetFails, ReadMissing, ReadFew, ReadEnough, NextRange, RangeMissing, Filled, Taken,
        CompareRange, CompareFails, UnlockFirst, Released, InitNetwork, Return, TooFew,
        LaterFails, CallLock, Lock, Unlock
  <2>5. QED
    BY <2>1, <2>2, <2>3, <2>4, Zenon DEF Step, GetRouterIP, ReleaseRouterIP
<1>2. CASE dir' = TRUE
  BY <1>2, Zenon DEF DirType
<1>3. CASE Fewer
  <2>1. ASSUME ~dir' PROVE avail' = {} /\ iprange' = 0
    BY <1>3, <2>1 DEF DirType
  <2>2. dir' \in BOOLEAN
    BY <1>3, Zenon DEF DirType
  <2>3. QED
    BY <2>1, <2>2, Zenon DEF DirType
<1>4. QED
  BY <1>1, <1>2, <1>3, Zenon

LEMMA NextTypeInv == TypeInv /\ [Next]_vars => TypeInv'
<1> SUFFICES ASSUME TypeInv, [Next]_vars PROVE TypeInv'
  OBVIOUS
<1>0. L!TypeOK /\ OwnTypes /\ DirType
  BY TypeParts
<1> SUFFICES L!TypeOK' /\ OwnTypes' /\ DirType'
  BY Zenon DEF TypeInv, TypeOK, OwnTypes, DirType
<1>1. CASE \E p \in Procs : Step(p)
  <2>1. PICK p \in Procs : Step(p)
    BY <1>1
  <2>2. QED
    BY <1>0, <2>1, StepLockType, StepOwnTypes, StepDirType
<1>2. CASE \E p \in Procs : StartGet(p) \/ \E q \in Procs : StartRelease(p, q)
  <2>1. PICK p \in Procs, q \in Procs : StartGet(p) \/ StartRelease(p, q)
    BY <1>2
  <2>2. L!TypeOK'
    BY <1>0, <2>1, FaultType, LeaveType DEF StartGet, StartRelease, NoFault
  <2>3. OwnTypes'
    BY <1>0, <2>1 DEF StartGet, StartRelease, OwnTypes, Labels, Goto, history, locals
  <2>4. UNCHANGED <<dir, avail, iprange>>
    BY <2>1 DEF StartGet, StartRelease
  <2>5. QED
    BY <1>0, <2>2, <2>3, <2>4 DEF DirType
<1>3. CASE \E p \in Procs : Crash(p)
  <2>1. L!TypeOK'
    BY <1>0, <1>3, FaultType DEF Crash, L!TypeOK, L!Phases
  <2>2. OwnTypes'
    BY <1>0, <1>3 DEF Crash, OwnTypes, history, locals
  <2>3. DirType'
    BY <1>0, <1>3 DEF Crash, DirType
  <2>4. QED
    BY <2>1, <2>2, <2>3
<1>4. CASE Expire
  <2>1. node \in Callers /\ L!Expire
    BY <1>0, <1>4 DEF Expire, L!TypeOK
  <2>2. L!TypeOK'
    BY <1>0, <2>1, LockStepType
  <2>3. OwnTypes'
    BY <1>0, <1>4 DEF Expire, OwnTypes, history, locals
  <2>4. DirType'
    BY <1>0, <1>4 DEF Expire, DirType
  <2>5. QED
    BY <2>2, <2>3, <2>4
<1>5. CASE UNCHANGED vars
  BY <1>0, <1>5 DEF vars, OwnTypes, DirType, L!TypeOK, lockState, history, locals
<1>6. QED
  BY <1>1, <1>2, <1>3, <1>4, <1>5 DEF Next

\* The types of the lock, the keys, the addresses at routers and the variables
\* of the plugin, whatever fails: no range is numbered 0, which stands for none.
THEOREM TypeCorrect == Spec => []TypeOK
<1>1. TypeInv => TypeOK
  BY DEF TypeInv
<1>2. QED
  BY <1>1, InitTypeInv, NextTypeInv, PTL DEF Spec

-----------------------------------------------------------------------------
\* Unique addresses.

\* The router of p's tenant has address a, or p is about to return it or to
\* put it into the pool.
Claims(p, a) ==
    \/ a \in pairs[p]
    \/ pc[p] # "done" /\ a \in got[p]
    \/ pc[p] \in {"fill", "relRange", "release"} /\ a \in todo[p]

\* What one process knows: inside the loops of GetRouterIP it has the lock, and
\* its variables hold no address twice.
ProcInv(p) ==
    /\ pc[p] \in {"readRange", "setRange", "fill", "take"} => phase[Me(p)] \in {"held", "dead"}
    /\ pc[p] # "done" => pairs[p] = {}
    /\ pc[p] \in {"start", "relRange", "release", "unlock"} => got[p] = {}
    /\ pc[p] = "fill" => got[p] \cap todo[p] = {}

\* An address is in one place, none is of a range to come, and a process about
\* to set the range sets the next one.
AddressInv ==
    /\ \A p, q \in Procs : \A a \in Address : Claims(p, a) /\ Claims(q, a) => p = q
    /\ \A p \in Procs : \A a \in avail : ~Claims(p, a)
    /\ \A a \in avail : RangeOf(a) <= iprange
    /\ \A p \in Procs : \A a \in Address : Claims(p, a) => RangeOf(a) <= iprange
    /\ \A p \in Procs : Inside(p, "setRange") => next[p] = iprange + 1

RouterInv ==
    /\ TypeInv
    /\ \A p \in Procs : ProcInv(p)
    /\ exclusionLost \/ ~Overlap
    /\ exclusionLost \/ rangeLost \/ AddressInv

\* Nothing of another process changes, and what has been lost stays lost.
LocalStep(p) ==
    /\ \A q \in Procs \ {p} :
          /\ pc'[q] = pc[q]
          /\ turn'[q] = turn[q]
          /\ todo'[q] = todo[q]
          /\ got'[q] = got[q]
          /\ next'[q] = next[q]
          /\ pairs'[q] = pairs[q]
          /\ \A i \in {1, 2} : phase'[<<q, i>>] = phase[<<q, i>>]
    /\ exclusionLost => exclusionLost'
    /\ rangeLost => rangeLost'

LEMMA StepIsLocal ==
    ASSUME TypeInv, NEW p \in Procs, Step(p)
    PROVE  LocalStep(p)
<1> USE DEF TypeInv, TypeOK, L!TypeOK, LocalStep, Goto, Leave, L!EnterUnlock, L!Move,
        SaveRange, Put, Me, Callers, lockState, history, locals
<1>1. CASE GetFails(p) \/ RangeMissing(p) \/ Filled(p) \/ Taken(p) \/ ReadFew(p)
  BY <1>1 DEF GetFails, RangeMissing, Filled, Taken, ReadFew
<1>2. CASE ReadMissing(p) \/ ReadEnough(p) \/ NextRange(p)
  BY <1>2 DEF ReadMissing, ReadEnough, NextRange
<1>3. CASE SetRange(p)
  BY <1>3 DEF SetRange, BeginFill
<1>4. CASE SetRangeFails(p)
  BY <1>4 DEF SetRangeFails, BeginFill
<1>5. CASE FillPool(p) \/ TakeAddress(p) \/ SkipAddress(p)
  BY <1>5 DEF FillPool, TakeAddress, SkipAddress
<1>6. CASE CompareRange(p) \/ CompareFails(p)
  BY <1>6 DEF CompareRange, CompareFails
<1>7. CASE PutBack(p)
  BY <1>7 DEF PutBack
<1>8. CASE CallLock(p)
  BY <1>8 DEF CallLock, L!CallLock
<1>9. CASE Lock(p)
  <2>1. PICK l : phase' = [phase EXCEPT ![Me(p)] = l] \/ phase' = phase
    BY <1>9 DEF Lock, L!LockStep, L!SetCreates, L!SetExists, L!SetFails, L!GetFinds,
       L!GetMissing, L!ReadFails, L!WatchFires, L!NextAttempt
  <2>2. QED
    BY <1>9, <2>1 DEF Lock
<1>10. CASE Unlock(p)
  <2>1. PICK l : phase' = [phase EXCEPT ![Me(p)] = l] \/ phase' = phase
    BY <1>10 DEF Unlock, L!UnlockStep, L!DeleteRemoves, L!DeleteMissing, L!DeleteFails
  <2>2. QED
    BY <1>10, <2>1 DEF Unlock
<1>11. CASE UnlockFirst(p)
  BY <1>11 DEF UnlockFirst
<1>12. CASE InitNetwork(p) \/ Released(p)
  BY <1>12 DEF InitNetwork, Return, TooFew, LaterFails, Released
<1>13. QED
  BY <1>1, <1>2, <1>3, <1>4, <1>5, <1>6, <1>7, <1>8, <1>9, <1>10, <1>11, <1>12, Zenon
  DEF Step, GetRouterIP, ReleaseRouterIP

\* What a step of p leaves true of p, and of the lock.
ControlStep(p) ==
    /\ ProcInv(p)'
    /\ \/ \A i \in {1, 2} : phase'[<<p, i>>] = "held" => phase[<<p, i>>] = "held"
       \/ exclusionLost' \/ ~Overlap'

LEMMA StepControls ==
    ASSUME TypeInv, NEW p \in Procs, ProcInv(p), Step(p)
    PROVE  ControlStep(p)
<1> USE AddressFacts
    DEF TypeInv, TypeOK, L!TypeOK, ControlStep, ProcInv, Goto, Leave, Inside, At,
        L!EnterUnlock, L!Move, SaveRange, Put, Me, Callers, lockState, history, locals
<1>1. CASE GetFails(p) \/ RangeMissing(p) \/ Filled(p) \/ Taken(p)
  BY <1>1 DEF GetFails, RangeMissing, Filled, Taken
<1>2. CASE ReadMissing(p) \/ ReadEnough(p) \/ NextRange(p) \/ ReadFew(p)
  BY <1>2 DEF ReadMissing, ReadEnough, NextRange, ReadFew
<1>3. ASSUME BeginFill(p), Inside(p, "setRange"), pairs' = pairs PROVE ControlStep(p)
  <2>1. Pair(next[p]) \cap Pool(next[p]) = {}
    BY DEF Pair, Pool
  <2>2. QED
    BY <1>3, <2>1 DEF BeginFill
<1>4. CASE SetRange(p)
  BY <1>3, <1>4 DEF SetRange
<1>5. CASE SetRangeFails(p)
  BY <1>3, <1>5 DEF SetRangeFails
<1>6. CASE FillPool(p) \/ TakeAddress(p) \/ SkipAddress(p)
  <2>1. CASE FillPool(p)
    BY <2>1 DEF FillPool
  <2>2. CASE TakeAddress(p)
    BY <2>2 DEF TakeAddress
  <2>3. CASE SkipAddress(p)
    BY <2>3 DEF SkipAddress
  <2>4. QED
    BY <1>6, <2>1, <2>2, <2>3
<1>7. CASE CompareRange(p) \/ CompareFails(p)
  BY <1>7 DEF CompareRange, CompareFails
<1>8. CASE PutBack(p)
  <2>1. PICK a \in todo[p] :
           /\ todo' = [todo EXCEPT ![p] = @ \ {a}]
           /\ IF todo[p] = {a}
              THEN Leave(p, "unlock") /\ UNCHANGED turn
              ELSE turn' = [turn EXCEPT ![p] = 2] /\ UNCHANGED <<lockState, pc>>
    BY <1>8 DEF PutBack
  <2>2. /\ Inside(p, "release")
        /\ pairs' = pairs /\ got' = got
    BY <1>8 DEF PutBack
  <2>3. CASE todo[p] = {a}
    BY <2>1, <2>2, <2>3
  <2>4. CASE todo[p] # {a}
    BY <2>1, <2>2, <2>4
  <2>5. QED
    BY <2>3, <2>4
<1>9. CASE CallLock(p)
  BY <1>9 DEF CallLock, L!CallLock
<1>10. CASE Lock(p)
  <2>1. phase[Me(p)] \in {"set", "get", "watch"}
    BY <1>10 DEF Lock, L!LockStep, L!SetCreates, L!SetExists, L!SetFails, L!GetFinds,
       L!GetMissing, L!ReadFails, L!WatchFires
  <2>2. exclusionLost' \/ ~Overlap'
    BY <1>10 DEF Lock
  <2>3. QED
    BY <1>10, <2>1, <2>2 DEF Lock
<1>11. CASE Unlock(p)
  <2>1. phase[Me(p)] = "delete"
    BY <1>11 DEF Unlock, L!UnlockStep, L!DeleteRemoves, L!DeleteMissing, L!DeleteFails
  <2>2. PICK l \in {"delete", "idle"} : phase' = [phase EXCEPT ![Me(p)] = l]
    BY <1>11 DEF Unlock, L!UnlockStep, L!DeleteRemoves, L!DeleteMissing, L!DeleteFails
  <2>3. QED
    BY <1>11, <2>1, <2>2 DEF Unlock
<1>12. CASE UnlockFirst(p)
  BY <1>12 DEF UnlockFirst
<1>13. CASE InitNetwork(p) \/ Released(p)
  BY <1>13 DEF InitNetwork, Return, TooFew, LaterFails, Released
<1>14. QED
  BY <1>1, <1>2, <1>4, <1>5, <1>6, <1>7, <1>8, <1>9, <1>10, <1>11, <1>12, <1>13, Zenon
  DEF Step, GetRouterIP, ReleaseRouterIP

\* What p's step does to the addresses.  p lays claim to what it had, to what
\* was in the pool, or to the next range; the pool gains what p had.
Transfer(p) ==
    /\ \A a \in Address : Claims(p, a)' =>
          \/ Claims(p, a)
          \/ a \in avail
          \/ RangeOf(a) = iprange + 1 /\ iprange' = iprange + 1
    /\ \A a \in avail' : (a \in avail \/ Claims(p, a)) /\ ~Claims(p, a)'
    /\ iprange' = iprange \/ (Inside(p, "setRange") /\ iprange' = iprange + 1)
    /\ Inside(p, "setRange")' => next'[p] = iprange' + 1

LEMMA StepTransfers ==
    ASSUME TypeInv, NEW p \in Procs, ProcInv(p), AddressInv, Step(p), ~rangeLost'
    PROVE  Transfer(p)
<1> USE DEF TypeInv, TypeOK, L!TypeOK, ProcInv, Transfer, Claims, Goto, Leave, Inside, At,
        L!EnterUnlock, L!Move, SaveRange, Put, Me, Callers, lockState, history, locals
<1>0. /\ \A a \in avail : a \in Address /\ ~Claims(p, a)
      /\ Inside(p, "setRange") => next[p] = iprange + 1
  BY DEF AddressInv
<1> USE <1>0
<1>1. CASE GetFails(p) \/ RangeMissing(p) \/ Filled(p) \/ Taken(p) \/ ReadFew(p)
  BY <1>1 DEF GetFails, RangeMissing, Filled, Taken, ReadFew
<1>2. CASE ReadMissing(p) \/ ReadEnough(p) \/ NextRange(p)
  BY <1>2 DEF ReadMissing, ReadEnough, NextRange
<1>3. ASSUME BeginFill(p), Inside(p, "setRange"), pairs' = pairs, avail' = avail,
             iprange' = next[p]
      PROVE  Transfer(p)
  <2>1. next[p] = iprange + 1
    BY <1>3
  <2>2. \A a \in Pair(next[p]) \cup Pool(next[p]) : RangeOf(a) = next[p]
    BY DEF Pair, Pool, RangeOf
  <2>3. \A a \in Address : Claims(p, a)' => Claims(p, a) \/ a \in Pair(next[p]) \cup Pool(next[p])
    BY <1>3 DEF BeginFill
  <2>4. \A a \in avail : RangeOf(a) <= iprange /\ RangeOf(a) \in Nat
    BY DEF AddressInv, Address, RangeOf
  <2>5. \A a \in avail : a \notin Pair(next[p]) \cup Pool(next[p])
    BY <2>1, <2>2, <2>4
  <2>6. \A a \in avail' : ~Claims(p, a)'
    BY <1>3, <2>3, <2>5
  <2>7. pc'[p] = "fill"
    BY <1>3 DEF BeginFill
  <2>8. QED
    BY <1>3, <2>1, <2>2, <2>3, <2>6, <2>7
<1>4. CASE SetRange(p)
  BY <1>3, <1>4 DEF SetRange
<1>5. CASE SetRangeFails(p)
  <2>1. CASE Leave(p, "return") /\ UNCHANGED <<rangeLost, locals>>
    BY <1>5, <2>1 DEF SetRangeFails
  <2>2. CASE BeginFill(p) /\ rangeLost' = (rangeLost \/ iprange' # next[p])
    BY <1>3, <1>5, <2>2 DEF SetRangeFails
  <2>3. QED
    BY <1>5, <2>1, <2>2 DEF SetRangeFails
<1>6. CASE FillPool(p)
  BY <1>6 DEF FillPool
<1>7. CASE TakeAddress(p)
  BY <1>7 DEF TakeAddress
<1>8. CASE SkipAddress(p)
  BY <1>8 DEF SkipAddress
<1>9. CASE CompareRange(p) \/ CompareFails(p)
  BY <1>9 DEF CompareRange, CompareFails
<1>10. CASE PutBack(p)
  BY <1>10 DEF PutBack
<1>11. CASE CallLock(p)
  BY <1>11 DEF CallLock
<1>11a. CASE Unlock(p)
  <2>1. phase[Me(p)] = "delete"
    BY <1>11a DEF Unlock, L!UnlockStep, L!DeleteRemoves, L!DeleteMissing, L!DeleteFails
  <2>2. QED
    BY <1>11a, <2>1 DEF Unlock
<1>12. CASE Lock(p)
  <2>1. phase[Me(p)] \in {"set", "get", "watch"}
    BY <1>12 DEF Lock, L!LockStep, L!SetCreates, L!SetExists, L!SetFails, L!GetFinds,
       L!GetMissing, L!ReadFails, L!WatchFires
  <2>2. QED
    BY <1>12, <2>1 DEF Lock
<1>13. CASE UnlockFirst(p)
  BY <1>13 DEF UnlockFirst
<1>14. CASE InitNetwork(p) \/ Released(p)
  BY <1>14 DEF InitNetwork, Return, TooFew, LaterFails, Released
<1>15. QED
  BY <1>1, <1>2, <1>4, <1>5, <1>6, <1>7, <1>8, <1>9, <1>10, <1>11, <1>11a, <1>12, <1>13,
     <1>14, Zenon
  DEF Step, GetRouterIP, ReleaseRouterIP

\* Another process stays where it is in the lock.
LEMMA OthersStay ==
    ASSUME TypeInv, NEW p \in Procs, LocalStep(p), NEW q \in Procs, q # p
    PROVE  phase'[Me(q)'] = phase[Me(q)]
<1>1. turn[q] \in {1, 2} /\ turn'[q] = turn[q]
  BY DEF TypeInv, TypeOK, LocalStep
<1>2. \A i \in {1, 2} : phase'[<<q, i>>] = phase[<<q, i>>]
  BY DEF LocalStep
<1>3. phase'[<<q, turn[q]>>] = phase[<<q, turn[q]>>]
  BY <1>1, <1>2, Zenon
<1>4. QED
  BY <1>1, <1>3 DEF Me

LEMMA StepRouterInv ==
    ASSUME RouterInv, NEW p \in Procs, Step(p)
    PROVE  RouterInv'
<1>1. TypeInv /\ TypeInv' /\ LocalStep(p) /\ ControlStep(p)
  BY StepIsLocal, StepControls, NextTypeInv DEF RouterInv, Next
<1>2. \A q \in Procs : ProcInv(q)'
  <2>1. ASSUME NEW q \in Procs, q # p PROVE ProcInv(q)'
    <3>1. phase'[Me(q)'] = phase[Me(q)]
      BY <1>1, <2>1, OthersStay
    <3>2. QED
      BY <1>1, <2>1, <3>1 DEF RouterInv, ProcInv, LocalStep
  <2>2. QED
    BY <1>1, <2>1 DEF ControlStep
<1>3. exclusionLost' \/ ~Overlap'
  <2>1. CASE \A i \in {1, 2} : phase'[<<p, i>>] = "held" => phase[<<p, i>>] = "held"
    <3>1. ASSUME NEW c \in Callers, phase'[c] = "held" PROVE phase[c] = "held"
      <4>1. PICK q \in Procs, i \in {1, 2} : c = <<q, i>>
        BY DEF Callers
      <4>2. CASE q = p
        BY <2>1, <3>1, <4>1, <4>2
      <4>3. CASE q # p
        <5>1. phase'[<<q, i>>] = phase[<<q, i>>]
          BY <1>1, <4>1, <4>3 DEF LocalStep
        <5>2. QED
          BY <3>1, <4>1, <5>1
      <4>4. QED
        BY <4>2, <4>3
    <3>2. QED
      BY <1>1, <3>1 DEF RouterInv, Overlap, LocalStep
  <2>2. QED
    BY <1>1, <2>1 DEF ControlStep
<1>4. ASSUME ~exclusionLost', ~rangeLost' PROVE AddressInv'
  <2>1. ~exclusionLost /\ ~Overlap /\ AddressInv /\ ProcInv(p)
    BY <1>1, <1>4 DEF RouterInv, LocalStep
  <2>2. Transfer(p)
    BY <1>1, <1>4, <2>1, StepTransfers
  <2>3. \A q \in Procs \ {p} : \A a : Claims(q, a)' <=> Claims(q, a)
    BY <1>1 DEF LocalStep, Claims
  <2>4. avail \subseteq Address /\ avail' \subseteq Address /\ iprange \in Nat /\ iprange' \in Nat
    BY <1>1 DEF TypeInv, TypeOK
  <2>5. \A a \in Address : RangeOf(a) \in Nat
    BY DEF Address, RangeOf
  <2>6. ASSUME NEW q \in Procs \ {p}, NEW a \in Address, Claims(q, a)'
        PROVE  ~Claims(p, a)' /\ a \notin avail'
    <3>1. Claims(q, a) /\ a \notin avail /\ ~Claims(p, a) /\ RangeOf(a) <= iprange
      BY <2>1, <2>3, <2>6 DEF AddressInv
    <3>2. QED
      BY <2>2, <2>4, <2>5, <3>1 DEF Transfer
  <2>7. \A q, r \in Procs : \A a \in Address : Claims(q, a)' /\ Claims(r, a)' => q = r
    BY <2>1, <2>3, <2>6 DEF AddressInv
  <2>8. \A q \in Procs : \A a \in avail' : ~Claims(q, a)'
    BY <2>2, <2>4, <2>6 DEF Transfer
  <2>9. iprange <= iprange'
    BY <2>2, <2>4 DEF Transfer
  <2>10. \A a \in avail' : RangeOf(a) <= iprange'
    BY <2>1, <2>2, <2>4, <2>5, <2>9 DEF Transfer, AddressInv
  <2>11. \A q \in Procs : \A a \in Address : Claims(q, a)' => RangeOf(a) <= iprange'
    BY <2>1, <2>2, <2>3, <2>4, <2>5, <2>9 DEF Transfer, AddressInv
  <2>12. ASSUME NEW q \in Procs, Inside(q, "setRange")' PROVE next'[q] = iprange' + 1
    <3>1. CASE q = p
      BY <2>2, <2>12, <3>1 DEF Transfer
    <3>2. CASE q # p
      <4>0. phase'[Me(q)'] = phase[Me(q)] /\ pc'[q] = pc[q] /\ next'[q] = next[q]
        BY <1>1, <3>2, OthersStay DEF LocalStep
      <4>1. Inside(q, "setRange") /\ next'[q] = next[q]
        BY <2>12, <4>0 DEF Inside
      <4>2. ~Inside(p, "setRange")
        BY <1>1, <2>1, <3>2, <4>1 DEF Overlap, Inside, Me, Callers, TypeInv, TypeOK
      <4>3. QED
        BY <2>1, <2>2, <4>1, <4>2 DEF Transfer, AddressInv
    <3>3. QED
      BY <3>1, <3>2
  <2>13. QED
    BY <2>7, <2>8, <2>10, <2>11, <2>12 DEF AddressInv
<1>5. QED
  BY <1>1, <1>2, <1>3, <1>4 DEF RouterInv

\* A release begins: the addresses go from the tenant to the process.
LEMMA StartRouterInv ==
    ASSUME RouterInv, TypeInv', NEW p \in Procs, NEW q \in Procs,
           StartGet(p) \/ StartRelease(p, q)
    PROVE  RouterInv'
<1> USE DEF lockState, history, locals
<1>1. /\ TypeInv /\ ProcInv(p)
      /\ pc[p] = "start"
      /\ UNCHANGED <<phase, exclusionLost, rangeLost, avail, iprange, turn, got, next>>
  BY DEF RouterInv, StartGet, StartRelease, At
<1>2. CASE StartGet(p)
  <2>1. pc' = [pc EXCEPT ![p] = "get"] /\ UNCHANGED <<todo, pairs>>
    BY <1>2 DEF StartGet, Goto
  <2>2. \A r \in Procs : \A a : Claims(r, a)' => Claims(r, a)
    BY <1>1, <2>1 DEF Claims, TypeInv, TypeOK
  <2>3. \A r \in Procs : ProcInv(r)'
    BY <1>1, <2>1 DEF ProcInv, RouterInv, Me, TypeInv, TypeOK
  <2>4. \A r \in Procs : Inside(r, "setRange")' => Inside(r, "setRange")
    BY <1>1, <2>1 DEF Inside, Me, TypeInv, TypeOK
  <2>5. AddressInv => AddressInv'
    BY <1>1, <2>2, <2>4 DEF AddressInv, TypeInv, TypeOK
  <2>6. QED
    BY <1>1, <2>3, <2>5 DEF RouterInv, Overlap
<1>3. CASE StartRelease(p, q)
  <2>1. /\ pc' = [pc EXCEPT ![p] = "relRange"]
        /\ todo' = [todo EXCEPT ![p] = pairs[q]]
        /\ pairs' = [pairs EXCEPT ![q] = {}]
        /\ pairs[q] # {}
    BY <1>3 DEF StartRelease, Goto
  <2>2. q # p /\ pc[q] = "done" /\ pairs[p] = {} /\ got[p] = {}
    BY <1>1, <2>1 DEF ProcInv, RouterInv
  <2>3. \A r \in Procs \ {p} : \A a : Claims(r, a)' => Claims(r, a)
    BY <1>1, <2>1 DEF Claims, TypeInv, TypeOK
  <2>4. \A a : Claims(p, a)' => Claims(q, a) /\ ~Claims(q, a)'
    BY <1>1, <2>1, <2>2 DEF Claims, TypeInv, TypeOK
  <2>5. \A r \in Procs : ProcInv(r)'
    BY <1>1, <2>1, <2>2 DEF ProcInv, RouterInv, Me, TypeInv, TypeOK
  <2>6. \A r \in Procs : Inside(r, "setRange")' => Inside(r, "setRange")
    BY <1>1, <2>1 DEF Inside, Me, TypeInv, TypeOK
  <2>7. ASSUME AddressInv PROVE AddressInv'
    <3>1. \A r, s \in Procs : \A a \in Address : Claims(r, a)' /\ Claims(s, a)' => r = s
      BY <2>3, <2>4, <2>7 DEF AddressInv
    <3>2. \A r \in Procs : \A a \in avail' : ~Claims(r, a)'
      BY <1>1, <2>3, <2>4, <2>7 DEF AddressInv
    <3>3. \A r \in Procs : \A a \in Address : Claims(r, a)' => RangeOf(a) <= iprange'
      BY <1>1, <2>3, <2>4, <2>7 DEF AddressInv
    <3>4. QED
      BY <1>1, <2>6, <2>7, <3>1, <3>2, <3>3 DEF AddressInv
  <2>8. QED
    BY <1>1, <2>5, <2>7 DEF RouterInv, Overlap
<1>4. QED
  BY <1>2, <1>3

\* A process dies, or only the node of the lock changes, or nothing does.
LEMMA QuietRouterInv ==
    ASSUME RouterInv, TypeInv',
           \A c \in Callers : phase'[c] = phase[c] \/ phase'[c] = "dead",
           UNCHANGED <<history, avail, iprange, dir, pairs, pc, locals>>
    PROVE  RouterInv'
<1> USE DEF history, locals
<1>1. \A p \in Procs : Me(p)' = Me(p) /\ Me(p) \in Callers
  BY DEF Me, Callers, RouterInv, TypeInv, TypeOK
<1>2. \A p \in Procs : ProcInv(p)'
  BY <1>1 DEF RouterInv, ProcInv
<1>3. Overlap' => Overlap
  BY DEF Overlap
<1>4. \A p \in Procs : Inside(p, "setRange")' => Inside(p, "setRange")
  BY <1>1 DEF Inside
<1>5. \A p \in Procs : \A a : Claims(p, a)' <=> Claims(p, a)
  BY DEF Claims
<1>6. AddressInv => AddressInv'
  BY <1>4, <1>5 DEF AddressInv
<1>7. QED
  BY <1>2, <1>3, <1>6 DEF RouterInv

LEMMA NextRouterInv == RouterInv /\ [Next]_vars => RouterInv'
<1> SUFFICES ASSUME RouterInv, [Next]_vars PROVE RouterInv'
  OBVIOUS
<1>1. TypeInv'
  BY NextTypeInv DEF RouterInv
<1>2. ASSUME NEW p \in Procs, Crash(p) PROVE RouterInv'
  BY <1>1, <1>2, QuietRouterInv DEF Crash
<1>3. CASE Expire
  BY <1>1, <1>3, QuietRouterInv DEF Expire, L!Expire
<1>4. CASE UNCHANGED vars
  BY <1>1, <1>4, QuietRouterInv DEF vars, lockState
<1>5. QED
  BY <1>1, <1>2, <1>3, <1>4, StepRouterInv, StartRouterInv DEF Next

LEMMA InitRouterInv == Init => RouterInv
<1> SUFFICES ASSUME Init PROVE RouterInv
  OBVIOUS
<1>1. TypeInv
  BY InitTypeInv
<1>2. \A p \in Procs : ProcInv(p) /\ \A a : ~Claims(p, a)
  BY DEF Init, ProcInv, Claims
<1>3. ~Overlap /\ \A p \in Procs : ~Inside(p, "setRange")
  BY DEF Init, L!Init, Overlap, Inside
<1>4. AddressInv
  BY <1>2, <1>3 DEF AddressInv, Init
<1>5. QED
  BY <1>1, <1>2, <1>3, <1>4 DEF RouterInv

LEMMA RouterInvUnique == RouterInv => UniqueUnlessOverlap
<1> SUFFICES ASSUME RouterInv, ~exclusionLost, ~rangeLost, NEW p \in Procs
             PROVE  /\ pairs[p] \cap avail = {}
                    /\ \A q \in Procs \ {p} : pairs[p] \cap pairs[q] = {}
  BY DEF UniqueUnlessOverlap
<1>1. AddressInv /\ \A q \in Procs : pairs[q] \subseteq Address
  BY DEF RouterInv, TypeInv, TypeOK
<1>2. \A q \in Procs : \A a \in pairs[q] : Claims(q, a)
  BY DEF Claims
<1>3. QED
  BY <1>1, <1>2 DEF AddressInv

\* Two tenants' routers never share an address and none of them has one that is
\* in the pool, however often the pool is refilled and addresses are released,
\* whatever requests fail and whichever processes die, unless two processes
\* have been inside the lock router_ip at once or a refill went on without
\* having saved its range.
THEOREM AddressesUnique == Spec => []UniqueUnlessOverlap
<1>1. QED
  BY InitRouterInv, NextRouterInv, RouterInvUnique, PTL DEF Spec

-----------------------------------------------------------------------------
\* The refinement of AddressPool.

LEMMA HeldInit == Init => AP!Init
<1> SUFFICES ASSUME Init PROVE AP!Init
  OBVIOUS
<1>1. iprange = 0 /\ avail = {} /\ ~exclusionLost /\ ~rangeLost
  BY DEF Init
<1>2. UNION {Whole(r) : r \in 1 .. iprange} = {}
  BY <1>1
<1>3. \A p \in Procs : Held(p) = {}
  BY DEF Init, Held
<1>4. QED
  BY <1>1, <1>2, <1>3 DEF AP!Init

\* What a step of one process has to do to be one of the pool's.
LEMMA PoolStep ==
    ASSUME ~exclusionLost, ~rangeLost, ~exclusionLost', ~rangeLost',
           NEW p \in Procs, NEW new,
           \A q \in Procs \ {p} : Held(q)' = Held(q),
           Held(p)' \subseteq avail \cup Held(p) \cup new,
           avail' \subseteq (avail \cup Held(p)) \ Held(p)',
           \/ new = {} /\ iprange' = iprange
           \/ new = Whole(iprange + 1) /\ iprange' = iprange + 1
    PROVE  AP!Next
<1> DEFINE held == [q \in Procs |-> Held(q)]
<1>1. held' = [held EXCEPT ![p] = Held(p)']
  OBVIOUS
<1>2. AP!Exchange(p, new)
  BY <1>1 DEF AP!Exchange
<1>3. AP!Use(p) \/ AP!OpenRange(p)
  BY <1>2 DEF AP!Use, AP!OpenRange
<1>4. QED
  BY <1>3 DEF AP!Next

\* An address that a process has not had before is from the pool or from the
\* next range.
LEMMA StepRefines ==
    ASSUME RouterInv, NEW p \in Procs, Step(p), ~exclusionLost', ~rangeLost'
    PROVE  AP!Next
<1>1. TypeInv /\ TypeInv' /\ LocalStep(p) /\ ProcInv(p)
  BY StepIsLocal, NextTypeInv DEF RouterInv, Next
<1>2. ~exclusionLost /\ ~rangeLost /\ AddressInv
  BY <1>1 DEF LocalStep, RouterInv
<1>3. Transfer(p)
  BY <1>1, <1>2, StepTransfers
<1>4. \A q \in Procs \ {p} : Held(q)' = Held(q)
  BY <1>1 DEF LocalStep, Held
<1>5. /\ Held(p)' \subseteq Address
      /\ \A a : a \in Held(p)' <=> Claims(p, a)'
      /\ \A a : a \in Held(p) <=> Claims(p, a)
  BY <1>1 DEF TypeInv, TypeOK, Held, Claims
<1>6. avail' \subseteq (avail \cup Held(p)) \ Held(p)'
  BY <1>3, <1>5 DEF Transfer
<1>7. iprange \in Nat
  BY <1>1 DEF TypeInv, TypeOK
<1>8. \A a \in Address : RangeOf(a) = iprange + 1 => a \in Whole(iprange + 1)
  BY <1>7, RouterAssumption DEF RouterAssumption, Address, RangeOf, Whole, Pair, Pool
<1>9. CASE iprange' = iprange
  <2>1. Held(p)' \subseteq avail \cup Held(p)
    BY <1>3, <1>5, <1>7, <1>9 DEF Transfer
  <2>2. QED
    BY <1>2, <1>4, <1>6, <1>9, <2>1, PoolStep
<1>10. CASE iprange' = iprange + 1
  <2>1. Held(p)' \subseteq avail \cup Held(p) \cup Whole(iprange + 1)
    BY <1>3, <1>5, <1>8 DEF Transfer
  <2>2. QED
    BY <1>2, <1>4, <1>6, <1>10, <2>1, PoolStep
<1>11. QED
  BY <1>3, <1>9, <1>10 DEF Transfer

\* A release takes the addresses over from the tenant.
LEMMA ReleaseRefines ==
    ASSUME RouterInv, NEW p \in Procs, NEW q \in Procs, StartRelease(p, q),
           ~exclusionLost, ~rangeLost
    PROVE  AP!Next
<1>1. TypeInv /\ ProcInv(p) /\ ProcInv(q)
  BY DEF RouterInv
<1>2. /\ pc[p] = "start" /\ pairs[q] # {}
      /\ pc' = [pc EXCEPT ![p] = "relRange"]
      /\ todo' = [todo EXCEPT ![p] = pairs[q]]
      /\ pairs' = [pairs EXCEPT ![q] = {}]
      /\ UNCHANGED <<exclusionLost, rangeLost, avail, iprange, got>>
  BY DEF StartRelease, At, Goto, history
<1>3. q # p /\ pc[q] = "done" /\ pairs[p] = {} /\ got[p] = {}
  BY <1>1, <1>2 DEF ProcInv
<1>4. Held(q) = pairs[q] /\ Held(p) = {}
  BY <1>2, <1>3 DEF Held
<1>5. Held(q)' = {} /\ Held(p)' = pairs[q]
  BY <1>1, <1>2, <1>3 DEF Held, TypeInv, TypeOK
<1>6. \A r \in Procs \ {p, q} : Held(r)' = Held(r)
  BY <1>1, <1>2 DEF Held, TypeInv, TypeOK
<1> DEFINE held == [r \in Procs |-> Held(r)]
<1>7. held' = [held EXCEPT ![q] = {}, ![p] = @ \cup held[q]]
  BY <1>3, <1>4, <1>5, <1>6
<1>8. AP!HandOver(q, p)
  BY <1>2, <1>3, <1>7 DEF AP!HandOver
<1>9. QED
  BY <1>2, <1>8 DEF AP!Next

LEMMA NextRefines ==
    RouterInv /\ [Next]_vars => [AP!Next]_(AP!poolVars)
<1> SUFFICES ASSUME RouterInv, [Next]_vars PROVE [AP!Next]_(AP!poolVars)
  OBVIOUS
<1> USE DEF history, locals
<1>1. CASE exclusionLost' \/ rangeLost'
  BY <1>1 DEF AP!Next
<1>2. CASE ~(exclusionLost' \/ rangeLost')
  <2>1. ASSUME NEW p \in Procs, Step(p) PROVE AP!Next
    BY <1>2, <2>1, StepRefines
  <2>2. ASSUME NEW p \in Procs, NEW q \in Procs, StartRelease(p, q) PROVE AP!Next
    BY <1>2, <2>2, ReleaseRefines DEF StartRelease
  <2>3. ASSUME NEW p \in Procs, StartGet(p) PROVE UNCHANGED AP!poolVars
    <3>1. /\ pc' = [pc EXCEPT ![p] = "get"] /\ pc[p] = "start"
          /\ UNCHANGED <<exclusionLost, rangeLost, avail, iprange, pairs, todo, got>>
      BY <2>3 DEF StartGet, Goto, At
    <3>2. \A q \in Procs : Held(q)' = Held(q)
      BY <3>1 DEF Held, RouterInv, TypeInv, TypeOK
    <3>3. QED
      BY <3>1, <3>2 DEF AP!poolVars
  <2>4. ASSUME UNCHANGED <<history, avail, iprange, dir, pairs, pc, locals>>
        PROVE  UNCHANGED AP!poolVars
    BY <2>4 DEF AP!poolVars, Held
  <2>5. QED
    BY <2>1, <2>2, <2>3, <2>4 DEF Next, Crash, Expire, vars
<1>3. QED
  BY <1>1, <1>2

\* Until the lock has failed or a range has been lost, the three operations are
\* those of an address pool: no address is made up, doubled or brought back.
THEOREM RouterAddressesArePooled == Spec => ImplementsPool
<1>1. RouterInv /\ [Next]_vars => RouterInv'
  BY NextRouterInv
<1>2. QED
  BY <1>1, InitRouterInv, HeldInit, NextRefines, PTL DEF Spec, ImplementsPool, AP!Spec
=============================================================================
