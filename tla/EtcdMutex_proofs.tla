--------------------------- MODULE EtcdMutex_proofs -------------------------
(***************************************************************************)
(* Theorems about EtcdMutex, for any set of processes.                     *)
(***************************************************************************)
EXTENDS EtcdMutex, TLAPS

-----------------------------------------------------------------------------
\* Types.

LEMMA InitTypeOK == Init => TypeOK
BY LockAssumption DEF Init, TypeOK, Phases, LockAssumption

LEMMA StepTypeOK == TypeOK /\ [Next]_lockVars => TypeOK'
<1> SUFFICES ASSUME TypeOK, [Next]_lockVars PROVE TypeOK'
  OBVIOUS
<1> USE LockAssumption DEF LockAssumption, TypeOK, Phases, Move, Fault
<1>1. ASSUME NEW p \in Procs, CallLock(p) PROVE TypeOK'
  BY <1>1 DEF CallLock
<1>2. ASSUME NEW p \in Procs, LockStep(p) PROVE TypeOK'
  <2>1. CASE SetCreates(p) \/ SetExists(p) \/ GetFinds(p) \/ WatchFires(p)
    BY <2>1 DEF SetCreates, SetExists, GetFinds, WatchFires
  <2>2. CASE SetFails(p)
    BY <2>2 DEF SetFails, NextAttempt
  <2>3. CASE GetMissing(p) \/ ReadFails(p)
    BY <2>3 DEF GetMissing, ReadFails, NextAttempt
  <2>4. QED
    BY <1>2, <2>1, <2>2, <2>3 DEF LockStep
<1>3. ASSUME NEW p \in Procs, CallUnlock(p) PROVE TypeOK'
  BY <1>3 DEF CallUnlock, EnterUnlock
<1>4. ASSUME NEW p \in Procs, UnlockStep(p) PROVE TypeOK'
  <2>1. CASE DeleteRemoves(p) \/ DeleteMissing(p)
    BY <2>1 DEF DeleteRemoves, DeleteMissing, WakeWatchers
  <2>2. CASE DeleteFails(p)
    <3>1. woken' \in [Procs -> BOOLEAN]
      BY <2>2, Zenon DEF DeleteFails, WakeWatchers
    <3>2. node' \in Procs \cup {Nobody}
      BY <2>2 DEF DeleteFails
    <3>3. phase' \in [Procs -> Phases] /\ try' \in [Procs -> 0 .. DefaultTry]
      BY <2>2 DEF DeleteFails
    <3>4. calls' = calls /\ faults' \in 0 .. MaxFaults
      BY <2>2 DEF DeleteFails
    <3>5. QED
      BY <3>1, <3>2, <3>3, <3>4
  <2>3. QED
    BY <1>4, <2>1, <2>2 DEF UnlockStep
<1>5. ASSUME NEW p \in Procs, Die(p) PROVE TypeOK'
  BY <1>5 DEF Die
<1>6. CASE Expire
  BY <1>6 DEF Expire, WakeWatchers
<1>7. CASE UNCHANGED lockVars
  BY <1>7 DEF lockVars
<1>8. QED
  BY <1>1, <1>2, <1>3, <1>4, <1>5, <1>6, <1>7 DEF Next

\* The type invariant: in particular Lock and Unlock never count further than
\* defaultTry.
THEOREM TypeCorrect == Spec => []TypeOK
<1>1. QED
  BY InitTypeOK, StepTypeOK, PTL DEF Spec

-----------------------------------------------------------------------------
\* The watcher.

LEMMA StepNoLostWakeup ==
    TypeOK /\ NoLostWakeup /\ [Next]_lockVars => NoLostWakeup'
<1> SUFFICES ASSUME TypeOK, NoLostWakeup, [Next]_lockVars,
                    NEW q \in Procs, phase'[q] = "watch", ~woken'[q]
             PROVE  node' # Nobody
  BY DEF NoLostWakeup
<1>1. phase \in [Procs -> Phases] /\ woken \in [Procs -> BOOLEAN]
  BY DEF TypeOK
<1> USE DEF Move, Fault
<1>2. ASSUME NEW p \in Procs, CallLock(p) PROVE node' # Nobody
  BY <1>1, <1>2 DEF CallLock, NoLostWakeup
<1>3. ASSUME NEW p \in Procs, LockStep(p) PROVE node' # Nobody
  <2>1. CASE SetCreates(p) \/ SetExists(p) \/ WatchFires(p)
    BY <1>1, <2>1, LockAssumption
    DEF SetCreates, SetExists, WatchFires, NoLostWakeup, LockAssumption
  <2>2. CASE GetFinds(p)
    BY <1>1, <2>2 DEF GetFinds, NoLostWakeup
  <2>3. CASE SetFails(p)
    BY <1>1, <2>3, LockAssumption
    DEF SetFails, NextAttempt, NoLostWakeup, LockAssumption
  <2>4. CASE GetMissing(p) \/ ReadFails(p)
    BY <1>1, <2>4 DEF GetMissing, ReadFails, NextAttempt, NoLostWakeup
  <2>5. QED
    BY <1>3, <2>1, <2>2, <2>3, <2>4 DEF LockStep
<1>4. ASSUME NEW p \in Procs, CallUnlock(p) PROVE node' # Nobody
  BY <1>1, <1>4 DEF CallUnlock, EnterUnlock, NoLostWakeup
<1>5. ASSUME NEW p \in Procs, UnlockStep(p) PROVE node' # Nobody
  \* Whoever was watching when the node went away has been woken.
  <2>1. ASSUME WakeWatchers, phase'[q] = phase[q] \/ phase'[q] = "idle" PROVE FALSE
    BY <2>1, Zenon DEF WakeWatchers
  <2>2. CASE DeleteRemoves(p)
    BY <1>1, <2>1, <2>2 DEF DeleteRemoves
  <2>3. CASE DeleteMissing(p)
    BY <1>1, <2>3 DEF DeleteMissing, NoLostWakeup
  <2>4. CASE DeleteFails(p)
    BY <1>1, <2>1, <2>4 DEF DeleteFails, NoLostWakeup
  <2>5. QED
    BY <1>5, <2>2, <2>3, <2>4 DEF UnlockStep
<1>6. ASSUME NEW p \in Procs, Die(p) PROVE node' # Nobody
  BY <1>1, <1>6 DEF Die, NoLostWakeup
<1>7. CASE Expire
  <2>1. phase'[q] = phase[q] /\ woken'[q]
    BY <1>7, Zenon DEF Expire, WakeWatchers
  <2>2. QED
    BY <2>1
<1>8. CASE UNCHANGED lockVars
  BY <1>8 DEF lockVars, NoLostWakeup
<1>9. QED
  BY <1>2, <1>3, <1>4, <1>5, <1>6, <1>7, <1>8 DEF Next

\* Whatever fails or dies, a process inside watcher.Next has an event to come:
\* the event it needs has been delivered or its node still exists.
THEOREM WaitersAreWoken == Spec => []NoLostWakeup
<1>1. Init => NoLostWakeup
  BY DEF Init, NoLostWakeup
<1>2. QED
  BY <1>1, StepNoLostWakeup, TypeCorrect, PTL DEF Spec

-----------------------------------------------------------------------------
\* The loops.

\* What one step does to the call that process q is in.
Advances(q) ==
    RequestsLeft(q) > 0 =>
        \/ RequestsLeft(q)' < RequestsLeft(q)
        \/ UNCHANGED <<phase[q], try[q]>> /\ (woken[q] => woken'[q])

LEMMA StepAdvances ==
    ASSUME TypeOK, [Next]_lockVars, NEW q \in Procs
    PROVE  Advances(q)
<1>1. /\ phase \in [Procs -> Phases] /\ woken \in [Procs -> BOOLEAN]
      /\ try \in [Procs -> 0 .. DefaultTry] /\ DefaultTry \in Nat \ {0}
  BY LockAssumption DEF TypeOK, LockAssumption
<1> USE <1>1 DEF Advances, RequestsLeft, Move
<1>2. ASSUME NEW p \in Procs, CallLock(p) \/ CallUnlock(p) PROVE Advances(q)
  BY <1>2 DEF CallLock, CallUnlock, EnterUnlock
<1>3. ASSUME NEW p \in Procs, LockStep(p) PROVE Advances(q)
  <2>1. CASE SetCreates(p) \/ SetExists(p) \/ WatchFires(p)
    BY <2>1 DEF SetCreates, SetExists, WatchFires
  <2>2. CASE GetFinds(p)
    BY <2>2 DEF GetFinds
  <2>3. CASE SetFails(p) \/ GetMissing(p) \/ ReadFails(p)
    <3>1. phase[p] \in {"set", "get", "watch"} /\ NextAttempt(p) /\ woken' = woken
      BY <2>3 DEF SetFails, GetMissing, ReadFails
    <3>2. CASE try[p] < DefaultTry
      BY <3>1, <3>2 DEF NextAttempt
    <3>3. CASE ~(try[p] < DefaultTry)
      BY <3>1, <3>3 DEF NextAttempt
    <3>4. QED
      BY <3>2, <3>3
  <2>4. QED
    BY <1>3, <2>1, <2>2, <2>3 DEF LockStep
<1>4. ASSUME NEW p \in Procs, UnlockStep(p) PROVE Advances(q)
  <2>1. ASSUME WakeWatchers PROVE woken[q] => woken'[q]
    BY <2>1, Zenon DEF WakeWatchers
  <2>2. CASE DeleteRemoves(p) \/ DeleteMissing(p)
    BY <2>1, <2>2 DEF DeleteRemoves, DeleteMissing
  <2>3. CASE DeleteFails(p)
    BY <2>1, <2>3 DEF DeleteFails
  <2>4. QED
    BY <1>4, <2>2, <2>3 DEF UnlockStep
<1>5. ASSUME NEW p \in Procs, Die(p) PROVE Advances(q)
  BY <1>5 DEF Die
<1>6. CASE Expire
  <2>1. woken[q] => woken'[q]
    BY <1>6, Zenon DEF Expire, WakeWatchers
  <2>2. QED
    BY <1>6, <2>1 DEF Expire
<1>7. CASE UNCHANGED lockVars
  BY <1>7 DEF lockVars
<1>8. QED
  BY <1>2, <1>3, <1>4, <1>5, <1>6, <1>7 DEF Next

\* Lock sends at most three requests for each of its attempts and Unlock one,
\* whatever other processes do and whatever fails: no step takes a call back.
THEOREM LoopsEnd == Spec => CallsAdvance
<1>1. TypeOK /\ [Next]_lockVars =>
         [\A p \in Procs : RequestsLeft(p) > 0 =>
            \/ RequestsLeft(p)' < RequestsLeft(p)
            \/ UNCHANGED <<phase[p], try[p]>> /\ (woken[p] => woken'[p])]_lockVars
  BY StepAdvances DEF Advances
<1>2. QED
  BY <1>1, TypeCorrect, PTL DEF Spec, CallsAdvance

-----------------------------------------------------------------------------
\* Two callers, each of which calls Lock once, without errors of etcd and
\* without an expiry under a living caller: there the mutex excludes.  (TLC
\* shows with three callers, and with errors, that it does not in general.)

PairAssumption ==
    /\ \A p, q, r \in Procs : p = q \/ q = r \/ p = r
    /\ MaxCalls = 1
    /\ "etcd" \notin FaultKinds
    /\ TTLCoversHolder

\* p will not call Lock or Unlock any more.
Finished(p) == phase[p] = "dead" \/ (phase[p] = "idle" /\ calls[p] = MaxCalls)

\* A process has called Lock if it is inside it or beyond; the node belongs to
\* a process that has the lock or died with it; and a process that is told to
\* wait, or that has been let in, finds the node the other's or the other gone.
PairInv ==
    /\ \A p \in Procs : phase[p] \notin {"idle", "dead"} => calls[p] = MaxCalls
    /\ \A p \in Procs : node = p => phase[p] \in {"held", "delete", "dead"}
    /\ \A p, q \in Procs : p # q =>
          /\ phase[p] \in {"get", "watch"} => node = q \/ Finished(q)
          /\ phase[p] = "watch" /\ woken[p] => Finished(q)
          /\ phase[p] \in {"held", "delete"} => node = p \/ Finished(q)

PairInvariant == TypeOK /\ PairInv
\* Each step keeps PairInv.
LEMMA StepPairInv ==
    ASSUME PairAssumption, PairInvariant, [Next]_lockVars
    PROVE  PairInv'
<1> USE LockAssumption
    DEF LockAssumption, PairAssumption, PairInvariant, PairInv, TypeOK, Phases, Move, Fault
<1>1. ASSUME NEW p \in Procs, CallLock(p) PROVE PairInv'
  BY <1>1 DEF CallLock, Finished
<1>2. ASSUME NEW p \in Procs, LockStep(p) PROVE PairInv'
  <2>1. CASE SetCreates(p)
    BY <2>1 DEF SetCreates, Finished
  <2>2. CASE SetExists(p)
    BY <2>2 DEF SetExists, Finished
  <2>3. CASE GetFinds(p)
    BY <2>3 DEF GetFinds, Finished
  <2>4. CASE GetMissing(p)
    BY <2>4 DEF GetMissing, NextAttempt, Finished
  <2>5. CASE WatchFires(p)
    BY <2>5 DEF WatchFires, Finished
  <2>6. ~SetFails(p) /\ ~ReadFails(p)
    BY DEF SetFails, ReadFails
  <2>7. QED
    BY <1>2, <2>1, <2>2, <2>3, <2>4, <2>5, <2>6 DEF LockStep
<1>3. ASSUME NEW p \in Procs, CallUnlock(p) PROVE PairInv'
  BY <1>3 DEF CallUnlock, EnterUnlock, Finished
<1>4. ASSUME NEW p \in Procs, UnlockStep(p) PROVE PairInv'
  <2>1. CASE DeleteRemoves(p)
    BY <2>1 DEF DeleteRemoves, Finished
  <2>2. CASE DeleteMissing(p)
    BY <2>2 DEF DeleteMissing, Finished
  <2>3. ~DeleteFails(p)
    BY DEF DeleteFails
  <2>4. QED
    BY <1>4, <2>1, <2>2, <2>3 DEF UnlockStep
<1>5. ASSUME NEW p \in Procs, Die(p) PROVE PairInv'
  BY <1>5 DEF Die, Finished
<1>6. CASE Expire
  BY <1>6 DEF Expire, Finished
<1>7. CASE UNCHANGED lockVars
  BY <1>7 DEF lockVars, Finished
<1>8. QED
  BY <1>1, <1>2, <1>3, <1>4, <1>5, <1>6, <1>7 DEF Next
LEMMA PairInvariantHolds ==
    ASSUME PairAssumption
    PROVE  Spec => []PairInvariant
<1>1. Init => PairInvariant
  BY InitTypeOK, LockAssumption
  DEF Init, PairInvariant, PairInv, Finished, LockAssumption
<1>2. PairInvariant /\ [Next]_lockVars => PairInvariant'
  BY StepTypeOK, StepPairInv DEF PairInvariant
<1>3. QED
  BY <1>1, <1>2, PTL DEF Spec

LEMMA PairExcludes ==
    ASSUME PairInvariant
    PROVE  MutualExclusion
BY DEF PairInvariant, PairInv, MutualExclusion, Holders, Finished, TypeOK

\* At most one of two callers is in the critical section.
THEOREM PairMutualExclusion ==
    ASSUME PairAssumption
    PROVE  Spec => []MutualExclusion
<1>1. QED
  BY PairInvariantHolds, PairExcludes, PTL

-----------------------------------------------------------------------------
\* For two callers the mutex is a lock: every step is a step of AbstractLock,
\* or changes nothing that its callers can see.

Waiting == {p \in Procs : phase[p] \in {"set", "get", "watch"}}

\* What a step of one process does to the two sets.
LEMMA MoveRefines ==
    ASSUME PairInvariant, NEW p \in Procs, NEW to \in Phases, Move(p, to),
           \/ phase[p] = "idle" /\ to = "set"
           \/ phase[p] \in {"set", "get", "watch"} /\ to \in {"set", "get", "watch", "dead"}
           \/ phase[p] \in {"set", "get", "watch"} /\ to = "held" /\ Holders = {}
           \/ phase[p] = "held" /\ to \in {"delete", "dead"}
           \/ phase[p] \in {"idle", "delete"} /\ to \in {"idle", "delete", "dead"}
    PROVE  [AL!Next]_(AL!absVars)
<1> DEFINE W == Waiting
           H == Holders
<1>1. /\ W' = {q \in Procs : (IF q = p THEN to ELSE phase[q]) \in {"set", "get", "watch"}}
      /\ H' = {q \in Procs : (IF q = p THEN to ELSE phase[q]) = "held"}
  BY DEF PairInvariant, TypeOK, Move, Waiting, Holders
<1>2. CASE phase[p] = "idle" /\ to = "set"
  <2>1. p \notin W \cup H /\ W' = W \cup {p} /\ H' = H
    BY <1>1, <1>2 DEF Waiting, Holders
  <2>2. AL!Request(p)
    BY <2>1 DEF AL!Request, Waiting, Holders
  <2>3. QED
    BY <2>2 DEF AL!Next
<1>3. CASE phase[p] \in {"set", "get", "watch"} /\ to \in {"set", "get", "watch"}
  <2>1. W' = W /\ H' = H
    BY <1>1, <1>3 DEF Waiting, Holders
  <2>2. QED
    BY <2>1 DEF AL!absVars, Waiting, Holders
<1>4. CASE phase[p] \in {"set", "get", "watch"} /\ to = "dead"
  <2>1. p \in W /\ W' = W \ {p} /\ H' = H
    BY <1>1, <1>4 DEF Waiting, Holders
  <2>2. AL!Abandon(p)
    BY <2>1 DEF AL!Abandon, Waiting, Holders
  <2>3. QED
    BY <2>2 DEF AL!Next
<1>5. CASE phase[p] \in {"set", "get", "watch"} /\ to = "held" /\ Holders = {}
  <2>1. p \in W /\ H = {} /\ W' = W \ {p} /\ H' = {p}
    BY <1>1, <1>5 DEF Waiting, Holders
  <2>2. AL!Acquire(p)
    BY <2>1 DEF AL!Acquire, Waiting, Holders
  <2>3. QED
    BY <2>2 DEF AL!Next
<1>6. CASE phase[p] = "held" /\ to \in {"delete", "dead"}
  <2>1. p \in H /\ W' = W /\ H' = H \ {p}
    BY <1>1, <1>6 DEF Waiting, Holders
  <2>2. AL!Release(p)
    BY <2>1 DEF AL!Release, Waiting, Holders
  <2>3. QED
    BY <2>2 DEF AL!Next
<1>7. CASE phase[p] \in {"idle", "delete"} /\ to \in {"idle", "delete", "dead"}
  <2>1. W' = W /\ H' = H
    BY <1>1, <1>7 DEF Waiting, Holders
  <2>2. QED
    BY <2>1 DEF AL!absVars, Waiting, Holders
<1>8. QED
  BY <1>2, <1>3, <1>4, <1>5, <1>6, <1>7
LEMMA UnseenRefines ==
    ASSUME UNCHANGED phase
    PROVE  [AL!Next]_(AL!absVars)
BY DEF AL!absVars, Waiting, Holders

\* Lock returns only when nobody is inside.
LEMMA EntersAlone ==
    ASSUME PairAssumption, PairInvariant, NEW p \in Procs,
           SetCreates(p) \/ WatchFires(p) \/ GetMissing(p)
    PROVE  Holders = {}
<1> SUFFICES ASSUME NEW q \in Procs, phase[q] = "held" PROVE FALSE
  BY DEF Holders
<1>1. p # q /\ ~Finished(p)
  BY DEF SetCreates, WatchFires, GetMissing, Finished
<1>2. node = q /\ ~Finished(q)
  BY <1>1 DEF PairInvariant, PairInv, Finished
<1>3. QED
  BY <1>1, <1>2, LockAssumption
  DEF SetCreates, WatchFires, GetMissing, PairInvariant, PairInv, LockAssumption

LEMMA StepRefines ==
    ASSUME PairAssumption, PairInvariant, [Next]_lockVars
    PROVE  [AL!Next]_(AL!absVars)
<1> USE DEF Phases
<1>1. ASSUME NEW p \in Procs, CallLock(p) PROVE [AL!Next]_(AL!absVars)
  BY <1>1, MoveRefines DEF CallLock
<1>2. ASSUME NEW p \in Procs, LockStep(p) PROVE [AL!Next]_(AL!absVars)
  <2>1. CASE SetCreates(p)
    BY <2>1, MoveRefines, EntersAlone DEF SetCreates
  <2>2. CASE SetExists(p)
    BY <2>2, MoveRefines DEF SetExists
  <2>3. CASE GetFinds(p)
    BY <2>3, MoveRefines DEF GetFinds
  <2>4. CASE GetMissing(p)
    BY <2>4, MoveRefines, EntersAlone DEF GetMissing, NextAttempt
  <2>5. CASE WatchFires(p)
    BY <2>5, MoveRefines, EntersAlone DEF WatchFires
  <2>6. ~SetFails(p) /\ ~ReadFails(p)
    BY DEF SetFails, ReadFails, Fault, PairAssumption
  <2>7. QED
    BY <1>2, <2>1, <2>2, <2>3, <2>4, <2>5, <2>6 DEF LockStep
<1>3. ASSUME NEW p \in Procs, CallUnlock(p) PROVE [AL!Next]_(AL!absVars)
  BY <1>3, MoveRefines DEF CallUnlock, EnterUnlock
<1>4. ASSUME NEW p \in Procs, UnlockStep(p) PROVE [AL!Next]_(AL!absVars)
  <2>1. CASE DeleteRemoves(p) \/ DeleteMissing(p)
    BY <2>1, MoveRefines DEF DeleteRemoves, DeleteMissing
  <2>2. ~DeleteFails(p)
    BY DEF DeleteFails, Fault, PairAssumption
  <2>3. QED
    BY <1>4, <2>1, <2>2 DEF UnlockStep
<1>5. ASSUME NEW p \in Procs, Die(p) PROVE [AL!Next]_(AL!absVars)
  BY <1>5, MoveRefines DEF Die, PairInvariant, TypeOK
<1>6. CASE Expire
  BY <1>6, UnseenRefines DEF Expire
<1>7. CASE UNCHANGED lockVars
  BY <1>7, UnseenRefines DEF lockVars
<1>8. QED
  BY <1>1, <1>2, <1>3, <1>4, <1>5, <1>6, <1>7 DEF Next

\* Seen from two callers the mutex implements the lock of its comments.
THEOREM PairImplementsLock ==
    ASSUME PairAssumption
    PROVE  Spec => ImplementsLock
<1>1. Init => AL!Init
  BY DEF Init, AL!Init, Holders
<1>2. PairInvariant /\ [Next]_lockVars => [AL!Next]_(AL!absVars)
  BY StepRefines
<1>3. QED
  BY <1>1, <1>2, PairInvariantHolds, PTL DEF Spec, ImplementsLock, AL!Spec
=============================================================================
