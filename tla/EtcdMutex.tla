----------------------------- MODULE EtcdMutex ------------------------------
(***************************************************************************)
(* The distributed lock of pkg/etcd/etcd_util.go: one etcd node that Lock  *)
(* creates with a TTL and Unlock deletes.  Each action is one request to   *)
(* etcd together with the code that runs until the next one.               *)
(*                                                                         *)
(* phase[p] is where process p stands in the code:                         *)
(*   "idle"    outside Lock and Unlock, not holding                        *)
(*   "set"     about to create the node           (lock, line 132)         *)
(*   "get"     the node exists, about to read it  (lock, line 145)         *)
(*   "watch"   waiting for its removal            (lock, lines 154-162)    *)
(*   "held"    Lock has returned, the caller is in its critical section    *)
(*   "delete"  in the loop of Unlock              (lines 174-185)          *)
(*   "dead"    the process was killed                                      *)
(***************************************************************************)
EXTENDS Naturals

CONSTANTS
    Procs,            \* plugin processes; the identity m.id of a caller
    Nobody,           \* the value of a node that does not exist
    DefaultTry,       \* defaultTry: attempts of Lock and of Unlock
    MaxCalls,         \* bound: calls of Lock by one process
    FaultKinds,       \* which faults may happen: "etcd", "crash", ...
    MaxFaults,        \* bound: faults in one behaviour
    TTLCoversHolder   \* TRUE: no caller outlives the TTL of the node it created

ASSUME LockAssumption ==
    /\ Nobody \notin Procs
    /\ DefaultTry \in Nat \ {0}
    /\ MaxCalls \in Nat
    /\ MaxFaults \in Nat
    /\ TTLCoversHolder \in BOOLEAN

VARIABLES
    node,     \* value of the lock's node: the id that created it, or Nobody
    phase,    \* where each process stands
    try,      \* the loop counter of Lock or of Unlock
    calls,    \* how often each process has called Lock
    woken,    \* a delete or expire event newer than p's Get awaits p's watcher
    faults    \* faults so far

lockVars == <<node, phase, try, calls, woken, faults>>

Phases == {"idle", "set", "get", "watch", "held", "delete", "dead"}

TypeOK ==
    /\ node \in Procs \cup {Nobody}
    /\ phase \in [Procs -> Phases]
    /\ try \in [Procs -> 0 .. DefaultTry]
    /\ calls \in [Procs -> 0 .. MaxCalls]
    /\ woken \in [Procs -> BOOLEAN]
    /\ faults \in 0 .. MaxFaults

Init ==
    /\ node = Nobody
    /\ phase = [p \in Procs |-> "idle"]
    /\ try = [p \in Procs |-> 0]
    /\ calls = [p \in Procs |-> 0]
    /\ woken = [p \in Procs |-> FALSE]
    /\ faults = 0

-----------------------------------------------------------------------------
\* One more fault of kind k, while the bound allows it.
Fault(k) ==
    /\ k \in FaultKinds
    /\ faults < MaxFaults
    /\ faults' = faults + 1

Move(p, to) == phase' = [phase EXCEPT ![p] = to]

\* The node goes away: etcd reports a delete or an expire to every watcher
\* that was registered with an earlier index.
WakeWatchers == woken' = [q \in Procs |-> woken[q] \/ phase[q] = "watch"]

\* Mutant: one attempt too many.
OneMoreAttempt(p) ==
    IF try[p] <= DefaultTry
    THEN /\ Move(p, "set")
         /\ try' = [try EXCEPT ![p] = @ + 1]
    ELSE /\ Move(p, "held")
         /\ UNCHANGED try

\* lock() returned an error.  Lock tries again; after the last attempt it
\* returns its own result variable err, which nothing ever assigned: nil.
NextAttempt(p) ==
    IF try[p] < DefaultTry
    THEN /\ Move(p, "set")
         /\ try' = [try EXCEPT ![p] = @ + 1]
    ELSE /\ Move(p, "held")
         /\ UNCHANGED try

-----------------------------------------------------------------------------
\* Lock.

CallLock(p) ==
    /\ phase[p] = "idle"
    /\ calls[p] < MaxCalls
    /\ Move(p, "set")
    /\ try' = [try EXCEPT ![p] = 1]
    /\ calls' = [calls EXCEPT ![p] = @ + 1]
    /\ UNCHANGED <<node, woken, faults>>

\* Mutant: the Set without PrevExist: PrevNoExist.
SetOverwrites(p) ==
    /\ phase[p] = "set"
    /\ node' = p
    /\ Move(p, "held")
    /\ UNCHANGED <<try, calls, woken, faults>>

\* Set with PrevNoExist succeeds: the node is created with value m.id.
SetCreates(p) ==
    /\ phase[p] = "set"
    /\ node = Nobody
    /\ node' = p
    /\ Move(p, "held")
    /\ UNCHANGED <<try, calls, woken, faults>>

\* ErrorCodeNodeExist: go on to read the node.
SetExists(p) ==
    /\ phase[p] = "set"
    /\ node # Nobody
    /\ Move(p, "get")
    /\ UNCHANGED <<node, try, calls, woken, faults>>

\* The answer is lost.  The client does not repeat such a request itself, and
\* etcd may or may not have carried it out.
SetFails(p) ==
    /\ phase[p] = "set"
    /\ Fault("etcd")
    /\ node' \in {node} \cup (IF node = Nobody THEN {p} ELSE {})
    /\ NextAttempt(p)
    /\ UNCHANGED <<calls, woken>>

\* Get answers with the current index; the watcher waits for events after it.
GetFinds(p) ==
    /\ phase[p] = "get"
    /\ node # Nobody
    /\ Move(p, "watch")
    /\ woken' = [woken EXCEPT ![p] = FALSE]
    /\ UNCHANGED <<node, try, calls, faults>>

\* Mutant: a missing node is not an error and is watched all the same.
GetMissingWatches(p) ==
    /\ phase[p] = "get"
    /\ node = Nobody
    /\ Move(p, "watch")
    /\ woken' = [woken EXCEPT ![p] = FALSE]
    /\ UNCHANGED <<node, try, calls, faults>>

\* Mutant: a missing node is tried again without counting the attempt.
GetMissingUncounted(p) ==
    /\ phase[p] = "get"
    /\ node = Nobody
    /\ Move(p, "set")
    /\ UNCHANGED <<node, try, calls, woken, faults>>

\* The node went away between Set and Get: lock() returns KeyNotFound.
GetMissing(p) ==
    /\ phase[p] = "get"
    /\ node = Nobody
    /\ NextAttempt(p)
    /\ UNCHANGED <<node, calls, woken, faults>>

\* Get or the watcher's Next fails: lock() returns the error.
ReadFails(p) ==
    /\ phase[p] \in {"get", "watch"}
    /\ Fault("etcd")
    /\ NextAttempt(p)
    /\ UNCHANGED <<node, calls, woken>>

\* Mutant: the loop waits for the next event.
WatchesOn(p) ==
    /\ phase[p] = "watch"
    /\ woken[p]
    /\ woken' = [woken EXCEPT ![p] = FALSE]
    /\ UNCHANGED <<node, phase, try, calls, faults>>

\* The watcher sees a delete or an expire: lock() returns nil, and so does
\* Lock, although this process has not created the node.
WatchFires(p) ==
    /\ phase[p] = "watch"
    /\ woken[p]
    /\ Move(p, "held")
    /\ UNCHANGED <<node, try, calls, woken, faults>>

-----------------------------------------------------------------------------
\* Unlock.

EnterUnlock(p) ==
    /\ phase[p] = "held"
    /\ Move(p, "delete")
    /\ try' = [try EXCEPT ![p] = 1]
    /\ UNCHANGED <<node, calls, woken>>

CallUnlock(p) == EnterUnlock(p) /\ UNCHANGED faults

\* Delete carries no condition: it removes the node whoever created it.
DeleteRemoves(p) ==
    /\ phase[p] = "delete"
    /\ node # Nobody
    /\ node' = Nobody
    /\ WakeWatchers
    /\ Move(p, "idle")
    /\ UNCHANGED <<try, calls, faults>>

\* KeyNotFound counts as success.
DeleteMissing(p) ==
    /\ phase[p] = "delete"
    /\ node = Nobody
    /\ Move(p, "idle")
    /\ UNCHANGED <<node, try, calls, woken, faults>>

\* The answer is lost, with or without effect.  After the last attempt Unlock
\* returns the error, which every caller only logs.
DeleteFails(p) ==
    /\ phase[p] = "delete"
    /\ Fault("etcd")
    /\ \/ UNCHANGED <<node, woken>>
       \/ /\ node # Nobody
          /\ node' = Nobody
          /\ WakeWatchers
    /\ IF try[p] < DefaultTry
       THEN /\ try' = [try EXCEPT ![p] = @ + 1]
            /\ UNCHANGED phase
       ELSE /\ Move(p, "idle")
            /\ UNCHANGED try
    /\ UNCHANGED calls

-----------------------------------------------------------------------------
\* The node's TTL and the death of a process.

\* etcd removes a node whose TTL has run out.
Expire ==
    /\ node # Nobody
    /\ TTLCoversHolder => phase[node] \notin {"held", "delete"}
    /\ node' = Nobody
    /\ WakeWatchers
    /\ UNCHANGED <<phase, try, calls, faults>>

\* The process is killed; its deferred Unlock does not run.
Die(p) ==
    /\ phase[p] # "dead"
    /\ Fault("crash")
    /\ Move(p, "dead")
    /\ UNCHANGED <<node, try, calls, woken>>

-----------------------------------------------------------------------------
\* The steps of Lock and of Unlock once they have been called.
LockStep(p) ==
    \/ SetCreates(p) \/ SetExists(p) \/ SetFails(p)
    \/ GetFinds(p) \/ GetMissing(p) \/ ReadFails(p)
    \/ WatchFires(p)

UnlockStep(p) == DeleteRemoves(p) \/ DeleteMissing(p) \/ DeleteFails(p)

Next ==
    \/ \E p \in Procs :
          CallLock(p) \/ LockStep(p) \/ CallUnlock(p) \/ UnlockStep(p) \/ Die(p)
    \/ Expire

Spec == Init /\ [][Next]_lockVars

\* Requests are answered, a caller that got the lock reaches its deferred
\* Unlock, and etcd expires a node in the end.  Nobody has to call Lock, and no
\* fault has to happen.
Fairness ==
    /\ \A p \in Procs :
          /\ WF_lockVars(LockStep(p) /\ UNCHANGED faults)
          /\ WF_lockVars(CallUnlock(p))
          /\ WF_lockVars(UnlockStep(p) /\ UNCHANGED faults)
    /\ WF_lockVars(Expire)

FairSpec == Spec /\ Fairness

-----------------------------------------------------------------------------
\* Properties.

Holders == {p \in Procs : phase[p] = "held"}

\* At most one process is in the critical section: what line 66 says of Mutex.
MutualExclusion == \A p, q \in Holders : p = q

\* A process that waits for an event will get one: while the watcher of a
\* process has nothing to deliver, the node it saw or a later one still exists.
\* This is what AfterIndex: resp.Index (line 150) has to achieve.
NoLostWakeup ==
    \A p \in Procs : phase[p] = "watch" /\ ~woken[p] => node # Nobody

\* The most requests that the call p is in may still make.
RequestsLeft(p) ==
    CASE phase[p] = "set"    -> 3 * (DefaultTry - try[p]) + 3
      [] phase[p] = "get"    -> 3 * (DefaultTry - try[p]) + 2
      [] phase[p] = "watch"  -> 3 * (DefaultTry - try[p]) + 1
      [] phase[p] = "delete" -> DefaultTry - try[p] + 1
      [] OTHER               -> 0

\* The loops of Lock, lock and Unlock only get closer to their end: whatever
\* happens, a call makes one of the requests it has left or waits on, and then it
\* keeps the event that has come for it.
CallsAdvance ==
    [][\A p \in Procs : RequestsLeft(p) > 0 =>
          \/ RequestsLeft(p)' < RequestsLeft(p)
          \/ UNCHANGED <<phase[p], try[p]>> /\ (woken[p] => woken'[p])]_lockVars

\* Every call of Lock returns, whatever dies or fails meanwhile.
LockReturns ==
    \A p \in Procs :
        phase[p] \in {"set", "get", "watch"} ~> phase[p] \in {"held", "dead"}

\* Seen from its callers the mutex is the lock its comments describe.
AL == INSTANCE AbstractLock
        WITH waiting <- {p \in Procs : phase[p] \in {"set", "get", "watch"}},
             holder  <- Holders

ImplementsLock == AL!Spec
=============================================================================
