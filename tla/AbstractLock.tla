---------------------------- MODULE AbstractLock ----------------------------
(***************************************************************************)
(* What the comments of pkg/etcd/etcd_util.go promise of Mutex: "a mutual  *)
(* exclusion lock which is distributed across a cluster"; Lock blocks the  *)
(* caller "until the mutex is available", Unlock makes it available again. *)
(* EtcdMutex is compared with this contract by refinement.                 *)
(***************************************************************************)
CONSTANT Procs      \* the plugin processes that use the lock

VARIABLES waiting,  \* processes inside Lock
          holder    \* processes between the return of Lock and Unlock

absVars == <<waiting, holder>>

Init ==
    /\ waiting = {}
    /\ holder = {}

\* A process calls Lock.
Request(p) ==
    /\ p \notin waiting \cup holder
    /\ waiting' = waiting \cup {p}
    /\ UNCHANGED holder

\* Lock returns: only when nobody holds the mutex.
Acquire(p) ==
    /\ p \in waiting
    /\ holder = {}
    /\ waiting' = waiting \ {p}
    /\ holder' = {p}

\* The holder calls Unlock.
Release(p) ==
    /\ p \in holder
    /\ holder' = holder \ {p}
    /\ UNCHANGED waiting

\* A caller dies while it waits.  A holder that dies releases the mutex.
Abandon(p) ==
    /\ p \in waiting
    /\ waiting' = waiting \ {p}
    /\ UNCHANGED holder

Next == \E p \in Procs : Request(p) \/ Acquire(p) \/ Release(p) \/ Abandon(p)

Spec == Init /\ [][Next]_absVars
=============================================================================
