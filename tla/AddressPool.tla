----------------------------- MODULE AddressPool ----------------------------
(***************************************************************************)
(* What pkg/ipam promises of its pools in etcd ("globally consistent       *)
(* address management", README.md): addresses come from one range after    *)
(* the other, and an address is in the pool, or with one owner, or lost;   *)
(* it never comes back from being lost, and no owner has one that it has   *)
(* not got from the pool, from a new range or from another owner.          *)
(*                                                                         *)
(* RouterIpam and PodNetwork are compared with this contract by            *)
(* refinement.  It ends when broken is set: when their lock has failed.    *)
(***************************************************************************)
EXTENDS Naturals

CONSTANTS
    Owners,
    AddressesOf(_)    \* the addresses of the range of that number

VARIABLES
    free,             \* the pool
    held,             \* what each owner has
    top,              \* number of ranges there have been
    broken

poolVars == <<free, held, top, broken>>

Init ==
    /\ top \in Nat
    /\ free = UNION {AddressesOf(r) : r \in 1 .. top}
    /\ held = [o \in Owners |-> {}]
    /\ broken = FALSE

\* o takes addresses out of the pool, puts some of its own there or loses some;
\* those of a new range are as if its own.
Exchange(o, new) ==
    \E mine \in SUBSET (free \cup held[o] \cup new) :
        /\ held' = [held EXCEPT ![o] = mine]
        /\ free' \subseteq (free \cup held[o]) \ mine

Use(o) == Exchange(o, {}) /\ UNCHANGED top

OpenRange(o) == Exchange(o, AddressesOf(top + 1)) /\ top' = top + 1

\* o gives everything to p.
HandOver(o, p) ==
    /\ o # p
    /\ held' = [held EXCEPT ![o] = {}, ![p] = @ \cup held[o]]
    /\ UNCHANGED <<free, top>>

Next ==
    \/ /\ ~broken /\ broken' = FALSE
       /\ \E o \in Owners :
             Use(o) \/ OpenRange(o) \/ \E p \in Owners : HandOver(o, p)
    \/ broken' = TRUE

Spec == Init /\ [][Next]_poolVars
=============================================================================
