---------------------------- MODULE MCRouterIpam ----------------------------
\* Finite instances of RouterIpam.
EXTENDS RouterIpam, TLC

AllFaults == {"etcd", "midonet", "crash"}
NoFaults == {}

Symmetry == Permutations(Procs)
=============================================================================
