-------------------------- MODULE MCTenantNetwork ---------------------------
\* Finite instances of TenantNetwork.
EXTENDS TenantNetwork, TLC

AllFaults == {"etcd", "midonet", "config", "crash"}
NoFaults == {}

Symmetry == Permutations(Procs)
=============================================================================
