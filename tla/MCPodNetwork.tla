---------------------------- MODULE MCPodNetwork ----------------------------
\* Finite instances of PodNetwork.
EXTENDS PodNetwork, TLC

EtcdAndCrashes == {"etcd", "crash"}
NoEtcdFaults == {"midonet", "veth", "crash"}
NoFaults == {}

Symmetry == Permutations(Procs) \cup Permutations(Containers)
=============================================================================
