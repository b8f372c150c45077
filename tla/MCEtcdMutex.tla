---------------------------- MODULE MCEtcdMutex -----------------------------
\* Finite instances of EtcdMutex.
EXTENDS EtcdMutex

AllFaults == {"etcd", "crash"}
NoFaults == {}
OnlyCrashes == {"crash"}
=============================================================================
