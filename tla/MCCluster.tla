------------------------------ MODULE MCCluster ------------------------------
EXTENDS Cluster, TLC

CONSTANTS a1, users

MCServiceOf == [i \in Instance |-> users]
=============================================================================
