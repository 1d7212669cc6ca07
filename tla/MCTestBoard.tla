---------------------------- MODULE MCTestBoard ----------------------------
(***************************************************************************)
(* Instances of TestBoard for TLC: one pod of the suite left, of two nodes; *)
(* two left of five, one of which has the name of the pod of HostNetwork;   *)
(* and none, when all pods were pending for too long.                      *)
(***************************************************************************)
EXTENDS TestBoard

MCClusters == {<<"pod-1">>, <<"pod-1", "pod-5">>, <<>>}

\* The bandwidth test brings two pods of its own, which stay in the model: it
\* runs with the smaller clusters.
MCInit == Init /\ ("Bandwidth" \in selected => Len(namespace.suite) <= 1)

MCSpec == MCInit /\ [][Next]_vars

\* Bound: once they were all waited for, at most one pod is without its IPs.
FewLackIPs ==
  pc \in {"waitPods", "pending"} \/ Cardinality(Modelled \ addressed) <= 1
=============================================================================
