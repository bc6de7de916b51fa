---------------------------- MODULE MCPodRefresh ----------------------------
(***************************************************************************)
(* A small instance of PodRefresh: two scopes with a ConfigMap each; an    *)
(* operator pod reads both, one workload of each other kind one of them.   *)
(***************************************************************************)
EXTENDS PodRefresh

CONSTANTS scopeA, scopeB, cm1, cm2, l1, l2, l3, pod, deploy, daemon, stateful, foreign

AllKinds == [w \in Workload |->
    CASE w = pod -> "Operator" [] w = deploy -> "Deployment"
      [] w = daemon -> "DaemonSet" [] w = stateful -> "StatefulSet"
      [] OTHER -> "Foreign"]

OwnMaps == [s \in Scope |-> IF s = scopeA THEN cm1 ELSE cm2]

\* Only the second ConfigMap is read by the pod whose owner has no `controller`.
SomeReads == [w \in Workload |->
    CASE w = pod -> ConfigMap [] w = foreign -> {cm2} [] OTHER -> {cm1}]

\* The list grows to l2, then to l3, or shrinks again.
Growing == [l \in List |-> IF l = l2 THEN {l1, l3} ELSE {l2}]

SelectAll == [s \in Scope |-> Workload]
=============================================================================
