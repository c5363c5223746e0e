------------------------------ MODULE MCRuntime ------------------------------
(* What lives on beside the connections: ContextSwitching, where switches and *)
(* credential failures meet refreshes, a watch request or a metrics request;  *)
(* ClusterRuntime's selections and its collectors; OperationRegistry's views; *)
(* ServerLifecycle's sockets among each other, and one session's requests.    *)
(* They share no state, so a run explores each by itself (focus); what is not *)
(* explored has nothing under way.                                            *)
EXTENDS ContextSwitching, ClusterRuntime, OperationRegistry, ServerLifecycle

CONSTANTS east, west, job, web, pods, nodes, c1

VARIABLE focus

EastThenWest == <<east, west>>
Kinds == {pods, nodes}
AllInEast == [sel \in Kinds |-> east]
OnWeb == [x \in Submissions |-> web]

(* A second operation, a replaced process or a disruption, but two of them. *)
FewTroubles == Len(engine') + process' + disruptions' <= 4

MCInit ==
  /\ focus \in {"refresh", "watch", "metrics", "selections", "collectors", "operations",
               "sockets", "requests"}
  /\ SwitchingInit /\ ClusterInit /\ RegistryInit /\ LifecycleInit

MCNext ==
  /\ UNCHANGED focus
  /\ \/ /\ focus \in {"refresh", "watch", "metrics"}
        /\ UNCHANGED <<clusterVars, recordVars, lifecycleVars>>
        /\ SwitchingNext
        /\ focus # "refresh" => UNCHANGED refresh
        /\ focus # "watch" => \A w \in Watchers : callers'[w] = callers[w]
        /\ focus # "metrics" => \A w \in Queries : callers'[w] = callers[w]
     \/ /\ focus = "selections"
        /\ UNCHANGED <<switchingVars, metricsVars, recordVars, lifecycleVars>>
        /\ ClusterNext
     \/ /\ focus = "collectors"
        /\ UNCHANGED <<switchingVars, watchVars, recordVars, lifecycleVars>>
        /\ ClusterNext
     \/ /\ focus = "operations"
        /\ UNCHANGED <<switchingVars, clusterVars, lifecycleVars>>
        /\ RegistryNext /\ FewTroubles
     \/ /\ focus \in {"sockets", "requests"}
        /\ UNCHANGED <<switchingVars, clusterVars, recordVars>>
        /\ LifecycleNext
        /\ focus = "sockets" => UNCHANGED tasks
        /\ focus = "requests" => \A x \in Sockets \ {c1} : phase'[x] = phase[x]

MCSpec ==
  /\ MCInit /\ [][MCNext]_<<focus, switchingVars, clusterVars, recordVars, lifecycleVars>>
  /\ ClusterFairness /\ RegistryFairness /\ LifecycleFairness

(* The types of all four. *)
RuntimeTypeOK == SwitchingTypeOK /\ ClusterTypeOK /\ RegistryTypeOK /\ LifecycleTypeOK
=============================================================================
