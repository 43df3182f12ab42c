---------------------------- MODULE K8sResponse ----------------------------
(***************************************************************************)
(* createK8sResponseActions (koney/k8s-response.ts): pods are isolated and *)
(* their traffic blocked by creating network policies.  A policy is named  *)
(* after the first 20 characters of the pod id, and a policy of that name  *)
(* that exists already counts as success.                                  *)
(*                                                                         *)
(* Every policy is created in the namespace `default', whatever namespace  *)
(* the pod is in, and selects by the label that StatefulSets give their    *)
(* pods.  The pod of that id in `default' is the only one it can select,   *)
(* if it has the label; if there is none, creating the policy succeeds     *)
(* all the same.                                                           *)
(***************************************************************************)
CONSTANTS
    Pods,           \* pod ids, which are names: unique within a namespace
    NoPod,
    LabelledPods,   \* ids of the pods of `default' that carry the label
    PolicyNames,
    PolicyName(_)   \* the name of a pod's policies: its truncated id

ASSUME PolicyAssumption ==
    /\ NoPod \notin Pods /\ LabelledPods \subseteq Pods
    /\ \A p \in Pods : PolicyName(p) \in PolicyNames

VARIABLES
    isolationPolicy,    \* the pod id each isolation policy selects by
    blockPolicy         \* the pod id each block policy selects by

clusterVars == <<isolationPolicy, blockPolicy>>

ClusterTypeOK ==
    /\ isolationPolicy \in [PolicyNames -> Pods \cup {NoPod}]
    /\ blockPolicy \in [PolicyNames -> Pods \cup {NoPod}]

ClusterInit ==
    /\ isolationPolicy = [n \in PolicyNames |-> NoPod]
    /\ blockPolicy = [n \in PolicyNames |-> NoPod]

\* The API server creates the policy unless its name is taken.
Created(policies, p) ==
    [policies EXCEPT ![PolicyName(p)] = IF @ = NoPod THEN p ELSE @]

IsolatePod(p) ==
    isolationPolicy' = Created(isolationPolicy, p) /\ UNCHANGED blockPolicy

BlockIp(p) ==
    blockPolicy' = Created(blockPolicy, p) /\ UNCHANGED isolationPolicy

PolicyNamespace == "default"

\* A policy can select the pod: it is in the namespace of the policies and has
\* the label.
Selectable(namespace, p) == namespace = PolicyNamespace /\ p \in LabelledPods

\* The policy named after pod id p exists and selects by that id.
Targeted(policies, p) == policies[PolicyName(p)] = p

Isolated(namespace, p) == Selectable(namespace, p) /\ Targeted(isolationPolicy, p)
Blocked(namespace, p) == Selectable(namespace, p) /\ Targeted(blockPolicy, p)
===========================================================================
