------------------------- MODULE MCIncidentWorkflow -------------------------
(***************************************************************************)
(* Values for the constants of IncidentWorkflow.                           *)
(***************************************************************************)
EXTENDS IncidentWorkflow

\* A context that classifies as low and one, without its namespace, that
\* classifies as medium.  The absent context is critical, which is handled like
\* high.
MCContexts ==
    {[namespace |-> "non-production", criticality |-> 1, anomaly |-> 2],
     [namespace |-> Missing, criticality |-> 5, anomaly |-> 9]}

SomePod == CHOOSE p \in Pods : TRUE

\* Every pod is accessed at path f1.  Two discovery cycles deployed a honeytoken
\* there in one pod; in the other pods there is one at another path.
AccessesIn(NamespaceOf(_)) ==
    {[namespace |-> NamespaceOf(p), pod |-> p, path |-> "f1"] : p \in Pods}

\* One pod is in the namespace of the policies and the others are not; or all are.
SpreadAccesses == AccessesIn(LAMBDA p : IF p = SomePod THEN PolicyNamespace ELSE "other")
LocalAccesses == AccessesIn(LAMBDA p : PolicyNamespace)
LocalPods == {SomePod}

MCDeployed ==
    <<NewEntry(1, SomePod, "f1"), NewEntry(2, SomePod, "f1")>>
      \o [i \in 1 .. Cardinality(Pods) - 1 |->
            NewEntry(2 + i, CHOOSE p \in Pods \ {SomePod} : TRUE, "f2")]

\* Pod ids that differ in their first 20 characters, and pod ids that do not.
DistinctName(p) == p
SharedName(p) == SomePod
===========================================================================
